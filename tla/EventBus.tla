------------------------------- MODULE EventBus -------------------------------
(***************************************************************************)
(* The events of one meeting on their way to the clients: publish, the     *)
(* table and the memory of the bus, and the handshake of a WebSocket,      *)
(* which replays, drains its queue and then serves.                        *)
(*                                                                         *)
(* A handler is called subscribed from bus.subscribe to its end.  The bus  *)
(* keeps its events sorted, so its memory is a set here, ordered by seq.   *)
(***************************************************************************)
EXTENDS Integers, FiniteSets, Sequences

CONSTANTS
    Publishes,   \* bound: how many calls of publish there are
    Clients,     \* WebSocket handlers, one connection at a time each
    Readers,     \* GET handlers of events and traces
    HistoryMax,  \* _MAX_HISTORY_PER_MEETING
    QueueMax     \* WS_QUEUE_MAXSIZE

ASSUME HistoryMaxAssumption == HistoryMax \in Nat \ {0}
ASSUME QueueMaxAssumption == QueueMax \in Nat \ {0}
ASSUME PublishesAssumption == Publishes \in Nat

\* Calls of publish, in the order in which they come to the database.
Events == 1..Publishes

VARIABLES
    stage,    \* how far a publish is
    seq,      \* event.seq
    nextSeq,  \* the sequence of the table events
    table,    \* the committed rows of the meeting
    history,  \* _history of the meeting, the empty set when there is none
    conn,     \* the WebSocket handlers
    reader    \* rows a GET handler reads to refill the memory

vars == <<stage, seq, nextSeq, table, history, conn, reader>>

Stages  == {"new", "numbered", "saved", "out", "gone"}
Settled == {"saved", "out", "gone"}
Reading == {"asking", "restoring", "counting"}
ConnPCs == {"off", "loading", "replaying", "draining", "live"} \cup Reading

\* rows: what the database answered, if it has.  The last three are not in the code:
\* warm, the memory has been there since the handler subscribed; owed, what it has
\* still to send: what was to be replayed, and what came since, not overtaken;
\* withheld, what the rate limit kept from the client.
Off == [pc |-> "off", from |-> 0, cutoff |-> 0, answered |-> FALSE, rows |-> {},
        replay |-> {}, queue |-> <<>>, owed |-> {}, withheld |-> {}, warm |-> FALSE]

Init == /\ stage = [e \in Events |-> "new"]
        /\ seq = [e \in Events |-> 0]
        /\ nextSeq = 0
        /\ table = {} /\ history = {}
        /\ conn = [c \in Clients |-> Off]
        /\ reader = [r \in Readers |-> [pc |-> "idle", rows |-> {}]]

-----------------------------------------------------------------------------
\* The greatest number of a set of events; 0 if there are none, as in last_seq.
Last(S) == IF S = {} THEN 0
           ELSE seq[CHOOSE e \in S : \A f \in S : seq[f] <= seq[e]]

After(S, n) == {e \in S : seq[e] > n}

\* The HistoryMax events with the greatest numbers.
Newest(S, number) ==
    {e \in S : Cardinality({f \in S : number[f] > number[e]}) < HistoryMax}

Due(e, n) == IF \A f \in history : seq[f] < n THEN {e} ELSE {}

\* Mutant: the queue has no bound.
QueuedUnbounded(cn, e, due) ==
    [cn EXCEPT !.queue = Append(@, e), !.owed = @ \cup due]

\* put_nowait of a subscriber; a full queue forgets its oldest event.  The event
\* is due if no other overtook it.
Queued(cn, e, due) ==
    LET full == Len(cn.queue) = QueueMax
    IN  [cn EXCEPT !.queue = Append(IF full THEN Tail(@) ELSE @, e),
                   !.owed = (IF full THEN @ \ {Head(cn.queue)} ELSE @)
                                \cup due]

\* Mutant: numbers are not compared.
LocalDispatchTwice(e, n) ==
    /\ seq' = [seq EXCEPT ![e] = n]
    /\ stage' = [stage EXCEPT ![e] = "out"]
    /\ history' = Newest(history \cup {e}, seq')
    /\ conn' = [c \in Clients |->
                  IF conn[c].pc = "off" THEN conn[c]
                  ELSE Queued(conn[c], e, Due(e, n))]

\* _local_dispatch of e under number n: an event of that number in memory, and
\* nobody is told.
LocalDispatch(e, n) ==
    /\ seq' = [seq EXCEPT ![e] = n]
    /\ stage' = [stage EXCEPT ![e] = "out"]
    /\ IF \E f \in history : seq[f] = n
       THEN UNCHANGED <<history, conn>>
       ELSE /\ history' = Newest(history \cup {e}, seq')
            /\ conn' = [c \in Clients |->
                          IF conn[c].pc = "off" THEN conn[c]
                          ELSE Queued(conn[c], e, Due(e, n))]

-----------------------------------------------------------------------------
(* publish: the row is inserted, then committed, then the coroutine goes   *)
(* on.  publish_batch does as many at once.                                *)

IsNext(e) == \A f \in Events : f < e => stage[f] # "new"

Insert(e) ==
    /\ stage[e] = "new" /\ IsNext(e)
    /\ stage' = [stage EXCEPT ![e] = "numbered"]
    /\ seq' = [seq EXCEPT ![e] = nextSeq]
    /\ nextSeq' = nextSeq + 1
    /\ UNCHANGED <<table, history, conn, reader>>

Commit(e) ==
    /\ stage[e] = "numbered"
    /\ stage' = [stage EXCEPT ![e] = "saved"]
    /\ table' = table \cup {e}
    /\ UNCHANGED <<seq, nextSeq, history, conn, reader>>

Dispatch(e) ==
    /\ stage[e] = "saved"
    /\ LocalDispatch(e, seq[e])
    /\ UNCHANGED <<nextSeq, table, reader>>

\* The database fails: the next number of the memory has to do.
SaveFails(e) ==
    /\ stage[e] \in {"new", "numbered"} /\ IsNext(e)
    /\ LocalDispatch(e, IF history = {} THEN 0 ELSE Last(history) + 1)
    /\ UNCHANGED <<nextSeq, table, reader>>

-----------------------------------------------------------------------------
(* The memory.                                                             *)

Cold(cn) == [cn EXCEPT !.warm = FALSE]

\* The end of _restore_from_db: rows replace whatever the memory has by now.
Restored(rows) == history' = IF rows = {} THEN history ELSE rows

\* GET, with nothing in memory.
ReadStart(r) ==
    /\ reader[r].pc = "idle" /\ history = {}
    /\ reader' = [reader EXCEPT ![r].pc = "asked"]
    /\ UNCHANGED <<stage, seq, nextSeq, table, history, conn>>

ReadRows(r) ==
    /\ reader[r].pc = "asked"
    /\ reader' = [reader EXCEPT ![r] = [pc |-> "read", rows |-> Newest(table, seq)]]
    /\ UNCHANGED <<stage, seq, nextSeq, table, history, conn>>

ReadEnds(r) ==
    /\ reader[r].pc = "read"
    /\ Restored(reader[r].rows)
    /\ reader' = [reader EXCEPT ![r] = [pc |-> "idle", rows |-> {}]]
    /\ conn' = [c \in Clients |-> Cold(conn[c])]
    /\ UNCHANGED <<stage, seq, nextSeq, table>>

\* cleanup_meeting_resources
Clear ==
    /\ history # {}
    /\ history' = {}
    /\ conn' = [c \in Clients |-> Cold(conn[c])]
    /\ UNCHANGED <<stage, seq, nextSeq, table, reader>>

\* The process ends and starts again.
Restart ==
    /\ stage' = [e \in Events |-> IF stage[e] \in {"numbered", "saved"} THEN "gone" ELSE stage[e]]
    /\ history' = {}
    /\ conn' = [c \in Clients |-> Off]
    /\ reader' = [r \in Readers |-> [pc |-> "idle", rows |-> {}]]
    /\ UNCHANGED <<seq, nextSeq, table>>

-----------------------------------------------------------------------------
(* The WebSocket handler.                                                  *)

Handled(c, cn) == /\ conn' = [conn EXCEPT ![c] = cn]
                  /\ UNCHANGED <<stage, seq, nextSeq, table, reader>>

Unanswered(cn) == [cn EXCEPT !.answered = FALSE, !.rows = {}]

\* replay from memory: what came after the client's last number is to be sent.
Replaying(cn, S) == [Unanswered(cn) EXCEPT !.pc = "replaying", !.replay = After(S, cn.from),
                                                 !.owed = @ \cup After(S, cn.from)]

\* Subscribed; with events in memory the handler goes on at once.  A client
\* returns with a number it has seen, or with 0.
Connect(c, from) ==
    /\ conn[c].pc = "off"
    /\ from = 0 \/ \E e \in Events : (stage[e] = "out" \/ e \in table) /\ seq[e] = from
    /\ LET cn == [Off EXCEPT !.from = from]
           hot == [cn EXCEPT !.warm = TRUE, !.cutoff = Last(history)]
       IN  \/ history = {} /\ Handled(c, [cn EXCEPT !.pc = "asking"])
           \/ history # {} /\ from = 0 /\ Handled(c, [hot EXCEPT !.pc = "loading"])
           \/ history # {} /\ from > 0 /\ Handled(c, Replaying(hot, history))
    /\ UNCHANGED history

\* The database answers last_event_seq or load_events.
Answer(c) ==
    /\ conn[c].pc \in Reading /\ ~conn[c].answered
    /\ Handled(c, [conn[c] EXCEPT !.answered = TRUE,
                                  !.rows = IF conn[c].pc = "restoring"
                                            THEN Newest(table, seq) ELSE table])
    /\ UNCHANGED history

\* subscribe_seq is known.
Asked(c) ==
    /\ conn[c].pc = "asking" /\ conn[c].answered
    /\ LET cn == [Unanswered(conn[c]) EXCEPT !.cutoff = Last(conn[c].rows)]
       IN  \/ cn.from = 0 /\ Handled(c, [cn EXCEPT !.pc = "loading"])
           \/ cn.from > 0 /\ history = {} /\ Handled(c, [cn EXCEPT !.pc = "restoring"])
           \/ cn.from > 0 /\ history # {} /\ Handled(c, Replaying(cn, history))
    /\ UNCHANGED history

Reloaded(c) ==
    /\ conn[c].pc = "restoring" /\ conn[c].answered
    /\ Restored(conn[c].rows)
    /\ conn' = [d \in Clients |-> Cold(IF d = c THEN Replaying(conn[c], conn[c].rows)
                                                ELSE conn[d])]
    /\ UNCHANGED <<stage, seq, nextSeq, table, reader>>

\* from_seq = 0: the state is loaded.  The snapshot the client is sent shows what
\* happened until now.
Snapshot(c) ==
    /\ conn[c].pc = "loading"
    /\ Handled(c, IF history = {} THEN [conn[c] EXCEPT !.pc = "counting"]
                  ELSE [conn[c] EXCEPT !.pc = "draining", !.cutoff = Last(history), !.owed = {}])
    /\ UNCHANGED history

Counted(c) ==
    /\ conn[c].pc = "counting" /\ conn[c].answered
    /\ Handled(c, [Unanswered(conn[c]) EXCEPT !.pc = "draining", !.owed = {},
                                             !.cutoff = Last(conn[c].rows)])
    /\ UNCHANGED history

\* Mutant: the cutoff is the number that replay.done reports, read after the sends.
ReplayedLater(c) ==
    /\ conn[c].pc = "replaying"
    /\ Handled(c, [conn[c] EXCEPT !.pc = "draining", !.owed = @ \ conn[c].replay,
                                  !.replay = {}, !.cutoff = Last(history)])
    /\ UNCHANGED history

\* Mutant: the drain begins when nothing is queued any more.
ReplayedQuietly(c) ==
    /\ conn[c].pc = "replaying" /\ conn[c].queue = <<>>
    /\ Handled(c, [conn[c] EXCEPT !.pc = "draining", !.owed = @ \ conn[c].replay, !.replay = {}])
    /\ UNCHANGED history

Replayed(c) ==
    /\ conn[c].pc = "replaying"
    /\ Handled(c, [conn[c] EXCEPT !.pc = "draining", !.owed = @ \ conn[c].replay, !.replay = {}])
    /\ UNCHANGED history

\* One event of those queued during the handshake; sent if the cutoff is below it.
Drain(c) ==
    /\ conn[c].pc = "draining" /\ conn[c].queue # <<>>
    /\ LET e == Head(conn[c].queue)
       IN  Handled(c, [conn[c] EXCEPT !.queue = Tail(@),
                                      !.owed = IF seq[e] > conn[c].cutoff THEN @ \ {e} ELSE @])
    /\ UNCHANGED history

GoLive(c) ==
    /\ conn[c].pc = "draining" /\ conn[c].queue = <<>>
    /\ Handled(c, [conn[c] EXCEPT !.pc = "live"])
    /\ UNCHANGED history

Deliver(c) ==
    /\ conn[c].pc = "live" /\ conn[c].queue # <<>>
    /\ Handled(c, [conn[c] EXCEPT !.queue = Tail(@), !.owed = @ \ {Head(conn[c].queue)}])
    /\ UNCHANGED history

\* Too many were sent in the last minute: the event is off the queue and never sent,
\* though the client is owed it.
Withhold(c) ==
    /\ conn[c].pc = "live" /\ conn[c].queue # <<>>
    /\ Handled(c, [conn[c] EXCEPT !.queue = Tail(@), !.withheld = @ \cup {Head(conn[c].queue)}])
    /\ UNCHANGED history

\* The client disconnects, is displaced, or the handler fails.
Leave(c) ==
    /\ conn[c].pc # "off"
    /\ Handled(c, Off)
    /\ UNCHANGED history

-----------------------------------------------------------------------------
Handler(c) == \/ Answer(c) \/ Asked(c) \/ Reloaded(c) \/ Snapshot(c) \/ Counted(c)
              \/ Replayed(c) \/ Drain(c) \/ GoLive(c) \/ Deliver(c)
              \/ Withhold(c)

Numbers == {0} \cup {seq[e] : e \in Events}

Next == \/ \E e \in Events : Insert(e) \/ Commit(e) \/ Dispatch(e) \/ SaveFails(e)
        \/ \E r \in Readers : ReadStart(r) \/ ReadRows(r) \/ ReadEnds(r)
        \/ \E c \in Clients : \/ \E from \in Numbers : Connect(c, from)
                              \/ Handler(c) \/ Leave(c)
        \/ Clear \/ Restart

Spec == Init /\ [][Next]_vars

\* The database answers, sends end, and the event loop comes back to the handler.
FairSpec == Spec /\ \A c \in Clients : WF_vars(Handler(c))

-----------------------------------------------------------------------------
\* Every variable keeps its type, and the queues their bound.
TypeOK ==
    /\ stage \in [Events -> Stages]
    /\ seq \in [Events -> Nat]
    /\ nextSeq \in Nat
    /\ table \subseteq Events /\ history \subseteq Events
    /\ conn \in [Clients -> [pc : ConnPCs, from : Nat, cutoff : Nat,
                             answered : BOOLEAN, rows : SUBSET Events, replay : SUBSET Events,
                             queue : Seq(Events), owed : SUBSET Events, withheld : SUBSET Events,
                             warm : BOOLEAN]]
    /\ \A c \in Clients : Len(conn[c].queue) <= QueueMax
    /\ reader \in [Readers -> [pc : {"idle", "asked", "read"}, rows : SUBSET Events]]

\* events.py:206: a number names one event, even where numbers of the memory and
\* of the table mix; clients use it as their cursor.
NumbersAreUnique == \A e, f \in history : seq[e] = seq[f] => e = f

InQueue(cn) == {cn.queue[i] : i \in 1..Len(cn.queue)}

\* ws.py:359: as long as the memory stays, no event falls between replay and queue.
\* What a handler owes its client is still to be replayed, or in the queue and not
\* below the cutoff, or it came up for sending and the rate limit withheld it,
\* whatever was dispatched while the handshake was sending.
OwedIsOnItsWay == \A c \in Clients : LET cn == conn[c] IN
    cn.warm /\ cn.pc \in {"replaying", "draining", "live"} =>
        cn.owed \subseteq cn.replay \cup cn.withheld
                              \cup {e \in InQueue(cn) : cn.pc = "live" \/ seq[e] > cn.cutoff}

\* ws.py:420-434: every event owed comes up for sending, although publishes may go on
\* filling the queue: the client gets it, or the outbound rate limit withholds it and
\* it never will, unless the connection ends, the memory goes, or a full queue
\* forgets the event first.
OwedIsDelivered == \A c \in Clients, e \in Events :
    conn[c].warm /\ e \in conn[c].owed
        ~> ~conn[c].warm \/ e \notin conn[c].owed \/ e \in conn[c].withheld

=============================================================================
