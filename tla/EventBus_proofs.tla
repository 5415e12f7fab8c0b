---------------------------- MODULE EventBus_proofs ----------------------------
(* Theorems about EventBus, for any number of publishes, clients, readers, *)
(* and any sizes of the memory and the queues.                             *)
EXTENDS EventBus, FiniteSetTheorems, SequenceTheorems, WellFoundedInduction, TLAPS

ConnType == [pc : ConnPCs, from : Nat, cutoff : Nat, answered : BOOLEAN,
             rows : SUBSET Events, replay : SUBSET Events,
             queue : Seq(Events), owed : SUBSET Events, withheld : SUBSET Events,
             warm : BOOLEAN]

Elements(q) == {q[i] : i \in 1..Len(q)}

\* Publishes whose number is final.
Known    == {e \in Events : stage[e] \in Settled}
Numbered == {e \in Events : stage[e] = "numbered"}

\* The parts of the inductive invariant that are not about connections.
Bounded == \E b \in Nat : \A e \in Events : seq[e] <= b

SetsKnown == /\ table \subseteq Known /\ history \subseteq Known
             /\ \A r \in Readers : reader[r].rows \subseteq table

TableNumbers == /\ \A e \in table \cup Numbered : seq[e] < nextSeq
                /\ \A e, f \in table \cup Numbered : seq[e] = seq[f] => e = f

Data == /\ stage \in [Events -> Stages]
        /\ seq \in [Events -> Nat]
        /\ nextSeq \in Nat
        /\ table \subseteq Events /\ history \subseteq Events
        /\ reader \in [Readers -> [pc : {"idle", "asked", "read"}, rows : SUBSET Events]]
        /\ conn \in [Clients -> ConnType]
        /\ Bounded /\ SetsKnown /\ TableNumbers /\ NumbersAreUnique

\* A connection, given the memory, the numbers, the known events and the table:
\* as long as it is warm, the memory has a number as great as the cutoff, and
\* what it owes is on its way.
Covered(cn, number) == cn.owed \subseteq
    cn.replay \cup cn.withheld \cup {e \in Elements(cn.queue) : cn.pc = "live" \/ number[e] > cn.cutoff}

Good(cn, memory, number, known, rows) ==
    /\ cn \in ConnType /\ Len(cn.queue) <= QueueMax
    /\ cn.rows \subseteq rows /\ cn.replay \subseteq known /\ Elements(cn.queue) \subseteq known
    /\ cn.pc \in Reading \cup {"off"} => ~cn.warm
    /\ cn.warm => memory # {}
    /\ cn.warm /\ cn.pc \in {"replaying", "draining"} => \E f \in memory : number[f] >= cn.cutoff
    /\ cn.warm /\ cn.pc \in {"replaying", "draining", "live"} => Covered(cn, number)

Inv == Data /\ \A c \in Clients : Good(conn[c], history, seq, Known, table)

-----------------------------------------------------------------------------
(* Numbers.                                                                *)

\* A set of natural numbers with a bound has a greatest member: the least of its
\* bounds.
LEMMA Greatest ==
    ASSUME NEW T \in SUBSET Nat, T # {}, NEW b \in Nat, \A n \in T : n <= b
    PROVE  \E m \in T : \A n \in T : n <= m
<1>. DEFINE B == {k \in Nat : \A n \in T : n <= k}
<1>1. IsWellFoundedOn(OpToRel(<, Nat), Nat)
  BY NatLessThanWellFounded
<1>2. B \subseteq Nat /\ B # {}
  OBVIOUS
<1>3. PICK m \in B : \A k \in B : ~(<<k, m>> \in OpToRel(<, Nat))
  BY <1>1, <1>2, WFMin
<1>4. \A k \in B : ~(k < m)
  BY <1>2, <1>3 DEF OpToRel
<1>5. m \in T
  <2>. SUFFICES ASSUME m \notin T PROVE FALSE
    OBVIOUS
  <2>1. PICK n \in T : TRUE  OBVIOUS
  <2>2. m - 1 \in Nat /\ \A k \in T : k <= m - 1
    <3>1. \A k \in T : k <= m /\ k # m /\ k \in Nat  OBVIOUS
    <3>. QED  BY <2>1, <3>1
  <2>3. m - 1 \in B  BY <2>2
  <2>. QED  BY <1>2, <1>4, <2>3
<1>. QED  BY <1>5

\* Some event of a set has the greatest number.
LEMMA Topmost ==
    ASSUME NEW number \in [Events -> Nat], NEW b \in Nat, \A e \in Events : number[e] <= b,
           NEW S \in SUBSET Events, S # {}
    PROVE  \E e \in S : \A f \in S : number[f] <= number[e]
<1>. DEFINE T == {number[e] : e \in S}
<1>1. T \in SUBSET Nat /\ T # {} /\ \A n \in T : n <= b
  OBVIOUS
<1>2. PICK m \in T : \A n \in T : n <= m
  BY <1>1, Greatest
<1>. QED  BY <1>2

\* last_seq is the greatest number.
LEMMA LastProperties ==
    ASSUME seq \in [Events -> Nat], Bounded, NEW S \in SUBSET Events
    PROVE  /\ Last(S) \in Nat
           /\ S # {} => \E e \in S : Last(S) = seq[e]
           /\ \A f \in S : seq[f] <= Last(S)
<1>1. CASE S = {}  BY <1>1 DEF Last
<1>2. CASE S # {}
  <2>1. \E e \in S : \A f \in S : seq[f] <= seq[e]
    BY <1>2, Topmost DEF Bounded
  <2>. DEFINE t == CHOOSE e \in S : \A f \in S : seq[f] <= seq[e]
  <2>2. t \in S /\ \A f \in S : seq[f] <= seq[t]  BY <2>1
  <2>3. Last(S) = seq[t]  BY <1>2 DEF Last
  <2>. QED  BY <2>2, <2>3
<1>. QED  BY <1>1, <1>2

\* Trimming keeps the greatest number.
LEMMA NewestProperties ==
    ASSUME NEW number \in [Events -> Nat], NEW b \in Nat, \A e \in Events : number[e] <= b,
           NEW S \in SUBSET Events
    PROVE  /\ Newest(S, number) \subseteq S
           /\ \A f \in S : \E g \in Newest(S, number) : number[g] >= number[f]
<1>1. Newest(S, number) \subseteq S  BY DEF Newest
<1>2. ASSUME NEW f \in S PROVE \E g \in Newest(S, number) : number[g] >= number[f]
  <2>1. PICK g \in S : \A h \in S : number[h] <= number[g]
    BY <1>2, Topmost
  <2>2. {h \in S : number[h] > number[g]} = {}
    BY <2>1
  <2>3. Cardinality({h \in S : number[h] > number[g]}) = 0
    BY <2>2, FS_EmptySet
  <2>4. g \in Newest(S, number)
    BY <2>3, HistoryMaxAssumption DEF Newest
  <2>. QED  BY <2>1, <2>4
<1>. QED  BY <1>1, <1>2

-----------------------------------------------------------------------------
(* Queues.                                                                 *)

LEMMA TailElements ==
    ASSUME NEW q \in Seq(Events), q # <<>>
    PROVE  /\ Tail(q) \in Seq(Events) /\ Len(Tail(q)) = Len(q) - 1
           /\ Head(q) \in Elements(q)
           /\ Elements(Tail(q)) \subseteq Elements(q)
           /\ \A e \in Elements(q) : e = Head(q) \/ e \in Elements(Tail(q))
<1>1. /\ Len(q) \in Nat \ {0} /\ Head(q) = q[1] /\ Tail(q) \in Seq(Events)
      /\ Len(Tail(q)) = Len(q) - 1 /\ \A i \in 1..Len(Tail(q)) : Tail(q)[i] = q[i + 1]
  BY HeadTailProperties, EmptySeq, LenProperties
<1>2. Head(q) \in Elements(q)  BY <1>1 DEF Elements
<1>3. Elements(Tail(q)) \subseteq Elements(q)
  <2>. SUFFICES ASSUME NEW i \in 1..Len(Tail(q)) PROVE Tail(q)[i] \in Elements(q)
    BY DEF Elements
  <2>1. i + 1 \in 1..Len(q)  BY <1>1
  <2>. QED  BY <1>1, <2>1 DEF Elements
<1>4. ASSUME NEW i \in 1..Len(q), q[i] # Head(q) PROVE q[i] \in Elements(Tail(q))
  <2>1. i - 1 \in 1..Len(Tail(q)) /\ (i - 1) + 1 = i  BY <1>1, <1>4
  <2>2. Tail(q)[i - 1] = q[i]  BY <1>1, <2>1
  <2>. QED  BY <2>1, <2>2 DEF Elements
<1>. QED  BY <1>1, <1>2, <1>3, <1>4 DEF Elements

LEMMA AppendElements ==
    ASSUME NEW q \in Seq(Events), NEW e \in Events
    PROVE  /\ Append(q, e) \in Seq(Events) /\ Len(Append(q, e)) = Len(q) + 1
           /\ Elements(Append(q, e)) = Elements(q) \cup {e}
<1>1. /\ Append(q, e) \in Seq(Events) /\ Len(Append(q, e)) = Len(q) + 1 /\ Len(q) \in Nat
      /\ \A i \in 1..Len(q) : Append(q, e)[i] = q[i]
      /\ Append(q, e)[Len(q) + 1] = e
  BY AppendProperties, LenProperties
<1>2. Elements(Append(q, e)) \subseteq Elements(q) \cup {e}
  <2>. SUFFICES ASSUME NEW i \in 1..Len(Append(q, e))
                PROVE  Append(q, e)[i] \in Elements(q) \cup {e}
    BY DEF Elements
  <2>1. i \in 1..Len(q) \/ i = Len(q) + 1  BY <1>1
  <2>. QED  BY <1>1, <2>1 DEF Elements
<1>3. Elements(q) \cup {e} \subseteq Elements(Append(q, e))
  <2>1. \A i \in 1..Len(q) : i \in 1..Len(Append(q, e))  BY <1>1
  <2>2. Len(q) + 1 \in 1..Len(Append(q, e))  BY <1>1
  <2>. QED  BY <1>1, <2>1, <2>2 DEF Elements
<1>. QED  BY <1>1, <1>2, <1>3

\* A subscriber puts an event into its queue: it owes it, if it was in order, and
\* does not owe any longer what the queue forgot.
LEMMA QueuedProperties ==
    ASSUME NEW cn \in ConnType, NEW e \in Events, NEW due \in SUBSET {e},
           Len(cn.queue) <= QueueMax
    PROVE  LET new == Queued(cn, e, due)
           IN  /\ new \in ConnType /\ Len(new.queue) <= QueueMax
               /\ new.pc = cn.pc /\ new.cutoff = cn.cutoff /\ new.rows = cn.rows
               /\ new.replay = cn.replay /\ new.withheld = cn.withheld /\ new.warm = cn.warm
               /\ Elements(new.queue) \subseteq Elements(cn.queue) \cup {e}
               /\ e \in Elements(new.queue)
               /\ \A x \in new.owed : \/ x = e /\ x \in due
                                      \/ /\ x \in cn.owed
                                         /\ x \in Elements(cn.queue) => x \in Elements(new.queue)
<1>. DEFINE new == Queued(cn, e, due)
<1>0. /\ cn.queue \in Seq(Events) /\ Len(cn.queue) \in Nat /\ cn.owed \subseteq Events
      /\ QueueMax \in Nat \ {0}
  BY QueueMaxAssumption, LenProperties DEF ConnType
<1>1. CASE Len(cn.queue) = QueueMax
  <2>1. cn.queue # <<>>  BY <1>0, <1>1, EmptySeq
  <2>2. /\ Tail(cn.queue) \in Seq(Events) /\ Len(Tail(cn.queue)) = Len(cn.queue) - 1
        /\ Elements(Tail(cn.queue)) \subseteq Elements(cn.queue)
        /\ \A x \in Elements(cn.queue) : x = Head(cn.queue) \/ x \in Elements(Tail(cn.queue))
    BY <1>0, <2>1, TailElements
  <2>3. new = [cn EXCEPT !.queue = Append(Tail(cn.queue), e),
                         !.owed = (cn.owed \ {Head(cn.queue)})
                                      \cup due]
    BY <1>1 DEF Queued, ConnType
  <2>4. /\ Append(Tail(cn.queue), e) \in Seq(Events)
        /\ Len(Append(Tail(cn.queue), e)) = Len(cn.queue)
        /\ Elements(Append(Tail(cn.queue), e)) = Elements(Tail(cn.queue)) \cup {e}
    <3>. DEFINE t == Tail(cn.queue)
    <3>1. t \in Seq(Events) /\ Len(t) + 1 = Len(cn.queue)  BY <1>0, <2>2
    <3>. HIDE DEF t
    <3>2. /\ Append(t, e) \in Seq(Events) /\ Len(Append(t, e)) = Len(t) + 1
          /\ Elements(Append(t, e)) = Elements(t) \cup {e}
      BY <3>1, AppendElements
    <3>. QED  BY <3>1, <3>2 DEF t
  <2>5. new \in ConnType /\ new.queue = Append(Tail(cn.queue), e)
        /\ new.owed = (cn.owed \ {Head(cn.queue)}) \cup due
        /\ new.pc = cn.pc /\ new.cutoff = cn.cutoff /\ new.rows = cn.rows
        /\ new.replay = cn.replay /\ new.withheld = cn.withheld /\ new.warm = cn.warm
    BY <1>0, <2>3, <2>4 DEF ConnType
  <2>. QED  BY <1>0, <2>2, <2>4, <2>5
<1>2. CASE Len(cn.queue) # QueueMax
  <2>1. new = [cn EXCEPT !.queue = Append(cn.queue, e),
                         !.owed = cn.owed \cup due]
    BY <1>2 DEF Queued, ConnType
  <2>2. /\ Append(cn.queue, e) \in Seq(Events) /\ Len(Append(cn.queue, e)) = Len(cn.queue) + 1
        /\ Elements(Append(cn.queue, e)) = Elements(cn.queue) \cup {e}
    BY <1>0, AppendElements
  <2>3. new \in ConnType /\ new.queue = Append(cn.queue, e)
        /\ new.owed = cn.owed \cup due
        /\ new.pc = cn.pc /\ new.cutoff = cn.cutoff /\ new.rows = cn.rows
        /\ new.replay = cn.replay /\ new.withheld = cn.withheld /\ new.warm = cn.warm
    BY <1>0, <2>1, <2>2 DEF ConnType
  <2>. QED  BY <1>0, <1>2, <2>2, <2>3
<1>. QED  BY <1>1, <1>2

-----------------------------------------------------------------------------
(* Connections.                                                            *)

\* A good connection stays good while known events keep their numbers.
LEMMA GoodKept ==
    ASSUME NEW cn, NEW memory, NEW number, NEW number2, NEW known, NEW known2,
           NEW rows, NEW rows2, memory \subseteq known, known \subseteq known2,
           rows \subseteq rows2, \A x \in known : number2[x] = number[x],
           Good(cn, memory, number, known, rows)
    PROVE  Good(cn, memory, number2, known2, rows2)
<1>1. \A f \in memory : number2[f] = number[f]
  OBVIOUS
<1>2. \A x \in Elements(cn.queue) : number2[x] = number[x]
  BY DEF Good
<1>. QED  BY <1>1, <1>2 DEF Good, Covered

\* A cold one does not depend on the memory, and any can turn cold.
LEMMA GoodCold ==
    ASSUME NEW cn, NEW memory, NEW memory2, NEW number, NEW known, NEW rows,
           Good(cn, memory, number, known, rows)
    PROVE  Good(Cold(cn), memory2, number, known, rows)
<1>1. /\ Cold(cn) \in ConnType /\ ~Cold(cn).warm
      /\ Cold(cn).rows = cn.rows /\ Cold(cn).replay = cn.replay /\ Cold(cn).queue = cn.queue
  BY DEF Cold, Good, ConnType
<1>. QED  BY <1>1 DEF Good

LEMMA OffGood ==
    ASSUME NEW memory, NEW number, NEW known, NEW rows
    PROVE  Good(Off, memory, number, known, rows)
<1>1. Off \in ConnType /\ Elements(Off.queue) = {} /\ Len(Off.queue) <= QueueMax
  BY QueueMaxAssumption, EmptySeq DEF Off, ConnType, ConnPCs, Elements
<1>2. ~Off.warm /\ Off.rows = {} /\ Off.replay = {}
  BY DEF Off
<1>. QED  BY <1>1, <1>2 DEF Good

\* A step of one handler that leaves it good.
LEMMA HandledInv ==
    ASSUME Inv, NEW c \in Clients, NEW cn, Handled(c, cn), UNCHANGED history,
           Good(cn, history, seq, Known, table)
    PROVE  Inv'
<1>1. /\ conn' = [conn EXCEPT ![c] = cn] /\ cn \in ConnType
      /\ UNCHANGED <<stage, seq, nextSeq, table, history, reader>>
  BY DEF Handled, Good
<1>2. /\ conn' \in [Clients -> ConnType] /\ conn'[c] = cn
      /\ \A d \in Clients \ {c} : conn'[d] = conn[d]
  BY <1>1 DEF Inv, Data
<1>3. Known' = Known  BY <1>1 DEF Known
<1>4. Data'
  BY <1>1, <1>2, <1>3
  DEF Inv, Data, Bounded, SetsKnown, TableNumbers, NumbersAreUnique, Numbered
<1>5. \A d \in Clients : Good(conn'[d], history, seq, Known, table)
  BY <1>2 DEF Inv
<1>. QED  BY <1>1, <1>3, <1>4, <1>5 DEF Inv

-----------------------------------------------------------------------------
(* Publishing.                                                             *)

LEMMA InsertInv ==
    ASSUME Inv, NEW e \in Events, Insert(e)
    PROVE  Inv'
<1>1. /\ stage[e] = "new" /\ stage' = [stage EXCEPT ![e] = "numbered"]
      /\ seq' = [seq EXCEPT ![e] = nextSeq] /\ nextSeq' = nextSeq + 1
      /\ UNCHANGED <<table, history, conn, reader>>
  BY DEF Insert
<1>2. /\ Known' = Known /\ e \notin Known /\ Numbered' = Numbered \cup {e}
      /\ \A x \in Events \ {e} : seq'[x] = seq[x]
      /\ seq'[e] = nextSeq
  BY <1>1 DEF Inv, Data, Known, Numbered, Settled
<1>3. /\ stage' \in [Events -> Stages] /\ seq' \in [Events -> Nat] /\ nextSeq' \in Nat
  BY <1>1 DEF Inv, Data, Stages
<1>4. Bounded'
  <2>1. PICK b \in Nat : \A x \in Events : seq[x] <= b  BY DEF Inv, Data, Bounded
  <2>2. b + nextSeq \in Nat /\ \A x \in Events : seq'[x] <= b + nextSeq
    BY <1>2, <2>1 DEF Inv, Data
  <2>. QED  BY <2>2 DEF Bounded
<1>5. SetsKnown'  BY <1>1, <1>2 DEF Inv, Data, SetsKnown
<1>6. TableNumbers'
  <2>1. table \cup Numbered \subseteq Events \ {e}
    BY <1>1, <1>2 DEF Inv, Data, SetsKnown, Numbered
  <2>2. \A x \in table \cup Numbered : seq'[x] = seq[x] /\ seq'[x] < nextSeq /\ seq'[x] \in Nat
    BY <1>2, <2>1 DEF Inv, Data, TableNumbers
  <2>3. \A x \in (table \cup Numbered)' : x = e \/ x \in table \cup Numbered
    BY <1>1, <1>2
  <2>4. nextSeq \in Nat  BY DEF Inv, Data
  <2>. QED  BY <1>1, <1>2, <2>2, <2>3, <2>4 DEF Inv, Data, TableNumbers
<1>7. NumbersAreUnique'
  BY <1>1, <1>2 DEF Inv, Data, SetsKnown, NumbersAreUnique
<1>8. \A x \in Known : seq'[x] = seq[x]  BY <1>2 DEF Known
<1>9. \A c \in Clients : Good(conn[c], history, seq', Known, table)
  BY <1>8, GoodKept DEF Inv, Data, SetsKnown
<1>10. Data'
  BY <1>1, <1>3, <1>4, <1>5, <1>6, <1>7 DEF Inv, Data
<1>. QED  BY <1>1, <1>2, <1>9, <1>10 DEF Inv

LEMMA CommitInv ==
    ASSUME Inv, NEW e \in Events, Commit(e)
    PROVE  Inv'
<1>1. /\ stage[e] = "numbered" /\ stage' = [stage EXCEPT ![e] = "saved"]
      /\ table' = table \cup {e} /\ UNCHANGED <<seq, nextSeq, history, conn, reader>>
  BY DEF Commit
<1>2. Known' = Known \cup {e} /\ e \in Numbered /\ Numbered' = Numbered \ {e}
  BY <1>1 DEF Inv, Data, Known, Numbered, Settled
<1>3. stage' \in [Events -> Stages]  BY <1>1 DEF Inv, Data, Stages
<1>4. SetsKnown' /\ Bounded' /\ NumbersAreUnique'
  BY <1>1, <1>2 DEF Inv, Data, SetsKnown, Bounded, NumbersAreUnique
<1>5. TableNumbers'
  <2>1. (table \cup Numbered)' = table \cup Numbered  BY <1>1, <1>2
  <2>. QED  BY <1>1, <2>1 DEF Inv, Data, TableNumbers
<1>6. \A c \in Clients : Good(conn[c], history, seq, Known', table')
  <2>1. Known \subseteq Known' /\ table \subseteq table'  BY <1>1, <1>2
  <2>. QED  BY <2>1, GoodKept DEF Inv, Data, SetsKnown
<1>7. Data'
  BY <1>1, <1>3, <1>4, <1>5 DEF Inv, Data
<1>. QED  BY <1>1, <1>6, <1>7 DEF Inv

\* A dispatched event is in the memory or replaces nothing that matters: it is in
\* the queue of every handler, and if it is due, above every cutoff.
LEMMA DispatchGood ==
    ASSUME Inv, NEW e \in Events, NEW n \in Nat, LocalDispatch(e, n),
           ~\E f \in history : seq[f] = n, e \notin history,
           \A x \in Known : seq'[x] = seq[x], seq'[e] = n, seq' \in [Events -> Nat], Bounded',
           Known' = Known \cup {e},
           NEW c \in Clients
    PROVE  conn'[c] \in ConnType /\ Good(conn'[c], history', seq', Known', table)
<1>. DEFINE cn == conn[c]
<1>0. /\ cn \in ConnType /\ Good(cn, history, seq, Known, table)
      /\ history \subseteq Events /\ history \subseteq Known
  BY DEF Inv, Data, SetsKnown
<1>1. /\ history' = Newest(history \cup {e}, seq')
      /\ conn'[c] = IF cn.pc = "off" THEN cn ELSE Queued(cn, e, Due(e, n))
  BY DEF LocalDispatch
<1>2. /\ history' \subseteq history \cup {e}
      /\ \A f \in history \cup {e} : \E g \in history' : seq'[g] >= seq'[f]
  BY <1>0, <1>1, NewestProperties DEF Bounded
<1>3. CASE cn.pc = "off"
  <2>1. ~cn.warm /\ Known \subseteq Known'  BY <1>0, <1>3 DEF Good
  <2>. QED  BY <1>0, <1>1, <1>3, <2>1 DEF Good
<1>4. CASE cn.pc # "off"
  <2>. DEFINE new == Queued(cn, e, Due(e, n))
  <2>1. conn'[c] = new /\ Due(e, n) \in SUBSET {e}  BY <1>1, <1>4 DEF Due
  <2>2. /\ new \in ConnType /\ Len(new.queue) <= QueueMax
        /\ new.pc = cn.pc /\ new.cutoff = cn.cutoff /\ new.rows = cn.rows
        /\ new.replay = cn.replay /\ new.withheld = cn.withheld /\ new.warm = cn.warm
        /\ Elements(new.queue) \subseteq Elements(cn.queue) \cup {e}
        /\ e \in Elements(new.queue)
        /\ \A x \in new.owed : \/ x = e /\ x \in Due(e, n)
                               \/ /\ x \in cn.owed
                                  /\ x \in Elements(cn.queue) => x \in Elements(new.queue)
    BY <1>0, <2>1, QueuedProperties DEF Good
  <2>. HIDE DEF new
  <2>3. /\ new.rows \subseteq table /\ new.replay \subseteq Known'
        /\ Elements(new.queue) \subseteq Known'
        /\ new.pc \in Reading \cup {"off"} => ~new.warm
    BY <1>0, <2>2 DEF Good
  <2>4. new.warm => history' # {}
    BY <1>2
  <2>5. ASSUME new.warm, new.pc \in {"replaying", "draining"}
        PROVE  \E g \in history' : seq'[g] >= new.cutoff
    <3>1. PICK f \in history : seq[f] >= cn.cutoff  BY <1>0, <2>2, <2>5 DEF Good
    <3>2. PICK g \in history' : seq'[g] >= seq'[f]  BY <1>2
    <3>3. seq'[f] = seq[f] /\ seq'[f] \in Nat /\ seq'[g] \in Nat /\ cn.cutoff \in Nat
      BY <1>0, <1>2 DEF ConnType
    <3>. QED  BY <2>2, <3>1, <3>2, <3>3
  <2>6. ASSUME new.warm, new.pc \in {"replaying", "draining", "live"}
        PROVE  Covered(new, seq')
    <3>. SUFFICES ASSUME NEW x \in new.owed
                  PROVE  \/ x \in new.replay \cup new.withheld
                         \/ x \in Elements(new.queue)
                              /\ (new.pc = "live" \/ seq'[x] > new.cutoff)
      BY DEF Covered
    <3>1. CASE x = e /\ x \in Due(e, n)
      <4>1. \A f \in history : seq[f] < n  BY <3>1 DEF Due
      <4>2. CASE new.pc = "live"  BY <2>2, <3>1, <4>2
      <4>3. CASE new.pc \in {"replaying", "draining"}
        <5>1. PICK f \in history : seq[f] >= cn.cutoff
          BY <1>0, <2>2, <2>6, <4>3 DEF Good
        <5>2. seq[f] \in Nat /\ cn.cutoff \in Nat  BY <1>0 DEF Inv, Data, ConnType
        <5>3. n > cn.cutoff  BY <4>1, <5>1, <5>2
        <5>. QED  BY <2>2, <3>1, <5>3
      <4>. QED  BY <2>6, <4>2, <4>3
    <3>2. CASE x \in cn.owed /\ (x \in Elements(cn.queue) => x \in Elements(new.queue))
      <4>1. Covered(cn, seq)  BY <1>0, <2>2, <2>6 DEF Good
      <4>2. CASE x \in cn.replay \cup cn.withheld  BY <2>2, <4>2
      <4>3. CASE x \in Elements(cn.queue) /\ (cn.pc = "live" \/ seq[x] > cn.cutoff)
        <5>1. x \in Known /\ seq'[x] = seq[x]  BY <1>0, <4>3 DEF Good
        <5>. QED  BY <2>2, <3>2, <4>3, <5>1
      <4>. QED  BY <3>2, <4>1, <4>2, <4>3 DEF Covered
    <3>. QED  BY <2>2, <3>1, <3>2
  <2>7. Good(new, history', seq', Known', table)
    BY <2>2, <2>3, <2>4, <2>5, <2>6 DEF Good
  <2>. QED  BY <2>1, <2>2, <2>7
<1>. QED  BY <1>3, <1>4

LEMMA DispatchInv ==
    ASSUME Inv, NEW e \in Events, NEW n \in Nat, LocalDispatch(e, n),
           stage[e] \in {"new", "numbered", "saved"}, stage[e] = "saved" => n = seq[e],
           UNCHANGED <<nextSeq, table, reader>>
    PROVE  Inv'
<1>1. /\ stage' = [stage EXCEPT ![e] = "out"] /\ seq' = [seq EXCEPT ![e] = n]
      /\ stage' \in [Events -> Stages] /\ seq' \in [Events -> Nat]
      /\ seq'[e] = n /\ \A x \in Events \ {e} : seq'[x] = seq[x]
  BY DEF LocalDispatch, Inv, Data, Stages
<1>2. /\ Known' = Known \cup {e} /\ Numbered' = Numbered \ {e}
      /\ e \in Known => n = seq[e]
  BY <1>1 DEF Inv, Data, Known, Numbered, Settled
<1>3. \A x \in Known : seq'[x] = seq[x]
  BY <1>1, <1>2 DEF Known
<1>4. Bounded'
  <2>1. PICK b \in Nat : \A x \in Events : seq[x] <= b  BY DEF Inv, Data, Bounded
  <2>2. b + n \in Nat /\ \A x \in Events : seq'[x] <= b + n
    BY <1>1, <2>1 DEF Inv, Data
  <2>. QED  BY <2>2 DEF Bounded
<1>5. TableNumbers'
  <2>1. \A x \in (table \cup Numbered)' : x \in table \cup Numbered /\ seq'[x] = seq[x]
    <3>1. \A x \in table : seq'[x] = seq[x]  BY <1>3 DEF Inv, Data, SetsKnown
    <3>2. \A x \in Numbered \ {e} : seq'[x] = seq[x]  BY <1>1 DEF Numbered
    <3>. QED  BY <1>2, <3>1, <3>2
  <2>. QED  BY <2>1 DEF Inv, Data, TableNumbers
<1>6. CASE \E f \in history : seq[f] = n
  <2>1. UNCHANGED <<history, conn>>  BY <1>6 DEF LocalDispatch
  <2>2. NumbersAreUnique' /\ SetsKnown'
    BY <1>2, <1>3, <2>1 DEF Inv, Data, SetsKnown, NumbersAreUnique
  <2>3. \A c \in Clients : Good(conn[c], history, seq', Known', table)
    BY <1>2, <1>3, GoodKept DEF Inv, Data, SetsKnown
  <2>4. Data'  BY <1>1, <1>4, <1>5, <2>1, <2>2 DEF Inv, Data
  <2>. QED  BY <2>1, <2>3, <2>4 DEF Inv
<1>7. CASE ~\E f \in history : seq[f] = n
  <2>1. e \notin history  BY <1>2, <1>7 DEF Inv, Data, SetsKnown
  <2>2. /\ history' = Newest(history \cup {e}, seq') /\ history \subseteq Events
        /\ history \subseteq Known
    BY <1>7 DEF LocalDispatch, Inv, Data, SetsKnown
  <2>3. history' \subseteq history \cup {e}
    BY <2>2 DEF Newest
  <2>4. SetsKnown'
    BY <1>2, <2>2, <2>3 DEF Inv, Data, SetsKnown
  <2>5. NumbersAreUnique'
    <3>1. \A f \in history : seq'[f] = seq[f]  BY <1>3, <2>2
    <3>2. \A f \in history : seq'[f] # n  BY <1>7, <3>1
    <3>3. \A f, g \in history : seq'[f] = seq'[g] => f = g
      BY <3>1 DEF Inv, Data, NumbersAreUnique
    <3>. QED  BY <1>1, <2>3, <3>2, <3>3 DEF NumbersAreUnique
  <2>6. \A c \in Clients : conn'[c] \in ConnType /\ Good(conn'[c], history', seq', Known', table)
    BY <1>1, <1>2, <1>3, <1>4, <1>7, <2>1, DispatchGood
  <2>7. conn' \in [Clients -> ConnType]
    <3>1. conn' = [c \in Clients |-> IF conn[c].pc = "off" THEN conn[c]
                                     ELSE Queued(conn[c], e, Due(e, n))]
      BY <1>7 DEF LocalDispatch
    <3>2. conn' = [c \in Clients |-> conn'[c]]  BY <3>1
    <3>. QED  BY <2>6, <3>2
  <2>8. Data'  BY <1>1, <1>4, <1>5, <2>2, <2>3, <2>4, <2>5, <2>7 DEF Inv, Data
  <2>. QED  BY <2>6, <2>8 DEF Inv
<1>. QED  BY <1>6, <1>7

-----------------------------------------------------------------------------
(* The memory is emptied or refilled.                                      *)

\* Rows of the table, and what is left of the memory, have numbers of their own.
LEMMA MemoryInv ==
    ASSUME Inv, UNCHANGED <<seq, nextSeq, table>>,
           stage' \in [Events -> Stages], Known \subseteq Known', Numbered' \subseteq Numbered,
           history' \subseteq history \/ history' \subseteq table,
           reader' \in [Readers -> [pc : {"idle", "asked", "read"}, rows : SUBSET Events]],
           \A r \in Readers : reader'[r].rows \subseteq table,
           conn' \in [Clients -> ConnType],
           \A c \in Clients : Good(conn'[c], history', seq, Known', table)
    PROVE  Inv'
<1>1. NumbersAreUnique'
  BY DEF Inv, Data, TableNumbers, NumbersAreUnique
<1>2. SetsKnown' /\ Bounded' /\ TableNumbers'
  BY DEF Inv, Data, SetsKnown, Bounded, TableNumbers
<1>3. history' \subseteq Events
  BY DEF Inv, Data
<1>4. Data'
  BY <1>1, <1>2, <1>3 DEF Inv, Data
<1>. QED  BY <1>4 DEF Inv

LEMMA ReaderInv ==
    ASSUME Inv, NEW r \in Readers, ReadStart(r) \/ ReadRows(r)
    PROVE  Inv'
<1>1. Newest(table, seq) \subseteq table /\ table \subseteq Events
  BY DEF Newest, Inv, Data
<1>2. /\ UNCHANGED <<stage, seq, nextSeq, table, history, conn>>
      /\ reader' \in [Readers -> [pc : {"idle", "asked", "read"}, rows : SUBSET Events]]
      /\ \A q \in Readers : reader'[q].rows \subseteq table
  BY <1>1 DEF ReadStart, ReadRows, Inv, Data, SetsKnown
<1>3. Known' = Known /\ Numbered' = Numbered  BY <1>2 DEF Known, Numbered
<1>. QED  BY <1>2, <1>3, MemoryInv DEF Inv, Data

LEMMA ReadEndsInv ==
    ASSUME Inv, NEW r \in Readers, ReadEnds(r)
    PROVE  Inv'
<1>1. /\ UNCHANGED <<stage, seq, nextSeq, table>>
      /\ history' = history \/ history' \subseteq table
      /\ reader' \in [Readers -> [pc : {"idle", "asked", "read"}, rows : SUBSET Events]]
      /\ \A q \in Readers : reader'[q].rows \subseteq table
      /\ conn' = [c \in Clients |-> Cold(conn[c])]
  BY DEF ReadEnds, Restored, Inv, Data, SetsKnown
<1>2. Known' = Known /\ Numbered' = Numbered  BY <1>1 DEF Known, Numbered
<1>3. \A c \in Clients : Good(conn'[c], history', seq, Known', table)
  BY <1>1, <1>2, GoodCold DEF Inv
<1>4. conn' \in [Clients -> ConnType]  BY <1>1, <1>3 DEF Good
<1>. QED  BY <1>1, <1>2, <1>3, <1>4, MemoryInv DEF Inv, Data

LEMMA ClearInv ==
    ASSUME Inv, Clear
    PROVE  Inv'
<1>1. /\ UNCHANGED <<stage, seq, nextSeq, table, reader>> /\ history' = {}
      /\ conn' = [c \in Clients |-> Cold(conn[c])]
  BY DEF Clear
<1>2. Known' = Known /\ Numbered' = Numbered  BY <1>1 DEF Known, Numbered
<1>3. \A c \in Clients : Good(conn'[c], history', seq, Known', table)
  BY <1>1, <1>2, GoodCold DEF Inv
<1>4. conn' \in [Clients -> ConnType]  BY <1>1, <1>3 DEF Good
<1>. QED  BY <1>1, <1>2, <1>3, <1>4, MemoryInv DEF Inv, Data, SetsKnown

LEMMA RestartInv ==
    ASSUME Inv, Restart
    PROVE  Inv'
<1>1. /\ UNCHANGED <<seq, nextSeq, table>> /\ history' = {}
      /\ stage' = [e \in Events |-> IF stage[e] \in {"numbered", "saved"} THEN "gone"
                                     ELSE stage[e]]
      /\ conn' = [c \in Clients |-> Off]
      /\ reader' = [r \in Readers |-> [pc |-> "idle", rows |-> {}]]
  BY DEF Restart
<1>2. /\ stage' \in [Events -> Stages] /\ Known \subseteq Known' /\ Numbered' = {}
  BY <1>1 DEF Inv, Data, Stages, Known, Numbered, Settled
<1>3. \A c \in Clients : Good(conn'[c], history', seq, Known', table)
  BY <1>1, OffGood
<1>4. conn' \in [Clients -> ConnType]  BY <1>1, OffGood DEF Good
<1>5. /\ reader' \in [Readers -> [pc : {"idle", "asked", "read"}, rows : SUBSET Events]]
      /\ \A r \in Readers : reader'[r].rows \subseteq table
  BY <1>1
<1>. QED  BY <1>1, <1>2, <1>3, <1>4, <1>5, MemoryInv

-----------------------------------------------------------------------------
(* The handler.                                                            *)

\* The cutoff is the greatest number, so some event has it; what is replayed is
\* owed.
LEMMA ReplayingGood ==
    ASSUME Inv, NEW cn \in ConnType, cn.queue = <<>>, cn.owed = {}, NEW S \in SUBSET Known,
           cn.warm => S = history /\ S # {} /\ cn.cutoff = Last(history)
    PROVE  Good(Replaying(cn, S), history, seq, Known, table)
<1>. DEFINE new == Replaying(cn, S)
<1>1. After(S, cn.from) \subseteq S /\ S \subseteq Events  BY DEF After, Known
<1>2. /\ new \in ConnType /\ new.pc = "replaying" /\ new.rows = {} /\ new.queue = <<>>
      /\ new.replay = After(S, cn.from) /\ new.owed = After(S, cn.from)
      /\ new.warm = cn.warm /\ new.cutoff = cn.cutoff
  BY <1>1 DEF Replaying, Unanswered, ConnType, ConnPCs
<1>. HIDE DEF new
<1>3. Elements(new.queue) = {} /\ Len(new.queue) <= QueueMax
  BY <1>2, QueueMaxAssumption, EmptySeq DEF Elements
<1>4. new.warm => \E f \in history : seq[f] >= new.cutoff
  <2>. SUFFICES ASSUME new.warm PROVE \E f \in history : seq[f] >= new.cutoff
    OBVIOUS
  <2>1. PICK f \in history : seq[f] = Last(history) /\ seq[f] \in Nat
    BY <1>2, LastProperties DEF Inv, Data
  <2>. QED  BY <1>2, <2>1
<1>5. Good(new, history, seq, Known, table)
  BY <1>1, <1>2, <1>3, <1>4 DEF Good, Covered, Reading
<1>. QED  BY <1>5 DEF new

LEMMA ConnectInv ==
    ASSUME Inv, NEW c \in Clients, NEW from \in Nat, Connect(c, from)
    PROVE  Inv'
<1>. DEFINE cn  == [Off EXCEPT !.from = from]
            hot == [cn EXCEPT !.warm = TRUE, !.cutoff = Last(history)]
<1>0. Last(history) \in Nat  BY LastProperties DEF Inv, Data
<1>1. /\ hot = [Off EXCEPT !.from = from, !.warm = TRUE, !.cutoff = Last(history)]
      /\ hot \in ConnType /\ hot.queue = <<>> /\ hot.owed = {} /\ hot.warm
      /\ hot.cutoff = Last(history)
  BY <1>0, EmptySeq DEF Off, ConnType, ConnPCs
<1>2. CASE history = {} /\ Handled(c, [cn EXCEPT !.pc = "asking"])
  <2>. DEFINE new == [cn EXCEPT !.pc = "asking"]
  <2>1. /\ new \in ConnType /\ new.queue = <<>> /\ new.rows = {} /\ new.replay = {}
        /\ ~new.warm
    BY EmptySeq DEF Off, ConnType, ConnPCs, Reading
  <2>2. Good(new, history, seq, Known, table)
    BY <2>1, QueueMaxAssumption, EmptySeq DEF Good, Elements
  <2>. QED  BY <1>2, <2>2, HandledInv DEF Connect
<1>3. CASE history # {} /\ Handled(c, [hot EXCEPT !.pc = "loading"])
  <2>. DEFINE new == [hot EXCEPT !.pc = "loading"]
  <2>1. /\ new \in ConnType /\ new.queue = <<>> /\ new.rows = {} /\ new.replay = {}
        /\ new.pc = "loading"
    BY <1>0, EmptySeq DEF Off, ConnType, ConnPCs
  <2>2. Good(new, history, seq, Known, table)
    BY <1>3, <2>1, QueueMaxAssumption, EmptySeq DEF Good, Elements, Reading
  <2>. QED  BY <1>3, <2>2, HandledInv DEF Connect
<1>4. CASE history # {} /\ Handled(c, Replaying(hot, history))
  <2>. HIDE DEF hot
  <2>1. Good(Replaying(hot, history), history, seq, Known, table)
    BY <1>1, <1>4, ReplayingGood DEF Inv, Data, SetsKnown
  <2>. QED  BY <1>4, <2>1, HandledInv DEF Connect
<1>. QED  BY <1>2, <1>3, <1>4 DEF Connect

\* A connection that is not warm promises nothing.
LEMMA ColdIsGood ==
    ASSUME NEW cn \in ConnType, NEW memory, NEW number, NEW known, NEW rows,
           ~cn.warm, Len(cn.queue) <= QueueMax, cn.rows \subseteq rows,
           cn.replay \subseteq known, Elements(cn.queue) \subseteq known
    PROVE  Good(cn, memory, number, known, rows)
BY DEF Good

LEMMA AnswerInv ==
    ASSUME Inv, NEW c \in Clients, Answer(c)
    PROVE  Inv'
<1>. DEFINE cn  == conn[c]
            new == [cn EXCEPT !.answered = TRUE,
                              !.rows = IF cn.pc = "restoring" THEN Newest(table, seq) ELSE table]
<1>1. cn \in ConnType /\ Good(cn, history, seq, Known, table) /\ ~cn.warm /\ table \subseteq Events
  BY DEF Inv, Data, Answer, Good
<1>2. Newest(table, seq) \subseteq table  BY DEF Newest
<1>3. /\ new \in ConnType /\ ~new.warm /\ new.queue = cn.queue /\ new.replay = cn.replay
      /\ new.rows \subseteq table
  BY <1>1, <1>2 DEF ConnType
<1>4. Handled(c, new) /\ UNCHANGED history  BY DEF Answer
<1>. HIDE DEF new
<1>5. Good(new, history, seq, Known, table)  BY <1>1, <1>3, ColdIsGood DEF Good
<1>. QED  BY <1>4, <1>5, HandledInv

LEMMA AskedInv ==
    ASSUME Inv, NEW c \in Clients, Asked(c)
    PROVE  Inv'
<1>. DEFINE old == conn[c]
            cn  == [Unanswered(old) EXCEPT !.cutoff = Last(old.rows)]
<1>1. /\ old \in ConnType /\ Good(old, history, seq, Known, table) /\ ~old.warm
      /\ UNCHANGED history /\ history \subseteq Known
  BY DEF Inv, Data, SetsKnown, Asked, Good, Reading
<1>2. Last(old.rows) \in Nat  BY <1>1, LastProperties DEF Inv, Data, ConnType
<1>3. /\ cn \in ConnType /\ ~cn.warm /\ cn.queue = old.queue /\ cn.replay = old.replay
      /\ cn.rows = {}
  BY <1>1, <1>2 DEF Unanswered, ConnType
<1>4. \/ Handled(c, [cn EXCEPT !.pc = "loading"])
      \/ Handled(c, [cn EXCEPT !.pc = "restoring"])
      \/ Handled(c, Replaying(cn, history))
  BY DEF Asked
<1>. HIDE DEF cn
<1>5. ASSUME NEW new \in ConnType, ~new.warm, new.queue = old.queue, new.rows = {},
             new.replay \subseteq Known, Handled(c, new)
      PROVE  Inv'
  <2>1. Good(new, history, seq, Known, table)  BY <1>1, <1>5, ColdIsGood DEF Good
  <2>. QED  BY <1>1, <1>5, <2>1, HandledInv
<1>6. cn.replay \subseteq Known  BY <1>1, <1>3 DEF Good
<1>7. ASSUME NEW pc \in {"loading", "restoring"}
      PROVE  LET new == [cn EXCEPT !.pc = pc]
             IN  /\ new \in ConnType /\ ~new.warm /\ new.queue = old.queue /\ new.rows = {}
                 /\ new.replay \subseteq Known
  BY <1>3, <1>6 DEF ConnType, ConnPCs, Reading
<1>8. LET new == Replaying(cn, history)
      IN  /\ new \in ConnType /\ ~new.warm /\ new.queue = old.queue /\ new.rows = {}
          /\ new.replay \subseteq Known
  <2>1. After(history, cn.from) \subseteq history /\ history \subseteq Events
    BY <1>1 DEF After, Known
  <2>. QED  BY <1>1, <1>3, <2>1 DEF Replaying, Unanswered, ConnType, ConnPCs
<1>9. CASE Handled(c, [cn EXCEPT !.pc = "loading"])  BY <1>5, <1>7, <1>9
<1>10. CASE Handled(c, [cn EXCEPT !.pc = "restoring"])  BY <1>5, <1>7, <1>10
<1>11. CASE Handled(c, Replaying(cn, history))
  <2>. DEFINE new == Replaying(cn, history)
  <2>1. /\ new \in ConnType /\ ~new.warm /\ new.queue = old.queue /\ new.rows = {}
        /\ new.replay \subseteq Known /\ Handled(c, new)
    BY <1>8, <1>11
  <2>. HIDE DEF new
  <2>. QED  BY <1>5, <2>1
<1>. QED  BY <1>4, <1>9, <1>10, <1>11

LEMMA ReloadedInv ==
    ASSUME Inv, NEW c \in Clients, Reloaded(c)
    PROVE  Inv'
<1>. DEFINE old == conn[c]
            new == Replaying(old, old.rows)
<1>1. /\ UNCHANGED <<stage, seq, nextSeq, table, reader>>
      /\ history' = history \/ history' = old.rows
      /\ conn' = [d \in Clients |-> Cold(IF d = c THEN new ELSE conn[d])]
  BY DEF Reloaded, Restored
<1>2. /\ old \in ConnType /\ Good(old, history, seq, Known, table) /\ ~old.warm
      /\ old.rows \subseteq table /\ table \subseteq Known
  BY DEF Inv, Data, SetsKnown, Reloaded, Good, Reading
<1>3. Known' = Known /\ Numbered' = Numbered  BY <1>1 DEF Known, Numbered
<1>4. Good(new, history, seq, Known, table)
  <2>1. After(old.rows, old.from) \subseteq old.rows /\ Known \subseteq Events
    BY DEF After, Known
  <2>2. /\ new \in ConnType /\ ~new.warm /\ new.queue = old.queue /\ new.rows = {}
        /\ new.replay \subseteq Known
    BY <1>2, <2>1 DEF Replaying, Unanswered, ConnType, ConnPCs
  <2>. HIDE DEF new
  <2>. QED  BY <1>2, <2>2, ColdIsGood DEF Good
<1>. HIDE DEF new
<1>5. ASSUME NEW d \in Clients PROVE Good(conn'[d], history', seq, Known, table)
  <2>1. CASE d = c  BY <1>1, <1>4, <2>1, GoodCold
  <2>2. CASE d # c
    <3>1. Good(conn[d], history, seq, Known, table)  BY DEF Inv
    <3>2. Good(Cold(conn[d]), history', seq, Known, table)  BY <3>1, GoodCold
    <3>. QED  BY <1>1, <2>2, <3>2
  <2>. QED  BY <2>1, <2>2
<1>6. conn' \in [Clients -> ConnType]
  <2>1. conn' = [d \in Clients |-> conn'[d]]  BY <1>1
  <2>. QED  BY <1>5, <2>1 DEF Good
<1>7. history' \subseteq history \/ history' \subseteq table  BY <1>1, <1>2
<1>. QED  BY <1>1, <1>3, <1>5, <1>6, <1>7, MemoryInv DEF Inv, Data, SetsKnown

\* The snapshot settles what was owed; the memory has the number of the cutoff.
LEMMA SnapshotInv ==
    ASSUME Inv, NEW c \in Clients, Snapshot(c)
    PROVE  Inv'
<1>. DEFINE old == conn[c]
<1>1. /\ old \in ConnType /\ Good(old, history, seq, Known, table) /\ UNCHANGED history
      /\ history \subseteq Events
  BY DEF Inv, Data, Snapshot
<1>2. CASE history = {}
  <2>. DEFINE new == [old EXCEPT !.pc = "counting"]
  <2>1. Handled(c, new) /\ ~old.warm  BY <1>1, <1>2 DEF Snapshot, Good
  <2>2. /\ new \in ConnType /\ ~new.warm /\ new.queue = old.queue /\ new.rows = old.rows
        /\ new.replay = old.replay
    BY <1>1, <2>1 DEF ConnType, ConnPCs, Reading
  <2>. HIDE DEF new
  <2>3. Good(new, history, seq, Known, table)  BY <1>1, <2>2, ColdIsGood DEF Good
  <2>. QED  BY <1>1, <2>1, <2>3, HandledInv
<1>3. CASE history # {}
  <2>. DEFINE new == [old EXCEPT !.pc = "draining", !.cutoff = Last(history), !.owed = {}]
  <2>1. Handled(c, new)  BY <1>3 DEF Snapshot
  <2>2. /\ Last(history) \in Nat
        /\ \E f \in history : seq[f] = Last(history) /\ seq[f] \in Nat
    BY <1>1, <1>3, LastProperties DEF Inv, Data
  <2>3. /\ new \in ConnType /\ new.pc = "draining" /\ new.warm = old.warm
        /\ new.queue = old.queue /\ new.rows = old.rows /\ new.replay = old.replay
        /\ new.owed = {} /\ new.cutoff = Last(history)
    BY <1>1, <2>2 DEF ConnType, ConnPCs
  <2>. HIDE DEF new
  <2>4. \E f \in history : seq[f] >= new.cutoff  BY <2>2, <2>3
  <2>5. Good(new, history, seq, Known, table)
    BY <1>1, <1>3, <2>3, <2>4 DEF Good, Covered, Reading
  <2>. QED  BY <1>1, <2>1, <2>5, HandledInv
<1>. QED  BY <1>2, <1>3

LEMMA CountedInv ==
    ASSUME Inv, NEW c \in Clients, Counted(c)
    PROVE  Inv'
<1>. DEFINE old == conn[c]
            new == [Unanswered(old) EXCEPT !.pc = "draining", !.owed = {},
                                           !.cutoff = Last(old.rows)]
<1>1. /\ old \in ConnType /\ Good(old, history, seq, Known, table) /\ ~old.warm
      /\ Handled(c, new) /\ UNCHANGED history
  BY DEF Inv, Data, Counted, Good, Reading
<1>2. Last(old.rows) \in Nat  BY <1>1, LastProperties DEF Inv, Data, ConnType
<1>3. /\ new \in ConnType /\ ~new.warm /\ new.queue = old.queue /\ new.rows = {}
      /\ new.replay = old.replay
  BY <1>1, <1>2 DEF Unanswered, ConnType, ConnPCs
<1>. HIDE DEF new
<1>4. Good(new, history, seq, Known, table)  BY <1>1, <1>3, ColdIsGood DEF Good
<1>. QED  BY <1>1, <1>4, HandledInv

\* What was replayed is not owed any longer, the rest is in the queue.
LEMMA ReplayedInv ==
    ASSUME Inv, NEW c \in Clients, Replayed(c)
    PROVE  Inv'
<1>. DEFINE old == conn[c]
            new == [old EXCEPT !.pc = "draining", !.owed = old.owed \ old.replay, !.replay = {}]
<1>1. /\ old \in ConnType /\ Good(old, history, seq, Known, table) /\ old.pc = "replaying"
      /\ Handled(c, new) /\ UNCHANGED history
  BY DEF Inv, Data, Replayed, ConnType
<1>2. /\ new \in ConnType /\ new.pc = "draining" /\ new.warm = old.warm
      /\ new.queue = old.queue /\ new.rows = old.rows /\ new.replay = {}
      /\ new.owed = old.owed \ old.replay /\ new.cutoff = old.cutoff
      /\ new.withheld = old.withheld
  BY <1>1 DEF ConnType, ConnPCs
<1>. HIDE DEF new
<1>3. old.warm => Covered(new, seq)  BY <1>1, <1>2 DEF Good, Covered
<1>4. Good(new, history, seq, Known, table)
  BY <1>1, <1>2, <1>3 DEF Good, Reading
<1>. QED  BY <1>1, <1>4, HandledInv

\* What leaves the queue is sent, or withheld, or not owed because of the cutoff.
LEMMA DequeueInv ==
    ASSUME Inv, NEW c \in Clients, Drain(c) \/ Deliver(c) \/ Withhold(c)
    PROVE  Inv'
<1>. DEFINE old  == conn[c]
            e    == Head(old.queue)
            sent == IF old.pc = "live" \/ seq[e] > old.cutoff
                    THEN [old EXCEPT !.queue = Tail(old.queue), !.owed = old.owed \ {e}]
                    ELSE [old EXCEPT !.queue = Tail(old.queue)]
            kept == [old EXCEPT !.queue = Tail(old.queue), !.withheld = old.withheld \cup {e}]
            Shorter(new) ==
              /\ new \in ConnType /\ new.pc = old.pc /\ new.warm = old.warm
              /\ new.queue = Tail(old.queue) /\ new.rows = old.rows /\ new.replay = old.replay
              /\ new.cutoff = old.cutoff
              /\ new.owed \subseteq old.owed /\ old.withheld \subseteq new.withheld
              /\ e \in new.owed => \/ e \in new.withheld
                                   \/ ~(old.pc = "live" \/ seq[e] > old.cutoff)
<1>1. /\ old \in ConnType /\ Good(old, history, seq, Known, table) /\ UNCHANGED history
      /\ old.pc \in {"draining", "live"} /\ old.queue \in Seq(Events) /\ old.queue # <<>>
  BY DEF Inv, Data, Drain, Deliver, Withhold, ConnType
<1>2. Handled(c, sent) \/ Handled(c, kept)
  BY <1>1 DEF Drain, Deliver, Withhold, ConnType
<1>3. /\ Tail(old.queue) \in Seq(Events) /\ Len(Tail(old.queue)) = Len(old.queue) - 1
      /\ e \in Elements(old.queue) /\ Elements(Tail(old.queue)) \subseteq Elements(old.queue)
      /\ \A x \in Elements(old.queue) : x = e \/ x \in Elements(Tail(old.queue))
  BY <1>1, TailElements
<1>3a. e \in Events  BY <1>1, <1>3 DEF Good, Known
<1>4. Shorter(sent) /\ Shorter(kept)
  <2>1. CASE old.pc = "live" \/ seq[e] > old.cutoff
    <3>1. sent = [old EXCEPT !.queue = Tail(old.queue), !.owed = old.owed \ {e}]  BY <2>1
    <3>. HIDE DEF sent
    <3>. QED  BY <1>1, <1>3, <1>3a, <3>1 DEF ConnType
  <2>2. CASE ~(old.pc = "live" \/ seq[e] > old.cutoff)
    <3>1. sent = [old EXCEPT !.queue = Tail(old.queue)]  BY <2>2
    <3>. HIDE DEF sent
    <3>. QED  BY <1>1, <1>3, <1>3a, <2>2, <3>1 DEF ConnType
  <2>3. Shorter(kept)  BY <1>1, <1>3, <1>3a DEF ConnType
  <2>. QED  BY <2>1, <2>2, <2>3
<1>. HIDE DEF sent, kept
<1>5. ASSUME NEW new, Shorter(new) PROVE Good(new, history, seq, Known, table)
  <2>1. old.warm => Covered(new, seq)
    <3>. SUFFICES ASSUME old.warm, NEW x \in new.owed
                  PROVE  \/ x \in old.replay \cup new.withheld
                         \/ x \in Elements(Tail(old.queue))
                              /\ (old.pc = "live" \/ seq[x] > old.cutoff)
      BY <1>5 DEF Covered
    <3>1. x \in old.owed  BY <1>5
    <3>2. \/ x \in old.replay \cup old.withheld
          \/ x \in Elements(old.queue) /\ (old.pc = "live" \/ seq[x] > old.cutoff)
      BY <1>1, <3>1 DEF Good, Covered
    <3>. QED  BY <1>3, <1>5, <3>2
  <2>2. Len(old.queue) \in Nat /\ QueueMax \in Nat
    BY <1>1, LenProperties, QueueMaxAssumption
  <2>3. Len(new.queue) <= QueueMax /\ Elements(new.queue) \subseteq Known
    <3>1. new.queue = Tail(old.queue)  BY <1>5
    <3>. QED  BY <1>1, <1>3, <2>2, <3>1 DEF Good
  <2>. QED  BY <1>1, <1>5, <2>1, <2>3 DEF Good, Reading
<1>. QED  BY <1>1, <1>2, <1>4, <1>5, HandledInv

\* An empty queue: everything has been sent.
LEMMA GoLiveInv ==
    ASSUME Inv, NEW c \in Clients, GoLive(c)
    PROVE  Inv'
<1>. DEFINE old == conn[c]
            new == [old EXCEPT !.pc = "live"]
<1>1. /\ old \in ConnType /\ Good(old, history, seq, Known, table) /\ UNCHANGED history
      /\ old.pc = "draining" /\ Handled(c, new)
  BY DEF Inv, Data, GoLive, ConnType
<1>2. /\ new \in ConnType /\ new.pc = "live" /\ new.warm = old.warm
      /\ new.queue = old.queue /\ new.rows = old.rows /\ new.replay = old.replay
      /\ new.owed = old.owed /\ new.cutoff = old.cutoff /\ new.withheld = old.withheld
  BY <1>1 DEF ConnType, ConnPCs
<1>. HIDE DEF new
<1>3. Good(new, history, seq, Known, table)
  BY <1>1, <1>2 DEF Good, Covered, Reading
<1>. QED  BY <1>1, <1>3, HandledInv

LEMMA LeaveInv ==
    ASSUME Inv, NEW c \in Clients, Leave(c)
    PROVE  Inv'
BY OffGood, HandledInv DEF Leave

-----------------------------------------------------------------------------
(* The theorems.                                                           *)

LEMMA InitInv == Init => Inv
<1>. SUFFICES ASSUME Init PROVE Inv
  OBVIOUS
<1>1. /\ stage = [e \in Events |-> "new"] /\ seq = [e \in Events |-> 0] /\ nextSeq = 0
      /\ table = {} /\ history = {} /\ conn = [c \in Clients |-> Off]
      /\ reader = [r \in Readers |-> [pc |-> "idle", rows |-> {}]]
  BY DEF Init
<1>2. stage \in [Events -> Stages] /\ Numbered = {}
  BY <1>1 DEF Stages, Numbered
<1>3. \A c \in Clients : Good(conn[c], history, seq, Known, table)
  BY <1>1, OffGood
<1>4. conn \in [Clients -> ConnType]  BY <1>1, OffGood DEF Good
<1>5. seq \in [Events -> Nat] /\ \A e \in Events : seq[e] <= 0
  BY <1>1
<1>6. Bounded  BY <1>5 DEF Bounded
<1>7. TableNumbers /\ NumbersAreUnique /\ SetsKnown
  BY <1>1, <1>2 DEF TableNumbers, NumbersAreUnique, SetsKnown
<1>. QED  BY <1>1, <1>2, <1>3, <1>4, <1>5, <1>6, <1>7 DEF Inv, Data

LEMMA NextInv == Inv /\ [Next]_vars => Inv'
<1>. SUFFICES ASSUME Inv, [Next]_vars PROVE Inv'
  OBVIOUS
<1>0. seq \in [Events -> Nat] /\ history \subseteq Events  BY DEF Inv, Data
<1>1. ASSUME NEW e \in Events, Insert(e) PROVE Inv'  BY <1>1, InsertInv
<1>2. ASSUME NEW e \in Events, Commit(e) PROVE Inv'  BY <1>2, CommitInv
<1>3. ASSUME NEW e \in Events, Dispatch(e) PROVE Inv'
  BY <1>0, <1>3, DispatchInv DEF Dispatch
<1>4. ASSUME NEW e \in Events, SaveFails(e) PROVE Inv'
  <2>. DEFINE n == IF history = {} THEN 0 ELSE Last(history) + 1
  <2>1. n \in Nat  BY <1>0, LastProperties DEF Inv, Data
  <2>2. /\ LocalDispatch(e, n) /\ UNCHANGED <<nextSeq, table, reader>>
        /\ stage[e] \in {"new", "numbered", "saved"} /\ stage[e] # "saved"
    BY <1>4 DEF SaveFails
  <2>. HIDE DEF n
  <2>. QED  BY <2>1, <2>2, DispatchInv
<1>5. ASSUME NEW r \in Readers, ReadStart(r) \/ ReadRows(r) PROVE Inv'  BY <1>5, ReaderInv
<1>6. ASSUME NEW r \in Readers, ReadEnds(r) PROVE Inv'  BY <1>6, ReadEndsInv
<1>7. ASSUME NEW c \in Clients, NEW from \in Numbers, Connect(c, from) PROVE Inv'
  <2>1. from \in Nat  BY <1>0 DEF Numbers
  <2>. QED  BY <1>7, <2>1, ConnectInv
<1>8. ASSUME NEW c \in Clients, Handler(c) PROVE Inv'
  BY <1>8, AnswerInv, AskedInv, ReloadedInv, SnapshotInv, CountedInv, ReplayedInv,
     DequeueInv, GoLiveInv DEF Handler
<1>9. ASSUME NEW c \in Clients, Leave(c) PROVE Inv'  BY <1>9, LeaveInv
<1>10. CASE Clear  BY <1>10, ClearInv
<1>11. CASE Restart  BY <1>11, RestartInv
<1>12. CASE UNCHANGED vars
  <2>1. UNCHANGED <<stage, seq, nextSeq, table, history, conn, reader>>  BY <1>12 DEF vars
  <2>2. Known' = Known /\ Numbered' = Numbered  BY <2>1 DEF Known, Numbered
  <2>. QED  BY <2>1, <2>2, MemoryInv DEF Inv, Data, SetsKnown
<1>. QED
  BY <1>1, <1>2, <1>3, <1>4, <1>5, <1>6, <1>7, <1>8, <1>9, <1>10, <1>11, <1>12 DEF Next

LEMMA Invariance == Spec => []Inv
BY InitInv, NextInv, PTL DEF Spec

\* Every variable keeps its type, and no queue of a WebSocket outgrows its bound.
THEOREM EventTypes == Spec => []TypeOK
<1>1. Inv => TypeOK
  BY DEF Inv, Data, Good, TypeOK, ConnType
<1>. QED  BY <1>1, Invariance, PTL

\* In the memory of the bus a number names one event, whatever failed, was
\* restored or came late.
THEOREM NumbersStayUnique == Spec => []NumbersAreUnique
<1>1. Inv => NumbersAreUnique  BY DEF Inv, Data
<1>. QED  BY <1>1, Invariance, PTL

\* As long as the memory stays, no event that came in order falls between replay
\* and queue, for any number of publishes and of clients.
THEOREM NothingOwedIsLost == Spec => []OwedIsOnItsWay
<1>1. Inv => OwedIsOnItsWay
  <2>. SUFFICES ASSUME Inv, NEW c \in Clients, conn[c].warm,
                       conn[c].pc \in {"replaying", "draining", "live"}
                PROVE  conn[c].owed \subseteq conn[c].replay \cup conn[c].withheld
                          \cup {e \in InQueue(conn[c]) : conn[c].pc = "live" \/ seq[e] > conn[c].cutoff}
    BY DEF OwedIsOnItsWay
  <2>1. Covered(conn[c], seq)  BY DEF Inv, Good
  <2>. QED  BY <2>1 DEF Covered, Elements, InQueue
<1>. QED  BY <1>1, Invariance, PTL

=============================================================================
