------------------------------ MODULE WsConnections ------------------------------
(***************************************************************************)
(* The WebSocket connections of one user: the tabs of the browser (WsClient*)
(* of the frontend) open a meeting, are told of the end of a connection,   *)
(* and try again; the server (meeting_ws) keeps the newest connection of   *)
(* the user to each meeting in _active_ws, closes the one it replaces, and *)
(* refuses new ones at a limit.  EventBus is what goes over a connection.  *)
(***************************************************************************)
EXTENDS Integers, FiniteSets

CONSTANTS
    Tabs,
    Shown,       \* meetings
    ConnMax,     \* WS_MAX_CONN_PER_USER
    MaxSockets,  \* bound: connections that are tried
    Nowhere

ASSUME ConnectionsAssumption == Tabs # {} /\ ConnMax \in Nat /\ MaxSockets \in Nat /\ Nowhere \notin Shown

VARIABLES
    tab,      \* tab -> the meeting it shows, this.ws, and whether its reconnectTimer runs
    socket,   \* connection -> its tab and meeting, its handler, its close code, and whether
              \* onclose has fired
    dialled,  \* connections made so far
    activeWs  \* _active_ws: the connection registered for a meeting, or 0

wsVars == <<tab, socket, dialled, activeWs>>

Sockets  == 1..MaxSockets
Undialled == [t |-> CHOOSE t \in Tabs : TRUE, m |-> Nowhere, handler |-> "none", superseded |-> FALSE,
              code |-> "open", told |-> FALSE]

WsInit == /\ tab = [t \in Tabs |-> [shows |-> Nowhere, ws |-> 0, retry |-> Nowhere]]
          /\ socket = [n \in Sockets |-> Undialled]
          /\ dialled = 0
          /\ activeWs = [m \in Shown |-> 0]

-----------------------------------------------------------------------------
(* WsClient                                                                *)

\* ws.close(1000) of the client, if the connection is still open.
Closed(sockets, n, code) ==
    IF n = 0 THEN sockets
    ELSE [sockets EXCEPT ![n].code = IF @ = "open" THEN code ELSE @]

\* createConnection: the old connection is closed, a new one is this.ws.
Dial(t, m) ==
    /\ dialled < MaxSockets
    /\ dialled' = dialled + 1
    /\ socket' = [Closed(socket, tab[t].ws, "normal") EXCEPT
                    ![dialled + 1] = [Undialled EXCEPT !.t = t, !.m = m, !.handler = "arriving"]]

\* connect: disconnect, which stops the timer, then createConnection.
OpenMeeting(t, m) ==
    /\ tab[t].shows # m
    /\ Dial(t, m)
    /\ tab' = [tab EXCEPT ![t] = [shows |-> m, ws |-> dialled + 1, retry |-> Nowhere]]
    /\ UNCHANGED activeWs

CloseMeeting(t) ==
    /\ tab[t].shows # Nowhere
    /\ socket' = Closed(socket, tab[t].ws, "normal")
    /\ tab' = [tab EXCEPT ![t] = [shows |-> Nowhere, ws |-> 0, retry |-> Nowhere]]
    /\ UNCHANGED <<dialled, activeWs>>

\* scheduleReconnect, of the meeting the handler was made for; only one timer runs.
Scheduled(t, n) ==
    IF socket[n].code = "normal" \/ tab[t].shows = Nowhere \/ tab[t].retry # Nowhere
    THEN tab
    ELSE [tab EXCEPT ![t].retry = socket[n].m]

\* Mutant: onclose of an old connection counts as well.
OnCloseOfAny(n) ==
    /\ socket[n].code # "open" /\ ~socket[n].told
    /\ socket' = [socket EXCEPT ![n].told = TRUE]
    /\ tab' = Scheduled(socket[n].t, n)
    /\ UNCHANGED <<dialled, activeWs>>

\* this.ws !== ws: an old connection's late onclose is ignored.
OnClose(n) ==
    /\ socket[n].code # "open" /\ ~socket[n].told
    /\ socket' = [socket EXCEPT ![n].told = TRUE]
    /\ tab' = IF tab[socket[n].t].ws = n THEN Scheduled(socket[n].t, n) ELSE tab
    /\ UNCHANGED <<dialled, activeWs>>

Reconnect(t) ==
    /\ tab[t].retry # Nowhere
    /\ Dial(t, tab[t].retry)
    /\ tab' = [tab EXCEPT ![t].ws = dialled + 1, ![t].retry = Nowhere]
    /\ UNCHANGED activeWs

\* The network, or a proxy, or the client's machine: both ends find out on their own.
ConnectionLost(n) ==
    /\ n <= dialled /\ socket[n].code = "open"
    /\ socket' = [socket EXCEPT ![n].code = "lost"]
    /\ UNCHANGED <<tab, dialled, activeWs>>

-----------------------------------------------------------------------------
(* meeting_ws                                                              *)

Registered == {m \in Shown : activeWs[m] # 0}

\* Requests of several connections may arrive in another order than they were made.
Refuse(n) ==
    /\ socket[n].handler = "arriving"
    /\ Cardinality(Registered) >= ConnMax
    /\ socket' = [Closed(socket, n, "refused") EXCEPT ![n].handler = "gone"]
    /\ UNCHANGED <<tab, dialled, activeWs>>

\* The old connection is closed by a task of its own.
Accept(n) ==
    /\ socket[n].handler = "arriving"
    /\ Cardinality(Registered) < ConnMax
    /\ LET m   == socket[n].m
           old == activeWs[m]
       IN  /\ activeWs' = [activeWs EXCEPT ![m] = n]
           /\ socket' = [k \in Sockets |->
                            IF k = n THEN [socket[k] EXCEPT !.handler = "replaying"]
                                     ELSE [socket[k] EXCEPT !.superseded = @ \/ k = old]]
    /\ UNCHANGED <<tab, dialled>>

CloseSuperseded(n) ==
    /\ socket[n].superseded /\ socket[n].code = "open"
    /\ socket' = Closed(socket, n, "normal")
    /\ UNCHANGED <<tab, dialled, activeWs>>

Serve(n) ==
    /\ socket[n].handler = "replaying"
    /\ socket' = [socket EXCEPT ![n].handler = "serving"]
    /\ UNCHANGED <<tab, dialled, activeWs>>

\* A send or a query fails before the try: no finally, _active_ws keeps the connection.
ReplayFails(n) ==
    /\ socket[n].handler = "replaying"
    /\ socket' = [Closed(socket, n, "lost") EXCEPT ![n].handler = "gone"]
    /\ UNCHANGED <<tab, dialled, activeWs>>

\* Mutant: finally removes the entry, whoever has it.
LeaveForAll(n) ==
    /\ socket[n].handler = "serving"
    /\ socket' = [Closed(socket, n, "lost") EXCEPT ![n].handler = "gone"]
    /\ activeWs' = [activeWs EXCEPT ![socket[n].m] = 0]
    /\ UNCHANGED <<tab, dialled>>

\* The finally: the connection has ended, or the handler failed.
Leave(n) ==
    /\ socket[n].handler = "serving"
    /\ socket' = [Closed(socket, n, "lost") EXCEPT ![n].handler = "gone"]
    /\ activeWs' = [activeWs EXCEPT ![socket[n].m] = IF @ = n THEN 0 ELSE @]
    /\ UNCHANGED <<tab, dialled>>

-----------------------------------------------------------------------------
WsNext == \/ \E t \in Tabs : \/ \E m \in Shown : OpenMeeting(t, m)
                             \/ CloseMeeting(t) \/ Reconnect(t)
          \/ \E n \in Sockets : \/ OnClose(n) \/ ConnectionLost(n) \/ Refuse(n) \/ Accept(n)
                                \/ CloseSuperseded(n) \/ Serve(n) \/ ReplayFails(n) \/ Leave(n)

WsSpec == WsInit /\ [][WsNext]_wsVars

-----------------------------------------------------------------------------
\* Every variable keeps its type.
WsTypeOK ==
    /\ tab \in [Tabs -> [shows : Shown \cup {Nowhere}, ws : 0..MaxSockets, retry : Shown \cup {Nowhere}]]
    /\ socket \in [Sockets -> [t : Tabs, m : Shown \cup {Nowhere},
                               handler : {"none", "arriving", "replaying", "serving", "gone"},
                               superseded : BOOLEAN,
                               code : {"open", "normal", "refused", "lost"}, told : BOOLEAN]]
    /\ dialled \in 0..MaxSockets
    /\ activeWs \in [Shown -> 0..MaxSockets]

\* Whatever ends late, a tab listens to a connection of the meeting it shows: neither the
\* onclose nor the timer of an earlier meeting brings that one back.
TabShowsItsMeeting ==
    \A t \in Tabs : /\ tab[t].ws # 0 => socket[tab[t].ws].m = tab[t].shows
                    /\ tab[t].retry \in {Nowhere, tab[t].shows}

\* ws.py:54: however connections are replaced, end and arrive late, at most one handler
\* for a meeting is not being closed: they do not pile up.
OneHandlerServes ==
    \A j, k \in Sockets :
        /\ socket[j].handler \in {"replaying", "serving"} /\ ~socket[j].superseded
        /\ socket[k].handler \in {"replaying", "serving"} /\ ~socket[k].superseded
        /\ socket[j].m = socket[k].m
        => j = k

=============================================================================
