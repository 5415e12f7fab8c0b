------------------------- MODULE Connections_proofs -------------------------
(* Theorems about browser contexts and about WebSocket connections, each *)
(* for any number of meetings, calls and sockets.                        *)
EXTENDS BrowserPool, WsConnections, FiniteSetTheorems, TLAPS

(* Browser contexts (BrowserPool).                                         *)

AtLock  == {"launching", "reclaiming", "opening", "scripting"}
Holding == {"reclaiming", "scripting"}

\* The lock is held by the one call that is launching, reclaiming, opening or preparing.
LockIsHeld == \A t \in Tools : tool[t].pc \in AtLock <=> poolLock = t

\* While a call makes room or opens, nobody else adds to the table: there stays a place for
\* its context, and its meeting has none.
PlaceIsFree == \A t \in Tools : tool[t].pc \in {"reclaiming", "opening", "scripting"} =>
                   Cardinality(contexts) < MaxContexts /\ ~Keeps(tool[t].m)

\* Contexts are numbered: the next one is in none of the sets.
NextIsNew == \A x \in contexts \cup openPages \cup releasing \cup lost : x.n <= opened

\* What is on its way out or left behind is not in the table any more, and what is being
\* prepared nowhere yet; that is open as long as Chromium is up.
OutOfTable ==
    /\ contexts \cap releasing = {} /\ contexts \cap lost = {}
    /\ \A t \in Tools :
          /\ tool[t].pc \in Holding => /\ tool[t].has \in Context /\ tool[t].has \notin contexts
                                       /\ tool[t].has.n <= opened
          /\ tool[t].pc = "scripting" => /\ tool[t].has.of = tool[t].m
                                         /\ tool[t].has \notin releasing \cup lost
                                         /\ chromium = "up" => tool[t].has \in openPages

PoolInv == /\ PoolTypeOK /\ IsFiniteSet(contexts)
           /\ LockIsHeld /\ PlaceIsFree /\ NextIsNew /\ OutOfTable
           /\ PoolWithinLimit /\ ContextsAreKnown

PCs == {"resting", "asking", "launching", "queueing", "reclaiming", "opening", "scripting", "browsing"}
Call == [pc : PCs, m : Browsing, has : Context \cup {NoContext}]

-----------------------------------------------------------------------------
(* The parts of the type invariant, and steps of a single call.            *)

LEMMA PoolTypesOfParts ==
    ASSUME PoolTypeOK
    PROVE  /\ chromium \in {"none", "up", "dead"} /\ opened \in 0..MaxOpened
           /\ contexts \subseteq Context /\ openPages \subseteq Context /\ releasing \subseteq Context
           /\ unused \subseteq Context /\ lost \subseteq Context
           /\ tool \in [Tools -> Call] /\ poolLock \in Tools \cup {NoTool}
  BY DEF PoolTypeOK, Call, PCs

LEMMA PoolPartsHaveTypes ==
    ASSUME chromium \in {"none", "up", "dead"}, opened \in 0..MaxOpened,
           contexts \subseteq Context, openPages \subseteq Context, releasing \subseteq Context,
           unused \subseteq Context, lost \subseteq Context,
           tool \in [Tools -> Call], poolLock \in Tools \cup {NoTool}
    PROVE  PoolTypeOK
  BY DEF PoolTypeOK, Call, PCs

LEMMA RestingIsCall == Resting \in Call /\ Resting.pc = "resting"
<1>1. (CHOOSE m \in Browsing : TRUE) \in Browsing  BY PoolAssumption
<1>. QED  BY <1>1 DEF Resting, NoContext, Call, PCs

LEMMA TurnsStep ==
    ASSUME tool \in [Tools -> Call], NEW t \in Tools, NEW pc \in PCs, Turns(t, pc)
    PROVE  /\ tool' \in [Tools -> Call]
           /\ tool'[t].pc = pc /\ tool'[t].m = tool[t].m /\ tool'[t].has = tool[t].has
           /\ \A u \in Tools \ {t} : tool'[u] = tool[u]
  BY DEF Turns, Call

LEMMA RestsStep ==
    ASSUME tool \in [Tools -> Call], NEW t \in Tools, Rests(t)
    PROVE  /\ tool' \in [Tools -> Call] /\ tool'[t].pc = "resting"
           /\ \A u \in Tools \ {t} : tool'[u] = tool[u]
  BY RestingIsCall DEF Rests

LEMMA ObtainsStep ==
    ASSUME tool \in [Tools -> Call], NEW t \in Tools, NEW x \in Context, Obtains(t, x)
    PROVE  /\ tool' \in [Tools -> Call] /\ tool'[t].pc = "browsing"
           /\ \A u \in Tools \ {t} : tool'[u] = tool[u]
<1>1. /\ tool' \in [Tools -> Call] /\ tool'[t] = [tool[t] EXCEPT !.pc = "browsing", !.has = x]
      /\ \A u \in Tools \ {t} : tool'[u] = tool[u]
  BY DEF Obtains, Call, PCs
<1>2. tool'[t].pc = "browsing"  BY <1>1 DEF Call
<1>. QED  BY <1>1, <1>2

LEMMA KeptContext == ASSUME NEW m, Keeps(m)
                     PROVE  ContextOf(m) \in contexts /\ ContextOf(m).of = m
  BY DEF Keeps, ContextOf

\* The empty pool of a new process satisfies PoolInv.
THEOREM PoolInitInv == PoolInit => PoolInv
<1>. SUFFICES ASSUME PoolInit PROVE PoolInv  OBVIOUS
<1>1. tool \in [Tools -> Call] /\ \A t \in Tools : tool[t].pc = "resting"
  BY RestingIsCall DEF PoolInit
<1>2. PoolTypeOK  BY <1>1, PoolAssumption, PoolPartsHaveTypes DEF PoolInit
<1>3. IsFiniteSet(contexts) /\ Cardinality(contexts) = 0  BY FS_EmptySet DEF PoolInit
<1>4. LockIsHeld /\ PlaceIsFree /\ NextIsNew /\ OutOfTable
  BY <1>1, PoolAssumption DEF PoolInit, LockIsHeld, AtLock, Holding, PlaceIsFree, NextIsNew, OutOfTable
<1>5. PoolWithinLimit /\ ContextsAreKnown
  BY <1>3, PoolAssumption DEF PoolInit, PoolWithinLimit, ContextsAreKnown
<1>. QED  BY <1>2, <1>3, <1>4, <1>5 DEF PoolInv

-----------------------------------------------------------------------------
(* Steps of get_context that leave the contexts alone.                     *)

\* A call goes on; the lock is with whoever is launching, reclaiming or opening, and who
\* comes to open or reclaim finds a place.
LEMMA CallInv ==
    ASSUME PoolInv, NEW t \in Tools, UNCHANGED <<contexts, openPages, releasing, lost, opened>>,
           chromium' \in {"none", "up", "dead"}, unused' \subseteq Context,
           tool' \in [Tools -> Call], \A u \in Tools \ {t} : tool'[u] = tool[u],
           poolLock' \in Tools \cup {NoTool},
           tool[t].pc \notin Holding, tool'[t].pc \notin Holding,
           chromium' = chromium \/ \A u \in Tools : tool[u].pc # "scripting",
           tool'[t].pc \in AtLock <=> poolLock' = t,
           \A u \in Tools \ {t} : poolLock' = u <=> poolLock = u,
           tool'[t].pc = "opening" =>
               Cardinality(contexts) < MaxContexts /\ ~Keeps(tool'[t].m)
    PROVE  PoolInv'
<1>1. PoolTypeOK'  BY PoolTypesOfParts, PoolPartsHaveTypes DEF PoolInv, PoolTypeOK, Call, PCs
<1>2. LockIsHeld'  BY DEF PoolInv, LockIsHeld
<1>3. PlaceIsFree'  BY DEF PoolInv, PlaceIsFree, Keeps, Holding
<1>4. NextIsNew' /\ OutOfTable'  BY DEF PoolInv, NextIsNew, OutOfTable, Holding
<1>5. PoolWithinLimit'  BY DEF PoolInv, PoolWithinLimit
<1>6. InHand' = InHand  BY DEF InHand, Holding
<1>7. ContextsAreKnown'  BY <1>6 DEF PoolInv, ContextsAreKnown
<1>. QED  BY <1>1, <1>2, <1>3, <1>4, <1>5, <1>7 DEF PoolInv

LEMMA AskInv == ASSUME PoolInv, NEW t \in Tools, NEW m \in Browsing, AskForContext(t, m) PROVE PoolInv'
<1>1. [pc |-> "asking", m |-> m, has |-> NoContext] \in Call  BY DEF Call, PCs
<1>2. /\ tool' \in [Tools -> Call] /\ tool'[t].pc = "asking"
      /\ \A u \in Tools \ {t} : tool'[u] = tool[u]
  BY <1>1, PoolTypesOfParts DEF AskForContext, PoolInv
<1>3. tool[t].pc = "resting" /\ poolLock # t  BY DEF AskForContext, PoolInv, LockIsHeld, AtLock
<1>. QED  BY <1>2, <1>3, CallInv, PoolTypesOfParts DEF AskForContext, PoolInv, AtLock, Holding

LEMMA LaunchInv == ASSUME PoolInv, NEW t \in Tools, Launch(t) PROVE PoolInv'
<1>1. /\ tool' \in [Tools -> Call] /\ tool'[t].pc = "launching"
      /\ \A u \in Tools \ {t} : tool'[u] = tool[u]
  BY TurnsStep, PoolTypesOfParts DEF Launch, PoolInv, PCs
<1>. QED  BY <1>1, CallInv, PoolTypesOfParts, PoolAssumption DEF Launch, LockIsFree, PoolInv, AtLock, Holding

LEMMA LaunchedInv == ASSUME PoolInv, NEW t \in Tools, Launched(t) PROVE PoolInv'
<1>1. tool[t].pc = "launching" /\ poolLock = t /\ poolLock' = NoTool
  BY DEF Launched, PoolInv, LockIsHeld, AtLock
<1>2. /\ tool' \in [Tools -> Call] /\ tool'[t].pc \in {"asking", "resting"}
      /\ \A u \in Tools \ {t} : tool'[u] = tool[u]
      /\ chromium' \in {"none", "up", "dead"}
  BY TurnsStep, RestsStep, PoolTypesOfParts DEF Launched, PoolInv, PCs
<1>3. \A u \in Tools : tool[u].pc # "scripting"  BY <1>1 DEF PoolInv, LockIsHeld, AtLock
<1>. QED
  BY <1>1, <1>2, <1>3, CallInv, PoolTypesOfParts, PoolAssumption DEF Launched, PoolInv, AtLock, Holding

LEMMA FindContextInv == ASSUME PoolInv, NEW t \in Tools, FindContext(t) PROVE PoolInv'
<1>1. ContextOf(tool[t].m) \in Context
  BY KeptContext, PoolTypesOfParts DEF FindContext, PoolInv
<1>2. /\ tool' \in [Tools -> Call] /\ tool'[t].pc = "browsing"
      /\ \A u \in Tools \ {t} : tool'[u] = tool[u]
  BY <1>1, ObtainsStep, PoolTypesOfParts DEF FindContext, PoolInv
<1>3. tool[t].pc = "asking" /\ poolLock # t  BY DEF FindContext, PoolInv, LockIsHeld, AtLock
<1>. QED  BY <1>2, <1>3, CallInv, PoolTypesOfParts DEF FindContext, PoolInv, AtLock, Holding

LEMMA MissContextInv == ASSUME PoolInv, NEW t \in Tools, MissContext(t) PROVE PoolInv'
<1>1. /\ tool' \in [Tools -> Call] /\ tool'[t].pc = "queueing"
      /\ \A u \in Tools \ {t} : tool'[u] = tool[u]
  BY TurnsStep, PoolTypesOfParts DEF MissContext, PoolInv, PCs
<1>2. tool[t].pc = "asking" /\ poolLock # t  BY DEF MissContext, PoolInv, LockIsHeld, AtLock
<1>. QED  BY <1>1, <1>2, CallInv, PoolTypesOfParts DEF MissContext, PoolInv, AtLock, Holding

LEMMA FindAfterAllInv == ASSUME PoolInv, NEW t \in Tools, FindAfterAll(t) PROVE PoolInv'
<1>1. ContextOf(tool[t].m) \in Context
  BY KeptContext, PoolTypesOfParts DEF FindAfterAll, PoolInv
<1>2. /\ tool' \in [Tools -> Call] /\ tool'[t].pc = "browsing"
      /\ \A u \in Tools \ {t} : tool'[u] = tool[u]
  BY <1>1, ObtainsStep, PoolTypesOfParts DEF FindAfterAll, PoolInv
<1>3. tool[t].pc = "queueing" /\ poolLock # t  BY DEF FindAfterAll, PoolInv, LockIsHeld, AtLock
<1>. QED  BY <1>2, <1>3, CallInv, PoolTypesOfParts DEF FindAfterAll, PoolInv, AtLock, Holding

\* The place is looked for with the lock in hand.
LEMMA StartContextInv == ASSUME PoolInv, NEW t \in Tools, StartContext(t) PROVE PoolInv'
<1>1. /\ tool' \in [Tools -> Call] /\ tool'[t].pc = "opening" /\ tool'[t].m = tool[t].m
      /\ \A u \in Tools \ {t} : tool'[u] = tool[u]
  BY TurnsStep, PoolTypesOfParts DEF StartContext, PoolInv, PCs
<1>. QED  BY <1>1, CallInv, PoolTypesOfParts, PoolAssumption DEF StartContext, LockIsFree, PoolInv, AtLock, Holding

LEMMA PoolIsFullInv == ASSUME PoolInv, NEW t \in Tools, PoolIsFull(t) PROVE PoolInv'
<1>1. /\ tool' \in [Tools -> Call] /\ tool'[t].pc = "resting"
      /\ \A u \in Tools \ {t} : tool'[u] = tool[u]
  BY RestsStep, PoolTypesOfParts DEF PoolIsFull, PoolInv
<1>2. tool[t].pc = "queueing" /\ poolLock # t  BY DEF PoolIsFull, PoolInv, LockIsHeld, AtLock
<1>. QED  BY <1>1, <1>2, CallInv, PoolTypesOfParts DEF PoolIsFull, PoolInv, AtLock, Holding

LEMMA OpenFailsInv == ASSUME PoolInv, NEW t \in Tools, OpenFails(t) PROVE PoolInv'
<1>1. /\ tool' \in [Tools -> Call] /\ tool'[t].pc = "resting"
      /\ \A u \in Tools \ {t} : tool'[u] = tool[u]
  BY RestsStep, PoolTypesOfParts DEF OpenFails, PoolInv
<1>2. tool[t].pc = "opening" /\ poolLock = t  BY DEF OpenFails, PoolInv, LockIsHeld, AtLock
<1>. QED  BY <1>1, <1>2, CallInv, PoolTypesOfParts, PoolAssumption DEF OpenFails, PoolInv, AtLock, Holding

LEMMA BrowsedInv == ASSUME PoolInv, NEW t \in Tools, Browsed(t) PROVE PoolInv'
<1>1. /\ tool' \in [Tools -> Call] /\ tool'[t].pc = "resting"
      /\ \A u \in Tools \ {t} : tool'[u] = tool[u]
  BY RestsStep, PoolTypesOfParts DEF Browsed, PoolInv
<1>2. tool[t].pc = "browsing" /\ poolLock # t  BY DEF Browsed, PoolInv, LockIsHeld, AtLock
<1>. QED  BY <1>1, <1>2, CallInv, PoolTypesOfParts DEF Browsed, PoolInv, AtLock, Holding

-----------------------------------------------------------------------------
(* Steps that take contexts out of the table.                              *)

\* Contexts only leave: the limit, the places and the numbers stay right.
LEMMA FewerContexts ==
    ASSUME PoolInv, contexts' \subseteq contexts, opened' = opened
    PROVE  /\ IsFiniteSet(contexts') /\ Cardinality(contexts') <= Cardinality(contexts)
           /\ PoolWithinLimit'
<1>1. /\ IsFiniteSet(contexts') /\ Cardinality(contexts') <= Cardinality(contexts)
      /\ Cardinality(contexts') \in Nat /\ Cardinality(contexts) \in Nat
  BY FS_Subset, FS_CardinalityType DEF PoolInv
<1>2. Cardinality(contexts') <= MaxContexts
  BY <1>1, PoolAssumption DEF PoolInv, PoolWithinLimit
<1>. QED  BY <1>1, <1>2 DEF PoolInv, PoolWithinLimit

\* What release_context and the idle loop take out is on its way out.
LEMMA TakenOutInv ==
    ASSUME PoolInv, NEW x \in contexts, contexts' = contexts \ {x}, releasing' = releasing \cup {x},
           UNCHANGED <<chromium, openPages, unused, tool, poolLock, opened, lost>>
    PROVE  PoolInv'
<1>1. IsFiniteSet(contexts') /\ Cardinality(contexts') <= Cardinality(contexts) /\ PoolWithinLimit'
  BY FewerContexts
<1>2. PoolTypeOK'  BY PoolTypesOfParts, PoolPartsHaveTypes DEF PoolInv, PoolTypeOK, Call, PCs
<1>3. LockIsHeld'  BY DEF PoolInv, LockIsHeld
<1>4. PlaceIsFree'
  <2>1. Cardinality(contexts) < MaxContexts => Cardinality(contexts') < MaxContexts
    BY <1>1, FS_CardinalityType, PoolAssumption DEF PoolInv
  <2>. QED  BY <2>1 DEF PoolInv, PlaceIsFree, Keeps
<1>5. NextIsNew'  BY DEF PoolInv, NextIsNew
<1>6. OutOfTable'  BY DEF PoolInv, OutOfTable, Holding
<1>7. ContextsAreKnown'  BY DEF PoolInv, ContextsAreKnown, InHand
<1>. QED  BY <1>1, <1>2, <1>3, <1>4, <1>5, <1>6, <1>7 DEF PoolInv

LEMMA ReleaseContextInv == ASSUME PoolInv, NEW m \in Browsing, ReleaseContext(m) PROVE PoolInv'
  BY KeptContext, TakenOutInv DEF ReleaseContext

LEMMA ReclaimIdleInv == ASSUME PoolInv, NEW x \in contexts, ReclaimIdle(x) PROVE PoolInv'
  BY TakenOutInv DEF ReclaimIdle

\* A full pool gives up one context, which makes the place for the new one.
LEMMA ReclaimOldestInv == ASSUME PoolInv, NEW t \in Tools, NEW x \in contexts, ReclaimOldest(t, x) PROVE PoolInv'
<1>1. /\ contexts' = contexts \ {x} /\ poolLock = NoTool /\ poolLock' = t /\ tool[t].pc = "queueing"
      /\ ~Keeps(tool[t].m) /\ UNCHANGED <<chromium, openPages, releasing, unused, opened, lost>>
      /\ tool' = [tool EXCEPT ![t].pc = "reclaiming", ![t].has = x]
  BY DEF ReclaimOldest, LockIsFree
<1>2. x \in Context /\ tool \in [Tools -> Call] /\ x.n <= opened
  BY PoolTypesOfParts DEF PoolInv, NextIsNew
<1>3. /\ tool' \in [Tools -> Call] /\ tool'[t] = [tool[t] EXCEPT !.pc = "reclaiming", !.has = x]
      /\ \A u \in Tools \ {t} : tool'[u] = tool[u]
  BY <1>1, <1>2 DEF Call, PCs
<1>4. tool'[t].pc = "reclaiming" /\ tool'[t].has = x /\ tool'[t].m = tool[t].m
  BY <1>2, <1>3 DEF Call
<1>5. /\ IsFiniteSet(contexts') /\ PoolWithinLimit'
      /\ Cardinality(contexts') < MaxContexts
  <2>1. IsFiniteSet(contexts') /\ PoolWithinLimit'  BY <1>1, FewerContexts
  <2>2. Cardinality(contexts') = Cardinality(contexts) - 1 /\ Cardinality(contexts) \in Nat
    BY <1>1, FS_RemoveElement, FS_CardinalityType DEF PoolInv
  <2>. QED  BY <2>1, <2>2, PoolAssumption DEF PoolInv, PoolWithinLimit
<1>6. PoolTypeOK'  BY <1>1, <1>3, PoolTypesOfParts, PoolPartsHaveTypes DEF PoolInv, PoolTypeOK, Call, PCs
<1>7. LockIsHeld'
  <2>1. poolLock # t /\ \A u \in Tools \ {t} : poolLock' # u /\ poolLock # u  BY <1>1, PoolAssumption
  <2>. QED  BY <1>1, <1>3, <1>4, <2>1 DEF PoolInv, LockIsHeld, AtLock
<1>8. \A u \in Tools \ {t} : tool[u].pc \notin {"reclaiming", "opening", "scripting"}
  BY <1>1, PoolAssumption DEF PoolInv, LockIsHeld, AtLock
<1>9. PlaceIsFree'
  BY <1>1, <1>3, <1>4, <1>5, <1>8 DEF PlaceIsFree, Keeps
<1>10. NextIsNew'  BY <1>1 DEF PoolInv, NextIsNew
<1>11. OutOfTable'
  BY <1>1, <1>2, <1>3, <1>4, <1>8 DEF PoolInv, OutOfTable, Holding
<1>12. ContextsAreKnown'
  <2>1. x \in InHand'  BY <1>4 DEF InHand
  <2>2. InHand = {}  BY <1>1, <1>8 DEF InHand
  <2>. QED  BY <1>1, <2>1, <2>2 DEF PoolInv, ContextsAreKnown
<1>. QED  BY <1>5, <1>6, <1>7, <1>9, <1>10, <1>11, <1>12 DEF PoolInv

LEMMA CloseContextInv == ASSUME PoolInv, NEW x \in releasing, CloseContext(x) PROVE PoolInv'
<1>1. /\ releasing' = releasing \ {x} /\ openPages' = openPages \ {x} /\ x \notin contexts
      /\ UNCHANGED <<chromium, contexts, unused, tool, poolLock, opened, lost>>
  BY DEF CloseContext, PoolInv, OutOfTable
<1>2. PoolTypeOK'  BY <1>1, PoolTypesOfParts, PoolPartsHaveTypes DEF PoolInv, PoolTypeOK, Call, PCs
<1>3. LockIsHeld' /\ PlaceIsFree' /\ NextIsNew' /\ OutOfTable' /\ PoolWithinLimit'
  BY <1>1 DEF PoolInv, LockIsHeld, PlaceIsFree, Keeps, NextIsNew, OutOfTable, Holding, PoolWithinLimit
<1>4. ContextsAreKnown'  BY <1>1 DEF PoolInv, ContextsAreKnown, InHand
<1>. QED  BY <1>1, <1>2, <1>3, <1>4 DEF PoolInv

\* What a failing close leaves behind is on record.
LEMMA CloseFailsInv == ASSUME PoolInv, NEW x \in releasing, CloseFails(x) PROVE PoolInv'
<1>1. /\ releasing' = releasing \ {x} /\ lost' = lost \cup ({x} \cap openPages) /\ x \notin contexts
      /\ \A t \in Tools : tool[t].pc = "scripting" => tool[t].has # x
      /\ UNCHANGED <<chromium, contexts, openPages, unused, tool, poolLock, opened>>
  BY DEF CloseFails, Loses, PoolInv, OutOfTable
<1>2. PoolTypeOK'  BY <1>1, PoolTypesOfParts, PoolPartsHaveTypes DEF PoolInv, PoolTypeOK, Call, PCs
<1>3. LockIsHeld' /\ PlaceIsFree' /\ NextIsNew' /\ OutOfTable' /\ PoolWithinLimit'
  BY <1>1 DEF PoolInv, LockIsHeld, PlaceIsFree, Keeps, NextIsNew, OutOfTable, Holding, PoolWithinLimit
<1>4. ContextsAreKnown'  BY <1>1 DEF PoolInv, ContextsAreKnown, InHand
<1>. QED  BY <1>1, <1>2, <1>3, <1>4 DEF PoolInv

LEMMA SameContextsInv ==
    ASSUME PoolInv, unused' \subseteq Context,
           UNCHANGED <<chromium, contexts, openPages, releasing, tool, poolLock, opened, lost>>
    PROVE  PoolInv'
<1>1. PoolTypeOK'  BY PoolTypesOfParts, PoolPartsHaveTypes DEF PoolInv, PoolTypeOK, Call, PCs
<1>2. LockIsHeld' /\ PlaceIsFree' /\ NextIsNew' /\ OutOfTable' /\ PoolWithinLimit' /\ ContextsAreKnown'
  BY DEF PoolInv, LockIsHeld, PlaceIsFree, Keeps, NextIsNew, OutOfTable, Holding, PoolWithinLimit,
         ContextsAreKnown, InHand
<1>. QED  BY <1>1, <1>2 DEF PoolInv

LEMMA GetsUnusedInv == ASSUME PoolInv, NEW x \in contexts, GetsUnused(x) PROVE PoolInv'
  BY SameContextsInv, PoolTypesOfParts DEF GetsUnused, PoolInv

LEMMA DisconnectedInv == ASSUME PoolInv, Disconnected PROVE PoolInv'
<1>1. /\ contexts' = {} /\ openPages' = {} /\ lost' = {} /\ chromium' = "dead"
      /\ UNCHANGED <<releasing, unused, tool, poolLock, opened>>
  BY DEF Disconnected
<1>2. IsFiniteSet(contexts') /\ Cardinality(contexts') = 0  BY <1>1, FS_EmptySet
<1>3. PoolTypeOK'  BY <1>1, PoolTypesOfParts, PoolPartsHaveTypes DEF PoolInv, PoolTypeOK, Call, PCs
<1>4. PlaceIsFree' /\ PoolWithinLimit'
  BY <1>1, <1>2, PoolAssumption DEF PlaceIsFree, Keeps, PoolWithinLimit
<1>5. LockIsHeld' /\ NextIsNew' /\ OutOfTable' /\ ContextsAreKnown'
  BY <1>1 DEF PoolInv, LockIsHeld, NextIsNew, OutOfTable, Holding, ContextsAreKnown
<1>. QED  BY <1>2, <1>3, <1>4, <1>5 DEF PoolInv

\* The context that made way is closed, or left behind.
LEMMA ReclaimedInv == ASSUME PoolInv, NEW t \in Tools, Reclaimed(t) \/ ReclaimFails(t) PROVE PoolInv'
<1>. DEFINE x == tool[t].has
<1>1. /\ tool[t].pc = "reclaiming" /\ poolLock = t
      /\ UNCHANGED <<chromium, contexts, releasing, unused, poolLock, opened>>
      /\ x \notin contexts /\ x.n <= opened /\ x \in Context
      /\ \/ openPages' = openPages \ {x} /\ lost' = lost
         \/ openPages' = openPages /\ lost' = lost \cup ({x} \cap openPages)
  BY DEF Reclaimed, ReclaimFails, Loses, PoolInv, LockIsHeld, AtLock, OutOfTable, Holding
<1>2. /\ tool' \in [Tools -> Call] /\ tool'[t].pc = "opening" /\ tool'[t].m = tool[t].m
      /\ \A u \in Tools \ {t} : tool'[u] = tool[u]
  BY TurnsStep, PoolTypesOfParts DEF Reclaimed, ReclaimFails, PoolInv, PCs
<1>3. PoolTypeOK'  BY <1>1, <1>2, PoolTypesOfParts, PoolPartsHaveTypes DEF PoolInv, PoolTypeOK, Call, PCs
<1>4. LockIsHeld'  BY <1>1, <1>2 DEF PoolInv, LockIsHeld, AtLock
<1>5. PlaceIsFree'  BY <1>1, <1>2 DEF PoolInv, PlaceIsFree, Keeps
<1>6. \A u \in Tools \ {t} : tool[u].pc \notin Holding  BY <1>1 DEF PoolInv, LockIsHeld, AtLock, Holding
<1>7. NextIsNew' /\ OutOfTable' /\ PoolWithinLimit'
  BY <1>1, <1>2, <1>6 DEF PoolInv, NextIsNew, OutOfTable, Holding, PoolWithinLimit
<1>8. ContextsAreKnown'
  <2>1. InHand \subseteq {x}  BY <1>6 DEF InHand, Holding
  <2>. QED  BY <1>1, <2>1 DEF PoolInv, ContextsAreKnown
<1>. QED  BY <1>1, <1>3, <1>4, <1>5, <1>7, <1>8 DEF PoolInv

-----------------------------------------------------------------------------
(* Steps that open a context.                                              *)

LEMMA NewContext ==
    ASSUME PoolInv, NEW t \in Tools, opened < MaxOpened
    PROVE  LET x == [of |-> tool[t].m, n |-> opened + 1]
           IN  /\ x \in Context /\ x.of = tool[t].m /\ x.n = opened + 1
               /\ x \notin contexts \cup openPages \cup releasing \cup lost
               /\ opened + 1 \in 0..MaxOpened
               /\ \A y \in contexts \cup openPages \cup releasing \cup lost : y.n <= opened + 1
<1>1. opened \in Nat /\ opened + 1 \in 1..MaxOpened /\ tool[t].m \in Browsing
  BY PoolAssumption, PoolTypesOfParts DEF PoolInv, Call
<1>2. \A y \in contexts \cup openPages \cup releasing \cup lost : y.n <= opened /\ y.n \in Nat
  BY PoolTypesOfParts DEF PoolInv, NextIsNew, Context
<1>. QED  BY <1>1, <1>2 DEF Context

\* A new context is open, in the hand of the call that has the lock.
LEMMA OpenContextInv == ASSUME PoolInv, NEW t \in Tools, OpenContext(t) PROVE PoolInv'
<1>. DEFINE x == [of |-> tool[t].m, n |-> opened + 1]
<1>1. /\ tool[t].pc = "opening" /\ poolLock = t /\ opened < MaxOpened
      /\ \A u \in Tools \ {t} : tool[u].pc \notin AtLock
  BY DEF OpenContext, PoolInv, LockIsHeld, AtLock
<1>2. /\ x \in Context /\ x.of = tool[t].m /\ x.n = opened + 1
      /\ x \notin contexts \cup openPages \cup releasing \cup lost
      /\ opened + 1 \in 0..MaxOpened
      /\ \A y \in contexts \cup openPages \cup releasing \cup lost : y.n <= opened + 1
  BY <1>1, NewContext
<1>3. /\ openPages' = openPages \cup {x} /\ opened' = opened + 1
      /\ tool' = [tool EXCEPT ![t].pc = "scripting", ![t].has = x]
      /\ UNCHANGED <<chromium, contexts, releasing, unused, poolLock, lost>>
  BY DEF OpenContext
<1>. HIDE DEF x
<1>4. tool \in [Tools -> Call]  BY PoolTypesOfParts DEF PoolInv
<1>5. /\ tool' \in [Tools -> Call] /\ tool'[t] = [tool[t] EXCEPT !.pc = "scripting", !.has = x]
      /\ \A u \in Tools \ {t} : tool'[u] = tool[u]
  BY <1>2, <1>3, <1>4 DEF Call, PCs
<1>6. tool'[t].pc = "scripting" /\ tool'[t].has = x /\ tool'[t].m = tool[t].m
  BY <1>4, <1>5 DEF Call
<1>7. PoolTypeOK'
  BY <1>2, <1>3, <1>5, PoolTypesOfParts, PoolPartsHaveTypes DEF PoolInv, PoolTypeOK, Call, PCs
<1>8. LockIsHeld' /\ PlaceIsFree'
  BY <1>1, <1>3, <1>5, <1>6 DEF PoolInv, LockIsHeld, AtLock, PlaceIsFree, Keeps
<1>9. NextIsNew'  BY <1>2, <1>3, PoolTypesOfParts, PoolAssumption DEF PoolInv, NextIsNew
<1>10. opened + 1 <= opened'  BY <1>2, <1>3
<1>11. OutOfTable'
  BY <1>1, <1>2, <1>3, <1>5, <1>6, <1>10 DEF PoolInv, OutOfTable, Holding, AtLock
<1>12. PoolWithinLimit' /\ IsFiniteSet(contexts')  BY <1>3 DEF PoolInv, PoolWithinLimit
<1>13. ContextsAreKnown'
  <2>1. x \in InHand' /\ InHand = {}  BY <1>1, <1>6 DEF InHand, AtLock
  <2>. QED  BY <1>3, <2>1 DEF PoolInv, ContextsAreKnown
<1>. QED  BY <1>7, <1>8, <1>9, <1>11, <1>12, <1>13 DEF PoolInv

\* The place that was found is still there, and nobody has made the meeting a context.
LEMMA RegisterContextInv == ASSUME PoolInv, NEW t \in Tools, RegisterContext(t) PROVE PoolInv'
<1>. DEFINE x == tool[t].has
<1>1. /\ tool[t].pc = "scripting" /\ poolLock = t /\ chromium = "up"
      /\ \A u \in Tools \ {t} : tool[u].pc \notin AtLock
      /\ Cardinality(contexts) < MaxContexts /\ ~Keeps(tool[t].m)
  BY DEF RegisterContext, PoolInv, LockIsHeld, AtLock, PlaceIsFree
<1>2. /\ x \in Context /\ x.of = tool[t].m /\ x.n <= opened /\ x \in openPages
      /\ x \notin contexts \cup releasing \cup lost
  BY <1>1 DEF PoolInv, OutOfTable, Holding
<1>3. /\ contexts' = contexts \cup {x} /\ poolLock' = NoTool /\ Turns(t, "browsing")
      /\ UNCHANGED <<chromium, openPages, releasing, unused, opened, lost>>
  BY DEF RegisterContext
<1>4. /\ tool' \in [Tools -> Call] /\ tool'[t].pc = "browsing"
      /\ \A u \in Tools \ {t} : tool'[u] = tool[u]
  BY <1>3, TurnsStep, PoolTypesOfParts DEF PoolInv, PCs
<1>. HIDE DEF x
<1>6. IsFiniteSet(contexts') /\ Cardinality(contexts') <= MaxContexts
  <2>1. IsFiniteSet(contexts') /\ Cardinality(contexts') = Cardinality(contexts) + 1
    BY <1>2, <1>3, FS_AddElement DEF PoolInv
  <2>2. Cardinality(contexts) \in Nat  BY FS_CardinalityType DEF PoolInv
  <2>. QED  BY <1>1, <2>1, <2>2, PoolAssumption
<1>7. PoolTypeOK'
  BY <1>2, <1>3, <1>4, PoolTypesOfParts, PoolPartsHaveTypes DEF PoolInv, PoolTypeOK, Call, PCs
<1>8. LockIsHeld'
  BY <1>1, <1>3, <1>4, PoolAssumption DEF LockIsHeld, AtLock
<1>9. PlaceIsFree' /\ OutOfTable'
  BY <1>1, <1>2, <1>3, <1>4 DEF PoolInv, PlaceIsFree, OutOfTable, AtLock, Holding
<1>10. NextIsNew'  BY <1>2, <1>3 DEF PoolInv, NextIsNew
<1>11. PoolWithinLimit'
  <2>1. \A y \in contexts : y.of # x.of  BY <1>1, <1>2 DEF Keeps
  <2>. QED  BY <1>3, <1>6, <2>1 DEF PoolInv, PoolWithinLimit
<1>12. ContextsAreKnown'
  <2>1. InHand \subseteq {x}  BY <1>1 DEF InHand, AtLock, x
  <2>. QED  BY <1>2, <1>3, <2>1 DEF PoolInv, ContextsAreKnown
<1>. QED  BY <1>6, <1>7, <1>8, <1>9, <1>10, <1>11, <1>12 DEF PoolInv

\* A call that gives up what it has in hand gives the lock back, and has it on record.
LEMMA GivesUpInv ==
    ASSUME PoolInv, NEW t \in Tools, tool[t].pc \in Holding, Loses(tool[t].has), Rests(t),
           poolLock' = NoTool, UNCHANGED <<chromium, contexts, openPages, releasing, unused, opened>>
    PROVE  PoolInv'
<1>. DEFINE x == tool[t].has
<1>1. /\ lost' = lost \cup ({x} \cap openPages) /\ x \in Context /\ x \notin contexts /\ x.n <= opened
      /\ \A u \in Tools \ {t} : tool[u].pc \notin AtLock
  BY DEF Loses, PoolInv, OutOfTable, LockIsHeld, AtLock, Holding
<1>2. /\ tool' \in [Tools -> Call] /\ tool'[t].pc = "resting"
      /\ \A u \in Tools \ {t} : tool'[u] = tool[u]
  BY RestsStep, PoolTypesOfParts DEF PoolInv
<1>3. InHand \subseteq {x}  BY <1>1 DEF InHand, AtLock
<1>. HIDE DEF x
<1>4. PoolTypeOK'
  BY <1>1, <1>2, PoolTypesOfParts, PoolPartsHaveTypes DEF PoolInv, PoolTypeOK, Call, PCs
<1>5. LockIsHeld'  BY <1>1, <1>2, PoolAssumption DEF LockIsHeld, AtLock
<1>6. PlaceIsFree' /\ OutOfTable' /\ NextIsNew'
  BY <1>1, <1>2 DEF PoolInv, PlaceIsFree, Keeps, OutOfTable, NextIsNew, AtLock, Holding
<1>7. PoolWithinLimit' /\ IsFiniteSet(contexts')  BY DEF PoolInv, PoolWithinLimit
<1>8. ContextsAreKnown'  BY <1>1, <1>3 DEF PoolInv, ContextsAreKnown
<1>. QED  BY <1>4, <1>5, <1>6, <1>7, <1>8 DEF PoolInv

LEMMA ScriptFailsInv == ASSUME PoolInv, NEW t \in Tools, ScriptFails(t) PROVE PoolInv'
  BY GivesUpInv DEF ScriptFails, Holding

\* A cancelled call gives the lock back; what it leaves open is on record as lost.
LEMMA CancelToolInv == ASSUME PoolInv, NEW t \in Tools, CancelTool(t) PROVE PoolInv'
<1>. DEFINE x == [of |-> tool[t].m, n |-> opened + 1]
<1>1. /\ tool' \in [Tools -> Call] /\ tool'[t].pc = "resting"
      /\ \A u \in Tools \ {t} : tool'[u] = tool[u]
  BY RestsStep, PoolTypesOfParts DEF CancelTool, PoolInv
<1>2. /\ UNCHANGED <<chromium, contexts, releasing, unused>>
      /\ poolLock' = IF poolLock = t THEN NoTool ELSE poolLock
  BY DEF CancelTool
<1>3. LockIsHeld'
  BY <1>1, <1>2, PoolAssumption DEF PoolInv, LockIsHeld, AtLock
<1>4. PlaceIsFree' /\ PoolWithinLimit' /\ IsFiniteSet(contexts')
  BY <1>1, <1>2 DEF PoolInv, PlaceIsFree, Keeps, PoolWithinLimit
<1>5. poolLock' \in Tools \cup {NoTool}  BY <1>2, PoolTypesOfParts DEF PoolInv
<1>6. CASE opened < MaxOpened /\ tool[t].pc = "opening" /\ openPages' = openPages \cup {x}
           /\ lost' = lost \cup {x} /\ opened' = opened + 1
  <2>1. /\ x \in Context /\ x.n = opened + 1 /\ opened + 1 \in 0..MaxOpened
        /\ x \notin contexts \cup openPages \cup releasing \cup lost
        /\ \A y \in contexts \cup openPages \cup releasing \cup lost : y.n <= opened + 1
    BY <1>6, NewContext
  <2>. HIDE DEF x
  <2>2. \A u \in Tools \ {t} : tool[u].pc \notin Holding
    BY <1>6 DEF PoolInv, LockIsHeld, AtLock, Holding
  <2>3. InHand = {}  BY <1>6, <2>2 DEF InHand, Holding
  <2>4. PoolTypeOK'
    BY <1>1, <1>2, <1>5, <1>6, <2>1, PoolTypesOfParts, PoolPartsHaveTypes DEF PoolInv, PoolTypeOK, Call, PCs
  <2>5. NextIsNew'  BY <1>2, <1>6, <2>1, PoolTypesOfParts, PoolAssumption DEF PoolInv, NextIsNew
  <2>6. OutOfTable'  BY <1>1, <1>2, <1>6, <2>1, <2>2 DEF PoolInv, OutOfTable, Holding
  <2>7. ContextsAreKnown'  BY <1>2, <1>6, <2>1, <2>3 DEF PoolInv, ContextsAreKnown
  <2>. QED  BY <1>3, <1>4, <2>4, <2>5, <2>6, <2>7 DEF PoolInv
<1>7. CASE tool[t].pc \in Holding /\ Loses(tool[t].has) /\ UNCHANGED <<openPages, opened>>
  <2>1. poolLock' = NoTool  BY <1>2, <1>7 DEF PoolInv, LockIsHeld, AtLock, Holding
  <2>. QED  BY <1>2, <1>7, <2>1, GivesUpInv DEF CancelTool
<1>8. CASE tool[t].pc \notin Holding /\ UNCHANGED <<openPages, opened, lost>>
  <2>1. InHand' = InHand  BY <1>1, <1>8 DEF InHand, Holding
  <2>2. PoolTypeOK'
    BY <1>1, <1>2, <1>5, <1>8, PoolTypesOfParts, PoolPartsHaveTypes DEF PoolInv, PoolTypeOK, Call, PCs
  <2>3. NextIsNew' /\ OutOfTable'  BY <1>1, <1>2, <1>8 DEF PoolInv, NextIsNew, OutOfTable, Holding
  <2>4. ContextsAreKnown'  BY <1>2, <1>8, <2>1 DEF PoolInv, ContextsAreKnown
  <2>. QED  BY <1>3, <1>4, <2>2, <2>3, <2>4 DEF PoolInv
<1>. QED  BY <1>6, <1>7, <1>8 DEF CancelTool, Holding

-----------------------------------------------------------------------------
\* PoolInv is an inductive invariant of the pool.
THEOREM PoolNextInv == PoolInv /\ [PoolNext]_poolVars => PoolInv'
<1>. SUFFICES ASSUME PoolInv, [PoolNext]_poolVars PROVE PoolInv'  OBVIOUS
<1>1. ASSUME NEW t \in Tools, ToolStep(t) PROVE PoolInv'
  BY <1>1, AskInv, LaunchInv, LaunchedInv, FindContextInv, MissContextInv, FindAfterAllInv,
     StartContextInv, ReclaimedInv, PoolIsFullInv, OpenContextInv, OpenFailsInv, ReclaimOldestInv,
     RegisterContextInv, ScriptFailsInv, BrowsedInv, CancelToolInv DEF ToolStep
<1>2. ASSUME NEW m \in Browsing, ReleaseContext(m) PROVE PoolInv'  BY <1>2, ReleaseContextInv
<1>3. ASSUME NEW x \in contexts, ReclaimIdle(x) \/ GetsUnused(x) PROVE PoolInv'
  BY <1>3, ReclaimIdleInv, GetsUnusedInv
<1>4. ASSUME NEW x \in releasing, CloseContext(x) \/ CloseFails(x) PROVE PoolInv'
  BY <1>4, CloseContextInv, CloseFailsInv
<1>5. CASE Disconnected  BY <1>5, DisconnectedInv
<1>6. CASE UNCHANGED poolVars
  BY <1>6, SameContextsInv, PoolTypesOfParts DEF poolVars, PoolInv
<1>. QED  BY <1>1, <1>2, <1>3, <1>4, <1>5, <1>6 DEF PoolNext

\* PoolInv holds of every behaviour of the pool (browser_tool.py).
THEOREM PoolInvariant == PoolSpec => []PoolInv
<1>1. PoolInit => PoolInv  BY PoolInitInv
<1>2. PoolInv /\ [PoolNext]_poolVars => PoolInv'  BY PoolNextInv
<1>. QED  BY <1>1, <1>2, PTL DEF PoolSpec

\* Every variable keeps its type, for any number of meetings and tools.
THEOREM PoolTypes == PoolSpec => []PoolTypeOK
<1>1. PoolInv => PoolTypeOK  BY DEF PoolInv
<1>. QED  BY <1>1, PoolInvariant, PTL

\* The pool stays within its limit, with one context for a meeting (browser_tool.py:381).
THEOREM PoolStaysWithinLimit == PoolSpec => []PoolWithinLimit
<1>1. PoolInv => PoolWithinLimit  BY DEF PoolInv
<1>. QED  BY <1>1, PoolInvariant, PTL

\* No context is leaked but by a cancelled call, a failing add_init_script or a failing close
\* (browser_tool.py 398, 291), and none in the table is closed or leaked.
THEOREM NoContextIsLeaked == PoolSpec => []ContextsAreKnown
<1>1. PoolInv => ContextsAreKnown  BY DEF PoolInv
<1>. QED  BY <1>1, PoolInvariant, PTL

-----------------------------------------------------------------------------
(* WebSocket connections (WsConnections).                                  *)

\* A connection that was tried has a meeting, and no tab has one that was not.
TriedHasMeeting ==
    /\ \A n \in Sockets : socket[n].handler # "none" => socket[n].m \in Shown
    /\ \A t \in Tabs : tab[t].ws <= dialled

\* The handler that is not being closed is the one the registry has: a newer one has
\* registered only by superseding it.
ServingIsRegistered ==
    \A n \in Sockets : /\ socket[n].handler \in {"replaying", "serving"}
                       /\ ~socket[n].superseded
                       => activeWs[socket[n].m] = n

WsInv == /\ WsTypeOK /\ TriedHasMeeting /\ TabShowsItsMeeting /\ ServingIsRegistered

Handlers == {"none", "arriving", "replaying", "serving", "gone"}
Codes    == {"open", "normal", "refused", "lost"}
Socket   == [t : Tabs, m : Shown \cup {Nowhere}, handler : Handlers, superseded : BOOLEAN,
             code : Codes, told : BOOLEAN]

LEMMA WsTypesOfParts ==
    ASSUME WsTypeOK
    PROVE  /\ tab \in [Tabs -> [shows : Shown \cup {Nowhere}, ws : 0..MaxSockets, retry : Shown \cup {Nowhere}]]
           /\ socket \in [Sockets -> Socket]
           /\ dialled \in 0..MaxSockets /\ activeWs \in [Shown -> 0..MaxSockets]
  BY DEF WsTypeOK, Socket, Handlers, Codes

LEMMA WsPartsHaveTypes ==
    ASSUME tab \in [Tabs -> [shows : Shown \cup {Nowhere}, ws : 0..MaxSockets, retry : Shown \cup {Nowhere}]],
           socket \in [Sockets -> Socket],
           dialled \in 0..MaxSockets, activeWs \in [Shown -> 0..MaxSockets]
    PROVE  WsTypeOK
  BY DEF WsTypeOK, Socket, Handlers, Codes

\* Closing a connection changes its code and nothing else.
LEMMA ClosedKeeps ==
    ASSUME socket \in [Sockets -> Socket], NEW n \in 0..MaxSockets, NEW code \in Codes
    PROVE  /\ Closed(socket, n, code) \in [Sockets -> Socket]
           /\ \A k \in Sockets : /\ Closed(socket, n, code)[k].m = socket[k].m
                                 /\ Closed(socket, n, code)[k].t = socket[k].t
                                 /\ Closed(socket, n, code)[k].handler = socket[k].handler
                                 /\ Closed(socket, n, code)[k].superseded = socket[k].superseded
<1>1. CASE n = 0  BY <1>1 DEF Closed
<1>2. CASE n # 0
  <2>1. n \in Sockets  BY <1>2, ConnectionsAssumption DEF Sockets
  <2>2. PICK c \in Codes : Closed(socket, n, code) = [socket EXCEPT ![n].code = c]
    BY <1>2, <2>1 DEF Closed, Socket
  <2>. QED  BY <2>1, <2>2 DEF Socket
<1>. QED  BY <1>1, <1>2

\* Before any tab connects WsInv holds.
THEOREM WsInitInv == WsInit => WsInv
<1>. SUFFICES ASSUME WsInit PROVE WsInv  OBVIOUS
<1>1. Undialled \in Socket
  <2>1. (CHOOSE t \in Tabs : TRUE) \in Tabs  BY ConnectionsAssumption
  <2>. QED  BY <2>1 DEF Undialled, Socket, Handlers, Codes
<1>2. WsTypeOK
  BY <1>1, ConnectionsAssumption, WsPartsHaveTypes DEF WsInit
<1>3. \A n \in Sockets : socket[n].handler = "none"  BY DEF WsInit, Undialled
<1>. QED  BY <1>2, <1>3 DEF WsInit, WsInv, TriedHasMeeting, TabShowsItsMeeting, ServingIsRegistered

\* Steps that change neither the tabs nor whose connection is whose.
LEMMA SameConnections ==
    ASSUME WsInv, UNCHANGED <<tab, dialled>>, socket' \in [Sockets -> Socket],
           activeWs' \in [Shown -> 0..MaxSockets],
           \A n \in Sockets : /\ socket'[n].m = socket[n].m
                              /\ socket[n].handler = "none" => socket'[n].handler = "none"
    PROVE  WsTypeOK' /\ TriedHasMeeting' /\ TabShowsItsMeeting'
<1>1. WsTypeOK'  BY WsPartsHaveTypes DEF WsInv, WsTypeOK, Socket, Handlers, Codes
<1>2. TriedHasMeeting'  BY DEF WsInv, TriedHasMeeting
<1>3. TabShowsItsMeeting'
  <2>1. \A t \in Tabs : tab[t].ws # 0 => tab[t].ws \in Sockets
    BY ConnectionsAssumption DEF WsInv, WsTypeOK, Sockets
  <2>. QED  BY <2>1 DEF WsInv, TabShowsItsMeeting
<1>. QED  BY <1>1, <1>2, <1>3

\* A handler that does not start, with the registry as it is.
LEMMA SameRegistry ==
    ASSUME WsInv, UNCHANGED activeWs,
           \A n \in Sockets :
              /\ socket'[n].m = socket[n].m
              /\ socket'[n].handler \in {"replaying", "serving"} =>
                    socket[n].handler \in {"replaying", "serving"}
              /\ socket'[n].superseded = socket[n].superseded
    PROVE  ServingIsRegistered'
  BY DEF WsInv, ServingIsRegistered

-----------------------------------------------------------------------------
(* The client.                                                             *)

\* A new connection of a tab: it has not been tried before, no handler serves it, and the
\* others keep their meetings.
LEMMA DialKeeps ==
    ASSUME WsInv, NEW t \in Tabs, NEW m \in Shown, Dial(t, m)
    PROVE  /\ socket' \in [Sockets -> Socket] /\ dialled' \in 0..MaxSockets
           /\ dialled' = dialled + 1 /\ dialled' \in Sockets
           /\ socket'[dialled'].m = m /\ socket'[dialled'].handler = "arriving"
           /\ \A k \in Sockets \ {dialled'} :
                  /\ socket'[k].m = socket[k].m /\ socket'[k].handler = socket[k].handler
                  /\ socket'[k].superseded = socket[k].superseded
<1>1. dialled' = dialled + 1 /\ dialled' \in Sockets /\ dialled' \in 0..MaxSockets
  BY ConnectionsAssumption DEF WsInv, WsTypeOK, Dial, Sockets
<1>2. socket \in [Sockets -> Socket] /\ tab[t].ws \in 0..MaxSockets
  BY WsTypesOfParts DEF WsInv
<1>3. "normal" \in Codes  BY DEF Codes
<1>. DEFINE c == Closed(socket, tab[t].ws, "normal")
            new == [Undialled EXCEPT !.t = t, !.m = m, !.handler = "arriving"]
<1>4. /\ c \in [Sockets -> Socket]
      /\ \A k \in Sockets : c[k].m = socket[k].m /\ c[k].handler = socket[k].handler
                            /\ c[k].superseded = socket[k].superseded
  BY <1>2, <1>3, ClosedKeeps
<1>5. new \in Socket /\ new.m = m /\ new.handler = "arriving"
  BY DEF Undialled, Socket, Handlers, Codes
<1>6. socket' = [c EXCEPT ![dialled + 1] = new]  BY DEF Dial
<1>. HIDE DEF c, new
<1>. QED  BY <1>1, <1>4, <1>5, <1>6

\* The tab that dials shows the meeting of its new connection.
LEMMA DialInv ==
    ASSUME WsInv, NEW t \in Tabs, NEW m \in Shown, Dial(t, m), UNCHANGED activeWs,
           tab' = [tab EXCEPT ![t] = [shows |-> m, ws |-> dialled + 1, retry |-> Nowhere]]
    PROVE  WsInv'
<1>1. /\ socket' \in [Sockets -> Socket] /\ dialled' \in 0..MaxSockets
      /\ dialled' = dialled + 1 /\ dialled' \in Sockets
      /\ socket'[dialled'].m = m /\ socket'[dialled'].handler = "arriving"
      /\ \A k \in Sockets \ {dialled'} :
             /\ socket'[k].m = socket[k].m /\ socket'[k].handler = socket[k].handler
             /\ socket'[k].superseded = socket[k].superseded
  BY DialKeeps
<1>2. WsTypeOK'
  BY <1>1, WsTypesOfParts, WsPartsHaveTypes DEF WsInv, WsTypeOK, Socket, Handlers, Codes
<1>3. TriedHasMeeting'
  <2>1. dialled \in Nat /\ \A u \in Tabs : tab[u].ws \in Nat
    BY ConnectionsAssumption DEF WsInv, WsTypeOK
  <2>2. \A u \in Tabs : tab'[u].ws = IF u = t THEN dialled + 1 ELSE tab[u].ws
    BY WsTypesOfParts DEF WsInv
  <2>3. \A u \in Tabs : tab'[u].ws <= dialled'
    BY <1>1, <2>1, <2>2 DEF WsInv, TriedHasMeeting
  <2>. QED  BY <1>1, <2>3 DEF WsInv, TriedHasMeeting
<1>4. TabShowsItsMeeting'
  <2>1. \A u \in Tabs \ {t} : tab'[u] = tab[u]  BY WsTypesOfParts DEF WsInv
  <2>2. \A u \in Tabs \ {t} : tab[u].ws # 0 => tab[u].ws \in Sockets \ {dialled'}
    <3>. SUFFICES ASSUME NEW u \in Tabs \ {t}, tab[u].ws # 0 PROVE tab[u].ws \in Sockets \ {dialled'}
      OBVIOUS
    <3>1. tab[u].ws \in 0..MaxSockets /\ tab[u].ws <= dialled /\ dialled \in Nat
      BY ConnectionsAssumption DEF WsInv, WsTypeOK, TriedHasMeeting
    <3>. QED  BY <1>1, <3>1, ConnectionsAssumption DEF Sockets
  <2>3. tab'[t] = [shows |-> m, ws |-> dialled', retry |-> Nowhere]
    BY <1>1, WsTypesOfParts DEF WsInv
  <2>4. ASSUME NEW u \in Tabs
        PROVE  /\ tab'[u].ws # 0 => socket'[tab'[u].ws].m = tab'[u].shows
               /\ tab'[u].retry \in {Nowhere, tab'[u].shows}
    <3>1. CASE u = t  BY <1>1, <2>3, <3>1
    <3>2. CASE u # t
      <4>1. tab'[u] = tab[u] /\ (tab[u].ws # 0 => tab[u].ws \in Sockets \ {dialled'})
        BY <2>1, <2>2, <3>2
      <4>2. tab[u].ws # 0 => socket'[tab[u].ws].m = socket[tab[u].ws].m  BY <1>1, <4>1
      <4>3. /\ tab[u].ws # 0 => socket[tab[u].ws].m = tab[u].shows
            /\ tab[u].retry \in {Nowhere, tab[u].shows}
        BY DEF WsInv, TabShowsItsMeeting
      <4>. QED  BY <4>1, <4>2, <4>3
    <3>. QED  BY <3>1, <3>2
  <2>. QED  BY <2>4 DEF TabShowsItsMeeting
<1>5. ServingIsRegistered'
  BY <1>1 DEF WsInv, ServingIsRegistered
<1>. QED  BY <1>2, <1>3, <1>4, <1>5 DEF WsInv

LEMMA OpenMeetingInv == ASSUME WsInv, NEW t \in Tabs, NEW m \in Shown, OpenMeeting(t, m) PROVE WsInv'
  BY DialInv DEF OpenMeeting

\* The timer is of the meeting that is still shown.
LEMMA ReconnectInv == ASSUME WsInv, NEW t \in Tabs, Reconnect(t) PROVE WsInv'
<1>1. tab[t].retry \in Shown /\ tab[t].retry = tab[t].shows
  BY DEF Reconnect, WsInv, WsTypeOK, TabShowsItsMeeting
<1>2. tab' = [tab EXCEPT ![t] = [shows |-> tab[t].retry, ws |-> dialled + 1, retry |-> Nowhere]]
  BY <1>1 DEF Reconnect, WsInv, WsTypeOK
<1>. QED  BY <1>1, <1>2, DialInv DEF Reconnect

LEMMA CloseMeetingInv == ASSUME WsInv, NEW t \in Tabs, CloseMeeting(t) PROVE WsInv'
<1>1. "normal" \in Codes /\ tab[t].ws \in 0..MaxSockets  BY DEF Codes, WsInv, WsTypeOK
<1>2. /\ socket' \in [Sockets -> Socket]
      /\ \A k \in Sockets : socket'[k].m = socket[k].m /\ socket'[k].handler = socket[k].handler
                            /\ socket'[k].superseded = socket[k].superseded
  BY <1>1, WsTypesOfParts, ClosedKeeps DEF CloseMeeting, WsInv
<1>3. /\ tab' \in [Tabs -> [shows : Shown \cup {Nowhere}, ws : 0..MaxSockets, retry : Shown \cup {Nowhere}]]
      /\ \A u \in Tabs : tab'[u] = IF u = t THEN [shows |-> Nowhere, ws |-> 0, retry |-> Nowhere] ELSE tab[u]
  BY WsTypesOfParts, ConnectionsAssumption DEF CloseMeeting, WsInv
<1>4. WsTypeOK'  BY <1>2, <1>3, WsTypesOfParts, WsPartsHaveTypes DEF CloseMeeting, WsInv, WsTypeOK, Socket, Handlers, Codes
<1>5. TriedHasMeeting'
  BY <1>2, <1>3, ConnectionsAssumption DEF CloseMeeting, WsInv, TriedHasMeeting, WsTypeOK
<1>6. TabShowsItsMeeting'
  <2>1. \A u \in Tabs : tab[u].ws # 0 => tab[u].ws \in Sockets
    BY ConnectionsAssumption DEF WsInv, WsTypeOK, Sockets
  <2>. QED  BY <1>2, <1>3, <2>1 DEF WsInv, TabShowsItsMeeting
<1>7. ServingIsRegistered'  BY <1>2, SameRegistry DEF CloseMeeting
<1>. QED  BY <1>4, <1>5, <1>6, <1>7 DEF WsInv

\* onclose: only the end of the connection a tab has starts its timer, and that connection
\* is of the meeting it shows.
LEMMA OnCloseInv == ASSUME WsInv, NEW n \in Sockets, OnClose(n) PROVE WsInv'
<1>1. socket' = [socket EXCEPT ![n].told = TRUE] /\ UNCHANGED <<dialled, activeWs>>  BY DEF OnClose
<1>2. /\ socket' \in [Sockets -> Socket]
      /\ \A k \in Sockets : socket'[k].m = socket[k].m /\ socket'[k].handler = socket[k].handler
                            /\ socket'[k].superseded = socket[k].superseded
  BY <1>1, WsTypesOfParts DEF WsInv, Socket
<1>3. CASE tab' = tab
  BY <1>1, <1>2, <1>3, SameConnections, SameRegistry, WsTypesOfParts DEF WsInv
<1>4. CASE tab' # tab
  <2>. DEFINE t == socket[n].t
  <2>1. t \in Tabs /\ tab[t].ws = n /\ tab' = Scheduled(t, n)
    BY <1>4, WsTypesOfParts DEF OnClose, WsInv, Socket
  <2>2. tab' = [tab EXCEPT ![t].retry = socket[n].m] /\ tab[t].shows # Nowhere
    BY <1>4, <2>1 DEF Scheduled
  <2>3. tab[t].ws # 0 /\ socket[n].m = tab[t].shows /\ socket[n].m \in Shown
    BY <2>1, <2>2 DEF WsInv, TabShowsItsMeeting, WsTypeOK, Sockets
  <2>. HIDE DEF t
  <2>4. /\ tab' \in [Tabs -> [shows : Shown \cup {Nowhere}, ws : 0..MaxSockets, retry : Shown \cup {Nowhere}]]
        /\ \A u \in Tabs : /\ tab'[u].ws = tab[u].ws /\ tab'[u].shows = tab[u].shows
                           /\ tab'[u].retry = IF u = t THEN tab[t].shows ELSE tab[u].retry
    BY <2>1, <2>2, <2>3, WsTypesOfParts DEF WsInv
  <2>5. WsTypeOK'  BY <1>1, <1>2, <2>4, WsTypesOfParts, WsPartsHaveTypes DEF WsInv, WsTypeOK, Socket, Handlers, Codes
  <2>6. TriedHasMeeting'  BY <1>1, <1>2, <2>4 DEF WsInv, TriedHasMeeting
  <2>7. TabShowsItsMeeting'
    <3>1. \A u \in Tabs : tab[u].ws # 0 => tab[u].ws \in Sockets
      BY ConnectionsAssumption DEF WsInv, WsTypeOK, Sockets
    <3>. QED  BY <1>2, <2>4, <3>1 DEF WsInv, TabShowsItsMeeting
  <2>8. ServingIsRegistered'  BY <1>1, <1>2, SameRegistry
  <2>. QED  BY <2>5, <2>6, <2>7, <2>8 DEF WsInv
<1>. QED  BY <1>3, <1>4

LEMMA ConnectionLostInv == ASSUME WsInv, NEW n \in Sockets, ConnectionLost(n) PROVE WsInv'
<1>1. /\ socket' \in [Sockets -> Socket]
      /\ \A k \in Sockets : socket'[k].m = socket[k].m /\ socket'[k].handler = socket[k].handler
                            /\ socket'[k].superseded = socket[k].superseded
  BY WsTypesOfParts DEF WsInv, ConnectionLost, Socket, Codes
<1>. QED  BY <1>1, SameConnections, SameRegistry, WsTypesOfParts DEF WsInv, ConnectionLost

-----------------------------------------------------------------------------
(* The server.                                                             *)

LEMMA IndexOfSocket == ASSUME NEW n \in Sockets PROVE n \in 0..MaxSockets /\ n # 0
  BY ConnectionsAssumption DEF Sockets

\* A handler that goes away closes its connection; the others keep what they have.
LEMMA GoesAway ==
    ASSUME WsInv, NEW n \in Sockets, NEW code \in Codes,
           socket' = [Closed(socket, n, code) EXCEPT ![n].handler = "gone"]
    PROVE  /\ socket' \in [Sockets -> Socket]
           /\ socket'[n].handler = "gone"
           /\ \A k \in Sockets : /\ socket'[k].m = socket[k].m
                                 /\ socket'[k].superseded = socket[k].superseded
                                 /\ k # n => socket'[k].handler = socket[k].handler
<1>. DEFINE c == Closed(socket, n, code)
<1>1. /\ c \in [Sockets -> Socket]
      /\ \A k \in Sockets : c[k].m = socket[k].m /\ c[k].handler = socket[k].handler
                            /\ c[k].superseded = socket[k].superseded
  BY IndexOfSocket, WsTypesOfParts, ClosedKeeps DEF WsInv
<1>2. socket' = [c EXCEPT ![n].handler = "gone"]  OBVIOUS
<1>. HIDE DEF c
<1>3. c[n] \in Socket  BY <1>1
<1>4. [c[n] EXCEPT !.handler = "gone"] \in Socket  BY <1>3 DEF Socket, Handlers
<1>5. /\ socket' \in [Sockets -> Socket]
      /\ socket'[n] = [c[n] EXCEPT !.handler = "gone"]
      /\ \A k \in Sockets \ {n} : socket'[k] = c[k]
  BY <1>1, <1>2, <1>4
<1>6. /\ socket'[n].handler = "gone" /\ socket'[n].m = c[n].m
      /\ socket'[n].superseded = c[n].superseded
  BY <1>3, <1>5 DEF Socket
<1>. QED  BY <1>1, <1>5, <1>6

LEMMA RefuseInv == ASSUME WsInv, NEW n \in Sockets, Refuse(n) PROVE WsInv'
<1>1. "refused" \in Codes  BY DEF Codes
<1>2. /\ socket' \in [Sockets -> Socket] /\ socket'[n].handler = "gone"
      /\ \A k \in Sockets : /\ socket'[k].m = socket[k].m
                            /\ socket'[k].superseded = socket[k].superseded
                            /\ k # n => socket'[k].handler = socket[k].handler
  BY <1>1, GoesAway DEF Refuse
<1>3. socket[n].handler # "none" /\ UNCHANGED <<tab, dialled, activeWs>>  BY DEF Refuse
<1>4. WsTypeOK' /\ TriedHasMeeting' /\ TabShowsItsMeeting'
  BY <1>2, <1>3, SameConnections, WsTypesOfParts DEF WsInv
<1>5. ServingIsRegistered'  BY <1>2, <1>3 DEF WsInv, ServingIsRegistered
<1>. QED  BY <1>4, <1>5 DEF WsInv

\* Whoever served the meeting until now was registered, and so it is superseded.
LEMMA AcceptInv == ASSUME WsInv, NEW n \in Sockets, Accept(n) PROVE WsInv'
<1>. DEFINE m   == socket[n].m
            old == activeWs[m]
<1>1. m \in Shown  BY DEF Accept, WsInv, TriedHasMeeting
<1>2. socket' = [k \in Sockets |->
                   IF k = n THEN [socket[k] EXCEPT !.handler = "replaying"]
                            ELSE [socket[k] EXCEPT !.superseded = socket[k].superseded \/ k = old]]
  BY DEF Accept
<1>a. \A k \in Sockets : socket[k] \in Socket  BY WsTypesOfParts DEF WsInv
<1>b. \A k \in Sockets : /\ [socket[k] EXCEPT !.handler = "replaying"] \in Socket
                          /\ [socket[k] EXCEPT !.superseded = socket[k].superseded \/ k = old] \in Socket
  BY <1>a DEF Socket, Handlers
<1>. HIDE DEF old, m
<1>3. /\ socket' \in [Sockets -> Socket]
      /\ \A k \in Sockets : socket'[k].m = socket[k].m
  <2>1. \A k \in Sockets : socket'[k] \in Socket  BY <1>2, <1>a, <1>b
  <2>2. \A k \in Sockets \ {n} : socket'[k].m = socket[k].m  BY <1>2, <1>a DEF Socket
  <2>3. socket'[n].m = socket[n].m  BY <1>2, <1>a DEF Socket
  <2>. QED  BY <1>2, <2>1, <2>2, <2>3
<1>4. /\ socket'[n].handler = "replaying"
      /\ \A k \in Sockets \ {n} : /\ socket'[k].handler = socket[k].handler
                                  /\ k = old => socket'[k].superseded
                                  /\ k # old => socket'[k].superseded = socket[k].superseded
  <2>1. socket'[n].handler = "replaying"  BY <1>2, <1>a DEF Socket
  <2>2. ASSUME NEW k \in Sockets \ {n}
        PROVE  /\ socket'[k].handler = socket[k].handler
               /\ k = old => socket'[k].superseded
               /\ k # old => socket'[k].superseded = socket[k].superseded
    BY <1>2, <1>a DEF Socket
  <2>. QED  BY <2>1, <2>2
<1>5. activeWs' = [activeWs EXCEPT ![m] = n] /\ UNCHANGED <<tab, dialled>> /\ socket[n].handler = "arriving"
  BY DEF Accept, m
<1>6. activeWs' \in [Shown -> 0..MaxSockets]  BY <1>5, WsTypesOfParts, IndexOfSocket DEF WsInv
<1>7. WsTypeOK' /\ TriedHasMeeting' /\ TabShowsItsMeeting'
  <2>1. \A k \in Sockets : socket[k].handler = "none" => socket'[k].handler = "none"
    BY <1>4, <1>5
  <2>. QED  BY <1>3, <1>5, <1>6, <2>1, SameConnections
<1>8. ServingIsRegistered'
  <2>. SUFFICES ASSUME NEW k \in Sockets, socket'[k].handler \in {"replaying", "serving"},
                       ~socket'[k].superseded
                PROVE  activeWs'[socket'[k].m] = k
    BY DEF ServingIsRegistered
  <2>1. CASE k = n  BY <1>1, <1>3, <1>5, <2>1, WsTypesOfParts DEF WsInv, m
  <2>2. CASE k # n
    <3>1. k # old /\ activeWs[socket[k].m] = k  BY <1>4, <2>2 DEF WsInv, ServingIsRegistered
    <3>2. socket[k].m # m  BY <3>1 DEF old
    <3>3. socket[k].m \in Shown  BY <1>4, <2>2 DEF WsInv, TriedHasMeeting
    <3>. QED  BY <1>3, <1>5, <3>1, <3>2, <3>3, WsTypesOfParts DEF WsInv
  <2>. QED  BY <2>1, <2>2
<1>. QED  BY <1>7, <1>8 DEF WsInv

LEMMA CloseSupersededInv == ASSUME WsInv, NEW n \in Sockets, CloseSuperseded(n) PROVE WsInv'
<1>1. "normal" \in Codes  BY DEF Codes
<1>2. /\ socket' \in [Sockets -> Socket]
      /\ \A k \in Sockets : socket'[k].m = socket[k].m /\ socket'[k].handler = socket[k].handler
                            /\ socket'[k].superseded = socket[k].superseded
  BY <1>1, IndexOfSocket, WsTypesOfParts, ClosedKeeps DEF CloseSuperseded, WsInv
<1>. QED  BY <1>2, SameConnections, SameRegistry, WsTypesOfParts DEF WsInv, CloseSuperseded

LEMMA ServeInv == ASSUME WsInv, NEW n \in Sockets, Serve(n) PROVE WsInv'
<1>1. /\ socket' \in [Sockets -> Socket]
      /\ \A k \in Sockets : /\ socket'[k].m = socket[k].m /\ socket'[k].superseded = socket[k].superseded
                            /\ socket'[k].handler = IF k = n THEN "serving" ELSE socket[k].handler
  BY WsTypesOfParts DEF WsInv, Serve, Socket, Handlers
<1>2. socket[n].handler = "replaying"  BY DEF Serve
<1>. QED  BY <1>1, <1>2, SameConnections, SameRegistry, WsTypesOfParts DEF WsInv, Serve

\* The entry that stays behind belongs to nobody who serves.
LEMMA ReplayFailsInv == ASSUME WsInv, NEW n \in Sockets, ReplayFails(n) PROVE WsInv'
<1>1. "lost" \in Codes  BY DEF Codes
<1>2. /\ socket' \in [Sockets -> Socket] /\ socket'[n].handler = "gone"
      /\ \A k \in Sockets : /\ socket'[k].m = socket[k].m
                            /\ socket'[k].superseded = socket[k].superseded
                            /\ k # n => socket'[k].handler = socket[k].handler
  BY <1>1, GoesAway DEF ReplayFails
<1>3. socket[n].handler # "none" /\ UNCHANGED <<tab, dialled, activeWs>>  BY DEF ReplayFails
<1>4. WsTypeOK' /\ TriedHasMeeting' /\ TabShowsItsMeeting'
  BY <1>2, <1>3, SameConnections, WsTypesOfParts DEF WsInv
<1>5. ServingIsRegistered'  BY <1>2, <1>3 DEF WsInv, ServingIsRegistered
<1>. QED  BY <1>4, <1>5 DEF WsInv

\* The finally takes away no entry but its own.
LEMMA LeaveInv == ASSUME WsInv, NEW n \in Sockets, Leave(n) PROVE WsInv'
<1>. DEFINE m == socket[n].m
<1>1. "lost" \in Codes /\ m \in Shown /\ socket[n].handler # "none" /\ UNCHANGED <<tab, dialled>>
  BY DEF Codes, Leave, WsInv, TriedHasMeeting
<1>2. /\ socket' \in [Sockets -> Socket] /\ socket'[n].handler = "gone"
      /\ \A k \in Sockets : /\ socket'[k].m = socket[k].m
                            /\ socket'[k].superseded = socket[k].superseded
                            /\ k # n => socket'[k].handler = socket[k].handler
  BY <1>1, GoesAway DEF Leave
<1>3. activeWs' = [activeWs EXCEPT ![m] = IF activeWs[m] = n THEN 0 ELSE activeWs[m]]  BY DEF Leave
<1>4. activeWs' \in [Shown -> 0..MaxSockets]
  BY <1>1, <1>3, WsTypesOfParts, ConnectionsAssumption DEF WsInv
<1>5. WsTypeOK' /\ TriedHasMeeting' /\ TabShowsItsMeeting'
  BY <1>1, <1>2, <1>4, SameConnections
<1>6. ServingIsRegistered'
  <2>. SUFFICES ASSUME NEW k \in Sockets, socket'[k].handler \in {"replaying", "serving"},
                       ~socket'[k].superseded
                PROVE  activeWs'[socket'[k].m] = k
    BY DEF ServingIsRegistered
  <2>1. k # n /\ activeWs[socket[k].m] = k  BY <1>2 DEF WsInv, ServingIsRegistered
  <2>2. socket[k].m \in Shown  BY <1>2, <2>1 DEF WsInv, TriedHasMeeting
  <2>. QED  BY <1>1, <1>2, <1>3, <2>1, <2>2, WsTypesOfParts DEF WsInv
<1>. QED  BY <1>5, <1>6 DEF WsInv

-----------------------------------------------------------------------------
\* WsInv is an inductive invariant of the connections.
THEOREM WsNextInv == WsInv /\ [WsNext]_wsVars => WsInv'
<1>. SUFFICES ASSUME WsInv, [WsNext]_wsVars PROVE WsInv'  OBVIOUS
<1>1. ASSUME NEW t \in Tabs, (\E m \in Shown : OpenMeeting(t, m)) \/ CloseMeeting(t) \/ Reconnect(t)
      PROVE  WsInv'
  BY <1>1, OpenMeetingInv, CloseMeetingInv, ReconnectInv
<1>2. ASSUME NEW n \in Sockets,
             \/ OnClose(n) \/ ConnectionLost(n) \/ Refuse(n) \/ Accept(n)
             \/ CloseSuperseded(n) \/ Serve(n) \/ ReplayFails(n) \/ Leave(n)
      PROVE  WsInv'
  BY <1>2, OnCloseInv, ConnectionLostInv, RefuseInv, AcceptInv, CloseSupersededInv, ServeInv,
     ReplayFailsInv, LeaveInv
<1>3. CASE UNCHANGED wsVars
  <2>1. UNCHANGED <<tab, socket, dialled, activeWs>>  BY <1>3 DEF wsVars
  <2>. QED  BY <2>1, SameConnections, SameRegistry, WsTypesOfParts DEF WsInv
<1>. QED  BY <1>1, <1>2, <1>3 DEF WsNext

\* WsInv holds of every behaviour of tabs and server (ws.ts, ws.py).
THEOREM WsInvariant == WsSpec => []WsInv
<1>1. WsInit => WsInv  BY WsInitInv
<1>2. WsInv /\ [WsNext]_wsVars => WsInv'  BY WsNextInv
<1>. QED  BY <1>1, <1>2, PTL DEF WsSpec

\* Every variable keeps its type, for any tabs and meetings.
THEOREM WsTypes == WsSpec => []WsTypeOK
<1>1. WsInv => WsTypeOK  BY DEF WsInv
<1>. QED  BY <1>1, WsInvariant, PTL

\* A tab listens only to the meeting it shows (ws.ts:83).
THEOREM TabsKeepToTheirMeeting == WsSpec => []TabShowsItsMeeting
<1>1. WsInv => TabShowsItsMeeting  BY DEF WsInv
<1>. QED  BY <1>1, WsInvariant, PTL

\* At most one handler for a meeting is not being closed (ws.py:54, 618): it is the one the
\* registry has.
THEOREM HandlersDoNotPileUp == WsSpec => []OneHandlerServes
<1>1. WsInv => OneHandlerServes
  BY DEF WsInv, ServingIsRegistered, OneHandlerServes
<1>. QED  BY <1>1, WsInvariant, PTL

=============================================================================
