------------------------------ MODULE BrowserPool ------------------------------
(***************************************************************************)
(* The pool of browser contexts: one Chromium, a context for each meeting  *)
(* that browses, at most MaxContexts.  Tools of the agents ask for their   *)
(* meeting's context; the end of a run, a full pool and the idle loop take *)
(* contexts away.  Everything awaits Playwright, with the pool's lock held *)
(* while a context is made and without it while one is closed.             *)
(***************************************************************************)
EXTENDS Integers, FiniteSets

CONSTANTS
    Browsing,     \* meetings
    Tools,        \* tool calls of agents, one after the other each
    MaxContexts,  \* MAX_CONTEXTS
    MaxOpened,    \* bound: contexts made in a run of the model
    NoTool

ASSUME PoolAssumption == Browsing # {} /\ MaxContexts \in Nat \ {0} /\ MaxOpened \in Nat /\ NoTool \notin Tools

VARIABLES
    chromium,  \* "none", "up", or "dead": disconnected
    contexts,  \* _contexts: the context of each meeting that has one
    openPages, \* contexts that are open in Chromium
    releasing, \* contexts that release_context has taken out and is closing
    unused,    \* contexts past their idle timeout
    tool,      \* what each tool call does, its meeting, and the context it closes or has
    poolLock,  \* the tool call that holds _lock, or NoTool
    opened,    \* contexts made so far
    lost       \* history: open contexts that a cancelled call, a failed script or a failed
               \* close has left behind

poolVars == <<chromium, contexts, openPages, releasing, unused, tool, poolLock, opened, lost>>

Context   == [of : Browsing, n : 1..MaxOpened]
NoContext == [of |-> CHOOSE m \in Browsing : TRUE, n |-> 0]

Resting   == [pc |-> "resting", m |-> NoContext.of, has |-> NoContext]

PoolInit == /\ chromium = "none"
            /\ contexts = {} /\ openPages = {} /\ releasing = {} /\ unused = {} /\ lost = {}
            /\ tool = [t \in Tools |-> Resting]
            /\ poolLock = NoTool /\ opened = 0

Keeps(m) == \E x \in contexts : x.of = m
ContextOf(m) == CHOOSE x \in contexts : x.of = m

Turns(t, pc) == tool' = [tool EXCEPT ![t].pc = pc]
Rests(t) == tool' = [tool EXCEPT ![t] = Resting]
Obtains(t, x) == tool' = [tool EXCEPT ![t].pc = "browsing", ![t].has = x]

\* What is given up unclosed stays open, unless Chromium is gone.
Loses(x) == lost' = lost \cup ({x} \cap openPages)

-----------------------------------------------------------------------------
(* get_context                                                             *)

AskForContext(t, m) ==
    /\ tool[t].pc = "resting"
    /\ tool' = [tool EXCEPT ![t] = [pc |-> "asking", m |-> m, has |-> NoContext]]
    /\ UNCHANGED <<chromium, contexts, openPages, releasing, unused, poolLock, opened, lost>>

\* Mutant: nobody waits for the lock.
LockIgnored == TRUE

LockIsFree == poolLock = NoTool

\* The first call starts Chromium, under the lock; it may fail.
Launch(t) ==
    /\ tool[t].pc = "asking" /\ chromium = "none" /\ LockIsFree
    /\ poolLock' = t
    /\ Turns(t, "launching")
    /\ UNCHANGED <<chromium, contexts, openPages, releasing, unused, opened, lost>>

Launched(t) ==
    /\ tool[t].pc = "launching"
    /\ poolLock' = NoTool
    /\ \/ chromium' = "up" /\ Turns(t, "asking")
       \/ Rests(t) /\ UNCHANGED chromium
    /\ UNCHANGED <<contexts, openPages, releasing, unused, opened, lost>>

\* The meeting has a context: it is touched and handed out, without the lock.
FindContext(t) ==
    /\ tool[t].pc = "asking" /\ chromium # "none" /\ Keeps(tool[t].m)
    /\ Obtains(t, ContextOf(tool[t].m))
    /\ unused' = unused \ {ContextOf(tool[t].m)}
    /\ UNCHANGED <<chromium, contexts, openPages, releasing, poolLock, opened, lost>>

MissContext(t) ==
    /\ tool[t].pc = "asking" /\ chromium # "none" /\ ~Keeps(tool[t].m)
    /\ Turns(t, "queueing")
    /\ UNCHANGED <<chromium, contexts, openPages, releasing, unused, poolLock, opened, lost>>

\* Under the lock another call may have made it meanwhile.
FindAfterAll(t) ==
    /\ tool[t].pc = "queueing" /\ LockIsFree /\ Keeps(tool[t].m)
    /\ Obtains(t, ContextOf(tool[t].m))
    /\ UNCHANGED <<chromium, contexts, openPages, releasing, unused, poolLock, opened, lost>>

StartContext(t) ==
    /\ tool[t].pc = "queueing" /\ LockIsFree /\ ~Keeps(tool[t].m)
    /\ Cardinality(contexts) < MaxContexts
    /\ poolLock' = t
    /\ Turns(t, "opening")
    /\ UNCHANGED <<chromium, contexts, openPages, releasing, unused, opened, lost>>

\* Mutant: a context that makes way for another one is not closed.
ReclaimForgets(t, x) ==
    /\ tool[t].pc = "queueing" /\ LockIsFree /\ ~Keeps(tool[t].m)
    /\ Cardinality(contexts) >= MaxContexts
    /\ x \in contexts \cap unused
    /\ contexts' = contexts \ {x}
    /\ poolLock' = t
    /\ Turns(t, "opening")
    /\ UNCHANGED <<chromium, openPages, releasing, unused, opened, lost>>

\* A full pool closes its oldest context if that has been idle, and waits for it; which one
\* is the oldest is left open.
ReclaimOldest(t, x) ==
    /\ tool[t].pc = "queueing" /\ LockIsFree /\ ~Keeps(tool[t].m)
    /\ Cardinality(contexts) >= MaxContexts
    /\ x \in contexts \cap unused
    /\ contexts' = contexts \ {x}
    /\ poolLock' = t
    /\ tool' = [tool EXCEPT ![t].pc = "reclaiming", ![t].has = x]
    /\ UNCHANGED <<chromium, openPages, releasing, unused, opened, lost>>

Reclaimed(t) ==
    /\ tool[t].pc = "reclaiming"
    /\ openPages' = openPages \ {tool[t].has}
    /\ Turns(t, "opening")
    /\ UNCHANGED <<chromium, contexts, releasing, unused, poolLock, opened, lost>>

\* The session's close swallows the errors of Playwright.
ReclaimFails(t) ==
    /\ tool[t].pc = "reclaiming"
    /\ Loses(tool[t].has)
    /\ Turns(t, "opening")
    /\ UNCHANGED <<chromium, contexts, openPages, releasing, unused, poolLock, opened>>

PoolIsFull(t) ==
    /\ tool[t].pc = "queueing" /\ LockIsFree /\ ~Keeps(tool[t].m)
    /\ Cardinality(contexts) >= MaxContexts /\ contexts \cap unused = {}
    /\ Rests(t)
    /\ UNCHANGED <<chromium, contexts, openPages, releasing, unused, poolLock, opened, lost>>

\* new_context: the context is open, and not yet in the table.
OpenContext(t) ==
    /\ tool[t].pc = "opening" /\ chromium = "up" /\ opened < MaxOpened
    /\ LET x == [of |-> tool[t].m, n |-> opened + 1]
       IN  /\ openPages' = openPages \cup {x}
           /\ tool' = [tool EXCEPT ![t].pc = "scripting", ![t].has = x]
    /\ opened' = opened + 1
    /\ UNCHANGED <<chromium, contexts, releasing, unused, poolLock, lost>>

\* add_init_script is through: the context is entered and handed out.
RegisterContext(t) ==
    /\ tool[t].pc = "scripting" /\ chromium = "up"
    /\ contexts' = contexts \cup {tool[t].has}
    /\ Turns(t, "browsing")
    /\ poolLock' = NoTool
    /\ UNCHANGED <<chromium, openPages, releasing, unused, opened, lost>>

\* add_init_script raises: nobody has the context any more.
ScriptFails(t) ==
    /\ tool[t].pc = "scripting"
    /\ Loses(tool[t].has)
    /\ poolLock' = NoTool
    /\ Rests(t)
    /\ UNCHANGED <<chromium, contexts, openPages, releasing, unused, opened>>

\* Chromium does not answer: after a disconnection it never will, for _browser is kept.
OpenFails(t) ==
    /\ tool[t].pc = "opening"
    /\ poolLock' = NoTool
    /\ Rests(t)
    /\ UNCHANGED <<chromium, contexts, openPages, releasing, unused, opened, lost>>

Browsed(t) ==
    /\ tool[t].pc = "browsing"
    /\ Rests(t)
    /\ UNCHANGED <<chromium, contexts, openPages, releasing, unused, poolLock, opened, lost>>

\* The run of the meeting is cancelled at one of the awaits: what Chromium was asked to
\* open may be open all the same, and what was to be closed may stay.
CancelTool(t) ==
    /\ tool[t].pc \in {"launching", "queueing", "opening", "scripting", "reclaiming", "browsing"}
    /\ Rests(t)
    /\ poolLock' = IF poolLock = t THEN NoTool ELSE poolLock
    /\ \/ /\ tool[t].pc = "opening" /\ chromium = "up" /\ opened < MaxOpened
          /\ LET x == [of |-> tool[t].m, n |-> opened + 1]
             IN  openPages' = openPages \cup {x} /\ lost' = lost \cup {x}
          /\ opened' = opened + 1
       \/ /\ tool[t].pc \in {"reclaiming", "scripting"}
          /\ Loses(tool[t].has)
          /\ UNCHANGED <<openPages, opened>>
       \/ tool[t].pc \notin {"reclaiming", "scripting"} /\ UNCHANGED <<openPages, lost, opened>>
    /\ UNCHANGED <<chromium, contexts, releasing, unused>>

-----------------------------------------------------------------------------
(* release_context, without the lock                                       *)

\* The end of a run, once when it leaves the table and once when its resources are
\* cleaned: the meeting may be running again by then.
ReleaseContext(m) ==
    /\ Keeps(m)
    /\ contexts' = contexts \ {ContextOf(m)}
    /\ releasing' = releasing \cup {ContextOf(m)}
    /\ UNCHANGED <<chromium, openPages, unused, tool, poolLock, opened, lost>>

\* The idle loop looks and takes in one go.
ReclaimIdle(x) ==
    /\ x \in contexts \cap unused
    /\ contexts' = contexts \ {x}
    /\ releasing' = releasing \cup {x}
    /\ UNCHANGED <<chromium, openPages, unused, tool, poolLock, opened, lost>>

CloseContext(x) ==
    /\ x \in releasing
    /\ releasing' = releasing \ {x}
    /\ openPages' = openPages \ {x}
    /\ UNCHANGED <<chromium, contexts, unused, tool, poolLock, opened, lost>>

\* An error of context.close is swallowed, and the entry has left the table before.
CloseFails(x) ==
    /\ x \in releasing
    /\ releasing' = releasing \ {x}
    /\ Loses(x)
    /\ UNCHANGED <<chromium, contexts, openPages, unused, tool, poolLock, opened>>

\* Ten minutes without a call of get_context that hands it out.
GetsUnused(x) ==
    /\ x \in contexts \ unused
    /\ \A t \in Tools : ~(tool[t].pc = "browsing" /\ tool[t].has = x)
    /\ unused' = unused \cup {x}
    /\ UNCHANGED <<chromium, contexts, openPages, releasing, tool, poolLock, opened, lost>>

Disconnected ==
    /\ chromium = "up"
    /\ chromium' = "dead"
    /\ contexts' = {} /\ openPages' = {} /\ lost' = {}
    /\ UNCHANGED <<releasing, unused, tool, poolLock, opened>>

-----------------------------------------------------------------------------
ToolStep(t) == \/ \E m \in Browsing : AskForContext(t, m)
               \/ Launch(t) \/ Launched(t) \/ FindContext(t) \/ MissContext(t) \/ FindAfterAll(t)
               \/ StartContext(t) \/ Reclaimed(t) \/ ReclaimFails(t) \/ PoolIsFull(t)
               \/ OpenContext(t) \/ OpenFails(t) \/ RegisterContext(t) \/ ScriptFails(t)
               \/ (\E x \in contexts : ReclaimOldest(t, x))
               \/ Browsed(t) \/ CancelTool(t)

PoolNext == \/ \E t \in Tools : ToolStep(t)
            \/ \E m \in Browsing : ReleaseContext(m)
            \/ \E x \in contexts : ReclaimIdle(x) \/ GetsUnused(x)
            \/ \E x \in releasing : CloseContext(x) \/ CloseFails(x)
            \/ Disconnected

PoolSpec == PoolInit /\ [][PoolNext]_poolVars

-----------------------------------------------------------------------------
\* Every variable keeps its type.
PoolTypeOK ==
    /\ chromium \in {"none", "up", "dead"} /\ opened \in 0..MaxOpened
    /\ contexts \subseteq Context /\ openPages \subseteq Context /\ releasing \subseteq Context
    /\ unused \subseteq Context /\ lost \subseteq Context
    /\ tool \in [Tools -> [pc : {"resting", "asking", "launching", "queueing", "reclaiming", "opening",
                                 "scripting", "browsing"},
                           m : Browsing, has : Context \cup {NoContext}]]
    /\ poolLock \in Tools \cup {NoTool}

\* Calls that wait for Chromium in the middle of get_context, releases and the idle loop: a
\* meeting has one context, and the pool no more than its maximum.
PoolWithinLimit ==
    /\ Cardinality(contexts) <= MaxContexts
    /\ \A x, y \in contexts : x.of = y.of => x = y

\* The contexts that calls are closing or preparing with the lock in hand.
InHand == {tool[t].has : t \in {u \in Tools : tool[u].pc \in {"reclaiming", "scripting"}}}

\* Every open context is in the table, on its way out or in the hand of a call, unless a
\* cancelled call, a failing script or a failing close has left it behind, open until
\* Chromium ends; a context left behind comes back into the table for nobody.  And the table
\* has no context that is closed.
ContextsAreKnown ==
    /\ contexts \subseteq openPages \ lost
    /\ openPages \subseteq contexts \cup releasing \cup InHand \cup lost

=============================================================================
