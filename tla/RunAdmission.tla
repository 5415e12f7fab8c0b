----------------------------- MODULE RunAdmission -----------------------------
(***************************************************************************)
(* Which background tasks may run meetings: POST /run under the run lock,  *)
(* the table of running tasks, the semaphore that bounds the meetings at   *)
(* work, the end of _run_meeting_bg, and DELETE, which stops a run.        *)
(*                                                                         *)
(* What a run does to its meeting is the subject of MeetingLifecycle; here *)
(* it ends with some status.  Task names are used again once free.         *)
(***************************************************************************)
EXTENDS Integers, FiniteSets

CONSTANTS
    Meetings,
    Deletable,  \* meetings somebody may DELETE while they run
    Requests,   \* POST /run handlers
    Deleters,   \* DELETE handlers
    Tasks,      \* names of background tasks; bound: how many there are at once
    Limit,      \* MAX_CONCURRENT_MEETINGS
    Outcomes,   \* statuses Runner.run may leave a meeting in
    None        \* Python's None

ASSUME MeetingsAssumption == Deletable \subseteq Meetings
ASSUME LimitAssumption == Limit \in Nat \ {0}
ASSUME OutcomesAssumption == Outcomes \subseteq {"paused", "aborted", "done", "failed"}
ASSUME TasksAssumption == IsFiniteSet(Tasks)
ASSUME NoneAssumption == None \notin Meetings \cup Requests \cup Tasks

VARIABLES
    status,      \* status of the registered meeting, None when not in memory
    request,     \* the meeting whose run.started a handler is publishing, or None
    holder,      \* who holds the lock in _run_locks; None: free, or no entry
    registered,  \* _running_tasks: the task of the meeting, or None
    task,        \* the coroutines of _run_meeting_bg
    slots,       \* free places in _meeting_semaphore
    deleter      \* handlers of DELETE and of batch-delete: the meeting, and how far

vars == <<status, request, holder, registered, task, slots, deleter>>

Statuses == {"running", "paused", "aborted", "done", "failed"}
TaskPCs  == {"none", "waiting", "running", "reporting", "releasing"}
DelPCs   == {"idle", "stopping", "deleting", "sweeping", "batch"}

NoTask   == [pc |-> "none", m |-> None, cancelled |-> FALSE]
NoDelete == [pc |-> "idle", m |-> None]

Init == /\ status = [m \in Meetings |-> "running"]
        /\ request = [r \in Requests |-> None]
        /\ holder = [m \in Meetings |-> None]
        /\ registered = [m \in Meetings |-> None]
        /\ task = [t \in Tasks |-> NoTask]
        /\ slots = Limit
        /\ deleter = [d \in Deleters |-> NoDelete]

-----------------------------------------------------------------------------
(* POST /run.  Only the publication of run.started is awaited inside the   *)
(* lock.  A handler that finds the lock taken waits, and is answered 409   *)
(* as soon as the holder has registered its task; neither it nor a 409, a  *)
(* finished or an aborted meeting changes anything.                        *)

\* Mutant: the lock is not taken, two handlers may both be publishing.
AdmitUnlocked(r, m) ==
    /\ request[r] = None /\ status[m] \in {"running", "paused", "failed"}
    /\ registered[m] = None
    /\ status' = [status EXCEPT ![m] = "running"]
    /\ request' = [request EXCEPT ![r] = m]
    /\ UNCHANGED <<holder, registered, task, slots, deleter>>

Admit(r, m) ==
    /\ request[r] = None /\ status[m] \in {"running", "paused", "failed"}
    /\ holder[m] = None /\ registered[m] = None
    /\ status' = [status EXCEPT ![m] = "running"]
    /\ request' = [request EXCEPT ![r] = m]
    /\ holder' = [holder EXCEPT ![m] = r]
    /\ UNCHANGED <<registered, task, slots, deleter>>

\* The task is created and registered, the lock released.
Launch(r, t) ==
    /\ request[r] # None /\ task[t].pc = "none"
    /\ LET m == request[r]
       IN  /\ registered' = [registered EXCEPT ![m] = t]
           /\ holder' = [holder EXCEPT ![m] = IF @ = r THEN None ELSE @]
           /\ task' = [task EXCEPT ![t] = [pc |-> "waiting", m |-> m, cancelled |-> FALSE]]
    /\ request' = [request EXCEPT ![r] = None]
    /\ UNCHANGED <<status, slots, deleter>>

-----------------------------------------------------------------------------
(* _run_meeting_bg                                                         *)

\* The first lines of its finally clause: whatever task and lock the tables
\* have for the meeting is dropped.
Unregister(m) == /\ registered' = [registered EXCEPT ![m] = None]
                 /\ holder' = [holder EXCEPT ![m] = None]

At(t, pc)    == task' = [task EXCEPT ![t].pc = pc]
Release(t)   == Unregister(task[t].m) /\ At(t, "releasing")

\* Inside the semaphore; without a meeting there is nothing to run.
Enter(t) ==
    /\ task[t].pc = "waiting" /\ ~task[t].cancelled /\ slots > 0
    /\ slots' = slots - 1
    /\ IF status[task[t].m] = None
       THEN Release(t) /\ UNCHANGED status
       ELSE /\ At(t, "running")
            /\ status' = [status EXCEPT ![task[t].m] = "running"]
            /\ UNCHANGED <<registered, holder>>
    /\ UNCHANGED <<request, deleter>>

\* Runner.run returns and its object is registered, deleted or not.
Finish(t, outcome) ==
    /\ task[t].pc = "running" /\ ~task[t].cancelled
    /\ status' = [status EXCEPT ![task[t].m] = outcome]
    /\ Release(t)
    /\ UNCHANGED <<request, slots, deleter>>

\* Runner.run raises: a meeting still in memory is aborted, the error published.
Escape(t) ==
    /\ task[t].pc = "running" /\ ~task[t].cancelled
    /\ status' = [status EXCEPT ![task[t].m] = IF @ = None THEN None ELSE "aborted"]
    /\ At(t, "reporting")
    /\ UNCHANGED <<request, holder, registered, slots, deleter>>

Reported(t) ==
    /\ task[t].pc = "reporting"
    /\ Release(t)
    /\ UNCHANGED <<status, request, slots, deleter>>

\* CancelledError is no Exception: only the finally clause sees it.
Cancelled(t) ==
    /\ task[t].pc = "running" /\ task[t].cancelled
    /\ Release(t)
    /\ UNCHANGED <<status, request, slots, deleter>>

\* Mutant: a cancelled task gives back a place it never had.
CancelledWaitingReleases(t) ==
    /\ task[t].pc = "waiting" /\ task[t].cancelled
    /\ task' = [task EXCEPT ![t] = NoTask]
    /\ slots' = slots + 1
    /\ UNCHANGED <<status, request, holder, registered, deleter>>

\* Cancelled before it entered the semaphore, the body never runs.
CancelledWaiting(t) ==
    /\ task[t].pc = "waiting" /\ task[t].cancelled
    /\ task' = [task EXCEPT ![t] = NoTask]
    /\ UNCHANGED <<status, request, holder, registered, slots, deleter>>

\* Mutant: the place in the semaphore is not given back.
ReleasedKeepingSlot(t) ==
    /\ task[t].pc = "releasing"
    /\ task' = [task EXCEPT ![t] = NoTask]
    /\ UNCHANGED <<status, request, holder, registered, slots, deleter>>

\* The browser context is released, the semaphore left.
Released(t) ==
    /\ task[t].pc = "releasing"
    /\ task' = [task EXCEPT ![t] = NoTask]
    /\ slots' = slots + 1
    /\ UNCHANGED <<status, request, holder, registered, deleter>>

-----------------------------------------------------------------------------
(* DELETE                                                                  *)

\* A running task is taken out of the table, cancelled and waited for.
Delete(d, m) ==
    /\ deleter[d].pc = "idle" /\ m \in Deletable
    /\ IF registered[m] = None
       THEN /\ deleter' = [deleter EXCEPT ![d] = [pc |-> "deleting", m |-> m]]
            /\ UNCHANGED <<registered, task>>
       ELSE /\ deleter' = [deleter EXCEPT ![d] = [pc |-> "stopping", m |-> m]]
            /\ task' = [task EXCEPT ![registered[m]].cancelled = TRUE]
            /\ registered' = [registered EXCEPT ![m] = None]
    /\ UNCHANGED <<status, request, holder, slots>>

\* The task has ended, or three seconds have passed.
Stopped(d) ==
    /\ deleter[d].pc = "stopping"
    /\ holder' = [holder EXCEPT ![deleter[d].m] = None]
    /\ deleter' = [deleter EXCEPT ![d].pc = "deleting"]
    /\ UNCHANGED <<status, request, registered, task, slots>>

\* Soft or hard: the row is gone and so is the meeting in memory; hard goes on
\* to the semantic index.
Forgotten(d) ==
    /\ deleter[d].pc = "deleting"
    /\ status' = [status EXCEPT ![deleter[d].m] = None]
    /\ \/ /\ holder' = [holder EXCEPT ![deleter[d].m] = None]
          /\ deleter' = [deleter EXCEPT ![d] = NoDelete]
       \/ deleter' = [deleter EXCEPT ![d].pc = "sweeping"] /\ UNCHANGED holder
    /\ UNCHANGED <<request, registered, task, slots>>

Swept(d) ==
    /\ deleter[d].pc = "sweeping"
    /\ holder' = [holder EXCEPT ![deleter[d].m] = None]
    /\ deleter' = [deleter EXCEPT ![d] = NoDelete]
    /\ UNCHANGED <<status, request, registered, task, slots>>

\* POST /batch-delete passes over a meeting that runs, and forgets the others after
\* the database has: by then a run may have begun.
BatchDelete(d, m) ==
    /\ deleter[d].pc = "idle" /\ m \in Deletable /\ registered[m] = None
    /\ deleter' = [deleter EXCEPT ![d] = [pc |-> "batch", m |-> m]]
    /\ UNCHANGED <<status, request, holder, registered, task, slots>>

BatchForgotten(d) ==
    /\ deleter[d].pc = "batch"
    /\ status' = [status EXCEPT ![deleter[d].m] = None]
    /\ deleter' = [deleter EXCEPT ![d] = NoDelete]
    /\ UNCHANGED <<request, holder, registered, task, slots>>

\* No such row, a restore, or an unknown mode: the run was stopped all the same.
DeleteEnds(d) ==
    /\ deleter[d].pc \in {"deleting", "batch"}
    /\ deleter' = [deleter EXCEPT ![d] = NoDelete]
    /\ UNCHANGED <<status, request, holder, registered, task, slots>>

-----------------------------------------------------------------------------
TaskStep(t) == \/ \E outcome \in Outcomes : Finish(t, outcome)
               \/ Escape(t) \/ Reported(t) \/ Cancelled(t) \/ CancelledWaiting(t) \/ Released(t)

Next == \/ \E r \in Requests : (\E m \in Meetings : Admit(r, m)) \/ (\E t \in Tasks : Launch(r, t))
        \/ \E t \in Tasks : Enter(t) \/ TaskStep(t)
        \/ \E d \in Deleters : \/ \E m \in Meetings : Delete(d, m) \/ BatchDelete(d, m)
                               \/ Stopped(d) \/ Forgotten(d) \/ Swept(d)
                               \/ BatchForgotten(d) \/ DeleteEnds(d)

Spec == Init /\ [][Next]_vars

\* Every task that can move does; the semaphore serves its waiters in order.
FairSpec == Spec /\ \A t \in Tasks : WF_vars(TaskStep(t)) /\ SF_vars(Enter(t))

-----------------------------------------------------------------------------
\* Every variable keeps its type.
TypeOK ==
    /\ status \in [Meetings -> Statuses \cup {None}]
    /\ request \in [Requests -> Meetings \cup {None}]
    /\ holder \in [Meetings -> Requests \cup {None}]
    /\ registered \in [Meetings -> Tasks \cup {None}]
    /\ task \in [Tasks -> [pc : TaskPCs, m : Meetings \cup {None}, cancelled : BOOLEAN]]
    /\ slots \in 0..Limit
    /\ deleter \in [Deleters -> [pc : DelPCs, m : Meetings \cup {None}]]

Alive(m)   == {t \in Tasks : task[t].m = m /\ task[t].pc \in {"waiting", "running", "reporting"}}
AtWork(m)  == {t \in Tasks : /\ task[t].m = m /\ task[t].pc \in {"running", "reporting"}
                             /\ ~task[t].cancelled}
Inside     == {t \in Tasks : task[t].pc \in {"running", "reporting", "releasing"}}
Kept       == Meetings \ Deletable

\* The table of running tasks is complete: POST /run answers 409, /progress says
\* is_running and DELETE finds what to stop as long as a run is waiting or at work.
RunsAreRegistered == \A m \in Kept : Alive(m) \subseteq {registered[m]}

\* The semaphore counts exactly the tasks inside it, cancelled ones included.
SlotsAddUp == slots + Cardinality(Inside) = Limit

\* Whatever else is run or deleted, a run that was admitted gets its place, or is
\* cancelled.
EveryRunGetsItsTurn == \A t \in Tasks : task[t].pc = "waiting" ~> task[t].pc # "waiting"

\* Seen from a meeting nobody deletes, coroutines work on it one at a time.
OneAtATime == INSTANCE SingleRun WITH Meetings <- Kept,
                                      work <- [m \in Kept |-> AtWork(m)]
RunsOneAtATime == OneAtATime!Spec

\* routers/meetings.py:1046: the lock over check, creation and registration keeps
\* a meeting from being run twice.  (Not while somebody deletes it.)
NeverRunTwice == \A m \in Meetings : Cardinality(AtWork(m)) <= 1

=============================================================================
