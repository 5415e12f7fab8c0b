-------------------------- MODULE RunAdmission_proofs --------------------------
(* Theorems about RunAdmission, for any number of meetings, requests,      *)
(* deletions, tasks and any limit.                                         *)
EXTENDS RunAdmission, FiniteSetTheorems, TLAPS

Live == {"waiting", "running", "reporting"}

\* A task that exists has a meeting.
TaskSound == \A t \in Tasks : task[t].pc # "none" => task[t].m \in Meetings

\* What the table has is a task of that meeting, alive and not cancelled: each
\* end of a task and each cancellation takes it out of the table first.
RegSound == \A m \in Meetings : registered[m] # None =>
                /\ task[registered[m]].m = m /\ task[registered[m]].pc \in Live
                /\ ~task[registered[m]].cancelled

\* Only deletable meetings are deleted.
DelSound == \A d \in Deleters : deleter[d].pc # "idle" => deleter[d].m \in Deletable

\* While a handler publishes run.started it has the lock and there is no task:
\* the lock's entry cannot be dropped, since only the end of a task drops it.
LockSound == \A r \in Requests : \A m \in Kept :
                request[r] = m => holder[m] = r /\ registered[m] = None

Inv == /\ TypeOK /\ SlotsAddUp /\ TaskSound /\ RegSound /\ DelSound
       /\ RunsAreRegistered /\ LockSound

\* The ways a task comes to its finally clause.
Ends(t) == \/ \E outcome \in Outcomes : Finish(t, outcome)
           \/ Reported(t) \/ Cancelled(t)

-----------------------------------------------------------------------------
(* Types.                                                                  *)

LEMMA TaskFields ==
    ASSUME TypeOK, NEW t \in Tasks
    PROVE  /\ task[t] \in [pc : TaskPCs, m : Meetings \cup {None}, cancelled : BOOLEAN]
           /\ DOMAIN task = Tasks
  BY DEF TypeOK

LEMMA AtType ==
    ASSUME TypeOK, NEW t \in Tasks, NEW pc \in TaskPCs, At(t, pc)
    PROVE  /\ task' \in [Tasks -> [pc : TaskPCs, m : Meetings \cup {None}, cancelled : BOOLEAN]]
           /\ task'[t].pc = pc /\ task'[t].m = task[t].m
           /\ task'[t].cancelled = task[t].cancelled
           /\ \A u \in Tasks \ {t} : task'[u] = task[u]
  BY DEF TypeOK, At

LEMMA UnregisterType ==
    ASSUME TypeOK, NEW m, Unregister(m)
    PROVE  /\ registered' \in [Meetings -> Tasks \cup {None}]
           /\ holder' \in [Meetings -> Requests \cup {None}]
           /\ \A n \in Meetings : /\ registered'[n] = IF n = m THEN None ELSE registered[n]
                                  /\ holder'[n] = IF n = m THEN None ELSE holder[n]
  BY DEF TypeOK, Unregister

\* The set of tasks inside the semaphore and the free places, which change only
\* together.
LEMMA InsideFinite == IsFiniteSet(Inside) /\ Cardinality(Inside) \in Nat
<1>1. Inside \subseteq Tasks  BY DEF Inside
<1>2. IsFiniteSet(Inside)  BY <1>1, TasksAssumption, FS_Subset
<1>. QED  BY <1>2, FS_CardinalityType

LEMMA InsideFinitePrimed == IsFiniteSet(Inside') /\ Cardinality(Inside') \in Nat
<1>1. Inside' \subseteq Tasks  BY DEF Inside
<1>2. IsFiniteSet(Inside')  BY <1>1, TasksAssumption, FS_Subset
<1>. QED  BY <1>2, FS_CardinalityType

\* A task enters by taking a place.
LEMMA EnterSlots ==
    ASSUME TypeOK, SlotsAddUp, NEW t \in Tasks, Enter(t)
    PROVE  slots' \in 0..Limit /\ SlotsAddUp'
<1>1. slots \in Nat /\ Limit \in Nat /\ slots' = slots - 1 /\ slots > 0 /\ slots <= Limit
  BY LimitAssumption DEF TypeOK, Enter
<1>2. /\ task[t].pc = "waiting" /\ task'[t].pc \in {"running", "releasing"}
      /\ \A u \in Tasks \ {t} : task'[u] = task[u]
  BY AtType DEF Enter, Release, TaskPCs
<1>3. t \notin Inside /\ Inside' = Inside \cup {t}
  BY <1>2 DEF Inside
<1>4. Cardinality(Inside') = Cardinality(Inside) + 1
  BY <1>3, InsideFinite, FS_AddElement
<1>. QED  BY <1>1, <1>4, InsideFinite DEF SlotsAddUp

\* A task that is through gives its place back.
LEMMA ReleasedSlots ==
    ASSUME TypeOK, SlotsAddUp, NEW t \in Tasks, Released(t)
    PROVE  slots' \in 0..Limit /\ SlotsAddUp'
<1>1. slots \in Nat /\ Limit \in Nat /\ slots' = slots + 1
  BY LimitAssumption DEF TypeOK, Released
<1>2. /\ task[t].pc = "releasing" /\ task'[t].pc = "none"
      /\ \A u \in Tasks \ {t} : task'[u] = task[u]
  BY TaskFields DEF Released, NoTask
<1>3. t \in Inside /\ Inside' = Inside \ {t}
  BY <1>2 DEF Inside
<1>4. Cardinality(Inside') = Cardinality(Inside) - 1
  BY <1>3, InsideFinite, FS_RemoveElement
<1>. QED  BY <1>1, <1>4, InsideFinite, InsideFinitePrimed DEF SlotsAddUp

\* No other step moves a task into the semaphore or out of it.
LEMMA SlotsKept ==
    ASSUME TypeOK, SlotsAddUp, UNCHANGED slots,
           \A t \in Tasks : task'[t].pc \in {"running", "reporting", "releasing"}
                                <=> task[t].pc \in {"running", "reporting", "releasing"}
    PROVE  slots' \in 0..Limit /\ SlotsAddUp'
<1>1. Inside' = Inside  BY DEF Inside
<1>. QED  BY <1>1 DEF SlotsAddUp, TypeOK

-----------------------------------------------------------------------------
(* One lemma per kind of step: the whole invariant is preserved.           *)

\* A handler enters the critical section of a meeting without a task.
LEMMA AdmitInv ==
    ASSUME Inv, NEW r \in Requests, NEW m \in Meetings, Admit(r, m)
    PROVE  Inv'
<1>1. TypeOK' /\ SlotsAddUp'
  <2>1. slots' \in 0..Limit /\ SlotsAddUp'  BY SlotsKept DEF Inv, Admit
  <2>. QED  BY <2>1 DEF Inv, TypeOK, Admit, Statuses
<1>2. TaskSound' /\ RegSound' /\ DelSound' /\ RunsAreRegistered'
  BY DEF Inv, Admit, TaskSound, RegSound, DelSound, RunsAreRegistered, Alive
<1>3. LockSound'
  <2>. SUFFICES ASSUME NEW q \in Requests, NEW n \in Kept, request'[q] = n
                PROVE  holder'[n] = q /\ registered'[n] = None
    BY DEF LockSound
  <2>0. n \in Meetings  BY DEF Kept
  <2>1. CASE q = r
    <3>1. n = m  BY <2>1 DEF Inv, TypeOK, Admit
    <3>. QED  BY <2>1, <3>1 DEF Inv, TypeOK, Admit
  <2>2. CASE q # r
    <3>1. request[q] = n  BY <2>2 DEF Inv, TypeOK, Admit
    <3>2. holder[n] = q /\ registered[n] = None  BY <3>1 DEF Inv, LockSound
    <3>3. n # m  BY <3>2, NoneAssumption DEF Admit
    <3>. QED  BY <2>0, <3>2, <3>3 DEF Inv, TypeOK, Admit
  <2>. QED  BY <2>1, <2>2
<1>. QED  BY <1>1, <1>2, <1>3 DEF Inv

\* It leaves the critical section: of a kept meeting, this is the only task.
LEMMA LaunchInv ==
    ASSUME Inv, NEW r \in Requests, NEW t \in Tasks, Launch(r, t)
    PROVE  Inv'
<1>. DEFINE m == request[r]
<1>1. /\ m \in Meetings
      /\ task[t].pc = "none" /\ slots' = slots /\ deleter' = deleter /\ status' = status
      /\ registered' = [registered EXCEPT ![m] = t]
      /\ task' = [task EXCEPT ![t] = [pc |-> "waiting", m |-> m, cancelled |-> FALSE]]
      /\ request' = [request EXCEPT ![r] = None]
      /\ holder' = [holder EXCEPT ![m] = IF @ = r THEN None ELSE @]
  BY DEF Inv, TypeOK, Launch
<1>2. /\ task'[t] = [pc |-> "waiting", m |-> m, cancelled |-> FALSE]
      /\ \A u \in Tasks \ {t} : task'[u] = task[u]
      /\ registered'[m] = t
      /\ \A n \in Meetings \ {m} : registered'[n] = registered[n]
  BY <1>1 DEF Inv, TypeOK
<1>3. TypeOK' /\ SlotsAddUp'
  <2>1. slots' \in 0..Limit /\ SlotsAddUp'
    BY <1>1, <1>2, SlotsKept DEF Inv
  <2>. QED  BY <1>1, <2>1 DEF Inv, TypeOK, TaskPCs
<1>4. TaskSound'
  BY <1>1, <1>2 DEF Inv, TaskSound
<1>5. RegSound'
  <2>. SUFFICES ASSUME NEW n \in Meetings, registered'[n] # None
                PROVE  /\ task'[registered'[n]].m = n /\ task'[registered'[n]].pc \in Live
                       /\ ~task'[registered'[n]].cancelled
    BY DEF RegSound
  <2>1. CASE n = m  BY <1>2, <2>1 DEF Live
  <2>2. CASE n # m
    <3>1. /\ registered'[n] = registered[n] /\ registered[n] \in Tasks
          /\ task[registered[n]].pc \in Live
      BY <1>2, <2>2 DEF Inv, RegSound, TypeOK
    <3>2. registered[n] # t  BY <1>1, <3>1 DEF Live
    <3>. QED  BY <1>2, <3>1, <3>2 DEF Inv, RegSound
  <2>. QED  BY <2>1, <2>2
<1>6. DelSound'
  BY <1>1 DEF Inv, DelSound
<1>7. RunsAreRegistered'
  <2>. SUFFICES ASSUME NEW n \in Kept, NEW u \in Alive(n)' PROVE u = registered'[n]
    BY DEF RunsAreRegistered
  <2>1. u \in Tasks /\ n \in Meetings  BY DEF Alive, Kept
  <2>2. CASE u = t
    <3>1. n = m  BY <1>2, <2>2 DEF Alive
    <3>. QED  BY <1>2, <2>2, <3>1
  <2>3. CASE u # t
    <3>1. u \in Alive(n)  BY <1>2, <2>1, <2>3 DEF Alive
    <3>2. u = registered[n]  BY <3>1 DEF Inv, RunsAreRegistered
    <3>3. n # m  BY <2>1, <3>2, NoneAssumption DEF Inv, LockSound
    <3>. QED  BY <1>2, <2>1, <3>2, <3>3
  <2>. QED  BY <2>2, <2>3
<1>8. LockSound'
  <2>. SUFFICES ASSUME NEW q \in Requests, NEW n \in Kept, request'[q] = n
                PROVE  holder'[n] = q /\ registered'[n] = None
    BY DEF LockSound
  <2>0. n \in Meetings /\ n # None  BY NoneAssumption DEF Kept
  <2>1. q # r /\ request[q] = n  BY <1>1, <2>0 DEF Inv, TypeOK
  <2>2. holder[n] = q /\ registered[n] = None  BY <2>1 DEF Inv, LockSound
  <2>3. n # m  BY <2>1, <2>2 DEF Inv, LockSound
  <2>. QED  BY <1>1, <1>2, <2>0, <2>2, <2>3 DEF Inv, TypeOK
<1>. QED  BY <1>3, <1>4, <1>5, <1>6, <1>7, <1>8 DEF Inv

\* The finally clause of a live task: in the table of a kept meeting it finds
\* itself, and nobody holds the lock.
LEMMA ReleaseSound ==
    ASSUME Inv, NEW t \in Tasks, task[t].pc \in Live, Release(t), UNCHANGED <<request, deleter>>
    PROVE  TaskSound' /\ RegSound' /\ DelSound' /\ RunsAreRegistered' /\ LockSound'
<1>. DEFINE m == task[t].m
<1>1. /\ task'[t].pc = "releasing" /\ task'[t].m = m
      /\ \A u \in Tasks \ {t} : task'[u] = task[u]
  BY AtType DEF Inv, Release, TaskPCs
<1>2. m \in Meetings  BY DEF Inv, TaskSound, Live
<1>3. \A n \in Meetings : /\ registered'[n] = IF n = m THEN None ELSE registered[n]
                          /\ holder'[n] = IF n = m THEN None ELSE holder[n]
  BY UnregisterType DEF Inv, Release
<1>4. TaskSound'  BY <1>1, <1>2 DEF Inv, TaskSound
<1>5. RegSound'
  <2>. SUFFICES ASSUME NEW n \in Meetings, registered'[n] # None
                PROVE  /\ task'[registered'[n]].m = n /\ task'[registered'[n]].pc \in Live
                       /\ ~task'[registered'[n]].cancelled
    BY DEF RegSound
  <2>1. n # m /\ registered'[n] = registered[n]  BY <1>3
  <2>2. registered[n] \in Tasks /\ task[registered[n]].m = n  BY <2>1 DEF Inv, TypeOK, RegSound
  <2>3. registered[n] # t  BY <2>1, <2>2
  <2>. QED  BY <1>1, <2>1, <2>2, <2>3 DEF Inv, RegSound
<1>6. DelSound'  BY DEF Inv, DelSound
<1>7. \A n \in Kept : t \in Alive(n) => n = m /\ registered[n] = t
  BY DEF Inv, RunsAreRegistered, Alive
<1>8. RunsAreRegistered'
  <2>. SUFFICES ASSUME NEW n \in Kept, NEW u \in Alive(n)' PROVE u = registered'[n]
    BY DEF RunsAreRegistered
  <2>1. u # t /\ u \in Alive(n)  BY <1>1 DEF Alive
  <2>2. u = registered[n]  BY <2>1 DEF Inv, RunsAreRegistered
  <2>3. n # m  BY <1>7, <2>1, <2>2 DEF Alive, Live
  <2>. QED  BY <1>3, <2>2, <2>3 DEF Kept
<1>9. LockSound'
  <2>. SUFFICES ASSUME NEW q \in Requests, NEW n \in Kept, request[q] = n
                PROVE  holder'[n] = q /\ registered'[n] = None
    BY DEF LockSound
  <2>1. holder[n] = q /\ registered[n] = None  BY DEF Inv, LockSound
  <2>2. n # m  BY <1>7, <2>1, NoneAssumption DEF Alive, Live
  <2>. QED  BY <1>3, <2>1, <2>2 DEF Kept
<1>. QED  BY <1>4, <1>5, <1>6, <1>8, <1>9

LEMMA ReleaseTypes ==
    ASSUME Inv, NEW t \in Tasks, Release(t)
    PROVE  /\ task' \in [Tasks -> [pc : TaskPCs, m : Meetings \cup {None}, cancelled : BOOLEAN]]
           /\ registered' \in [Meetings -> Tasks \cup {None}]
           /\ holder' \in [Meetings -> Requests \cup {None}]
  BY AtType, UnregisterType DEF Inv, Release, TaskPCs

LEMMA EnterInv ==
    ASSUME Inv, NEW t \in Tasks, Enter(t)
    PROVE  Inv'
<1>1. slots' \in 0..Limit /\ SlotsAddUp'  BY EnterSlots DEF Inv
<1>2. CASE status[task[t].m] = None
  <2>1. Release(t) /\ task[t].pc \in Live /\ status' = status /\ UNCHANGED <<request, deleter>>
    BY <1>2 DEF Enter, Live
  <2>2. TypeOK'  BY <1>1, <2>1, ReleaseTypes DEF Inv, TypeOK
  <2>. QED  BY <1>1, <2>1, <2>2, ReleaseSound DEF Inv
<1>3. CASE status[task[t].m] # None
  <2>1. /\ At(t, "running") /\ task[t].pc = "waiting"
        /\ status' = [status EXCEPT ![task[t].m] = "running"]
        /\ UNCHANGED <<request, deleter, registered, holder>>
    BY <1>3 DEF Enter
  <2>2. /\ task' \in [Tasks -> [pc : TaskPCs, m : Meetings \cup {None}, cancelled : BOOLEAN]]
        /\ task'[t].pc = "running" /\ task'[t].m = task[t].m
        /\ task'[t].cancelled = task[t].cancelled
        /\ \A u \in Tasks \ {t} : task'[u] = task[u]
    BY <2>1, AtType DEF Inv, TaskPCs
  <2>3. TypeOK'  BY <1>1, <2>1, <2>2 DEF Inv, TypeOK, Statuses
  <2>4. TaskSound' /\ RegSound' /\ DelSound'
    BY <2>1, <2>2 DEF Inv, TypeOK, TaskSound, RegSound, DelSound, Live
  <2>5. \A n \in Meetings : Alive(n)' = Alive(n)  BY <2>1, <2>2 DEF Alive
  <2>6. RunsAreRegistered' /\ LockSound'
    BY <2>1, <2>5 DEF Inv, RunsAreRegistered, LockSound, Kept
  <2>. QED  BY <1>1, <2>3, <2>4, <2>6 DEF Inv
<1>. QED  BY <1>2, <1>3

LEMMA EndsInv ==
    ASSUME Inv, NEW t \in Tasks, Ends(t)
    PROVE  Inv'
<1>1. /\ Release(t) /\ task[t].pc \in {"running", "reporting"}
      /\ UNCHANGED <<request, slots, deleter>>
      /\ status' = status \/ \E o \in Outcomes : status' = [status EXCEPT ![task[t].m] = o]
  BY DEF Ends, Finish, Reported, Cancelled
<1>2. slots' \in 0..Limit /\ SlotsAddUp'
  <2>1. task'[t].pc = "releasing" /\ \A u \in Tasks \ {t} : task'[u] = task[u]
    BY <1>1, AtType DEF Inv, Release, TaskPCs
  <2>. QED  BY <1>1, <2>1, SlotsKept DEF Inv
<1>3. status' \in [Meetings -> Statuses \cup {None}]
  BY <1>1, OutcomesAssumption DEF Inv, TypeOK, Statuses
<1>4. TypeOK'  BY <1>1, <1>2, <1>3, ReleaseTypes DEF Inv, TypeOK
<1>. QED  BY <1>1, <1>2, <1>4, ReleaseSound DEF Inv, Live

LEMMA EscapeInv ==
    ASSUME Inv, NEW t \in Tasks, Escape(t)
    PROVE  Inv'
<1>1. /\ At(t, "reporting") /\ task[t].pc = "running"
      /\ UNCHANGED <<request, holder, registered, slots, deleter>>
  BY DEF Escape
<1>2. /\ task' \in [Tasks -> [pc : TaskPCs, m : Meetings \cup {None}, cancelled : BOOLEAN]]
      /\ task'[t].pc = "reporting" /\ task'[t].m = task[t].m
      /\ task'[t].cancelled = task[t].cancelled
      /\ \A u \in Tasks \ {t} : task'[u] = task[u]
  BY <1>1, AtType DEF Inv, TaskPCs
<1>3. slots' \in 0..Limit /\ SlotsAddUp'  BY <1>1, <1>2, SlotsKept DEF Inv
<1>4. status' \in [Meetings -> Statuses \cup {None}]
  BY DEF Inv, TypeOK, Escape, Statuses
<1>5. TypeOK'  BY <1>1, <1>2, <1>3, <1>4 DEF Inv, TypeOK
<1>6. \A u \in Tasks : /\ task'[u].m = task[u].m /\ task'[u].cancelled = task[u].cancelled
                       /\ task[u].pc \in Live <=> task'[u].pc \in Live
                       /\ task[u].pc = "none" <=> task'[u].pc = "none"
  BY <1>1, <1>2 DEF Live
<1>7. TaskSound' /\ DelSound'
  BY <1>1, <1>6 DEF Inv, TaskSound, DelSound
<1>8. RegSound'
  BY <1>1, <1>6 DEF Inv, TypeOK, RegSound
<1>9. \A n \in Meetings : Alive(n)' = Alive(n)  BY <1>1, <1>2 DEF Alive
<1>10. RunsAreRegistered' /\ LockSound'
  BY <1>1, <1>9 DEF Inv, RunsAreRegistered, LockSound, Kept
<1>. QED  BY <1>3, <1>5, <1>7, <1>8, <1>10 DEF Inv

\* A task disappears that the table does not have any more.
LEMMA GoneInv ==
    ASSUME Inv, NEW t \in Tasks, CancelledWaiting(t) \/ Released(t)
    PROVE  Inv'
<1>1. /\ task' = [task EXCEPT ![t] = NoTask]
      /\ UNCHANGED <<status, request, holder, registered, deleter>>
      /\ task[t].cancelled \/ task[t].pc = "releasing"
  BY DEF CancelledWaiting, Released
<1>2. /\ task'[t] = NoTask
      /\ \A u \in Tasks \ {t} : task'[u] = task[u]
  BY <1>1 DEF Inv, TypeOK
<1>3. slots' \in 0..Limit /\ SlotsAddUp'
  <2>1. CASE Released(t)  BY <2>1, ReleasedSlots DEF Inv
  <2>2. CASE CancelledWaiting(t)
    <3>1. slots' = slots /\ task[t].pc = "waiting"  BY <2>2 DEF CancelledWaiting
    <3>. QED  BY <1>2, <3>1, SlotsKept DEF Inv, NoTask
  <2>. QED  BY <2>1, <2>2
<1>4. TypeOK'  BY <1>1, <1>3 DEF Inv, TypeOK, NoTask, TaskPCs
<1>5. TaskSound' /\ DelSound'
  BY <1>1, <1>2 DEF Inv, TaskSound, DelSound, NoTask
<1>6. RegSound'
  <2>1. \A n \in Meetings : registered[n] # None => registered[n] \in Tasks \ {t}
    BY <1>1 DEF Inv, TypeOK, RegSound, Live
  <2>. QED  BY <1>1, <1>2, <2>1 DEF Inv, RegSound
<1>7. \A n \in Meetings : Alive(n)' \subseteq Alive(n)  BY <1>2 DEF Alive, NoTask
<1>8. RunsAreRegistered' /\ LockSound'
  BY <1>1, <1>7 DEF Inv, RunsAreRegistered, LockSound, Kept
<1>. QED  BY <1>3, <1>4, <1>5, <1>6, <1>8 DEF Inv

\* DELETE takes a task out of the table, of a meeting that is not kept.
LEMMA DeleteInv ==
    ASSUME Inv, NEW d \in Deleters, NEW m \in Meetings, Delete(d, m) \/ BatchDelete(d, m)
    PROVE  Inv'
<1>1. /\ m \in Deletable /\ m \notin Kept /\ UNCHANGED <<status, request, holder, slots>>
      /\ \E pc \in {"deleting", "stopping", "batch"} : deleter' = [deleter EXCEPT ![d] = [pc |-> pc, m |-> m]]
  BY DEF Delete, BatchDelete, Kept
<1>2. DelSound'  BY <1>1 DEF Inv, TypeOK, DelSound
<1>3. deleter' \in [Deleters -> [pc : DelPCs, m : Meetings \cup {None}]]
  BY <1>1 DEF Inv, TypeOK, DelPCs
<1>4. CASE registered[m] = None
  <2>1. UNCHANGED <<registered, task>>  BY <1>4 DEF Delete, BatchDelete
  <2>2. slots' \in 0..Limit /\ SlotsAddUp'  BY <1>1, <2>1, SlotsKept DEF Inv
  <2>3. TypeOK'  BY <1>1, <1>3, <2>1, <2>2 DEF Inv, TypeOK
  <2>. QED  BY <1>1, <1>2, <2>1, <2>2, <2>3
            DEF Inv, TaskSound, RegSound, RunsAreRegistered, Alive, LockSound
<1>5. CASE registered[m] # None
  <2>. DEFINE t == registered[m]
  <2>1. /\ t \in Tasks /\ task[t].m = m
        /\ task' = [task EXCEPT ![t].cancelled = TRUE]
        /\ registered' = [registered EXCEPT ![m] = None]
    BY <1>5 DEF Inv, TypeOK, RegSound, Delete, BatchDelete
  <2>2. /\ task' \in [Tasks -> [pc : TaskPCs, m : Meetings \cup {None}, cancelled : BOOLEAN]]
        /\ task'[t].pc = task[t].pc /\ task'[t].m = m
        /\ \A u \in Tasks \ {t} : task'[u] = task[u]
    BY <2>1 DEF Inv, TypeOK
  <2>3. /\ registered' \in [Meetings -> Tasks \cup {None}] /\ registered'[m] = None
        /\ \A n \in Meetings \ {m} : registered'[n] = registered[n]
    BY <2>1 DEF Inv, TypeOK
  <2>4. slots' \in 0..Limit /\ SlotsAddUp'  BY <1>1, <2>2, SlotsKept DEF Inv
  <2>5. TypeOK'  BY <1>1, <1>3, <2>2, <2>3, <2>4 DEF Inv, TypeOK
  <2>6. TaskSound'  BY <2>1, <2>2 DEF Inv, TaskSound
  <2>7. RegSound'
    <3>1. \A n \in Meetings \ {m} : registered[n] # None => registered[n] \in Tasks \ {t}
      BY <2>1 DEF Inv, TypeOK, RegSound
    <3>. QED  BY <2>2, <2>3, <3>1 DEF Inv, RegSound
  <2>8. \A n \in Meetings : Alive(n)' = Alive(n)  BY <2>1, <2>2 DEF Alive
  <2>9. RunsAreRegistered' /\ LockSound'
    BY <1>1, <2>3, <2>8 DEF Inv, RunsAreRegistered, LockSound, Kept
  <2>. QED  BY <1>2, <2>4, <2>5, <2>6, <2>7, <2>9 DEF Inv
<1>. QED  BY <1>4, <1>5

\* The rest of DELETE touches the lock and the status of its own meeting.
LEMMA DeletingInv ==
    ASSUME Inv, NEW d \in Deleters, Stopped(d) \/ Forgotten(d) \/ Swept(d) \/ BatchForgotten(d) \/ DeleteEnds(d)
    PROVE  Inv'
<1>. DEFINE m == deleter[d].m
<1>1. /\ UNCHANGED <<request, registered, task, slots>>
      /\ m \in Deletable /\ m \in Meetings /\ m \notin Kept
      /\ status' = status \/ status' = [status EXCEPT ![m] = None]
      /\ holder' = holder \/ holder' = [holder EXCEPT ![m] = None]
  BY MeetingsAssumption DEF Inv, DelSound, Stopped, Forgotten, Swept, BatchForgotten, DeleteEnds, Kept
<1>2. /\ deleter' \in [Deleters -> [pc : DelPCs, m : Meetings \cup {None}]]
      /\ \A e \in Deleters : deleter'[e].pc # "idle" => deleter'[e].m = deleter[e].m
                                                    /\ deleter[e].pc # "idle"
  BY DEF Inv, TypeOK, Stopped, Forgotten, Swept, BatchForgotten, DeleteEnds, NoDelete, DelPCs
<1>3. slots' \in 0..Limit /\ SlotsAddUp'  BY <1>1, SlotsKept DEF Inv
<1>4. TypeOK'  BY <1>1, <1>2, <1>3 DEF Inv, TypeOK
<1>5. DelSound'  BY <1>2 DEF Inv, DelSound
<1>6. \A n \in Kept : holder'[n] = holder[n]  BY <1>1 DEF Inv, TypeOK, Kept
<1>. QED  BY <1>1, <1>3, <1>4, <1>5, <1>6
          DEF Inv, TaskSound, RegSound, RunsAreRegistered, Alive, LockSound

-----------------------------------------------------------------------------
(* The theorems.                                                           *)

LEMMA InitInv == Init => Inv
<1>. SUFFICES ASSUME Init PROVE Inv
  OBVIOUS
<1>1. Inside = {}  BY DEF Init, Inside, NoTask
<1>2. SlotsAddUp
  <2>1. Cardinality(Inside) = 0  BY <1>1, FS_EmptySet
  <2>. QED  BY <2>1, LimitAssumption DEF Init, SlotsAddUp
<1>3. TypeOK
  BY LimitAssumption DEF Init, TypeOK, Statuses, TaskPCs, DelPCs, NoTask, NoDelete
<1>4. TaskSound /\ RegSound /\ DelSound /\ RunsAreRegistered
  BY DEF Init, NoTask, NoDelete, TaskSound, RegSound, DelSound, RunsAreRegistered, Alive
<1>5. LockSound
  BY NoneAssumption DEF Init, LockSound, Kept
<1>. QED  BY <1>2, <1>3, <1>4, <1>5 DEF Inv

\* A step is one of the steps the lemmas above are about.
LEMMA Kinds ==
    ASSUME Next
    PROVE  \/ \E r \in Requests, m \in Meetings : Admit(r, m)
           \/ \E r \in Requests, t \in Tasks : Launch(r, t)
           \/ \E t \in Tasks : \/ Enter(t) \/ Ends(t) \/ Escape(t)
                               \/ CancelledWaiting(t) \/ Released(t)
           \/ \E d \in Deleters, m \in Meetings : Delete(d, m) \/ BatchDelete(d, m)
           \/ \E d \in Deleters : Stopped(d) \/ Forgotten(d) \/ Swept(d) \/ BatchForgotten(d) \/ DeleteEnds(d)
  BY DEF Next, TaskStep, Ends

\* The invariant that carries all the others.
THEOREM Invariance == Spec => []Inv
<1>1. Inv /\ [Next]_vars => Inv'
  <2>. SUFFICES ASSUME Inv, [Next]_vars PROVE Inv'
    OBVIOUS
  <2>1. CASE UNCHANGED vars
    <3>1. Inside' = Inside  BY <2>1 DEF vars, Inside
    <3>. QED  BY <2>1, <3>1 DEF vars, Inv, TypeOK, SlotsAddUp, TaskSound, RegSound, DelSound,
                            RunsAreRegistered, Alive, LockSound
  <2>2. CASE Next
    BY <2>2, Kinds, AdmitInv, LaunchInv, EnterInv, EndsInv, EscapeInv, GoneInv, DeleteInv,
       DeletingInv
  <2>. QED  BY <2>1, <2>2
<1>. QED  BY <1>1, InitInv, PTL DEF Spec

\* Types, the number of free places among them.
THEOREM AdmissionTypes == Spec => []TypeOK
<1>1. Inv => TypeOK  BY DEF Inv
<1>. QED  BY <1>1, Invariance, PTL

\* Every run of a meeting nobody deletes is the one in the table of running tasks.
THEOREM TableIsComplete == Spec => []RunsAreRegistered
<1>1. Inv => RunsAreRegistered  BY DEF Inv
<1>. QED  BY <1>1, Invariance, PTL

\* Places in the semaphore are neither lost nor invented, by cancellation neither.
THEOREM NoPlaceIsLost == Spec => []SlotsAddUp
<1>1. Inv => SlotsAddUp  BY DEF Inv
<1>. QED  BY <1>1, Invariance, PTL

-----------------------------------------------------------------------------
(* Refinement: seen from a kept meeting, one coroutine at a time.          *)

Work == [m \in Kept |-> AtWork(m)]

\* Only the runs of the meeting can change what is at work on it.
LEMMA WorkKept ==
    ASSUME \A t \in Tasks : \A m \in Kept :
             (task[t].m = m /\ task[t].pc \in {"running", "reporting"} /\ ~task[t].cancelled)
               <=> (task'[t].m = m /\ task'[t].pc \in {"running", "reporting"} /\ ~task'[t].cancelled)
    PROVE  Work' = Work
<1>1. \A m \in Kept : AtWork(m)' = AtWork(m)  BY DEF AtWork
<1>. QED  BY <1>1 DEF Work, Kept

\* A task begins to work on a meeting on which nobody works.
LEMMA EnterBegins ==
    ASSUME Inv, NEW t \in Tasks, Enter(t)
    PROVE  Work' = Work \/ \E m \in Kept : Work[m] = {} /\ Work' = [Work EXCEPT ![m] = {t}]
<1>0. PICK m : m = task[t].m  OBVIOUS
<1>1. /\ task[t].pc = "waiting" /\ ~task[t].cancelled
      /\ task'[t].pc \in {"running", "releasing"} /\ task'[t].m = m /\ ~task'[t].cancelled
      /\ \A u \in Tasks \ {t} : task'[u] = task[u]
  BY <1>0, AtType DEF Inv, Enter, Release, TaskPCs
<1>2. CASE m \in Kept /\ task'[t].pc = "running"
  <2>1. \A u \in Alive(m) : u = t
    <3>1. t \in Alive(m)  BY <1>0, <1>1 DEF Alive
    <3>. QED  BY <1>2, <3>1 DEF Inv, RunsAreRegistered
  <2>2. AtWork(m) = {}  BY <1>1, <2>1 DEF AtWork, Alive
  <2>3. AtWork(m)' = {t}  BY <1>1, <1>2, <2>2 DEF AtWork
  <2>4. \A n \in Kept \ {m} : AtWork(n)' = AtWork(n)  BY <1>0, <1>1 DEF AtWork
  <2>5. Work[m] = {} /\ Work' = [Work EXCEPT ![m] = {t}]
    BY <1>2, <2>2, <2>3, <2>4 DEF Work, Kept
  <2>. QED  BY <1>2, <2>5
<1>3. CASE ~(m \in Kept /\ task'[t].pc = "running")
  BY <1>0, <1>1, <1>3, WorkKept
<1>. QED  BY <1>2, <1>3

\* At the end of a task nobody is left working on its meeting.
LEMMA EndsEnd ==
    ASSUME Inv, NEW t \in Tasks, Ends(t)
    PROVE  Work' = Work \/ \E m \in Kept : Work[m] # {} /\ Work' = [Work EXCEPT ![m] = {}]
<1>0. PICK m : m = task[t].m  OBVIOUS
<1>1. /\ task[t].pc \in {"running", "reporting"}
      /\ task'[t].pc = "releasing" /\ task'[t].m = m
      /\ \A u \in Tasks \ {t} : task'[u] = task[u]
  BY <1>0, AtType DEF Inv, Ends, Finish, Reported, Cancelled, Release, TaskPCs
<1>2. CASE m \in Kept
  <2>1. t \in Alive(m)  BY <1>0, <1>1 DEF Alive
  <2>2. registered[m] = t /\ m \in Meetings /\ t # None
    BY <1>2, <2>1, NoneAssumption DEF Inv, RunsAreRegistered, Kept
  <2>3. ~task[t].cancelled  BY <2>2 DEF Inv, RegSound
  <2>4. AtWork(m) # {}  BY <1>0, <1>1, <2>3 DEF AtWork
  <2>5. AtWork(m)' = {}
    <3>1. \A u \in AtWork(m) : u = t  BY <1>2, <2>2 DEF Inv, RunsAreRegistered, Alive, AtWork
    <3>. QED  BY <1>1, <3>1 DEF AtWork
  <2>6. \A n \in Kept \ {m} : AtWork(n)' = AtWork(n)  BY <1>0, <1>1 DEF AtWork
  <2>7. Work[m] # {} /\ Work' = [Work EXCEPT ![m] = {}]
    BY <1>2, <2>4, <2>5, <2>6 DEF Work, Kept
  <2>. QED  BY <1>2, <2>7
<1>3. CASE m \notin Kept
  BY <1>0, <1>1, <1>3, WorkKept
<1>. QED  BY <1>2, <1>3

\* No other step changes who works on a kept meeting.
LEMMA OthersStutter ==
    ASSUME Inv,
           \/ \E r \in Requests, m \in Meetings : Admit(r, m)
           \/ \E r \in Requests, t \in Tasks : Launch(r, t)
           \/ \E t \in Tasks : Escape(t) \/ CancelledWaiting(t) \/ Released(t)
           \/ \E d \in Deleters, m \in Meetings : Delete(d, m) \/ BatchDelete(d, m)
           \/ \E d \in Deleters : Stopped(d) \/ Forgotten(d) \/ Swept(d) \/ BatchForgotten(d) \/ DeleteEnds(d)
           \/ UNCHANGED vars
    PROVE  Work' = Work
<1>1. CASE task' = task
  BY <1>1, WorkKept
<1>2. CASE \E r \in Requests, t \in Tasks : Launch(r, t)
  <2>1. PICK t \in Tasks : /\ task[t].pc = "none" /\ task'[t].pc = "waiting"
                           /\ \A u \in Tasks \ {t} : task'[u] = task[u]
    BY <1>2 DEF Launch, Inv, TypeOK
  <2>. QED  BY <2>1, WorkKept
<1>3. CASE \E t \in Tasks : Escape(t)
  <2>1. PICK t \in Tasks : Escape(t)  BY <1>3
  <2>2. /\ task[t].pc = "running" /\ task'[t].pc = "reporting"
        /\ task'[t].m = task[t].m /\ task'[t].cancelled = task[t].cancelled
        /\ \A u \in Tasks \ {t} : task'[u] = task[u]
    BY <2>1, AtType DEF Inv, Escape, TaskPCs
  <2>. QED  BY <2>2, WorkKept
<1>4. CASE \E t \in Tasks : CancelledWaiting(t) \/ Released(t)
  <2>1. PICK t \in Tasks : /\ task[t].pc \in {"waiting", "releasing"} /\ task'[t].pc = "none"
                           /\ \A u \in Tasks \ {t} : task'[u] = task[u]
    BY <1>4 DEF CancelledWaiting, Released, Inv, TypeOK, NoTask
  <2>. QED  BY <2>1, WorkKept
<1>5. CASE \E d \in Deleters, m \in Meetings : Delete(d, m) \/ BatchDelete(d, m)
  <2>1. PICK d \in Deleters, m \in Meetings : Delete(d, m) \/ BatchDelete(d, m)  BY <1>5
  <2>2. CASE registered[m] = None  BY <1>1, <2>1, <2>2 DEF Delete, BatchDelete
  <2>3. CASE registered[m] # None
    <3>. DEFINE t == registered[m]
    <3>1. t \in Tasks /\ task[t].m = m /\ m \notin Kept
      BY <2>1, <2>3 DEF Inv, TypeOK, RegSound, Delete, BatchDelete, Kept
    <3>2. /\ task'[t].m = m
          /\ \A u \in Tasks \ {t} : task'[u] = task[u]
      BY <2>1, <2>3, <3>1 DEF Inv, TypeOK, Delete, BatchDelete
    <3>. QED  BY <3>1, <3>2, WorkKept
  <2>. QED  BY <2>2, <2>3
<1>. QED
  BY <1>1, <1>2, <1>3, <1>4, <1>5
  DEF Admit, Stopped, Forgotten, Swept, BatchForgotten, DeleteEnds, vars

\* RunAdmission implements SingleRun: coroutines work on a meeting that nobody
\* deletes one after the other.
THEOREM AdmissionImplementsSingleRun == Spec => RunsOneAtATime
<1>1. Init => OneAtATime!Init
  BY DEF Init, NoTask, AtWork, OneAtATime!Init
<1>2. Inv /\ [Next]_vars => [OneAtATime!Next]_Work
  <2>. SUFFICES ASSUME Inv, [Next]_vars, Work' # Work PROVE OneAtATime!Next
    BY DEF Work
  <2>1. \E t \in Tasks : Enter(t) \/ Ends(t)
    BY Kinds, OthersStutter
  <2>2. PICK t \in Tasks : Enter(t) \/ Ends(t)  BY <2>1
  <2>3. CASE Enter(t)
    <3>1. PICK m \in Kept : Work[m] = {} /\ Work' = [Work EXCEPT ![m] = {t}]
      BY <2>3, EnterBegins
    <3>2. OneAtATime!Begin(m, t)  BY <3>1 DEF OneAtATime!Begin, Work
    <3>. QED  BY <3>2 DEF OneAtATime!Next
  <2>4. CASE Ends(t)
    <3>1. PICK m \in Kept : Work[m] # {} /\ Work' = [Work EXCEPT ![m] = {}]
      BY <2>4, EndsEnd
    <3>2. OneAtATime!End(m)  BY <3>1 DEF OneAtATime!End, Work
    <3>. QED  BY <3>2 DEF OneAtATime!Next
  <2>. QED  BY <2>2, <2>3, <2>4
<1>3. Inv /\ [Next]_vars => [OneAtATime!Next]_([m \in Kept |-> AtWork(m)])
  BY <1>2 DEF Work
<1>. QED  BY <1>1, <1>3, Invariance, PTL DEF Spec, RunsOneAtATime, OneAtATime!Spec

=============================================================================
