------------------------------- MODULE SingleRun -------------------------------
(***************************************************************************)
(* What the admission of runs promises, seen from a meeting: coroutines    *)
(* work on it one at a time, and the next one begins only when the last    *)
(* one has ended.                                                          *)
(***************************************************************************)
CONSTANTS Meetings, Tasks

VARIABLE work   \* work[m]: the coroutines at work on m

Init == work = [m \in Meetings |-> {}]

Begin(m, t) == work[m] = {} /\ work' = [work EXCEPT ![m] = {t}]

End(m) == work[m] # {} /\ work' = [work EXCEPT ![m] = {}]

Next == \E m \in Meetings : End(m) \/ \E t \in Tasks : Begin(m, t)

Spec == Init /\ [][Next]_work

=============================================================================
