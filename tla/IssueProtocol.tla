----------------------------- MODULE IssueProtocol -----------------------------
(***************************************************************************)
(* What the issue table promises, whoever writes it: an issue moves along  *)
(* ALLOWED_TRANSITIONS, a published document closes it from any open       *)
(* state, and it is closed only with an artifact that exists.              *)
(***************************************************************************)
CONSTANTS
    Rows,
    Documents,  \* issues of projects without a repository
    Proofs,     \* names of artifacts
    Nothing

VARIABLES
    state,      \* issue row: its status, or "deleted"
    proof,      \* its resolution_artifact_id
    known       \* the artifacts there are

protocol == <<state, proof, known>>

Allowed == [open        |-> {"scheduled", "in_progress", "wontfix"},
            scheduled   |-> {"in_progress", "open", "wontfix"},
            in_progress |-> {"resolved", "open", "wontfix", "conflict"},
            conflict    |-> {"open", "in_progress", "resolved", "wontfix"},
            resolved    |-> {},
            wontfix     |-> {}]

Open == {"open", "scheduled", "in_progress", "conflict"}

Fresh == state = [r \in Rows |-> "open"] /\ proof = [r \in Rows |-> Nothing] /\ known = {}

Moves(r, to) == to \in (IF r \in Documents THEN {"resolved"} ELSE {}) \cup Allowed[state[r]]

Transition(r, to) == /\ state[r] \in Open /\ to # "resolved" /\ to \in Allowed[state[r]]
                     /\ state' = [state EXCEPT ![r] = to]
                     /\ UNCHANGED <<proof, known>>

Settle(r, p) == /\ state[r] \in Open /\ Moves(r, "resolved") /\ p \in known
                /\ state' = [state EXCEPT ![r] = "resolved"]
                /\ proof' = [proof EXCEPT ![r] = p]
                /\ UNCHANGED known

Present(r, p) == /\ state[r] # "deleted" /\ p \in known
                 /\ proof' = [proof EXCEPT ![r] = p]
                 /\ UNCHANGED <<state, known>>

Appear(p) == /\ known' = known \cup {p}
             /\ UNCHANGED <<state, proof>>

Forget(p) == /\ known' = known \ {p}
             /\ proof' = [r \in Rows |-> IF proof[r] = p THEN Nothing ELSE proof[r]]
             /\ UNCHANGED state

Withdraw(r) == /\ state' = [state EXCEPT ![r] = "deleted"]
               /\ UNCHANGED <<proof, known>>

Step == \/ \E r \in Rows : \/ \E to \in Open \cup {"wontfix"} : Transition(r, to)
                           \/ \E p \in Proofs : Settle(r, p) \/ Present(r, p)
                           \/ Withdraw(r)
        \/ \E p \in Proofs : Appear(p) \/ Forget(p)

Protocol == Fresh /\ [][Step]_protocol

=============================================================================
