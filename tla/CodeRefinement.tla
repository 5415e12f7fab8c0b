----------------------------- MODULE CodeRefinement -----------------------------
(***************************************************************************)
(* The code a meeting produces is run in the sandbox and repaired by an    *)
(* LLM until it works (refine_python_code).  A run that fails for want of  *)
(* the network asks the user for a wider level and waits; once it is       *)
(* granted produce_node calls refine_python_code again at that level.      *)
(* Reviews and the sweep of expired requests come at any time.             *)
(***************************************************************************)
EXTENDS Integers

CONSTANTS
    FirstRounds,   \* max_rounds of the first call (5 in the code)
    SecondRounds   \* max_rounds of the call at the granted level (3)

ASSUME RoundsAssumption == FirstRounds \in Nat \ {0} /\ SecondRounds \in Nat \ {0}

VARIABLES
    refining,  \* "run", "ask", "fix" or "over"
    attempt,   \* [call, round]: which call of refine_python_code, and its round_idx
    code,      \* the code at hand: 0 from the meeting, and a number for each repair
    ran,       \* the code of the last execution, -1 before the first
    level,     \* network level of the sandbox: "L1" (none) or "wide" (L2, L3)
    asked,     \* status of the request each round of the first call has filed
    overdue,   \* rounds whose request is past its expires_at
    reported   \* what the artifact says: the code, and how its execution went

refineVars == <<refining, attempt, code, ran, level, asked, overdue, reported>>

Rounds    == 1..FirstRounds
Unfiled   == "unfiled"
Unwritten == [code |-> -1, execution |-> "none"]

\* _detect_network_level reads the first code.
RefineInit == /\ refining = "run" /\ attempt = [call |-> 1, round |-> 1]
              /\ code = 0 /\ ran = -1
              /\ level \in {"L1", "wide"}
              /\ asked = [r \in Rounds |-> Unfiled] /\ overdue = {}
              /\ reported = Unwritten

MaxRounds == IF attempt.call = 1 THEN FirstRounds ELSE SecondRounds

Report(text, execution) == /\ refining' = "over"
                           /\ reported' = [code |-> text, execution |-> execution]

-----------------------------------------------------------------------------
(* One round: run, ask for the network, have the code repaired             *)

\* Mutant: the last round has its code repaired as well.
RunFailsAnyRound == /\ refining' = "fix"
                    /\ UNCHANGED reported

\* A failure that is not put down to the network: in the last round there is no repair.
RunFails == IF attempt.round >= MaxRounds
            THEN Report(code, "failed")
            ELSE refining' = "fix" /\ UNCHANGED reported

RunSucceeds ==
    /\ refining = "run"
    /\ ran' = code
    /\ Report(code, "succeeded")
    /\ UNCHANGED <<attempt, code, level, asked, overdue>>

RunFailsByItself ==
    /\ refining = "run"
    /\ ran' = code
    /\ RunFails
    /\ UNCHANGED <<attempt, code, level, asked, overdue>>

\* detect_network_failure; only L1 asks.
RunLacksNetwork ==
    /\ refining = "run" /\ level = "L1"
    /\ ran' = code
    /\ asked' = [asked EXCEPT ![attempt.round] = "pending"]
    /\ refining' = "ask"
    /\ UNCHANGED <<attempt, code, level, overdue, reported>>

\* The request cannot be filed, or published: caught, and the code is repaired.
AskingFails ==
    /\ refining = "run" /\ level = "L1"
    /\ ran' = code
    /\ \E status \in {Unfiled, "pending"} : asked' = [asked EXCEPT ![attempt.round] = status]
    /\ RunFails
    /\ UNCHANGED <<attempt, code, level, overdue>>

\* The sandbox raises: produce_node reports the first code and the error.
RunRaises ==
    /\ refining = "run"
    /\ refining' = "over"
    /\ reported' = [code |-> 0, execution |-> "raised"]
    /\ UNCHANGED <<attempt, code, ran, level, asked, overdue>>

Answer == asked[attempt.round]

\* Mutant: any answer counts as consent.
GrantedByAnswer == Answer # "pending"

Granted == Answer = "approved"

\* _poll_for_review sees an answer before its deadline.
SeesGrant ==
    /\ refining = "ask" /\ Granted
    /\ refining' = "run"
    /\ level' = "wide"
    /\ attempt' = [call |-> 2, round |-> 1]
    /\ UNCHANGED <<code, ran, asked, overdue, reported>>

SeesRefusal ==
    /\ refining = "ask" /\ Answer \in {"denied", "expired"}
    /\ RunFails
    /\ UNCHANGED <<attempt, code, ran, level, asked, overdue>>

\* Mutant: the wait ends when the request is swept.
GivesUpWhenSwept ==
    /\ refining = "ask" /\ Answer = "expired"
    /\ RunFails
    /\ UNCHANGED <<attempt, code, ran, level, asked, overdue>>

\* The deadline of the poll: the request stays as it is, be it pending or just approved.
WaitTimesOut ==
    /\ refining = "ask" /\ attempt.round \in overdue
    /\ RunFails
    /\ UNCHANGED <<attempt, code, ran, level, asked, overdue>>

\* The for loop takes the repair to its next round, if there is one.
Repaired ==
    /\ refining = "fix"
    /\ code' = code + 1
    /\ IF attempt.round >= MaxRounds
       THEN Report(code + 1, "failed") /\ UNCHANGED attempt
       ELSE /\ attempt' = [attempt EXCEPT !.round = @ + 1]
            /\ refining' = "run"
            /\ UNCHANGED reported
    /\ UNCHANGED <<ran, level, asked, overdue>>

\* No code, the same code, or no answer: the loop ends where it is.
NotRepaired ==
    /\ refining = "fix"
    /\ Report(code, "failed")
    /\ UNCHANGED <<attempt, code, ran, level, asked, overdue>>

-----------------------------------------------------------------------------
(* The table of requests: POST /net-auth/requests/{id}/review, or          *)
(* CONCLAVE_NET_AUTH_AUTO; POST /net-auth/expire; and time                 *)

Review(r, verdict) ==
    /\ asked[r] = "pending"
    /\ asked' = [asked EXCEPT ![r] = verdict]
    /\ UNCHANGED <<refining, attempt, code, ran, level, overdue, reported>>

ExpirePending ==
    /\ asked' = [r \in Rounds |-> IF asked[r] = "pending" /\ r \in overdue THEN "expired" ELSE asked[r]]
    /\ UNCHANGED <<refining, attempt, code, ran, level, overdue, reported>>

GetsOverdue(r) ==
    /\ asked[r] # Unfiled /\ r \notin overdue
    /\ overdue' = overdue \cup {r}
    /\ UNCHANGED <<refining, attempt, code, ran, level, asked, reported>>

-----------------------------------------------------------------------------
RefineStep == \/ RunSucceeds \/ RunFailsByItself \/ RunLacksNetwork \/ AskingFails \/ RunRaises
              \/ SeesGrant \/ SeesRefusal \/ WaitTimesOut \/ Repaired \/ NotRepaired

TimeStep == \E r \in Rounds : GetsOverdue(r)

RefineNext == \/ RefineStep \/ TimeStep \/ ExpirePending
              \/ \E r \in Rounds, verdict \in {"approved", "denied"} : Review(r, verdict)

RefineSpec == RefineInit /\ [][RefineNext]_refineVars
                         /\ WF_refineVars(RefineStep) /\ WF_refineVars(TimeStep)

-----------------------------------------------------------------------------
\* Every variable keeps its type, and every round its limit.
RefineTypeOK ==
    /\ refining \in {"run", "ask", "fix", "over"}
    /\ attempt \in [call : {1, 2}, round : Nat \ {0}] /\ attempt.round <= MaxRounds
    /\ code \in 0..(FirstRounds + SecondRounds) /\ ran \in -1..code
    /\ level \in {"L1", "wide"}
    /\ asked \in [Rounds -> {Unfiled, "pending", "approved", "denied", "expired"}]
    /\ overdue \subseteq Rounds
    /\ reported \in [code : -1..code, execution : {"none", "succeeded", "failed", "raised"}]

\* The code in the artifact is the code whose execution stands beside it: no repair is
\* reported that has not been run, however the rounds end (refine_loop.py:152).
ReportedCodeRan == reported.execution \in {"succeeded", "failed"} => reported.code = ran

\* A second call runs with the network only because a request was approved, and what was
\* approved is never refused or expired afterwards.
NetworkIsGranted == attempt.call = 2 => \E r \in Rounds : asked[r] = "approved"

\* Nobody has to answer: a run that waits for a review ends all the same.
RefineEnds == (refining = "ask") ~> (refining = "over")

=============================================================================
