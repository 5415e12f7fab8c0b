------------------------------ MODULE DebateRound ------------------------------
(***************************************************************************)
(* One round of intra_team: the planner makes a task for each role, the    *)
(* scheduler gathers the agents' answers, and the reducer puts their       *)
(* claims on the meeting's list, role by role, with an await after each.   *)
(* The gate of cross_team may send single roles back for a supplement,     *)
(* which replaces their claims; the routing may repeat the whole round.    *)
(* The state is saved at any time (control signals), and a restart goes    *)
(* back to what was saved.                                                 *)
(***************************************************************************)
EXTENDS Integers, FiniteSets

CONSTANTS
    Members,    \* roles of team_config, after match_role, which knows the moderator's names too
    Moderator,  \* speaks when the planner has nobody else, member or not
    Misnamed,   \* roles a gate may name that are not in the team
    MaxBatches  \* bound: rounds that are run

ASSUME RolesAssumption == /\ Misnamed \cap Members = {}
                          /\ MaxBatches \in Nat

VARIABLES
    round,    \* "idle", "thinking", "writing" or "debated"
    batch,    \* number of the round: tells its claims from earlier ones
    targets,  \* target_roles of a supplement in gate_pending_action, {} without one
    answers,  \* of each role that has a task: Awaited, or how its agent ended
    words,    \* [claims, conclusions]: state.claims and state.team_conclusions
    unwritten, \* roles whose claims the reducer has still to put down
    saved     \* the last saved state

roundVars == <<round, batch, targets, answers, words, unwritten, saved>>

Voices  == Members \cup Misnamed \cup {Moderator}
Awaited == "awaited"
\* spoke: claims; silent: the agent failed, or had none; lost: the task raised.
Endings == {"spoke", "silent", "lost"}

Claim(r) == [role |-> r, batch |-> batch]
Conclusion(r, how) == [role |-> r, batch |-> IF how = "spoke" THEN batch ELSE 0]

RoundInit == /\ round = "idle" /\ batch = 0 /\ targets = {}
             /\ answers = <<>> /\ unwritten = {}
             /\ words = [claims |-> {}, conclusions |-> {}]
             /\ saved = [round |-> round, words |-> words, targets |-> targets]

-----------------------------------------------------------------------------
(* plan_intra_team and Scheduler.run_plan: one layer                       *)

\* Mutant: everybody is asked when no target is in the team.
PlannedOrAll == IF targets \cap Members = {} THEN Members ELSE targets \cap Members

Planned == LET asked == IF targets = {} THEN Members ELSE Members \cap targets
           IN  IF asked = {} THEN {Moderator} ELSE asked

PlanRound ==
    /\ round = "idle" /\ batch < MaxBatches
    /\ batch' = batch + 1
    /\ answers' = [r \in Planned |-> Awaited]
    /\ round' = "thinking"
    /\ UNCHANGED <<targets, words, unwritten, saved>>

AgentEnds(r, how) ==
    /\ round = "thinking" /\ r \in DOMAIN answers /\ answers[r] = Awaited
    /\ answers' = [answers EXCEPT ![r] = how]
    /\ UNCHANGED <<round, batch, targets, words, unwritten, saved>>

-----------------------------------------------------------------------------
(* reduce_intra_team and run_intra_team                                    *)

Heard == {r \in DOMAIN answers : answers[r] # "lost"}

\* The members whose results are processed: in a supplement the targets, or else all that
\* have a result.
Processed == LET aimed == Members \cap targets \cap Heard
             IN  IF targets # {} /\ aimed # {} THEN aimed ELSE Members \cap Heard

\* Mutant: a supplement leaves the old claims on the list.
KeepOld(list) == list

WithoutTargets(list) == {c \in list : c.role \notin targets}

\* gather has all answers; a lost one has no role to its name and is passed over.
ReduceBegins ==
    /\ round = "thinking" /\ \A r \in DOMAIN answers : answers[r] # Awaited
    /\ words' = [words EXCEPT !.claims = WithoutTargets(@)]
    /\ unwritten' = Processed
    /\ round' = "writing"
    /\ UNCHANGED <<batch, targets, answers, saved>>

WriteClaims(r) ==
    /\ round = "writing" /\ r \in unwritten
    /\ words' = IF answers[r] = "spoke" THEN [words EXCEPT !.claims = @ \cup {Claim(r)}] ELSE words
    /\ unwritten' = unwritten \ {r}
    /\ UNCHANGED <<round, batch, targets, answers, saved>>

Conclude ==
    /\ round = "writing" /\ unwritten = {}
    /\ words' = [words EXCEPT !.conclusions =
                    {Conclusion(r, answers[r]) : r \in Processed}
                    \cup IF targets = {} THEN {} ELSE WithoutTargets(@)]
    /\ targets' = {}
    /\ round' = "debated"
    /\ UNCHANGED <<batch, answers, unwritten, saved>>

-----------------------------------------------------------------------------
(* What comes after, and what comes between                                *)

\* The gate names roles it wants more of (its own choice, or all that no conflict refers
\* to); the routing may also come back without a gate.
BackToRound(roles) ==
    /\ round = "debated"
    /\ targets' = roles
    /\ round' = "idle"
    /\ answers' = <<>>
    /\ UNCHANGED <<batch, words, unwritten, saved>>

SaveRound ==
    /\ saved' = [round |-> IF round = "debated" THEN round ELSE "idle", words |-> words, targets |-> targets]
    /\ UNCHANGED <<round, batch, targets, answers, words, unwritten>>

RestartRound ==
    /\ round' = saved.round /\ words' = saved.words /\ targets' = saved.targets
    /\ answers' = <<>> /\ unwritten' = {}
    /\ UNCHANGED <<batch, saved>>

-----------------------------------------------------------------------------
RoundNext == \/ PlanRound \/ ReduceBegins \/ Conclude \/ SaveRound \/ RestartRound
             \/ \E r \in Voices : WriteClaims(r) \/ \E how \in Endings : AgentEnds(r, how)
             \/ \E roles \in SUBSET (Members \cup Misnamed) : BackToRound(roles)

RoundSpec == RoundInit /\ [][RoundNext]_roundVars

-----------------------------------------------------------------------------
Word(roles) == [role : roles, batch : 0..MaxBatches]

\* Every variable keeps its type.
RoundTypeOK ==
    /\ round \in {"idle", "thinking", "writing", "debated"} /\ batch \in 0..MaxBatches
    /\ targets \subseteq Members \cup Misnamed
    /\ DOMAIN answers \subseteq Voices /\ \A r \in DOMAIN answers : answers[r] \in Endings \cup {Awaited}
    /\ words.claims \subseteq Word(Members) /\ words.conclusions \subseteq Word(Members)
    /\ unwritten \subseteq Members
    /\ saved \in [round : {"idle", "debated"},
                  words : [claims : SUBSET Word(Members), conclusions : SUBSET Word(Members)],
                  targets : SUBSET (Members \cup Misnamed)]

\* When a round is over the claims of every conclusion are on the meeting's list, and each
\* role has one conclusion at most, also if the round was begun again from a state saved
\* between its writes, and if agents failed.  Only a moderator that is of the team may have
\* more: speaking for nobody in a supplement, it keeps its earlier conclusion.
ConclusionsAreGrounded ==
    round = "debated" =>
        /\ \A c \in words.conclusions : c.batch > 0 => c \in words.claims
        /\ \A c, d \in words.conclusions : c.role = d.role => c = d \/ c.role = Moderator

Of(list, r) == {c \in list : c.role = r}

WordsSame(r) == /\ Of(words'.claims, r) = Of(words.claims, r)
                /\ Of(words'.conclusions, r) = Of(words.conclusions, r)

WordsKept(r) == /\ Of(words.claims, r) \subseteq Of(words'.claims, r)
                /\ Of(words.conclusions, r) \subseteq Of(words'.conclusions, r)

\* A supplement that named some roles of the team changes nothing of what the others have
\* said.  One that named nobody of the team takes nothing from anybody, and adds only words
\* of the moderator, which speaks in its stead.
SupplementSparesOthers ==
    [][targets # {} /\ ~RestartRound =>
        \A r \in Members \ targets :
            /\ WordsKept(r)
            /\ (r = Moderator /\ targets \cap Members = {}) \/ WordsSame(r)]_roundVars

=============================================================================
