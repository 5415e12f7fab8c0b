------------------------------ MODULE StageRouting ------------------------------
(***************************************************************************)
(* The way of a meeting through its stages: what clarify decides, the gate *)
(* of the cross-team debate, the fixed route along the workflow template,  *)
(* and decide_next_stage, which asks an LLM within limits.                 *)
(*                                                                         *)
(* MeetingLifecycle leaves the next stage open; this is where it is chosen.*)
(***************************************************************************)
EXTENDS Integers, Sequences

CONSTANTS
    Pinned,      \* templates a deliverable_type may pin
    Decomposed   \* templates the first of several subtopics may bring

VARIABLES
    stage,     \* state.stage
    at,        \* where the loop of Runner.run stands: "stage", "route" or "over"
    finished,  \* the stage that has just run
    plan,      \* flow_plan, debate_depth, workflow_template, dynamic_routing
    conflicts, \* state.conflicts is not empty
    visited,   \* stages with a locked conclusion
    loops,     \* _stage_loop_count
    regressions, \* _regression_count
    rounds,    \* length of gate_history
    astray     \* history: a decision nobody offered was carried out

routeVars == <<stage, at, finished, plan, conflicts, visited, loops, regressions, rounds, astray>>

StageOrder == <<"clarify", "intra_team", "cross_team", "evidence_check", "arbitrate", "produce">>
StageNames == {StageOrder[n] : n \in 1..6}
Debates    == {"intra_team", "cross_team", "evidence_check", "arbitrate"}

\* design stands for build, adr and test_gen too.
Sequence == [standard    |-> StageOrder,
             design      |-> <<"clarify", "intra_team", "cross_team", "produce">>,
             research    |-> <<"clarify", "intra_team", "produce">>,
             analysis    |-> <<"clarify", "intra_team", "cross_team", "arbitrate", "produce">>,
             feasibility |-> <<"clarify", "intra_team", "cross_team", "evidence_check", "produce">>]

Templates == DOMAIN Sequence
ASSUME TemplatesAssumption == Pinned \subseteq Templates /\ Decomposed \subseteq Templates

Skipped(flow) == IF flow = "simple" THEN {"cross_team", "evidence_check"} ELSE {}

Position(seq, s) == IF \E n \in DOMAIN seq : seq[n] = s THEN CHOOSE n \in DOMAIN seq : seq[n] = s ELSE 0

NextOf(seq, s, flow) ==
    LET later == {n \in DOMAIN seq : n > Position(seq, s) /\ seq[n] \notin Skipped(flow)}
    IN  IF later = {} THEN "produce" ELSE seq[CHOOSE n \in later : \A k \in later : n <= k]

\* next_stage and next_stage_with_template; every caller puts produce for None.
NextStage(s, flow) == NextOf(StageOrder, s, flow)
NextInTemplate(s)  == NextOf(IF Position(Sequence[plan.template], s) > 0 THEN Sequence[plan.template]
                                                                         ELSE StageOrder,
                             s, plan.flow)

ValidNext == [clarify        |-> {"intra_team", "produce"},
              intra_team     |-> {"intra_team", "cross_team", "arbitrate", "produce"},
              cross_team     |-> {"intra_team", "cross_team", "evidence_check", "arbitrate", "produce"},
              evidence_check |-> {"cross_team", "evidence_check", "arbitrate", "produce"},
              arbitrate      |-> {"evidence_check", "cross_team", "arbitrate", "produce"},
              produce        |-> {}]

MaxLoop(s) == CASE s = "intra_team" -> 3
                [] s \in {"cross_team", "evidence_check", "arbitrate"} -> 2
                [] OTHER -> 1
MaxTotalRegressions == 5
MaxGateRounds == 2

RouteInit == /\ stage = "clarify" /\ at = "stage" /\ finished = "clarify"
             /\ plan \in [flow : {"standard", "plan"}, depth : {"standard"}, template : {"standard"},
                          dynamic : BOOLEAN]
             /\ conflicts = FALSE /\ visited = {} /\ astray = FALSE
             /\ loops = [s \in StageNames |-> 0] /\ regressions = 0 /\ rounds = 0

-----------------------------------------------------------------------------
(* The stages                                                              *)

Ran(s, nxt) == /\ at = "stage" /\ stage = s
               /\ visited' = visited \cup {s}
               /\ finished' = s
               /\ stage' = nxt
               /\ at' = IF s = "produce" THEN "over" ELSE "route"

Depth(complexity) == CASE complexity = "simple" -> "light"
                       [] complexity = "full"   -> "deep"
                       [] OTHER                 -> "standard"

\* A pinned template is neither replaced nor decomposed; only full looks at the topic.
TemplatesFor(complexity) ==
    Pinned \cup IF complexity = "full" THEN {"standard", "design", "research", "analysis"} \cup Decomposed
                                       ELSE {"standard"}

RunClarify(complexity, template) ==
    /\ template \in TemplatesFor(complexity)
    /\ plan' = [plan EXCEPT !.flow = IF @ = "plan" THEN @ ELSE complexity,
                            !.depth = IF plan.flow = "plan" THEN "deep" ELSE Depth(complexity),
                            !.template = template]
    /\ Ran("clarify", NextOf(Sequence[template], "clarify", plan'.flow))
    /\ UNCHANGED <<conflicts, loops, regressions, rounds, astray>>

RunIntraTeam ==
    /\ Ran("intra_team", NextInTemplate("intra_team"))
    /\ UNCHANGED <<plan, conflicts, loops, regressions, rounds, astray>>

\* Where the gate sends the meeting.
GateSends(found, verdict) ==
    CASE rounds < MaxGateRounds /\ verdict = "supplement" -> "intra_team"
      [] rounds < MaxGateRounds /\ verdict = "re_examine" -> "cross_team"
      [] OTHER -> LET nxt == NextInTemplate("cross_team")
                  IN  IF nxt = "evidence_check" /\ ~found /\ plan.flow = "standard"
                      THEN NextInTemplate("evidence_check")
                      ELSE nxt

\* Mutant: the rounds of the gate are not counted.
RunCrossTeamUncounted(found, verdict) ==
    /\ conflicts' = found
    /\ Ran("cross_team", GateSends(found, verdict))
    /\ UNCHANGED <<plan, loops, regressions, rounds, astray>>

\* found: the moderator names conflicts; verdict: the gate's, after the checks of the code.
\* It is pass, too, when a supplement has nobody to ask.
RunCrossTeam(found, verdict) ==
    /\ conflicts' = found
    /\ rounds' = rounds + 1
    /\ Ran("cross_team", GateSends(found, verdict))
    /\ UNCHANGED <<plan, loops, regressions, astray>>

RunEvidenceCheck ==
    /\ Ran("evidence_check", NextInTemplate("evidence_check"))
    /\ UNCHANGED <<plan, conflicts, loops, regressions, rounds, astray>>

RunArbitrate ==
    /\ Ran("arbitrate", NextInTemplate("arbitrate"))
    /\ UNCHANGED <<plan, conflicts, loops, regressions, rounds, astray>>

RunProduce ==
    /\ Ran("produce", "produce")
    /\ UNCHANGED <<plan, conflicts, loops, regressions, rounds, astray>>

-----------------------------------------------------------------------------
(* Fixed routing: the stage has set its successor.  One that has stayed is *)
(* sent on along STAGE_ORDER, whatever the template: that is how           *)
(* re_examine ends.                                                        *)
FixedRoute ==
    /\ at = "route" /\ ~plan.dynamic
    /\ stage' = IF stage = finished THEN NextStage(stage, plan.flow) ELSE stage
    /\ astray' = (astray \/ stage = finished)
    /\ at' = "stage"
    /\ UNCHANGED <<finished, plan, conflicts, visited, loops, regressions, rounds>>

-----------------------------------------------------------------------------
(* Dynamic routing: decide_next_stage, and the limit on regressions.       *)

Mandatory ==
    LET missing(s) == s \notin visited
    IN  CASE plan.depth = "deep"     -> {s \in Debates : missing(s)}
          [] plan.depth = "standard" ->
                {s \in {"intra_team"} : missing(s)}
                \cup {s \in {"cross_team"} : missing(s) /\ "intra_team" \in visited}
                \cup {s \in {"evidence_check"} : missing(s) /\ conflicts}
          [] OTHER -> {s \in {"intra_team"} : missing(s)}
                \cup {s \in {"arbitrate"} : missing(s) /\ "intra_team" \in visited}

\* Mutant: produce stays on offer.
OfferedAll(s) == ValidNext[s]

\* What the LLM is offered: only mandatory stages, as long as one can be reached.
Offered(s) == LET forced == Mandatory \cap ValidNext[s]
              IN  IF forced = {} THEN ValidNext[s] ELSE forced

Exhausted(s) == loops'[s] >= MaxLoop(s)

\* The decisions that do not depend on the LLM.
Settled(s) == \/ Exhausted(s)
              \/ plan.depth = "standard" /\ s = "cross_team" /\ ~conflicts
SettledAs(s) == IF Exhausted(s)
                THEN IF NextInTemplate(s) \in ValidNext[s] THEN NextInTemplate(s) ELSE "produce"
                ELSE IF "arbitrate" \in Offered(s) THEN "arbitrate" ELSE "produce"

\* A step back counts when both stages are in the template.
Regresses(s, to) == /\ to # s /\ to # "produce"
                    /\ LET seq == Sequence[plan.template]
                       IN  Position(seq, to) > 0 /\ Position(seq, to) < Position(seq, s)

Proceed(to) ==
    /\ regressions' = IF Regresses(finished, to) THEN regressions + 1 ELSE regressions
    /\ stage' = IF regressions' > regressions /\ regressions' >= MaxTotalRegressions
                THEN "produce" ELSE to
    /\ at' = "stage"
    /\ UNCHANGED <<finished, plan, conflicts, visited, rounds>>

Deciding == /\ at = "route" /\ plan.dynamic
            /\ loops' = [loops EXCEPT ![finished] = @ + 1]

DecidedByCode == /\ Deciding /\ Settled(finished)
                 /\ Proceed(SettledAs(finished))
                 /\ UNCHANGED astray

DecidedByModel(to) == /\ Deciding /\ ~Settled(finished)
                      /\ to \in Offered(finished)
                      /\ Proceed(to)
                      /\ UNCHANGED astray

\* No answer, or one that was not offered: on along the template, offered or not.
DecidedByDefault == /\ Deciding /\ ~Settled(finished)
                    /\ Proceed(NextInTemplate(finished))
                    /\ astray' = (astray \/ NextInTemplate(finished) \notin Offered(finished))

-----------------------------------------------------------------------------
RouteStep == \/ \E complexity \in {"simple", "standard", "full"}, template \in Templates :
                    RunClarify(complexity, template)
             \/ RunIntraTeam \/ RunEvidenceCheck \/ RunArbitrate \/ RunProduce
             \/ \E found \in BOOLEAN, verdict \in {"pass", "supplement", "re_examine"} :
                    RunCrossTeam(found, verdict)
             \/ FixedRoute \/ DecidedByCode \/ DecidedByDefault
             \/ \E to \in StageNames : DecidedByModel(to)

RouteSpec == RouteInit /\ [][RouteStep]_routeVars /\ WF_routeVars(RouteStep)

-----------------------------------------------------------------------------
\* Every variable keeps its type; the gate and the regressions have their limits.
RouteTypeOK ==
    /\ stage \in StageNames /\ finished \in StageNames
    /\ at \in {"stage", "route", "over"}
    /\ plan \in [flow : {"simple", "standard", "full", "plan"}, depth : {"light", "standard", "deep"},
                 template : Templates, dynamic : BOOLEAN]
    /\ conflicts \in BOOLEAN /\ astray \in BOOLEAN
    /\ visited \subseteq StageNames
    /\ loops \in [StageNames -> Nat] /\ regressions \in 0..MaxTotalRegressions /\ rounds \in Nat

\* Gates that send the debate back and an LLM that may choose any stage it is offered, or
\* answer nothing: the meeting reaches its produce stage and ends.
RoutingEnds == (at = "route") ~> (at = "over")

InTemplate(s) == Position(Sequence[plan.template], s) > 0

\* What has to come before produce.  decide_next_stage makes the evidence check mandatory
\* whenever there are conflicts, but a stage at its loop limit goes on along the template
\* before that is looked at: a template without an evidence check may come to produce from
\* a cross-team debate that has just found conflicts.  So it is required of templates that
\* contain it, where the limit leads to it as well.
Required == IF plan.dynamic
            THEN CASE plan.depth = "deep"     -> Debates
                   [] plan.depth = "standard" -> {"intra_team", "cross_team"}
                                                 \cup {s \in {"evidence_check"} : conflicts /\ InTemplate(s)}
                   [] OTHER                   -> {"intra_team", "arbitrate"}
            ELSE {s \in StageNames \ {"produce"} :
                    /\ InTemplate(s)
                    /\ s \notin Skipped(plan.flow)
                    /\ s = "evidence_check" /\ plan.flow = "standard" => conflicts}

\* As long as the LLM keeps to what it is offered (and the gate does not ask a fixed route
\* for a re-examination) nothing is produced before the debates that the depth, or the
\* template, makes mandatory.
DebatesBeforeProduce == stage = "produce" /\ at = "stage" /\ ~astray => Required \subseteq visited

=============================================================================
