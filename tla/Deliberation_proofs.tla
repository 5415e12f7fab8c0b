------------------------- MODULE Deliberation_proofs -------------------------
(* Theorems about the four parts of MCDeliberation, each for any values of *)
(* its constants, and about the bench that runs them: the way through the  *)
(* stages, loans of agents, calls of the LLM, and the refinement of code.  *)
EXTENDS MCDeliberation, TLAPS

(* The way of a meeting through its stages (StageRouting).                 *)

\* Stages that stand before s on the template have been visited.
Reached(s) ==
    /\ InTemplate(s)
    /\ \A r \in StageNames :
          /\ InTemplate(r) /\ Position(Sequence[plan.template], r) < Position(Sequence[plan.template], s)
          /\ r \notin Skipped(plan.flow)
          /\ r = "evidence_check" /\ plan.flow = "standard" => conflicts
          => r \in visited

\* Where the fixed route stands.
OnRoute == at = "stage" \/ (at = "route" /\ stage # finished) => Reached(stage)

Unvisited == Debates \ visited

\* The opening of the dynamic route: clarify, and the teams for themselves.
Opening ==
    /\ ~conflicts /\ regressions = 0 /\ \A s \in Debates : loops[s] = 0
    /\ \/ at = "stage" /\ stage = "clarify" /\ visited = {}
       \/ at = "route" /\ finished = "clarify" /\ visited = {"clarify"}
       \/ at = "stage" /\ stage = "intra_team" /\ visited = {"clarify"}
       \/ at = "route" /\ finished = "intra_team" /\ visited = {"clarify", "intra_team"}

LightWay == "arbitrate" \in visited \/ (at = "stage" /\ stage = "arbitrate")

StandardWay ==
    \/ at = "stage" /\ stage = "cross_team" /\ ~conflicts
    \/ /\ "cross_team" \in visited
       /\ \/ ~conflicts \/ "evidence_check" \in visited \/ ~InTemplate("evidence_check")
          \/ at = "route" /\ finished = "cross_team"
          \/ at = "stage" /\ stage = "evidence_check"

\* While a debate is missing none is held twice, and so the limits are far.
DeepWay ==
    \/ Unvisited = {}
    \/ /\ \/ at = "stage" /\ stage \in Unvisited
          \/ at = "route" /\ finished \in Debates \ {"intra_team"} /\ loops[finished] = 0
       /\ \A s \in Debates : loops[s] <= (IF s \in visited THEN 1 ELSE 0)
       /\ regressions <= loops["intra_team"] + loops["cross_team"] + loops["evidence_check"] + loops["arbitrate"]

Underway == /\ "intra_team" \in visited
            /\ plan.depth = "light" => LightWay
            /\ plan.depth = "standard" => StandardWay
            /\ plan.depth = "deep" => DeepWay

RouteInv ==
    /\ RouteTypeOK
    /\ at = "route" => finished # "produce" /\ finished \in visited
    /\ regressions = MaxTotalRegressions => stage = "produce" /\ at # "route"
    /\ stage = "clarify" => /\ at = "stage" /\ visited = {} /\ regressions = 0 /\ ~conflicts
                            /\ \A s \in Debates : loops[s] = 0
    /\ stage # "clarify" /\ plan.depth = "standard" => plan.flow = "standard"
    /\ ~plan.dynamic /\ ~astray => OnRoute
    /\ plan.dynamic /\ ~astray => Opening \/ Underway
-----------------------------------------------------------------------------
(* The templates                                                           *)

\* A list of stages that a meeting can follow.
Route(seq) ==
    /\ seq \in Seq(StageNames) /\ Len(seq) \in 3..6
    /\ \A j, k \in 1..Len(seq) : seq[j] = seq[k] => j = k
    /\ seq[1] = "clarify" /\ seq[2] = "intra_team" /\ seq[Len(seq)] = "produce"
    /\ \A n \in 1..Len(seq) : seq[n] = "evidence_check" => seq[n - 1] = "cross_team" /\ n > 3

LEMMA Names == StageNames = {"clarify", "intra_team", "cross_team", "evidence_check", "arbitrate", "produce"}
<1>1. 1..6 = {1, 2, 3, 4, 5, 6}  OBVIOUS
<1>. QED  BY <1>1 DEF StageNames, StageOrder

LEMMA OrderIsRoute == Route(StageOrder)
  BY Names DEF Route, StageOrder

LEMMA DesignIsRoute == Route(<<"clarify", "intra_team", "cross_team", "produce">>)
  BY Names DEF Route

LEMMA ResearchIsRoute == Route(<<"clarify", "intra_team", "produce">>)
  BY Names DEF Route

LEMMA AnalysisIsRoute == Route(<<"clarify", "intra_team", "cross_team", "arbitrate", "produce">>)
  BY Names DEF Route

LEMMA FeasibilityIsRoute == Route(<<"clarify", "intra_team", "cross_team", "evidence_check", "produce">>)
  BY Names DEF Route

LEMMA TemplatesAreRoutes == ASSUME NEW t \in Templates PROVE Route(Sequence[t])
<1>1. t \in {"standard", "design", "research", "analysis", "feasibility"}  BY DEF Templates, Sequence
<1>2. CASE t = "standard"  BY <1>2, OrderIsRoute DEF Sequence
<1>3. CASE t = "design"  BY <1>3, DesignIsRoute DEF Sequence
<1>4. CASE t = "research"  BY <1>4, ResearchIsRoute DEF Sequence
<1>5. CASE t = "analysis"  BY <1>5, AnalysisIsRoute DEF Sequence
<1>6. CASE t = "feasibility"  BY <1>6, FeasibilityIsRoute DEF Sequence
<1>. QED  BY <1>1, <1>2, <1>3, <1>4, <1>5, <1>6

\* A set of places has a first one.
LEMMA Smallest == ASSUME NEW S, S \subseteq 1..6, S # {} PROVE \E n \in S : \A k \in S : n <= k
<1>1. \A k \in S : k \in Int /\ 1 <= k /\ k <= 6  OBVIOUS
<1>2. CASE 1 \in S  BY <1>1, <1>2
<1>3. CASE 1 \notin S /\ 2 \in S  BY <1>1, <1>3
<1>4. CASE 1 \notin S /\ 2 \notin S /\ 3 \in S  BY <1>1, <1>4
<1>5. CASE 1 \notin S /\ 2 \notin S /\ 3 \notin S /\ 4 \in S  BY <1>1, <1>5
<1>6. CASE 1 \notin S /\ 2 \notin S /\ 3 \notin S /\ 4 \notin S /\ 5 \in S  BY <1>1, <1>6
<1>7. CASE 1 \notin S /\ 2 \notin S /\ 3 \notin S /\ 4 \notin S /\ 5 \notin S
  <2>1. \A k \in S : k = 6  BY <1>1, <1>7
  <2>2. 6 \in S  BY <2>1
  <2>. QED  BY <2>1, <2>2
<1>. QED  BY <1>2, <1>3, <1>4, <1>5, <1>6, <1>7

\* Position finds a stage where it is.
LEMMA Positions ==
    ASSUME NEW seq, Route(seq)
    PROVE  /\ \A s : Position(seq, s) \in 0..Len(seq)
           /\ \A s : Position(seq, s) > 0 => seq[Position(seq, s)] = s
           /\ \A n \in 1..Len(seq) : Position(seq, seq[n]) = n
           /\ \A s : s \notin StageNames => Position(seq, s) = 0
<1>1. DOMAIN seq = 1..Len(seq) /\ Len(seq) \in Nat /\ \A n \in DOMAIN seq : seq[n] \in StageNames
  BY DEF Route
<1>2. ASSUME NEW s, \E n \in DOMAIN seq : seq[n] = s
      PROVE  Position(seq, s) \in DOMAIN seq /\ seq[Position(seq, s)] = s
  BY <1>2 DEF Position
<1>3. ASSUME NEW s, ~\E n \in DOMAIN seq : seq[n] = s PROVE Position(seq, s) = 0
  BY <1>3 DEF Position
<1>4. ASSUME NEW n \in 1..Len(seq) PROVE Position(seq, seq[n]) = n
  BY <1>1, <1>2 DEF Route
<1>5. ASSUME NEW s PROVE /\ Position(seq, s) \in 0..Len(seq)
                         /\ Position(seq, s) > 0 => seq[Position(seq, s)] = s
  BY <1>1, <1>2, <1>3
<1>. HIDE DEF Position
<1>. QED  BY <1>1, <1>2, <1>4, <1>5

\* The next stage of a route: further on, and only what the flow skips lies between.
LEMMA NextOnRoute ==
    ASSUME NEW seq, Route(seq), NEW s, Position(seq, s) > 0, s # "produce", NEW flow
    PROVE  /\ NextOf(seq, s, flow) \in StageNames \ {"clarify", s}
           /\ NextOf(seq, s, flow) \notin Skipped(flow)
           /\ Position(seq, NextOf(seq, s, flow)) > Position(seq, s)
           /\ \A r : /\ Position(seq, s) < Position(seq, r)
                     /\ Position(seq, r) < Position(seq, NextOf(seq, s, flow))
                     => r \in Skipped(flow)
<1>. DEFINE p == Position(seq, s)
            later == {n \in DOMAIN seq : n > p /\ seq[n] \notin Skipped(flow)}
            m == CHOOSE n \in later : \A k \in later : n <= k
<1>1. DOMAIN seq = 1..Len(seq) /\ Len(seq) \in Nat /\ \A n \in DOMAIN seq : seq[n] \in StageNames
  BY DEF Route
<1>2. p \in 1..Len(seq) /\ seq[p] = s  BY Positions
<1>3. p < Len(seq)  BY <1>1, <1>2 DEF Route
<1>4. Len(seq) \in later  BY <1>1, <1>2, <1>3 DEF Route, Skipped
<1>5. \E n \in later : \A k \in later : n <= k
  <2>1. later \subseteq 1..6 /\ later # {}  BY <1>1, <1>4 DEF Route
  <2>. HIDE DEF later
  <2>. QED  BY <2>1, Smallest
<1>6. m \in later /\ \A k \in later : m <= k  BY <1>5
<1>7. NextOf(seq, s, flow) = seq[m]  BY <1>4 DEF NextOf
<1>8. m \in 1..Len(seq) /\ m > p /\ seq[m] \notin Skipped(flow)  BY <1>1, <1>6
<1>. HIDE DEF m
<1>9. Position(seq, seq[m]) = m  BY <1>8, Positions
<1>10. ASSUME NEW r, p < Position(seq, r), Position(seq, r) < m PROVE r \in Skipped(flow)
  <2>1. Position(seq, r) \in 1..Len(seq) /\ seq[Position(seq, r)] = r  BY <1>2, <1>10, Positions
  <2>2. Position(seq, r) \notin later  BY <1>6, <1>8, <1>10, <2>1
  <2>. QED  BY <1>1, <1>10, <2>1, <2>2
<1>11. seq[m] # "clarify" /\ seq[m] # s  BY <1>2, <1>8, <1>9 DEF Route
<1>. QED  BY <1>1, <1>2, <1>7, <1>8, <1>9, <1>10, <1>11

LEMMA OnTheOrder == ASSUME NEW s \in StageNames PROVE Position(StageOrder, s) > 0
<1>1. PICK n \in 1..6 : s = StageOrder[n]  BY DEF StageNames
<1>2. Len(StageOrder) = 6  BY DEF StageOrder
<1>3. Position(StageOrder, StageOrder[n]) = n  BY <1>2, OrderIsRoute, Positions
<1>. QED  BY <1>1, <1>3

LEMMA NextInTemplateOn ==
    ASSUME plan.template \in Templates, NEW s \in StageNames \ {"produce"}
    PROVE  NextInTemplate(s) \in StageNames \ {"clarify", s}
<1>1. CASE Position(Sequence[plan.template], s) > 0
  BY <1>1, TemplatesAreRoutes, NextOnRoute DEF NextInTemplate
<1>2. CASE ~(Position(Sequence[plan.template], s) > 0)
  <2>1. Position(StageOrder, s) > 0  BY OnTheOrder
  <2>. QED  BY <1>2, <2>1, OrderIsRoute, NextOnRoute DEF NextInTemplate
<1>. QED  BY <1>1, <1>2

LEMMA FromClarify == ASSUME NEW seq, Route(seq), NEW flow PROVE NextOf(seq, "clarify", flow) = "intra_team"
<1>. DEFINE nxt == NextOf(seq, "clarify", flow)
<1>1. Position(seq, "clarify") = 1 /\ Position(seq, "intra_team") = 2
  <2>1. 1 \in 1..Len(seq) /\ 2 \in 1..Len(seq)  BY DEF Route
  <2>. QED  BY <2>1, Positions DEF Route
<1>2. Position(seq, nxt) > 1 /\ ~(2 < Position(seq, nxt))
  <2>1. "intra_team" \notin Skipped(flow)  BY DEF Skipped
  <2>. QED  BY <1>1, <2>1, NextOnRoute
<1>3. Position(seq, nxt) = 2
  <2>1. Position(seq, nxt) \in Int  BY Positions DEF Route
  <2>. QED  BY <1>2, <2>1
<1>. HIDE DEF nxt
<1>4. seq[2] = nxt  BY <1>3, Positions
<1>. QED  BY <1>4 DEF nxt, Route

\* On a route that has it, the evidence check comes right after the debate of the teams.
LEMMA EvidencePlace ==
    ASSUME NEW seq, Route(seq), Position(seq, "evidence_check") > 0
    PROVE  Position(seq, "evidence_check") = Position(seq, "cross_team") + 1 /\ Position(seq, "cross_team") > 0
<1>. DEFINE n == Position(seq, "evidence_check")
<1>1. n \in 1..Len(seq) /\ seq[n] = "evidence_check" /\ Len(seq) \in Nat  BY Positions DEF Route
<1>2. seq[n - 1] = "cross_team" /\ n > 3  BY <1>1 DEF Route
<1>3. n - 1 \in 1..Len(seq)  BY <1>1, <1>2
<1>4. Position(seq, "cross_team") = n - 1  BY <1>2, <1>3, Positions
<1>. QED  BY <1>1, <1>2, <1>4

LEMMA FromCross ==
    ASSUME NEW seq, Route(seq), Position(seq, "evidence_check") > 0, NEW flow, flow # "simple"
    PROVE  NextOf(seq, "cross_team", flow) = "evidence_check"
<1>. DEFINE nxt == NextOf(seq, "cross_team", flow)
            n == Position(seq, "evidence_check")
<1>1. n = Position(seq, "cross_team") + 1 /\ Position(seq, "cross_team") > 0  BY EvidencePlace
<1>2. "evidence_check" \notin Skipped(flow)  BY DEF Skipped
<1>3. Position(seq, nxt) \in Int /\ n \in Int /\ Position(seq, "cross_team") \in Int  BY Positions DEF Route
<1>4. Position(seq, nxt) > Position(seq, "cross_team") /\ ~(n < Position(seq, nxt))
  <2>1. Position(seq, "cross_team") < n  BY <1>1, <1>3
  <2>. QED  BY <1>1, <1>2, <2>1, NextOnRoute
<1>5. Position(seq, nxt) = n  BY <1>1, <1>3, <1>4
<1>. HIDE DEF nxt
<1>. QED  BY <1>1, <1>3, <1>5, Positions DEF nxt

-----------------------------------------------------------------------------
(* The fixed route                                                         *)

\* Where the teams speak for themselves is near: only clarify stands before.
LEMMA TeamsReached ==
    ASSUME plan'.template \in Templates, "clarify" \in visited' PROVE Reached("intra_team")'
<1>. DEFINE seq == Sequence[plan'.template]
<1>1. Route(seq)  BY TemplatesAreRoutes
<1>2. 1 \in 1..Len(seq) /\ 2 \in 1..Len(seq) /\ seq[1] = "clarify" /\ seq[2] = "intra_team"  BY <1>1 DEF Route
<1>. HIDE DEF seq
<1>3. Position(seq, "intra_team") = 2  BY <1>1, <1>2, Positions
<1>4. ASSUME NEW r, Position(seq, r) > 0, Position(seq, r) < 2 PROVE r = "clarify"
  <2>1. Position(seq, r) \in Int  BY <1>1, Positions DEF Route
  <2>2. Position(seq, r) = 1  BY <1>4, <2>1
  <2>. QED  BY <1>1, <1>2, <1>4, <2>2, Positions
<1>. QED  BY <1>3, <1>4 DEF Reached, InTemplate, seq

\* A stage has run, and the meeting goes on along its template.
LEMMA Along ==
    ASSUME plan.template \in Templates, NEW s \in StageNames \ {"produce"}, Reached(s),
           NEW to, to = NextInTemplate(s), visited' = visited \cup {s}, UNCHANGED plan, s # "cross_team" => UNCHANGED conflicts
    PROVE  Reached(to)'
<1>. DEFINE seq == Sequence[plan.template]
<1>1. Route(seq)  BY TemplatesAreRoutes
<1>2. Position(seq, s) > 0  BY DEF Reached, InTemplate
<1>3. to = NextOf(seq, s, plan.flow)  BY <1>2 DEF NextInTemplate
<1>4. /\ Position(seq, to) > Position(seq, s)
      /\ \A r : Position(seq, s) < Position(seq, r) /\ Position(seq, r) < Position(seq, to)
                => r \in Skipped(plan.flow)
  BY <1>1, <1>2, <1>3, NextOnRoute
<1>5. \A r : Position(seq, r) \in Int /\ Position(seq, r) >= 0  BY <1>1, Positions DEF Route
<1>6. \A r : Position(seq, r) > 0 /\ Position(seq, r) = Position(seq, s) => r = s
  BY <1>1, <1>2, Positions
<1>7. s = "cross_team" => ~(Position(seq, "evidence_check") > 0 /\ Position(seq, "evidence_check") < Position(seq, s))
  BY <1>1, <1>5, EvidencePlace
<1>8. ASSUME NEW r \in StageNames, Position(seq, r) > 0, Position(seq, r) < Position(seq, to),
             r \notin Skipped(plan.flow),
             r = "evidence_check" /\ plan.flow = "standard" => conflicts'
      PROVE  r \in visited'
  <2>1. CASE Position(seq, r) < Position(seq, s)
    <3>1. r = "evidence_check" /\ plan.flow = "standard" => conflicts  BY <1>7, <1>8, <2>1
    <3>. QED  BY <1>8, <2>1, <3>1 DEF Reached, InTemplate
  <2>2. CASE Position(seq, r) = Position(seq, s)  BY <1>6, <1>8, <2>2
  <2>3. CASE Position(seq, r) > Position(seq, s)  BY <1>4, <1>8, <2>3
  <2>. QED  BY <1>5, <2>1, <2>2, <2>3
<1>9. Position(seq, to) > 0  BY <1>2, <1>4, <1>5
<1>10. \A r : InTemplate(r)' <=> Position(seq, r) > 0  BY DEF InTemplate
<1>. QED  BY <1>8, <1>9, <1>10, <1>10 DEF Reached

\* Past an evidence check that has nothing to look at.
LEMMA AlongPast ==
    ASSUME plan'.template \in Templates, plan'.flow = "standard", ~conflicts', Reached("evidence_check")',
           NEW to, to = NextInTemplate("evidence_check")'
    PROVE  Reached(to)'
<1>. DEFINE seq == Sequence[plan'.template]
<1>1. Route(seq)  BY TemplatesAreRoutes
<1>2. Position(seq, "evidence_check") > 0  BY DEF Reached, InTemplate
<1>3. to = NextOf(seq, "evidence_check", plan'.flow)  BY <1>2 DEF NextInTemplate
<1>4. /\ Position(seq, to) > Position(seq, "evidence_check")
      /\ \A r : Position(seq, "evidence_check") < Position(seq, r) /\ Position(seq, r) < Position(seq, to)
                => r \in Skipped(plan'.flow)
  BY <1>1, <1>2, <1>3, NextOnRoute
<1>5. \A r : Position(seq, r) \in Int /\ Position(seq, r) >= 0  BY <1>1, Positions DEF Route
<1>6. \A r : Position(seq, r) > 0 /\ Position(seq, r) = Position(seq, "evidence_check") => r = "evidence_check"
  BY <1>1, <1>2, Positions
<1>8. ASSUME NEW r \in StageNames, Position(seq, r) > 0, Position(seq, r) < Position(seq, to),
             r \notin Skipped(plan'.flow), r # "evidence_check"
      PROVE  r \in visited'
  <2>1. CASE Position(seq, r) < Position(seq, "evidence_check")
    BY <1>8, <2>1 DEF Reached, InTemplate
  <2>2. CASE Position(seq, r) = Position(seq, "evidence_check")  BY <1>6, <1>8, <2>2
  <2>3. CASE Position(seq, r) > Position(seq, "evidence_check")  BY <1>4, <1>8, <2>3
  <2>. QED  BY <1>5, <2>1, <2>2, <2>3
<1>9. Position(seq, to) > 0  BY <1>2, <1>4, <1>5
<1>. QED  BY <1>8, <1>9 DEF Reached, InTemplate

-----------------------------------------------------------------------------
(* A stage runs                                                            *)

LEMMA DebatesAreStages == Debates \subseteq StageNames \ {"clarify", "produce"}
  BY Names DEF Debates

\* The dynamic route: the debate of the stage has been held.
LEMMA HeldKeeps ==
    ASSUME RouteInv, plan.dynamic, ~astray, NEW s \in Debates, NEW nxt, Ran(s, nxt),
           UNCHANGED <<plan, loops, regressions, astray>>, s # "cross_team" => UNCHANGED conflicts
    PROVE  (Opening \/ Underway)'
<1>. USE DEF Ran
<1>1. at = "stage" /\ stage = s /\ at' = "route" /\ finished' = s /\ visited' = visited \cup {s}
  BY DebatesAreStages
<1>2. CASE Opening
  <2>1. s = "intra_team" /\ visited = {"clarify"}  BY <1>1, <1>2 DEF Opening, Debates
  <2>. QED  BY <1>1, <1>2, <2>1 DEF Opening
<1>3. CASE Underway
  <2>1. "intra_team" \in visited'  BY <1>1, <1>3 DEF Underway
  <2>2. plan.depth = "light" => LightWay'  BY <1>1, <1>3 DEF Underway, LightWay
  <2>3. plan.depth = "standard" => StandardWay'
    <3>. SUFFICES ASSUME plan.depth = "standard" PROVE StandardWay'  OBVIOUS
    <3>1. StandardWay  BY <1>3 DEF Underway
    <3>2. InTemplate("evidence_check")' = InTemplate("evidence_check")  BY DEF InTemplate
    <3>3. CASE s = "cross_team"  BY <1>1, <3>3 DEF StandardWay
    <3>4. CASE s # "cross_team"  BY <1>1, <3>1, <3>2, <3>4 DEF StandardWay
    <3>. QED  BY <3>3, <3>4
  <2>4. plan.depth = "deep" => DeepWay'
    <3>. SUFFICES ASSUME plan.depth = "deep" PROVE DeepWay'  OBVIOUS
    <3>1. DeepWay  BY <1>3 DEF Underway
    <3>2. CASE Unvisited = {}  BY <1>1, <3>2 DEF DeepWay, Unvisited
    <3>3. CASE Unvisited # {}
      <4>1. /\ s \in Unvisited
            /\ \A r \in Debates : loops[r] <= (IF r \in visited THEN 1 ELSE 0)
            /\ regressions <= loops["intra_team"] + loops["cross_team"] + loops["evidence_check"] + loops["arbitrate"]
        BY <1>1, <3>1, <3>3 DEF DeepWay
      <4>2. loops[s] = 0  BY <4>1, DebatesAreStages DEF Unvisited, RouteInv, RouteTypeOK
      <4>3. s # "intra_team"  BY <1>3, <4>1 DEF Underway, Unvisited
      <4>4. \A r \in Debates : loops'[r] <= (IF r \in visited' THEN 1 ELSE 0)
        BY <1>1, <4>1, <4>2
      <4>. QED  BY <1>1, <4>1, <4>2, <4>3, <4>4 DEF DeepWay
    <3>. QED  BY <3>2, <3>3
  <2>. QED  BY <2>1, <2>2, <2>3, <2>4 DEF Underway
<1>. QED  BY <1>2, <1>3 DEF RouteInv

\* What a debate leaves, whichever way its successor was found.
LEMMA DebateKeeps ==
    ASSUME RouteInv, NEW s \in Debates, NEW nxt \in StageNames \ {"clarify"}, Ran(s, nxt),
           UNCHANGED <<plan, loops, regressions, astray>>, s # "cross_team" => UNCHANGED conflicts,
           conflicts' \in BOOLEAN, rounds' \in Nat,
           ~plan.dynamic /\ ~astray /\ nxt # s => Reached(nxt)'
    PROVE  RouteInv'
<1>1. /\ at = "stage" /\ stage = s /\ at' = "route" /\ stage' = nxt /\ finished' = s
      /\ visited' = visited \cup {s} /\ s \in StageNames \ {"clarify", "produce"}
  BY DebatesAreStages DEF Ran
<1>2. RouteTypeOK'  BY <1>1 DEF RouteInv, RouteTypeOK
<1>3. regressions' # MaxTotalRegressions  BY <1>1 DEF RouteInv
<1>4. plan'.depth = "standard" => plan'.flow = "standard"  BY <1>1 DEF RouteInv
<1>5. ~plan'.dynamic /\ ~astray' => OnRoute'  BY <1>1 DEF OnRoute
<1>6. plan'.dynamic /\ ~astray' => (Opening \/ Underway)'  BY HeldKeeps
<1>. QED  BY <1>1, <1>2, <1>3, <1>4, <1>5, <1>6 DEF RouteInv

LEMMA PlainDebateKeeps ==
    ASSUME RouteInv, NEW s \in Debates \ {"cross_team"}, Ran(s, NextInTemplate(s)),
           UNCHANGED <<plan, conflicts, loops, regressions, rounds, astray>>
    PROVE  RouteInv'
<1>. PICK nxt : nxt = NextInTemplate(s)  OBVIOUS
<1>1. s \in StageNames \ {"produce"} /\ plan.template \in Templates
  BY DebatesAreStages DEF RouteInv, RouteTypeOK
<1>2. nxt \in StageNames \ {"clarify"}  BY <1>1, NextInTemplateOn
<1>3. at = "stage" /\ stage = s /\ visited' = visited \cup {s}  BY DEF Ran
<1>4. ASSUME ~plan.dynamic, ~astray PROVE Reached(nxt)'
  <2>1. Reached(s)  BY <1>3, <1>4 DEF RouteInv, OnRoute
  <2>. QED  BY <1>1, <1>3, <2>1, Along
<1>5. conflicts' \in BOOLEAN /\ rounds' \in Nat  BY DEF RouteInv, RouteTypeOK
<1>. QED  BY <1>2, <1>4, <1>5, DebateKeeps

LEMMA CrossTeamKeeps ==
    ASSUME RouteInv, NEW found \in BOOLEAN, NEW verdict, RunCrossTeam(found, verdict)
    PROVE  RouteInv'
<1>. PICK nxt : nxt = GateSends(found, verdict)  OBVIOUS
<1>. PICK along : along = NextInTemplate("cross_team")  OBVIOUS
<1>1. /\ Ran("cross_team", nxt) /\ conflicts' = found /\ rounds' = rounds + 1
      /\ UNCHANGED <<plan, loops, regressions, astray>>
  BY DEF RunCrossTeam
<1>2. at = "stage" /\ stage = "cross_team" /\ visited' = visited \cup {"cross_team"}
  BY <1>1 DEF Ran
<1>3. plan.template \in Templates /\ rounds' \in Nat  BY <1>1 DEF RouteInv, RouteTypeOK
<1>4. along \in StageNames \ {"clarify"} /\ NextInTemplate("evidence_check") \in StageNames \ {"clarify"}
  BY <1>3, Names, NextInTemplateOn
<1>5. \/ nxt = "intra_team" \/ nxt = "cross_team" \/ nxt = along
      \/ /\ nxt = NextInTemplate("evidence_check") /\ along = "evidence_check"
         /\ ~found /\ plan.flow = "standard"
  BY DEF GateSends
<1>6. nxt \in StageNames \ {"clarify"}  BY <1>4, <1>5, Names
<1>7. ASSUME ~plan.dynamic, ~astray, nxt # "cross_team" PROVE Reached(nxt)'
  <2>1. Reached("cross_team")  BY <1>2, <1>7 DEF RouteInv, OnRoute
  <2>2. Reached(along)'  BY <1>1, <1>2, <1>3, <2>1, Along, Names
  <2>3. CASE nxt = "intra_team"
    <3>1. "clarify" \in visited
      <4>. DEFINE seq == Sequence[plan.template]
      <4>1. Route(seq) /\ 1 \in 1..Len(seq) /\ seq[1] = "clarify"  BY <1>3, TemplatesAreRoutes DEF Route
      <4>. HIDE DEF seq
      <4>2. Position(seq, "clarify") = 1  BY <4>1, Positions
      <4>3. Position(seq, "cross_team") > 0  BY <2>1 DEF Reached, InTemplate, seq
      <4>4. Position(seq, "cross_team") # 1  BY <4>1, <4>3, Positions
      <4>5. Position(seq, "cross_team") \in Int  BY <4>1, Positions DEF Route
      <4>. QED  BY <2>1, <4>2, <4>3, <4>4, <4>5, Names DEF Reached, InTemplate, Skipped, seq
    <3>2. Reached("intra_team")'  BY <1>1, <1>2, <1>3, <3>1, TeamsReached
    <3>. QED  BY <2>3, <3>2
  <2>4. CASE nxt = along  BY <2>2, <2>4
  <2>5. CASE /\ nxt = NextInTemplate("evidence_check") /\ along = "evidence_check"
             /\ ~found /\ plan.flow = "standard"
    <3>1. Reached("evidence_check")'  BY <2>2, <2>5
    <3>2. nxt = NextInTemplate("evidence_check")'  BY <1>1, <2>5 DEF NextInTemplate
    <3>. QED  BY <1>1, <1>3, <2>5, <3>1, <3>2, AlongPast
  <2>. QED  BY <1>5, <1>7, <2>3, <2>4, <2>5
<1>8. "cross_team" \in Debates  BY DEF Debates
<1>. QED  BY <1>1, <1>3, <1>6, <1>7, <1>8, DebateKeeps

LEMMA ClarifyKeeps ==
    ASSUME RouteInv, NEW complexity \in {"simple", "standard", "full"}, NEW template \in Templates,
           RunClarify(complexity, template)
    PROVE  RouteInv'
<1>. DEFINE seq == Sequence[template]
<1>1. Route(seq)  BY TemplatesAreRoutes
<1>2. /\ at = "stage" /\ stage = "clarify" /\ visited' = visited \cup {"clarify"} /\ finished' = "clarify"
      /\ at' = "route" /\ stage' = "intra_team"
      /\ UNCHANGED <<conflicts, loops, regressions, rounds, astray>>
  BY <1>1, FromClarify DEF RunClarify, Ran
<1>3. visited' = {"clarify"} /\ regressions' = 0 /\ ~conflicts' /\ \A s \in Debates : loops'[s] = 0
  BY <1>2 DEF RouteInv
<1>4. plan.flow \in {"simple", "standard", "full", "plan"} /\ plan.dynamic \in BOOLEAN
  BY DEF RouteInv, RouteTypeOK
<1>5. /\ plan' = [plan EXCEPT !.flow = IF plan.flow = "plan" THEN plan.flow ELSE complexity,
                              !.depth = IF plan.flow = "plan" THEN "deep" ELSE Depth(complexity),
                              !.template = template]
  BY DEF RunClarify
<1>6. /\ plan'.template = template /\ plan'.dynamic = plan.dynamic
      /\ plan'.depth = "standard" => plan'.flow = "standard"
      /\ plan' \in [flow : {"simple", "standard", "full", "plan"}, depth : {"light", "standard", "deep"},
                    template : Templates, dynamic : BOOLEAN]
  BY <1>5 DEF RouteInv, RouteTypeOK, Depth
<1>7. RouteTypeOK'  BY <1>2, <1>3, <1>6, Names DEF RouteInv, RouteTypeOK
<1>8. Opening'  BY <1>2, <1>3 DEF Opening
<1>9. Reached("intra_team")'  BY <1>3, <1>6, TeamsReached
<1>. QED  BY <1>2, <1>3, <1>6, <1>7, <1>8, <1>9 DEF RouteInv, OnRoute, MaxTotalRegressions

LEMMA ProduceKeeps == ASSUME RouteInv, RunProduce PROVE RouteInv'
<1>1. /\ at = "stage" /\ stage = "produce" /\ visited' = visited \cup {"produce"} /\ finished' = "produce"
      /\ at' = "over" /\ stage' = "produce"
      /\ UNCHANGED <<plan, conflicts, loops, regressions, rounds, astray>>
  BY DEF RunProduce, Ran
<1>2. RouteTypeOK'  BY <1>1, Names DEF RouteInv, RouteTypeOK
<1>3. ASSUME plan.dynamic, ~astray PROVE Underway'
  <2>1. Underway  BY <1>1, <1>3 DEF RouteInv, Opening
  <2>2. plan.depth = "light" => LightWay'  BY <1>1, <2>1 DEF Underway, LightWay
  <2>3. plan.depth = "standard" => StandardWay'
    BY <1>1, <2>1 DEF Underway, StandardWay, InTemplate
  <2>4. plan.depth = "deep" => DeepWay'
    BY <1>1, <2>1, DebatesAreStages DEF Underway, DeepWay, Unvisited
  <2>. QED  BY <1>1, <2>1, <2>2, <2>3, <2>4 DEF Underway
<1>. QED  BY <1>1, <1>2, <1>3 DEF RouteInv, OnRoute

-----------------------------------------------------------------------------
(* The route is chosen                                                     *)

LEMMA FixedRouteKeeps == ASSUME RouteInv, FixedRoute PROVE RouteInv'
<1>1. /\ at = "route" /\ ~plan.dynamic /\ at' = "stage" /\ finished # "produce" /\ stage # "clarify"
      /\ finished \in StageNames /\ stage \in StageNames
      /\ UNCHANGED <<finished, plan, conflicts, visited, loops, regressions, rounds>>
      /\ astray' = (astray \/ stage = finished)
  BY DEF FixedRoute, RouteInv, RouteTypeOK
<1>2. CASE stage = finished
  <2>1. stage' = NextOf(StageOrder, stage, plan.flow)  BY <1>2 DEF FixedRoute, NextStage
  <2>2. stage' \in StageNames \ {"clarify"}  BY <1>1, <1>2, <2>1, OnTheOrder, OrderIsRoute, NextOnRoute
  <2>3. RouteTypeOK' /\ astray'  BY <1>1, <1>2, <2>2 DEF RouteInv, RouteTypeOK
  <2>. QED  BY <1>1, <2>2, <2>3 DEF RouteInv
<1>3. CASE stage # finished
  <2>1. stage' = stage /\ (astray' <=> astray)  BY <1>1, <1>3 DEF FixedRoute
  <2>2. RouteTypeOK'  BY <1>1, <2>1 DEF RouteInv, RouteTypeOK
  <2>3. ASSUME ~astray PROVE OnRoute'
    <3>1. Reached(stage)  BY <1>1, <1>3, <2>3 DEF RouteInv, OnRoute
    <3>2. Reached(stage)'  BY <1>1, <2>1, <3>1 DEF Reached, InTemplate
    <3>. QED  BY <3>2 DEF OnRoute
  <2>. QED  BY <1>1, <2>1, <2>2, <2>3 DEF RouteInv
<1>. QED  BY <1>2, <1>3

\* No step back leads from clarify or intra_team, or from the teams' debate to its check.
LEMMA StepsOn ==
    ASSUME plan.template \in Templates, NEW to, to # "clarify"
    PROVE  /\ ~Regresses("clarify", to) /\ ~Regresses("intra_team", to)
           /\ ~Regresses("cross_team", "evidence_check")
<1>. DEFINE seq == Sequence[plan.template]
<1>1. /\ Route(seq) /\ 1 \in 1..Len(seq) /\ 2 \in 1..Len(seq)
      /\ seq[1] = "clarify" /\ seq[2] = "intra_team"
  <2>1. Route(seq)  BY TemplatesAreRoutes
  <2>. HIDE DEF seq
  <2>2. Len(seq) \in Nat /\ Len(seq) >= 3 /\ seq[1] = "clarify" /\ seq[2] = "intra_team"  BY <2>1 DEF Route
  <2>. QED  BY <2>1, <2>2
<1>. HIDE DEF seq
<1>2. Position(seq, "clarify") = 1 /\ Position(seq, "intra_team") = 2  BY <1>1, Positions
<1>3. \A r : Position(seq, r) \in Int  BY <1>1, Positions DEF Route
<1>4. Position(seq, to) # 1  BY <1>1, Positions
<1>5. ~(Position(seq, to) > 0 /\ Position(seq, to) < 2)  BY <1>3, <1>4
<1>6. ~(Position(seq, to) > 0 /\ Position(seq, to) < 1)  BY <1>3
<1>7. ~(/\ Position(seq, "evidence_check") > 0
        /\ Position(seq, "evidence_check") < Position(seq, "cross_team"))
  BY <1>1, <1>3, EvidencePlace
<1>. QED  BY <1>2, <1>5, <1>6, <1>7 DEF Regresses, seq

\* Where decide_next_stage may lead: what is settled, or what was offered.
Chosen(to) == IF Settled(finished) THEN to = SettledAs(finished) ELSE to \in Offered(finished)

LEMMA LoopCounted ==
    ASSUME RouteInv, Deciding
    PROVE  /\ finished \in StageNames /\ loops \in [StageNames -> Nat] /\ loops' \in [StageNames -> Nat]
           /\ \A s \in StageNames : loops'[s] = IF s = finished THEN loops[s] + 1 ELSE loops[s]
  BY DEF RouteInv, RouteTypeOK, Deciding

\* Clarify is settled at once, and leads to the teams.
LEMMA OpeningFromClarify ==
    ASSUME RouteInv, Deciding, finished = "clarify", NEW to, Chosen(to) PROVE to = "intra_team"
<1>1. plan.template \in Templates  BY DEF RouteInv, RouteTypeOK
<1>2. /\ Route(Sequence[plan.template]) /\ 1 \in 1..Len(Sequence[plan.template])
      /\ Sequence[plan.template][1] = "clarify"
  BY <1>1, TemplatesAreRoutes DEF Route
<1>3. Position(Sequence[plan.template], "clarify") = 1  BY <1>2, Positions
<1>4. NextInTemplate("clarify") = "intra_team"  BY <1>2, <1>3, FromClarify DEF NextInTemplate
<1>5. Exhausted("clarify")
  <2>1. loops'["clarify"] = loops["clarify"] + 1 /\ loops["clarify"] \in Nat  BY LoopCounted
  <2>. QED  BY <2>1 DEF Exhausted, MaxLoop
<1>. QED  BY <1>4, <1>5 DEF Chosen, Settled, SettledAs, ValidNext

\* The teams have spoken: what comes next is what the depth makes mandatory.
LEMMA OpeningFromTeams ==
    ASSUME RouteInv, Deciding, finished = "intra_team", Opening, NEW to, Chosen(to)
    PROVE  /\ plan.depth = "light" => to = "arbitrate"
           /\ plan.depth = "standard" => to = "cross_team"
           /\ plan.depth = "deep" => to \in {"cross_team", "arbitrate"}
<1>1. visited = {"clarify", "intra_team"} /\ ~conflicts /\ loops["intra_team"] = 0
  BY DEF Deciding, Opening, Debates
<1>2. ~Settled("intra_team")
  <2>1. loops'["intra_team"] = 1  BY <1>1, LoopCounted
  <2>. QED  BY <2>1 DEF Settled, Exhausted, MaxLoop
<1>3. to \in Offered("intra_team")  BY <1>2 DEF Chosen
<1>4. ValidNext["intra_team"] = {"intra_team", "cross_team", "arbitrate", "produce"}  BY DEF ValidNext
<1>5. CASE plan.depth = "light"
  <2>1. Mandatory = {"arbitrate"}  BY <1>1, <1>5 DEF Mandatory
  <2>. QED  BY <1>3, <1>4, <1>5, <2>1 DEF Offered
<1>6. CASE plan.depth = "standard"
  <2>1. Mandatory = {"cross_team"}  BY <1>1, <1>6 DEF Mandatory
  <2>. QED  BY <1>3, <1>4, <1>6, <2>1 DEF Offered
<1>7. CASE plan.depth = "deep"
  <2>1. Mandatory = {"cross_team", "evidence_check", "arbitrate"}  BY <1>1, <1>7 DEF Mandatory, Debates
  <2>. QED  BY <1>3, <1>4, <1>7, <2>1 DEF Offered
<1>. QED  BY <1>5, <1>6, <1>7

\* Conflicts, and nobody has looked at the evidence: that comes next.
LEMMA EvidenceIsNext ==
    ASSUME RouteInv, Deciding, finished = "cross_team", plan.depth = "standard", stage # "clarify",
           {"intra_team", "cross_team"} \subseteq visited, "evidence_check" \notin visited,
           conflicts, InTemplate("evidence_check"), NEW to, Chosen(to)
    PROVE  to = "evidence_check"
<1>1. plan.template \in Templates /\ plan.flow = "standard"  BY DEF RouteInv, RouteTypeOK
<1>2. Route(Sequence[plan.template])  BY <1>1, TemplatesAreRoutes
<1>3. Position(Sequence[plan.template], "cross_team") > 0  BY <1>2, EvidencePlace DEF InTemplate
<1>4. NextInTemplate("cross_team") = "evidence_check"
  BY <1>1, <1>2, <1>3, FromCross DEF NextInTemplate, InTemplate
<1>5. ValidNext["cross_team"] = {"intra_team", "cross_team", "evidence_check", "arbitrate", "produce"}
  BY DEF ValidNext
<1>6. CASE Exhausted("cross_team")  BY <1>4, <1>5, <1>6 DEF Chosen, Settled, SettledAs
<1>7. CASE ~Exhausted("cross_team")
  <2>1. to \in Offered("cross_team")  BY <1>7 DEF Chosen, Settled
  <2>2. Mandatory = {"evidence_check"}  BY DEF Mandatory
  <2>. QED  BY <1>5, <2>1, <2>2 DEF Offered
<1>. QED  BY <1>6, <1>7

\* A deep meeting that lacks a debate goes to one that it lacks.
LEMMA MissingIsNext ==
    ASSUME RouteInv, Deciding, plan.depth = "deep", Unvisited # {}, "intra_team" \in visited,
           finished \in Debates \ {"intra_team"}, loops[finished] = 0, NEW to, Chosen(to)
    PROVE  to \in Unvisited
<1>1. finished \in {"cross_team", "evidence_check", "arbitrate"} /\ finished \in visited
  BY DEF Debates, RouteInv, Deciding
<1>2. ~Settled(finished)
  <2>1. loops'[finished] = 1  BY LoopCounted
  <2>. QED  BY <1>1, <2>1 DEF Settled, Exhausted, MaxLoop
<1>3. to \in Offered(finished)  BY <1>2 DEF Chosen
<1>4. Mandatory = Unvisited  BY DEF Mandatory, Unvisited
<1>5. Mandatory \cap ValidNext[finished] # {}
  <2>1. Unvisited \subseteq {"cross_team", "evidence_check", "arbitrate"} \ {finished}
    BY <1>1 DEF Unvisited, Debates
  <2>2. {"cross_team", "evidence_check", "arbitrate"} \ {finished} \subseteq ValidNext[finished]
    <3>1. CASE finished = "cross_team"  BY <3>1 DEF ValidNext
    <3>2. CASE finished = "evidence_check"  BY <3>2 DEF ValidNext
    <3>3. CASE finished = "arbitrate"  BY <3>3 DEF ValidNext
    <3>. QED  BY <1>1, <3>1, <3>2, <3>3
  <2>. QED  BY <1>4, <2>1, <2>2
<1>. QED  BY <1>3, <1>4, <1>5 DEF Offered

LEMMA ProceedMoves ==
    ASSUME RouteInv, Deciding, NEW to \in StageNames \ {"clarify"}, Proceed(to)
    PROVE  /\ at' = "stage" /\ UNCHANGED <<finished, plan, conflicts, visited, rounds>>
           /\ regressions \in 0..4 /\ regressions' \in {regressions, regressions + 1}
           /\ stage' \in {to, "produce"}
           /\ regressions' = MaxTotalRegressions => stage' = "produce"
           /\ regressions' < MaxTotalRegressions => stage' = to
           /\ ~Regresses(finished, to) => stage' = to /\ regressions' = regressions
           /\ RouteTypeOK' \/ astray' \notin BOOLEAN
<1>. USE DEF Proceed, MaxTotalRegressions
<1>1. at' = "stage" /\ UNCHANGED <<finished, plan, conflicts, visited, rounds>>  OBVIOUS
<1>2. regressions \in 0..4  BY DEF RouteInv, RouteTypeOK, Deciding
<1>3. regressions' \in {regressions, regressions + 1} /\ stage' \in {to, "produce"}  OBVIOUS
<1>4. ~Regresses(finished, to) => stage' = to /\ regressions' = regressions  BY <1>2
<1>5. regressions' = 5 => stage' = "produce"  BY <1>2
<1>6. regressions' < 5 => stage' = to  BY <1>2
<1>7. RouteTypeOK' \/ astray' \notin BOOLEAN
  BY <1>1, <1>2, <1>3, LoopCounted, Names DEF RouteInv, RouteTypeOK
<1>. QED  BY <1>1, <1>2, <1>3, <1>4, <1>5, <1>6, <1>7

LEMMA ChosenKeeps ==
    ASSUME RouteInv, Deciding, ~astray, NEW to \in StageNames \ {"clarify"}, Chosen(to), Proceed(to)
    PROVE  (Opening \/ Underway)'
<1>1. /\ at = "route" /\ at' = "stage" /\ plan.dynamic /\ stage # "clarify" /\ plan.template \in Templates
      /\ UNCHANGED <<finished, plan, conflicts, visited, rounds>>
      /\ finished \in visited
  BY ProceedMoves DEF Deciding, RouteInv, RouteTypeOK
<1>2. CASE Opening /\ finished = "clarify"
  <2>1. to = "intra_team" /\ stage' = to /\ regressions' = regressions
    BY <1>1, <1>2, OpeningFromClarify, StepsOn, ProceedMoves
  <2>2. \A s \in Debates : loops'[s] = loops[s]  BY <1>2, LoopCounted, DebatesAreStages
  <2>. QED  BY <1>1, <1>2, <2>1, <2>2 DEF Opening
<1>3. CASE Opening /\ finished = "intra_team"
  <2>1. stage' = to /\ regressions' = regressions  BY <1>1, <1>3, StepsOn, ProceedMoves
  <2>2. /\ visited = {"clarify", "intra_team"} /\ ~conflicts /\ regressions = 0
        /\ \A s \in Debates : loops[s] = 0
    BY <1>1, <1>3 DEF Opening
  <2>3. plan.depth = "light" => LightWay'  BY <1>1, <1>3, <2>1, OpeningFromTeams DEF LightWay
  <2>4. plan.depth = "standard" => StandardWay'
    BY <1>1, <1>3, <2>1, <2>2, OpeningFromTeams DEF StandardWay
  <2>5. plan.depth = "deep" => DeepWay'
    <3>. SUFFICES ASSUME plan.depth = "deep" PROVE DeepWay'  OBVIOUS
    <3>1. stage' \in Unvisited'  BY <1>1, <1>3, <2>1, <2>2, OpeningFromTeams DEF Unvisited, Debates
    <3>2. \A s \in Debates : loops'[s] = IF s = "intra_team" THEN 1 ELSE 0
      BY <1>3, <2>2, LoopCounted, DebatesAreStages
    <3>3. \A s \in Debates : loops'[s] <= (IF s \in visited' THEN 1 ELSE 0)  BY <1>1, <2>2, <3>2
    <3>4. regressions' <= loops'["intra_team"] + loops'["cross_team"] + loops'["evidence_check"] + loops'["arbitrate"]
      BY <2>1, <2>2, <3>2 DEF Debates
    <3>. QED  BY <1>1, <3>1, <3>3, <3>4 DEF DeepWay
  <2>. QED  BY <1>1, <2>2, <2>3, <2>4, <2>5 DEF Underway
<1>4. CASE Underway
  <2>1. plan.depth = "light" => LightWay'  BY <1>1, <1>4 DEF Underway, LightWay
  <2>2. plan.depth = "standard" => StandardWay'
    <3>. SUFFICES ASSUME plan.depth = "standard" PROVE StandardWay'  OBVIOUS
    <3>1. InTemplate("evidence_check")' = InTemplate("evidence_check")  BY <1>1 DEF InTemplate
    <3>2. CASE ~conflicts \/ "evidence_check" \in visited \/ ~InTemplate("evidence_check")
      BY <1>1, <1>4, <3>1, <3>2 DEF Underway, StandardWay
    <3>3. CASE ~(~conflicts \/ "evidence_check" \in visited \/ ~InTemplate("evidence_check"))
      <4>1. {"intra_team", "cross_team"} \subseteq visited /\ finished = "cross_team"
        BY <1>1, <1>4, <3>3 DEF Underway, StandardWay
      <4>2. to = "evidence_check"  BY <1>1, <3>3, <4>1, EvidenceIsNext
      <4>3. stage' = "evidence_check"  BY <1>1, <4>1, <4>2, StepsOn, ProceedMoves
      <4>. QED  BY <1>1, <4>1, <4>3 DEF StandardWay
    <3>. QED  BY <3>2, <3>3
  <2>3. plan.depth = "deep" => DeepWay'
    <3>. SUFFICES ASSUME plan.depth = "deep" PROVE DeepWay'  OBVIOUS
    <3>1. CASE Unvisited = {}  BY <1>1, <3>1 DEF DeepWay, Unvisited
    <3>2. CASE Unvisited # {}
      <4>1. /\ finished \in Debates \ {"intra_team"} /\ loops[finished] = 0
            /\ \A s \in Debates : loops[s] <= (IF s \in visited THEN 1 ELSE 0)
            /\ regressions <= loops["intra_team"] + loops["cross_team"] + loops["evidence_check"] + loops["arbitrate"]
        BY <1>1, <1>4, <3>2 DEF Underway, DeepWay
      <4>2. to \in Unvisited  BY <1>4, <3>2, <4>1, MissingIsNext DEF Underway
      <4>3. \A s \in Debates : loops'[s] <= (IF s \in visited THEN 1 ELSE 0)
        BY <1>1, <4>1, LoopCounted, DebatesAreStages
      <4>4. /\ loops["intra_team"] \in Nat /\ loops["cross_team"] \in Nat
            /\ loops["evidence_check"] \in Nat /\ loops["arbitrate"] \in Nat
        BY LoopCounted, Names
      <4>5. /\ loops'["intra_team"] + loops'["cross_team"] + loops'["evidence_check"] + loops'["arbitrate"]
               = loops["intra_team"] + loops["cross_team"] + loops["evidence_check"] + loops["arbitrate"] + 1
        <5>1. \A s \in Debates : loops'[s] = IF s = finished THEN loops[s] + 1 ELSE loops[s]
          BY LoopCounted, DebatesAreStages
        <5>. QED  BY <4>1, <4>4, <5>1 DEF Debates
      <4>6. regressions' <= loops'["intra_team"] + loops'["cross_team"] + loops'["evidence_check"] + loops'["arbitrate"]
        BY <4>1, <4>4, <4>5, ProceedMoves
      <4>7. regressions' <= 3
        <5>1. \A s \in Debates : loops'[s] \in Nat /\ loops'[s] <= 1
          BY <4>3, LoopCounted, DebatesAreStages
        <5>2. loops'[to] = 0 /\ to \in Debates  BY <4>2, <4>3, <5>1 DEF Unvisited
        <5>3. /\ loops'["intra_team"] \in 0..1 /\ loops'["cross_team"] \in 0..1
              /\ loops'["evidence_check"] \in 0..1 /\ loops'["arbitrate"] \in 0..1
          BY <5>1 DEF Debates
        <5>4. regressions' \in Int  BY ProceedMoves
        <5>. QED  BY <4>6, <5>2, <5>3, <5>4 DEF Debates
      <4>8. stage' = to  BY <4>7, ProceedMoves DEF MaxTotalRegressions
      <4>. QED  BY <1>1, <4>2, <4>3, <4>6, <4>8 DEF DeepWay, Unvisited
    <3>. QED  BY <3>1, <3>2
  <2>. QED  BY <1>1, <1>4, <2>1, <2>2, <2>3 DEF Underway
<1>. QED  BY <1>1, <1>2, <1>3, <1>4 DEF RouteInv, Opening

LEMMA DecideKeeps ==
    ASSUME RouteInv, Deciding, NEW to \in StageNames \ {"clarify"}, Proceed(to),
           astray' \in BOOLEAN, ~astray' => ~astray /\ Chosen(to)
    PROVE  RouteInv'
<1>1. RouteTypeOK' /\ (regressions' = MaxTotalRegressions => stage' = "produce")  BY ProceedMoves
<1>2. /\ at' = "stage" /\ stage' # "clarify" /\ UNCHANGED plan /\ stage # "clarify" /\ plan.dynamic
  BY ProceedMoves DEF Deciding, RouteInv
<1>3. ~astray' => (Opening \/ Underway)'  BY ChosenKeeps
<1>. QED  BY <1>1, <1>2, <1>3 DEF RouteInv

\* Whatever may be chosen is a stage, and never clarify again.
LEMMA ChoicesAreStages ==
    ASSUME RouteInv, at = "route"
    PROVE  /\ SettledAs(finished) \in StageNames \ {"clarify"}
           /\ NextInTemplate(finished) \in StageNames \ {"clarify"}
           /\ Offered(finished) \subseteq StageNames \ {"clarify"}
<1>1. finished \in StageNames \ {"produce"} /\ plan.template \in Templates  BY DEF RouteInv, RouteTypeOK
<1>2. NextInTemplate(finished) \in StageNames \ {"clarify"}  BY <1>1, NextInTemplateOn
<1>3. SettledAs(finished) \in StageNames \ {"clarify"}  BY <1>2, Names DEF SettledAs
<1>4. ValidNext[finished] \subseteq StageNames \ {"clarify"}  BY <1>1, Names DEF ValidNext
<1>5. Offered(finished) \subseteq ValidNext[finished]  BY DEF Offered
<1>. QED  BY <1>2, <1>3, <1>4, <1>5

\* A meeting that starts, with whatever template and depth, satisfies RouteInv.
THEOREM RouteInitInv == RouteInit => RouteInv
<1>. SUFFICES ASSUME RouteInit PROVE RouteInv  OBVIOUS
<1>1. RouteTypeOK
  <2>1. "standard" \in Templates  BY DEF Templates, Sequence
  <2>2. plan \in [flow : {"simple", "standard", "full", "plan"}, depth : {"light", "standard", "deep"},
                  template : Templates, dynamic : BOOLEAN]
    BY <2>1 DEF RouteInit
  <2>3. loops \in [StageNames -> Nat]  BY DEF RouteInit
  <2>4. /\ stage \in StageNames /\ finished \in StageNames /\ at \in {"stage", "route", "over"}
        /\ visited \subseteq StageNames
    BY Names DEF RouteInit
  <2>5. conflicts \in BOOLEAN /\ astray \in BOOLEAN  BY DEF RouteInit
  <2>6. regressions \in 0..MaxTotalRegressions /\ rounds \in Nat  BY DEF RouteInit, MaxTotalRegressions
  <2>. QED  BY <2>2, <2>3, <2>4, <2>5, <2>6 DEF RouteTypeOK
<1>2. \A s \in Debates : loops[s] = 0  BY DebatesAreStages DEF RouteInit
<1>3. OnRoute
  <2>. DEFINE seq == Sequence["standard"]
  <2>1. Route(seq) /\ 1 \in 1..Len(seq) /\ seq[1] = "clarify"
    BY <1>1, TemplatesAreRoutes DEF Route, RouteInit, RouteTypeOK
  <2>. HIDE DEF seq
  <2>2. Position(seq, "clarify") = 1 /\ \A r : Position(seq, r) \in Int  BY <2>1, Positions DEF Route
  <2>. QED  BY <2>2 DEF OnRoute, Reached, InTemplate, RouteInit, seq
<1>4. Opening  BY <1>2 DEF Opening, RouteInit
<1>. QED  BY <1>1, <1>2, <1>3, <1>4 DEF RouteInv, RouteInit, MaxTotalRegressions

\* RouteInv is kept by every stage and every routing decision.
THEOREM RouteNextInv == RouteInv /\ [RouteStep]_routeVars => RouteInv'
<1>. SUFFICES ASSUME RouteInv, [RouteStep]_routeVars PROVE RouteInv'  OBVIOUS
<1>1. ASSUME NEW complexity \in {"simple", "standard", "full"}, NEW template \in Templates,
             RunClarify(complexity, template)
      PROVE  RouteInv'
  BY <1>1, ClarifyKeeps
<1>2. CASE RunIntraTeam  BY <1>2, PlainDebateKeeps DEF RunIntraTeam, Debates
<1>3. CASE RunEvidenceCheck  BY <1>3, PlainDebateKeeps DEF RunEvidenceCheck, Debates
<1>4. CASE RunArbitrate  BY <1>4, PlainDebateKeeps DEF RunArbitrate, Debates
<1>5. CASE RunProduce  BY <1>5, ProduceKeeps
<1>6. ASSUME NEW found \in BOOLEAN, NEW verdict \in {"pass", "supplement", "re_examine"},
             RunCrossTeam(found, verdict)
      PROVE  RouteInv'
  BY <1>6, CrossTeamKeeps
<1>7. CASE FixedRoute  BY <1>7, FixedRouteKeeps
<1>8. CASE DecidedByCode
  <2>1. Deciding /\ Proceed(SettledAs(finished)) /\ astray' = astray /\ Settled(finished)
    BY <1>8 DEF DecidedByCode
  <2>2. PICK to \in StageNames \ {"clarify"} : to = SettledAs(finished)
    BY <2>1, ChoicesAreStages DEF Deciding
  <2>. QED  BY <2>1, <2>2, DecideKeeps DEF Chosen, RouteInv, RouteTypeOK
<1>9. ASSUME NEW to \in StageNames, DecidedByModel(to) PROVE RouteInv'
  <2>1. Deciding /\ Proceed(to) /\ astray' = astray /\ ~Settled(finished) /\ to \in Offered(finished)
    BY <1>9 DEF DecidedByModel
  <2>2. to \in StageNames \ {"clarify"}  BY <2>1, ChoicesAreStages DEF Deciding
  <2>. QED  BY <2>1, <2>2, DecideKeeps DEF Chosen, RouteInv, RouteTypeOK
<1>10. CASE DecidedByDefault
  <2>1. /\ Deciding /\ Proceed(NextInTemplate(finished)) /\ ~Settled(finished)
        /\ astray' = (astray \/ NextInTemplate(finished) \notin Offered(finished))
    BY <1>10 DEF DecidedByDefault
  <2>2. PICK to \in StageNames \ {"clarify"} : to = NextInTemplate(finished)
    BY <2>1, ChoicesAreStages DEF Deciding
  <2>3. astray' \in BOOLEAN /\ (~astray' => ~astray /\ Chosen(to))
    BY <2>1, <2>2 DEF Chosen, RouteInv, RouteTypeOK
  <2>. QED  BY <2>1, <2>2, <2>3, DecideKeeps
<1>11. CASE UNCHANGED routeVars
  BY <1>11 DEF routeVars, RouteInv, RouteTypeOK, OnRoute, Reached, InTemplate, Opening, Underway,
               LightWay, StandardWay, DeepWay, Unvisited
<1>. QED  BY <1>1, <1>2, <1>3, <1>4, <1>5, <1>6, <1>7, <1>8, <1>9, <1>10, <1>11 DEF RouteStep

\* RouteInv holds all along the way of a meeting (nodes/routing.py, runner.py).
THEOREM RouteInvariant == RouteSpec => []RouteInv
<1>. QED  BY RouteInitInv, RouteNextInv, PTL DEF RouteSpec

\* Whatever templates are pinned or decomposed into, the variables of the route keep their types.
THEOREM RouteTypes == RouteSpec => []RouteTypeOK
<1>1. RouteInv => RouteTypeOK  BY DEF RouteInv
<1>. QED  BY <1>1, RouteInvariant, PTL

\* On every template, at every depth and whatever gate and model answer, nothing is produced
\* before the debates that are mandatory, unless a decision was not among those offered.
THEOREM MandatoryDebatesAreHeld == RouteSpec => []DebatesBeforeProduce
<1>1. RouteInv => DebatesBeforeProduce
  <2>. SUFFICES ASSUME RouteInv, stage = "produce", at = "stage", ~astray PROVE Required \subseteq visited
    BY DEF DebatesBeforeProduce
  <2>1. plan.template \in Templates /\ plan.dynamic \in BOOLEAN
        /\ plan.depth \in {"light", "standard", "deep"}
    BY DEF RouteInv, RouteTypeOK
  <2>2. CASE plan.dynamic
    <3>1. Underway  BY <2>2 DEF RouteInv, Opening
    <3>2. CASE plan.depth = "light"  BY <2>2, <3>1, <3>2 DEF Required, Underway, LightWay
    <3>3. CASE plan.depth = "standard"  BY <2>2, <3>1, <3>3 DEF Required, Underway, StandardWay
    <3>4. CASE plan.depth = "deep"
      BY <2>2, <3>1, <3>4, DebatesAreStages DEF Required, Underway, DeepWay, Unvisited
    <3>. QED  BY <2>1, <3>2, <3>3, <3>4
  <2>3. CASE ~plan.dynamic
    <3>. DEFINE seq == Sequence[plan.template]
    <3>1. Reached("produce")  BY <2>3 DEF RouteInv, OnRoute
    <3>2. Route(seq)  BY <2>1, TemplatesAreRoutes
    <3>. HIDE DEF seq
    <3>3. Len(seq) \in 1..Len(seq) /\ seq[Len(seq)] = "produce" /\ Len(seq) \in Int  BY <3>2 DEF Route
    <3>4. Position(seq, "produce") = Len(seq)  BY <3>2, <3>3, Positions
    <3>5. ASSUME NEW r, r # "produce", Position(seq, r) > 0 PROVE Position(seq, r) < Position(seq, "produce")
      <4>1. Position(seq, r) \in 0..Len(seq) /\ seq[Position(seq, r)] = r  BY <3>2, <3>5, Positions
      <4>2. Position(seq, r) # Len(seq)  BY <3>3, <3>5, <4>1
      <4>. QED  BY <3>3, <3>4, <4>1, <4>2
    <3>. QED  BY <2>3, <3>1, <3>5 DEF Required, Reached, InTemplate, seq
  <2>. QED  BY <2>1, <2>2, <2>3
<1>. QED  BY <1>1, RouteInvariant, PTL

-----------------------------------------------------------------------------
(* Each step of the way takes away from what is left of it.                *)

Ordinal == [clarify |-> 1, intra_team |-> 2, cross_team |-> 3, evidence_check |-> 4, arbitrate |-> 5, produce |-> 6]

Left(limit, n) == IF n < limit THEN limit - n ELSE 0

\* How often a decision that is not settled, or the gate, may still send the meeting back.
LoopsLeft ==
    Left(MaxLoop("clarify"), loops["clarify"]) + Left(MaxLoop("intra_team"), loops["intra_team"])
    + Left(MaxLoop("cross_team"), loops["cross_team"])
    + Left(MaxLoop("evidence_check"), loops["evidence_check"]) + Left(MaxLoop("arbitrate"), loops["arbitrate"])
GateLeft == Left(MaxGateRounds, rounds)

\* The steps to the end along the order of the stages, at two for each stage.
StepsLeft ==
    CASE at = "over"  -> 0
      [] at = "stage" -> 13 - 2 * Ordinal[stage]
      [] at = "route" /\ (plan.dynamic \/ stage = finished) -> 12 - 2 * Ordinal[finished]
      [] OTHER        -> 14 - 2 * Ordinal[stage]

WayLeft == 14 * (LoopsLeft + GateLeft) + StepsLeft

Rising(seq) == \A j, k \in 1..Len(seq) : j < k => Ordinal[seq[j]] < Ordinal[seq[k]]

LEMMA OrderRises == Rising(StageOrder)
  BY DEF Rising, StageOrder, Ordinal

LEMMA TemplatesRise == ASSUME NEW t \in Templates PROVE Rising(Sequence[t])
<1>1. t \in {"standard", "design", "research", "analysis", "feasibility"}  BY DEF Templates, Sequence
<1>2. CASE t = "standard"  BY <1>2, OrderRises DEF Sequence
<1>3. CASE t = "design"  BY <1>3 DEF Sequence, Rising, Ordinal
<1>4. CASE t = "research"  BY <1>4 DEF Sequence, Rising, Ordinal
<1>5. CASE t = "analysis"  BY <1>5 DEF Sequence, Rising, Ordinal
<1>6. CASE t = "feasibility"  BY <1>6 DEF Sequence, Rising, Ordinal
<1>. QED  BY <1>1, <1>2, <1>3, <1>4, <1>5, <1>6

LEMMA Ordinals == \A s \in StageNames : /\ Ordinal[s] \in 1..6
                                        /\ Ordinal[s] = 6 <=> s = "produce"
                                        /\ Ordinal[s] = 1 <=> s = "clarify"
  BY Names DEF Ordinal

\* What comes next on a route is further on in the order of the stages.
LEMMA NextRises ==
    ASSUME NEW seq, Route(seq), Rising(seq), NEW s, Position(seq, s) > 0, s # "produce", NEW flow
    PROVE  Ordinal[s] < Ordinal[NextOf(seq, s, flow)]
<1>. PICK nxt : nxt = NextOf(seq, s, flow)  OBVIOUS
<1>1. Position(seq, nxt) > Position(seq, s)  BY NextOnRoute
<1>2. /\ Position(seq, s) \in 1..Len(seq) /\ seq[Position(seq, s)] = s
      /\ Position(seq, nxt) \in 1..Len(seq) /\ seq[Position(seq, nxt)] = nxt
  <2>1. /\ Position(seq, s) \in 0..Len(seq) /\ Position(seq, nxt) \in 0..Len(seq)
        /\ Len(seq) \in Nat
    BY Positions DEF Route
  <2>. QED  BY <1>1, <2>1, Positions
<1>. QED  BY <1>1, <1>2 DEF Rising

LEMMA NextInTemplateRises ==
    ASSUME plan.template \in Templates, NEW s \in StageNames \ {"produce"}
    PROVE  Ordinal[s] < Ordinal[NextInTemplate(s)]
<1>1. CASE Position(Sequence[plan.template], s) > 0
  BY <1>1, TemplatesAreRoutes, TemplatesRise, NextRises DEF NextInTemplate
<1>2. CASE ~(Position(Sequence[plan.template], s) > 0)
  <2>1. Position(StageOrder, s) > 0  BY OnTheOrder
  <2>. QED  BY <1>2, <2>1, OrderIsRoute, OrderRises, NextRises DEF NextInTemplate
<1>. QED  BY <1>1, <1>2

LEMMA LeftIsNatural == ASSUME NEW limit \in Nat, NEW n \in Nat PROVE Left(limit, n) \in Nat
  BY DEF Left

LEMMA Limits == (\A s : MaxLoop(s) \in Nat) /\ MaxGateRounds \in Nat
  BY DEF MaxLoop, MaxGateRounds

LEMMA StepsBound == ASSUME RouteInv PROVE StepsLeft \in 0..12 /\ (at # "over" => StepsLeft > 0)
<1>1. /\ stage \in StageNames /\ finished \in StageNames /\ at \in {"stage", "route", "over"}
      /\ at = "route" => finished # "produce" /\ stage # "clarify"
  BY DEF RouteInv, RouteTypeOK
<1>2. /\ Ordinal[stage] \in 1..6 /\ Ordinal[finished] \in 1..6
      /\ at = "route" => Ordinal[finished] # 6 /\ Ordinal[stage] # 1
  BY <1>1, Ordinals
<1>. QED  BY <1>1, <1>2 DEF StepsLeft

LEMMA ReturnsBound == ASSUME RouteInv PROVE LoopsLeft \in Nat /\ GateLeft \in Nat
<1>1. \A s \in StageNames : loops[s] \in Nat  BY DEF RouteInv, RouteTypeOK
<1>2. ASSUME NEW s \in StageNames PROVE Left(MaxLoop(s), loops[s]) \in Nat
  <2>1. MaxLoop(s) \in Nat /\ loops[s] \in Nat  BY <1>1, Limits
  <2>. QED  BY <2>1, LeftIsNatural
<1>3. Left(MaxGateRounds, rounds) \in Nat  BY Limits, LeftIsNatural DEF RouteInv, RouteTypeOK
<1>. QED  BY <1>2, <1>3, Names DEF LoopsLeft, GateLeft

LEMMA WayLeftIsNatural == RouteInv => WayLeft \in Nat
  BY StepsBound, ReturnsBound DEF WayLeft

\* A return that is used up outweighs all steps of the order.
LEMMA Outweighs ==
    ASSUME NEW l \in Int, NEW g \in Int, NEW s \in Int, NEW l1 \in Int, NEW g1 \in Int, NEW s1 \in Int,
           l1 <= l, g1 <= g, s1 < s \/ (g1 < g /\ s1 < s + 14)
    PROVE  14 * (l1 + g1) + s1 < 14 * (l + g) + s
  OBVIOUS

LEMMA LessIsLeft ==
    ASSUME LoopsLeft \in Int, LoopsLeft' \in Int, GateLeft \in Int, GateLeft' \in Int,
           StepsLeft \in Int, StepsLeft' \in Int, LoopsLeft' <= LoopsLeft, GateLeft' <= GateLeft,
           StepsLeft' < StepsLeft \/ (GateLeft' < GateLeft /\ StepsLeft' < StepsLeft + 14)
    PROVE  WayLeft' < WayLeft
<1>1. PICK l1 \in Int, g1 \in Int, s1 \in Int : l1 = LoopsLeft' /\ g1 = GateLeft' /\ s1 = StepsLeft'
  OBVIOUS
<1>2. 14 * (l1 + g1) + s1 < 14 * (LoopsLeft + GateLeft) + StepsLeft  BY <1>1, Outweighs
<1>. QED  BY <1>1, <1>2 DEF WayLeft

\* A stage that is not the last one has run.
LEMMA RanTakes ==
    ASSUME RouteInv, NEW s \in StageNames \ {"produce"}, NEW nxt \in StageNames \ {"clarify"}, Ran(s, nxt),
           plan'.dynamic = plan.dynamic, UNCHANGED loops,
           \/ rounds' = rounds /\ (nxt = s \/ Ordinal[nxt] > Ordinal[s])
           \/ rounds' = rounds + 1 /\ (nxt = s \/ Ordinal[nxt] > Ordinal[s] \/ rounds < MaxGateRounds)
    PROVE  WayLeft' < WayLeft
<1>1. /\ at = "stage" /\ stage = s /\ at' = "route" /\ stage' = nxt /\ finished' = s
  BY DEF Ran
<1>2. Ordinal[s] \in 1..5 /\ Ordinal[nxt] \in 2..6  BY Ordinals
<1>3. /\ StepsLeft = 13 - 2 * Ordinal[s]
      /\ StepsLeft' = IF plan.dynamic \/ nxt = s THEN 12 - 2 * Ordinal[s] ELSE 14 - 2 * Ordinal[nxt]
  BY <1>1 DEF StepsLeft
<1>4. LoopsLeft' = LoopsLeft /\ LoopsLeft \in Nat  BY ReturnsBound DEF LoopsLeft
<1>5. /\ GateLeft \in Int /\ GateLeft' \in Int /\ GateLeft' <= GateLeft
      /\ (rounds' = rounds + 1 /\ rounds < MaxGateRounds) => GateLeft' < GateLeft
  BY DEF GateLeft, Left, MaxGateRounds, RouteInv, RouteTypeOK
<1>6. CASE nxt = s \/ Ordinal[nxt] > Ordinal[s]
  <2>1. StepsLeft' < StepsLeft /\ StepsLeft \in Int /\ StepsLeft' \in Int  BY <1>2, <1>3, <1>6
  <2>2. GateLeft \in Int /\ GateLeft' \in Int /\ GateLeft' <= GateLeft  BY <1>5
  <2>. QED  BY <1>4, <2>1, <2>2, LessIsLeft
<1>7. CASE rounds' = rounds + 1 /\ rounds < MaxGateRounds
  <2>1. StepsLeft' < StepsLeft + 14 /\ StepsLeft \in Int /\ StepsLeft' \in Int  BY <1>2, <1>3
  <2>2. GateLeft \in Int /\ GateLeft' \in Int /\ GateLeft' < GateLeft  BY <1>5, <1>7
  <2>. QED  BY <1>4, <2>1, <2>2, LessIsLeft
<1>. QED  BY <1>6, <1>7

LEMMA FixedRouteTakes == ASSUME RouteInv, FixedRoute PROVE WayLeft' < WayLeft
<1>1. /\ at = "route" /\ at' = "stage" /\ ~plan.dynamic /\ UNCHANGED <<finished, plan, loops, rounds>>
      /\ stage' = IF stage = finished THEN NextStage(stage, plan.flow) ELSE stage
  BY DEF FixedRoute
<1>2. stage \in StageNames /\ finished \in StageNames \ {"produce"}  BY <1>1 DEF RouteInv, RouteTypeOK
<1>3. CASE stage = finished
  <2>1. Position(StageOrder, stage) > 0  BY <1>2, OnTheOrder
  <2>2. PICK nxt : nxt = NextStage(stage, plan.flow)  OBVIOUS
  <2>3. Ordinal[stage] < Ordinal[nxt] /\ nxt \in StageNames
    BY <1>2, <1>3, <2>1, <2>2, OrderIsRoute, OrderRises, NextRises, NextOnRoute DEF NextStage
  <2>4. StepsLeft = 12 - 2 * Ordinal[stage] /\ StepsLeft' = 13 - 2 * Ordinal[nxt]
    BY <1>1, <1>3, <2>2 DEF StepsLeft
  <2>5. Ordinal[stage] \in Int /\ Ordinal[nxt] \in Int  BY <1>2, <2>3, Ordinals
  <2>6. LoopsLeft' = LoopsLeft /\ GateLeft' = GateLeft /\ LoopsLeft \in Nat /\ GateLeft \in Nat
    BY <1>1, ReturnsBound DEF LoopsLeft, GateLeft
  <2>. QED  BY <2>3, <2>4, <2>5, <2>6 DEF WayLeft
<1>4. CASE stage # finished
  <2>1. StepsLeft = 14 - 2 * Ordinal[stage] /\ StepsLeft' = 13 - 2 * Ordinal[stage]
    BY <1>1, <1>4 DEF StepsLeft
  <2>2. Ordinal[stage] \in Int  BY <1>2, Ordinals
  <2>3. LoopsLeft' = LoopsLeft /\ GateLeft' = GateLeft /\ LoopsLeft \in Nat /\ GateLeft \in Nat
    BY <1>1, ReturnsBound DEF LoopsLeft, GateLeft
  <2>. QED  BY <2>1, <2>2, <2>3 DEF WayLeft
<1>. QED  BY <1>3, <1>4

\* A decision uses up a loop of its stage, or that has none left and the meeting goes on.
LEMMA DecisionTakes ==
    ASSUME RouteInv, Deciding, NEW to \in StageNames \ {"clarify"}, Proceed(to),
           Exhausted(finished) => to = NextInTemplate(finished) \/ to = "produce"
    PROVE  WayLeft' < WayLeft
<1>1. /\ at = "route" /\ plan.dynamic /\ at' = "stage" /\ UNCHANGED <<finished, plan, rounds>>
      /\ stage' \in {to, "produce"} /\ finished \in StageNames \ {"produce"} /\ plan.template \in Templates
  BY ProceedMoves DEF Deciding, RouteInv, RouteTypeOK
<1>2. PICK nxt \in StageNames : nxt = stage'  BY <1>1, Names
<1>3. Ordinal[finished] \in 1..5 /\ Ordinal[nxt] \in 1..6  BY <1>1, Ordinals
<1>4. StepsLeft = 12 - 2 * Ordinal[finished] /\ StepsLeft' = 13 - 2 * Ordinal[nxt]
  BY <1>1, <1>2 DEF StepsLeft
<1>5. GateLeft' = GateLeft /\ GateLeft \in Nat /\ LoopsLeft \in Nat  BY <1>1, ReturnsBound DEF GateLeft
<1>6. /\ LoopsLeft' \in Int /\ LoopsLeft' <= LoopsLeft
      /\ ~Exhausted(finished) => LoopsLeft' < LoopsLeft
  <2>1. \A s \in StageNames : /\ loops[s] \in Nat /\ loops'[s] \in Nat
                               /\ loops'[s] = IF s = finished THEN loops[s] + 1 ELSE loops[s]
    BY LoopCounted
  <2>2. ASSUME NEW s \in StageNames
        PROVE  /\ Left(MaxLoop(s), loops[s]) \in Nat /\ Left(MaxLoop(s), loops'[s]) \in Nat
               /\ Left(MaxLoop(s), loops'[s]) <= Left(MaxLoop(s), loops[s])
               /\ s = finished /\ ~Exhausted(s) => Left(MaxLoop(s), loops'[s]) < Left(MaxLoop(s), loops[s])
    <3>1. MaxLoop(s) \in Nat /\ loops[s] \in Nat /\ loops'[s] \in Nat  BY <2>1, Limits
    <3>2. loops'[s] = loops[s] \/ loops'[s] = loops[s] + 1  BY <2>1
    <3>3. s = finished => loops'[s] = loops[s] + 1  BY <2>1
    <3>. QED  BY <3>1, <3>2, <3>3 DEF Left, Exhausted
  <2>3. finished \in {"clarify", "intra_team", "cross_team", "evidence_check", "arbitrate"}  BY <1>1, Names
  <2>. QED  BY <2>2, <2>3, Names DEF LoopsLeft
<1>7. CASE Exhausted(finished)
  <2>1. Ordinal[nxt] > Ordinal[finished]
    BY <1>1, <1>2, <1>3, <1>7, NextInTemplateRises, Ordinals
  <2>. QED  BY <1>3, <1>4, <1>5, <1>6, <2>1 DEF WayLeft
<1>8. CASE ~Exhausted(finished)  BY <1>3, <1>4, <1>5, <1>6, <1>8 DEF WayLeft
<1>. QED  BY <1>7, <1>8

\* Each step of a meeting takes away from what is left of its way.
LEMMA StepTakes == ASSUME RouteInv, RouteStep PROVE WayLeft' < WayLeft
<1>1. plan.template \in Templates  BY DEF RouteInv, RouteTypeOK
<1>2. ASSUME NEW complexity \in {"simple", "standard", "full"}, NEW template \in Templates,
             RunClarify(complexity, template)
      PROVE  WayLeft' < WayLeft
  <2>1. Ran("clarify", "intra_team") /\ UNCHANGED <<loops, rounds>> /\ plan'.dynamic = plan.dynamic
    BY <1>2, TemplatesAreRoutes, FromClarify DEF RunClarify, RouteInv, RouteTypeOK
  <2>. QED  BY <2>1, RanTakes, Names DEF Ordinal
<1>3. ASSUME NEW s \in {"intra_team", "evidence_check", "arbitrate"}, Ran(s, NextInTemplate(s)),
             UNCHANGED <<plan, loops, rounds>>
      PROVE  WayLeft' < WayLeft
  <2>1. PICK nxt : nxt = NextInTemplate(s)  OBVIOUS
  <2>2. s \in StageNames \ {"produce"}  BY Names
  <2>3. nxt \in StageNames \ {"clarify"} /\ Ordinal[s] < Ordinal[nxt]
    BY <1>1, <2>1, <2>2, NextInTemplateOn, NextInTemplateRises
  <2>4. Ordinal[s] \in Int /\ Ordinal[nxt] \in Int  BY <2>2, <2>3, Ordinals
  <2>. QED  BY <1>3, <2>1, <2>2, <2>3, <2>4, RanTakes
<1>4. ASSUME NEW found \in BOOLEAN, NEW verdict \in {"pass", "supplement", "re_examine"},
             RunCrossTeam(found, verdict)
      PROVE  WayLeft' < WayLeft
  <2>. DEFINE along == NextInTemplate("cross_team")
              past  == NextInTemplate("evidence_check")
  <2>1. PICK nxt : nxt = GateSends(found, verdict)  OBVIOUS
  <2>2. Ran("cross_team", nxt) /\ rounds' = rounds + 1 /\ UNCHANGED <<plan, loops>>
    BY <1>4, <2>1 DEF RunCrossTeam
  <2>3. /\ along \in StageNames \ {"clarify"} /\ Ordinal[along] > 3
        /\ past \in StageNames \ {"clarify"} /\ Ordinal[past] > 4
    <3>1. "cross_team" \in StageNames \ {"produce"} /\ "evidence_check" \in StageNames \ {"produce"}  BY Names
    <3>2. /\ along \in StageNames \ {"clarify"} /\ past \in StageNames \ {"clarify"}
          /\ Ordinal["cross_team"] < Ordinal[along] /\ Ordinal["evidence_check"] < Ordinal[past]
      BY <1>1, <3>1, NextInTemplateOn, NextInTemplateRises
    <3>. HIDE DEF along, past
    <3>3. Ordinal["cross_team"] = 3 /\ Ordinal["evidence_check"] = 4  BY DEF Ordinal
    <3>4. Ordinal[along] \in Int /\ Ordinal[past] \in Int  BY <3>2, Ordinals
    <3>. QED  BY <3>2, <3>3, <3>4
  <2>4. \/ nxt = "intra_team" /\ rounds < MaxGateRounds
        \/ nxt = "cross_team" \/ nxt = along \/ nxt = past
    BY <2>1 DEF GateSends
  <2>. HIDE DEF along, past
  <2>5. nxt \in StageNames \ {"clarify"}  BY <2>3, <2>4, Names
  <2>6. nxt = "cross_team" \/ Ordinal[nxt] > Ordinal["cross_team"] \/ rounds < MaxGateRounds
    <3>1. Ordinal["cross_team"] = 3 /\ Ordinal[along] \in Int /\ Ordinal[past] \in Int
      BY <2>3, Ordinals DEF Ordinal
    <3>. QED  BY <2>3, <2>4, <3>1
  <2>. QED  BY <2>2, <2>5, <2>6, RanTakes, Names
<1>5. CASE RunProduce
  <2>1. /\ at = "stage" /\ stage = "produce" /\ at' = "over" /\ UNCHANGED <<loops, rounds>>
    BY <1>5 DEF RunProduce, Ran
  <2>2. StepsLeft = 1 /\ StepsLeft' = 0  BY <2>1 DEF StepsLeft, Ordinal
  <2>3. LoopsLeft' = LoopsLeft /\ GateLeft' = GateLeft /\ LoopsLeft \in Nat /\ GateLeft \in Nat
    BY <2>1, ReturnsBound DEF LoopsLeft, GateLeft
  <2>. QED  BY <2>2, <2>3 DEF WayLeft
<1>6. CASE FixedRoute  BY <1>6, FixedRouteTakes
<1>7. ASSUME NEW to, Deciding, Proceed(to), to \in {SettledAs(finished), NextInTemplate(finished)} \cup Offered(finished),
             Exhausted(finished) => to = SettledAs(finished)
      PROVE  WayLeft' < WayLeft
  <2>1. to \in StageNames \ {"clarify"}  BY <1>7, ChoicesAreStages DEF Deciding
  <2>2. Exhausted(finished) => to = NextInTemplate(finished) \/ to = "produce"  BY <1>7 DEF SettledAs
  <2>. QED  BY <1>7, <2>1, <2>2, DecisionTakes
<1>8. CASE DecidedByCode
  <2>1. Deciding /\ Proceed(SettledAs(finished))  BY <1>8 DEF DecidedByCode
  <2>. QED  BY <1>7, <2>1
<1>9. ASSUME NEW to \in StageNames, DecidedByModel(to) PROVE WayLeft' < WayLeft
  <2>1. Deciding /\ Proceed(to) /\ to \in Offered(finished) /\ ~Exhausted(finished)
    BY <1>9 DEF DecidedByModel, Settled
  <2>. QED  BY <1>7, <2>1
<1>10. CASE DecidedByDefault
  <2>1. Deciding /\ Proceed(NextInTemplate(finished)) /\ ~Exhausted(finished)
    BY <1>10 DEF DecidedByDefault, Settled
  <2>. QED  BY <1>7, <2>1
<1>. QED
  BY <1>2, <1>3, <1>4, <1>5, <1>6, <1>8, <1>9, <1>10 DEF RouteStep, RunIntraTeam, RunEvidenceCheck, RunArbitrate

\* However the gate and the model decide, the way of a meeting has an end: what is left of it
\* is a number, and each step makes it smaller.
THEOREM EveryStepBringsTheEnd ==
    RouteSpec => [](WayLeft \in Nat) /\ [][WayLeft' < WayLeft]_routeVars
<1>1. RouteInv /\ [RouteStep]_routeVars => [WayLeft' < WayLeft]_routeVars  BY StepTakes
<1>. QED  BY <1>1, RouteInvariant, WayLeftIsNatural, PTL DEF RouteSpec

-----------------------------------------------------------------------------
(* Loans of agents (BorrowDesk).                                           *)

Row == [role : Lendable, spoken : BOOLEAN]

\* A list of loans names nobody twice and only who is on record.
ListOK(list, record) ==
    /\ list \in Seq(Row)
    /\ \A j, k \in DOMAIN list : list[j].role = list[k].role => j = k
    /\ \A n \in DOMAIN list : list[n].role \in record

\* The list may be out only during a save; what was lent meanwhile is nobody on the list.
BorrowInv ==
    /\ desk \in {"stage", "assessing", "speaking", "saving"}
    /\ offered \subseteq Borrowable /\ charter \subseteq Lendable
    /\ auto \in 0..AutoBorrowThreshold /\ asides \in 0..MaxAsides
    /\ pending \in Borrowable \cup {NoRole} /\ frozen \in BOOLEAN
    /\ ListOK(loans, charter) /\ Len(loans) <= LoanLimit + 1
    /\ ListOK(shelf, charter) /\ Len(shelf) <= LoanLimit + 1
    /\ \A j \in DOMAIN loans, k \in DOMAIN shelf : loans[j].role # shelf[k].role
    /\ desk # "saving" => shelf = <<>>
    /\ desk = "assessing" => Len(loans) <= LoanLimit

-----------------------------------------------------------------------------
LEMMA EmptyList == ASSUME NEW record
                   PROVE  /\ <<>> \in Seq(Row) /\ Len(<<>>) = 0 /\ DOMAIN <<>> = {}
                          /\ ListOK(<<>>, record)
<1>1. <<>> \in Seq(Row) /\ Len(<<>>) = 0  OBVIOUS
<1>2. DOMAIN <<>> = {}  BY <1>1
<1>. QED  BY <1>1, <1>2 DEF ListOK

LEMMA LoanRow == ASSUME NEW r \in Lendable PROVE Loan(r) \in Row /\ Loan(r).role = r /\ ~Loan(r).spoken
  BY DEF Loan, Row

\* A role that is not on record, lent.
LEMMA AppendKeeps ==
    ASSUME NEW list, NEW record, ListOK(list, record), NEW r \in Lendable, r \notin record
    PROVE  /\ ListOK(Append(list, Loan(r)), record \cup {r})
           /\ Len(Append(list, Loan(r))) = Len(list) + 1 /\ Len(list) \in Nat
           /\ \A n \in DOMAIN Append(list, Loan(r)) :
                 \/ n \in DOMAIN list /\ Append(list, Loan(r))[n] = list[n]
                 \/ Append(list, Loan(r))[n] = Loan(r)
<1>. DEFINE longer == Append(list, Loan(r))
<1>1. list \in Seq(Row) /\ Len(list) \in Nat /\ DOMAIN list = 1..Len(list)  BY DEF ListOK
<1>2. Loan(r) \in Row /\ Loan(r).role = r  BY LoanRow
<1>3. longer \in Seq(Row) /\ Len(longer) = Len(list) + 1  BY <1>1, <1>2
<1>4. DOMAIN longer = 1..(Len(list) + 1)  BY <1>3, <1>1
<1>5. \A n \in 1..Len(list) : longer[n] = list[n]  BY <1>1, <1>2
<1>6. longer[Len(list) + 1] = Loan(r)  BY <1>1, <1>2
<1>7. \A n \in DOMAIN longer : n \in DOMAIN list \/ n = Len(list) + 1  BY <1>1, <1>4
<1>. HIDE DEF longer
<1>8. \A n \in DOMAIN longer : \/ n \in DOMAIN list /\ longer[n] = list[n]
                               \/ n = Len(list) + 1 /\ longer[n] = Loan(r)
  BY <1>1, <1>5, <1>6, <1>7
<1>9. \A n \in DOMAIN list : list[n].role # r  BY DEF ListOK
<1>10. \A n \in DOMAIN longer : longer[n].role \in record \cup {r}  BY <1>2, <1>8 DEF ListOK
<1>11. ASSUME NEW j \in DOMAIN longer, NEW k \in DOMAIN longer, longer[j].role = longer[k].role
       PROVE  j = k
  BY <1>2, <1>8, <1>9, <1>11 DEF ListOK
<1>12. ListOK(longer, record \cup {r})  BY <1>3, <1>10, <1>11 DEF ListOK
<1>. QED  BY <1>1, <1>3, <1>8, <1>12 DEF longer

LEMMA ListStays == ASSUME NEW list, NEW record, NEW r, ListOK(list, record)
                   PROVE  ListOK(list, record \cup {r})
  BY DEF ListOK

\* A loan is granted, by the runner or by a signal, and everything keeps its place.
LEMMA LentKeeps ==
    ASSUME BorrowInv, NEW r \in Lendable, r \notin charter, Len(loans) <= LoanLimit,
           charter' = charter \cup {r}, loans' = Append(loans, Loan(r)), UNCHANGED shelf
    PROVE  /\ charter' \subseteq Lendable
           /\ ListOK(loans', charter') /\ ListOK(shelf', charter')
           /\ Len(loans') = Len(loans) + 1 /\ Len(loans') <= LoanLimit + 1
           /\ \A j \in DOMAIN loans', k \in DOMAIN shelf' : loans'[j].role # shelf'[k].role
<1>1. ListOK(loans', charter') /\ Len(loans') = Len(loans) + 1 /\ Len(loans) \in Nat
  BY AppendKeeps DEF BorrowInv
<1>2. ListOK(shelf', charter')  BY ListStays DEF BorrowInv
<1>3. ASSUME NEW j \in DOMAIN loans', NEW k \in DOMAIN shelf' PROVE loans'[j].role # shelf'[k].role
  <2>1. shelf'[k].role \in charter  BY DEF BorrowInv, ListOK
  <2>2. CASE j \in DOMAIN loans /\ loans'[j] = loans[j]  BY <2>2 DEF BorrowInv
  <2>3. CASE loans'[j] = Loan(r)  BY <2>1, <2>3, LoanRow
  <2>. QED  BY <2>2, <2>3, AppendKeeps DEF BorrowInv
<1>. QED  BY <1>1, <1>2, <1>3 DEF BorrowInv, LoanLimit

\* A desk without requests satisfies BorrowInv.
THEOREM BorrowInitInv == BorrowInit => BorrowInv
<1>. SUFFICES ASSUME BorrowInit PROVE BorrowInv  OBVIOUS
<1>0. /\ desk = "stage" /\ offered \subseteq Borrowable /\ shelf = <<>>
      /\ pending \in Borrowable \cup {NoRole} /\ frozen \in BOOLEAN
      /\ asides \in 0..MaxAsides
      /\ ListOK(shelf, charter) /\ Len(shelf) <= LoanLimit + 1 /\ DOMAIN shelf = {}
  <2>1. ListOK(shelf, charter) /\ Len(shelf) = 0 /\ DOMAIN shelf = {}  BY EmptyList DEF BorrowInit
  <2>2. Len(shelf) <= LoanLimit + 1  BY <2>1 DEF LoanLimit
  <2>3. asides \in 0..MaxAsides  BY AsidesAssumption DEF BorrowInit
  <2>. QED  BY <2>1, <2>2, <2>3 DEF BorrowInit
<1>1. CASE charter = {} /\ loans = <<>> /\ auto = 0
  <2>1. ListOK(loans, charter) /\ Len(loans) = 0 /\ DOMAIN loans = {}  BY <1>1, EmptyList
  <2>2. charter \subseteq Lendable /\ auto \in 0..AutoBorrowThreshold  BY <1>1 DEF AutoBorrowThreshold
  <2>3. Len(loans) <= LoanLimit + 1  BY <2>1 DEF LoanLimit
  <2>. QED  BY <1>0, <2>1, <2>2, <2>3 DEF BorrowInv
<1>2. ASSUME NEW r \in Borrowable, NEW s \in Borrowable, NEW t \in Borrowable,
             charter = {r, s, t}, auto = AutoBorrowThreshold, loans = <<[role |-> r, spoken |-> TRUE]>>
      PROVE  BorrowInv
  <2>1. [role |-> r, spoken |-> TRUE] \in Row  BY DEF Row, Lendable
  <2>2. loans \in Seq(Row) /\ Len(loans) = 1 /\ DOMAIN loans = {1} /\ loans[1].role = r
    BY <1>2, <2>1
  <2>3. ListOK(loans, charter)  BY <1>2, <2>2 DEF ListOK
  <2>4. charter \subseteq Lendable /\ auto \in 0..AutoBorrowThreshold
    BY <1>2 DEF Lendable, AutoBorrowThreshold
  <2>5. Len(loans) <= LoanLimit + 1  BY <2>2 DEF LoanLimit
  <2>. QED  BY <1>0, <2>2, <2>3, <2>4, <2>5 DEF BorrowInv
<1>. QED  BY <1>1, <1>2 DEF BorrowInit

-----------------------------------------------------------------------------
LEMMA AssessorKeeps == ASSUME BorrowInv, NEW r \in Borrowable, AssessorWants(r) PROVE BorrowInv'
<1>. USE DEF AssessorWants
<1>1. CASE auto < AutoBorrowThreshold
  <2>1. /\ charter' = charter \cup {r} /\ loans' = Append(loans, Loan(r)) /\ auto' = auto + 1
        /\ UNCHANGED <<pending, offered, shelf, asides, frozen>> /\ desk' = "speaking" /\ desk = "assessing"
        /\ r \notin charter
    BY <1>1
  <2>2. r \in Lendable /\ Len(loans) <= LoanLimit  BY <2>1 DEF BorrowInv, Lendable
  <2>3. auto' \in 0..AutoBorrowThreshold  BY <1>1, <2>1 DEF BorrowInv, AutoBorrowThreshold
  <2>. QED  BY <2>1, <2>2, <2>3, LentKeeps DEF BorrowInv
<1>2. CASE ~(auto < AutoBorrowThreshold)  BY <1>2 DEF BorrowInv
<1>. QED  BY <1>1, <1>2

LEMMA GrantKeeps ==
    ASSUME BorrowInv, NEW r \in Lendable, Grant(r), UNCHANGED <<desk, offered, shelf, auto, asides>>,
           pending' \in {pending, NoRole}, frozen' = frozen
    PROVE  BorrowInv'
<1>1. CASE r \in charter \/ Len(loans) >= LoanLimit  BY <1>1 DEF Grant, BorrowInv
<1>2. CASE ~(r \in charter \/ Len(loans) >= LoanLimit)
  <2>1. r \notin charter /\ charter' = charter \cup {r} /\ loans' = Append(loans, Loan(r))
    BY <1>2 DEF Grant
  <2>2. Len(loans) \in Nat  BY DEF BorrowInv, ListOK
  <2>3. Len(loans) + 1 <= LoanLimit  BY <1>2, <2>2 DEF LoanLimit
  <2>4. /\ charter' \subseteq Lendable /\ ListOK(loans', charter') /\ ListOK(shelf', charter')
        /\ Len(loans') = Len(loans) + 1
        /\ \A j \in DOMAIN loans', k \in DOMAIN shelf' : loans'[j].role # shelf'[k].role
    <3>1. Len(loans) <= LoanLimit  BY <2>2, <2>3 DEF LoanLimit
    <3>. QED  BY <2>1, <3>1, LentKeeps
  <2>5. Len(loans') <= LoanLimit  BY <2>3, <2>4
  <2>6. Len(loans') <= LoanLimit + 1  BY <2>2, <2>3, <2>4 DEF LoanLimit
  <2>7. pending' \in Borrowable \cup {NoRole}  BY DEF BorrowInv
  <2>8. shelf' = shelf /\ Len(shelf) <= LoanLimit + 1  BY DEF BorrowInv
  <2>. HIDE DEF Grant
  <2>. QED  BY <2>4, <2>5, <2>6, <2>7, <2>8 DEF BorrowInv
<1>. QED  BY <1>1, <1>2

LEMMA SpeaksKeeps == ASSUME BorrowInv, BorrowedSpeaks PROVE BorrowInv'
<1>1. PICK n \in DOMAIN loans : loans' = [loans EXCEPT ![n].spoken = TRUE]
  <2>. DEFINE n == CHOOSE k \in Silent : \A j \in Silent : k <= j
  <2>1. Silent # {} /\ Silent \subseteq 1..Len(loans) /\ Len(loans) \in Nat
    BY DEF BorrowedSpeaks, Silent, BorrowInv, ListOK
  <2>2. Len(loans) <= 3  BY DEF BorrowInv, LoanLimit
  <2>3. \E k \in Silent : \A j \in Silent : k <= j
    <3>1. CASE 1 \in Silent  BY <3>1, <2>1
    <3>2. CASE 1 \notin Silent /\ 2 \in Silent  BY <3>2, <2>1
    <3>3. CASE 1 \notin Silent /\ 2 \notin Silent
      <4>1. Silent \subseteq {3}  BY <3>3, <2>1, <2>2
      <4>2. 3 \in Silent /\ \A j \in Silent : 3 <= j
        <5>1. 3 \in Silent  BY <2>1, <4>1
        <5>. QED  BY <4>1, <5>1
      <4>. QED  BY <4>2
    <3>. QED  BY <3>1, <3>2, <3>3
  <2>4. n \in Silent  BY <2>3
  <2>. QED  BY <2>4 DEF BorrowedSpeaks, Silent
<1>2. loans \in Seq(Row)  BY DEF BorrowInv, ListOK
<1>3. [loans[n] EXCEPT !.spoken = TRUE] \in Row /\ [loans[n] EXCEPT !.spoken = TRUE].role = loans[n].role
  <2>1. loans[n] \in Row  BY <1>2
  <2>. QED  BY <2>1 DEF Row
<1>4. /\ loans' \in Seq(Row) /\ Len(loans') = Len(loans) /\ DOMAIN loans' = DOMAIN loans
      /\ \A k \in DOMAIN loans : loans'[k].role = loans[k].role
  BY <1>1, <1>2, <1>3
<1>5. UNCHANGED <<desk, offered, charter, shelf, auto, asides, pending, frozen>>  BY DEF BorrowedSpeaks
<1>6. ListOK(loans', charter')  BY <1>4, <1>5 DEF BorrowInv, ListOK
<1>. QED  BY <1>4, <1>5, <1>6 DEF BorrowInv

LEMMA PersistBeginsKeeps == ASSUME BorrowInv, PersistBegins \/ PersistsInPassing PROVE BorrowInv'
<1>0. asides' \in 0..MaxAsides  BY AsidesAssumption DEF PersistBegins, PersistsInPassing, BorrowInv
<1>1. /\ desk' = "saving" /\ shelf' = loans /\ loans' = <<>>
      /\ UNCHANGED <<offered, charter, auto, pending, frozen>>
  BY DEF PersistBegins, PersistsInPassing, Shelved
<1>2. /\ ListOK(loans', charter') /\ Len(loans') = 0 /\ DOMAIN loans' = {}
      /\ ListOK(shelf', charter') /\ Len(shelf') <= LoanLimit + 1
  BY <1>1, EmptyList DEF BorrowInv
<1>. QED  BY <1>0, <1>1, <1>2 DEF BorrowInv, LoanLimit

LEMMA PersistEndsKeeps == ASSUME BorrowInv, PersistEnds PROVE BorrowInv'
<1>1. /\ desk' = "stage" /\ shelf' = <<>> /\ loans' \in {loans, shelf}
      /\ UNCHANGED <<offered, charter, auto, asides, pending, frozen>>
  BY DEF PersistEnds
<1>2. /\ ListOK(loans', charter') /\ Len(loans') <= LoanLimit + 1
      /\ ListOK(shelf', charter') /\ Len(shelf') = 0 /\ DOMAIN shelf' = {}
  BY <1>1, EmptyList DEF BorrowInv
<1>. QED  BY <1>1, <1>2 DEF BorrowInv, LoanLimit

LEMMA AssessKeeps == ASSUME BorrowInv, Assess PROVE BorrowInv'
<1>1. UNCHANGED <<charter, loans, shelf, auto, asides, pending, frozen>> /\ desk = "stage"  BY DEF Assess
<1>2. CASE desk' = "speaking" /\ UNCHANGED offered  BY <1>1, <1>2 DEF BorrowInv
<1>3. CASE desk' = "assessing" /\ offered' = Available /\ ~(Len(loans) >= LoanLimit)
  <2>1. Len(loans) \in Nat  BY DEF BorrowInv, ListOK
  <2>. QED  BY <1>1, <1>3, <2>1 DEF BorrowInv, Available, LoanLimit
<1>. QED  BY <1>2, <1>3 DEF Assess

\* BorrowInv is kept by every handler of the desk and by both ends of a save.
THEOREM BorrowNextInv == BorrowInv /\ [BorrowNext]_borrowVars => BorrowInv'
<1>. SUFFICES ASSUME BorrowInv, [BorrowNext]_borrowVars PROVE BorrowInv'  OBVIOUS
<1>1. CASE Assess  BY <1>1, AssessKeeps
<1>2. ASSUME NEW r \in Borrowable, AssessorWants(r) PROVE BorrowInv'  BY <1>2, AssessorKeeps
<1>3. CASE AssessorWantsNobody  BY <1>3 DEF AssessorWantsNobody, BorrowInv
<1>4. CASE BorrowedSpeaks  BY <1>4, SpeaksKeeps
<1>5. CASE PersistBegins \/ PersistsInPassing  BY <1>5, PersistBeginsKeeps
<1>5a. CASE PassesBy  BY <1>5a DEF PassesBy, BorrowInv
<1>6. CASE PersistEnds  BY <1>6, PersistEndsKeeps
<1>7. ASSUME NEW r \in Lendable, HandleLoan(r) PROVE BorrowInv'
  BY <1>7, GrantKeeps DEF HandleLoan
<1>8. CASE ApproveBorrow
  <2>1. pending \in Lendable  BY <1>8 DEF ApproveBorrow, BorrowInv, Lendable
  <2>. QED  BY <1>8, <2>1, GrantKeeps DEF ApproveBorrow
<1>9. CASE RejectBorrow  BY <1>9 DEF RejectBorrow, BorrowInv
<1>10. CASE FreezeBorrow  BY <1>10 DEF FreezeBorrow, BorrowInv
<1>11. CASE UNCHANGED borrowVars  BY <1>11 DEF borrowVars, BorrowInv
<1>. QED
  BY <1>1, <1>2, <1>3, <1>4, <1>5, <1>5a, <1>6, <1>7, <1>8, <1>9, <1>10, <1>11 DEF BorrowNext, DeskStep

\* BorrowInv holds of every behaviour of the desk (borrow_helpers.py).
THEOREM BorrowInvariant == BorrowSpec => []BorrowInv
<1>. QED  BY BorrowInitInv, BorrowNextInv, PTL DEF BorrowSpec

\* The desk's variables keep their types, and no list of loans grows past its limit.
THEOREM BorrowTypes == BorrowSpec => []BorrowTypeOK
<1>1. BorrowInv => BorrowTypeOK  BY DEF BorrowInv, BorrowTypeOK, ListOK, Row
<1>. QED  BY <1>1, BorrowInvariant, PTL

\* No role is lent twice, and all that are lent are on record.
THEOREM NobodyIsLentTwice == BorrowSpec => []LentOnce
<1>1. BorrowInv => LentOnce
  <2>. SUFFICES ASSUME BorrowInv PROVE LentOnce  OBVIOUS
  <2>. DEFINE all == loans \o shelf
  <2>1. /\ loans \in Seq(Row) /\ shelf \in Seq(Row) /\ Len(loans) \in Nat /\ Len(shelf) \in Nat
        /\ DOMAIN loans = 1..Len(loans) /\ DOMAIN shelf = 1..Len(shelf)
    BY DEF BorrowInv, ListOK
  <2>2. /\ DOMAIN all = 1..(Len(loans) + Len(shelf))
        /\ \A n \in 1..(Len(loans) + Len(shelf)) :
              all[n] = IF n <= Len(loans) THEN loans[n] ELSE shelf[n - Len(loans)]
    BY <2>1
  <2>. HIDE DEF all
  <2>3. \A n \in DOMAIN all : \/ n \in DOMAIN loans /\ all[n] = loans[n]
                              \/ n - Len(loans) \in DOMAIN shelf /\ all[n] = shelf[n - Len(loans)]
    BY <2>1, <2>2
  <2>4. ASSUME NEW j \in DOMAIN all, NEW k \in DOMAIN all, all[j].role = all[k].role PROVE j = k
    <3>1. j \in Int /\ k \in Int  BY <2>1, <2>2
    <3>2. CASE j \in DOMAIN loans /\ all[j] = loans[j]
      BY <2>3, <2>4, <3>2 DEF BorrowInv, ListOK
    <3>3. CASE j - Len(loans) \in DOMAIN shelf /\ all[j] = shelf[j - Len(loans)]
      <4>1. k - Len(loans) \in DOMAIN shelf /\ all[k] = shelf[k - Len(loans)]
        BY <2>3, <2>4, <3>3 DEF BorrowInv, ListOK
      <4>2. j - Len(loans) = k - Len(loans)  BY <2>4, <3>3, <4>1 DEF BorrowInv, ListOK
      <4>. QED  BY <2>1, <3>1, <4>2
    <3>. QED  BY <2>3, <3>2, <3>3
  <2>5. ASSUME NEW n \in DOMAIN all PROVE all[n].role \in charter
    BY <2>3 DEF BorrowInv, ListOK
  <2>. QED  BY <2>4, <2>5 DEF LentOnce, Lent, all
<1>. QED  BY <1>1, BorrowInvariant, PTL

-----------------------------------------------------------------------------
(* Calls of the LLM (LLMGateway).                                          *)

\* Where a call stands in its chain.
Call == [pc : Finished \cup {"asking", "json"}, chain : Chains, n : Nat, attempt : 1..MaxAttempts]

\* A call has left behind only providers that gave it no valid answer; one that asks for
\* JSON mode has already had such an answer from the provider at hand, and one that ended
\* with the stub has been through its chain.
LeftBehind(row) ==
    /\ row.pc \in {"asking", "json"} => \A k \in DOMAIN row.chain : k < row.n => row.chain[k] # {"valid"}
    /\ row.pc = "json" => row.chain[row.n] # {"valid"}
    /\ row.pc = "stubbed" => \A k \in DOMAIN row.chain : row.chain[k] # {"valid"}

RowOK(row) == row \in Call /\ row.n \in DOMAIN row.chain /\ LeftBehind(row)

GatewayInv == /\ breaker \in {"closed", "open", "half_open"} /\ failures \in 0..FailureThreshold
              /\ cooled \in BOOLEAN /\ jsonMode \subseteq Providers
              /\ call \in [Callers -> Call]
              /\ \A c \in Callers : RowOK(call[c])

-----------------------------------------------------------------------------
LEMMA ChainIndices ==
    ASSUME NEW chain \in Chains
    PROVE  /\ Len(chain) \in Nat \ {0} /\ DOMAIN chain = 1..Len(chain)
           /\ 1 \in DOMAIN chain
  BY ChainsAssumption

\* Recording a result keeps the breaker in its bounds.
LEMMA BreakerBounds ==
    ASSUME GatewayInv, RecordSuccess \/ RecordFailure \/ NothingRecorded
    PROVE  /\ breaker' \in {"closed", "open", "half_open"} /\ failures' \in 0..FailureThreshold
           /\ cooled' \in BOOLEAN
<1>1. CASE RecordSuccess  BY <1>1, GatewayAssumption DEF GatewayInv, RecordSuccess
<1>2. CASE RecordFailure
  <2>1. failures' \in 0..FailureThreshold  BY <1>2, GatewayAssumption DEF GatewayInv, RecordFailure
  <2>2. breaker' \in {"closed", "open", "half_open"} /\ cooled' \in BOOLEAN
    BY <1>2 DEF GatewayInv, RecordFailure
  <2>. QED  BY <2>1, <2>2
<1>3. CASE NothingRecorded  BY <1>3 DEF GatewayInv, NothingRecorded
<1>. QED  BY <1>1, <1>2, <1>3

\* One call moves, and is where it should be.
LEMMA CallMoves ==
    ASSUME GatewayInv, NEW c \in Callers, NEW row, call' = [call EXCEPT ![c] = row], RowOK(row),
           breaker' \in {"closed", "open", "half_open"}, failures' \in 0..FailureThreshold,
           cooled' \in BOOLEAN, jsonMode' \subseteq Providers
    PROVE  GatewayInv'
<1>1. call' \in [Callers -> Call]  BY DEF GatewayInv, RowOK
<1>2. ASSUME NEW d \in Callers PROVE RowOK(call'[d])
  BY DEF GatewayInv
<1>. QED  BY <1>1, <1>2 DEF GatewayInv

\* Before the first call GatewayInv holds.
THEOREM GatewayInit == LLMInit => GatewayInv
<1>. SUFFICES ASSUME LLMInit PROVE GatewayInv  OBVIOUS
<1>1. ASSUME NEW c \in Callers PROVE RowOK(call[c])
  <2>1. PICK chain \in Chains : call[c] = [pc |-> "idle", chain |-> chain, n |-> 1, attempt |-> 1]
    BY DEF LLMInit
  <2>. QED  BY <2>1, ChainIndices, GatewayAssumption DEF RowOK, Call, LeftBehind, Finished
<1>2. call \in [Callers -> Call]  BY <1>1 DEF LLMInit, RowOK
<1>3. failures \in 0..FailureThreshold  BY GatewayAssumption DEF LLMInit
<1>4. /\ breaker \in {"closed", "open", "half_open"} /\ cooled \in BOOLEAN
      /\ jsonMode \subseteq Providers
  BY DEF LLMInit
<1>. QED  BY <1>1, <1>2, <1>3, <1>4 DEF GatewayInv

LEMMA BeginKeeps == ASSUME GatewayInv, NEW c \in Callers, NEW chain \in Chains, BeginCall(c, chain)
                    PROVE  GatewayInv'
<1>1. PICK pc \in {"refused", "asking"} :
          call' = [call EXCEPT ![c] = [pc |-> pc, chain |-> chain, n |-> 1, attempt |-> 1]]
  BY DEF BeginCall
<1>2. RowOK([pc |-> pc, chain |-> chain, n |-> 1, attempt |-> 1])
  BY <1>1, ChainIndices, GatewayAssumption DEF RowOK, Call, LeftBehind, Finished
<1>3. breaker' \in {"closed", "open", "half_open"} /\ UNCHANGED <<failures, cooled, jsonMode>>
  BY DEF BeginCall, GatewayInv
<1>. QED  BY <1>1, <1>2, <1>3, CallMoves DEF GatewayInv

\* A call turns to another stage at the same provider.
LEMMA BecomesRow ==
    ASSUME GatewayInv, NEW c \in Callers, NEW pc \in Finished \cup {"asking", "json"}, Becomes(c, pc)
    PROVE  \E row : /\ call' = [call EXCEPT ![c] = row]
                    /\ row \in Call /\ row.pc = pc /\ row.n = call[c].n /\ row.chain = call[c].chain
<1>. DEFINE row == [call[c] EXCEPT !.pc = pc]
<1>1. call' = [call EXCEPT ![c] = row]  BY DEF Becomes
<1>2. row \in Call /\ row.pc = pc /\ row.n = call[c].n /\ row.chain = call[c].chain
  BY DEF GatewayInv, RowOK, Call
<1>. QED  BY <1>1, <1>2

\* A call that ends where it is, and not with the stub.
LEMMA EndsKeeps ==
    ASSUME GatewayInv, NEW c \in Callers, NEW pc \in {"idle", "answered", "raised"}, Becomes(c, pc),
           RecordSuccess \/ NothingRecorded, UNCHANGED jsonMode
    PROVE  GatewayInv'
<1>1. PICK row : /\ call' = [call EXCEPT ![c] = row]
                 /\ row \in Call /\ row.pc = pc /\ row.n = call[c].n /\ row.chain = call[c].chain
  BY BecomesRow DEF Finished
<1>2. RowOK(row)  BY <1>1 DEF GatewayInv, RowOK, LeftBehind
<1>. QED  BY <1>1, <1>2, BreakerBounds, CallMoves DEF GatewayInv

\* What a provider that has failed leaves: the next one is asked, or the stub answers.
LEMMA NextProviderKeeps ==
    ASSUME GatewayInv, NEW c \in Callers, call[c].pc \in {"asking", "json"},
           Asked(c) # {"valid"}, NextProvider(c), UNCHANGED jsonMode
    PROVE  GatewayInv'
<1>1. /\ call[c] \in Call /\ call[c].n \in 1..Len(call[c].chain) /\ Len(call[c].chain) \in Nat
      /\ DOMAIN call[c].chain = 1..Len(call[c].chain) /\ LeftBehind(call[c])
  BY ChainIndices DEF GatewayInv, RowOK, Call
<1>2. \A k \in DOMAIN call[c].chain : k <= call[c].n => call[c].chain[k] # {"valid"}
  BY <1>1 DEF LeftBehind, Asked
<1>3. CASE call[c].n < Len(call[c].chain)
  <2>. DEFINE row == [call[c] EXCEPT !.pc = "asking", !.n = @ + 1, !.attempt = 1]
  <2>1. call' = [call EXCEPT ![c] = row] /\ NothingRecorded  BY <1>3 DEF NextProvider
  <2>4. call[c].n + 1 \in Nat /\ 1 \in 1..MaxAttempts  BY <1>1, GatewayAssumption
  <2>2. /\ row \in Call /\ row.pc = "asking" /\ row.n = call[c].n + 1 /\ row.chain = call[c].chain
    BY <1>1, <2>4 DEF Call
  <2>3. RowOK(row)  BY <1>1, <1>2, <1>3, <2>2 DEF RowOK, LeftBehind
  <2>. QED  BY <2>1, <2>3, BreakerBounds, CallMoves DEF GatewayInv
<1>4. CASE ~(call[c].n < Len(call[c].chain))
  <2>1. Becomes(c, "stubbed") /\ RecordFailure  BY <1>4 DEF NextProvider
  <2>2. PICK row : /\ call' = [call EXCEPT ![c] = row] /\ row \in Call /\ row.pc = "stubbed"
                   /\ row.n = call[c].n /\ row.chain = call[c].chain
    BY <2>1, BecomesRow DEF Finished
  <2>3. RowOK(row)  BY <1>1, <1>2, <1>4, <2>2 DEF RowOK, LeftBehind
  <2>. QED  BY <2>1, <2>2, <2>3, BreakerBounds, CallMoves DEF GatewayInv
<1>. QED  BY <1>3, <1>4

LEMMA TryAgainKeeps ==
    ASSUME GatewayInv, NEW c \in Callers, call[c].pc \in {"asking", "json"},
           Asked(c) # {"valid"}, TryAgain(c), UNCHANGED jsonMode
    PROVE  GatewayInv'
<1>1. CASE call[c].attempt < MaxAttempts
  <2>. DEFINE row == [call[c] EXCEPT !.pc = "asking", !.attempt = @ + 1]
  <2>1. call' = [call EXCEPT ![c] = row] /\ NothingRecorded  BY <1>1 DEF TryAgain
  <2>2. call[c] \in Call  BY DEF GatewayInv
  <2>3. call[c].attempt + 1 \in 1..MaxAttempts  BY <1>1, <2>2, GatewayAssumption DEF Call
  <2>4. /\ row \in Call /\ row.pc = "asking" /\ row.n = call[c].n /\ row.chain = call[c].chain
    BY <2>2, <2>3 DEF Call
  <2>5. RowOK(row)  BY <2>4 DEF GatewayInv, RowOK, LeftBehind
  <2>. QED  BY <2>1, <2>5, BreakerBounds, CallMoves DEF GatewayInv
<1>2. CASE ~(call[c].attempt < MaxAttempts)
  BY <1>2, NextProviderKeeps DEF TryAgain
<1>. QED  BY <1>1, <1>2

\* An answer that is not valid comes from a provider that cannot be relied on.
LEMMA Unreliable == ASSUME NEW c, NEW how, Answers(c, how), how # "valid" PROVE Asked(c) # {"valid"}
  BY DEF Answers

LEMMA FormatRejectedKeeps == ASSUME GatewayInv, NEW c \in Callers, FormatRejected(c) PROVE GatewayInv'
  BY DEF FormatRejected, GatewayInv

LEMMA AskForJsonKeeps == ASSUME GatewayInv, NEW c \in Callers, AskForJson(c) PROVE GatewayInv'
<1>1. PICK row : /\ call' = [call EXCEPT ![c] = row]
                 /\ row \in Call /\ row.pc = "json" /\ row.n = call[c].n /\ row.chain = call[c].chain
  BY BecomesRow DEF AskForJson
<1>2. call[c].pc = "asking" /\ call[c].chain[call[c].n] # {"valid"}
  BY Unreliable DEF AskForJson, Answers, Asked
<1>3. RowOK(row)  BY <1>1, <1>2 DEF GatewayInv, RowOK, LeftBehind
<1>. QED  BY <1>1, <1>3, CallMoves DEF AskForJson, GatewayInv

LEMMA JsonAnsweredKeeps == ASSUME GatewayInv, NEW c \in Callers, JsonAnswered(c) PROVE GatewayInv'
<1>1. CASE Becomes(c, "answered") /\ RecordSuccess  BY <1>1, EndsKeeps DEF JsonAnswered
<1>2. CASE Asked(c) # {"valid"} /\ TryAgain(c)  BY <1>2, TryAgainKeeps DEF JsonAnswered
<1>. QED  BY <1>1, <1>2 DEF JsonAnswered

LEMMA CallStepKeeps == ASSUME GatewayInv, NEW c \in Callers, CallStep(c) PROVE GatewayInv'
<1>1. CASE Answered(c)  BY <1>1, EndsKeeps DEF Answered
<1>2. CASE PassedOver(c)
  BY <1>2, Unreliable, NextProviderKeeps DEF PassedOver, Answers
<1>3. CASE Retried(c)
  BY <1>3, Unreliable, TryAgainKeeps DEF Retried, Answers
<1>4. CASE FormatRejected(c)  BY <1>4, FormatRejectedKeeps
<1>5. CASE AskForJson(c)  BY <1>5, AskForJsonKeeps
<1>6. CASE JsonAnswered(c)  BY <1>6, JsonAnsweredKeeps
<1>7. CASE Raised(c)  BY <1>7, EndsKeeps DEF Raised
<1>. QED  BY <1>1, <1>2, <1>3, <1>4, <1>5, <1>6, <1>7 DEF CallStep

\* GatewayInv is kept by every step of a call, by its cancellation and by time.
THEOREM GatewayNext == GatewayInv /\ [LLMNext]_llmVars => GatewayInv'
<1>. SUFFICES ASSUME GatewayInv, [LLMNext]_llmVars PROVE GatewayInv'  OBVIOUS
<1>1. CASE CoolsDown  BY <1>1 DEF CoolsDown, GatewayInv
<1>2. ASSUME NEW c \in Callers, NEW chain \in Chains, BeginCall(c, chain) PROVE GatewayInv'
  BY <1>2, BeginKeeps
<1>3. ASSUME NEW c \in Callers, CallStep(c) PROVE GatewayInv'  BY <1>3, CallStepKeeps
<1>4. ASSUME NEW c \in Callers, Cancelled(c) PROVE GatewayInv'  BY <1>4, EndsKeeps DEF Cancelled
<1>5. CASE UNCHANGED llmVars  BY <1>5 DEF llmVars, GatewayInv
<1>. QED  BY <1>1, <1>2, <1>3, <1>4, <1>5 DEF LLMNext

\* GatewayInv holds of every behaviour of the calls (agents/llm.py).
THEOREM GatewayInvariant == LLMSpec => []GatewayInv
<1>1. LLMInit => GatewayInv  BY GatewayInit
<1>2. GatewayInv /\ [LLMNext]_llmVars => GatewayInv'  BY GatewayNext
<1>. QED  BY <1>1, <1>2, PTL DEF LLMSpec

\* Every variable of the gateway keeps its type, for any chains, attempts and threshold.
THEOREM GatewayTypes == LLMSpec => []LLMTypeOK
<1>1. GatewayInv => LLMTypeOK  BY DEF GatewayInv, LLMTypeOK, RowOK, Call
<1>. QED  BY <1>1, GatewayInvariant, PTL

\* Whatever other providers do, a call comes to the stub only past its whole chain, and
\* there was no sound provider in it.
THEOREM SoundProvidersAreAsked == LLMSpec => []SoundProviderAnswers
<1>1. GatewayInv => SoundProviderAnswers
  BY DEF GatewayInv, RowOK, LeftBehind, SoundProviderAnswers
<1>. QED  BY <1>1, GatewayInvariant, PTL

-----------------------------------------------------------------------------
(* Each step of a call takes away from what is left of it.                 *)

AttemptsLeft(row) == MaxAttempts * (Len(row.chain) - row.n) + (MaxAttempts - row.attempt)

\* Of an attempt: one request and one in JSON mode, and one of the two is repeated once
\* without response_format.
RequestsLeft(row, modes) ==
    CASE row.pc = "asking" -> 5 * AttemptsLeft(row) + (IF row.chain[row.n] \in modes THEN 4 ELSE 3)
      [] row.pc = "json"   -> 5 * AttemptsLeft(row) + (IF row.chain[row.n] \in modes THEN 2 ELSE 1)
      [] OTHER             -> 0

LEMMA Products ==
    ASSUME NEW m \in Nat, NEW k \in Nat
    PROVE  m * k \in Nat /\ (k > 0 => m * (k - 1) = m * k - m)
<1>1. m * k \in Nat  OBVIOUS
<1>2. k > 0 => m * (k - 1) = m * k - m  OBVIOUS
<1>. QED  BY <1>1, <1>2

LEMMA AttemptsLeftIsNatural == ASSUME NEW row, RowOK(row) PROVE AttemptsLeft(row) \in Nat
<1>1. row.attempt \in 1..MaxAttempts /\ row.n \in 1..Len(row.chain) /\ Len(row.chain) \in Nat
  BY ChainIndices DEF RowOK, Call
<1>2. PICK k \in Nat : k = Len(row.chain) - row.n  BY <1>1
<1>3. MaxAttempts \in Nat /\ MaxAttempts - row.attempt \in Nat  BY <1>1, GatewayAssumption
<1>4. MaxAttempts * k \in Nat  BY <1>3, Products
<1>. QED  BY <1>2, <1>3, <1>4 DEF AttemptsLeft

LEMMA RequestsLeftIsNatural ==
    ASSUME NEW row, NEW modes, RowOK(row)
    PROVE  /\ RequestsLeft(row, modes) \in Nat
           /\ row.pc \in {"asking", "json"} => RequestsLeft(row, modes) > 0
<1>1. PICK a \in Nat : a = AttemptsLeft(row)  BY AttemptsLeftIsNatural
<1>. QED  BY <1>1 DEF RequestsLeft

\* Another attempt, with the same provider or the next one.
LEMMA AnotherAttempt ==
    ASSUME NEW row, NEW next, NEW modes, NEW after, RowOK(row), RowOK(next), row.pc \in {"asking", "json"},
           next.pc = "asking", AttemptsLeft(next) < AttemptsLeft(row)
    PROVE  RequestsLeft(next, after) < RequestsLeft(row, modes)
<1>1. PICK a \in Nat : a = AttemptsLeft(row)  BY AttemptsLeftIsNatural
<1>2. PICK b \in Nat : b = AttemptsLeft(next)  BY AttemptsLeftIsNatural
<1>3. b < a  BY <1>1, <1>2
<1>4. 5 * b + 4 < 5 * a + 1  BY <1>3
<1>5. RequestsLeft(next, after) \in {5 * b + 3, 5 * b + 4}  BY <1>2 DEF RequestsLeft
<1>6. RequestsLeft(row, modes) \in {5 * a + 1, 5 * a + 2, 5 * a + 3, 5 * a + 4}  BY <1>1 DEF RequestsLeft
<1>. QED  BY <1>4, <1>5, <1>6

LEMMA NextProviderTakes ==
    ASSUME GatewayInv, GatewayInv', NEW c \in Callers, call[c].pc \in {"asking", "json"}, NextProvider(c)
    PROVE  RequestsLeft(call[c], jsonMode)' < RequestsLeft(call[c], jsonMode)
<1>. PICK row : row = call[c]  OBVIOUS
<1>. PICK next : next = call'[c]  OBVIOUS
<1>1. RowOK(row) /\ row \in Call  BY DEF GatewayInv
<1>2. RowOK(next)  BY DEF GatewayInv
<1>3. CASE row.n < Len(row.chain)
  <2>1. /\ next.pc = "asking" /\ next.n = row.n + 1 /\ next.attempt = 1 /\ next.chain = row.chain
    BY <1>1, <1>3 DEF NextProvider, GatewayInv, Call
  <2>2. row.attempt \in 1..MaxAttempts /\ row.n \in 1..Len(row.chain) /\ Len(row.chain) \in Nat
    BY <1>1, ChainIndices DEF RowOK, Call
  <2>3. PICK k \in Nat \ {0} : k = Len(row.chain) - row.n  BY <1>3, <2>2
  <2>4. Len(next.chain) - next.n = k - 1  BY <2>1, <2>2, <2>3
  <2>5. MaxAttempts * (k - 1) = MaxAttempts * k - MaxAttempts /\ MaxAttempts * k \in Nat
    BY Products, GatewayAssumption
  <2>6. AttemptsLeft(next) < AttemptsLeft(row)
    <3>1. PICK p \in Nat : p = MaxAttempts * k  BY <2>5
    <3>2. AttemptsLeft(row) = p + (MaxAttempts - row.attempt)  BY <2>3, <3>1 DEF AttemptsLeft
    <3>3. AttemptsLeft(next) = (p - MaxAttempts) + (MaxAttempts - 1)
      BY <2>1, <2>4, <2>5, <3>1 DEF AttemptsLeft
    <3>. QED  BY <2>2, <3>2, <3>3, GatewayAssumption
  <2>. QED  BY <1>1, <1>2, <2>1, <2>6, AnotherAttempt
<1>4. CASE ~(row.n < Len(row.chain))
  <2>1. next.pc = "stubbed"  BY <1>1, <1>4 DEF NextProvider, Becomes, GatewayInv, Call
  <2>2. RequestsLeft(next, jsonMode') = 0  BY <2>1 DEF RequestsLeft
  <2>. QED  BY <1>1, <2>2, RequestsLeftIsNatural
<1>. QED  BY <1>3, <1>4

LEMMA TryAgainTakes ==
    ASSUME GatewayInv, GatewayInv', NEW c \in Callers, call[c].pc \in {"asking", "json"}, TryAgain(c)
    PROVE  RequestsLeft(call[c], jsonMode)' < RequestsLeft(call[c], jsonMode)
<1>. PICK row : row = call[c]  OBVIOUS
<1>. PICK next : next = call'[c]  OBVIOUS
<1>1. CASE row.attempt < MaxAttempts
  <2>1. RowOK(row) /\ row \in Call  BY DEF GatewayInv
  <2>2. RowOK(next)  BY DEF GatewayInv
  <2>3. next.pc = "asking" /\ next.n = row.n /\ next.attempt = row.attempt + 1 /\ next.chain = row.chain
    BY <1>1, <2>1 DEF TryAgain, GatewayInv, Call
  <2>4. row.attempt \in 1..MaxAttempts /\ row.n \in 1..Len(row.chain) /\ Len(row.chain) \in Nat
    BY <2>1, ChainIndices DEF RowOK, Call
  <2>5. AttemptsLeft(next) < AttemptsLeft(row)
    <3>1. PICK p \in Int : p = MaxAttempts * (Len(row.chain) - row.n)  BY <2>4, GatewayAssumption
    <3>2. AttemptsLeft(row) = p + (MaxAttempts - row.attempt)  BY <3>1 DEF AttemptsLeft
    <3>3. AttemptsLeft(next) = p + (MaxAttempts - (row.attempt + 1))  BY <2>3, <3>1 DEF AttemptsLeft
    <3>. QED  BY <2>4, <3>2, <3>3, GatewayAssumption
  <2>. QED  BY <2>1, <2>2, <2>3, <2>5, AnotherAttempt
<1>2. CASE ~(row.attempt < MaxAttempts)  BY <1>2, NextProviderTakes DEF TryAgain
<1>. QED  BY <1>1, <1>2

\* A call that comes to its end.
LEMMA EndTakes ==
    ASSUME GatewayInv, NEW c \in Callers, call[c].pc \in {"asking", "json"}, NEW pc \in Finished, Becomes(c, pc)
    PROVE  RequestsLeft(call[c], jsonMode)' < RequestsLeft(call[c], jsonMode)
<1>1. call'[c].pc = pc  BY DEF Becomes, GatewayInv, Call
<1>2. RequestsLeft(call[c], jsonMode)' = 0  BY <1>1 DEF RequestsLeft, Finished
<1>3. RequestsLeft(call[c], jsonMode) \in Nat /\ RequestsLeft(call[c], jsonMode) > 0
  BY RequestsLeftIsNatural DEF GatewayInv
<1>. QED  BY <1>2, <1>3

LEMMA StepOfRequestTakes ==
    ASSUME GatewayInv, GatewayInv', NEW c \in Callers, CallStep(c)
    PROVE  RequestsLeft(call[c], jsonMode)' < RequestsLeft(call[c], jsonMode)
<1>1. CASE Answered(c)  BY <1>1, EndTakes DEF Answered, Answers, Finished
<1>2. CASE PassedOver(c)  BY <1>2, NextProviderTakes DEF PassedOver, Answers
<1>3. CASE Retried(c)  BY <1>3, TryAgainTakes DEF Retried, Answers
<1>4. CASE FormatRejected(c)
  <2>1. /\ call' = call /\ call[c].pc \in {"asking", "json"} /\ call[c].chain[call[c].n] \in jsonMode
        /\ call[c].chain[call[c].n] \notin jsonMode'
    BY <1>4 DEF FormatRejected, Answers, Asked
  <2>2. PICK a \in Nat : a = AttemptsLeft(call[c])  BY AttemptsLeftIsNatural DEF GatewayInv
  <2>3. \/ RequestsLeft(call[c], jsonMode) = 5 * a + 4 /\ RequestsLeft(call[c], jsonMode)' = 5 * a + 3
        \/ RequestsLeft(call[c], jsonMode) = 5 * a + 2 /\ RequestsLeft(call[c], jsonMode)' = 5 * a + 1
    BY <2>1, <2>2 DEF RequestsLeft, AttemptsLeft
  <2>. QED  BY <2>3
<1>5. CASE AskForJson(c)
  <2>1. /\ call[c].pc = "asking" /\ call[c].chain[call[c].n] \in jsonMode /\ jsonMode' = jsonMode
        /\ call'[c].pc = "json" /\ call'[c].n = call[c].n /\ call'[c].chain = call[c].chain
        /\ call'[c].attempt = call[c].attempt
    BY <1>5 DEF AskForJson, Answers, Asked, Becomes, GatewayInv, Call
  <2>2. PICK a \in Nat : a = AttemptsLeft(call[c])  BY AttemptsLeftIsNatural DEF GatewayInv
  <2>3. RequestsLeft(call[c], jsonMode) = 5 * a + 4 /\ RequestsLeft(call[c], jsonMode)' = 5 * a + 2
    BY <2>1, <2>2 DEF RequestsLeft, AttemptsLeft
  <2>. QED  BY <2>3
<1>6. CASE JsonAnswered(c)
  <2>1. CASE Becomes(c, "answered")  BY <1>6, <2>1, EndTakes DEF JsonAnswered, Finished
  <2>2. CASE TryAgain(c)  BY <1>6, <2>2, TryAgainTakes DEF JsonAnswered
  <2>. QED  BY <1>6, <2>1, <2>2 DEF JsonAnswered
<1>7. CASE Raised(c)  BY <1>7, EndTakes DEF Raised, Answers, Finished
<1>. QED  BY <1>1, <1>2, <1>3, <1>4, <1>5, <1>6, <1>7 DEF CallStep

\* What the calls of others, or time, do to a call under way.
LEMMA OthersTakeNothing ==
    ASSUME GatewayInv, NEW c \in Callers, call'[c] = call[c], jsonMode' \subseteq jsonMode
    PROVE  RequestsLeft(call[c], jsonMode)' <= RequestsLeft(call[c], jsonMode)
<1>1. PICK a \in Nat : a = AttemptsLeft(call[c])  BY AttemptsLeftIsNatural DEF GatewayInv
<1>2. AttemptsLeft(call[c])' = a  BY <1>1 DEF AttemptsLeft
<1>3. RequestsLeft(call[c], jsonMode)' \in Int /\ RequestsLeft(call[c], jsonMode) \in Int
      /\ \/ RequestsLeft(call[c], jsonMode)' = RequestsLeft(call[c], jsonMode)
         \/ RequestsLeft(call[c], jsonMode)' = 5 * a + 3 /\ RequestsLeft(call[c], jsonMode) = 5 * a + 4
         \/ RequestsLeft(call[c], jsonMode)' = 5 * a + 1 /\ RequestsLeft(call[c], jsonMode) = 5 * a + 2
  BY <1>1, <1>2 DEF RequestsLeft
<1>. QED  BY <1>3

\* One caller's step leaves the calls of the others where they are.
LEMMA OthersStay ==
    ASSUME GatewayInv, NEW c \in Callers, NEW d \in Callers, d # c,
           CallStep(d) \/ Cancelled(d) \/ \E chain \in Chains : BeginCall(d, chain)
    PROVE  call'[c] = call[c] /\ jsonMode' \subseteq jsonMode
<1>1. CASE CallStep(d)
  <2>1. CASE FormatRejected(d)  BY <2>1 DEF FormatRejected
  <2>2. jsonMode' = jsonMode \/ FormatRejected(d)
    BY <1>1 DEF CallStep, Answered, PassedOver, Retried, AskForJson, JsonAnswered, Raised
  <2>3. FormatRejected(d) \/ \E pc : Becomes(d, pc) \/ TryAgain(d) \/ NextProvider(d)
    BY <1>1 DEF CallStep, Answered, PassedOver, Retried, AskForJson, JsonAnswered, Raised
  <2>4. ASSUME NEW pc, Becomes(d, pc) PROVE call'[c] = call[c]  BY <2>4 DEF Becomes, GatewayInv
  <2>5. CASE NextProvider(d)  BY <2>2, <2>1, <2>4, <2>5 DEF NextProvider, GatewayInv
  <2>6. CASE TryAgain(d)  BY <2>1, <2>2, <2>5, <2>6 DEF TryAgain, GatewayInv
  <2>. QED  BY <2>1, <2>2, <2>3, <2>4, <2>5, <2>6
<1>2. CASE Cancelled(d)  BY <1>2 DEF Cancelled, Becomes, GatewayInv
<1>3. ASSUME NEW chain \in Chains, BeginCall(d, chain) PROVE call'[c] = call[c] /\ jsonMode' = jsonMode
  BY <1>3 DEF BeginCall, GatewayInv
<1>. QED  BY <1>1, <1>2, <1>3

\* However the providers answer, and whatever other calls do at the same time, a call comes
\* to an end: what is left of it is a number of requests, each of its steps makes that
\* smaller, and no step of anybody makes it larger while the call is under way.
THEOREM EveryCallComesToAnEnd ==
    ASSUME NEW c \in Callers
    PROVE  LLMSpec => /\ [](RequestsLeft(call[c], jsonMode) \in Nat)
                      /\ [][CallStep(c) => RequestsLeft(call[c], jsonMode)' < RequestsLeft(call[c], jsonMode)]_llmVars
                      /\ [][call[c].pc \notin Finished =>
                              RequestsLeft(call[c], jsonMode)' <= RequestsLeft(call[c], jsonMode)]_llmVars
<1>1. GatewayInv => RequestsLeft(call[c], jsonMode) \in Nat  BY RequestsLeftIsNatural DEF GatewayInv
<1>2. ASSUME GatewayInv, [LLMNext]_llmVars
      PROVE  [CallStep(c) => RequestsLeft(call[c], jsonMode)' < RequestsLeft(call[c], jsonMode)]_llmVars
  BY <1>2, GatewayNext, StepOfRequestTakes
<1>3. ASSUME GatewayInv, [LLMNext]_llmVars
      PROVE  [call[c].pc \notin Finished =>
                 RequestsLeft(call[c], jsonMode)' <= RequestsLeft(call[c], jsonMode)]_llmVars
  <2>. SUFFICES ASSUME LLMNext, call[c].pc \notin Finished
                PROVE  RequestsLeft(call[c], jsonMode)' <= RequestsLeft(call[c], jsonMode)
    BY <1>3
  <2>1. CASE CoolsDown  BY <1>3, <2>1, OthersTakeNothing DEF CoolsDown
  <2>2. PICK p \in Nat : p = RequestsLeft(call[c], jsonMode)  BY <1>1, <1>3
  <2>3. GatewayInv'  BY <1>3, GatewayNext
  <2>4. PICK q \in Nat : q = RequestsLeft(call[c], jsonMode)'  BY <2>3, RequestsLeftIsNatural DEF GatewayInv
  <2>5. CASE CallStep(c)
    <3>1. q < p  BY <1>3, <2>2, <2>3, <2>4, <2>5, StepOfRequestTakes
    <3>. QED  BY <2>2, <2>4, <3>1
  <2>6. CASE Cancelled(c)
    <3>1. call[c].pc \in {"asking", "json"}  BY <1>3 DEF GatewayInv, RowOK, Call
    <3>2. q < p  BY <1>3, <2>2, <2>4, <2>6, <3>1, EndTakes DEF Cancelled, Finished
    <3>. QED  BY <2>2, <2>4, <3>2
  <2>7. ASSUME NEW d \in Callers \ {c},
               CallStep(d) \/ Cancelled(d) \/ \E chain \in Chains : BeginCall(d, chain)
        PROVE  RequestsLeft(call[c], jsonMode)' <= RequestsLeft(call[c], jsonMode)
    BY <1>3, <2>7, OthersStay, OthersTakeNothing
  <2>8. ~\E chain \in Chains : BeginCall(c, chain)  BY DEF BeginCall
  <2>. QED  BY <2>1, <2>5, <2>6, <2>7, <2>8 DEF LLMNext
<1>. QED  BY <1>1, <1>2, <1>3, GatewayInvariant, PTL DEF LLMSpec

-----------------------------------------------------------------------------
(* The refinement of code (CodeRefinement), for any number of rounds.      *)

\* Each repair takes a round, and the first call always has one round left when it is
\* repaired: the codes are numbered within the rounds of both calls.
CodesFitRounds ==
    /\ attempt.call = 1 => code <= attempt.round - 1
    /\ attempt.call = 2 => code <= FirstRounds + attempt.round - 1
    /\ attempt.call = 1 => attempt.round <= FirstRounds

\* After a run, and until the next repair, the code at hand is the one that was run; a
\* repair is only asked for when there is a round to run it in.
FixedCodeRan ==
    /\ refining \in {"ask", "fix"} => ran = code
    /\ refining = "fix" => attempt.round < MaxRounds
    /\ refining = "ask" => attempt.call = 1 /\ level = "L1"

\* Only the first call starts without the network; the wide level of the second is kept.
SecondCallIsWide == attempt.call = 2 => level = "wide"

\* The report is the last thing that is written.
ReportedAtEnd == refining # "over" => reported.execution = "none"

RefineInv == /\ RefineTypeOK /\ CodesFitRounds /\ FixedCodeRan /\ SecondCallIsWide /\ ReportedAtEnd
             /\ ReportedCodeRan /\ NetworkIsGranted

-----------------------------------------------------------------------------
LEMMA RoundsAreBounded == MaxRounds \in Nat \ {0} /\ (attempt.call = 1 => MaxRounds = FirstRounds)
  BY RoundsAssumption DEF MaxRounds

\* The bound of the type invariant on the number of codes follows from the rounds.
LEMMA CodesInRange ==
    ASSUME attempt \in [call : {1, 2}, round : Nat \ {0}], attempt.round <= MaxRounds,
           code \in Nat, CodesFitRounds
    PROVE  code \in 0..(FirstRounds + SecondRounds)
<1>1. CASE attempt.call = 1
  BY <1>1, RoundsAssumption DEF CodesFitRounds, MaxRounds
<1>2. CASE attempt.call = 2
  BY <1>2, RoundsAssumption DEF CodesFitRounds, MaxRounds
<1>. QED  BY <1>1, <1>2

\* A refinement that begins satisfies RefineInv.
THEOREM RefineInitInv == RefineInit => RefineInv
<1>. SUFFICES ASSUME RefineInit PROVE RefineInv  OBVIOUS
<1>1. RefineTypeOK
  BY RoundsAssumption DEF RefineInit, RefineTypeOK, MaxRounds, Rounds, Unfiled, Unwritten
<1>2. CodesFitRounds /\ FixedCodeRan /\ SecondCallIsWide /\ ReportedAtEnd
  BY RoundsAssumption
     DEF RefineInit, CodesFitRounds, FixedCodeRan, SecondCallIsWide, ReportedAtEnd, Unwritten
<1>3. ReportedCodeRan /\ NetworkIsGranted
  BY DEF RefineInit, ReportedCodeRan, NetworkIsGranted, Unwritten
<1>. QED  BY <1>1, <1>2, <1>3 DEF RefineInv

\* What a report of the code at hand leaves.
LEMMA ReportKeepsInv ==
    ASSUME RefineInv, NEW execution \in {"succeeded", "failed"}, Report(code, execution),
           ran' = code, UNCHANGED <<attempt, code, level, overdue>>,
           asked' \in [Rounds -> {Unfiled, "pending", "approved", "denied", "expired"}],
           \A r \in Rounds : asked[r] = "approved" => asked'[r] = "approved"
    PROVE  RefineInv'
<1>1. RefineTypeOK'
  BY DEF RefineInv, RefineTypeOK, Report, MaxRounds
<1>2. CodesFitRounds' /\ FixedCodeRan' /\ SecondCallIsWide' /\ ReportedAtEnd'
  BY DEF RefineInv, CodesFitRounds, FixedCodeRan, SecondCallIsWide, ReportedAtEnd, Report
<1>3. ReportedCodeRan'
  BY DEF RefineInv, RefineTypeOK, ReportedCodeRan, Report
<1>4. NetworkIsGranted'
  BY DEF RefineInv, NetworkIsGranted
<1>. QED  BY <1>1, <1>2, <1>3, <1>4 DEF RefineInv

\* A failed run of the code at hand: the last round reports it, another has it repaired.
LEMMA FailureKeepsInv ==
    ASSUME RefineInv, refining # "over", RunFails,
           ran' = code, UNCHANGED <<attempt, code, level, overdue>>,
           asked' \in [Rounds -> {Unfiled, "pending", "approved", "denied", "expired"}],
           \A r \in Rounds : asked[r] = "approved" => asked'[r] = "approved"
    PROVE  RefineInv'
<1>1. CASE attempt.round >= MaxRounds
  BY <1>1, ReportKeepsInv DEF RunFails
<1>2. CASE ~(attempt.round >= MaxRounds)
  <2>1. refining' = "fix" /\ UNCHANGED reported  BY <1>2 DEF RunFails
  <2>2. attempt.round < MaxRounds  BY <1>2, RoundsAreBounded DEF RefineInv, RefineTypeOK
  <2>3. RefineTypeOK'  BY <2>1 DEF RefineInv, RefineTypeOK, MaxRounds
  <2>4. CodesFitRounds' /\ FixedCodeRan' /\ SecondCallIsWide' /\ ReportedAtEnd'
    BY <2>1, <2>2
       DEF RefineInv, CodesFitRounds, FixedCodeRan, SecondCallIsWide, ReportedAtEnd, MaxRounds
  <2>5. ReportedCodeRan'
    BY <2>1 DEF RefineInv, ReportedAtEnd, ReportedCodeRan
  <2>6. NetworkIsGranted'
    BY DEF RefineInv, NetworkIsGranted
  <2>. QED  BY <2>3, <2>4, <2>5, <2>6 DEF RefineInv
<1>. QED  BY <1>1, <1>2

-----------------------------------------------------------------------------
(* One lemma per action.                                                   *)

Statuses == {Unfiled, "pending", "approved", "denied", "expired"}

LEMMA AskedType == ASSUME RefineTypeOK, NEW s \in Statuses, asked' = [asked EXCEPT ![attempt.round] = s]
                   PROVE  asked' \in [Rounds -> {Unfiled, "pending", "approved", "denied", "expired"}]
  BY DEF RefineTypeOK, Statuses

LEMMA SucceedsInv == ASSUME RefineInv, RunSucceeds PROVE RefineInv'
  BY ReportKeepsInv DEF RunSucceeds, RefineInv, RefineTypeOK

LEMMA FailsByItselfInv == ASSUME RefineInv, RunFailsByItself PROVE RefineInv'
  BY FailureKeepsInv DEF RunFailsByItself, RefineInv, RefineTypeOK

\* The first call asks; nothing it writes over has been built upon yet.
LEMMA LacksNetworkInv == ASSUME RefineInv, RunLacksNetwork PROVE RefineInv'
<1>1. attempt.call = 1  BY DEF RefineInv, SecondCallIsWide, RefineTypeOK, RunLacksNetwork
<1>2. RefineTypeOK'
  BY AskedType DEF RefineInv, RefineTypeOK, RunLacksNetwork, MaxRounds, Statuses
<1>3. CodesFitRounds' /\ FixedCodeRan' /\ SecondCallIsWide' /\ ReportedAtEnd'
  BY <1>1 DEF RefineInv, RunLacksNetwork, CodesFitRounds, FixedCodeRan, SecondCallIsWide, ReportedAtEnd
<1>4. ReportedCodeRan'  BY DEF RefineInv, RunLacksNetwork, ReportedAtEnd, ReportedCodeRan
<1>5. NetworkIsGranted'  BY <1>1 DEF RunLacksNetwork, NetworkIsGranted
<1>. QED  BY <1>2, <1>3, <1>4, <1>5 DEF RefineInv

LEMMA AskingFailsInv == ASSUME RefineInv, AskingFails PROVE RefineInv'
<1>1. attempt.call = 1  BY DEF RefineInv, SecondCallIsWide, RefineTypeOK, AskingFails
<1>2. PICK s \in {Unfiled, "pending"} : asked' = [asked EXCEPT ![attempt.round] = s]
  BY DEF AskingFails
<1>3. RefineTypeOK /\ attempt.round \in Rounds
  BY <1>1, RoundsAssumption DEF RefineInv, RefineTypeOK, MaxRounds, Rounds
<1>4. asked' \in [Rounds -> Statuses]  BY <1>2, <1>3, AskedType DEF Statuses
<1>5. CASE attempt.round >= MaxRounds
  <2>1. Report(code, "failed")  BY <1>5 DEF AskingFails, RunFails
  <2>2. RefineTypeOK'
    BY <1>4, <2>1 DEF RefineInv, RefineTypeOK, AskingFails, Report, MaxRounds, Statuses
  <2>3. CodesFitRounds' /\ FixedCodeRan' /\ SecondCallIsWide' /\ ReportedAtEnd'
    BY <2>1 DEF RefineInv, CodesFitRounds, FixedCodeRan, SecondCallIsWide, ReportedAtEnd, Report, AskingFails
  <2>4. ReportedCodeRan'  BY <2>1 DEF ReportedCodeRan, Report, AskingFails
  <2>5. NetworkIsGranted'  BY <1>1 DEF AskingFails, NetworkIsGranted
  <2>. QED  BY <2>2, <2>3, <2>4, <2>5 DEF RefineInv
<1>6. CASE ~(attempt.round >= MaxRounds)
  <2>1. refining' = "fix" /\ UNCHANGED reported  BY <1>6 DEF AskingFails, RunFails
  <2>2. attempt.round < MaxRounds  BY <1>6, RoundsAreBounded DEF RefineInv, RefineTypeOK
  <2>3. RefineTypeOK'  BY <1>4, <2>1 DEF RefineInv, RefineTypeOK, AskingFails, MaxRounds, Statuses
  <2>4. CodesFitRounds' /\ FixedCodeRan' /\ SecondCallIsWide' /\ ReportedAtEnd'
    BY <2>1, <2>2
       DEF RefineInv, CodesFitRounds, FixedCodeRan, SecondCallIsWide, ReportedAtEnd, AskingFails, MaxRounds
  <2>5. ReportedCodeRan'  BY <2>1 DEF RefineInv, ReportedAtEnd, ReportedCodeRan, AskingFails
  <2>6. NetworkIsGranted'  BY <1>1 DEF AskingFails, NetworkIsGranted
  <2>. QED  BY <2>3, <2>4, <2>5, <2>6 DEF RefineInv
<1>. QED  BY <1>5, <1>6

LEMMA RaisesInv == ASSUME RefineInv, RunRaises PROVE RefineInv'
<1>1. RefineTypeOK'  BY DEF RefineInv, RefineTypeOK, RunRaises, MaxRounds
<1>2. CodesFitRounds' /\ FixedCodeRan' /\ SecondCallIsWide' /\ ReportedAtEnd'
  BY DEF RefineInv, CodesFitRounds, FixedCodeRan, SecondCallIsWide, ReportedAtEnd, RunRaises
<1>3. ReportedCodeRan' /\ NetworkIsGranted'
  BY DEF RefineInv, ReportedCodeRan, NetworkIsGranted, RunRaises
<1>. QED  BY <1>1, <1>2, <1>3 DEF RefineInv

\* The one step into the second call sees the approval it goes on.
LEMMA SeesGrantInv == ASSUME RefineInv, SeesGrant PROVE RefineInv'
<1>1. /\ attempt.call = 1 /\ attempt.round \in Rounds /\ code <= FirstRounds - 1
      /\ asked[attempt.round] = "approved"
  BY RoundsAssumption
     DEF RefineInv, RefineTypeOK, FixedCodeRan, CodesFitRounds, SeesGrant, Granted, Answer, MaxRounds, Rounds
<1>2. /\ attempt' = [call |-> 2, round |-> 1] /\ attempt'.call = 2 /\ attempt'.round = 1
      /\ level' = "wide" /\ refining' = "run" /\ UNCHANGED <<code, ran, asked, overdue, reported>>
  BY DEF SeesGrant
<1>3. RefineTypeOK'
  BY <1>1, <1>2, RoundsAssumption DEF RefineInv, RefineTypeOK, MaxRounds
<1>4. CodesFitRounds'
  <2>1. code \in Nat /\ FirstRounds \in Nat  BY RoundsAssumption DEF RefineInv, RefineTypeOK
  <2>. QED  BY <1>1, <1>2, <2>1 DEF CodesFitRounds
<1>5. FixedCodeRan' /\ SecondCallIsWide' /\ ReportedAtEnd'
  BY <1>2 DEF RefineInv, FixedCodeRan, SecondCallIsWide, ReportedAtEnd, SeesGrant
<1>6. ReportedCodeRan'  BY <1>2 DEF RefineInv, ReportedCodeRan
<1>7. NetworkIsGranted'  BY <1>1, <1>2 DEF NetworkIsGranted
<1>. QED  BY <1>3, <1>4, <1>5, <1>6, <1>7 DEF RefineInv

LEMMA SeesRefusalInv == ASSUME RefineInv, SeesRefusal PROVE RefineInv'
<1>1. ran' = code  BY DEF SeesRefusal, RefineInv, FixedCodeRan
<1>. QED  BY <1>1, FailureKeepsInv DEF SeesRefusal, RefineInv, RefineTypeOK

LEMMA WaitTimesOutInv == ASSUME RefineInv, WaitTimesOut PROVE RefineInv'
<1>1. ran' = code  BY DEF WaitTimesOut, RefineInv, FixedCodeRan
<1>. QED  BY <1>1, FailureKeepsInv DEF WaitTimesOut, RefineInv, RefineTypeOK

\* A repair is always run: there is a round left.
LEMMA RepairedInv == ASSUME RefineInv, Repaired PROVE RefineInv'
<1>1. attempt.round < MaxRounds /\ code \in Nat /\ attempt.round \in Nat \ {0} /\ attempt.call \in {1, 2}
  BY DEF RefineInv, FixedCodeRan, Repaired, RefineTypeOK
<1>2. ~(attempt.round >= MaxRounds)  BY <1>1, RoundsAreBounded
<1>3. /\ attempt' = [attempt EXCEPT !.round = @ + 1] /\ refining' = "run" /\ code' = code + 1
      /\ UNCHANGED <<ran, level, asked, overdue, reported>>
  BY <1>2 DEF Repaired
<1>4. attempt'.call = attempt.call /\ attempt'.round = attempt.round + 1 /\ MaxRounds' = MaxRounds
      /\ attempt' \in [call : {1, 2}, round : Nat \ {0}] /\ attempt'.round <= MaxRounds
  BY <1>1, <1>3, RoundsAreBounded DEF RefineInv, RefineTypeOK, MaxRounds
<1>5. CodesFitRounds'
  <2>1. FirstRounds \in Nat  BY RoundsAssumption
  <2>2. MaxRounds <= FirstRounds \/ attempt.call = 2  BY <1>1, RoundsAssumption DEF MaxRounds
  <2>. QED  BY <1>1, <1>3, <1>4, <2>1, <2>2, RoundsAreBounded DEF RefineInv, CodesFitRounds
<1>6. RefineTypeOK'
  <2>1. code' \in 0..(FirstRounds + SecondRounds)
    <3>1. attempt'.call = 1 => attempt'.round <= FirstRounds  BY <1>4, RoundsAreBounded
    <3>2. attempt'.call = 2 => attempt'.round <= SecondRounds
      BY <1>4 DEF MaxRounds
    <3>. QED  BY <1>1, <1>3, <1>4, <1>5, <3>1, <3>2, RoundsAssumption DEF CodesFitRounds
  <2>2. ran' \in -1..code'  BY <1>1, <1>3 DEF RefineInv, RefineTypeOK
  <2>3. reported' \in [code : -1..code', execution : {"none", "succeeded", "failed", "raised"}]
    BY <1>1, <1>3 DEF RefineInv, RefineTypeOK
  <2>. QED  BY <1>3, <1>4, <2>1, <2>2, <2>3 DEF RefineInv, RefineTypeOK
<1>7. FixedCodeRan' /\ SecondCallIsWide' /\ ReportedAtEnd'
  BY <1>3, <1>4 DEF RefineInv, FixedCodeRan, SecondCallIsWide, ReportedAtEnd, Repaired
<1>8. ReportedCodeRan' /\ NetworkIsGranted'
  BY <1>3, <1>4 DEF RefineInv, ReportedCodeRan, NetworkIsGranted
<1>. QED  BY <1>5, <1>6, <1>7, <1>8 DEF RefineInv

LEMMA NotRepairedInv == ASSUME RefineInv, NotRepaired PROVE RefineInv'
<1>1. ran' = code  BY DEF NotRepaired, RefineInv, FixedCodeRan
<1>. QED  BY <1>1, ReportKeepsInv DEF NotRepaired, RefineInv, RefineTypeOK

\* Reviews, sweeps and time touch only requests, and no approved one.
LEMMA RequestsInv ==
    ASSUME RefineInv, UNCHANGED <<refining, attempt, code, ran, level, reported>>,
           asked' \in [Rounds -> {Unfiled, "pending", "approved", "denied", "expired"}],
           overdue' \subseteq Rounds,
           \A r \in Rounds : asked[r] = "approved" => asked'[r] = "approved"
    PROVE  RefineInv'
<1>1. RefineTypeOK'  BY DEF RefineInv, RefineTypeOK, MaxRounds
<1>2. CodesFitRounds' /\ FixedCodeRan' /\ SecondCallIsWide' /\ ReportedAtEnd'
  BY DEF RefineInv, CodesFitRounds, FixedCodeRan, SecondCallIsWide, ReportedAtEnd, MaxRounds
<1>3. ReportedCodeRan' /\ NetworkIsGranted'
  BY DEF RefineInv, ReportedCodeRan, NetworkIsGranted
<1>. QED  BY <1>1, <1>2, <1>3 DEF RefineInv

LEMMA ReviewInv == ASSUME RefineInv, NEW r \in Rounds, NEW v \in {"approved", "denied"}, Review(r, v) PROVE RefineInv'
  BY RequestsInv DEF Review, RefineInv, RefineTypeOK, Unfiled

LEMMA ExpireInv == ASSUME RefineInv, ExpirePending PROVE RefineInv'
  BY RequestsInv DEF ExpirePending, RefineInv, RefineTypeOK, Unfiled

LEMMA OverdueInv == ASSUME RefineInv, NEW r \in Rounds, GetsOverdue(r) PROVE RefineInv'
  BY RequestsInv DEF GetsOverdue, RefineInv, RefineTypeOK, Unfiled

-----------------------------------------------------------------------------
\* RefineInv is an inductive invariant of the refinement.
THEOREM RefineNextInv == RefineInv /\ [RefineNext]_refineVars => RefineInv'
<1>. SUFFICES ASSUME RefineInv, [RefineNext]_refineVars PROVE RefineInv'  OBVIOUS
<1>1. CASE RefineStep
  BY <1>1, SucceedsInv, FailsByItselfInv, LacksNetworkInv, AskingFailsInv, RaisesInv, SeesGrantInv,
     SeesRefusalInv, WaitTimesOutInv, RepairedInv, NotRepairedInv DEF RefineStep
<1>2. CASE TimeStep  BY <1>2, OverdueInv DEF TimeStep
<1>3. CASE ExpirePending  BY <1>3, ExpireInv
<1>4. CASE \E r \in Rounds, v \in {"approved", "denied"} : Review(r, v)  BY <1>4, ReviewInv
<1>5. CASE UNCHANGED refineVars
  BY <1>5, RequestsInv DEF refineVars, RefineInv, RefineTypeOK
<1>. QED  BY <1>1, <1>2, <1>3, <1>4, <1>5 DEF RefineNext

\* RefineInv holds of every behaviour of the refinement (refine_loop.py).
THEOREM RefineInvariant == RefineSpec => []RefineInv
<1>1. RefineInit => RefineInv  BY RefineInitInv
<1>2. RefineInv /\ [RefineNext]_refineVars => RefineInv'  BY RefineNextInv
<1>. QED  BY <1>1, <1>2, PTL DEF RefineSpec

\* Every variable keeps its type and every round its limit, for any number of rounds.
THEOREM RefineTypes == RefineSpec => []RefineTypeOK
<1>1. RefineInv => RefineTypeOK  BY DEF RefineInv
<1>. QED  BY <1>1, RefineInvariant, PTL

\* The code in the artifact is the code that was run last (refine_loop.py:152).
THEOREM ReportedCodeHasRun == RefineSpec => []ReportedCodeRan
<1>1. RefineInv => ReportedCodeRan  BY DEF RefineInv
<1>. QED  BY <1>1, RefineInvariant, PTL

\* The second call has an approval to go on, now and ever after.
THEOREM NetworkNeedsGrant == RefineSpec => []NetworkIsGranted
<1>1. RefineInv => NetworkIsGranted  BY DEF RefineInv
<1>. QED  BY <1>1, RefineInvariant, PTL

-----------------------------------------------------------------------------
(* Each step of the two calls takes away from what is left of them.        *)

RoundsLeft == (IF attempt.call = 1 THEN FirstRounds + SecondRounds ELSE SecondRounds) - attempt.round

Unfinished == CASE refining = "run" -> 3 [] refining = "ask" -> 2 [] refining = "fix" -> 1 [] OTHER -> 0

RefineLeft == 4 * RoundsLeft + Unfinished

LEMMA RoundsLeftIsNatural == ASSUME RefineInv PROVE RoundsLeft \in Nat
<1>1. CASE attempt.call = 1  BY <1>1, RoundsAssumption DEF RefineInv, RefineTypeOK, MaxRounds, RoundsLeft
<1>2. CASE attempt.call = 2  BY <1>2, RoundsAssumption DEF RefineInv, RefineTypeOK, MaxRounds, RoundsLeft
<1>. QED  BY <1>1, <1>2 DEF RefineInv, RefineTypeOK

LEMMA RefineLeftIsNatural == RefineInv => RefineLeft \in Nat
<1>1. Unfinished \in 0..3  BY DEF Unfinished
<1>. QED  BY <1>1, RoundsLeftIsNatural DEF RefineLeft

\* A round that goes on, or is the last one.
LEMMA RoundTakes ==
    ASSUME RefineInv, UNCHANGED attempt,
           \/ refining = "run" /\ refining' \in {"ask", "fix", "over"}
           \/ refining = "ask" /\ refining' \in {"fix", "over"}
           \/ refining = "fix" /\ refining' = "over"
    PROVE  RefineLeft' < RefineLeft
<1>1. RoundsLeft' = RoundsLeft /\ RoundsLeft \in Nat  BY RoundsLeftIsNatural DEF RoundsLeft
<1>2. PICK u \in Int, u1 \in Int : u = Unfinished /\ u1 = Unfinished' /\ u1 < u  BY DEF Unfinished
<1>3. PICK r \in Int : r = RoundsLeft  BY <1>1
<1>4. 4 * r + u1 < 4 * r + u
  <2>1. u1 < u  BY <1>2
  <2>. QED  BY <2>1
<1>. QED  BY <1>1, <1>2, <1>3, <1>4 DEF RefineLeft

\* A round that makes way for another one, of the same call or of the second.
LEMMA NextRoundTakes ==
    ASSUME RefineInv, refining \in {"ask", "fix"}, refining' = "run",
           \/ attempt' = [attempt EXCEPT !.round = @ + 1]
           \/ attempt.call = 1 /\ attempt' = [call |-> 2, round |-> 1]
    PROVE  RefineLeft' < RefineLeft
<1>1. attempt.call \in {1, 2} /\ attempt.round \in Nat \ {0} /\ (attempt.call = 1 => attempt.round <= FirstRounds)
  BY DEF RefineInv, RefineTypeOK, MaxRounds
<1>2. PICK r \in Int : r = RoundsLeft  BY RoundsLeftIsNatural
<1>3. PICK r1 \in Int : r1 = RoundsLeft'  BY <1>1, RoundsAssumption DEF RoundsLeft, RefineInv, RefineTypeOK
<1>4. r1 <= r - 1
  <2>1. CASE attempt' = [attempt EXCEPT !.round = @ + 1]
    <3>1. attempt'.call = attempt.call /\ attempt'.round = attempt.round + 1
      BY <2>1 DEF RefineInv, RefineTypeOK
    <3>. QED  BY <1>1, <1>2, <1>3, <3>1, RoundsAssumption DEF RoundsLeft
  <2>2. CASE attempt.call = 1 /\ attempt' = [call |-> 2, round |-> 1]
    BY <1>1, <1>2, <1>3, <2>2, RoundsAssumption DEF RoundsLeft
  <2>. QED  BY <2>1, <2>2
<1>5. Unfinished \in 1..2 /\ Unfinished' = 3  BY DEF Unfinished
<1>. QED  BY <1>2, <1>3, <1>4, <1>5 DEF RefineLeft

LEMMA FailureTakes ==
    ASSUME RefineInv, RunFails, refining \in {"run", "ask"}, UNCHANGED attempt PROVE RefineLeft' < RefineLeft
<1>1. refining' \in {"fix", "over"}  BY DEF RunFails, Report
<1>. QED  BY <1>1, RoundTakes

LEMMA StepOfCallTakes == ASSUME RefineInv, RefineStep PROVE RefineLeft' < RefineLeft
<1>1. CASE RunSucceeds \/ RunLacksNetwork \/ RunRaises \/ NotRepaired
  BY <1>1, RoundTakes DEF RunSucceeds, RunLacksNetwork, RunRaises, NotRepaired, Report
<1>2. CASE RunFailsByItself \/ AskingFails \/ SeesRefusal \/ WaitTimesOut
  BY <1>2, FailureTakes DEF RunFailsByItself, AskingFails, SeesRefusal, WaitTimesOut
<1>3. CASE SeesGrant
  <2>1. attempt.call = 1  BY <1>3 DEF SeesGrant, RefineInv, FixedCodeRan
  <2>. QED  BY <1>3, <2>1, NextRoundTakes DEF SeesGrant
<1>4. CASE Repaired
  <2>1. CASE Report(code + 1, "failed") /\ UNCHANGED attempt
    BY <1>4, <2>1, RoundTakes DEF Repaired, Report
  <2>2. CASE attempt' = [attempt EXCEPT !.round = @ + 1] /\ refining' = "run"
    BY <1>4, <2>2, NextRoundTakes DEF Repaired
  <2>. QED  BY <1>4, <2>1, <2>2 DEF Repaired
<1>. QED  BY <1>1, <1>2, <1>3, <1>4 DEF RefineStep

\* Whatever is repaired, granted, refused or not answered, the rounds come to an end: what is
\* left of the two calls is a number, each of their steps makes it smaller, and neither the
\* passing of time nor the reviews of requests change it.
THEOREM RoundsComeToAnEnd ==
    RefineSpec => /\ [](RefineLeft \in Nat)
                  /\ [][RefineStep => RefineLeft' < RefineLeft]_refineVars
                  /\ [][~RefineStep => RefineLeft' = RefineLeft]_refineVars
<1>1. ASSUME RefineInv, [RefineNext]_refineVars
      PROVE  /\ [RefineStep => RefineLeft' < RefineLeft]_refineVars
             /\ [~RefineStep => RefineLeft' = RefineLeft]_refineVars
  <2>1. RefineStep => RefineLeft' < RefineLeft  BY <1>1, StepOfCallTakes
  <2>2. ASSUME ~RefineStep PROVE RefineLeft' = RefineLeft
    <3>1. UNCHANGED <<refining, attempt>>
      BY <1>1, <2>2 DEF RefineNext, TimeStep, GetsOverdue, ExpirePending, Review, refineVars
    <3>. QED  BY <3>1 DEF RefineLeft, RoundsLeft, Unfinished
  <2>. QED  BY <2>1, <2>2
<1>. QED  BY <1>1, RefineInvariant, RefineLeftIsNatural, PTL DEF RefineSpec

-----------------------------------------------------------------------------
(* The bench: it runs one part at a time, and that part runs as it would   *)
(* by itself.                                                              *)

LEMMA BenchBegins == MCInit => RouteInit /\ BorrowInit /\ LLMInit /\ RefineInit
  BY DEF MCInit

LEMMA BenchSteps ==
    [MCNext]_mcVars => /\ [RouteStep]_routeVars /\ [BorrowNext]_borrowVars
                       /\ [LLMNext]_llmVars /\ [RefineNext]_refineVars
<1>. SUFFICES ASSUME [MCNext]_mcVars
              PROVE  /\ [RouteStep]_routeVars /\ [BorrowNext]_borrowVars
                     /\ [LLMNext]_llmVars /\ [RefineNext]_refineVars
  OBVIOUS
<1>1. CASE RoutingMoves  BY <1>1 DEF RoutingMoves
<1>2. CASE BorrowingMoves(BorrowNext)  BY <1>2 DEF BorrowingMoves
<1>3. CASE CallingMoves(LLMNext)  BY <1>3 DEF CallingMoves
<1>4. CASE RefiningMoves(RefineNext)  BY <1>4 DEF RefiningMoves
<1>5. CASE UNCHANGED mcVars  BY <1>5 DEF mcVars
<1>. QED  BY <1>1, <1>2, <1>3, <1>4, <1>5 DEF MCNext

\* What is proved of each part by itself holds on the bench.
THEOREM BenchInvariant == MCSpec => [](RouteInv /\ BorrowInv /\ GatewayInv /\ RefineInv)
<1>1. MCInit => RouteInv /\ BorrowInv /\ GatewayInv /\ RefineInv
  BY BenchBegins, RouteInitInv, BorrowInitInv, GatewayInit, RefineInitInv
<1>2. RouteInv /\ BorrowInv /\ GatewayInv /\ RefineInv /\ [MCNext]_mcVars
      => (RouteInv /\ BorrowInv /\ GatewayInv /\ RefineInv)'
  BY BenchSteps, RouteNextInv, BorrowNextInv, GatewayNext, RefineNextInv
<1>. QED  BY <1>1, <1>2, PTL DEF MCSpec

\* Every variable of the bench keeps its type.
THEOREM DeliberationTypes == MCSpec => []DeliberationTypeOK
<1>1. RouteInv => RouteTypeOK  BY DEF RouteInv
<1>2. BorrowInv => BorrowTypeOK  BY DEF BorrowInv, BorrowTypeOK, ListOK, Row
<1>3. GatewayInv => LLMTypeOK  BY DEF GatewayInv, LLMTypeOK, RowOK, Call
<1>4. RefineInv => RefineTypeOK  BY DEF RefineInv
<1>5. RouteTypeOK /\ BorrowTypeOK /\ LLMTypeOK /\ RefineTypeOK => DeliberationTypeOK
  BY DEF DeliberationTypeOK
<1>. QED  BY <1>1, <1>2, <1>3, <1>4, <1>5, BenchInvariant, PTL

=============================================================================
