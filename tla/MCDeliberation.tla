----------------------------- MODULE MCDeliberation -----------------------------
(***************************************************************************)
(* Four parts a meeting goes through, each checked by itself: its way      *)
(* through the stages, loans of agents, calls of the LLM, and the          *)
(* refinement of code.  They share no state, so one run checks them in     *)
(* turn: active, chosen at the start, is the part that moves.              *)
(***************************************************************************)
EXTENDS StageRouting, BorrowDesk, LLMGateway, CodeRefinement

VARIABLE active

mcVars == <<active, routeVars, borrowVars, llmVars, refineVars>>

\* Providers: one that is sound behind one that fails in three ways, and one that does in
\* five but for some answers.
MCChains == {<<{"invalid", "unparsable", "broke"}, {"valid"}>>,
             <<{"unreachable", "rejected", "valid", "malformed", "unparsable"}>>}

MCPinned     == {"design", "feasibility"}
MCDecomposed == {"analysis"}

\* The part at rest stands at one of its initial states, whichever.
AtRest(part, whichever) == active # part => whichever

MCInit ==
    /\ active \in {"routing", "borrowing", "calling", "refining"}
    /\ RouteInit /\ AtRest("routing", plan.flow = "plan" /\ plan.dynamic)
    /\ BorrowInit /\ AtRest("borrowing", charter = {})
    /\ LLMInit /\ AtRest("calling", \A c \in Callers : call[c].chain = CHOOSE x \in Chains : TRUE)
    /\ RefineInit /\ AtRest("refining", level = "L1")

RoutingMoves   == active = "routing" /\ RouteStep /\ UNCHANGED <<active, borrowVars, llmVars, refineVars>>
BorrowingMoves(move) == active = "borrowing" /\ move /\ UNCHANGED <<active, routeVars, llmVars, refineVars>>
CallingMoves(move)   == active = "calling" /\ move /\ UNCHANGED <<active, routeVars, borrowVars, refineVars>>
RefiningMoves(move)  == active = "refining" /\ move /\ UNCHANGED <<active, routeVars, borrowVars, llmVars>>

MCNext == RoutingMoves \/ BorrowingMoves(BorrowNext) \/ CallingMoves(LLMNext) \/ RefiningMoves(RefineNext)

\* The fairness of RouteSpec, BorrowSpec, LLMSpec and RefineSpec.
MCFairness ==
    /\ WF_mcVars(RoutingMoves)
    /\ WF_mcVars(BorrowingMoves(DeskStep))
    /\ WF_mcVars(CallingMoves(CoolsDown))
    /\ \A c \in Callers : /\ WF_mcVars(CallingMoves(CallStep(c)))
                          /\ WF_mcVars(CallingMoves(\E chain \in Chains : BeginCall(c, chain)))
    /\ WF_mcVars(RefiningMoves(RefineStep)) /\ WF_mcVars(RefiningMoves(TimeStep))

MCSpec == MCInit /\ [][MCNext]_mcVars /\ MCFairness

-----------------------------------------------------------------------------
\* The type invariants of the four parts.
DeliberationTypeOK == RouteTypeOK /\ BorrowTypeOK /\ LLMTypeOK /\ RefineTypeOK

=============================================================================
