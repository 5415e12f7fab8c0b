------------------------------- MODULE MCWorkshop -------------------------------
(***************************************************************************)
(* Six parts around the meetings, each checked by itself: issues and their *)
(* merges, service containers, a round of debate, the production of a      *)
(* service, browser contexts, and WebSocket connections.  They share no    *)
(* state, so one run checks them in turn: active, chosen at the start, is  *)
(* the part that moves.                                                    *)
(***************************************************************************)
EXTENDS TLC, IssueWorkflow, SandboxServices, DebateRound, ServiceProduction, BrowserPool, WsConnections

CONSTANTS Plain, Moving   \* two meetings that deploy

VARIABLE active

mcVars == <<active, issueVars, svcVars, roundVars, productionVars, poolVars, wsVars>>

\* The meeting whose deployments go wrong deploys once, the other one twice.
MCDeploys == (Plain :> 2) @@ (Moving :> 1)

MCInit ==
    /\ active \in {"issues", "services", "round", "production", "pool", "sockets"}
    /\ IssueInit /\ SvcInit /\ RoundInit /\ ProductionInit /\ PoolInit /\ WsInit

Others(part, rest) == active = part /\ UNCHANGED <<active, rest>>

MCNext ==
    \/ IssueNext /\ Others("issues", <<svcVars, roundVars, productionVars, poolVars, wsVars>>)
    \/ SvcNext /\ Others("services", <<issueVars, roundVars, productionVars, poolVars, wsVars>>)
    \/ RoundNext /\ Others("round", <<issueVars, svcVars, productionVars, poolVars, wsVars>>)
    \/ ProductionNext /\ Others("production", <<issueVars, svcVars, roundVars, poolVars, wsVars>>)
    \/ PoolNext /\ Others("pool", <<issueVars, svcVars, roundVars, productionVars, wsVars>>)
    \/ WsNext /\ Others("sockets", <<issueVars, svcVars, roundVars, productionVars, poolVars>>)

MCSpec == MCInit /\ [][MCNext]_mcVars

-----------------------------------------------------------------------------
\* The type invariant of the part that moves; the others stand at their initial states.
WorkshopTypeOK == CASE active = "issues"     -> IssueTypeOK
                    [] active = "services"   -> SvcTypeOK
                    [] active = "round"      -> RoundTypeOK
                    [] active = "production" -> ProductionTypeOK
                    [] active = "pool"       -> PoolTypeOK
                    [] active = "sockets"    -> WsTypeOK

=============================================================================
