----------------------- MODULE SandboxServices_proofs -----------------------
EXTENDS SandboxServices, TLAPS

\* A meeting that stays on the local host has only single containers there.
Local(b) == b.m \notin Rough => b.host = "local" /\ b.kind = "single"

\* A deployment under way is about a box of its own meeting.
DeploysItsOwn ==
    \A m \in Clients : deploy[m].pc # "idle" =>
        deploy[m].box \in Boxes /\ deploy[m].box.m = m /\ Local(deploy[m].box)

StayLocal == \A b \in up : Local(b)

\* Once the predecessor is removed nothing of the meeting runs but what the deployment
\* itself has started: nobody else starts containers of the meeting.
OnlyItsOwn ==
    \A m \in Clients \ Rough, b \in up : b.m = m =>
        /\ deploy[m].pc # "cleaned"
        /\ deploy[m].pc \in {"polling", "failing"} => b = deploy[m].box

SvcInv == SvcTypeOK /\ DeploysItsOwn /\ StayLocal /\ OnlyItsOwn /\ NoOrphan

DeployStages == {"idle", "allocated", "cleaned", "polling", "failing"}
Deployment   == [pc : DeployStages, n : Nat, box : Boxes \cup {NoBox}]
PoppedStop   == [by : {"abort", "cleanup"}, box : Boxes]

LEMMA SvcTypesOfParts ==
    ASSUME SvcTypeOK
    PROVE  /\ deploy \in [Clients -> Deployment] /\ services \in [Clients -> Boxes \cup {NoBox}]
           /\ up \subseteq Boxes /\ leftover \subseteq Boxes /\ stopping \subseteq PoppedStop
           /\ closing \subseteq Clients /\ warmup \in {"checking", "sweeping", "done", "failed"}
           /\ restarts \in 0..MaxRestarts
  BY DEF SvcTypeOK, Deployment, DeployStages, PoppedStop

LEMMA SvcPartsHaveTypes ==
    ASSUME deploy \in [Clients -> Deployment], services \in [Clients -> Boxes \cup {NoBox}],
           up \subseteq Boxes, leftover \subseteq Boxes, stopping \subseteq PoppedStop,
           closing \subseteq Clients, warmup \in {"checking", "sweeping", "done", "failed"},
           restarts \in 0..MaxRestarts
    PROVE  SvcTypeOK
  BY DEF SvcTypeOK, Deployment, DeployStages, PoppedStop

LEMMA BoxMeeting == \A b \in Boxes : b.m \in Clients
  BY DEF Boxes

\* A step of a deployment to another stage.
LEMMA StandsStep ==
    ASSUME deploy \in [Clients -> Deployment], NEW m \in Clients, NEW pc \in DeployStages, Stands(m, pc)
    PROVE  /\ deploy' \in [Clients -> Deployment]
           /\ deploy'[m].pc = pc /\ deploy'[m].box = deploy[m].box
           /\ \A k \in Clients \ {m} : deploy'[k] = deploy[k]
<1>1. /\ deploy' \in [Clients -> Deployment] /\ deploy'[m] = [deploy[m] EXCEPT !.pc = pc]
      /\ \A k \in Clients \ {m} : deploy'[k] = deploy[k]
  BY DEF Stands, Deployment
<1>2. deploy'[m].pc = pc /\ deploy'[m].box = deploy[m].box  BY <1>1 DEF Deployment
<1>. QED  BY <1>1, <1>2

\* A host without containers satisfies SvcInv.
THEOREM SvcInitInv == SvcInit => SvcInv
<1>. SUFFICES ASSUME SvcInit PROVE SvcInv  OBVIOUS
<1>1. SvcTypeOK
  BY PortsAssumption, SvcPartsHaveTypes DEF SvcInit, Deployment, DeployStages
<1>2. DeploysItsOwn /\ StayLocal /\ OnlyItsOwn /\ NoOrphan
  BY DEF SvcInit, DeploysItsOwn, StayLocal, OnlyItsOwn, NoOrphan
<1>. QED  BY <1>1, <1>2 DEF SvcInv

-----------------------------------------------------------------------------
(* deploy_service                                                          *)

LEMMA DeployInv ==
    ASSUME SvcInv, NEW m \in Clients, NEW host \in Hosts, NEW kind \in {"single", "compose"},
           Deploy(m, host, kind)
    PROVE  SvcInv'
<1>. DEFINE n == deploy[m].n + 1
<1>1. PICK port \in FreePorts :
        deploy' = [deploy EXCEPT ![m] = [pc |-> "allocated", n |-> n, box |->
                     [m |-> m, n |-> n, host |-> host, kind |-> kind, port |-> port]]]
  BY DEF Deploy
<1>. DEFINE box == [m |-> m, n |-> n, host |-> host, kind |-> kind, port |-> port]
<1>2. deploy' = [deploy EXCEPT ![m] = [pc |-> "allocated", n |-> n, box |-> box]]  BY <1>1
<1>0. port \in Ports  BY DEF FreePorts
<1>3. n \in Nat \ {0}  BY SvcTypesOfParts DEF SvcInv, Deployment
<1>. HIDE DEF n
<1>4. box \in Boxes /\ box.m = m /\ Local(box)
  BY <1>0, <1>3 DEF Boxes, Local, Deploy
<1>. HIDE DEF box
<1>5. /\ deploy' \in [Clients -> Deployment] /\ deploy'[m].pc = "allocated" /\ deploy'[m].box = box
      /\ \A k \in Clients \ {m} : deploy'[k] = deploy[k]
  BY <1>2, <1>3, <1>4, SvcTypesOfParts DEF SvcInv, Deployment, DeployStages
<1>6. UNCHANGED <<services, up, stopping, closing, warmup, leftover, restarts>>  BY DEF Deploy
<1>7. SvcTypeOK'  BY <1>5, <1>6, SvcTypesOfParts, SvcPartsHaveTypes DEF SvcInv, SvcTypeOK, Deployment, DeployStages, PoppedStop
<1>8. DeploysItsOwn'  BY <1>4, <1>5 DEF SvcInv, DeploysItsOwn
<1>9. StayLocal' /\ OnlyItsOwn'  BY <1>5, <1>6 DEF SvcInv, StayLocal, OnlyItsOwn
<1>10. NoOrphan'  BY <1>5, <1>6, SvcTypesOfParts, BoxMeeting DEF SvcInv, NoOrphan, Deploy
<1>. QED  BY <1>7, <1>8, <1>9, <1>10 DEF SvcInv

\* What every step of a deployment of m that is under way keeps, of m and of the others.
LEMMA DeploymentStep ==
    ASSUME SvcInv, NEW m \in Clients, NEW pc \in DeployStages, Stands(m, pc), deploy[m].pc # "idle",
           up' \subseteq up \cup {deploy[m].box},
           UNCHANGED <<services, stopping, closing, warmup, leftover, restarts>>,
           m \notin Rough => \A b \in up' : b.m = m =>
               /\ pc # "cleaned"
               /\ pc \in {"polling", "failing"} => b = deploy[m].box
               /\ pc \in {"allocated", "polling", "failing"}
    PROVE  SvcInv'
<1>1. /\ deploy' \in [Clients -> Deployment] /\ deploy'[m].pc = pc
      /\ deploy'[m].box = deploy[m].box /\ \A k \in Clients \ {m} : deploy'[k] = deploy[k]
  BY StandsStep, SvcTypesOfParts DEF SvcInv
<1>2. deploy[m].box \in Boxes /\ deploy[m].box.m = m /\ Local(deploy[m].box)
  BY DEF SvcInv, DeploysItsOwn
<1>3. SvcTypeOK'
  BY <1>1, <1>2, SvcTypesOfParts, SvcPartsHaveTypes DEF SvcInv, SvcTypeOK, Deployment, DeployStages, PoppedStop
<1>4. DeploysItsOwn'  BY <1>1, <1>2 DEF SvcInv, DeploysItsOwn, Local
<1>5. StayLocal'  BY <1>2 DEF SvcInv, StayLocal, Local
<1>6. OnlyItsOwn'
  <2>. SUFFICES ASSUME NEW k \in Clients \ Rough, NEW b \in up', b.m = k
                PROVE  /\ deploy'[k].pc # "cleaned"
                       /\ deploy'[k].pc \in {"polling", "failing"} => b = deploy'[k].box
    BY DEF OnlyItsOwn
  <2>1. CASE k = m  BY <2>1, <1>1
  <2>2. CASE k # m  BY <2>2, <1>1, <1>2 DEF SvcInv, OnlyItsOwn
  <2>. QED  BY <2>1, <2>2
<1>7. NoOrphan'
  <2>. SUFFICES ASSUME NEW b \in up', b.m \notin Rough
                PROVE  \/ deploy'[b.m].pc \in {"allocated", "polling", "failing"}
                       \/ services[b.m] = b
                       \/ \E s \in stopping : s.box = b
                       \/ warmup = "checking" \/ b \in leftover
    BY DEF NoOrphan
  <2>1. CASE b.m = m  BY <2>1, <1>1
  <2>2. CASE b.m # m
    <3>1. b \in up /\ b.m \in Clients \ {m}
      BY <2>2, <1>2, SvcTypesOfParts, BoxMeeting DEF SvcInv
    <3>. QED  BY <3>1, <1>1 DEF SvcInv, NoOrphan
  <2>. QED  BY <2>1, <2>2
<1>. QED  BY <1>3, <1>4, <1>5, <1>6, <1>7 DEF SvcInv

\* A deployment that leaves the stage in which its meeting has nothing running: it ends.
LEMMA DeploymentEnds ==
    ASSUME SvcInv, NEW m \in Clients, Stands(m, "idle"), deploy[m].pc # "idle",
           up' \subseteq up \cup {deploy[m].box},
           UNCHANGED <<services, stopping, closing, warmup, leftover, restarts>>,
           m \notin Rough => \A b \in up' : b.m # m
    PROVE  SvcInv'
  BY DeploymentStep DEF DeployStages

LEMMA RemovePredecessorInv ==
    ASSUME SvcInv, NEW m \in Clients, RemovePredecessor(m) PROVE SvcInv'
<1>1. up' \subseteq up  BY DEF RemovePredecessor, Namesakes
<1>2. ASSUME m \notin Rough, NEW b \in up', b.m = m PROVE FALSE
  <2>1. b \in up /\ b \notin Namesakes(deploy[m].box)  BY <1>1, <1>2 DEF RemovePredecessor
  <2>2. Local(b) /\ Local(deploy[m].box) /\ deploy[m].box.m = m
    BY <2>1 DEF RemovePredecessor, SvcInv, StayLocal, DeploysItsOwn
  <2>. QED  BY <1>2, <2>1, <2>2 DEF Local, Namesakes
<1>. QED  BY <1>1, <1>2, DeploymentStep DEF RemovePredecessor, DeployStages

LEMMA StartBoxInv ==
    ASSUME SvcInv, NEW m \in Clients, StartBox(m) PROVE SvcInv'
<1>1. m \notin Rough => \A b \in up : b.m # m  BY DEF StartBox, SvcInv, OnlyItsOwn
<1>. QED  BY <1>1, DeploymentStep DEF StartBox, DeployStages

LEMMA StartFailsInv ==
    ASSUME SvcInv, NEW m \in Clients, StartFails(m) PROVE SvcInv'
<1>1. m \notin Rough => \A b \in up : b.m # m  BY DEF StartFails, SvcInv, OnlyItsOwn
<1>. QED  BY <1>1, DeploymentEnds DEF StartFails

LEMMA UnhealthyInv ==
    ASSUME SvcInv, NEW m \in Clients, Unhealthy(m) PROVE SvcInv'
<1>1. m \notin Rough => \A b \in up : b.m = m => b = deploy[m].box
  BY DEF Unhealthy, SvcInv, OnlyItsOwn
<1>. QED  BY <1>1, DeploymentStep DEF Unhealthy, DeployStages

LEMMA DiscardBoxInv ==
    ASSUME SvcInv, NEW m \in Clients, DiscardBox(m) PROVE SvcInv'
<1>1. up' \subseteq up  BY DEF DiscardBox, Namesakes
<1>2. ASSUME m \notin Rough, NEW b \in up', b.m = m PROVE FALSE
  <2>1. b \in up /\ b = deploy[m].box  BY <1>1, <1>2 DEF DiscardBox, SvcInv, OnlyItsOwn
  <2>2. deploy[m].box.kind = "single"  BY <1>2, <2>1 DEF SvcInv, StayLocal, Local
  <2>. QED  BY <1>2, <2>1, <2>2 DEF DiscardBox
<1>. QED  BY <1>1, <1>2, DeploymentEnds DEF DiscardBox

LEMMA CancelDeployInv ==
    ASSUME SvcInv, NEW m \in Clients, CancelDeploy(m) PROVE SvcInv'
  BY DeploymentEnds DEF CancelDeploy

LEMMA RegisterServiceInv ==
    ASSUME SvcInv, NEW m \in Clients, RegisterService(m) PROVE SvcInv'
<1>1. /\ deploy' \in [Clients -> Deployment] /\ deploy'[m].pc = "idle"
      /\ deploy'[m].box = deploy[m].box /\ \A k \in Clients \ {m} : deploy'[k] = deploy[k]
  BY StandsStep, SvcTypesOfParts DEF SvcInv, RegisterService, DeployStages
<1>2. deploy[m].box \in Boxes /\ deploy[m].box.m = m /\ Local(deploy[m].box)
  BY DEF SvcInv, DeploysItsOwn, RegisterService
<1>3. /\ services' \in [Clients -> Boxes \cup {NoBox}] /\ services'[m] = deploy[m].box
      /\ \A k \in Clients \ {m} : services'[k] = services[k]
  BY <1>2, SvcTypesOfParts DEF SvcInv, RegisterService
<1>4. UNCHANGED <<up, stopping, closing, warmup, leftover, restarts>>  BY DEF RegisterService
<1>5. SvcTypeOK'
  BY <1>1, <1>3, <1>4, SvcTypesOfParts, SvcPartsHaveTypes DEF SvcInv, SvcTypeOK, Deployment, DeployStages, PoppedStop
<1>6. DeploysItsOwn' /\ StayLocal' /\ OnlyItsOwn'
  BY <1>1, <1>4 DEF SvcInv, DeploysItsOwn, StayLocal, OnlyItsOwn
<1>7. NoOrphan'
  <2>. SUFFICES ASSUME NEW b \in up, b.m \notin Rough
                PROVE  \/ deploy'[b.m].pc \in {"allocated", "polling", "failing"}
                       \/ services'[b.m] = b
                       \/ \E s \in stopping : s.box = b
                       \/ warmup = "checking" \/ b \in leftover
    BY <1>4 DEF NoOrphan
  <2>1. CASE b.m = m
    BY <2>1, <1>3 DEF SvcInv, OnlyItsOwn, RegisterService
  <2>2. CASE b.m # m
    BY <2>2, <1>1, <1>3, SvcTypesOfParts, BoxMeeting DEF SvcInv, NoOrphan
  <2>. QED  BY <2>1, <2>2
<1>. QED  BY <1>5, <1>6, <1>7 DEF SvcInv

-----------------------------------------------------------------------------
(* The rest: no deployment moves.                                          *)

\* What is still to be shown when the deployments are as they were and no box has started.
LEMMA DeploymentsRest ==
    ASSUME SvcInv, UNCHANGED deploy, up' \subseteq up
    PROVE  DeploysItsOwn' /\ StayLocal' /\ OnlyItsOwn'
  BY DEF SvcInv, DeploysItsOwn, StayLocal, OnlyItsOwn

LEMMA BoxExitsInv ==
    ASSUME SvcInv, NEW b \in up, BoxExits(b) PROVE SvcInv'
<1>1. SvcTypeOK'  BY SvcTypesOfParts, SvcPartsHaveTypes DEF BoxExits, SvcInv, SvcTypeOK
<1>2. NoOrphan'  BY DEF BoxExits, SvcInv, NoOrphan
<1>. QED  BY <1>1, <1>2, DeploymentsRest DEF BoxExits, SvcInv

LEMMA PopKeeps ==
    ASSUME SvcInv, NEW m \in Clients, NEW caller \in {"abort", "cleanup"}, Pop(m, caller),
           UNCHANGED <<deploy, up, warmup, leftover, restarts>>, closing' \subseteq Clients
    PROVE  SvcInv'
<1>1. services[m] \in Boxes  BY SvcTypesOfParts DEF Pop, SvcInv
<1>2. SvcTypeOK'
  BY <1>1, SvcTypesOfParts, SvcPartsHaveTypes DEF Pop, SvcInv, SvcTypeOK, Deployment, DeployStages, PoppedStop
<1>3. NoOrphan'
  <2>. SUFFICES ASSUME NEW b \in up, b.m \notin Rough
                PROVE  \/ deploy[b.m].pc \in {"allocated", "polling", "failing"}
                       \/ services'[b.m] = b
                       \/ \E s \in stopping' : s.box = b
                       \/ warmup = "checking" \/ b \in leftover
    BY DEF NoOrphan
  <2>1. CASE b = services[m]
    <3>1. [by |-> caller, box |-> services[m]] \in stopping'  BY DEF Pop
    <3>. QED  BY <2>1, <3>1
  <2>2. CASE b # services[m]
    <3>1. services[b.m] = b => services'[b.m] = b
      BY <2>2, SvcTypesOfParts, BoxMeeting DEF Pop, SvcInv
    <3>2. stopping \subseteq stopping'  BY DEF Pop
    <3>. QED  BY <3>1, <3>2 DEF SvcInv, NoOrphan
  <2>. QED  BY <2>1, <2>2
<1>. QED  BY <1>2, <1>3, DeploymentsRest DEF SvcInv

LEMMA AbortStopsInv ==
    ASSUME SvcInv, NEW m \in Clients, AbortStops(m) PROVE SvcInv'
  BY PopKeeps, SvcTypesOfParts DEF AbortStops, SvcInv

LEMMA CloseNextInv ==
    ASSUME SvcInv, NEW m \in Clients, CloseNext(m) PROVE SvcInv'
<1>1. closing' \subseteq Clients  BY SvcTypesOfParts DEF CloseNext, SvcInv
<1>2. CASE Pop(m, "cleanup")  BY <1>1, <1>2, PopKeeps DEF CloseNext
<1>3. CASE UNCHANGED <<services, stopping>>
  <2>1. SvcTypeOK'  BY <1>1, <1>3, SvcTypesOfParts, SvcPartsHaveTypes DEF CloseNext, SvcInv, SvcTypeOK
  <2>2. NoOrphan'  BY <1>3 DEF CloseNext, SvcInv, NoOrphan
  <2>. QED  BY <2>1, <2>2, DeploymentsRest DEF CloseNext, SvcInv
<1>. QED  BY <1>2, <1>3 DEF CloseNext

\* The stop takes away the box it is about, when that still runs.
LEMMA StopRemovesInv ==
    ASSUME SvcInv, NEW s \in stopping, StopRemoves(s) PROVE SvcInv'
<1>1. up' \subseteq up /\ stopping' \subseteq stopping  BY DEF StopRemoves, RemovedByStop
<1>2. SvcTypeOK'  BY <1>1, SvcTypesOfParts, SvcPartsHaveTypes DEF StopRemoves, SvcInv, SvcTypeOK
<1>3. ASSUME s.box \in up', s.box.m \notin Rough PROVE FALSE
  <2>1. s.box.host = "local" /\ s.box.kind = "single"
    BY <1>1, <1>3 DEF SvcInv, StayLocal, Local
  <2>. QED  BY <1>1, <1>3, <2>1 DEF StopRemoves, RemovedByStop
<1>4. NoOrphan'
  <2>. SUFFICES ASSUME NEW b \in up', b.m \notin Rough
                PROVE  \/ deploy[b.m].pc \in {"allocated", "polling", "failing"}
                       \/ services[b.m] = b
                       \/ \E t \in stopping' : t.box = b
                       \/ warmup = "checking" \/ b \in leftover
    BY DEF StopRemoves, NoOrphan
  <2>1. b # s.box  BY <1>3
  <2>2. \A t \in stopping : t.box = b => t \in stopping'  BY <2>1 DEF StopRemoves
  <2>. QED  BY <1>1, <2>2 DEF SvcInv, NoOrphan
<1>. QED  BY <1>1, <1>2, <1>4, DeploymentsRest DEF StopRemoves, SvcInv

LEMMA ShutdownInv ==
    ASSUME SvcInv, Shutdown PROVE SvcInv'
<1>1. SvcTypeOK'  BY SvcTypesOfParts, SvcPartsHaveTypes DEF Shutdown, SvcInv, SvcTypeOK
<1>2. NoOrphan'  BY DEF Shutdown, SvcInv, NoOrphan
<1>. QED  BY <1>1, <1>2, DeploymentsRest DEF Shutdown, SvcInv

\* The new process knows nothing of what runs, until its warm-up comes to the sweep.
LEMMA RestartInv ==
    ASSUME SvcInv, Restart PROVE SvcInv'
<1>1. /\ deploy' \in [Clients -> Deployment]
      /\ \A m \in Clients : deploy'[m].pc = "idle"
  BY SvcTypesOfParts DEF Restart, SvcInv, Deployment, DeployStages
<1>2. restarts' \in 0..MaxRestarts  BY PortsAssumption, SvcTypesOfParts DEF Restart, SvcInv
<1>3. SvcTypeOK'
  BY <1>1, <1>2, SvcTypesOfParts, SvcPartsHaveTypes DEF Restart, SvcInv, SvcTypeOK, Deployment, DeployStages, PoppedStop
<1>4. DeploysItsOwn' /\ StayLocal' /\ OnlyItsOwn'
  BY <1>1 DEF Restart, SvcInv, DeploysItsOwn, StayLocal, OnlyItsOwn
<1>5. NoOrphan'  BY DEF Restart, NoOrphan
<1>. QED  BY <1>3, <1>4, <1>5 DEF SvcInv

\* However the warm-up comes to its sweep or past it: a meeting that stays on the local
\* host has nothing elsewhere.
LEMMA SweepListsInv ==
    ASSUME SvcInv, SweepLists \/ SweepListsNothing \/ WarmupFails PROVE SvcInv'
<1>0. /\ leftover' = LocalBoxes /\ warmup' \in {"sweeping", "done", "failed"}
      /\ UNCHANGED <<deploy, services, up, stopping, closing, restarts>>
  BY DEF SweepLists, SweepListsNothing, WarmupFails
<1>1. SvcTypeOK'  BY <1>0, SvcTypesOfParts, SvcPartsHaveTypes DEF LocalBoxes, SvcInv, SvcTypeOK
<1>2. \A b \in up : b.m \notin Rough => b \in leftover'
  BY <1>0 DEF LocalBoxes, SvcInv, StayLocal, Local
<1>3. NoOrphan'  BY <1>0, <1>2 DEF NoOrphan
<1>. QED  BY <1>0, <1>1, <1>3, DeploymentsRest DEF SvcInv

LEMMA SweepRemovesInv ==
    ASSUME SvcInv, NEW b \in up, SweepRemoves(b) PROVE SvcInv'
<1>1. SvcTypeOK'  BY SvcTypesOfParts, SvcPartsHaveTypes DEF SweepRemoves, SvcInv, SvcTypeOK
<1>2. NoOrphan'  BY DEF SweepRemoves, SvcInv, NoOrphan
<1>. QED  BY <1>1, <1>2, DeploymentsRest DEF SweepRemoves, SvcInv

LEMMA SweepEndsInv ==
    ASSUME SvcInv, SweepEnds PROVE SvcInv'
<1>1. SvcTypeOK'  BY SvcTypesOfParts, SvcPartsHaveTypes DEF SweepEnds, SvcInv, SvcTypeOK
<1>2. NoOrphan'  BY DEF SweepEnds, SvcInv, NoOrphan
<1>. QED  BY <1>1, <1>2, DeploymentsRest DEF SweepEnds, SvcInv

-----------------------------------------------------------------------------
\* SvcInv is kept by deployments, stops, restarts and the warm-up sweep.
THEOREM SvcNextInv == SvcInv /\ [SvcNext]_svcVars => SvcInv'
<1>. SUFFICES ASSUME SvcInv, [SvcNext]_svcVars PROVE SvcInv'  OBVIOUS
<1>1. ASSUME NEW m \in Clients, DeployStep(m) PROVE SvcInv'
  BY <1>1, DeployInv, RemovePredecessorInv, StartBoxInv, StartFailsInv, RegisterServiceInv,
     UnhealthyInv, DiscardBoxInv, CancelDeployInv DEF DeployStep
<1>2. ASSUME NEW m \in Clients, AbortStops(m) \/ CloseNext(m) PROVE SvcInv'
  BY <1>2, AbortStopsInv, CloseNextInv
<1>3. ASSUME NEW b \in up, BoxExits(b) \/ SweepRemoves(b) PROVE SvcInv'
  BY <1>3, BoxExitsInv, SweepRemovesInv
<1>4. ASSUME NEW s \in stopping, StopRemoves(s) PROVE SvcInv'  BY <1>4, StopRemovesInv
<1>5. CASE Shutdown \/ Restart \/ SweepLists \/ SweepListsNothing \/ SweepEnds \/ WarmupFails
  BY <1>5, ShutdownInv, RestartInv, SweepListsInv, SweepEndsInv
<1>6. CASE UNCHANGED svcVars
  BY <1>6 DEF svcVars, SvcInv, SvcTypeOK, DeploysItsOwn, StayLocal, OnlyItsOwn, NoOrphan
<1>. QED  BY <1>1, <1>2, <1>3, <1>4, <1>5, <1>6 DEF SvcNext

\* The invariant holds of every behaviour.
THEOREM SvcInvariant == SvcSpec => []SvcInv
<1>. QED  BY SvcInitInv, SvcNextInv, PTL DEF SvcSpec

\* Every variable keeps its type.
THEOREM SvcTypes == SvcSpec => []SvcTypeOK
<1>1. SvcInv => SvcTypeOK  BY DEF SvcInv
<1>. QED  BY <1>1, SvcInvariant, PTL

\* A container of a meeting that stays on the local host is always somebody's: a deployment's,
\* the registry's, a stop's, the sweep's, or one the sweep has failed to remove.
THEOREM NoContainerIsOrphaned == SvcSpec => []NoOrphan
<1>1. SvcInv => NoOrphan  BY DEF SvcInv
<1>. QED  BY <1>1, SvcInvariant, PTL

-----------------------------------------------------------------------------
(* A stop and the deployment that overtakes it: boxes are told apart by    *)
(* the number of their deployment.                                         *)

\* A box of a deployment of m that is over.
Earlier(m, b) == IF deploy[m].pc = "idle" THEN b.n <= deploy[m].n ELSE b.n < deploy[m].n

\* A deployment under way is about the box that has its number; what is registered or being
\* stopped is from an earlier one, and never both.
StopsInv ==
    /\ \A m \in Clients : deploy[m].pc # "idle" => deploy[m].box.n = deploy[m].n
    /\ \A m \in Clients : services[m] # NoBox => /\ services[m].m = m /\ Local(services[m])
                                                 /\ Earlier(m, services[m])
    /\ \A s \in stopping : /\ Local(s.box) /\ Earlier(s.box.m, s.box)
                           /\ services[s.box.m] # s.box

LEMMA StopsKeep ==
    ASSUME SvcInv, StopsInv, UNCHANGED <<deploy, services>>, stopping' \subseteq stopping
    PROVE  StopsInv'
  BY SvcTypesOfParts, BoxMeeting DEF StopsInv, Earlier, SvcInv, PoppedStop

\* A deployment that goes on, or ends without a service.
LEMMA StandsKeeps ==
    ASSUME SvcInv, StopsInv, NEW m \in Clients, NEW pc \in DeployStages, Stands(m, pc), deploy[m].pc # "idle",
           UNCHANGED <<services, stopping>>
    PROVE  StopsInv'
<1>1. /\ deploy' \in [Clients -> Deployment] /\ deploy'[m].pc = pc /\ deploy'[m].box = deploy[m].box
      /\ deploy'[m].n = deploy[m].n /\ \A k \in Clients \ {m} : deploy'[k] = deploy[k]
  BY SvcTypesOfParts DEF SvcInv, Stands, Deployment
<1>2. ASSUME NEW b \in Boxes, NEW k \in Clients, Earlier(k, b) PROVE Earlier(k, b)'
  <2>1. b.n \in Nat /\ deploy[k].n \in Nat  BY SvcTypesOfParts DEF SvcInv, Boxes, Deployment
  <2>2. CASE k = m  BY <1>1, <1>2, <2>1, <2>2 DEF Earlier
  <2>3. CASE k # m  BY <1>1, <1>2, <2>3 DEF Earlier
  <2>. QED  BY <2>2, <2>3
<1>3. \A k \in Clients : deploy'[k].pc # "idle" => deploy'[k].box.n = deploy'[k].n
  BY <1>1 DEF StopsInv
<1>4. \A k \in Clients : services[k] # NoBox => services[k].m = k /\ Local(services[k]) /\ Earlier(k, services[k])'
  BY <1>2, SvcTypesOfParts DEF StopsInv, SvcInv
<1>5. \A s \in stopping : Local(s.box) /\ Earlier(s.box.m, s.box)' /\ services[s.box.m] # s.box
  BY <1>2, SvcTypesOfParts, BoxMeeting DEF StopsInv, SvcInv, PoppedStop
<1>. QED  BY <1>3, <1>4, <1>5 DEF StopsInv, Earlier

LEMMA DeployStops ==
    ASSUME SvcInv, StopsInv, NEW m \in Clients, NEW host \in Hosts, NEW kind \in {"single", "compose"},
           Deploy(m, host, kind)
    PROVE  StopsInv'
<1>0. PICK port \in FreePorts :
        deploy' = [deploy EXCEPT ![m] = [pc |-> "allocated", n |-> deploy[m].n + 1, box |->
                     [m |-> m, n |-> deploy[m].n + 1, host |-> host, kind |-> kind, port |-> port]]]
  BY DEF Deploy
<1>. DEFINE box == [m |-> m, n |-> deploy[m].n + 1, host |-> host, kind |-> kind, port |-> port]
<1>1. /\ deploy' = [deploy EXCEPT ![m] = [pc |-> "allocated", n |-> deploy[m].n + 1, box |-> box]]
      /\ box.n = deploy[m].n + 1
  BY <1>0
<1>. HIDE DEF box
<1>2. /\ deploy[m].pc = "idle" /\ deploy'[m].pc = "allocated" /\ deploy'[m].n = deploy[m].n + 1
      /\ deploy'[m].box = box /\ \A k \in Clients \ {m} : deploy'[k] = deploy[k]
      /\ UNCHANGED <<services, stopping>>
  BY <1>1, SvcTypesOfParts DEF SvcInv, Deploy
<1>3. ASSUME NEW b \in Boxes, NEW k \in Clients, Earlier(k, b) PROVE Earlier(k, b)'
  <2>1. b.n \in Nat /\ deploy[k].n \in Nat  BY SvcTypesOfParts DEF SvcInv, Boxes, Deployment
  <2>2. CASE k = m  BY <1>2, <1>3, <2>1, <2>2 DEF Earlier
  <2>3. CASE k # m  BY <1>2, <1>3, <2>3 DEF Earlier
  <2>. QED  BY <2>2, <2>3
<1>4. \A k \in Clients : deploy'[k].pc # "idle" => deploy'[k].box.n = deploy'[k].n
  BY <1>1, <1>2 DEF StopsInv
<1>5. \A k \in Clients : services[k] # NoBox => services[k].m = k /\ Local(services[k]) /\ Earlier(k, services[k])'
  <2>1. ASSUME NEW k \in Clients, services[k] # NoBox
        PROVE  services[k].m = k /\ Local(services[k]) /\ Earlier(k, services[k])'
    <3>1. services[k] \in Boxes /\ Earlier(k, services[k]) /\ services[k].m = k /\ Local(services[k])
      BY <2>1, SvcTypesOfParts DEF StopsInv, SvcInv
    <3>2. Earlier(k, services[k])'  BY <1>2, <1>3, <3>1 DEF Earlier
    <3>. QED  BY <3>1, <3>2
  <2>. QED  BY <2>1
<1>6. \A s \in stopping : Local(s.box) /\ Earlier(s.box.m, s.box)' /\ services[s.box.m] # s.box
  BY <1>3, SvcTypesOfParts, BoxMeeting DEF StopsInv, SvcInv, PoppedStop
<1>. QED  BY <1>2, <1>4, <1>5, <1>6 DEF StopsInv, Earlier

\* A stop of the meeting is about an earlier box than the one that is registered.
LEMMA RegisterStops == ASSUME SvcInv, StopsInv, NEW m \in Clients, RegisterService(m) PROVE StopsInv'
<1>1. /\ deploy[m].pc = "polling" /\ Stands(m, "idle") /\ services' = [services EXCEPT ![m] = deploy[m].box]
      /\ stopping' = stopping
  BY DEF RegisterService
<1>2. /\ deploy' \in [Clients -> Deployment] /\ deploy'[m].pc = "idle" /\ deploy'[m].box = deploy[m].box
      /\ deploy'[m].n = deploy[m].n /\ \A k \in Clients \ {m} : deploy'[k] = deploy[k]
  BY <1>1, SvcTypesOfParts DEF SvcInv, Stands, Deployment, DeployStages
<1>3. /\ deploy[m].box \in Boxes /\ deploy[m].box.m = m /\ Local(deploy[m].box) /\ deploy[m].box.n = deploy[m].n
  BY <1>1 DEF SvcInv, DeploysItsOwn, StopsInv
<1>4. services'[m] = deploy[m].box /\ \A k \in Clients \ {m} : services'[k] = services[k]
  BY <1>1, SvcTypesOfParts DEF SvcInv
<1>5. ASSUME NEW b \in Boxes, NEW k \in Clients, Earlier(k, b) PROVE Earlier(k, b)'
  <2>1. b.n \in Nat /\ deploy[k].n \in Nat  BY SvcTypesOfParts DEF SvcInv, Boxes, Deployment
  <2>2. CASE k = m  BY <1>2, <1>5, <2>1, <2>2 DEF Earlier
  <2>3. CASE k # m  BY <1>2, <1>5, <2>3 DEF Earlier
  <2>. QED  BY <2>2, <2>3
<1>6. \A k \in Clients : deploy'[k].pc # "idle" => deploy'[k].box.n = deploy'[k].n
  BY <1>2 DEF StopsInv
<1>7. \A k \in Clients : services'[k] # NoBox =>
          services'[k].m = k /\ Local(services'[k]) /\ Earlier(k, services[k])'
  <2>1. ASSUME NEW k \in Clients \ {m}, services'[k] # NoBox
        PROVE  services'[k].m = k /\ Local(services'[k]) /\ Earlier(k, services[k])'
    <3>1. services[k] \in Boxes /\ Earlier(k, services[k])
      BY <1>4, <2>1, SvcTypesOfParts DEF StopsInv, SvcInv
    <3>. QED  BY <1>2, <1>4, <2>1, <3>1 DEF StopsInv, Earlier
  <2>2. Earlier(m, services[m])'
    <3>1. deploy[m].n \in Nat  BY SvcTypesOfParts DEF SvcInv, Deployment
    <3>. QED  BY <1>2, <1>3, <1>4, <3>1 DEF Earlier
  <2>. QED  BY <1>3, <1>4, <2>1, <2>2
<1>8. ASSUME NEW s \in stopping PROVE Local(s.box) /\ Earlier(s.box.m, s.box)' /\ services'[s.box.m] # s.box
  <2>1. s.box \in Boxes /\ s.box.m \in Clients  BY SvcTypesOfParts, BoxMeeting DEF SvcInv, PoppedStop
  <2>2. Local(s.box) /\ Earlier(s.box.m, s.box) /\ services[s.box.m] # s.box  BY DEF StopsInv
  <2>3. CASE s.box.m = m
    <3>1. s.box.n \in Nat /\ deploy[m].n \in Nat /\ s.box.n < deploy[m].n
      BY <1>1, <2>1, <2>2, <2>3, SvcTypesOfParts DEF SvcInv, Boxes, Deployment, Earlier
    <3>2. s.box # deploy[m].box  BY <1>3, <3>1
    <3>. QED  BY <1>4, <1>5, <2>1, <2>2, <2>3, <3>2
  <2>4. CASE s.box.m # m  BY <1>4, <1>5, <2>1, <2>2, <2>4
  <2>. QED  BY <2>3, <2>4
<1>. QED  BY <1>1, <1>6, <1>7, <1>8 DEF StopsInv, Earlier

LEMMA PopStops ==
    ASSUME SvcInv, StopsInv, NEW m \in Clients, NEW caller, Pop(m, caller), UNCHANGED deploy
    PROVE  StopsInv'
<1>1. /\ services[m] # NoBox /\ services' = [services EXCEPT ![m] = NoBox]
      /\ stopping' = stopping \cup {[by |-> caller, box |-> services[m]]}
  BY DEF Pop
<1>2. /\ services'[m] = NoBox /\ \A k \in Clients \ {m} : services'[k] = services[k]
      /\ services[m] \in Boxes
  BY <1>1, SvcTypesOfParts DEF SvcInv
<1>3. \A k \in Clients : services'[k] # NoBox => services'[k].m = k /\ Local(services'[k]) /\ Earlier(k, services'[k])
  BY <1>2 DEF StopsInv
<1>4. ASSUME NEW s \in stopping' PROVE Local(s.box) /\ Earlier(s.box.m, s.box) /\ services'[s.box.m] # s.box
  <2>1. CASE s.box = services[m]  BY <1>1, <1>2, <2>1, NoBoxAssumption DEF StopsInv
  <2>2. CASE s \in stopping
    <3>1. s.box \in Boxes /\ s.box.m \in Clients  BY <2>2, SvcTypesOfParts, BoxMeeting DEF SvcInv, PoppedStop
    <3>. QED  BY <1>2, <2>2, <3>1, NoBoxAssumption DEF StopsInv
  <2>. QED  BY <1>1, <2>1, <2>2
<1>. QED  BY <1>3, <1>4 DEF StopsInv, Earlier

LEMMA RestartStops == ASSUME SvcInv, StopsInv, Restart PROVE StopsInv'
<1>1. \A m \in Clients : deploy'[m].pc = "idle" /\ services'[m] = NoBox
  BY SvcTypesOfParts DEF Restart, SvcInv, Deployment
<1>. QED  BY <1>1 DEF StopsInv, Restart

\* StopsInv is kept by every step: a stop is left with a box of an earlier deployment only.
THEOREM StopsNextInv == SvcInv /\ StopsInv /\ [SvcNext]_svcVars => StopsInv'
<1>. SUFFICES ASSUME SvcInv, StopsInv, [SvcNext]_svcVars PROVE StopsInv'  OBVIOUS
<1>1. ASSUME NEW m \in Clients, DeployStep(m) PROVE StopsInv'
  <2>1. ASSUME NEW host \in Hosts, NEW kind \in {"single", "compose"}, Deploy(m, host, kind) PROVE StopsInv'
    BY <2>1, DeployStops
  <2>2. CASE RegisterService(m)  BY <2>2, RegisterStops
  <2>3. CASE RemovePredecessor(m) \/ StartBox(m) \/ StartFails(m) \/ Unhealthy(m) \/ DiscardBox(m) \/ CancelDeploy(m)
    BY <2>3, StandsKeeps
    DEF RemovePredecessor, StartBox, StartFails, Unhealthy, DiscardBox, CancelDeploy, DeployStages
  <2>. QED  BY <1>1, <2>1, <2>2, <2>3 DEF DeployStep
<1>2. ASSUME NEW m \in Clients, AbortStops(m) PROVE StopsInv'  BY <1>2, PopStops DEF AbortStops
<1>3. ASSUME NEW m \in Clients, CloseNext(m) PROVE StopsInv'
  BY <1>3, PopStops, StopsKeep DEF CloseNext
<1>4. ASSUME NEW b \in up, BoxExits(b) \/ SweepRemoves(b) PROVE StopsInv'
  BY <1>4, StopsKeep DEF BoxExits, SweepRemoves
<1>5. ASSUME NEW s \in stopping, StopRemoves(s) PROVE StopsInv'  BY <1>5, StopsKeep DEF StopRemoves
<1>6. CASE Restart  BY <1>6, RestartStops
<1>7. CASE Shutdown \/ SweepLists \/ SweepListsNothing \/ SweepEnds \/ WarmupFails
  BY <1>7, StopsKeep DEF Shutdown, SweepLists, SweepListsNothing, SweepEnds, WarmupFails
<1>8. CASE UNCHANGED svcVars  BY <1>8, StopsKeep DEF svcVars
<1>. QED  BY <1>1, <1>2, <1>3, <1>4, <1>5, <1>6, <1>7, <1>8 DEF SvcNext

\* StopsInv holds of every behaviour of the services (sandbox.py).
THEOREM StopsInvariant == SvcSpec => []StopsInv
<1>1. SvcInit => StopsInv  BY DEF SvcInit, StopsInv
<1>. QED  BY <1>1, SvcInvariant, StopsNextInv, PTL DEF SvcSpec

\* How a registered container of a meeting that stays on the local host may go away.
LEMMA RegisteredGoes ==
    ASSUME SvcInv, StopsInv, SvcNext, NEW m \in Clients \ Rough, services[m] \in up, services[m] \notin up'
    PROVE  BoxExits(services[m]) \/ (warmup = "sweeping" /\ services[m] \in leftover) \/ deploy[m].pc = "allocated"
<1>. DEFINE b == services[m]
<1>1. b \in Boxes /\ b # NoBox /\ b.m = m /\ Local(b)
  BY SvcTypesOfParts, NoBoxAssumption DEF SvcInv, StopsInv
<1>. HIDE DEF b
<1>2. ASSUME NEW k \in Clients, RemovePredecessor(k) PROVE deploy[m].pc = "allocated"
  <2>1. b \in Namesakes(deploy[k].box) /\ deploy[k].pc = "allocated"  BY <1>2 DEF RemovePredecessor, b
  <2>2. deploy[k].box.m = k  BY <2>1 DEF SvcInv, DeploysItsOwn
  <2>. QED  BY <1>1, <2>1, <2>2 DEF Namesakes
<1>3. ASSUME NEW k \in Clients, DiscardBox(k) PROVE FALSE
  <2>1. deploy[k].pc = "failing" /\ deploy[k].box.m = k /\ Local(deploy[k].box)
    BY <1>3 DEF DiscardBox, SvcInv, DeploysItsOwn
  <2>2. k = m  BY <1>1, <1>3, <2>1 DEF DiscardBox, Namesakes, b
  <2>3. b = deploy[m].box  BY <1>3, <2>1, <2>2 DEF DiscardBox, Local, b
  <2>4. b.n \in Nat /\ b.n < deploy[m].n /\ deploy[m].box.n = deploy[m].n
    BY <1>1, <2>1, <2>2 DEF StopsInv, Earlier, Boxes, b
  <2>. QED  BY <2>3, <2>4
<1>4. ASSUME NEW s \in stopping, StopRemoves(s) PROVE FALSE
  <2>1. b \in RemovedByStop(s.box)  BY <1>4 DEF StopRemoves, b
  <2>2. s.box.m = m /\ Local(s.box) /\ services[s.box.m] # s.box  BY <1>1, <2>1 DEF RemovedByStop, StopsInv
  <2>3. s.box = b  BY <2>1, <2>2 DEF RemovedByStop, Local
  <2>. QED  BY <2>2, <2>3 DEF b
<1>5. ASSUME NEW x \in up, BoxExits(x) PROVE BoxExits(b)
  <2>1. x = b  BY <1>5 DEF BoxExits, b
  <2>. QED  BY <1>5, <2>1
<1>6. ASSUME NEW x \in up, SweepRemoves(x) PROVE warmup = "sweeping" /\ b \in leftover  BY <1>6 DEF SweepRemoves, b
<1>7. ASSUME up \subseteq up' PROVE FALSE  BY <1>7
<1>. QED
  BY <1>2, <1>3, <1>4, <1>5, <1>6, <1>7
  DEF SvcNext, DeployStep, Deploy, StartBox, StartFails, RegisterService, Unhealthy, CancelDeploy, AbortStops,
      CloseNext, Shutdown, Restart, SweepLists, SweepListsNothing, SweepEnds, WarmupFails, b

\* No stop takes down what the next deployment of its meeting has started.
THEOREM StopsSpareSuccessors == SvcSpec => StopSparesSuccessor
<1>1. ASSUME SvcInv, StopsInv, [SvcNext]_svcVars
      PROVE  \A m \in Clients \ Rough :
                LET b == services[m]
                IN  b \in up /\ b \notin up' =>
                       \/ BoxExits(b) \/ (warmup = "sweeping" /\ b \in leftover)
                       \/ deploy[m].pc = "allocated"
  BY <1>1, RegisteredGoes DEF svcVars
<1>. QED  BY <1>1, SvcInvariant, StopsInvariant, PTL DEF SvcSpec, StopSparesSuccessor

=============================================================================
