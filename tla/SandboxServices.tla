---------------------------- MODULE SandboxServices ----------------------------
(***************************************************************************)
(* Long-running service containers: deploy_service gives the deployment a  *)
(* port, removes the predecessor, starts a container, polls it and enters  *)
(* it in _running_services; stop_service takes it out again and removes    *)
(* it; warmup_sandbox sweeps what a previous process left; the lifespan    *)
(* handler stops what is registered.  Docker outlives all of them.         *)
(*                                                                         *)
(* A box is a container, or all containers of a compose project.           *)
(* _allocated_ports is written but never read, and has no variable.        *)
(***************************************************************************)
EXTENDS Integers, FiniteSets

CONSTANTS
    Clients,     \* meetings that deploy
    Rough,       \* those that may move to another host, use compose, be deleted in the
                 \* middle, or meet a docker command that fails or times out
    Ports,       \* _SERVICE_PORT_POOL_START .. END
    Remotes,     \* registered docker hosts
    Deploys,     \* bound: how often each of them deploys
    MaxRestarts, \* bound: restarts of the process
    NoBox

ASSUME PortsAssumption == MaxRestarts \in Nat /\ Ports \subseteq Nat /\ Rough \subseteq Clients /\ Deploys \in [Clients -> Nat]

VARIABLES
    deploy,    \* client -> where its deploy_service stands, and the box it is about
    services,  \* _running_services
    up,        \* boxes that run
    stopping,  \* stop_service calls after the pop
    closing,   \* cleanup_all_services: meetings still to be stopped
    warmup,    \* warmup_sandbox: "checking", "sweeping", "done", "failed"
    leftover,  \* what it found of earlier processes and has not removed
    restarts

svcVars == <<deploy, services, up, stopping, closing, warmup, leftover, restarts>>

Hosts == {"local"} \cup Remotes
Boxes == [m : Clients, n : Nat \ {0}, host : Hosts, kind : {"single", "compose"}, port : Ports]

ASSUME NoBoxAssumption == NoBox \notin Boxes

SvcInit == /\ deploy = [m \in Clients |-> [pc |-> "idle", n |-> 0, box |-> NoBox]]
           /\ services = [m \in Clients |-> NoBox]
           /\ up = {} /\ stopping = {} /\ closing = {}
           /\ warmup = "checking" /\ leftover = {} /\ restarts = 0

-----------------------------------------------------------------------------
(* deploy_service                                                          *)

Stands(m, pc) == deploy' = [deploy EXCEPT ![m].pc = pc]

RegisteredPorts == {services[m].port : m \in {k \in Clients : services[k] # NoBox}}

\* _allocate_port: the first port no registered service has.  The backend's own attempt to
\* bind it tells nothing about ports that containers of the host publish.
FreePorts == Ports \ RegisteredPorts

Deploy(m, host, kind) ==
    /\ deploy[m].pc = "idle" /\ deploy[m].n < Deploys[m]
    /\ m \notin Rough => host = "local" /\ kind = "single"
    /\ \E port \in FreePorts :
          /\ \A p \in FreePorts : port <= p
          /\ LET n == deploy[m].n + 1
             IN  deploy' = [deploy EXCEPT ![m] =
                              [pc |-> "allocated", n |-> n,
                               box |-> [m |-> m, n |-> n, host |-> host, kind |-> kind, port |-> port]]]
    /\ UNCHANGED <<services, up, stopping, closing, warmup, leftover, restarts>>

\* What docker rm -f <name>, or docker compose down, removes on the host of box.
Namesakes(box) == {b \in up : b.m = box.m /\ b.host = box.host /\ b.kind = box.kind}

RemovePredecessor(m) ==
    /\ deploy[m].pc = "allocated"
    /\ \/ up' = up \ Namesakes(deploy[m].box)
       \/ m \in Rough /\ UNCHANGED up
    /\ Stands(m, "cleaned")
    /\ UNCHANGED <<services, stopping, closing, warmup, leftover, restarts>>

PortTaken(box) == \E b \in up : b.host = box.host /\ b.port = box.port /\ b.kind = "single"

StartBox(m) ==
    /\ deploy[m].pc = "cleaned"
    /\ LET box == deploy[m].box
       IN  /\ box.kind = "single" => ~PortTaken(box) /\ Namesakes(box) = {}
           /\ up' = up \cup {box}
    /\ Stands(m, "polling")
    /\ UNCHANGED <<services, stopping, closing, warmup, leftover, restarts>>

\* A start that failed is given up as it is: some containers of a project may run, and
\* a run that timed out may still come up.
StartFails(m) ==
    /\ deploy[m].pc = "cleaned"
    /\ \/ UNCHANGED up
       \/ m \in Rough /\ up' = up \cup {deploy[m].box}
    /\ Stands(m, "idle")
    /\ UNCHANGED <<services, stopping, closing, warmup, leftover, restarts>>

\* The poll sees that the container runs, and asks its address as seen from the backend, and
\* 127.0.0.1:port: for a remote box another one may answer.  A compose project is taken for
\* healthy when none of the containers listed has ended, also when the list was empty.
Answers(box) == \/ box.kind = "compose"
                \/ /\ box \in up
                   /\ box.host = "local" \/ \E b \in up : b.host = "local" /\ b.port = box.port

RegisterService(m) ==
    /\ deploy[m].pc = "polling" /\ Answers(deploy[m].box)
    /\ services' = [services EXCEPT ![m] = deploy[m].box]
    /\ Stands(m, "idle")
    /\ UNCHANGED <<up, stopping, closing, warmup, leftover, restarts>>

Unhealthy(m) ==
    /\ deploy[m].pc = "polling"
    /\ Stands(m, "failing")
    /\ UNCHANGED <<services, up, stopping, closing, warmup, leftover, restarts>>

\* Mutant: an unhealthy container is left where it is.
DiscardNothing(m) ==
    /\ deploy[m].pc = "failing"
    /\ Stands(m, "idle")
    /\ UNCHANGED <<services, up, stopping, closing, warmup, leftover, restarts>>

DiscardBox(m) ==
    /\ deploy[m].pc = "failing"
    /\ \/ up' = up \ (IF deploy[m].box.kind = "single" THEN {deploy[m].box}
                                                       ELSE Namesakes(deploy[m].box))
       \/ m \in Rough /\ UNCHANGED up
    /\ Stands(m, "idle")
    /\ UNCHANGED <<services, stopping, closing, warmup, leftover, restarts>>

\* The run is cancelled: CancelledError passes every except clause.
CancelDeploy(m) ==
    /\ m \in Rough /\ deploy[m].pc # "idle"
    /\ Stands(m, "idle")
    /\ UNCHANGED <<services, up, stopping, closing, warmup, leftover, restarts>>

BoxExits(b) ==
    /\ b \in up
    /\ up' = up \ {b}
    /\ UNCHANGED <<deploy, services, stopping, closing, warmup, leftover, restarts>>

-----------------------------------------------------------------------------
(* stop_service, from the abort signal and from cleanup_all_services       *)

Pop(m, caller) ==
    /\ services[m] # NoBox
    /\ stopping' = stopping \cup {[by |-> caller, box |-> services[m]]}
    /\ services' = [services EXCEPT ![m] = NoBox]

AbortStops(m) ==
    /\ Pop(m, "abort")
    /\ UNCHANGED <<deploy, up, closing, warmup, leftover, restarts>>

\* Mutant: a container is stopped by its name.
RemovedByName(box) == {b \in up : b.m = box.m /\ b.host = "local" /\ b.kind = box.kind}

\* The command goes to the local daemon, whatever the host of the box.
RemovedByStop(box) == {b \in up : /\ b.m = box.m /\ b.host = "local" /\ b.kind = box.kind
                                  /\ box.kind = "single" => b = box}

StopRemoves(s) ==
    /\ s \in stopping
    /\ \/ up' = up \ RemovedByStop(s.box)
       \/ s.box.m \in Rough /\ UNCHANGED up
    /\ stopping' = stopping \ {s}
    /\ UNCHANGED <<deploy, services, closing, warmup, leftover, restarts>>

Shutdown ==
    /\ closing = {}
    /\ closing' = {m \in Clients : services[m] # NoBox}
    /\ UNCHANGED <<deploy, services, up, stopping, warmup, leftover, restarts>>

\* One after the other; one that was aborted meanwhile is not there any more.
CloseNext(m) ==
    /\ m \in closing /\ \A s \in stopping : s.by # "cleanup"
    /\ IF services[m] = NoBox THEN UNCHANGED <<services, stopping>> ELSE Pop(m, "cleanup")
    /\ closing' = closing \ {m}
    /\ UNCHANGED <<deploy, up, warmup, leftover, restarts>>

-----------------------------------------------------------------------------
(* The process ends, in order or not, and a new one warms up.              *)

Restart ==
    /\ restarts < MaxRestarts
    /\ restarts' = restarts + 1
    /\ deploy' = [m \in Clients |-> [deploy[m] EXCEPT !.pc = "idle"]]
    /\ services' = [m \in Clients |-> NoBox]
    /\ stopping' = {} /\ closing' = {}
    /\ warmup' = "checking" /\ leftover' = {}
    /\ UNCHANGED up

LocalBoxes == {b \in up : b.host = "local"}

SweepLists ==
    /\ warmup = "checking"
    /\ warmup' = "sweeping"
    /\ leftover' = LocalBoxes
    /\ UNCHANGED <<deploy, services, up, stopping, closing, restarts>>

\* docker ps fails: nothing is removed, and the warm-up goes on.
SweepListsNothing ==
    /\ warmup = "checking"
    /\ warmup' = "done"
    /\ leftover' = LocalBoxes
    /\ UNCHANGED <<deploy, services, up, stopping, closing, restarts>>

SweepRemoves(b) ==
    /\ warmup = "sweeping" /\ b \in leftover
    /\ leftover' = leftover \ {b}
    /\ up' = up \ {b}
    /\ UNCHANGED <<deploy, services, stopping, closing, warmup, restarts>>

\* Nobody looks at what docker rm returned, and an exception ends the sweep: what it has not
\* removed stays, whatever meeting it belongs to.
SweepEnds ==
    /\ warmup = "sweeping"
    /\ warmup' = "done"
    /\ UNCHANGED <<deploy, services, up, stopping, closing, leftover, restarts>>

\* No docker, or no image: the warm-up returns before it comes to the sweep.
WarmupFails ==
    /\ warmup = "checking"
    /\ warmup' = "failed"
    /\ leftover' = LocalBoxes
    /\ UNCHANGED <<deploy, services, up, stopping, closing, restarts>>

-----------------------------------------------------------------------------
DeployStep(m) == \/ \E host \in Hosts, kind \in {"single", "compose"} : Deploy(m, host, kind)
                 \/ RemovePredecessor(m) \/ StartBox(m) \/ StartFails(m) \/ RegisterService(m)
                 \/ Unhealthy(m) \/ DiscardBox(m) \/ CancelDeploy(m)

SvcNext == \/ \E m \in Clients : DeployStep(m) \/ AbortStops(m) \/ CloseNext(m)
           \/ \E b \in up : BoxExits(b) \/ SweepRemoves(b)
           \/ \E s \in stopping : StopRemoves(s)
           \/ Shutdown \/ Restart \/ SweepLists \/ SweepListsNothing \/ SweepEnds \/ WarmupFails

SvcSpec == SvcInit /\ [][SvcNext]_svcVars

-----------------------------------------------------------------------------
\* Every variable keeps its type.
SvcTypeOK ==
    /\ deploy \in [Clients -> [pc : {"idle", "allocated", "cleaned", "polling", "failing"},
                               n : Nat, box : Boxes \cup {NoBox}]]
    /\ services \in [Clients -> Boxes \cup {NoBox}]
    /\ up \subseteq Boxes /\ leftover \subseteq Boxes
    /\ stopping \subseteq [by : {"abort", "cleanup"}, box : Boxes]
    /\ closing \subseteq Clients
    /\ warmup \in {"checking", "sweeping", "done", "failed"} /\ restarts \in 0..MaxRestarts

\* Whoever deploys, aborts, shuts down or restarts, and in whatever order: a container of a
\* meeting that stays on the local host belongs to a deployment under way, is registered,
\* is being stopped, or was there when the process warmed up and is still to be swept, or
\* the sweep has failed to remove it.
NoOrphan ==
    \A b \in up :
        b.m \notin Rough =>
            \/ deploy[b.m].pc \in {"allocated", "polling", "failing"}
            \/ services[b.m] = b
            \/ \E s \in stopping : s.box = b
            \/ warmup = "checking" \/ b \in leftover

\* A stop that was overtaken by the next deployment of its meeting does not take down what
\* that has started: a registered container goes away only by itself, in favour of a
\* successor, or because the warm-up is sweeping.
StopSparesSuccessor ==
    [][\A m \in Clients \ Rough :
          LET b == services[m]
          IN  b \in up /\ b \notin up' =>
                 \/ BoxExits(b) \/ (warmup = "sweeping" /\ b \in leftover)
                 \/ deploy[m].pc = "allocated"]_svcVars

=============================================================================
