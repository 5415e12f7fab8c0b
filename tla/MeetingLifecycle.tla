--------------------------- MODULE MeetingLifecycle ---------------------------
(***************************************************************************)
(* One meeting of the Conclave backend: the object in the process-wide     *)
(* registry `_states`, the background task that drives it through its      *)
(* stages (Runner.run under _run_meeting_bg), the control signals of the   *)
(* REST and WebSocket endpoints, the row in PostgreSQL, eviction from      *)
(* memory, lazy reloading and restart with crash recovery.                 *)
(*                                                                         *)
(* asyncio switches tasks only at an await, so each action below is the    *)
(* code between two awaits of one task.  Python hands objects around by    *)
(* reference: the runner works on the very object the endpoints mutate     *)
(* until somebody replaces the registry entry (resume of a paused meeting, *)
(* eviction, a reload).  From then on `held` is the runner's own copy.     *)
(***************************************************************************)
EXTENDS Integers, FiniteSets

CONSTANTS
    LastStage,      \* stages are 1..LastStage: clarify is 1, produce is LastStage
    Route,          \* Route[s]: the stages the routing decision may pick after s
    Dynamic,        \* state.dynamic_routing
    Complexities,   \* flow plans clarify may write: "simple", "standard"
    Intents,        \* answers of the intent classifier: "instant", "standard"
    Subtopics,      \* subtopics a decomposition yields; 0: never decomposes
    MaxRetries,     \* state.max_stage_retries
    MaxIterations,  \* state.max_iterations
    AutoIterate,    \* state.auto_iterate
    Notes,          \* messages users may inject
    Readers,        \* concurrent requests that call load_or_create
    Faults,         \* subset of {"restart", "evict", "db", "balance"}
    None,           \* Python's None
    MaxSignals,     \* bound: control signals
    MaxSaves,       \* bound: control saves in flight
    MaxRestarts     \* bound: restarts of the process

Clarify   == 1
IntraTeam == 2
Stages    == 1..LastStage

ASSUME StagesAssumption == LastStage \in Nat /\ LastStage > IntraTeam
ASSUME RouteAssumption == Route \in [Stages -> SUBSET Stages]
ASSUME SwitchAssumption == Dynamic \in BOOLEAN /\ AutoIterate \in BOOLEAN
ASSUME FlowAssumption == /\ Complexities \subseteq {"simple", "standard"}
                         /\ Intents \subseteq {"instant", "standard"}
ASSUME BoundAssumption == {Subtopics, MaxRetries, MaxIterations} \subseteq Nat

-----------------------------------------------------------------------------
(* MeetingState, reduced to the fields the control flow reads.             *)

Statuses  == {"running", "paused", "aborted", "done", "failed"}
Flows     == {"standard", "simple", "instant"}
Artifacts == {"none", "raw", "passed", "failing"}

Snapshot == [stage : Stages, flow : Flows, notes : SUBSET Notes,
             retry : [Stages -> 0..MaxRetries], iter : 0..MaxIterations,
             ckpt : 0..LastStage,        \* checkpoint.failed_stage if resumable, else 0
             sub : 0..Subtopics,         \* subtopic being worked on, 0: none
             artifact : Artifacts]       \* none, produced, or produced and judged

State == [stage : Stages, flow : Flows, notes : SUBSET Notes,
          retry : [Stages -> 0..MaxRetries], iter : 0..MaxIterations,
          ckpt : 0..LastStage, sub : 0..Subtopics, artifact : Artifacts,
          status : Statuses, snap : Snapshot \cup {None}]

ASSUME NoneAssumption == None \notin Snapshot /\ None \notin State

SnapshotOf(s) == [stage |-> s.stage, flow |-> s.flow, notes |-> s.notes,
                  retry |-> s.retry, iter |-> s.iter, ckpt |-> s.ckpt,
                  sub |-> s.sub, artifact |-> s.artifact]

Restored(p) == [stage |-> p.stage, flow |-> p.flow, notes |-> p.notes,
                retry |-> p.retry, iter |-> p.iter, ckpt |-> p.ckpt,
                sub |-> p.sub, artifact |-> p.artifact,
                status |-> "running", snap |-> None]

NewState == [stage |-> Clarify, flow |-> "standard", notes |-> {},
             retry |-> [s \in Stages |-> 0], iter |-> 0, ckpt |-> 0,
             sub |-> 0, artifact |-> "none", status |-> "running", snap |-> None]

IsTerminal(s)  == s.status \in {"done", "aborted", "failed"}
ShouldPause(s) == s.status = "paused"

VARIABLES
    registry,   \* _states[m]: State, or None when not in memory
    held,       \* the runner's object once the registry no longer holds it
    pc,         \* where the background task is
    cur,        \* current_stage of the loop
    after,      \* why the pending _persist was started
    outbox,     \* payload of the pending _persist
    row,        \* the row in PostgreSQL
    saves,      \* payloads of control saves in flight
    readers,    \* load_or_create calls in progress
    published,  \* verdicts of the artifacts published to the artifacts table
    signals, restarts

runnerVars == <<held, pc, cur, after, outbox>>
vars == <<registry, runnerVars, row, saves, readers, published, signals, restarts>>

Reasons == {"paused", "retry", "failed", "balance", "stage_done", "degraded",
            "switched", "aggregated", "iterate", "routed", "crashed", "instant"}
PCs == {"idle", "launching", "spawned", "classifying", "instant", "answering",
        "looping", "stage", "speaking", "announcing", "saving", "completed",
        "settled", "deciding", "gate", "review", "publishing", "leaving"}

\* Where the task goes once the _persist started for this reason has committed.
Resumption == [paused |-> "leaving", failed |-> "leaving", balance |-> "leaving",
               crashed |-> "leaving", instant |-> "leaving", retry |-> "looping",
               switched |-> "looping", iterate |-> "looping", routed |-> "looping",
               stage_done |-> "completed", degraded |-> "settled",
               aggregated |-> "gate"]

\* The task owns a MeetingState from its first statement on.
Holding == pc \notin {"idle", "launching", "spawned"}
Mine    == IF held = None THEN registry ELSE held

\* The runner assigns to its object, in the registry or not.
Hold(s) == IF held = None THEN registry' = s /\ UNCHANGED held
                          ELSE held' = s /\ UNCHANGED registry

\* Mutant: the runner has no reference of its own, only the registry entry.
ReplaceForRunner(s) == registry' = s /\ UNCHANGED held

\* set_state / pop by somebody else: a runner keeps the object it had.
Replace(s) == /\ registry' = s
              /\ held' = IF Holding /\ held = None THEN registry ELSE held

Persist(s, reason) == /\ Hold(s)
                      /\ pc' = "saving" /\ after' = reason /\ outbox' = s
Announce(s, reason) == /\ Hold(s)
                       /\ pc' = "announcing" /\ after' = reason
                       /\ UNCHANGED outbox

Init == /\ registry = NewState /\ row = NewState
        /\ held = None /\ pc = "idle" /\ cur = Clarify /\ after = "paused" /\ outbox = None
        /\ saves = {} /\ published = {} /\ signals = 0 /\ restarts = 0
        /\ readers = [r \in Readers |-> [phase |-> "idle", copy |-> None]]

-----------------------------------------------------------------------------
(* Control signals: apply_signal and set_state without an await, then a    *)
(* save whose payload is fixed now and which commits later.                *)

Resumable(s) == ShouldPause(s) \/ (s.status = "failed" /\ s.ckpt # 0)

\* _handle_resume: a paused meeting is rebuilt from its snapshot, a failed
\* one goes on in the same object.
Resumed(s) ==
    IF ShouldPause(s)
    THEN IF s.snap # None THEN Restored(s.snap) ELSE [s EXCEPT !.status = "running"]
    ELSE [s EXCEPT !.status = "running", !.retry[s.ckpt] = 0]

SignalRoom == signals < MaxSignals /\ Cardinality(saves) < MaxSaves

Control(s) == /\ SignalRoom
              /\ signals' = signals + 1
              /\ saves' = saves \cup {s}
              /\ UNCHANGED <<pc, cur, after, outbox, row, readers, published, restarts>>

\* A handler that mutates the registered object, which a runner may share.
Mutate(s) == registry' = s /\ UNCHANGED held

Pause ==
    /\ registry # None /\ registry.status = "running"
    /\ LET s == [registry EXCEPT !.snap = SnapshotOf(registry), !.status = "paused"]
       IN  Mutate(s) /\ Control(s)

Resume ==
    /\ registry # None /\ Resumable(registry)
    /\ LET s == Resumed(registry)
       IN  /\ IF ShouldPause(registry) /\ registry.snap # None THEN Replace(s) ELSE Mutate(s)
           /\ Control(s)

Abort ==
    /\ registry # None
    /\ LET s == [registry EXCEPT !.status = "aborted"]
       IN  Mutate(s) /\ Control(s)

Inject(n) ==
    /\ registry # None /\ n \notin registry.notes
    /\ LET s == [registry EXCEPT !.notes = @ \cup {n}]
       IN  Mutate(s) /\ Control(s)

ControlSaved(s) ==
    /\ s \in saves
    /\ saves' = saves \ {s} /\ row' = s
    /\ UNCHANGED <<registry, runnerVars, readers, published, signals, restarts>>

ControlSaveFails(s) ==
    /\ "db" \in Faults /\ s \in saves
    /\ saves' = saves \ {s}
    /\ UNCHANGED <<registry, runnerVars, row, readers, published, signals, restarts>>

-----------------------------------------------------------------------------
(* POST /run and the background task up to the main loop.                  *)

world == <<row, saves, readers, published, signals, restarts>>

\* run_meeting under the run lock: 409 while a task runs, nothing to do for a
\* done or aborted meeting, an error for a failed one without checkpoint.
Run ==
    /\ pc = "idle" /\ registry # None
    /\ registry.status = "running" \/ Resumable(registry)
    /\ registry' = IF registry.status = "running" THEN registry ELSE Resumed(registry)
    /\ pc' = "launching"
    /\ UNCHANGED <<held, cur, after, outbox, world>>

\* run.started is out; the task is created and registered.
Launched ==
    /\ pc = "launching" /\ pc' = "spawned"
    /\ UNCHANGED <<registry, held, cur, after, outbox, world>>

\* _run_meeting_bg picks the object up, Runner.run marks it running.
Start ==
    /\ pc = "spawned" /\ registry # None
    /\ LET fast == registry.flow \in {"instant", "simple"}
       IN  /\ registry' = [registry EXCEPT !.status = "running",
                                           !.flow = IF fast THEN "instant" ELSE @]
           /\ pc' = IF fast THEN "instant" ELSE "classifying"
    /\ UNCHANGED <<held, cur, after, outbox, world>>

StartFindsNothing ==
    /\ pc = "spawned" /\ registry = None
    /\ pc' = "idle"
    /\ UNCHANGED <<registry, held, cur, after, outbox, world>>

Classified(i) ==
    /\ pc = "classifying" /\ i \in Intents
    /\ Hold([Mine EXCEPT !.flow = i])
    /\ pc' = IF i = "instant" THEN "instant" ELSE "looping"
    /\ UNCHANGED <<cur, after, outbox, world>>

\* run_instant: one answer, published without a quality gate.
InstantAnswers ==
    /\ pc = "instant"
    /\ Hold([Mine EXCEPT !.status = "done", !.stage = LastStage, !.artifact = "raw"])
    /\ pc' = "answering"
    /\ UNCHANGED <<cur, after, outbox, world>>

InstantPublished ==
    /\ pc = "answering"
    /\ published' = published \cup {"raw"}
    /\ Persist(Mine, "instant")
    /\ UNCHANGED <<cur, row, saves, readers, signals, restarts>>

\* Any exception, an exhausted balance included, becomes FAILED.
InstantFails ==
    /\ pc = "instant"
    /\ Announce([Mine EXCEPT !.status = "failed", !.stage = LastStage], "instant")
    /\ UNCHANGED <<cur, world>>

-----------------------------------------------------------------------------
(* The main loop of Runner.run.                                            *)

\* while not is_terminal(state): if should_pause(state): persist and return.
LoopEnds ==
    /\ pc = "looping" /\ IsTerminal(Mine)
    /\ pc' = "leaving"
    /\ UNCHANGED <<registry, held, cur, after, outbox, world>>

LoopPauses ==
    /\ pc = "looping" /\ ShouldPause(Mine)
    /\ Persist(Mine, "paused")
    /\ UNCHANGED <<cur, world>>

\* Mutant: should_pause is not asked.
StageStartsAnyway ==
    /\ pc = "looping" /\ ~IsTerminal(Mine)
    /\ cur' = Mine.stage /\ pc' = "stage"
    /\ UNCHANGED <<registry, held, after, outbox, world>>

StageStarts ==
    /\ pc = "looping" /\ ~IsTerminal(Mine) /\ ~ShouldPause(Mine)
    /\ cur' = Mine.stage /\ pc' = "stage"
    /\ UNCHANGED <<registry, held, after, outbox, world>>

\* clarify also writes the flow plan and may decompose the topic.
ClarifyDone(nxt, f) ==
    /\ pc = "stage" /\ cur = Clarify
    /\ nxt \in Route[cur] /\ f \in Complexities
    /\ \E k \in {Mine.sub} \cup (IF Subtopics > 0 /\ f # "simple" THEN {1} ELSE {}) :
          Hold([Mine EXCEPT !.stage = nxt, !.flow = f, !.sub = k])
    /\ pc' = "speaking"
    /\ UNCHANGED <<cur, after, outbox, world>>

\* Any other debating stage sets state.stage to the stage it proposes next.
StageDone(nxt) ==
    /\ pc = "stage" /\ cur # Clarify /\ cur # LastStage
    /\ nxt \in Route[cur]
    /\ Hold([Mine EXCEPT !.stage = nxt])
    /\ pc' = "speaking"
    /\ UNCHANGED <<cur, after, outbox, world>>

ProduceDone ==
    /\ pc = "stage" /\ cur = LastStage
    /\ Hold([Mine EXCEPT !.stage = LastStage, !.artifact = "raw"])
    /\ pc' = "speaking"
    /\ UNCHANGED <<cur, after, outbox, world>>

\* Mutant: one retry too many.
StageRetriesOnceMore ==
    /\ pc = "stage" /\ Mine.retry[cur] <= MaxRetries
    /\ Announce([Mine EXCEPT !.retry[cur] = @ + 1], "retry")
    /\ UNCHANGED <<cur, world>>

\* Mutant: a retry declares the meeting running again.
StageRetriesRunning ==
    /\ pc = "stage" /\ Mine.retry[cur] < MaxRetries
    /\ Announce([Mine EXCEPT !.retry[cur] = @ + 1, !.status = "running"], "retry")
    /\ UNCHANGED <<cur, world>>

StageRetries ==
    /\ pc = "stage" /\ Mine.retry[cur] < MaxRetries
    /\ Announce([Mine EXCEPT !.retry[cur] = @ + 1], "retry")
    /\ UNCHANGED <<cur, world>>

StageExhausted ==
    /\ pc = "stage" /\ Mine.retry[cur] >= MaxRetries
    /\ Persist([Mine EXCEPT !.ckpt = cur, !.status = "failed"], "failed")
    /\ UNCHANGED <<cur, world>>

\* InsufficientBalanceError pauses the meeting instead.
StageOutOfBalance ==
    /\ "balance" \in Faults /\ pc = "stage"
    /\ Persist([Mine EXCEPT !.snap = SnapshotOf(Mine), !.status = "paused",
                            !.ckpt = cur], "balance")
    /\ UNCHANGED <<cur, world>>

\* Interventions answered, borrowed agents heard: success checkpoint, _persist.
Spoken ==
    /\ pc = "speaking"
    /\ Persist([Mine EXCEPT !.ckpt = 0], "stage_done")
    /\ UNCHANGED <<cur, world>>

Announced ==
    /\ pc = "announcing"
    /\ pc' = "saving" /\ outbox' = Mine
    /\ UNCHANGED <<registry, held, cur, after, world>>

Saved ==
    /\ pc = "saving"
    /\ row' = outbox /\ outbox' = None
    /\ pc' = Resumption[after]
    /\ UNCHANGED <<registry, held, cur, after, saves, readers, published, signals, restarts>>

\* _persist raises inside the try of the loop: FAILED, and persisted again.
SaveFails ==
    /\ "db" \in Faults /\ pc = "saving" /\ after \notin {"crashed", "instant"}
    /\ Persist([Mine EXCEPT !.status = "failed"], "crashed")
    /\ UNCHANGED <<cur, world>>

\* _persist raises outside of it: _run_meeting_bg aborts what is registered.
RunnerEscapes ==
    /\ "db" \in Faults /\ pc = "saving" /\ after \in {"crashed", "instant"}
    /\ registry' = IF registry = None THEN None ELSE [registry EXCEPT !.status = "aborted"]
    /\ pc' = "idle" /\ held' = None /\ cur' = Clarify /\ after' = "paused" /\ outbox' = None
    /\ UNCHANGED world

StillGoing == ~IsTerminal(Mine)
AfterStage == pc \in {"completed", "settled"}

\* A debating stage may leave degradation warnings: one more event and save.
Degraded ==
    /\ pc = "completed" /\ cur \in IntraTeam..(LastStage - 1) /\ StillGoing
    /\ Announce(Mine, "degraded")
    /\ UNCHANGED <<cur, world>>

TurnsTerminal ==
    /\ AfterStage \/ pc = "gate"
    /\ IsTerminal(Mine)
    /\ pc' = "leaving"
    /\ UNCHANGED <<registry, held, cur, after, outbox, world>>

\* Mutant: the switch to the next subtopic is not persisted.
SwitchUnsaved ==
    /\ AfterStage /\ cur = LastStage /\ StillGoing
    /\ Mine.sub \in 1..(Subtopics - 1)
    /\ Hold([Mine EXCEPT !.sub = @ + 1, !.iter = 0, !.artifact = "none",
                         !.stage = IntraTeam])
    /\ pc' = "looping"
    /\ UNCHANGED <<cur, after, outbox, world>>

\* produce finished one subtopic and others remain.
SwitchSubtopic ==
    /\ AfterStage /\ cur = LastStage /\ StillGoing
    /\ Mine.sub \in 1..(Subtopics - 1)
    /\ Announce([Mine EXCEPT !.sub = @ + 1, !.iter = 0, !.artifact = "none",
                             !.stage = IntraTeam], "switched")
    /\ UNCHANGED <<cur, world>>

\* It was the last one: the debate data is cleared for the final produce.
Aggregate ==
    /\ AfterStage /\ cur = LastStage /\ StillGoing
    /\ Mine.sub # 0 /\ Mine.sub = Subtopics
    /\ Announce([Mine EXCEPT !.sub = 0, !.artifact = "none", !.stage = LastStage],
                "aggregated")
    /\ UNCHANGED <<cur, world>>

-----------------------------------------------------------------------------
(* The quality gate after produce.                                         *)

Judging == /\ pc = "gate" \/ (AfterStage /\ cur = LastStage /\ Mine.sub = 0)
           /\ StillGoing

\* An empty artifact is a hard failure in every evaluator.
Judged(v) == [Mine EXCEPT !.artifact = IF @ = "none" THEN "none" ELSE v]
MayBe(v)  == v \in {"failing"} \cup (IF Mine.artifact = "none" THEN {} ELSE {"passed"})

\* Mutant: iteration_count is not incremented.
IterateForever ==
    /\ Judging /\ AutoIterate /\ Mine.iter < MaxIterations
    /\ LET s == Judged("failing")
       IN  Announce([s EXCEPT !.stage = LastStage], "iterate")
    /\ UNCHANGED <<cur, world>>

Iterate ==
    /\ Judging /\ AutoIterate /\ Mine.iter < MaxIterations
    /\ LET s == Judged("failing")
       IN  Announce([s EXCEPT !.iter = @ + 1, !.stage = LastStage], "iterate")
    /\ UNCHANGED <<cur, world>>

AskReview ==
    /\ Judging /\ ~AutoIterate
    /\ Hold(Judged("failing")) /\ pc' = "review"
    /\ UNCHANGED <<cur, after, outbox, world>>

Reviewed ==
    /\ pc = "review"
    /\ Hold([Mine EXCEPT !.status = "done"]) /\ pc' = "leaving"
    /\ UNCHANGED <<cur, after, outbox, world>>

\* Mutant: the artifact is published, the meeting left running.
CloseWithoutDone(v) ==
    /\ Judging /\ MayBe(v)
    /\ v = "failing" => (AutoIterate /\ Mine.iter >= MaxIterations)
    /\ Hold(Judged(v))
    /\ pc' = "publishing"
    /\ UNCHANGED <<cur, after, outbox, world>>

\* The gate passed, or it failed with no iteration left.
Close(v) ==
    /\ Judging /\ MayBe(v)
    /\ v = "failing" => (AutoIterate /\ Mine.iter >= MaxIterations)
    /\ LET s == Judged(v) IN Hold([s EXCEPT !.status = "done"])
    /\ pc' = "publishing"
    /\ UNCHANGED <<cur, after, outbox, world>>

\* publish_and_notify: nothing to publish without an artifact, errors are
\* swallowed.
Published ==
    /\ pc = "publishing"
    /\ published' = published \cup ({Mine.artifact} \ {"none"})
    /\ pc' = "leaving"
    /\ UNCHANGED <<registry, held, cur, after, outbox, row, saves, readers, signals, restarts>>

PublishFails ==
    /\ "db" \in Faults /\ pc = "publishing"
    /\ pc' = "leaving"
    /\ UNCHANGED <<registry, held, cur, after, outbox, world>>

-----------------------------------------------------------------------------
(* Routing to the next stage, and leaving the loop.                        *)

Routing == AfterStage /\ cur # LastStage /\ StillGoing

\* Persist and announce the new stage when it changed, otherwise loop on.
GoTo(nxt) ==
    LET s == [Mine EXCEPT !.stage = nxt]
    IN  IF nxt # cur THEN Persist(s, "routed")
                     ELSE Hold(s) /\ pc' = "looping" /\ UNCHANGED <<after, outbox>>

\* Dynamic: state.stage is put back while decide_next_stage is awaited.
AskRoute ==
    /\ Routing /\ Dynamic
    /\ Hold([Mine EXCEPT !.stage = cur]) /\ pc' = "deciding"
    /\ UNCHANGED <<cur, after, outbox, world>>

Decided(nxt) ==
    /\ pc = "deciding" /\ nxt \in Route[cur]
    /\ GoTo(nxt)
    /\ UNCHANGED <<cur, world>>

\* Fixed: the stage the node proposed, or the next in order if it stayed.
FixedRoute(nxt) ==
    /\ Routing /\ ~Dynamic
    /\ IF Mine.stage = cur THEN nxt \in Route[cur] \ {cur} ELSE nxt = Mine.stage
    /\ GoTo(nxt)
    /\ UNCHANGED <<cur, world>>

\* Runner.run returns and _run_meeting_bg registers what it returned.
Leave ==
    /\ pc = "leaving"
    /\ registry' = Mine /\ held' = None
    /\ pc' = "idle" /\ cur' = Clarify /\ after' = "paused" /\ outbox' = None
    /\ UNCHANGED world

-----------------------------------------------------------------------------
(* Memory: eviction and lazy reloading.                                    *)

\* TTL cleanup after an end, or LRU pressure from other meetings.
Evict ==
    /\ "evict" \in Faults /\ registry # None /\ IsTerminal(registry)
    /\ Replace(None)
    /\ UNCHANGED <<pc, cur, after, outbox, world>>

Miss(r) ==
    /\ registry = None /\ readers[r].phase = "idle"
    /\ readers' = [readers EXCEPT ![r].phase = "asked"]
    /\ UNCHANGED <<registry, runnerVars, row, saves, published, signals, restarts>>

ReadRow(r) ==
    /\ readers[r].phase = "asked"
    /\ readers' = [readers EXCEPT ![r] = [phase |-> "read", copy |-> row]]
    /\ UNCHANGED <<registry, runnerVars, row, saves, published, signals, restarts>>

\* set_state without looking whether somebody registered the meeting meanwhile.
Install(r) ==
    /\ readers[r].phase = "read"
    /\ Replace(readers[r].copy)
    /\ readers' = [readers EXCEPT ![r] = [phase |-> "idle", copy |-> None]]
    /\ UNCHANGED <<pc, cur, after, outbox, row, saves, published, signals, restarts>>

\* Mutant: recovery marks the meeting paused without a snapshot.
RestartWithoutSnapshot ==
    /\ "restart" \in Faults /\ restarts < MaxRestarts
    /\ restarts' = restarts + 1
    /\ LET s == [row EXCEPT !.status = "paused"]
       IN  IF row.status = "running" THEN registry' = s /\ row' = s
                                     ELSE registry' = None /\ UNCHANGED row
    /\ held' = None /\ pc' = "idle" /\ cur' = Clarify /\ after' = "paused" /\ outbox' = None
    /\ saves' = {} /\ readers' = [r \in Readers |-> [phase |-> "idle", copy |-> None]]
    /\ UNCHANGED <<published, signals>>

\* The process dies and starts again: memory is gone, recover_crashed_meetings
\* pauses the meeting if its row says running: it registers the paused meeting,
\* then saves it.  With a failing database it logs the error and goes on, before
\* or after the registration.
Restart ==
    /\ "restart" \in Faults /\ restarts < MaxRestarts
    /\ restarts' = restarts + 1
    /\ LET s == [row EXCEPT !.status = "paused", !.snap = SnapshotOf(row)]
       IN  \/ /\ row.status = "running"
              /\ registry' = s
              /\ row' = s \/ ("db" \in Faults /\ UNCHANGED row)
           \/ /\ row.status # "running" \/ "db" \in Faults
              /\ registry' = None /\ UNCHANGED row
    /\ held' = None /\ pc' = "idle" /\ cur' = Clarify /\ after' = "paused" /\ outbox' = None
    /\ saves' = {} /\ readers' = [r \in Readers |-> [phase |-> "idle", copy |-> None]]
    /\ UNCHANGED <<published, signals>>

-----------------------------------------------------------------------------
User    == Pause \/ Resume \/ Abort \/ (\E n \in Notes : Inject(n)) \/ Run
Storage == \E s \in saves : ControlSaved(s) \/ ControlSaveFails(s)

RunnerStep ==
    \/ Launched \/ Start \/ StartFindsNothing \/ (\E i \in Intents : Classified(i))
    \/ InstantAnswers \/ InstantPublished \/ InstantFails
    \/ LoopEnds \/ LoopPauses \/ StageStarts
    \/ (\E nxt \in Stages, f \in Complexities : ClarifyDone(nxt, f))
    \/ (\E nxt \in Stages : StageDone(nxt)) \/ ProduceDone
    \/ StageRetries \/ StageExhausted \/ StageOutOfBalance
    \/ Spoken \/ Announced \/ Saved \/ SaveFails \/ RunnerEscapes
    \/ Degraded \/ TurnsTerminal \/ SwitchSubtopic \/ Aggregate
    \/ Iterate \/ AskReview \/ Reviewed \/ (\E v \in Artifacts : Close(v))
    \/ Published \/ PublishFails
    \/ AskRoute \/ (\E nxt \in Stages : Decided(nxt) \/ FixedRoute(nxt)) \/ Leave

Memory == \/ Evict \/ Restart
          \/ \E r \in Readers : Miss(r) \/ ReadRow(r) \/ Install(r)

Next == User \/ Storage \/ RunnerStep \/ Memory

Spec     == Init /\ [][Next]_vars
FairSpec == Spec /\ WF_vars(RunnerStep)

-----------------------------------------------------------------------------
(* What the meeting promises.                                              *)

\* Every variable keeps its type.
TypeOK ==
    /\ registry \in State \cup {None} /\ held \in State \cup {None}
    /\ outbox \in State \cup {None} /\ row \in State
    /\ pc \in PCs /\ cur \in Stages /\ after \in Reasons
    /\ saves \subseteq State
    /\ readers \in [Readers -> [phase : {"idle", "asked", "read"}, copy : State \cup {None}]]
    /\ published \subseteq {"raw", "passed", "failing"}
    /\ signals \in Nat /\ restarts \in Nat

\* Every MeetingState there is: in memory, on its way to the database, in it,
\* on its way back.
Copies == ({registry, held, outbox, row} \cup saves \cup {readers[r].copy : r \in Readers})
              \ {None}

\* A background task that is past its start always has a meeting to work on,
\* whatever is evicted or replaced meanwhile; one that has not started or has
\* ended keeps no private copy.
RunnerHasMeeting == /\ Holding => Mine # None
                    /\ ~Holding => held = None

\* Wherever a paused meeting is found, after a restart or a reload included,
\* it carries the snapshot that resume rebuilds it from.
PausedIsResumable == \A s \in Copies : ShouldPause(s) => s.snap # None

\* When resume has replaced the object a runner works on, that runner's own
\* object is stopped: no two objects of one meeting are running.
ReplacedRunnerStops == held # None => held.status # "running"

\* orchestrator/runner.py:890: the routing decision is persisted so that the row
\* agrees with memory.  A crash during a stage makes recovery repeat that very
\* stage, neither an earlier nor a later one.  Fixed routing keeps this promise;
\* with dynamic routing a stage that is repeated runs under the next one's name.
RowIsAtStage == pc = "stage" => row.stage = cur

\* No stage begins unless the meeting the endpoints see is running.
StagesStartRunning ==
    [][pc = "looping" /\ pc' = "stage" => registry # None /\ registry.status = "running"]_vars

\* Once an artifact is released, the meeting works on no further stage.
ReleasedIsFinished ==
    [][published # {} => ~(pc # "stage" /\ pc' = "stage")]_vars

\* The background task always comes to an end.
EveryRunEnds == pc # "idle" ~> pc = "idle"

-----------------------------------------------------------------------------
(* What comments, docstrings and documents say and the code does not do.   *)

\* conclave_core/state.py:80,446: abort marks the meeting aborted, a terminal
\* state.  (The runner writes DONE or PAUSED over it.)
AbortIsFinal ==
    [][registry # None /\ registry' # None /\ registry.status = "aborted"
          => registry'.status = "aborted"]_vars

\* orchestrator/runner.py:688: after the last subtopic a final produce works from
\* the aggregated context, so a finished meeting has an artifact.
AggregateIsProduced ==
    registry # None /\ registry.status = "done" => registry.artifact # "none"

=============================================================================
