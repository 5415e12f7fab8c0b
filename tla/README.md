# Conclave: TLA+ models, model checking and proofs

Conclave runs "meetings": a topic is clarified, debated by a team of LLM agents,
arbitrated, and turned into an artifact that passes a quality gate.  The backend
(`src/backend`) is one asyncio process per container with PostgreSQL behind it.
This directory models the control flow of that backend: what the coroutines do to
each other's state between two awaits, what survives a crash, and what a meeting
promises to the people who pause, resume, abort and restart it.

Paths below are relative to `src/backend/` unless they start with `src/`.

## 1. Inventory

| Component | State it keeps | Operations | Talks to |
|---|---|---|---|
| Meeting lifecycle, `app/orchestrator/runner.py`, `instant.py` | `_states` registry (LRU + TTL), one `MeetingState` per meeting | `Runner.run`, `load_or_create`, `set_state`, eviction, `recover_crashed_meetings` | every other component |
| Control signals, `conclave_core/state.py`, `routers/meetings.py`, `routers/ws.py` | fields of the `MeetingState` | pause, resume, abort, inject, borrow signals | lifecycle by shared reference, persistence |
| Run admission, `routers/meetings.py` | `_running_tasks`, `_run_locks`, `_meeting_semaphore` | `POST /run`, `_run_meeting_bg`, `DELETE` | lifecycle |
| Persistence, `app/dao/meeting_dao.py`, `meeting_aux_dao.py` | rows of the meeting, messages, evidence | `save_meeting`, `get_meeting`, `_persist`'s auxiliary saves | lifecycle, control |
| Event bus, `app/events.py`, `dao/event_dao.py`; WebSocket, `routers/ws.py` | `events` table, history ring, subscriber queues, sequence numbers | publish, subscribe, replay, connection hand-shake | every publisher, the frontend |
| Stage routing, `nodes/routing.py`, `workflow_templates.py` | loop and regression counters of the run | `decide_next_stage`, `next_stage_with_template`, the gates of the reducers | lifecycle |
| Stage nodes, `stage_runners.py`, `nodes/*`, `reducers.py` | claims, conclusions, conflicts, gate history; generated files | one coroutine per stage; `produce_node` writes, scans, deploys and tests | LLM access, borrow desk, sandbox, evidence tools |
| Borrow desk, `borrow_helpers.py` | pending request, loans, charter, freeze flag | assess, lend, approve, reject, freeze | stage nodes, control |
| Scheduler, `conclave_core/scheduler.py`, `manager.py` | results of a task graph | `run_plan` with concurrent agents | stage nodes |
| Refinement and network requests, `refine_loop.py`, `net_auth_manager.py` | the code at hand, rows of authorisation requests | run, repair, ask, poll, review, expire | produce, sandbox, users |
| LLM access, `agents/llm.py` | circuit breaker, JSON-mode support per provider | `complete` with attempts, JSON mode and failover | every node |
| Issues, `issue_service.py`, `issue_dao.py` | issue rows | bind, release, resolve, conflict, transition, delete | meetings, artifacts, merges |
| Artifacts and merges, `artifact_service.py`, `merge_service.py`, `git_service.py` | versioned artifacts, the shared clone, `origin` | publish, merge, push | gate of the lifecycle, issues |
| Sandbox services, `sandbox.py` | `_running_services`, containers that outlive the process | deploy, stop, warm-up sweep, shutdown | produce, control, docker |
| Browser pool, `tools/browser_tool.py` | contexts, one lock, Chromium | get, release, reclaim | tools of the agents, end of a run |
| WebSocket connections, `routers/ws.py`, `src/frontend/src/lib/ws.ts` | `_active_ws`, the client's timer and socket | connect, reconnect, replace, refuse | event bus, frontend |
| Everything else (teams and roles, tenants and RBAC, RAG and knowledge graph, plugins, observability, React views, evaluation, web search service) | own stores | single-row CRUD, I/O, views | - |

What is hard here, and where:

* **Shared references across awaits.**  `_states[m]` hands out the object itself.
  The runner mutates it between awaits, and so do the endpoints.  Resume of a
  paused meeting, a reload and an eviction replace the registry's entry, and from
  then on the runner works on a copy nobody else sees.
* **Late writes.**  `_persist` and the control endpoints fix a payload, await the
  database, and whoever commits last wins.
* **Crashes.**  Only the row survives; which fields were saved when decides what
  recovery reopens.
* **Counters and loops.**  Retries, subtopics, quality iterations and routing all
  lead back to the head of one `while`.
* **Ordering of events.**  Sequence numbers are given by the database, the order of
  delivery by the event loop.
* **Conditional updates.**  Issue rows have many writers; `UPDATE ... WHERE status IN`
  is all that orders them.
* **Things that outlive the process.**  Containers, a clone and a remote branch stay
  when the tables that know of them are gone.
* **Late callbacks.**  `onclose` of an old socket, a stop of a replaced service, a
  release of a context that a later run already uses.

What makes each part correct: a stopped meeting stays stopped and a finished one
finished; no two objects of one meeting are at work; the row names the stage in
progress; each run ends; at most one run per meeting and a bounded number in all;
a reader of the event stream that reconnects misses nothing; an issue is closed
with an artifact or returned to the pool, and one of a repository only after a push;
nothing is produced before the mandatory debates; a role is lent once and heard; an
answer is taken from any provider that gives a sound one; the report speaks of the
code that ran; a conclusion has its claims; no container and no browser context is
lost; a tab shows the meeting it was told to show.

## 2. Plan

| Order | Module | What it is for | Status |
|---|---|---|---|
| 1 | `MeetingLifecycle` | one meeting, its runner, signals, row, memory, restarts | done, checked, proved |
| 2 | `RunAdmission` with `SingleRun` | several meetings, run locks, semaphore, DELETE; shown to implement the abstract "one run at a time" of which `MeetingLifecycle` is one meeting | done, checked, proved |
| 3 | `EventBus` | publish, fallback numbers, memory, queues, hand-shake and replay of one meeting | done, checked, proved |
| 4 | `StageRouting` | templates, gates, loop caps and `decide_next_stage`, where the next stage that `MeetingLifecycle` leaves open is chosen | done, checked, proved |
| 5 | `IssueProtocol`, `IssueWorkflow` | the table of transitions as abstract specification; meetings, users and merges as its implementation | done, checked, proved |
| 6 | `BorrowDesk`, `LLMGateway` | loans across an LLM call and a save; failover and the circuit breaker | done, checked, proved |
| 7 | `CodeRefinement` | the refine loop and the requests it files | done, checked, proved |
| 8 | `DebateRound`, `ServiceProduction` | one round of agents with supplements and restarts; the production of a service over quality iterations | done, checked, proved |
| 9 | `SandboxServices`, `BrowserPool`, `WsConnections` | things with a lifetime of their own: containers, contexts, connections | done, checked, proved |

`MeetingLifecycle` composes with `RunAdmission` through `SingleRun`, with `StageRouting`
through the constant `Route`.  The modules of rows 4 to 9 share no variables; two
benches, `MCDeliberation` and `MCWorkshop`, check them (sections 6 and 7).

Next: what a client misses when the memory does not stay (section 5), as a run of its
own; the Redis bridge, which needs two processes; the auxiliary tables of `_persist`
together with a crash; `BorrowDesk` and `MeetingLifecycle` over one object.  Every
safety invariant and action property of the passing runs is a theorem.  Next among the
proofs: what makes the remaining liveness properties finite (section 8 does it for three
of seven), and an abstract specification of the event stream and of the pool that their
modules can be shown to implement.
## 3. `MeetingLifecycle`

### State and actions

| TLA+ | Code |
|---|---|
| `registry` | `_states[m]` (`runner.py` 1764-1826), `None` when not in memory |
| `held` | the runner's own reference, once the registry holds another object |
| `pc`, `cur`, `after`, `outbox` | where the coroutine `_run_meeting_bg` / `Runner.run` is suspended, the local `current_stage`, the reason and payload of the `_persist` under way |
| `row` | the row `save_meeting` writes and `get_meeting` reads |
| `saves` | `save_meeting` calls of control endpoints, started and not committed |
| `readers` | requests inside `load_or_create` |
| `published` | what `publish_and_notify` released, with the gate's verdict at that time |

One action is the code between two awaits.  `Persist` is an await of the database
whose payload is fixed when it starts; `Announce` is a publish followed by a
`_persist`, whose payload is therefore fixed one await later.  The actions of the
task are the disjuncts of `RunnerStep`; those of the users, the storage and the
memory are `User`, `Storage` and `Memory`.

Data that no property reads is dropped: messages, conclusions, evidence, prompts.
Kept are the stage, the flow plan, injected notes, retry counters, the iteration
counter, the checkpoint, the subtopic, whether there is an artifact and how it was
judged, the status and the snapshot taken at a pause.

* A stage node is a choice of the next stage in `Route[s]`, a failure (retry) or an
  exhausted balance.  `MCMeetingLifecycle` has two routes: `Forward` (the next stage
  only) and `Repeating` (a stage may also propose itself).
* An evaluator is a choice of verdict; an empty artifact always fails, as it does in
  every evaluator.  Exceptions inside an evaluator are not modelled.
* The flow plans "plan" and "full" run exactly as "standard" and share its value.
* The stages between clarify and produce differ only by the route, so three or four
  stages stand for six; `RowFollowsStage` and the other theorems hold for any number.
* Balance branches at `runner.py` 305-338, 354-383 and 902-930 are not modelled: the
  calls inside them swallow the exception they wait for.
* Interventions (49-180) and borrowed agents are part of the await between `StageDone`
  and `Spoken`; they change no control field.
* The auxiliary fields (evidence, loans, traces) of `_persist` are not modelled.

### Runs

| Run | Instance | Shows |
|---|---|---|
| `MeetingSignals` | 3 stages, 3 signals, retries, exhausted balance, manual review, an injected note | an object that was replaced is stopped; no stage begins unless the registered meeting is running; after a release nothing begins |
| `MeetingFaults` | eviction, one restart, one reader of stale rows, one signal | types; the runner always has its meeting; every paused copy anywhere has its snapshot |
| `MeetingEnds` | dynamic routing, both flows, two subtopics, one retry, one iteration, one signal, a failing database | the background task always comes to rest |
| `MeetingCrash` | fixed repeating route, two subtopics, iterations, two restarts, failing database and balance | the row names the stage in progress |

Bounds: three signals are what it takes to pause, resume (which replaces the object)
and pause or abort the new one while the old runner still moves; a fourth adds no
actor.  One save in flight suffices for an overtaken write.  Two restarts show a
recovered meeting crashing again.  Retries and iterations of 1 exercise both sides of
each comparison.  Two subtopics have a first, a switch, a last and an aggregation.
The theorems remove the bounds on everything except the signals of `RowFollowsStage`.

`CHECK_DEADLOCK FALSE` because a finished meeting with no request left is at rest.

Fairness: `WF_vars(RunnerStep)`.  The event loop schedules every ready task, and each
await of the runner (LLM call, database, publish) returns or raises within its
timeout, so a runner that can move does.  Users, readers, eviction and restarts owe
nothing.  Weak fairness of the whole is enough: exactly one step of the runner is
possible at a time, up to the choice of its outcome, and signals never disable it
for good.  `EveryRunEnds` still has to argue against unlucky outcomes: `MeetingEnds`
uses a forward route, because with `Repeating` dynamic routing may choose the same
stage for ever (the loop caps of the routing are `StageRouting`'s subject).

### Where the code and its own words disagree

| Run | Claim | What happens |
|---|---|---|
| `AbortOverwritten` | abort is final (`conclave_core/state.py:80,446`) | the runner assigns RUNNING, PAUSED, FAILED or DONE without looking: an abort during an await is overwritten |
| `AggregateNotProduced` | the final produce works from the aggregate (`runner.py:688`) | the loop falls through to the gate with no artifact; at the limit the meeting is DONE without one |

Consequences of the same mechanisms that no run is spent on, and that limit the
statements which do hold:

* the complexity "simple" that clarify writes (`stage_runners.py:64`) is read as the
  instant flow by the run that a resume starts (`runner.py:297`, `instant.py:60`), so
  a paused simple meeting comes back without its debate;
* DONE is never saved (785, 801 assign it after the last `_persist`), so recovery
  (`main.py:203`) reopens finished meetings as paused;
* an abort's save may commit before an older `_persist`, so the row says running and
  a restart reopens the meeting as paused;
* a pause that arrives between `POST /run` and the task's first statement is
  overwritten by RUNNING, hence `StagesStartRunning` looks at the registered status
  when a stage begins and not at the history of signals;
* `Leave` registers the runner's object again and so undoes a resume that happened
  meanwhile; resuming through `POST /control` at rest starts no task;
* notes injected between pause and resume are lost, resume rebuilds the older snapshot;
* `load_or_create` registers what it read without looking again (1980): an old running
  copy can replace a paused one.  `ReplacedRunnerStops` and `StagesStartRunning`
  are therefore stated for `Readers = {}`;
* at the iteration limit an artifact that failed the gate is published (800-807),
  while 790 withholds it from publication until a person has looked at it;
* with dynamic routing a stage that is repeated is not saved under its own name
  (889 compares with the stage put back at 826), so `RowIsAtStage` is for fixed routing.

### Proofs

`MeetingLifecycle_proofs` proves, for every number of stages, retries, iterations,
subtopics, notes, readers, signals and restarts, every route and every set of faults:

| Theorem | Property | Extra assumption |
|---|---|---|
| `TypeCorrect` | `TypeOK` | - |
| `RunnerAlwaysHasMeeting` | `RunnerHasMeeting` | - |
| `EveryPauseIsResumable` | `PausedIsResumable` | - |
| `NoTwoRunningObjects` | `ReplacedRunnerStops` | no stale readers |
| `PauseHoldsBackStages` | `StagesStartRunning` | no stale readers |
| `ReleaseEndsWork` | `ReleasedIsFinished` | no stale readers, one life of the process |
| `RowFollowsStage` | `RowIsAtStage` | no stale readers, no signals, fixed routing |
| `RunsComeToAnEnd` | the safety half of `EveryRunEnds` | - |

Besides these only the named constant assumptions of `MeetingLifecycle` are used.

The argument.  `Inv` is the inductive core: the types, `RunnerHasMeeting`, and that
every copy of a meeting (registry, runner, outbox, row, saves, readers) is *sound*: its
counters are in range and a paused one has a snapshot.  Soundness of all copies is
needed at once because each action moves copies from one place to another; the row
alone, say, is not inductive.  `NoTwoRunningObjects` adds that nobody sets a replaced
object running: only `Start` assigns RUNNING and it runs while the task still shares
the registered object.  `PauseHoldsBackStages` follows from it at `StageStarts`.
`ReleaseEndsWork` adds that after a release the task is publishing, leaving or at
rest, and every object there is has ended.  `RowFollowsStage` strengthens the property
with what is in the row or the outbox at each program point of the loop.

`RunsComeToAnEnd` gives what is left of a run as six numbers, compared from the left
(`RunLeft`, `Below`): whether the task is before, in or behind its loop, the subtopics to
come, the iterations, the stages to `produce`, the retries of the stage at hand, and the
steps of one pass of the loop.  Every step of the task takes away from it, except a routing
decision for the same or an earlier stage (`SentBack`).  Next to `Inv` this needs to know
where the object stands at each point of the loop (`Placed`): a retry works on the stage at
hand, the gate is only
reached behind the last stage and the last subtopic, and no object in the loop has failed.
The last one matters because resuming a failed meeting resets a retry counter: it could
otherwise give a run under way its retries back.  All other signals, saves, evictions,
reloads and replacements leave `RunLeft` alone, and a restart ends the run.

Nothing is assumed of the route: the gate sends a cross-team debate back to the teams with
fixed routing too (`stage_runners.py` 357-366), and dynamic routing may repeat or revisit a
stage.  How often that happens is bounded where it is decided: `StageRouting` and its
`EveryStepBringsTheEnd` (section 8), for each subtopic anew: the switch clears
`gate_history` (`runner.py` 646).

Left to TLC: that a run which can move does (`EveryRunEnds`), and the two disagreements.

## 4. `RunAdmission` and `SingleRun`

### State and actions

| TLA+ | Code (`routers/meetings.py`) |
|---|---|
| `status` | `status` of the object in `_states`, `None` when the meeting is not in memory |
| `request` | a `POST /run` handler inside the lock, awaiting `bus.publish` (1072) |
| `holder` | who holds the `LazyLock` that `_run_locks[m]` has *now*; a popped lock is nobody's |
| `registered` | `_running_tasks[m]` |
| `task` | coroutines of `_run_meeting_bg`: waiting for the semaphore, in `Runner.run`, publishing `meeting.error`, past the two `pop`s of `finally` |
| `slots` | free places of `_meeting_semaphore` |
| `deleter` | a DELETE handler (awaiting the cancelled task, deleting the row, sweeping the index) or a batch-delete handler |

`Admit` and `Launch` are the two halves of the critical section.  Handlers that wait
for the lock are not modelled: when they get it the task is registered and they are
answered 409.  `Enter` is the semaphore and the first statement, `Finish`, `Escape`,
`Reported`, `Cancelled` are the ways through `_run_meeting_bg`, `Release` the part of
`finally` before its first await, `Released` the rest.  `Stopped` covers both a
cancelled task that ended and the three seconds' timeout, so the handler may go on
while the task still runs.  `DeleteEnds` is a 404 of the row, a restore, an unknown
mode or an entry of a batch that is skipped; the run was stopped before the code
looks at any of these.

A task name stands for a coroutine that exists; `Tasks` bounds how many exist at
once.  `Deletable` separates the meetings that users may delete; the others are
`Kept`.  What holds for kept meetings holds whatever happens to the deletable ones.
`Outcomes` picks, for an instance, statuses after which a meeting can and cannot be
run again.

Not modelled: the browser context that a finished run releases (it may belong to the
next run), meetings reloaded with `load_or_create`, a handler torn down with its
connection.

### Runs

| Run | Instance | Shows |
|---|---|---|
| `Admission` | two meetings of which one may be deleted, two requests, one deletion at a time, three tasks, two places | for the kept meeting the table is complete and one coroutine works at a time (`SingleRun`); places are conserved; a run that was admitted gets its turn or is cancelled |
| `DeletedWhileRunning` | one meeting, violation | DELETE lets a second run in while the first is at work |

Three tasks are enough: a cancelled run that is still releasing, its successor on the
same meeting, and the other meeting's run compete for two places.  With two places the
semaphore does not by itself keep two runs of one meeting apart, and the third task has
to wait.

Fairness: `WF(TaskStep(t))`, each run ends (that is `EveryRunEnds` of
`MeetingLifecycle`) and the event loop schedules it; `SF(Enter(t))`, because
`asyncio.Semaphore` serves its waiters first in first out, so a waiter that finds a
free place again and again gets one.  With `WF(Enter(t))` alone a place could go round
between the others for ever.  Handlers and deletions owe nothing.

### The finding

`DeletedWhileRunning`: the lock and the table protect against two requests, but DELETE
takes the task out of the table before it has ended (910), drops the lock (916, 945,
967), and the cancelled task drops both again in `finally` (1161-1165), whoever they
belong to by then.  Two `Runner`s can then work on one meeting, which 1046-1047 claims
impossible.

### Proofs

`RunAdmission_proofs` proves `TypeOK`, `RunsAreRegistered`, `SlotsAddUp` and the
refinement `RunsOneAtATime` for every set of meetings, requests, deletions, every
finite set of tasks and every positive limit.

`RunsAreRegistered` is not inductive: a launch overwrites the table's entry, so one
has to know that there was none (`LockSound`: a handler inside the critical section of
a kept meeting has the lock, and nobody is registered); the end of a task empties the
entry, so one has to know that the entry is its own.  `RegSound` and `DelSound` say
what the table and a deletion can refer to.  `SlotsAddUp` counts a set and needs the
finiteness of `Tasks`.  The refinement maps `Enter` on a meeting in memory to `Begin`,
the three ends to `End`, and everything else to a stutter; that nobody is at work when
`Begin` happens is `RunsAreRegistered` for the task that is about to enter.

Left to TLC: `EveryRunGetsItsTurn` and the finding.

## 5. `EventBus`

### State and actions

| TLA+ | Code |
|---|---|
| `stage`, `seq` | each call of `publish` (`events.py` 99) and the number of its event: not begun, inserted, committed, dispatched, or gone with the process |
| `nextSeq`, `table` | the serial column and the committed rows of the meeting (`dao/event_dao.py`) |
| `history` | `_history[meeting]`; a set, since the code keeps the list sorted by `seq` |
| `conn` | a WebSocket handler from `bus.subscribe` (`ws.py` 375) to its end: `asking` for `subscribe_seq`, `restoring` in `replay`, `loading` the meeting, `counting` for `snapshot_seq`, `replaying`, `draining`, `live` |
| `reader` | a GET handler (`/events`, `/trace`) that found the memory empty and restores it |

`Insert`, `Commit`, `Dispatch` are the three points of `publish` at which other
coroutines can run; `SaveFails` is its `except` branch with the fallback number
(139), before or after the insert.  `LocalDispatch` has no await that suspends
(`put_nowait`), so it is one step: duplicate check, sorted insert, trim, and one
`put_nowait` per subscriber.  `publish_batch` is several publishes that happen to
move together.  Numbers are those the code shows outside (starting at 0).

`Connect` is everything from `subscribe` to the first real wait: with events in
memory `last_seq` and `replay` do not suspend, without them the handler is left
`asking`.  `Answer` is the database, `Asked`, `Reloaded`, `Counted` what the handler
does with it.  `Reloaded` and `ReadEnds` share `_restore_from_db`, which replaces
the memory by the rows it read earlier, whatever has been dispatched since.
`Snapshot` and `Counted` build the snapshot after `last_seq`, without an await
between, so it shows what happened until then.  `Drain` compares with the cutoff,
`Deliver` does not.  `Withhold` is the other outcome of the loop at 426-434:
`_check_ws_event_rate` (145) says that the connection has had its events of this
minute, after the event was taken off the queue, and the event is dropped.  Which
events meet the limit depends on the clock, so it is a choice; the drain (423) does
not ask the limit.

Three fields of a handler are not in the code.  `warm` says that the memory has been
there, never emptied nor replaced, since the handler subscribed.  `owed` is what it
has still to send: what was to be replayed, and every event dispatched since with a
number above all of the memory (`Due`); the snapshot settles everything before it,
and a full queue forgives what it forgets.  `withheld` is what the rate limit kept
back: such an event stays owed, since the client never gets it.

### Run

`EventStream`: three publishes, one WebSocket handler, one GET handler, a memory of
two events and a queue of two, so that both trim and overflow, and every order of
commits, failures, evictions, restarts and reconnections happens.  Three publishes
are what it takes: one to replay, one to arrive during the replay, one to overflow
or to come late.  One handler is enough because handlers share nothing but the
memory, which they only replace as the reader does.  The instance stops when every
event is published and every client left for good, hence no deadlock check.

* `NumbersAreUnique`: numbers of the database and of the fallback never meet in the
  memory.  (They do meet outside it: see below.)
* `OwedIsOnItsWay`: the comment at `ws.py` 359 ("subscribe first, then replay, so
  that no event is lost").  It depends on the cutoff being `subscribe_seq`; with the
  number that `replay.done` reports (386) the run finds a loss.  What is owed and no
  longer on its way is what the rate limit withheld, and nothing else.
* `OwedIsDelivered`: what a handler owes comes up for sending, under weak fairness of
  its own steps, that is: the database answers, a send ends, and the event loop comes
  back.  It does not say that the client gets it: the outbound rate limit may withhold
  it (431-433), and then nothing sends it again on this connection.
  Publishes need no fairness; they may even go on filling the queue.

### Proof

`EventBus_proofs` proves `TypeOK`, `NumbersAreUnique` and `OwedIsOnItsWay` for any
number of publishes, handlers and readers and any two bounds.  The invariant `Inv`
is `Data`, about the tables, and `Good` for every handler.  Uniqueness needs that
the rows and the inserted events have different numbers below `nextSeq`
(`TableNumbers`), since a restoration replaces the memory by rows.  Delivery needs
that a warm handler's memory holds a number as great as the cutoff: an event above
all of the memory is then above the cutoff, and the drain will not drop it.  That
trimming keeps the greatest number (`NewestProperties`) rests on `Greatest`, that a
bounded set of naturals has a maximum, which is taken from the well-foundedness of
`<`.  `OwedIsDelivered` is only model-checked.

### What clients still miss

The properties are about events that come in order while the memory stays.
Outside of them the code loses events, and the model shows how:

* After a restart or an eviction the first event published is alone in the memory,
  and `replay` (490) asks the database only when the memory is empty: a client that
  returns, and GET `/events`, get what came since, not what the table holds.  The
  same goes for a memory that was trimmed.
* An event with a lower number that is dispatched late is below the cutoff, or below
  the `lastSeq` that the client returns with (`src/frontend/src/lib/ws.ts` 107).
* A restoration that overlaps a dispatch takes the new event out of the memory; one
  between commit and dispatch puts it there first, and the duplicate check (204)
  then keeps it from the subscribers.
* A fallback number is one that the database may give to the next event: the second
  of the two is taken for a duplicate.
* An event that the outbound rate limit withholds is dropped, and the numbers of later
  events take the client's cursor past it.
* `last_seq` answers 0 both for no event and for an event with number 0.

Not modelled: the Redis bridge (a dispatch of the same event, delayed, in another
process), a commit whose acknowledgement is lost, the global stream `/ws/system`,
and the handler that fails between `subscribe` and its `try` (425), which leaves its subscription behind.

## 6. What a meeting goes through: the run `Deliberation`

`StageRouting`, `BorrowDesk`, `LLMGateway` and `CodeRefinement` are four machines that
share no variable.  `MCDeliberation` puts them side by side: `active`, chosen at the
start, names the one that moves, and the others stay at one of their initial states.
Every behaviour of the bench is a behaviour of one part, under that part's own
fairness, so one run answers for all four.  `CHECK_DEADLOCK FALSE`: a meeting that is
over, or code that is reported, is at rest.

### `StageRouting`

| TLA+ | Code |
|---|---|
| `RunClarify` ... `RunProduce` | the stage runners of `stage_runners.py` with the reducers' choice of `state.stage` |
| `GateSends` | the gate of `reduce_cross_team`: supplement, re-examine or pass, at most two rounds |
| `Sequence`, `NextOf`, `NextInTemplate` | `workflow_templates.py`, `next_stage_with_template` |
| `Mandatory`, `Offered`, `ValidNext`, `MaxLoop` | the same names in `nodes/routing.py` |
| `DecidedByCode`, `DecidedByModel`, `DecidedByDefault` | the branches of `decide_next_stage` |
| `Proceed` | the regression count of `Runner.run` |
| `FixedRoute` | the branch without dynamic routing |

Five templates stand for eight: `design`, `build`, `adr` and `test_gen` have the same
sequence.  All flows, depths, verdicts and answers are in the run; nothing is bounded
but what the code bounds.  `astray` is a history variable: a decision was carried out
that was not on offer.

* `DebatesBeforeProduce`: what the depth or the template makes mandatory is debated
  before production, unless the meeting has gone `astray`.
* `RoutingEnds`: the caps on loops, gate rounds and regressions together end every
  meeting.  `WF(RouteStep)`: each stage returns or raises, and the loop goes on.

The model shows where the code goes astray.  With fixed routing a stage that names
itself is sent on along `STAGE_ORDER`, so a re-examination never happens.  An answer of
the LLM outside the offer, or none, falls through to the template's next stage without
a look at the offer (`routing.py` 241-247, though 164 calls the mandatory stages
enforced).  Dynamic routing replaces whatever the gate has chosen.  The loop and
regression counters are attributes of the run and start again with the next one.

### `BorrowDesk`

`desk` is the runner between two awaits: `Assess` checks and starts the LLM call,
`AssessorWants` or `AssessorWantsNobody` is its return (`borrow_helpers.py`),
and `PassesBy` is a stage that assesses nobody (all but `run_intra_team` and
`run_cross_team`).  `BorrowedSpeaks` is one borrowed agent of
`_let_borrowed_agents_speak`.  Three stages call it themselves, but the runner calls it
again after *every* stage that returned (`runner.py` 555-557), whichever it was, and
saves without an await in between (580): that is why a loan granted or approved during
clarify, arbitrate or produce is heard too.  `PersistBegins` and `PersistEnds` are
`extract_aux` and `inject_aux` around the await of `_persist` (`runner.py` 1740).
`PersistsInPassing` are the saves with nobody speaking before them: a stage that raised
and is retried (511), recorded warnings (595), the change of subtopic, the iteration and
the rest (668, 707, 768, 891); `MaxAsides` bounds how many come between two ends of a
stage, as `max_stage_retries` does for the retries.
`HandleLoan`, `ApproveBorrow`, `RejectBorrow` and `FreezeBorrow` are the control signals
and come at any of these points.  `charter` is `borrow_history`.

Four roles are one more than the threshold of automatic loans; a meeting may begin with
that threshold reached, since control signals save the counter and only `_persist`
saves the loans.

* `LentOnce`: no role is lent twice, not even while the list is out to be saved, because
  every grant looks at the charter and not only at the list.
* `LentIsHeard`: a loan on the list outside a save gets to speak, with `WF(DeskStep)`
  (the stage loop goes on while the meeting runs, and not all its stages fail).  It fails
  when the call at `runner.py` 557 is left out (the mutant).

A loan granted during a save is overwritten when the list comes back: the role is on
the charter, is never heard and cannot be lent again.  The limit of two loans can
become three (an assessment looks before its call).  A freeze during an assessment does
not stop the loan it leads to, which `borrow_helpers.py:199` promises.  With a threshold
of three and a limit of two, a request that needs approval only arises after a restart.

### `LLMGateway`

`RealLLM.complete` (`agents/llm.py`): `call[c]` is one call with its provider `n` and
`attempt`; a provider is the set of the ways it may answer.  `Retried`, `PassedOver`,
`AskForJson`, `JsonAnswered`, `Raised` are the `except` branches and tiers.
`FormatRejected` is the 400 at 1303-1315: only the request of tier 3 carries a
`response_format`, but the handler looks at nothing but the text of the answer (1460,
which matches "not support" as well), so an ordinary request can take it too; either way
JSON mode is switched off for the provider and the same request is made once more.  `BeginCall`, `RecordSuccess`, `RecordFailure`, `CoolsDown` the circuit breaker.
The two chains have a sound provider behind one that fails in three ways, and one
that fails in four ways and sometimes answers.  Two callers share the breaker; two
attempts and a threshold of two exercise both sides of the comparisons.

* `SoundProviderAnswers`: a call that was let through ends with the stub only if no
  provider of its chain was sound.
* `OpenGivesWay`: an open breaker lets somebody through again.  Fairness: every request
  has a timeout (`WF(CallStep)`), time passes, and meetings go on calling (`WF` of
  `BeginCall`: an open breaker that nobody asks stays open, rightly).

An exhausted balance is caught inside `complete` (849), so the pause that the comment at
1271 announces does not happen.  An answer without choices raises an exception
`complete` does not expect: the remaining providers are not asked.  `half_open` lets
every call through until the first result, and a success of a call that began before
the breaker opened closes it at once (docstring at 462).  `complete_text` has no
failover and is not modelled.

### `CodeRefinement`

`refine_python_code` with `net_auth_manager.py` and `routers/net_auth.py`.  `refining` is the
suspension point (running, waiting for a review, repairing), `attempt` the call and its
round, `code` and `ran` tell versions of the code apart, `asked` has the request rows,
one per round.  Review, the sweep of expired requests and time interleave freely.
Three and two rounds stand for five and three: a first, a middle and a last one.

* `ReportedCodeRan`: the report speaks of the code whose execution stands beside it.
* `NetworkIsGranted`: a second call has its approval.
* `RefineEnds`: a run that waits ends although nobody answers; `WF` of the loop and of
  time.

A request whose wait timed out stays pending (only `POST /net-auth/expire` sweeps) and
can be approved to no effect, as can one approved between the last poll and the
deadline; each failing round files a request of its own; reviewing twice publishes
`net_auth.reviewed` twice instead of answering 404.

## 7. What surrounds a meeting: the runs `Workshop` and `SharedClone`

`MCWorkshop` is a bench of six parts in the same manner; it checks safety only, and it
has no fairness.  `CHECK_DEADLOCK FALSE` since every part may run out of requests.

### `IssueProtocol` and `IssueWorkflow`

`IssueProtocol` is `ALLOWED_TRANSITIONS` (`issue_service.py`) as a specification: what any
writer of the table may do.  `IssueWorkflow` has the writers:

| TLA+ | Code |
|---|---|
| `Propose`, `BindMeeting`, `SaveBinding`, `SaveBindingFails` | `POST /meetings` with an `issue_id`: the check and the first save, the conditional update, the second save that puts the issue into the row |
| `PublishArtifact`, `CloseIssueAfterPublish`, `CloseIssueFails` | `publish_and_notify`: the artifact's row, then its issue |
| `AbortMeeting`, `DeleteMeeting`, `Release`, `ReleaseFails`, `SoftDeleted`, `HardDeleted` | abort (which asks the state for the issue) and DELETE (which asks the row) of a meeting, `release_issue` and its swallowed exception, foreign keys |
| `Attach`, `PatchRead`, `PatchWrite`, `PatchRefused`, `DeleteIssue` | PATCH and DELETE of an issue; `transition_issue` reads and then updates if nothing changed; the artifact may come with the request |
| `ValidateMerge`, `FetchOrigin`, `FastForward`, `FetchSource` | `execute_merge` and `preview_merge` up to `git fetch <source> HEAD`, in the clone that all meetings of a project share |
| `MergeBranch`, `TryMerge`, `MergeConflicts`, `MergeMeetsAnother`, `CollectConflicts`, `AbortMerge`, `MarkConflict` | `git merge FETCH_HEAD`, the dry run, what a merge that failed finds, and `git merge --abort` |
| `PushBranch`, `ResolveMerged`, `MergeFails` | push, the transition to resolved, and the failure of any command |
| `RemoteAdvances` | others push to the default branch |

A history (`clone`, `tracked`, `remote`, and `fetched` for FETCH_HEAD) is the set of branches
merged into it; `tree` is the working tree of the clone, where somebody's merge may be open.
Every git command is a step, and nothing locks the clone.  Two runs divide the model:

* in `Workshop` two issues, one of them of a repository, two meetings, one of which may be
  stopped, a PATCH and a deletion, no merges;
* `SharedClone`: one issue of a repository, two meetings made for it one after the other,
  one of which may be stopped, and any two of: two merges or previews, a foreign push, a
  PATCH, a deletion of the issue.  Two handlers are what it takes for one to replace,
  abort, reset or push the other's work.

What one of them leaves out the theorems of section 8 have: they hold for any instance.
Meetings in `Stoppable` may be aborted or deleted, issues in `ByHand` patched to resolved;
what holds for the others holds whatever is done to these.

* `IssuesFollowProtocol` is the refinement (`SharedClone`).
* `ResolvedIsPushed` (`SharedClone`): an issue of a repository that nobody closed by hand is resolved
  only by a merge request for it, and whatever this request has merged is on `origin`,
  however many handlers fetch, preview, abort and push in the clone; and if no other
  request came, its own branch is among it.
* `StoppedFreesIssue` (`Workshop`): a meeting that was stopped, and for which `release_issue` was called
  and did not fail, does not keep its issue.

Two things the code's own words promise do not hold in the model; the properties above
are stated so that they say what does:

* `routers/issues.py:80-81`: confirm=True merges into the default branch, pushes, and the
  issue is resolved.  The meeting's branch is fetched (`merge_service.py` 289) and FETCH_HEAD
  merged (295) in two commands; another handler's fetch in between (96) makes the merge one
  of something else, or of nothing: the push succeeds and the issue is resolved without its
  branch.
* `meetings.py:918-919`: deleting a meeting releases its issue so that it is not stuck in
  in_progress.  DELETE asks the row (920), which names the issue only after the second save
  of `create_meeting` (320); a meeting deleted between the binding (313) and that save leaves
  its issue in progress.

The model also has: a release that fails, is logged, and leaves the issue in progress; a
release that does not look at `assigned_meeting_id` and frees an issue another meeting has
taken (168); a merge that fails because the clone is in the middle of another handler's
merge, takes that one's conflicts for its own, marks its own issue and aborts the other's
merge; a commit whose push failed and that goes out with the next one; a merge that is
pushed while its issue's transition fails; a second save that brings back the row of a
meeting deleted meanwhile; a hard deletion that leaves a resolved issue without its artifact.
Not modelled: the WebSocket abort (it does not release), lineage and version numbers
(overlapping publications need two runs of one meeting, section 4).

### `SandboxServices`

`deploy_service` (`sandbox.py`) from the port to the registration, `stop_service`,
`cleanup_all_services`, `warmup_sandbox`; `up` is what Docker runs, and survives `Restart`.
Meetings in `Rough` use remote hosts and compose, may be cancelled, and meet docker
commands that fail; the others have the plain path, for which the properties are stated.
One of each, two ports, one restart; the plain one deploys twice, which gives a
predecessor, a successor and a stop overtaken by a deployment.

* `NoOrphan`: a container of a plain meeting is being deployed, registered, being
  stopped, or was there at the warm-up: to be swept, or what the sweep could not remove
  (`docker ps` or `rm` fails, or a command raises; no one looks, and only the next process
  tries again).  `leftover` keeps those boxes.
* `StopSparesSuccessor`: a late stop does not take down what the next deployment started;
  it depends on the container being stopped by its identifier and not by its name.

For the rough ones the same model shows containers that nobody knows of: a failed or
timed-out start, a cancelled deployment, a move to another host, a stop that goes to the
local daemon.  The warm-up sweep may remove what was deployed while it listed.  Ports
are chosen among registered services only, although 1057 speaks of allocated ones.  A
compose project whose containers have all ended counts as running (1725, 1759, 1796).
DELETE of a meeting and the WebSocket abort (`ws.py` 478) leave its service running.

### `DebateRound`

One round of `intra_team`: `PlanRound` the planner with its targets, `AgentEnds` each agent of
the scheduler's `gather`, `ReduceBegins`, `WriteClaims` (one await per role), `Conclude`,
`BackToRound` the gate or the routing, `SaveRound` and `RestartRound` a control signal's save
at any time and a restart from it.  Claims and conclusions carry the number of their
round.  A member, a moderator that is a member too (team roles are free strings, and
`match_role` maps several of them to it), and a role of the gate's invention; two rounds.

* `ConclusionsAreGrounded`: after a round the claims of each conclusion are on the list and
  each role has one, also if the state was saved between two writes and begun again.  A
  moderator that is a member may have several.
* `SupplementSparesOthers`: roles that were not asked keep what they said; where none of the
  team was asked, only the moderator that stands in adds something.

So a supplement does not always replace, as `stage_reducers.py:62` says: when it names
nobody of the team the planner asks the moderator, the fallback of `run_intra_team` (456)
finds it among the members, and it is heard beside its old conclusion.
An agent that fails is swallowed twice, so a round in which all failed completes without
claims; in a supplement the old claims of that role are gone.  A repetition of the whole
round adds claims and replaces conclusions.  `completed_roles` and
`intra_team_partial_results` are written and never read.  Sub-plans would start at depth
zero again (`scheduler.py:93`), but no executor returns `sub_tasks`.

### `ServiceProduction`

`produce_node` for a deployable service, over quality iterations: `workspace` is the disk,
`effective` the tree of this iteration, `served` what the container has, `checks` what
`execution_report` is made from.  `WriteFiles` is the writing and what mends the disk after
it (`/health`, `curl`, missing `__init__.py`); it passes over empty files and paths with
`..`; `WriteRaises` leaves some files written, and the runner tries again or gives up.  Two
files, one that may be mended and one that may be made, and three iterations: one leaves
a file, the next does not have it, a third sees the result.  A path with `..` (`Outside`) is
to the disk what an empty file is, so the instance has none; the theorem has any.  A path
has one spelling (`a/b` and `/a/b` are one file, the last one wins).

* `SuccessIsServedClean`: a success serves the files of its own iteration
  that have a text, as generated or as mended; its tree parses; and none has a critical
  pattern among all it serves, if the scan did not itself fail.  What the mending adds is
  not parsed again: the syntax check reads the tree.
  It says nothing of the other paths of the tree: a file that the new tree has empty is not
  written (1515), and an earlier iteration's stays in its place and is served, although 1511
  speaks of writing the complete tree.

The deployment happens in spite of the block (410 against 1696-1719); tests that raise do
not count as failed; files of earlier iterations stay, are served, and are not parsed
again; a failed first phase yields an empty result of high confidence; unreadable and
large files count as clean.

### `BrowserPool`

`get_context`, `release_context` and the idle loop of `tools/browser_tool.py`, every await a step
(`new_context` and `add_init_script` are two), `poolLock` the `asyncio.Lock`.  `openPages` is
what Chromium has open, `contexts` the table, `lost` the open contexts that no one has any
more: of a cancelled call, of an `add_init_script` that raised (398), or of a close whose
error was swallowed (291, after the entry has left the table).
Two meetings and two tool calls compete for one place, with two contexts in all.

* `PoolWithinLimit`: one context per meeting and no more than the maximum, although closing
  happens without the lock.
* `ContextsAreKnown`: nothing is open that nobody will close, except what is `lost` in one of
  these three ways; no lost context is in the table, and no closed one.

After Chromium disconnects `_browser` is kept and no context can be opened until the
process ends.  The release at the end of a run may take the context of the next run
(`meetings.py` 1166).  Exclusive locks are dropped after the close, so two skills may
hold one.

### `WsConnections`

The frontend's `WsClient` (`OpenMeeting`, `CloseMeeting`, `OnClose`, `Reconnect`) against
`meeting_ws` (`Refuse`, `Accept`, `CloseSuperseded`, `Serve`, `ReplayFails`, `Leave`); requests arrive
in any order, connections are lost at any time, and each end finds out by itself.  One
tab, two meetings, three connections: an old one, a new one and a reconnect.

* `TabShowsItsMeeting`: no late `onclose` and no timer brings an earlier meeting back.
* `OneHandlerServes`: at most one handler for a meeting is not being closed (`ws.py:54`).

A failure between `subscribe` and the `try` (376) leaves the entry in `_active_ws`; five of
them lock the user out until the next restart.  An older connection that arrives late
displaces the newer one with code 1000, and the tab does not reconnect; after 4401 and
4403 it reconnects for ever.  `lastSeq` is not reset when another meeting is opened.
## 8. Proofs about the parts of sections 6 and 7

For each part there is an inductive invariant, the three facts that it holds at the
start, is kept by every action and implies the properties, and the temporal theorems.
They hold for all values of the constants that satisfy the named assumptions, which say
no more than the code does: `ChainsAssumption` (a chain of providers is not empty, since
`get_llm` gives out a `StubLLM` when none is configured), `GatewayAssumption` and
`RoundsAssumption` (numbers of attempts and rounds are positive), `NoBoxAssumption` (the
value for "no container" is not a container), and their like.  TLC evaluates them in the
runs `Deliberation` and `Workshop`.

| Module | Theorems | What makes the property inductive |
|---|---|---|
| `Deliberation_proofs`, routing | `RouteTypes`, `MandatoryDebatesAreHeld` | `RouteInv`: with fixed routing the meeting has been wherever its place in the template says (`OnRoute`); with dynamic routing, for each depth, which debates can still be missing at which stage (`LightWay`, `StandardWay`, `DeepWay`), so that `produce` is on offer only when none is |
| the same, loans | `BorrowTypes`, `NobodyIsLentTwice` | `BorrowInv`: the list at hand and the one that is out for a save name nobody twice between them, and only who is on the charter; outside a save nothing is out; while an assessment is under way the list is within its limit, which bounds it by one more |
| the same, calls | `GatewayTypes`, `SoundProvidersAreAsked` | `GatewayInv`: a call has left behind only providers that gave it something other than a valid answer (`LeftBehind`), the one it asks again in JSON mode included |
| the same, refinement | `RefineTypes`, `ReportedCodeHasRun`, `NetworkNeedsGrant` | between a run and the next repair the code at hand is the one that ran, and a repair is only asked for when a round is left (`FixedCodeRan`); how many repairs there can have been (`CodesFitRounds`); an approved request is never changed again |
| the same, bench | `BenchInvariant`, `DeliberationTypes` | the four invariants together: a step of the bench is a step of one part and a stutter of the others (`BenchSteps`) |
| `IssueWorkflow_proofs` | `IssueTypes`, `ResolvedOnlyWhenPushed`, `StoppedMeetingsHoldNothing`, `TableImplementsProtocol` | a merge under way is for an issue of the repository, and what it merged is in the clone or at `origin` as its stage says (`MergesOK`), which is its own branch as long as no other request has come (`LoneOK`); before it is bound, a meeting has nothing to release (`SessionsOK`); an issue is assigned only to a meeting made for it (`BoundOK`); a PATCH that has read intends an allowed transition (`EditsOK`) |
| `SandboxServices_proofs` | `SvcTypes`, `NoContainerIsOrphaned`, `StopsSpareSuccessors` | once the predecessor is removed nothing of the meeting runs but what the deployment itself has started (`OnlyItsOwn`), so registering it forgets nobody; a stop holds a container of an earlier deployment, never the one at hand or the one that is registered (`StopsInv`) |
| `Connections_proofs`, browser | `PoolTypes`, `PoolStaysWithinLimit`, `NoContextIsLeaked` | the lock belongs to the one call that launches, reclaims or opens (`LockIsHeld`); while it does, nobody adds to the table (`PlaceIsFree`); numbers of contexts are new (`NextIsNew`) |
| the same, sockets | `WsTypes`, `TabsKeepToTheirMeeting`, `HandlersDoNotPileUp` | the handler that is not being closed is the one in the registry (`ServingIsRegistered`): a newer one registers only by superseding it |
| `Workshop_proofs`, debate | `RoundTypes`, `ConclusionsStayGrounded`, `OthersKeepTheirWords` | `RoundInv`: the words at hand and the words in the row are grounded alike (`Grounded`), for whatever a save has caught a restart goes on from; what is written stands, and only for roles that were asked (`Writing`) |
| the same, production | `ProductionTypes`, `SuccessRunsItsFiles` | `ProductionInv`: from the write to the report the disk holds the tree of this iteration (`Written`), the scan's word is about that disk (`ScannedOK`), and what is served is that disk (`Deployed`) |
| the same, bench | `BenchRunsItsParts`, `WorkshopTypes` | a behaviour of the bench is a behaviour of each part, so that every theorem about a part holds on the bench |

The refinement maps `BindMeeting`, `PatchWrite`, `Release` and `MarkConflict` to
`Transition`, a document's `CloseIssueAfterPublish` and `ResolveMerged` to `Settle`, `Attach`
and a repository's `CloseIssueAfterPublish` to `Present`, `PublishArtifact` to `Appear`,
`HardDeleted` to `Forget`, `DeleteIssue` to `Withdraw`, and all other steps to stutters.  That
a PATCH maps to a transition rests on `EditsOK` and on the update's condition.

### Why loops end

Termination under fairness is out of the prover's reach, but the half of the argument that
can be wrong is a safety property: some number must get smaller.  Four theorems give
that number and prove that it is a natural number (or several, compared from the left)
and that steps take away from it.  Together with the fairness stated in the modules they
leave only the step "a sequence of naturals that falls is finite" to the reader.

* `RunsComeToAnEnd` (`MeetingLifecycle`, section 3): six numbers from the subtopics to come
  down to the steps of one pass of the loop.  They fall with every step of the task but a
  decision that sends the meeting back, and nobody else changes them before the task has
  ended.
* `EveryStepBringsTheEnd` (`StageRouting`): `WayLeft` weighs what is left of the loop caps
  and gate rounds with 14 steps each, and adds twice the number of stages to the end of
  the order.  A decision either goes on along the order, or goes back and uses up a loop
  or a round.  It starts at 179 or less, which bounds the stages and decisions of a run.
* `EveryCallComesToAnEnd` (`LLMGateway`): `RequestsLeft` counts the attempts left at this and
  the following providers, with up to three requests each (with `response_format`,
  without, in JSON mode).  No other caller makes it larger: the one thing calls share,
  `jsonMode`, only shrinks.
* `RoundsComeToAnEnd` (`CodeRefinement`): `RefineLeft` weighs the rounds of this call and of
  the second one.  Reviews, sweeps and time leave it alone, so a user cannot keep a
  refinement going by answering.

### What is only model-checked

* Liveness: `EveryRunEnds`, `EveryRunGetsItsTurn`, `OwedIsDelivered`, `RoutingEnds`,
  `LentIsHeard`, `OpenGivesWay`, `RefineEnds`.  TLAPS proves no liveness under fairness
  here; for `EveryRunEnds`, `RoutingEnds` and `RefineEnds` the variants above are the
  proved half.
* The two disagreements of section 3 and the one of section 4: TLC's traces.

All other properties of the passing runs are theorems.

## 9. Not modelled

* Teams, projects and roles; tenants and RBAC; plugins; observability and pricing: single
  requests on single rows, decisions without state, counters nothing reads back.
* Memory, RAG, knowledge graph, prompts, report layout: data of the prompts and of the
  artifact, on which no control decision depends.
* Search tools, page operations and the web search service: network I/O, an await that
  returns or raises.  The CAPTCHA guard (`tools/captcha_guard.py` 164-363) is left out:
  there `resolve` answers True while the interception is still pending, the timeout may
  win afterwards, and a cancelled interception stays pending for ever.
* The ReAct loop: `_is_loop_detected` (`react_loop.py` 206-240) compares a call's arguments
  with those of the results, into which `meeting_id` has been injected, so it does not
  fire; there is no other state to model.
* One-shot `run_command` containers and the registry of docker hosts; `complete_text`; the
  generation of file trees beyond their content; evaluation harnesses; the React views.
* The Redis bridge, which needs two processes over one bus.
* The auxiliary tables that `_persist` writes beside the meeting's row, except for the
  loans (`BorrowDesk`).
