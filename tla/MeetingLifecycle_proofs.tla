------------------------ MODULE MeetingLifecycle_proofs ------------------------
(***************************************************************************)
(* What MeetingLifecycle promises for every number of stages, retries,     *)
(* iterations, subtopics, messages and readers and for every set of        *)
(* faults.  One inductive invariant, Inv, carries the type, the runner's   *)
(* hold on its meeting and the snapshot of every paused copy.              *)
(***************************************************************************)
EXTENDS MeetingLifecycle, TLAPS

\* A well-formed meeting that resume can rebuild if it is paused.
Sound  == {s \in State : ShouldPause(s) => s.snap # None}
MaySound == Sound \cup {None}

CopiesSound ==
    /\ registry \in MaySound /\ held \in MaySound /\ outbox \in MaySound
    /\ row \in Sound /\ saves \subseteq Sound
    /\ readers \in [Readers -> [phase : {"idle", "asked", "read"}, copy : MaySound]]

Control_OK ==
    /\ pc \in PCs /\ cur \in Stages /\ after \in Reasons
    /\ published \subseteq {"raw", "passed", "failing"}
    /\ signals \in Nat /\ restarts \in Nat

SavingHasPayload == pc = "saving" => outbox # None

Inv == CopiesSound /\ Control_OK /\ RunnerHasMeeting /\ SavingHasPayload

-----------------------------------------------------------------------------
(* Meetings stay sound under the updates of the code.                      *)

\* The stages the code names are stages, and they differ.
LEMMA StagesFacts == /\ Clarify \in Stages /\ IntraTeam \in Stages /\ LastStage \in Stages
                     /\ Stages \subseteq Nat /\ LastStage \in Nat /\ 0 \notin Stages
BY StagesAssumption DEF Stages, Clarify, IntraTeam

\* extract of a snapshot keeps the types.
LEMMA SnapshotType == ASSUME NEW s \in State PROVE SnapshotOf(s) \in Snapshot
BY DEF State, Snapshot, SnapshotOf

\* The meeting a snapshot is rebuilt into is running, so it needs no snapshot.
LEMMA RestoredSound == ASSUME NEW p \in Snapshot
                       PROVE  Restored(p) \in Sound /\ Restored(p).status = "running"
BY DEF State, Snapshot, Restored, Sound, ShouldPause, Statuses

\* A fresh meeting is sound.
LEMMA NewSound == NewState \in Sound /\ NewState \in State
<1>1. 0 \in 0..MaxRetries /\ 0 \in 0..MaxIterations /\ 0 \in 0..LastStage /\ 0 \in 0..Subtopics
  BY StagesFacts, BoundAssumption
<1>2. NewState \in State
  BY <1>1, StagesFacts DEF State, NewState, Statuses, Flows, Artifacts
<1>. QED  BY <1>2 DEF Sound, NewState, ShouldPause

\* None is no meeting.
LEMMA NoneNotSound == None \notin Sound
BY NoneAssumption DEF Sound

\* Resume yields a sound running meeting.
LEMMA ResumedSound == ASSUME NEW s \in Sound, Resumable(s)
                      PROVE  Resumed(s) \in Sound /\ Resumed(s).status = "running"
<1>1. CASE ShouldPause(s)
  <2>1. s.snap \in Snapshot
    BY <1>1 DEF Sound, State
  <2>. QED  BY <1>1, <2>1, RestoredSound, NoneAssumption DEF Resumed
<1>2. CASE ~ShouldPause(s)
  <2>1. s.ckpt \in Stages /\ 0 \in 0..MaxRetries
    BY <1>2, StagesFacts, StagesAssumption, BoundAssumption
       DEF Resumable, Sound, State, Stages
  <2>2. [s EXCEPT !.status = "running", !.retry[s.ckpt] = 0] \in State
    BY <2>1 DEF Sound, State, Statuses
  <2>. QED  BY <1>2, <2>2 DEF Resumed, Sound, ShouldPause, State
<1>. QED  BY <1>1, <1>2

\* A status other than paused never breaks soundness.
LEMMA StatusSound == ASSUME NEW s \in Sound, NEW x \in Statuses \ {"paused"}
                     PROVE  [s EXCEPT !.status = x] \in Sound
BY DEF Sound, State, ShouldPause

\* Taking the snapshot together with the status is what makes pausing sound.
LEMMA PauseSound == ASSUME NEW s \in Sound
                    PROVE  [s EXCEPT !.snap = SnapshotOf(s), !.status = "paused"] \in Sound
<1>1. SnapshotOf(s) \in Snapshot /\ SnapshotOf(s) # None
  BY SnapshotType, NoneAssumption DEF Sound
<1>. QED  BY <1>1 DEF Sound, State, Statuses, ShouldPause

-----------------------------------------------------------------------------
(* One lemma per way in which the code changes who holds which object.     *)

\* The invariant is preserved when nothing happens.
LEMMA Stutter == Inv /\ UNCHANGED vars => Inv'
BY DEF vars, runnerVars, Inv, CopiesSound, Control_OK, RunnerHasMeeting, SavingHasPayload,
       Holding, Mine

\* A runner past its start works on a sound meeting.
LEMMA MineSound == ASSUME Inv, Holding
                   PROVE  Mine \in Sound /\ Mine # None /\ Mine \in State
BY NoneNotSound DEF Inv, CopiesSound, RunnerHasMeeting, Mine, MaySound, Sound

\* The runner's own updates: its object stays sound, wherever it is held.
LEMMA HoldKeeps ==
    ASSUME Inv, Holding, NEW s \in Sound, Hold(s),
           pc' \in PCs \ {"idle", "launching", "spawned"}, cur' \in Stages, after' \in Reasons,
           outbox' \in MaySound, pc' = "saving" => outbox' # None,
           UNCHANGED <<row, saves, readers, signals, restarts>>,
           published' \subseteq {"raw", "passed", "failing"}
    PROVE  Inv'
<1>1. CopiesSound'
  BY DEF Inv, CopiesSound, Hold, MaySound
<1>2. Control_OK'
  BY DEF Inv, Control_OK
<1>3. RunnerHasMeeting'
  BY NoneNotSound DEF Inv, RunnerHasMeeting, Hold, Holding, Mine
<1>. QED  BY <1>1, <1>2, <1>3 DEF Inv, SavingHasPayload

\* A runner that only moves on, its meeting untouched.
LEMMA MoveKeeps ==
    ASSUME Inv, Holding, UNCHANGED <<registry, held, after, outbox, world>>,
           pc' \in PCs \ {"idle", "launching", "spawned", "saving"}, cur' \in Stages
    PROVE  Inv'
BY DEF Inv, CopiesSound, Control_OK, RunnerHasMeeting, SavingHasPayload, Holding, Mine, world

\* An update followed by the start of its save.
LEMMA PersistKeeps ==
    ASSUME Inv, Holding, NEW s \in Sound, NEW r \in Reasons, Persist(s, r), cur' \in Stages,
           UNCHANGED <<row, saves, readers, signals, restarts>>,
           published' \subseteq {"raw", "passed", "failing"}
    PROVE  Inv'
<1>1. Hold(s) /\ pc' = "saving" /\ after' = r /\ outbox' = s
  BY DEF Persist
<1>2. pc' \in PCs \ {"idle", "launching", "spawned"} /\ outbox' \in MaySound /\ outbox' # None
  BY <1>1, NoneNotSound DEF PCs, MaySound
<1>. QED  BY <1>1, <1>2, HoldKeeps

\* An update followed by an event, the save still to start.
LEMMA AnnounceKeeps ==
    ASSUME Inv, Holding, NEW s \in Sound, NEW r \in Reasons, Announce(s, r), cur' \in Stages,
           UNCHANGED world
    PROVE  Inv'
<1>1. Hold(s) /\ pc' = "announcing" /\ after' = r /\ UNCHANGED outbox
  BY DEF Announce
<1>2. pc' \in PCs \ {"idle", "launching", "spawned"} /\ pc' # "saving" /\ outbox' \in MaySound
  BY <1>1 DEF PCs, Inv, CopiesSound
<1>3. UNCHANGED <<row, saves, readers, signals, restarts>>
      /\ published' \subseteq {"raw", "passed", "failing"}
  BY DEF world, Inv, Control_OK
<1>. QED  BY <1>1, <1>2, <1>3, HoldKeeps

\* A handler mutates the registered object in place.
LEMMA MutateKeeps ==
    ASSUME Inv, registry # None, NEW s \in Sound, Mutate(s), Control(s)
    PROVE  Inv'
BY NoneNotSound DEF Inv, CopiesSound, Control_OK, RunnerHasMeeting, SavingHasPayload, Holding, Mine,
       Mutate, Control, MaySound

\* Somebody replaces the registered object: the runner keeps the one it had.
LEMMA ReplaceKeeps ==
    ASSUME Inv, NEW s \in MaySound, Replace(s), UNCHANGED <<pc, cur, after, outbox, row, published>>,
           saves' \subseteq Sound, signals' \in Nat, restarts' \in Nat,
           readers' \in [Readers -> [phase : {"idle", "asked", "read"}, copy : MaySound]]
    PROVE  Inv'
<1>1. CopiesSound' /\ Control_OK' /\ SavingHasPayload'
  BY DEF Inv, CopiesSound, Control_OK, SavingHasPayload, Replace, MaySound
<1>2. RunnerHasMeeting'
  BY DEF Inv, RunnerHasMeeting, Holding, Mine, Replace
<1>. QED  BY <1>1, <1>2 DEF Inv

-----------------------------------------------------------------------------
(* The actions, by who takes them.                                         *)

\* A new meeting satisfies the invariant.
LEMMA InitInv == Init => Inv
<1>. SUFFICES ASSUME Init PROVE Inv
  OBVIOUS
<1>1. CopiesSound
  BY NewSound DEF Init, CopiesSound, MaySound
<1>2. Control_OK
  BY StagesFacts DEF Init, Control_OK, PCs, Reasons
<1>3. RunnerHasMeeting /\ SavingHasPayload
  BY DEF Init, RunnerHasMeeting, SavingHasPayload, Holding
<1>. QED  BY <1>1, <1>2, <1>3 DEF Inv

\* What a registered meeting is.
LEMMA RegisteredSound == ASSUME Inv, registry # None PROVE registry \in Sound /\ registry \in State
BY DEF Inv, CopiesSound, MaySound, Sound

\* Control signals, the run endpoint and the saves they start.
LEMMA UserKeeps == Inv /\ (User \/ Storage) => Inv'
<1>. SUFFICES ASSUME Inv, User \/ Storage PROVE Inv'
  OBVIOUS
<1>1. CASE Pause
  <2>. DEFINE s == [registry EXCEPT !.snap = SnapshotOf(registry), !.status = "paused"]
  <2>1. registry # None /\ Mutate(s) /\ Control(s)
    BY <1>1 DEF Pause
  <2>2. s \in Sound
    BY <2>1, RegisteredSound, PauseSound
  <2>. QED  BY <2>1, <2>2, MutateKeeps
<1>2. CASE Resume
  <2>. DEFINE s == Resumed(registry)
  <2>1. registry # None /\ Resumable(registry) /\ Control(s) /\ (Replace(s) \/ Mutate(s))
    BY <1>2 DEF Resume
  <2>2. s \in Sound
    BY <2>1, RegisteredSound, ResumedSound
  <2>3. CASE Mutate(s)
    BY <2>1, <2>2, <2>3, MutateKeeps
  <2>4. CASE Replace(s)
    <3>1. /\ UNCHANGED <<pc, cur, after, outbox, row, published, readers>>
          /\ saves' \subseteq Sound /\ signals' \in Nat /\ restarts' \in Nat
      BY <2>1, <2>2 DEF Control, Inv, CopiesSound, Control_OK
    <3>2. readers' \in [Readers -> [phase : {"idle", "asked", "read"}, copy : MaySound]]
      BY <3>1 DEF Inv, CopiesSound
    <3>. QED  BY <2>2, <2>4, <3>1, <3>2, ReplaceKeeps DEF MaySound
  <2>. QED  BY <2>1, <2>3, <2>4
<1>3. CASE Abort
  <2>. DEFINE s == [registry EXCEPT !.status = "aborted"]
  <2>1. registry # None /\ Mutate(s) /\ Control(s)
    BY <1>3 DEF Abort
  <2>2. s \in Sound
    BY <2>1, RegisteredSound, StatusSound DEF Statuses
  <2>. QED  BY <2>1, <2>2, MutateKeeps
<1>4. ASSUME NEW n \in Notes, Inject(n) PROVE Inv'
  <2>. DEFINE s == [registry EXCEPT !.notes = @ \cup {n}]
  <2>1. registry # None /\ Mutate(s) /\ Control(s)
    BY <1>4 DEF Inject
  <2>2. s \in Sound
    BY <2>1, RegisteredSound DEF Sound, State, ShouldPause
  <2>. QED  BY <2>1, <2>2, MutateKeeps
<1>5. CASE Run
  <2>1. registry' \in Sound
    BY <1>5, RegisteredSound, ResumedSound DEF Run
  <2>2. pc' = "launching" /\ pc = "idle" /\ UNCHANGED <<held, cur, after, outbox, world>>
    BY <1>5 DEF Run
  <2>. QED  BY <2>1, <2>2 DEF Inv, CopiesSound, Control_OK, RunnerHasMeeting, SavingHasPayload,
                              Holding, MaySound, PCs, world
<1>6. ASSUME NEW s \in saves, ControlSaved(s) \/ ControlSaveFails(s) PROVE Inv'
  <2>1. /\ UNCHANGED <<registry, runnerVars, readers, published, signals, restarts>>
        /\ saves' \subseteq saves /\ (row' = s \/ row' = row)
    BY <1>6 DEF ControlSaved, ControlSaveFails
  <2>. QED  BY <2>1 DEF Inv, CopiesSound, Control_OK, RunnerHasMeeting, SavingHasPayload,
                        Holding, Mine, runnerVars
<1>. QED  BY <1>1, <1>2, <1>3, <1>4, <1>5, <1>6 DEF User, Storage

\* Before the task holds a meeting.
LEMMA LaunchKeeps == Inv /\ (Launched \/ Start \/ StartFindsNothing) => Inv'
<1>. SUFFICES ASSUME Inv, Launched \/ Start \/ StartFindsNothing PROVE Inv'
  OBVIOUS
<1>1. CASE Launched \/ StartFindsNothing
  <2>1. /\ pc' \in {"spawned", "idle"} /\ ~Holding
        /\ UNCHANGED <<registry, held, cur, after, outbox, world>>
    BY <1>1 DEF Launched, StartFindsNothing, Holding
  <2>. QED  BY <2>1 DEF Inv, CopiesSound, Control_OK, RunnerHasMeeting, SavingHasPayload,
                        Holding, PCs, world
<1>2. CASE Start
  <2>1. registry' \in Sound
    BY <1>2, RegisteredSound DEF Start, Sound, State, Statuses, Flows, ShouldPause
  <2>2. pc' \in {"instant", "classifying"} /\ UNCHANGED <<held, cur, after, outbox, world>>
    BY <1>2 DEF Start
  <2>3. held = None
    BY <1>2 DEF Inv, RunnerHasMeeting, Holding, Start
  <2>. QED  BY <2>1, <2>2, <2>3, NoneNotSound
            DEF Inv, CopiesSound, Control_OK, RunnerHasMeeting, SavingHasPayload,
                Holding, Mine, MaySound, PCs, world
<1>. QED  BY <1>1, <1>2

\* The end of the task, orderly or by an exception.
LEMMA EndKeeps == Inv /\ (RunnerEscapes \/ Leave) => Inv'
<1>. SUFFICES ASSUME Inv, RunnerEscapes \/ Leave PROVE Inv'
  OBVIOUS
<1>1. registry' \in MaySound
  <2>1. CASE RunnerEscapes
    BY <2>1, RegisteredSound, StatusSound DEF RunnerEscapes, MaySound, Statuses
  <2>2. CASE Leave
    BY <2>2 DEF Leave, Inv, CopiesSound, Mine
  <2>. QED  BY <2>1, <2>2
<1>2. /\ held' = None /\ pc' = "idle" /\ cur' = Clarify /\ after' = "paused" /\ outbox' = None
      /\ UNCHANGED world
  BY DEF RunnerEscapes, Leave
<1>. QED  BY <1>1, <1>2, StagesFacts
          DEF Inv, CopiesSound, Control_OK, RunnerHasMeeting, SavingHasPayload, Holding,
              MaySound, PCs, Reasons, world

\* Announced and saved: the payload is fixed, then committed.
LEMMA SaveKeeps == Inv /\ (Announced \/ Saved \/ SaveFails) => Inv'
<1>. SUFFICES ASSUME Inv, Announced \/ Saved \/ SaveFails PROVE Inv'
  OBVIOUS
<1>1. CASE Announced
  <2>1. Holding
    BY <1>1 DEF Announced, Holding
  <2>2. Mine \in Sound /\ Mine # None
    BY <2>1, MineSound
  <2>. QED  BY <1>1, <2>1, <2>2
            DEF Announced, Inv, CopiesSound, Control_OK, RunnerHasMeeting, SavingHasPayload,
                Holding, Mine, MaySound, PCs, world
<1>2. CASE Saved
  <2>1. Holding /\ outbox \in Sound
    BY <1>2 DEF Saved, Holding, Inv, CopiesSound, SavingHasPayload, MaySound
  <2>2. Resumption[after] \in {"leaving", "looping", "completed", "settled", "gate"}
    BY DEF Inv, Control_OK, Reasons, Resumption
  <2>. QED  BY <1>2, <2>1, <2>2
            DEF Saved, Inv, CopiesSound, Control_OK, RunnerHasMeeting, SavingHasPayload,
                Holding, Mine, MaySound, PCs
<1>3. CASE SaveFails
  <2>. DEFINE s == [Mine EXCEPT !.status = "failed"]
  <2>1. Holding /\ Persist(s, "crashed") /\ UNCHANGED <<cur, world>>
    BY <1>3 DEF SaveFails, Holding
  <2>2. s \in Sound /\ "crashed" \in Reasons
    BY <2>1, MineSound, StatusSound DEF Statuses, Reasons
  <2>3. /\ UNCHANGED <<row, saves, readers, signals, restarts>> /\ cur' \in Stages
        /\ published' \subseteq {"raw", "passed", "failing"}
    BY <2>1 DEF world, Inv, Control_OK
  <2>. QED  BY <2>1, <2>2, <2>3, PersistKeeps
<1>. QED  BY <1>1, <1>2, <1>3

\* Steps that change the place of the task and nothing else.
LEMMA MovesKeep ==
    Inv /\ (LoopEnds \/ StageStarts \/ TurnsTerminal \/ PublishFails) => Inv'
<1>. SUFFICES ASSUME Inv, LoopEnds \/ StageStarts \/ TurnsTerminal \/ PublishFails PROVE Inv'
  OBVIOUS
<1>1. Holding /\ UNCHANGED <<registry, held, after, outbox, world>> /\ pc' \in {"leaving", "stage"}
  BY DEF LoopEnds, StageStarts, TurnsTerminal, PublishFails, Holding, AfterStage
<1>2. cur' \in Stages
  BY <1>1, MineSound DEF LoopEnds, StageStarts, TurnsTerminal, PublishFails, State, Inv, Control_OK
<1>3. pc' \in PCs \ {"idle", "launching", "spawned", "saving"}
  BY <1>1 DEF PCs
<1>. QED  BY <1>1, <1>2, <1>3, MoveKeeps

\* Steps that update the runner's object and save nothing yet.
LEMMA HoldsKeep ==
    ASSUME Inv, Holding, NEW s \in Sound, Hold(s), UNCHANGED <<cur, after, outbox, world>>,
           pc' \in PCs \ {"idle", "launching", "spawned", "saving"}
    PROVE  Inv'
<1>1. /\ cur' \in Stages /\ after' \in Reasons /\ outbox' \in MaySound
      /\ UNCHANGED <<row, saves, readers, signals, restarts>>
      /\ published' \subseteq {"raw", "passed", "failing"} /\ pc' # "saving"
  BY DEF Inv, CopiesSound, Control_OK, world
<1>. QED  BY <1>1, HoldKeeps

\* The flow classifier and the instant path.
LEMMA InstantKeeps ==
    Inv /\ ((\E f \in Intents : Classified(f)) \/ InstantAnswers \/ InstantPublished \/ InstantFails)
      => Inv'
<1>. SUFFICES ASSUME Inv, (\E f \in Intents : Classified(f)) \/ InstantAnswers \/ InstantPublished
                          \/ InstantFails
              PROVE  Inv'
  OBVIOUS
<1>1. Holding
  BY DEF Classified, InstantAnswers, InstantPublished, InstantFails, Holding
<1>2. Mine \in Sound
  BY <1>1, MineSound
<1>3. ASSUME NEW f \in Intents, Classified(f) PROVE Inv'
  <2>1. [Mine EXCEPT !.flow = f] \in Sound
    BY <1>2, FlowAssumption DEF Sound, State, Flows, ShouldPause
  <2>2. pc' \in PCs \ {"idle", "launching", "spawned", "saving"}
    BY <1>3 DEF Classified, PCs
  <2>. QED  BY <1>1, <1>3, <2>1, <2>2, HoldsKeep DEF Classified
<1>4. CASE InstantAnswers
  <2>1. [Mine EXCEPT !.status = "done", !.stage = LastStage, !.artifact = "raw"] \in Sound
    BY <1>2, StagesFacts DEF Sound, State, Statuses, Artifacts, ShouldPause
  <2>2. pc' \in PCs \ {"idle", "launching", "spawned", "saving"}
    BY <1>4 DEF InstantAnswers, PCs
  <2>. QED  BY <1>1, <1>4, <2>1, <2>2, HoldsKeep DEF InstantAnswers
<1>5. CASE InstantPublished
  <2>1. /\ Persist(Mine, "instant") /\ "instant" \in Reasons /\ cur' \in Stages
        /\ published' \subseteq {"raw", "passed", "failing"}
    BY <1>5 DEF InstantPublished, Reasons, Inv, Control_OK
  <2>2. UNCHANGED <<row, saves, readers, signals, restarts>>
    BY <1>5 DEF InstantPublished
  <2>. QED  BY <1>1, <1>2, <2>1, <2>2, PersistKeeps
<1>6. CASE InstantFails
  <2>1. [Mine EXCEPT !.status = "failed", !.stage = LastStage] \in Sound
    BY <1>2, StagesFacts DEF Sound, State, Statuses, ShouldPause
  <2>2. "instant" \in Reasons /\ cur' \in Stages /\ UNCHANGED world
    BY <1>6 DEF InstantFails, Reasons, Inv, Control_OK
  <2>. QED  BY <1>1, <1>6, <2>1, <2>2, AnnounceKeeps DEF InstantFails
<1>. QED  BY <1>3, <1>4, <1>5, <1>6

\* Stages that succeed.
LEMMA StageDoneKeeps ==
    Inv /\ ((\E nxt \in Stages, f \in Complexities : ClarifyDone(nxt, f))
             \/ (\E nxt \in Stages : StageDone(nxt)) \/ ProduceDone)
      => Inv'
<1>. SUFFICES ASSUME Inv, (\E nxt \in Stages, f \in Complexities : ClarifyDone(nxt, f))
                          \/ (\E nxt \in Stages : StageDone(nxt)) \/ ProduceDone
              PROVE  Inv'
  OBVIOUS
<1>1. /\ Holding /\ pc' = "speaking" /\ UNCHANGED <<cur, after, outbox, world>>
      /\ pc' \in PCs \ {"idle", "launching", "spawned", "saving"}
  BY DEF ClarifyDone, StageDone, ProduceDone, Holding, PCs
<1>2. Mine \in Sound
  BY <1>1, MineSound
<1>3. ASSUME NEW nxt \in Stages, NEW f \in Complexities, ClarifyDone(nxt, f) PROVE Inv'
  <2>1. PICK k \in {Mine.sub} \cup (IF Subtopics > 0 /\ f # "simple" THEN {1} ELSE {}) :
             Hold([Mine EXCEPT !.stage = nxt, !.flow = f, !.sub = k])
    BY <1>3 DEF ClarifyDone
  <2>2. k \in 0..Subtopics
    BY <1>2, BoundAssumption DEF Sound, State
  <2>3. [Mine EXCEPT !.stage = nxt, !.flow = f, !.sub = k] \in Sound
    BY <1>2, <2>2, FlowAssumption DEF Sound, State, Flows, ShouldPause
  <2>. QED  BY <1>1, <2>1, <2>3, HoldsKeep
<1>4. ASSUME NEW nxt \in Stages, StageDone(nxt) PROVE Inv'
  <2>1. [Mine EXCEPT !.stage = nxt] \in Sound
    BY <1>2 DEF Sound, State, ShouldPause
  <2>. QED  BY <1>1, <1>4, <2>1, HoldsKeep DEF StageDone
<1>5. CASE ProduceDone
  <2>1. [Mine EXCEPT !.stage = LastStage, !.artifact = "raw"] \in Sound
    BY <1>2, StagesFacts DEF Sound, State, Artifacts, ShouldPause
  <2>. QED  BY <1>1, <1>5, <2>1, HoldsKeep DEF ProduceDone
<1>. QED  BY <1>3, <1>4, <1>5

\* Stages that fail, pauses of the loop and the save after a stage.
LEMMA StageEndsKeeps ==
    Inv /\ (LoopPauses \/ StageRetries \/ StageExhausted \/ StageOutOfBalance \/ Spoken) => Inv'
<1>. SUFFICES ASSUME Inv, LoopPauses \/ StageRetries \/ StageExhausted \/ StageOutOfBalance \/ Spoken
              PROVE  Inv'
  OBVIOUS
<1>1. Holding /\ UNCHANGED <<cur, world>>
  BY DEF LoopPauses, StageRetries, StageExhausted, StageOutOfBalance, Spoken, Holding
<1>2. /\ cur \in Stages /\ cur \in 0..LastStage /\ 0 \in 0..LastStage /\ cur' \in Stages
      /\ published' \subseteq {"raw", "passed", "failing"}
      /\ UNCHANGED <<row, saves, readers, signals, restarts>>
  BY <1>1, StagesFacts DEF Inv, Control_OK, Stages, world
<1>3. Mine \in Sound
  BY <1>1, MineSound
<1>4. CASE LoopPauses
  BY <1>1, <1>2, <1>3, <1>4, PersistKeeps DEF LoopPauses, Reasons
<1>5. CASE StageRetries
  <2>1. Mine.retry \in [Stages -> 0..MaxRetries]
    BY <1>3 DEF Sound, State
  <2>2. Mine.retry[cur] + 1 \in 0..MaxRetries
    BY <1>2, <1>5, <2>1, BoundAssumption DEF StageRetries
  <2>3. [Mine EXCEPT !.retry[cur] = @ + 1] \in Sound
    BY <1>3, <2>2 DEF Sound, State, ShouldPause
  <2>. QED  BY <1>1, <1>2, <1>5, <2>3, AnnounceKeeps DEF StageRetries, Reasons
<1>6. CASE StageExhausted
  <2>1. [Mine EXCEPT !.ckpt = cur, !.status = "failed"] \in Sound
    BY <1>2, <1>3 DEF Sound, State, Statuses, ShouldPause
  <2>. QED  BY <1>1, <1>2, <1>6, <2>1, PersistKeeps DEF StageExhausted, Reasons
<1>7. CASE StageOutOfBalance
  <2>. DEFINE s == [Mine EXCEPT !.snap = SnapshotOf(Mine), !.status = "paused", !.ckpt = cur]
  <2>1. SnapshotOf(Mine) \in Snapshot /\ SnapshotOf(Mine) # None
    BY <1>3, SnapshotType, NoneAssumption DEF Sound
  <2>2. s \in Sound
    BY <1>2, <1>3, <2>1 DEF Sound, State, Statuses, ShouldPause
  <2>. QED  BY <1>1, <1>2, <1>7, <2>2, PersistKeeps DEF StageOutOfBalance, Reasons
<1>8. CASE Spoken
  <2>1. [Mine EXCEPT !.ckpt = 0] \in Sound
    BY <1>2, <1>3 DEF Sound, State, ShouldPause
  <2>. QED  BY <1>1, <1>2, <1>8, <2>1, PersistKeeps DEF Spoken, Reasons
<1>. QED  BY <1>4, <1>5, <1>6, <1>7, <1>8

\* Degradation, subtopics and their aggregation.
LEMMA SubtopicsKeep == Inv /\ (Degraded \/ SwitchSubtopic \/ Aggregate) => Inv'
<1>. SUFFICES ASSUME Inv, Degraded \/ SwitchSubtopic \/ Aggregate PROVE Inv'
  OBVIOUS
<1>1. Holding /\ UNCHANGED <<cur, world>> /\ cur' \in Stages
  BY DEF Degraded, SwitchSubtopic, Aggregate, Holding, AfterStage, Inv, Control_OK
<1>2. Mine \in Sound
  BY <1>1, MineSound
<1>3. CASE Degraded
  BY <1>1, <1>2, <1>3, AnnounceKeeps DEF Degraded, Reasons
<1>4. CASE SwitchSubtopic
  <2>1. Mine.sub + 1 \in 0..Subtopics /\ 0 \in 0..MaxIterations
    BY <1>4, BoundAssumption DEF SwitchSubtopic
  <2>2. [Mine EXCEPT !.sub = @ + 1, !.iter = 0, !.artifact = "none", !.stage = IntraTeam] \in Sound
    BY <1>2, <2>1, StagesFacts DEF Sound, State, Artifacts, ShouldPause
  <2>. QED  BY <1>1, <1>4, <2>2, AnnounceKeeps DEF SwitchSubtopic, Reasons
<1>5. CASE Aggregate
  <2>1. 0 \in 0..Subtopics
    BY BoundAssumption
  <2>2. [Mine EXCEPT !.sub = 0, !.artifact = "none", !.stage = LastStage] \in Sound
    BY <1>2, <2>1, StagesFacts DEF Sound, State, Artifacts, ShouldPause
  <2>. QED  BY <1>1, <1>5, <2>2, AnnounceKeeps DEF Aggregate, Reasons
<1>. QED  BY <1>3, <1>4, <1>5

\* The gate judges the artifact and nothing else.
LEMMA JudgedSound == ASSUME Mine \in Sound, NEW v \in Artifacts PROVE Judged(v) \in Sound
BY DEF Judged, Sound, State, Artifacts, ShouldPause

\* The quality gate, the review and the publication.
LEMMA GateKeeps ==
    Inv /\ (Iterate \/ AskReview \/ Reviewed \/ (\E v \in Artifacts : Close(v)) \/ Published) => Inv'
<1>. SUFFICES ASSUME Inv, Iterate \/ AskReview \/ Reviewed \/ (\E v \in Artifacts : Close(v)) \/ Published
              PROVE  Inv'
  OBVIOUS
<1>1. Holding
  BY DEF Iterate, AskReview, Reviewed, Close, Published, Judging, AfterStage, Holding
<1>2. Mine \in Sound /\ "failing" \in Artifacts
  BY <1>1, MineSound DEF Artifacts
<1>3. CASE Iterate
  <2>1. Judged("failing") \in Sound /\ Judged("failing").iter = Mine.iter
    BY <1>2, JudgedSound DEF Judged, Sound, State
  <2>2. Mine.iter + 1 \in 0..MaxIterations
    BY <1>2, <1>3, BoundAssumption DEF Iterate, Sound, State
  <2>3. [Judged("failing") EXCEPT !.iter = @ + 1, !.stage = LastStage] \in Sound
    BY <2>1, <2>2, StagesFacts DEF Sound, State, ShouldPause
  <2>4. cur' \in Stages /\ UNCHANGED world /\ "iterate" \in Reasons
    BY <1>3 DEF Iterate, Inv, Control_OK, Reasons
  <2>. QED  BY <1>1, <1>3, <2>3, <2>4, AnnounceKeeps DEF Iterate
<1>4. CASE AskReview
  <2>1. pc' \in PCs \ {"idle", "launching", "spawned", "saving"}
    BY <1>4 DEF AskReview, PCs
  <2>. QED  BY <1>1, <1>2, <1>4, <2>1, JudgedSound, HoldsKeep DEF AskReview
<1>5. CASE Reviewed
  <2>1. pc' \in PCs \ {"idle", "launching", "spawned", "saving"}
    BY <1>5 DEF Reviewed, PCs
  <2>2. [Mine EXCEPT !.status = "done"] \in Sound
    BY <1>2, StatusSound DEF Statuses
  <2>. QED  BY <1>1, <1>5, <2>1, <2>2, HoldsKeep DEF Reviewed
<1>6. ASSUME NEW v \in Artifacts, Close(v) PROVE Inv'
  <2>1. pc' \in PCs \ {"idle", "launching", "spawned", "saving"}
    BY <1>6 DEF Close, PCs
  <2>2. [Judged(v) EXCEPT !.status = "done"] \in Sound
    BY <1>2, JudgedSound, StatusSound DEF Statuses
  <2>. QED  BY <1>1, <1>6, <2>1, <2>2, HoldsKeep DEF Close
<1>7. CASE Published
  <2>1. /\ UNCHANGED <<registry, held, cur, after, outbox, row, saves, readers, signals, restarts>>
        /\ pc' = "leaving"
    BY <1>7 DEF Published
  <2>2. published' \subseteq {"raw", "passed", "failing"}
    BY <1>2, <1>7 DEF Published, Inv, Control_OK, Sound, State, Artifacts
  <2>. QED  BY <1>1, <2>1, <2>2 DEF Inv, CopiesSound, Control_OK, RunnerHasMeeting, SavingHasPayload,
                             Holding, Mine, PCs
<1>. QED  BY <1>3, <1>4, <1>5, <1>6, <1>7

\* Going to a stage, with or without a save.
LEMMA GoToKeeps ==
    ASSUME Inv, Holding, NEW nxt \in Stages, GoTo(nxt), UNCHANGED <<cur, world>>
    PROVE  Inv'
<1>. DEFINE s == [Mine EXCEPT !.stage = nxt]
<1>1. s \in Sound
  BY MineSound DEF Sound, State, ShouldPause
<1>2. CASE Persist(s, "routed")
  <2>1. /\ UNCHANGED <<row, saves, readers, signals, restarts>> /\ "routed" \in Reasons
        /\ published' \subseteq {"raw", "passed", "failing"} /\ cur' \in Stages
    BY DEF world, Reasons, Inv, Control_OK
  <2>. QED  BY <1>1, <1>2, <2>1, PersistKeeps
<1>3. CASE Hold(s) /\ pc' = "looping" /\ UNCHANGED <<after, outbox>>
  BY <1>1, <1>3, HoldsKeep DEF PCs
<1>. QED  BY <1>2, <1>3 DEF GoTo

\* Routing to the next stage.
LEMMA RouteKeeps ==
    Inv /\ (AskRoute \/ \E nxt \in Stages : Decided(nxt) \/ FixedRoute(nxt)) => Inv'
<1>. SUFFICES ASSUME Inv, AskRoute \/ \E nxt \in Stages : Decided(nxt) \/ FixedRoute(nxt) PROVE Inv'
  OBVIOUS
<1>1. Holding
  BY DEF AskRoute, Decided, FixedRoute, Routing, AfterStage, Holding
<1>2. CASE AskRoute
  <2>1. [Mine EXCEPT !.stage = cur] \in Sound
    BY <1>1, MineSound DEF Sound, State, ShouldPause, Inv, Control_OK
  <2>2. pc' \in PCs \ {"idle", "launching", "spawned", "saving"}
    BY <1>2 DEF AskRoute, PCs
  <2>. QED  BY <1>1, <1>2, <2>1, <2>2, HoldsKeep DEF AskRoute
<1>3. ASSUME NEW nxt \in Stages, Decided(nxt) \/ FixedRoute(nxt) PROVE Inv'
  <2>1. GoTo(nxt) /\ UNCHANGED <<cur, world>>
    BY <1>3 DEF Decided, FixedRoute
  <2>. QED  BY <1>1, <2>1, GoToKeeps
<1>. QED  BY <1>2, <1>3

\* Eviction, lazy reloading and restart.
LEMMA MemoryKeeps == Inv /\ Memory => Inv'
<1>. SUFFICES ASSUME Inv, Memory PROVE Inv'
  OBVIOUS
<1>1. CASE Evict
  <2>1. /\ Replace(None) /\ UNCHANGED <<pc, cur, after, outbox, row, published>>
        /\ UNCHANGED <<saves, readers, signals, restarts>>
    BY <1>1 DEF Evict, world
  <2>. QED  BY <2>1, ReplaceKeeps DEF MaySound, Inv, CopiesSound, Control_OK
<1>2. CASE Restart
  <2>. DEFINE s == [row EXCEPT !.status = "paused", !.snap = SnapshotOf(row)]
  <2>1. SnapshotOf(row) \in Snapshot /\ SnapshotOf(row) # None
    BY SnapshotType, NoneAssumption DEF Inv, CopiesSound, Sound
  <2>2. s \in Sound
    BY <2>1 DEF Inv, CopiesSound, Sound, State, Statuses, ShouldPause
  <2>3. registry' \in MaySound /\ row' \in Sound
    BY <1>2, <2>2 DEF Restart, Inv, CopiesSound, MaySound
  <2>4. /\ held' = None /\ pc' = "idle" /\ cur' = Clarify /\ after' = "paused" /\ outbox' = None
        /\ saves' = {} /\ restarts' = restarts + 1 /\ UNCHANGED <<published, signals>>
        /\ readers' = [r \in Readers |-> [phase |-> "idle", copy |-> None]]
    BY <1>2 DEF Restart
  <2>5. readers' \in [Readers -> [phase : {"idle", "asked", "read"}, copy : MaySound]]
    BY <2>4 DEF MaySound
  <2>. QED  BY <2>3, <2>4, <2>5, StagesFacts
            DEF Inv, CopiesSound, Control_OK, RunnerHasMeeting, SavingHasPayload, Holding,
                MaySound, PCs, Reasons
<1>3. ASSUME NEW r \in Readers, Miss(r) \/ ReadRow(r) PROVE Inv'
  <2>1. UNCHANGED <<registry, runnerVars, row, saves, published, signals, restarts>>
    BY <1>3 DEF Miss, ReadRow
  <2>2. readers' \in [Readers -> [phase : {"idle", "asked", "read"}, copy : MaySound]]
    BY <1>3 DEF Miss, ReadRow, Inv, CopiesSound, MaySound
  <2>. QED  BY <2>1, <2>2 DEF Inv, CopiesSound, Control_OK, RunnerHasMeeting, SavingHasPayload,
                              Holding, Mine, runnerVars
<1>4. ASSUME NEW r \in Readers, Install(r) PROVE Inv'
  <2>1. /\ Replace(readers[r].copy) /\ readers[r].copy \in MaySound
        /\ UNCHANGED <<pc, cur, after, outbox, row, saves, published, signals, restarts>>
    BY <1>4 DEF Install, Inv, CopiesSound
  <2>2. readers' \in [Readers -> [phase : {"idle", "asked", "read"}, copy : MaySound]]
    BY <1>4 DEF Install, Inv, CopiesSound, MaySound
  <2>. QED  BY <2>1, <2>2, ReplaceKeeps DEF Inv, CopiesSound, Control_OK
<1>. QED  BY <1>1, <1>2, <1>3, <1>4 DEF Memory

\* Every step of the task.
LEMMA RunnerKeeps == Inv /\ RunnerStep => Inv'
BY LaunchKeeps, InstantKeeps, MovesKeep, StageDoneKeeps, StageEndsKeeps, SaveKeeps, EndKeeps,
   SubtopicsKeep, GateKeeps, RouteKeeps
   DEF RunnerStep

\* The invariant is inductive.
LEMMA NextInv == Inv /\ [Next]_vars => Inv'
BY Stutter, UserKeeps, RunnerKeeps, MemoryKeeps DEF Next

\* In every behaviour every copy of the meeting is sound.
THEOREM Invariance == Spec => []Inv
<1>. QED  BY InitInv, NextInv, PTL DEF Spec

-----------------------------------------------------------------------------
(* The invariants the runs check.                                          *)

\* Every variable keeps its type, for every number of stages, retries,
\* iterations, subtopics, messages and readers and every set of faults.
THEOREM TypeCorrect == Spec => []TypeOK
<1>1. Inv => TypeOK
  BY DEF Inv, CopiesSound, Control_OK, TypeOK, MaySound, Sound
<1>. QED  BY <1>1, Invariance, PTL

\* A task past its start always has a meeting, whatever is evicted, replaced
\* or reloaded while it waits.
THEOREM RunnerAlwaysHasMeeting == Spec => []RunnerHasMeeting
<1>1. Inv => RunnerHasMeeting
  BY DEF Inv
<1>. QED  BY <1>1, Invariance, PTL

\* Every paused copy, in memory, in the row, on its way to the row or back,
\* carries the snapshot that resume needs.
THEOREM EveryPauseIsResumable == Spec => []PausedIsResumable
<1>1. Inv => PausedIsResumable
  BY DEF Inv, CopiesSound, MaySound, Sound, PausedIsResumable, Copies
<1>. QED  BY <1>1, Invariance, PTL

-----------------------------------------------------------------------------
(* What holds as long as no reader installs a stale copy (Readers = {}, see *)
(* the README): resume cannot set two objects of one meeting to work.      *)

\* The task's steps never set a replaced object running: only Start assigns
\* RUNNING, and at Start the task still shares the registered object.
LEMMA RunnerStops == Inv /\ ReplacedRunnerStops /\ RunnerStep => ReplacedRunnerStops'
<1>. SUFFICES ASSUME Inv, ReplacedRunnerStops, RunnerStep PROVE ReplacedRunnerStops'
  OBVIOUS
<1>1. CASE Launched \/ StartFindsNothing \/ LoopEnds \/ StageStarts \/ Announced \/ Saved
           \/ TurnsTerminal \/ Published \/ PublishFails
  BY <1>1 DEF Launched, StartFindsNothing, LoopEnds, StageStarts, Announced, Saved, TurnsTerminal,
              Published, PublishFails, ReplacedRunnerStops
<1>2. CASE Start
  BY <1>2 DEF Start, ReplacedRunnerStops
<1>3. CASE RunnerEscapes \/ Leave
  BY <1>3 DEF RunnerEscapes, Leave, ReplacedRunnerStops
<1>4. CASE (\E f \in Intents : Classified(f)) \/ InstantAnswers \/ InstantPublished \/ InstantFails
           \/ LoopPauses \/ (\E nxt \in Stages, f \in Complexities : ClarifyDone(nxt, f))
           \/ (\E nxt \in Stages : StageDone(nxt)) \/ ProduceDone
           \/ StageRetries \/ StageExhausted \/ StageOutOfBalance \/ Spoken \/ SaveFails
           \/ Degraded \/ SwitchSubtopic \/ Aggregate \/ Iterate \/ AskReview \/ Reviewed
           \/ (\E v \in Artifacts : Close(v)) \/ AskRoute
           \/ (\E nxt \in Stages : Decided(nxt) \/ FixedRoute(nxt))
  <2>1. Holding
    BY <1>4 DEF Classified, InstantAnswers, InstantPublished, InstantFails, LoopPauses, ClarifyDone,
          StageDone, ProduceDone, StageRetries, StageExhausted, StageOutOfBalance, Spoken, SaveFails,
          Degraded, SwitchSubtopic, Aggregate, Iterate, AskReview, Reviewed, Close, AskRoute,
          Decided, FixedRoute, Judging, Routing, AfterStage, Holding
  <2>2. Mine \in State /\ (held # None => Mine = held /\ held.status # "running")
    BY <2>1, MineSound DEF ReplacedRunnerStops, Mine
  <2>3. CASE (\E f \in Intents : Classified(f)) \/ InstantAnswers \/ InstantPublished \/ InstantFails
    BY <2>2, <2>3 DEF Hold, ReplacedRunnerStops, Classified, InstantAnswers, InstantPublished,
           InstantFails, Persist, Announce,
                        State
  <2>4. CASE LoopPauses \/ (\E nxt \in Stages, f \in Complexities : ClarifyDone(nxt, f))
               \/ (\E nxt \in Stages : StageDone(nxt)) \/ ProduceDone
    <3>1. CASE LoopPauses  BY <2>2, <3>1 DEF Hold, ReplacedRunnerStops, LoopPauses, Persist, State
    <3>2. ASSUME NEW nxt \in Stages, NEW f \in Complexities, ClarifyDone(nxt, f) PROVE ReplacedRunnerStops'
      BY <2>2, <3>2 DEF Hold, ReplacedRunnerStops, ClarifyDone, Persist, State
    <3>3. ASSUME NEW nxt \in Stages, StageDone(nxt) PROVE ReplacedRunnerStops'
      BY <2>2, <3>3 DEF Hold, ReplacedRunnerStops, StageDone, Persist, State
    <3>4. CASE ProduceDone  BY <2>2, <3>4 DEF Hold, ReplacedRunnerStops, ProduceDone, Persist, State
    <3>. QED  BY <2>4, <3>1, <3>2, <3>3, <3>4
  <2>5. CASE StageRetries \/ StageExhausted \/ StageOutOfBalance \/ Spoken \/ SaveFails
    BY <2>2, <2>5 DEF Hold, ReplacedRunnerStops, StageRetries, StageExhausted, StageOutOfBalance,
           Spoken, SaveFails,
                        Persist, Announce, State
  <2>6. CASE Degraded \/ SwitchSubtopic \/ Aggregate
    BY <2>2, <2>6 DEF Hold, ReplacedRunnerStops, Degraded, SwitchSubtopic, Aggregate, Announce, State
  <2>7. CASE Iterate \/ AskReview \/ Reviewed \/ (\E v \in Artifacts : Close(v))
    BY <2>2, <2>7 DEF Hold, ReplacedRunnerStops, Iterate, AskReview, Reviewed, Close, Announce, Judged, State
  <2>8. CASE AskRoute \/ (\E nxt \in Stages : Decided(nxt) \/ FixedRoute(nxt))
    BY <2>2, <2>8 DEF Hold, ReplacedRunnerStops, AskRoute, Decided, FixedRoute, GoTo, Persist, State
  <2>. QED  BY <1>4, <2>3, <2>4, <2>5, <2>6, <2>7, <2>8
<1>. QED  BY <1>1, <1>2, <1>3, <1>4 DEF RunnerStep

\* Resume replaces a paused object, eviction a finished one.
LEMMA OthersStop ==
    Inv /\ ReplacedRunnerStops /\ Readers = {} /\ (User \/ Storage \/ Memory) => ReplacedRunnerStops'
<1>. SUFFICES ASSUME Inv, ReplacedRunnerStops, Readers = {}, User \/ Storage \/ Memory
              PROVE  ReplacedRunnerStops'
  OBVIOUS
<1>1. CASE Pause \/ Abort \/ (\E n \in Notes : Inject(n)) \/ Run \/ Storage
  <2>1. UNCHANGED held
    BY <1>1 DEF Pause, Abort, Inject, Run, Storage, Mutate, ControlSaved, ControlSaveFails, runnerVars
  <2>. QED  BY <2>1 DEF ReplacedRunnerStops
<1>2. CASE Resume
  BY <1>2 DEF Resume, ShouldPause, Replace, Mutate, ReplacedRunnerStops
<1>3. CASE Evict
  BY <1>3 DEF Evict, Replace, IsTerminal, ReplacedRunnerStops
<1>4. CASE Restart
  BY <1>4 DEF Restart, ReplacedRunnerStops
<1>. QED  BY <1>1, <1>2, <1>3, <1>4 DEF User, Memory

\* When resume has replaced the object a runner works on, that runner's own
\* object is stopped: no two objects of one meeting are running.
THEOREM NoTwoRunningObjects ==
    ASSUME Readers = {} PROVE Spec => []ReplacedRunnerStops
<1>1. Init => ReplacedRunnerStops
  BY DEF Init, ReplacedRunnerStops
<1>2. Inv /\ ReplacedRunnerStops /\ [Next]_vars => ReplacedRunnerStops'
  <2>1. UNCHANGED vars /\ ReplacedRunnerStops => ReplacedRunnerStops'
    BY DEF vars, runnerVars, ReplacedRunnerStops
  <2>. QED  BY <2>1, RunnerStops, OthersStop DEF Next
<1>. QED  BY <1>1, <1>2, Invariance, PTL DEF Spec

\* A stage is entered by StageStarts alone.
LEMMA StageEntry == ASSUME Inv, [Next]_vars, pc # "stage", pc' = "stage" PROVE StageStarts
<1>1. CASE User \/ Storage
  BY <1>1 DEF User, Storage, Pause, Resume, Abort, Inject, Run, ControlSaved, ControlSaveFails,
              Control, runnerVars
<1>2. CASE Memory
  BY <1>2 DEF Memory, Evict, Restart, Miss, ReadRow, Install, runnerVars
<1>3. CASE RunnerStep
  <2>1. Resumption[after] # "stage"
    BY DEF Resumption, Reasons, Inv, Control_OK
  <2>. QED
    BY <1>3, <2>1
    DEF RunnerStep, Launched, Start, StartFindsNothing, Classified, InstantAnswers, InstantPublished,
        InstantFails, LoopEnds, LoopPauses, ClarifyDone, StageDone, ProduceDone, StageRetries,
        StageExhausted, StageOutOfBalance, Spoken, Announced, Saved, SaveFails, RunnerEscapes,
        Degraded, TurnsTerminal, SwitchSubtopic, Aggregate, Iterate, AskReview, Reviewed, Close,
        Published, PublishFails, AskRoute, Decided, FixedRoute, GoTo, Leave, Persist, Announce
<1>. QED  BY <1>1, <1>2, <1>3 DEF Next, vars, runnerVars

\* No stage begins unless the meeting the endpoints see is running: a pause or
\* an abort that reached the registry holds back the next stage of the task,
\* whoever works on which object.
THEOREM PauseHoldsBackStages ==
    ASSUME Readers = {} PROVE Spec => StagesStartRunning
<1>1. ASSUME Inv, ReplacedRunnerStops, [Next]_vars, pc = "looping", pc' = "stage"
      PROVE  registry # None /\ registry.status = "running"
  <2>1. StageStarts
    BY <1>1, StageEntry
  <2>2. Mine \in State /\ Mine # None
    BY <1>1, MineSound DEF Holding
  <2>3. Mine.status = "running"
    BY <2>1, <2>2 DEF StageStarts, IsTerminal, ShouldPause, State, Statuses
  <2>4. held = None
    BY <1>1, <2>3 DEF ReplacedRunnerStops, Mine
  <2>. QED  BY <2>2, <2>3, <2>4 DEF Mine
<1>. QED  BY <1>1, Invariance, NoTwoRunningObjects, PTL DEF Spec, StagesStartRunning

-----------------------------------------------------------------------------
(* A released artifact ends the work, within one life of the process and   *)
(* without readers that bring an older row back.                           *)

Ended(s) == s.status \in {"done", "aborted"}

\* Between the end of the work and the release the task's object is ended;
\* from the release on, the task only leaves, and what it leaves is ended.
Released ==
    /\ pc \in {"publishing", "answering"} => Ended(Mine)
    /\ published # {} =>
         \/ pc = "idle" /\ (registry = None \/ Ended(registry))
         \/ pc = "leaving" /\ Ended(Mine)
         \/ pc = "saving" /\ after = "instant" /\ Ended(Mine)

\* Signals cannot revive an ended object.
LEMMA UserKeepsReleased == Inv /\ Released /\ (User \/ Storage) => Released'
<1>. SUFFICES ASSUME Inv, Released, User \/ Storage PROVE Released'
  OBVIOUS
<1>1. CASE Pause
  BY <1>1, RegisteredSound DEF Pause, Mutate, Control, Released, Ended, Mine, State
<1>2. CASE Resume
  <2>1. registry # None /\ ~Ended(registry)
    BY <1>2 DEF Resume, Resumable, ShouldPause, Ended
  <2>2. Mine' = Mine \/ ~Holding \/ (held = None /\ held' = None)
    BY <1>2, <2>1 DEF Resume, Replace, Mutate, Mine, Control, Holding
  <2>. QED  BY <1>2, <2>1, <2>2 DEF Resume, Control, Released, Ended, Mine, Holding
<1>3. CASE Abort
  BY <1>3, RegisteredSound DEF Abort, Mutate, Control, Released, Ended, Mine, State
<1>4. CASE \E n \in Notes : Inject(n)
  BY <1>4, RegisteredSound DEF Inject, Mutate, Control, Released, Ended, Mine, State
<1>5. CASE Run
  BY <1>5 DEF Run, Resumable, ShouldPause, Released, Ended, world
<1>6. CASE Storage
  BY <1>6 DEF Storage, ControlSaved, ControlSaveFails, Released, Ended, Mine, runnerVars
<1>. QED  BY <1>1, <1>2, <1>3, <1>4, <1>5, <1>6 DEF User

\* After an update the runner's object is the updated one.
LEMMA HoldMine == ASSUME NEW s \in State, Hold(s) PROVE Mine' = s
BY NoneAssumption DEF Hold, Mine

\* The task publishes what is ended, and then only leaves.
LEMMA RunnerKeepsReleased == Inv /\ Released /\ RunnerStep => Released'
<1>. SUFFICES ASSUME Inv, Released, RunnerStep PROVE Released'
  OBVIOUS
<1>1. CASE Leave \/ RunnerEscapes
  <2>1. pc' = "idle" /\ UNCHANGED published
    BY <1>1 DEF Leave, RunnerEscapes, world
  <2>2. published # {} => registry' = None \/ Ended(registry')
    BY <1>1, RegisteredSound DEF Leave, RunnerEscapes, Released, Ended, State
  <2>. QED  BY <2>1, <2>2 DEF Released
<1>2. CASE Saved
  <2>1. UNCHANGED <<registry, held, published>> /\ pc' = Resumption[after] /\ pc = "saving"
    BY <1>2 DEF Saved
  <2>2. Resumption["instant"] = "leaving" /\ Resumption[after] \notin {"publishing", "answering"}
    BY DEF Resumption, Reasons, Inv, Control_OK
  <2>. QED  BY <2>1, <2>2 DEF Released, Mine
<1>3. CASE InstantAnswers \/ InstantPublished
  <2>1. Holding
    BY <1>3 DEF InstantAnswers, InstantPublished, Holding
  <2>2. Mine \in State
    BY <2>1, MineSound
  <2>3. CASE InstantAnswers
    <3>. DEFINE s == [Mine EXCEPT !.status = "done", !.stage = LastStage, !.artifact = "raw"]
    <3>1. s \in State /\ Ended(s)
      BY <2>2, StagesFacts DEF State, Statuses, Artifacts, Ended
    <3>2. Mine' = s
      BY <2>3, <3>1, HoldMine DEF InstantAnswers
    <3>. QED  BY <2>3, <3>1, <3>2 DEF InstantAnswers, Released, world
  <2>4. CASE InstantPublished
    <3>1. Mine' = Mine
      BY <2>2, <2>4, HoldMine DEF InstantPublished, Persist
    <3>. QED  BY <2>4, <3>1 DEF InstantPublished, Persist, Released, Ended
  <2>. QED  BY <1>3, <2>3, <2>4
<1>4. CASE \E v \in Artifacts : Close(v)
  <2>1. PICK v \in Artifacts : Close(v)
    BY <1>4
  <2>. DEFINE s == [Judged(v) EXCEPT !.status = "done"]
  <2>2. Holding /\ published = {}
    BY <2>1 DEF Close, Judging, AfterStage, Holding, Released
  <2>3. Judged(v) \in State
    BY <2>2, MineSound, JudgedSound DEF Sound
  <2>4. s \in State /\ Ended(s)
    BY <2>3 DEF State, Statuses, Ended
  <2>5. Mine' = s
    BY <2>1, <2>4, HoldMine DEF Close
  <2>. QED  BY <2>1, <2>2, <2>4, <2>5 DEF Close, Released, world
<1>5. CASE Published \/ PublishFails
  BY <1>5 DEF Published, PublishFails, Released, Mine, world
<1>6. CASE LoopEnds \/ TurnsTerminal \/ Launched \/ Start \/ StartFindsNothing \/ StageStarts
           \/ Announced \/ SaveFails \/ LoopPauses
           \/ (\E f \in Intents : Classified(f)) \/ InstantFails
  BY <1>6 DEF LoopEnds, TurnsTerminal, Launched, Start, StartFindsNothing, StageStarts, Announced,
              SaveFails, LoopPauses, Classified, InstantFails, Persist, Announce, Released, world,
              AfterStage
<1>7. CASE (\E nxt \in Stages, f \in Complexities : ClarifyDone(nxt, f))
           \/ (\E nxt \in Stages : StageDone(nxt)) \/ ProduceDone
           \/ StageRetries \/ StageExhausted \/ StageOutOfBalance \/ Spoken
  BY <1>7 DEF ClarifyDone, StageDone, ProduceDone, StageRetries, StageExhausted, StageOutOfBalance,
              Spoken, Persist, Announce, Released, world
<1>8. CASE Degraded \/ SwitchSubtopic \/ Aggregate \/ Iterate \/ AskReview \/ Reviewed \/ AskRoute
           \/ (\E nxt \in Stages : Decided(nxt) \/ FixedRoute(nxt))
  BY <1>8 DEF Degraded, SwitchSubtopic, Aggregate, Iterate, AskReview, Reviewed, AskRoute, Decided,
              FixedRoute, GoTo, Persist, Announce, Released, Judging, Routing, AfterStage, world
<1>. QED  BY <1>1, <1>2, <1>3, <1>4, <1>5, <1>6, <1>7, <1>8 DEF RunnerStep

\* Once an artifact is released, the meeting works on no further stage: not by a
\* signal, a second run or an eviction, in any interleaving.
THEOREM ReleaseEndsWork ==
    ASSUME Readers = {}, "restart" \notin Faults PROVE Spec => ReleasedIsFinished
<1>1. Init => Released
  BY DEF Init, Released
<1>2. Inv /\ Released /\ [Next]_vars => Released'
  <2>. SUFFICES ASSUME Inv, Released, [Next]_vars PROVE Released'
    OBVIOUS
  <2>1. CASE UNCHANGED vars
    BY <2>1 DEF vars, runnerVars, Released, Mine
  <2>2. CASE Evict
    BY <2>2 DEF Evict, Replace, world, Released, Mine, Holding, Ended
  <2>. QED  BY <2>1, <2>2, UserKeepsReleased, RunnerKeepsReleased DEF Next, Memory, Restart
<1>3. Inv /\ Released /\ [Next]_vars => (published # {} => ~(pc # "stage" /\ pc' = "stage"))
  BY StageEntry DEF StageStarts, Released
<1>. QED  BY <1>1, <1>2, <1>3, Invariance, PTL DEF Spec, ReleasedIsFinished

-----------------------------------------------------------------------------
(* The row and the stage.  Without control signals nobody but the task     *)
(* writes the meeting, whatever crashes, evictions and database errors     *)
(* happen; with fixed routing the row then names the stage in progress.    *)

\* A paused copy was snapshot at the stage it stands at.
SnapAt(s) == s # None /\ ShouldPause(s) => s.snap.stage = s.stage

Active == \/ pc \in {"stage", "speaking", "completed", "settled", "gate"}
          \/ pc \in {"saving", "announcing"} /\ after \in {"stage_done", "degraded", "aggregated"}

RowInv ==
    /\ saves = {}
    /\ SnapAt(registry) /\ SnapAt(held) /\ SnapAt(outbox) /\ SnapAt(row)
    /\ pc = "saving" => outbox = Mine
    /\ Active => Mine.status = "running"
    /\ pc \in {"idle", "launching", "spawned"} /\ registry # None /\ ~Ended(registry)
         => row.stage = registry.stage
    /\ pc \in {"launching", "spawned"} /\ registry # None => registry.status = "running"
    /\ pc \in {"classifying", "looping", "stage"} => row.stage = Mine.stage
    /\ pc = "stage" => cur = Mine.stage
    /\ pc = "leaving" => Ended(Mine) \/ row.stage = Mine.stage
    /\ pc = "publishing" => Ended(Mine)
    /\ pc # "deciding"

\* Without signals nobody else mutates the meeting.
LEMMA UserKeepsRow ==
    Inv /\ RowInv /\ MaxSignals = 0 /\ (User \/ Storage) => RowInv'
<1>. SUFFICES ASSUME Inv, RowInv, MaxSignals = 0, User \/ Storage PROVE RowInv'
  OBVIOUS
<1>1. ~SignalRoom /\ saves = {}
  BY DEF SignalRoom, Inv, Control_OK, RowInv
<1>2. Run
  BY <1>1 DEF User, Storage, Pause, Resume, Abort, Inject, Control, ControlSaved, ControlSaveFails
<1>3. registry' \in Sound /\ registry'.status = "running" /\ registry'.stage = registry.stage
  <2>1. registry \in Sound
    BY <1>2, RegisteredSound DEF Run
  <2>2. CASE registry.status = "running"
    BY <1>2, <2>1, <2>2 DEF Run
  <2>3. CASE registry.status # "running"
    <3>1. registry' = Resumed(registry) /\ Resumable(registry)
      BY <1>2, <2>3 DEF Run
    <3>2. Resumed(registry).stage = registry.stage
      BY <1>2, <2>1, <3>1 DEF Resumed, Restored, Sound, State, RowInv, SnapAt, Run, ShouldPause
    <3>. QED  BY <2>1, <3>1, <3>2, ResumedSound
  <2>. QED  BY <2>2, <2>3
<1>4. ~Ended(registry) /\ registry # None
  BY <1>2 DEF Run, Resumable, ShouldPause, Ended
<1>. QED  BY <1>2, <1>3, <1>4 DEF Run, RowInv, SnapAt, ShouldPause, Active, world

\* Eviction and restart.
LEMMA MemoryKeepsRow == Inv /\ RowInv /\ Readers = {} /\ Memory => RowInv'
<1>. SUFFICES ASSUME Inv, RowInv, Readers = {}, Memory PROVE RowInv'
  OBVIOUS
<1>1. CASE Evict
  BY <1>1 DEF Evict, Replace, world, RowInv, SnapAt, Active, Mine, Holding
<1>2. CASE Restart
  <2>1. row \in State
    BY DEF Inv, CopiesSound, Sound
  <2>2. \/ registry' = None /\ row' = row
        \/ SnapAt(registry') /\ registry'.stage = row'.stage /\ row' \in {row, registry'}
    <3>. DEFINE s == [row EXCEPT !.status = "paused", !.snap = SnapshotOf(row)]
    <3>1. s.snap = SnapshotOf(row) /\ s.stage = row.stage
      BY <2>1 DEF State
    <3>2. s.snap.stage = s.stage
      BY <3>1 DEF SnapshotOf
    <3>3. (registry' = s /\ row' \in {s, row}) \/ (registry' = None /\ row' = row)
      BY <1>2 DEF Restart
    <3>. QED  BY <3>1, <3>2, <3>3 DEF SnapAt
  <2>3. held' = None /\ pc' = "idle" /\ outbox' = None /\ saves' = {}
    BY <1>2 DEF Restart
  <2>. QED  BY <2>2, <2>3 DEF RowInv, SnapAt, Active
<1>. QED  BY <1>1, <1>2 DEF Memory

\* The task's steps that touch the row.
LEMMA SavesKeepRow == Inv /\ RowInv /\ (Announced \/ Saved \/ SaveFails) => RowInv'
<1>. SUFFICES ASSUME Inv, RowInv, Announced \/ Saved \/ SaveFails PROVE RowInv'
  OBVIOUS
<1>0. Holding /\ Mine \in State
  BY MineSound DEF Announced, Saved, SaveFails, Holding
<1>1. CASE Announced
  BY <1>0, <1>1 DEF Announced, RowInv, SnapAt, Active, Mine, world
<1>2. CASE Saved
  <2>1. /\ row' = Mine /\ Mine' = Mine /\ outbox' = None /\ pc' = Resumption[after]
        /\ UNCHANGED <<registry, held, saves, cur, after>>
    BY <1>2 DEF Saved, RowInv, Mine
  <2>2. /\ pc' \in {"leaving", "looping", "completed", "settled", "gate"}
        /\ pc' \in {"completed", "settled", "gate"} => after \in {"stage_done", "degraded", "aggregated"}
    BY <2>1 DEF Resumption, Reasons, Inv, Control_OK
  <2>3. SnapAt(Mine)
    BY DEF RowInv, Mine
  <2>. QED  BY <1>2, <2>1, <2>2, <2>3 DEF Saved, RowInv, SnapAt, Active
<1>3. CASE SaveFails
  <2>. DEFINE s == [Mine EXCEPT !.status = "failed"]
  <2>1. s \in State /\ ~ShouldPause(s)
    BY <1>0 DEF State, Statuses, ShouldPause
  <2>2. Mine' = s /\ outbox' = s /\ pc' = "saving" /\ after' = "crashed"
    BY <1>3, <2>1, HoldMine DEF SaveFails, Persist
  <2>3. registry' \in {registry, s} /\ held' \in {held, s} /\ UNCHANGED <<row, saves>>
    BY <1>3 DEF SaveFails, Persist, Hold, world
  <2>. QED  BY <2>1, <2>2, <2>3 DEF RowInv, SnapAt, Active
<1>. QED  BY <1>1, <1>2, <1>3

\* An update of the task's own object that is not a pause.
LEMMA UpdateKeepsSnap ==
    ASSUME RowInv, NEW s, SnapAt(s), Hold(s)
    PROVE  SnapAt(registry)' /\ SnapAt(held)'
BY DEF RowInv, Hold, SnapAt

\* The task begins.
LEMMA LaunchKeepsRow ==
    Inv /\ RowInv /\ (Launched \/ Start \/ StartFindsNothing \/ RunnerEscapes \/ Leave) => RowInv'
<1>. SUFFICES ASSUME Inv, RowInv, Launched \/ Start \/ StartFindsNothing \/ RunnerEscapes \/ Leave
              PROVE  RowInv'
  OBVIOUS
<1>1. CASE Launched \/ StartFindsNothing
  BY <1>1 DEF Launched, StartFindsNothing, RowInv, SnapAt, Active, world
<1>2. CASE Start
  <2>1. registry \in State /\ held = None
    BY <1>2, RegisteredSound DEF Start, Inv, RunnerHasMeeting, Holding
  <2>. QED  BY <1>2, <2>1 DEF Start, RowInv, SnapAt, ShouldPause, Active, Mine, Ended, world, State
<1>3. CASE RunnerEscapes
  BY <1>3, RegisteredSound DEF RunnerEscapes, RowInv, SnapAt, ShouldPause, Active, Ended, world, State
<1>4. CASE Leave
  BY <1>4 DEF Leave, RowInv, SnapAt, Active, Mine, Ended, world
<1>. QED  BY <1>1, <1>2, <1>3, <1>4

\* An update of the task's own object, saved or not.
LEMMA OwnUpdateKeepsRow ==
    ASSUME Inv, RowInv, Holding, NEW s \in State, Hold(s), SnapAt(s), UNCHANGED <<row, saves>>,
           outbox' \in {outbox, s}, pc' = "saving" => outbox' = s,
           Active' => s.status = "running",
           pc' \notin {"idle", "launching", "spawned", "stage", "deciding"},
           pc' \in {"classifying", "looping"} => row.stage = s.stage,
           pc' \in {"leaving", "publishing"} => Ended(s)
    PROVE  RowInv'
<1>1. Mine' = s
  BY HoldMine
<1>2. SnapAt(registry)' /\ SnapAt(held)' /\ SnapAt(outbox)' /\ SnapAt(row)'
  BY UpdateKeepsSnap DEF RowInv, SnapAt
<1>. QED  BY <1>1, <1>2 DEF RowInv

\* The same when the save starts at once, or after an event.
LEMMA PersistKeepsRow ==
    ASSUME Inv, RowInv, Holding, NEW s \in State, NEW r, Persist(s, r) \/ Announce(s, r), SnapAt(s),
           UNCHANGED world, r \in {"stage_done", "degraded", "aggregated"} => s.status = "running"
    PROVE  RowInv'
<1>1. /\ Hold(s) /\ pc' \in {"saving", "announcing"} /\ after' = r /\ outbox' \in {outbox, s}
      /\ pc' = "saving" => outbox' = s
  BY DEF Persist, Announce
<1>2. Active' => s.status = "running"
  BY <1>1 DEF Active
<1>3. UNCHANGED <<row, saves>>
  BY DEF world
<1>. QED  BY <1>1, <1>2, <1>3, OwnUpdateKeepsRow

\* Steps that leave every meeting as it is.
LEMMA MovesKeepRow ==
    Inv /\ RowInv /\ (LoopEnds \/ StageStarts \/ TurnsTerminal \/ PublishFails \/ Published) => RowInv'
<1>. SUFFICES ASSUME Inv, RowInv, LoopEnds \/ StageStarts \/ TurnsTerminal \/ PublishFails \/ Published
              PROVE  RowInv'
  OBVIOUS
<1>1. Mine \in State /\ Mine' = Mine /\ UNCHANGED <<registry, held, outbox, row, saves, after>>
  <2>1. Holding
    BY DEF LoopEnds, StageStarts, TurnsTerminal, PublishFails, Published, Holding, AfterStage
  <2>. QED  BY <2>1, MineSound
            DEF LoopEnds, StageStarts, TurnsTerminal, PublishFails, Published, Mine, world
<1>2. CASE StageStarts
  BY <1>1, <1>2 DEF StageStarts, RowInv, SnapAt, Active, IsTerminal, ShouldPause, State, Statuses
<1>3. CASE LoopEnds \/ TurnsTerminal \/ PublishFails \/ Published
  BY <1>1, <1>3 DEF LoopEnds, TurnsTerminal, PublishFails, Published, AfterStage, RowInv, SnapAt,
                    Active, IsTerminal, Ended
<1>. QED  BY <1>2, <1>3

\* Before the loop, at its head and in the instant path.
LEMMA InstantKeepsRow ==
    Inv /\ RowInv /\ ((\E f \in Intents : Classified(f)) \/ InstantAnswers \/ InstantPublished
                      \/ InstantFails \/ LoopPauses)
      => RowInv'
<1>. SUFFICES ASSUME Inv, RowInv, (\E f \in Intents : Classified(f)) \/ InstantAnswers
                          \/ InstantPublished \/ InstantFails \/ LoopPauses
              PROVE  RowInv'
  OBVIOUS
<1>1. Holding /\ Mine \in State /\ SnapAt(Mine) /\ LastStage \in Stages
  <2>1. Holding
    BY DEF Classified, InstantAnswers, InstantPublished, InstantFails, LoopPauses, Holding
  <2>. QED  BY <2>1, MineSound, StagesFacts DEF RowInv, Mine
<1>2. ASSUME NEW f \in Intents, Classified(f) PROVE RowInv'
  <2>. DEFINE s == [Mine EXCEPT !.flow = f]
  <2>1. s \in State /\ SnapAt(s) /\ s.stage = Mine.stage
    <3>1. s \in State
      BY <1>1, FlowAssumption DEF State, Flows
    <3>2. s.stage = Mine.stage /\ s.snap = Mine.snap /\ s.status = Mine.status /\ Mine # None
      BY <1>1, NoneAssumption DEF State
    <3>. QED  BY <1>1, <3>1, <3>2 DEF SnapAt, ShouldPause
  <2>. QED  BY <1>1, <1>2, <2>1, OwnUpdateKeepsRow DEF Classified, Active, RowInv, world
<1>3. CASE InstantAnswers
  <2>. DEFINE s == [Mine EXCEPT !.status = "done", !.stage = LastStage, !.artifact = "raw"]
  <2>1. s \in State /\ SnapAt(s)
    BY <1>1 DEF State, Statuses, Artifacts, SnapAt, ShouldPause
  <2>. QED  BY <1>1, <1>3, <2>1, OwnUpdateKeepsRow DEF InstantAnswers, Active, world
<1>4. CASE InstantPublished
  <2>1. Hold(Mine) /\ pc' = "saving" /\ outbox' = Mine /\ after' = "instant" /\ UNCHANGED <<row, saves>>
    BY <1>4 DEF InstantPublished, Persist
  <2>. QED  BY <1>1, <2>1, OwnUpdateKeepsRow DEF Active
<1>5. CASE InstantFails
  <2>1. [Mine EXCEPT !.status = "failed", !.stage = LastStage] \in State
        /\ SnapAt([Mine EXCEPT !.status = "failed", !.stage = LastStage])
    BY <1>1 DEF State, Statuses, SnapAt, ShouldPause
  <2>. QED  BY <1>1, <1>5, <2>1, PersistKeepsRow DEF InstantFails
<1>6. CASE LoopPauses
  BY <1>1, <1>6, PersistKeepsRow DEF LoopPauses
<1>. QED  BY <1>2, <1>3, <1>4, <1>5, <1>6

\* During a stage and right after it.
LEMMA StageKeepsRow ==
    Inv /\ RowInv /\ ((\E nxt \in Stages, f \in Complexities : ClarifyDone(nxt, f))
                      \/ (\E nxt \in Stages : StageDone(nxt)) \/ ProduceDone
                      \/ StageRetries \/ StageExhausted \/ StageOutOfBalance \/ Spoken)
      => RowInv'
<1>. SUFFICES ASSUME Inv, RowInv, (\E nxt \in Stages, f \in Complexities : ClarifyDone(nxt, f))
                          \/ (\E nxt \in Stages : StageDone(nxt)) \/ ProduceDone
                          \/ StageRetries \/ StageExhausted \/ StageOutOfBalance \/ Spoken
              PROVE  RowInv'
  OBVIOUS
<1>1. /\ Holding /\ Mine \in State /\ Mine \in Sound /\ Mine.status = "running" /\ UNCHANGED world
      /\ cur \in Stages /\ cur \in 0..LastStage /\ 0 \in 0..LastStage
  <2>1. Holding /\ Active /\ UNCHANGED world
    BY DEF ClarifyDone, StageDone, ProduceDone, StageRetries, StageExhausted, StageOutOfBalance,
           Spoken, Holding, Active
  <2>. QED  BY <2>1, MineSound, StagesFacts DEF RowInv, Inv, Control_OK, Stages
<1>2. ASSUME NEW s \in State, Hold(s), s.status = "running", pc' = "speaking", UNCHANGED outbox
      PROVE  RowInv'
  BY <1>1, <1>2, OwnUpdateKeepsRow DEF Active, SnapAt, ShouldPause, world
<1>3. ASSUME NEW nxt \in Stages, NEW f \in Complexities, ClarifyDone(nxt, f) PROVE RowInv'
  <2>1. PICK k \in {Mine.sub} \cup (IF Subtopics > 0 /\ f # "simple" THEN {1} ELSE {}) :
             Hold([Mine EXCEPT !.stage = nxt, !.flow = f, !.sub = k])
    BY <1>3 DEF ClarifyDone
  <2>2. k \in 0..Subtopics
    BY <1>1, BoundAssumption DEF State
  <2>. DEFINE s == [Mine EXCEPT !.stage = nxt, !.flow = f, !.sub = k]
  <2>3. s \in State /\ s.status = "running"
    BY <1>1, <2>2, FlowAssumption DEF State, Flows
  <2>. QED  BY <1>2, <1>3, <2>1, <2>3 DEF ClarifyDone
<1>4. ASSUME NEW nxt \in Stages, StageDone(nxt) PROVE RowInv'
  <2>1. [Mine EXCEPT !.stage = nxt] \in State /\ [Mine EXCEPT !.stage = nxt].status = "running"
    BY <1>1 DEF State
  <2>. QED  BY <1>2, <1>4, <2>1 DEF StageDone
<1>5. CASE ProduceDone
  <2>. DEFINE s == [Mine EXCEPT !.stage = LastStage, !.artifact = "raw"]
  <2>1. s \in State /\ s.status = "running"
    BY <1>1, StagesFacts DEF State, Artifacts
  <2>. QED  BY <1>2, <1>5, <2>1 DEF ProduceDone
<1>6. CASE StageRetries
  <2>. DEFINE s == [Mine EXCEPT !.retry[cur] = @ + 1]
  <2>1. Mine.retry[cur] + 1 \in 0..MaxRetries
    BY <1>1, <1>6, BoundAssumption DEF StageRetries, State
  <2>2. s \in State /\ s.status = "running"
    BY <1>1, <2>1 DEF State
  <2>. QED  BY <1>1, <1>6, <2>2, PersistKeepsRow DEF StageRetries, SnapAt, ShouldPause
<1>7. CASE StageExhausted
  <2>. DEFINE s == [Mine EXCEPT !.ckpt = cur, !.status = "failed"]
  <2>1. s \in State /\ s.status = "failed"
    BY <1>1 DEF State, Statuses
  <2>. QED  BY <1>1, <1>7, <2>1, PersistKeepsRow DEF StageExhausted, SnapAt, ShouldPause
<1>8. CASE StageOutOfBalance
  <2>. DEFINE s == [Mine EXCEPT !.snap = SnapshotOf(Mine), !.status = "paused", !.ckpt = cur]
  <2>1. SnapshotOf(Mine) \in Snapshot /\ SnapshotOf(Mine).stage = Mine.stage
    BY <1>1, SnapshotType DEF SnapshotOf
  <2>2. s \in State
    BY <1>1, <2>1 DEF State, Statuses
  <2>3. SnapAt(s)
    BY <1>1, <2>1 DEF State, SnapAt
  <2>. QED  BY <1>1, <1>8, <2>2, <2>3, PersistKeepsRow DEF StageOutOfBalance
<1>9. CASE Spoken
  <2>1. [Mine EXCEPT !.ckpt = 0] \in State /\ [Mine EXCEPT !.ckpt = 0].status = "running"
    BY <1>1 DEF State
  <2>. QED  BY <1>1, <1>9, <2>1, PersistKeepsRow DEF Spoken, SnapAt, ShouldPause
<1>. QED  BY <1>3, <1>4, <1>5, <1>6, <1>7, <1>8, <1>9

\* Degradation, subtopics, gate, review and fixed routing.
LEMMA AfterKeepsRow ==
    Inv /\ RowInv /\ ~Dynamic
      /\ (Degraded \/ SwitchSubtopic \/ Aggregate \/ Iterate \/ AskReview \/ Reviewed
          \/ (\E v \in Artifacts : Close(v)) \/ AskRoute
          \/ (\E nxt \in Stages : Decided(nxt) \/ FixedRoute(nxt)))
      => RowInv'
<1>. SUFFICES ASSUME Inv, RowInv, ~Dynamic,
                     Degraded \/ SwitchSubtopic \/ Aggregate \/ Iterate \/ AskReview \/ Reviewed
                     \/ (\E v \in Artifacts : Close(v)) \/ AskRoute
                     \/ (\E nxt \in Stages : Decided(nxt) \/ FixedRoute(nxt))
              PROVE  RowInv'
  OBVIOUS
<1>1. Holding /\ Mine \in State /\ Mine \in Sound /\ UNCHANGED world
  <2>1. Holding /\ UNCHANGED world
    BY DEF Degraded, SwitchSubtopic, Aggregate, Iterate, AskReview, Reviewed, Close, AskRoute,
           Decided, FixedRoute, Judging, Routing, AfterStage, Holding
  <2>. QED  BY <2>1, MineSound
<1>2. ~Reviewed => Mine.status = "running"
  BY DEF Degraded, SwitchSubtopic, Aggregate, Iterate, AskReview, Close, AskRoute, Decided,
         FixedRoute, Judging, Routing, AfterStage, RowInv, Active
<1>3. CASE Degraded
  BY <1>1, <1>2, <1>3, PersistKeepsRow DEF Degraded, Reviewed, AfterStage, SnapAt, ShouldPause
<1>4. CASE SwitchSubtopic
  <2>. DEFINE s == [Mine EXCEPT !.sub = @ + 1, !.iter = 0, !.artifact = "none", !.stage = IntraTeam]
  <2>1. Mine.sub + 1 \in 0..Subtopics /\ 0 \in 0..MaxIterations
    BY <1>4, BoundAssumption DEF SwitchSubtopic
  <2>2. s \in State /\ s.status = "running"
    BY <1>1, <1>2, <1>4, <2>1, StagesFacts DEF State, Artifacts, SwitchSubtopic, AfterStage, Reviewed
  <2>. QED  BY <1>1, <1>4, <2>2, PersistKeepsRow DEF SwitchSubtopic, SnapAt, ShouldPause
<1>5. CASE Aggregate
  <2>. DEFINE s == [Mine EXCEPT !.sub = 0, !.artifact = "none", !.stage = LastStage]
  <2>1. 0 \in 0..Subtopics
    BY BoundAssumption
  <2>2. s \in State /\ s.status = "running"
    BY <1>1, <1>2, <1>5, <2>1, StagesFacts DEF State, Artifacts, Aggregate, AfterStage, Reviewed
  <2>. QED  BY <1>1, <1>5, <2>2, PersistKeepsRow DEF Aggregate, SnapAt, ShouldPause
<1>6. CASE Iterate
  <2>. DEFINE j == Judged("failing")
              s == [j EXCEPT !.iter = @ + 1, !.stage = LastStage]
  <2>1. j \in State /\ j.iter = Mine.iter /\ j.status = "running"
    BY <1>1, <1>2, <1>6, JudgedSound DEF Judged, Sound, State, Artifacts, Iterate, Judging, AfterStage,
       Reviewed
  <2>2. j.iter + 1 \in 0..MaxIterations
    BY <1>6, <2>1, BoundAssumption DEF Iterate, State
  <2>3. s \in State /\ s.status = "running"
    BY <2>1, <2>2, StagesFacts DEF State
  <2>. QED  BY <1>1, <1>6, <2>3, PersistKeepsRow DEF Iterate, SnapAt, ShouldPause
<1>7. CASE AskReview
  <2>1. Judged("failing") \in State /\ Judged("failing").status = "running"
    BY <1>1, <1>2, <1>7, JudgedSound DEF Judged, Sound, State, Artifacts, AskReview, Judging, AfterStage,
       Reviewed
  <2>. QED  BY <1>1, <1>7, <2>1, OwnUpdateKeepsRow
            DEF AskReview, Active, SnapAt, ShouldPause, world
<1>8. CASE Reviewed
  <2>. DEFINE s == [Mine EXCEPT !.status = "done"]
  <2>1. s \in State /\ s.status = "done"
    BY <1>1 DEF State, Statuses
  <2>. QED  BY <1>1, <1>8, <2>1, OwnUpdateKeepsRow
            DEF Reviewed, Active, SnapAt, ShouldPause, Ended, world
<1>9. ASSUME NEW v \in Artifacts, Close(v) PROVE RowInv'
  <2>. DEFINE s == [Judged(v) EXCEPT !.status = "done"]
  <2>1. s \in State /\ s.status = "done"
    BY <1>1, JudgedSound DEF Sound, State, Statuses
  <2>. QED  BY <1>1, <1>9, <2>1, OwnUpdateKeepsRow DEF Close, Active, SnapAt, ShouldPause, Ended, world
<1>10. ASSUME NEW nxt \in Stages, FixedRoute(nxt) PROVE RowInv'
  <2>. DEFINE s == [Mine EXCEPT !.stage = nxt]
  <2>1. s \in State /\ s.status = "running"
    BY <1>1, <1>2, <1>10 DEF State, FixedRoute, Routing, AfterStage, Reviewed
  <2>2. Persist(s, "routed")
    BY <1>10 DEF FixedRoute, GoTo
  <2>. QED  BY <1>1, <2>1, <2>2, PersistKeepsRow DEF SnapAt, ShouldPause
<1>11. ~AskRoute /\ \A nxt \in Stages : ~Decided(nxt)
  BY DEF AskRoute, Decided, RowInv
<1>. QED  BY <1>3, <1>4, <1>5, <1>6, <1>7, <1>8, <1>9, <1>10, <1>11

\* With fixed routing, no signals and no stale readers, a crash during a stage
\* makes recovery repeat that very stage: for every number of stages, retries,
\* iterations and subtopics, and whatever the database, evictions, the balance
\* and restarts do.
THEOREM RowFollowsStage ==
    ASSUME Readers = {}, MaxSignals = 0, ~Dynamic PROVE Spec => []RowIsAtStage
<1>1. Init => RowInv
  BY NewSound DEF Init, RowInv, SnapAt, ShouldPause, Active, NewState
<1>2. Inv /\ RowInv /\ [Next]_vars => RowInv'
  <2>1. UNCHANGED vars /\ RowInv => RowInv'
    BY DEF vars, runnerVars, RowInv, SnapAt, Active, Mine
  <2>2. Inv /\ RowInv /\ RunnerStep => RowInv'
    BY SavesKeepRow, LaunchKeepsRow, MovesKeepRow, InstantKeepsRow, StageKeepsRow, AfterKeepsRow
       DEF RunnerStep
  <2>. QED  BY <2>1, <2>2, UserKeepsRow, MemoryKeepsRow DEF Next
<1>3. Inv /\ RowInv => RowIsAtStage
  BY DEF RowInv, RowIsAtStage
<1>. QED  BY <1>1, <1>2, <1>3, Invariance, PTL DEF Spec


-----------------------------------------------------------------------------
(* Why a run of the background task comes to an end: what is left of it at *)
(* point p of the code, with a as the reason of a pending save, c as       *)
(* current_stage and m as the runner's object.                             *)

EndReasons == {"paused", "failed", "balance", "crashed", "instant"}
MoveReasons == {"switched", "iterate", "routed"}

Saves(p, a, reasons) == p \in {"announcing", "saving"} /\ a \in reasons

InLoop(p, a) == \/ p \in {"looping", "stage", "speaking", "completed", "settled", "deciding", "gate"}
                \/ Saves(p, a, Reasons \ EndReasons)

\* The stage at hand: once state.stage has moved on, the one that starts next.
At(p, a, c, m) == IF p = "looping" \/ Saves(p, a, MoveReasons) THEN m.stage ELSE c

\* Before the loop, in it, and on the way out.
Phase(p, a) == CASE p = "launching" -> 4 [] p = "spawned" -> 3 [] p = "classifying" -> 2
                 [] InLoop(p, a) -> 1 [] OTHER -> 0

\* Subtopics to come; as long as clarify is at hand there may be a decomposition.
TopicsLeft(s, m) == IF s = Clarify THEN Subtopics + 1
                                   ELSE IF m.sub = 0 THEN 0 ELSE Subtopics - m.sub + 1

\* The steps to the place where a pending save leads.
SaveLeft(a) == CASE a \in MoveReasons \cup {"retry"} -> 21 [] a = "stage_done" -> 17
                 [] a = "degraded" -> 14 [] a = "aggregated" -> 9
                 [] a \in {"paused", "failed", "balance"} -> 3 [] OTHER -> 2

\* The steps of one pass of the loop, and of the way out.
PassLeft(p, a) == CASE p = "looping" -> 20 [] p = "stage" -> 19 [] p = "speaking" -> 18
                    [] p = "completed" -> 16 [] p = "settled" -> 13 [] p = "deciding" -> 12
                    [] p = "announcing" -> SaveLeft(a) + 1 [] p = "saving" -> SaveLeft(a)
                    [] p = "gate" -> 8 [] p = "instant" -> 6
                    [] p \in {"answering", "publishing", "review"} -> 5
                    [] p = "leaving" -> 1 [] OTHER -> 0

LeftAt(p, a, c, m) ==
    LET s == At(p, a, c, m)
    IN  IF InLoop(p, a)
        THEN <<1, TopicsLeft(s, m), MaxIterations - m.iter, LastStage - s, MaxRetries - m.retry[s],
               PassLeft(p, a)>>
        ELSE <<Phase(p, a), 0, 0, 0, 0, PassLeft(p, a)>>

RunLeft == LeftAt(pc, after, cur, Mine)

\* The lexicographic order: a subtopic outweighs any number of iterations, and so on.
Below(x, y) == \E k \in 1..6 : x[k] < y[k] /\ \A j \in 1..(k - 1) : x[j] = y[j]

\* Where the object stands at each point of the loop.
InPlace(p, a, c, m) ==
    /\ p = "classifying" \/ InLoop(p, a) => m.status # "failed"
    /\ p = "stage" \/ Saves(p, a, {"retry"}) => m.stage = c
    /\ p = "deciding" => c # LastStage
    /\ p = "gate" \/ Saves(p, a, {"aggregated"}) => c = LastStage /\ m.sub = 0

\* The routing sends the meeting back, or lets it repeat its stage: the gate of the
\* cross-team debate does, with fixed routing too, and decide_next_stage may.
SentBack == \E nxt \in Stages : nxt <= cur /\ (Decided(nxt) \/ FixedRoute(nxt))

-----------------------------------------------------------------------------
LEMMA FirstLess ==
    ASSUME NEW x, NEW y,
           \/ x[1] < y[1]
           \/ x[1] = y[1] /\ x[2] < y[2]
           \/ x[1] = y[1] /\ x[2] = y[2] /\ x[3] < y[3]
           \/ x[1] = y[1] /\ x[2] = y[2] /\ x[3] = y[3] /\ x[4] < y[4]
           \/ x[1] = y[1] /\ x[2] = y[2] /\ x[3] = y[3] /\ x[4] = y[4] /\ x[5] < y[5]
           \/ x[1] = y[1] /\ x[2] = y[2] /\ x[3] = y[3] /\ x[4] = y[4] /\ x[5] = y[5] /\ x[6] < y[6]
    PROVE  Below(x, y)
<1>. DEFINE Less(k) == x[k] < y[k] /\ \A j \in 1..(k - 1) : x[j] = y[j]
<1>1. Less(1) \/ Less(2) \/ Less(3) \/ Less(4) \/ Less(5) \/ Less(6)  OBVIOUS
<1>2. \E k \in 1..6 : Less(k)  BY <1>1
<1>. QED  BY <1>2 DEF Below

\* An object of the right type at a point of the code.
LEMMA LeftIsNatural ==
    ASSUME NEW p \in PCs, NEW a \in Reasons, NEW c \in Stages, NEW m, InLoop(p, a) => m \in State
    PROVE  \A k \in 1..6 : LeftAt(p, a, c, m)[k] \in Nat
<1>1. SaveLeft(a) \in Nat  BY DEF SaveLeft
<1>2. PassLeft(p, a) \in Nat  BY <1>1 DEF PassLeft
<1>3. CASE InLoop(p, a)
  <2>. PICK s : s = At(p, a, c, m)  OBVIOUS
  <2>1. s \in Stages /\ s \in 1..LastStage /\ LastStage \in Nat
    BY <1>3, StagesAssumption DEF At, State, Stages
  <2>2. m.sub \in 0..Subtopics /\ m.iter \in 0..MaxIterations /\ m.retry[s] \in 0..MaxRetries
    BY <1>3, <2>1 DEF State
  <2>3. TopicsLeft(s, m) \in Nat /\ MaxIterations - m.iter \in Nat /\ LastStage - s \in Nat
        /\ MaxRetries - m.retry[s] \in Nat
    BY <2>1, <2>2, BoundAssumption DEF TopicsLeft
  <2>. QED  BY <1>2, <1>3, <2>3 DEF LeftAt
<1>4. CASE ~InLoop(p, a)
  <2>1. Phase(p, a) \in Nat  BY DEF Phase
  <2>. QED  BY <1>2, <1>4, <2>1 DEF LeftAt
<1>. QED  BY <1>3, <1>4

-----------------------------------------------------------------------------
(* The ways in which a step takes away from what is left.                  *)

LEMMA PhaseTakes ==
    ASSUME NEW p, NEW a, NEW c, NEW m, NEW q, NEW b, NEW d, NEW n, Phase(q, b) < Phase(p, a)
    PROVE  Below(LeftAt(q, b, d, n), LeftAt(p, a, c, m))
<1>1. InLoop(p, a) => Phase(p, a) = 1  BY DEF Phase, InLoop, Saves
<1>2. InLoop(q, b) => Phase(q, b) = 1  BY DEF Phase, InLoop, Saves
<1>3. LeftAt(q, b, d, n)[1] = Phase(q, b) /\ LeftAt(p, a, c, m)[1] = Phase(p, a)
  BY <1>1, <1>2 DEF LeftAt
<1>. QED  BY <1>3, FirstLess

LEMMA WayOutTakes ==
    ASSUME NEW p, NEW a, NEW c, NEW m, NEW q, NEW b, NEW d, NEW n,
           ~InLoop(p, a), ~InLoop(q, b), Phase(q, b) = Phase(p, a), PassLeft(q, b) < PassLeft(p, a)
    PROVE  Below(LeftAt(q, b, d, n), LeftAt(p, a, c, m))
  BY FirstLess DEF LeftAt

LEMMA PassTakes ==
    ASSUME NEW p, NEW a, NEW c, NEW m, NEW q, NEW b, NEW d, NEW n,
           InLoop(p, a), InLoop(q, b), At(q, b, d, n) = At(p, a, c, m),
           n.sub = m.sub \/ At(p, a, c, m) = Clarify, n.iter = m.iter, n.retry = m.retry,
           PassLeft(q, b) < PassLeft(p, a)
    PROVE  Below(LeftAt(q, b, d, n), LeftAt(p, a, c, m))
  BY FirstLess DEF LeftAt, TopicsLeft

LEMMA RetryTakes ==
    ASSUME NEW p, NEW a, NEW c, NEW m \in State, NEW q, NEW b, NEW d, NEW n \in State,
           InLoop(p, a), InLoop(q, b), At(p, a, c, m) \in Stages, At(q, b, d, n) = At(p, a, c, m),
           n.sub = m.sub, n.iter = m.iter,
           m.retry[At(p, a, c, m)] < n.retry[At(p, a, c, m)]
    PROVE  Below(LeftAt(q, b, d, n), LeftAt(p, a, c, m))
<1>. PICK s \in Stages : s = At(p, a, c, m)  OBVIOUS
<1>1. m.retry[s] \in Int /\ n.retry[s] \in Int /\ MaxRetries \in Int  BY BoundAssumption DEF State
<1>2. MaxRetries - n.retry[s] < MaxRetries - m.retry[s]  BY <1>1
<1>. QED  BY <1>2, FirstLess DEF LeftAt, TopicsLeft

LEMMA StageTakes ==
    ASSUME NEW p, NEW a, NEW c, NEW m \in State, NEW q, NEW b, NEW d, NEW n \in State,
           InLoop(p, a), InLoop(q, b), At(p, a, c, m) \in Stages, At(q, b, d, n) \in Stages,
           At(p, a, c, m) < At(q, b, d, n), n.sub = m.sub, n.iter = m.iter
    PROVE  Below(LeftAt(q, b, d, n), LeftAt(p, a, c, m))
<1>. PICK s \in Stages : s = At(p, a, c, m)  OBVIOUS
<1>. PICK t \in Stages : t = At(q, b, d, n)  OBVIOUS
<1>1. s \in Nat /\ t \in Nat /\ s < t /\ LastStage \in Nat /\ t # Clarify
  BY StagesFacts, StagesAssumption DEF Stages, Clarify
<1>2. LastStage - t < LastStage - s  BY <1>1
<1>3. CASE s = Clarify
  <2>1. n.sub \in 0..Subtopics /\ Subtopics \in Nat  BY BoundAssumption DEF State
  <2>2. TopicsLeft(t, n) < TopicsLeft(s, m)  BY <1>1, <1>3, <2>1 DEF TopicsLeft
  <2>. QED  BY <2>2, FirstLess DEF LeftAt
<1>4. CASE s # Clarify  BY <1>1, <1>2, <1>4, FirstLess DEF LeftAt, TopicsLeft
<1>. QED  BY <1>3, <1>4

LEMMA IterationTakes ==
    ASSUME NEW p, NEW a, NEW c, NEW m \in State, NEW q, NEW b, NEW d, NEW n \in State,
           InLoop(p, a), InLoop(q, b), At(q, b, d, n) = At(p, a, c, m),
           n.sub = m.sub, m.iter < n.iter
    PROVE  Below(LeftAt(q, b, d, n), LeftAt(p, a, c, m))
<1>1. m.iter \in Int /\ n.iter \in Int /\ MaxIterations \in Int  BY BoundAssumption DEF State
<1>2. MaxIterations - n.iter < MaxIterations - m.iter  BY <1>1
<1>. QED  BY <1>2, FirstLess DEF LeftAt, TopicsLeft

LEMMA TopicTakes ==
    ASSUME NEW p, NEW a, NEW c, NEW m \in State, NEW q, NEW b, NEW d, NEW n \in State,
           InLoop(p, a), InLoop(q, b), At(p, a, c, m) # Clarify, At(q, b, d, n) # Clarify,
           m.sub # 0, n.sub = 0 \/ m.sub < n.sub
    PROVE  Below(LeftAt(q, b, d, n), LeftAt(p, a, c, m))
<1>1. m.sub \in 1..Subtopics /\ n.sub \in 0..Subtopics /\ Subtopics \in Nat  BY BoundAssumption DEF State
<1>2. TopicsLeft(At(q, b, d, n), n) < TopicsLeft(At(p, a, c, m), m)  BY <1>1 DEF TopicsLeft
<1>. QED  BY <1>2, FirstLess DEF LeftAt

-----------------------------------------------------------------------------
(* The steps of the task.                                                  *)

Placed == InPlace(pc, after, cur, Mine)

\* RunLeft and Placed in the next state.
LEMMA NextPlace ==
    RunLeft' = LeftAt(pc', after', cur', Mine') /\ (Placed' <=> InPlace(pc', after', cur', Mine'))
  BY DEF RunLeft, Placed, LeftAt, InPlace, At, TopicsLeft, Phase, PassLeft, SaveLeft, InLoop, Saves,
         Reasons, EndReasons, MoveReasons, Mine, Clarify

LEMMA LoopHolds == InLoop(pc, after) => Holding
  BY DEF InLoop, Saves, Holding

\* Up to the loop.
LEMMA LaunchTakes ==
    ASSUME Inv, Placed, Launched \/ Start \/ StartFindsNothing \/ \E i \in Intents : Classified(i)
    PROVE  Below(RunLeft', RunLeft) /\ Placed'
<1>1. Phase(pc', after') < Phase(pc, after)
  <2>1. CASE Launched  BY <2>1 DEF Launched, Phase, InLoop, Saves
  <2>2. CASE Start  BY <2>2 DEF Start, Phase, InLoop, Saves
  <2>3. CASE StartFindsNothing  BY <2>3 DEF StartFindsNothing, Phase, InLoop, Saves
  <2>4. ASSUME NEW i \in Intents, Classified(i) PROVE Phase(pc', after') < Phase(pc, after)
    BY <2>4 DEF Classified, Phase, InLoop, Saves
  <2>. QED  BY <2>1, <2>2, <2>3, <2>4
<1>2. Placed'
  <2>1. CASE Launched \/ StartFindsNothing
    BY <2>1, NextPlace DEF InPlace, InLoop, Saves, Launched, StartFindsNothing
  <2>3. CASE Start
    <3>1. /\ held' = None /\ registry \in State /\ pc' \in {"instant", "classifying"}
          /\ registry'.status = "running"
      BY <2>3, RegisteredSound DEF Start, Inv, RunnerHasMeeting, Holding, State
    <3>2. Mine'.status = "running"  BY <3>1 DEF Mine
    <3>. QED  BY <3>1, <3>2, NextPlace DEF InPlace, InLoop, Saves
  <2>2. ASSUME NEW i \in Intents, Classified(i) PROVE Placed'
    <3>1. /\ Mine \in State /\ Mine.status # "failed" /\ pc' \in {"instant", "looping"}
          /\ i \in Flows /\ Hold([Mine EXCEPT !.flow = i])
      BY <2>2, MineSound, FlowAssumption DEF Classified, Holding, Placed, InPlace, Flows
    <3>2. [Mine EXCEPT !.flow = i] \in State  BY <3>1 DEF State
    <3>3. Mine' = [Mine EXCEPT !.flow = i]  BY <3>1, <3>2, HoldMine
    <3>4. Mine'.status # "failed"  BY <3>1, <3>3 DEF State
    <3>. QED  BY <3>1, <3>4, NextPlace DEF InPlace, InLoop, Saves
  <2>. QED  BY <2>1, <2>2, <2>3
<1>. QED  BY <1>1, <1>2, PhaseTakes, NextPlace DEF RunLeft

\* The way out: nothing but the point in the code changes.
LEMMA OutTakes ==
    ASSUME ~InLoop(pc, after), pc \notin {"launching", "spawned", "classifying"},
           ~InLoop(pc', after'), pc' \notin {"launching", "spawned", "classifying", "stage", "deciding", "gate",
                                            "speaking", "completed", "settled"},
           PassLeft(pc', after') < PassLeft(pc, after)
    PROVE  Below(RunLeft', RunLeft) /\ Placed'
<1>1. Phase(pc, after) = 0 /\ Phase(pc', after') = 0  BY DEF Phase
<1>2. Below(RunLeft', RunLeft)  BY <1>1, WayOutTakes, NextPlace DEF RunLeft
<1>3. Placed'  BY NextPlace DEF InPlace, InLoop, Saves, EndReasons, Reasons
<1>. QED  BY <1>2, <1>3

\* A step that leads out of the loop.
LEMMA LoopOutTakes ==
    ASSUME InLoop(pc, after), ~InLoop(pc', after'),
           pc' \notin {"launching", "spawned", "classifying"}
    PROVE  Below(RunLeft', RunLeft) /\ Placed'
<1>1. Phase(pc, after) = 1 /\ Phase(pc', after') = 0  BY DEF Phase, InLoop, Saves
<1>2. Below(RunLeft', RunLeft)  BY <1>1, PhaseTakes, NextPlace DEF RunLeft
<1>3. Placed'  BY NextPlace DEF InPlace, InLoop, Saves, EndReasons, Reasons
<1>. QED  BY <1>2, <1>3

LEMMA InstantTakes ==
    ASSUME InstantAnswers \/ InstantPublished \/ InstantFails \/ Reviewed \/ Published \/ PublishFails
           \/ Leave \/ RunnerEscapes
    PROVE  Below(RunLeft', RunLeft) /\ Placed'
  BY OutTakes DEF InstantAnswers, InstantPublished, InstantFails, Reviewed, Published, PublishFails, Leave,
     RunnerEscapes, Persist, Announce, PassLeft, SaveLeft, InLoop, Saves, EndReasons, MoveReasons

LEMMA LeavingTakes ==
    ASSUME LoopEnds \/ LoopPauses \/ StageExhausted \/ StageOutOfBalance \/ TurnsTerminal \/ AskReview
           \/ \E v \in Artifacts : Close(v)
    PROVE  Below(RunLeft', RunLeft) /\ Placed'
<1>1. InLoop(pc, after)
  BY DEF LoopEnds, LoopPauses, StageExhausted, StageOutOfBalance, TurnsTerminal, AskReview, Close,
         Judging, AfterStage, InLoop
<1>2. ~InLoop(pc', after') /\ pc' \notin {"launching", "spawned", "classifying"}
  BY DEF LoopEnds, LoopPauses, StageExhausted, StageOutOfBalance, TurnsTerminal, AskReview, Close,
         Persist, InLoop, Saves, EndReasons
<1>. QED  BY <1>1, <1>2, LoopOutTakes

-----------------------------------------------------------------------------
(* The loop.                                                               *)

\* A step inside the loop that gives the object the value s.
LEMMA LoopStep ==
    ASSUME Inv, InLoop(pc, after), NEW s \in State, Hold(s), InLoop(pc', after'),
           Below(LeftAt(pc', after', cur', s), RunLeft), InPlace(pc', after', cur', s)
    PROVE  Below(RunLeft', RunLeft) /\ Placed'
<1>1. Mine' = s  BY LoopHolds, HoldMine
<1>. QED  BY <1>1, NextPlace

\* One that goes on in the same pass.
LEMMA PassStep ==
    ASSUME Inv, InLoop(pc, after), NEW s \in State, Hold(s), InLoop(pc', after'),
           At(pc', after', cur', s) = At(pc, after, cur, Mine),
           s.sub = Mine.sub \/ At(pc, after, cur, Mine) = Clarify, s.iter = Mine.iter, s.retry = Mine.retry,
           PassLeft(pc', after') < PassLeft(pc, after), InPlace(pc', after', cur', s)
    PROVE  Below(RunLeft', RunLeft) /\ Placed'
<1>1. Below(LeftAt(pc', after', cur', s), RunLeft)  BY PassTakes DEF RunLeft
<1>. QED  BY <1>1, LoopStep

\* One that leaves the object alone.
LEMMA PassMove ==
    ASSUME Inv, Placed, InLoop(pc, after), UNCHANGED <<registry, held>>, InLoop(pc', after'),
           At(pc', after', cur', Mine) = At(pc, after, cur, Mine),
           PassLeft(pc', after') < PassLeft(pc, after), InPlace(pc', after', cur', Mine)
    PROVE  Below(RunLeft', RunLeft) /\ Placed'
<1>1. Mine' = Mine  BY DEF Mine
<1>2. Below(LeftAt(pc', after', cur', Mine), RunLeft)  BY PassTakes DEF RunLeft
<1>. QED  BY <1>1, <1>2, NextPlace

LEMMA StageStartTakes == ASSUME Inv, Placed, StageStarts PROVE Below(RunLeft', RunLeft) /\ Placed'
<1>1. InLoop(pc, after) /\ InLoop(pc', after') /\ UNCHANGED <<registry, held>>
  BY DEF StageStarts, InLoop
<1>2. PassLeft(pc', after') < PassLeft(pc, after)  BY DEF StageStarts, PassLeft
<1>3. At(pc', after', cur', Mine) = At(pc, after, cur, Mine)  BY DEF StageStarts, At, Saves
<1>4. InPlace(pc', after', cur', Mine)
  BY DEF StageStarts, IsTerminal, InPlace, InLoop, Saves
<1>. QED  BY <1>1, <1>2, <1>3, <1>4, PassMove

\* A stage that comes to its end.
LEMMA StageEndTakes ==
    ASSUME Inv, Placed,
           \/ \E nxt \in Stages, f \in Complexities : ClarifyDone(nxt, f)
           \/ \E nxt \in Stages : StageDone(nxt)
           \/ ProduceDone
    PROVE  Below(RunLeft', RunLeft) /\ Placed'
<1>. DEFINE Ends(s) == /\ Hold(s) /\ s.status = Mine.status /\ s.iter = Mine.iter /\ s.retry = Mine.retry
                       /\ s.sub = Mine.sub \/ cur = Clarify
<1>0. pc = "stage" /\ pc' = "speaking" /\ UNCHANGED <<cur, after>>
  BY DEF ClarifyDone, StageDone, ProduceDone
<1>1. Mine \in State /\ Mine.status # "failed" /\ cur \in Stages
  BY <1>0, MineSound DEF Placed, InPlace, InLoop, Holding, Inv, Control_OK
<1>2. \E s \in State : Ends(s)
  <2>1. ASSUME NEW nxt \in Stages, NEW f \in Complexities, ClarifyDone(nxt, f) PROVE \E s \in State : Ends(s)
    <3>1. PICK k \in {Mine.sub} \cup (IF Subtopics > 0 /\ f # "simple" THEN {1} ELSE {}) :
             Hold([Mine EXCEPT !.stage = nxt, !.flow = f, !.sub = k])
      BY <2>1 DEF ClarifyDone
    <3>. DEFINE s == [Mine EXCEPT !.stage = nxt, !.flow = f, !.sub = k]
    <3>2. k \in 0..Subtopics /\ f \in Flows
      BY <1>1, <3>1, BoundAssumption, FlowAssumption DEF State, Flows
    <3>3. s \in State  BY <1>1, <3>2 DEF State
    <3>4. cur = Clarify  BY <2>1 DEF ClarifyDone
    <3>5. s.status = Mine.status /\ s.iter = Mine.iter /\ s.retry = Mine.retry
      BY <1>1 DEF State
    <3>. QED  BY <3>1, <3>3, <3>4, <3>5
  <2>2. ASSUME NEW nxt \in Stages, StageDone(nxt) PROVE \E s \in State : Ends(s)
    <3>. DEFINE s == [Mine EXCEPT !.stage = nxt]
    <3>1. s \in State  BY <1>1 DEF State
    <3>2. Hold(s)  BY <2>2 DEF StageDone
    <3>3. s.status = Mine.status /\ s.iter = Mine.iter /\ s.retry = Mine.retry /\ s.sub = Mine.sub
      BY <1>1 DEF State
    <3>. QED  BY <3>1, <3>2, <3>3
  <2>3. ASSUME ProduceDone PROVE \E s \in State : Ends(s)
    <3>. DEFINE s == [Mine EXCEPT !.stage = LastStage, !.artifact = "raw"]
    <3>1. s \in State  BY <1>1, StagesFacts DEF State, Artifacts
    <3>2. Hold(s)  BY <2>3 DEF ProduceDone
    <3>3. s.status = Mine.status /\ s.iter = Mine.iter /\ s.retry = Mine.retry /\ s.sub = Mine.sub
      BY <1>1 DEF State
    <3>. QED  BY <3>1, <3>2, <3>3
  <2>. QED  BY <2>1, <2>2, <2>3
<1>3. PICK s \in State : Ends(s)  BY <1>2
<1>4. InLoop(pc, after) /\ InLoop(pc', after')  BY <1>0 DEF InLoop
<1>5. PassLeft(pc', after') < PassLeft(pc, after)  BY <1>0 DEF PassLeft
<1>6. At(pc', after', cur', s) = cur /\ At(pc, after, cur, Mine) = cur  BY <1>0 DEF At, Saves
<1>7. InPlace(pc', after', cur', s)  BY <1>0, <1>1, <1>3 DEF InPlace, InLoop, Saves
<1>. QED  BY <1>3, <1>4, <1>5, <1>6, <1>7, PassStep

LEMMA RetryStepTakes == ASSUME Inv, Placed, StageRetries PROVE Below(RunLeft', RunLeft) /\ Placed'
<1>. DEFINE s == [Mine EXCEPT !.retry[cur] = @ + 1]
<1>0. pc = "stage" /\ pc' = "announcing" /\ after' = "retry" /\ cur' = cur /\ Hold(s)
      /\ Mine.retry[cur] < MaxRetries
  BY DEF StageRetries, Announce
<1>1. Mine \in State /\ Mine.status # "failed" /\ cur \in Stages /\ Mine.stage = cur
  BY <1>0, MineSound DEF Placed, InPlace, InLoop, Holding, Inv, Control_OK
<1>2. Mine.retry[cur] \in Nat /\ Mine.retry[cur] + 1 \in 0..MaxRetries
  BY <1>0, <1>1, BoundAssumption DEF State
<1>3. s \in State  BY <1>1, <1>2 DEF State
<1>4. /\ s.status = Mine.status /\ s.iter = Mine.iter /\ s.sub = Mine.sub /\ s.stage = Mine.stage
      /\ s.retry[cur] = Mine.retry[cur] + 1
  BY <1>1 DEF State
<1>5. InLoop(pc, after) /\ InLoop(pc', after')  BY <1>0 DEF InLoop, Saves, Reasons, EndReasons
<1>6. At(pc', after', cur', s) = cur /\ At(pc, after, cur, Mine) = cur
  BY <1>0 DEF At, Saves, MoveReasons
<1>7. Mine.retry[cur] < s.retry[cur]  BY <1>2, <1>4
<1>8. InPlace(pc', after', cur', s)  BY <1>0, <1>1, <1>4 DEF InPlace, Saves
<1>9. Below(LeftAt(pc', after', cur', s), RunLeft)
  BY <1>1, <1>3, <1>4, <1>5, <1>6, <1>7, RetryTakes DEF RunLeft
<1>. QED  BY <1>0, <1>3, <1>5, <1>8, <1>9, LoopStep

LEMMA SpokenTakes == ASSUME Inv, Placed, Spoken PROVE Below(RunLeft', RunLeft) /\ Placed'
<1>. DEFINE s == [Mine EXCEPT !.ckpt = 0]
<1>0. pc = "speaking" /\ pc' = "saving" /\ after' = "stage_done" /\ cur' = cur /\ Hold(s)
  BY DEF Spoken, Persist
<1>1. Mine \in State /\ Mine.status # "failed"
  BY <1>0, MineSound DEF Placed, InPlace, InLoop, Holding
<1>2. 0 \in 0..LastStage  BY StagesFacts
<1>3. s \in State  BY <1>1, <1>2 DEF State
<1>4. /\ s.status = Mine.status /\ s.iter = Mine.iter /\ s.sub = Mine.sub /\ s.stage = Mine.stage
      /\ s.retry = Mine.retry
  BY <1>1 DEF State
<1>5. InLoop(pc, after) /\ InLoop(pc', after')  BY <1>0 DEF InLoop, Saves, Reasons, EndReasons
<1>6. At(pc', after', cur', s) = cur /\ At(pc, after, cur, Mine) = cur
  BY <1>0 DEF At, Saves, MoveReasons
<1>7. PassLeft(pc', after') < PassLeft(pc, after)  BY <1>0 DEF PassLeft, SaveLeft, MoveReasons
<1>8. InPlace(pc', after', cur', s)  BY <1>0, <1>1, <1>4 DEF InPlace, Saves
<1>. QED  BY <1>0, <1>3, <1>4, <1>5, <1>6, <1>7, <1>8, PassStep

LEMMA RouteTakes ==
    ASSUME Inv, Placed, NEW nxt \in Stages, Decided(nxt) \/ FixedRoute(nxt)
    PROVE  (Below(RunLeft', RunLeft) \/ SentBack) /\ Placed'
<1>. DEFINE s == [Mine EXCEPT !.stage = nxt]
<1>0. pc \in {"deciding", "completed", "settled"} /\ cur' = cur /\ GoTo(nxt)
  BY DEF Decided, FixedRoute, Routing, AfterStage
<1>1. Mine \in State /\ Mine.status # "failed" /\ cur \in Stages
  BY <1>0, MineSound DEF Placed, InPlace, InLoop, Holding, Inv, Control_OK
<1>2. Hold(s) /\ \/ pc' = "saving" /\ after' = "routed"
                 \/ pc' = "looping" /\ after' = after
  BY <1>0 DEF GoTo, Persist
<1>3. cur \in Int /\ nxt \in Int  BY <1>1 DEF Stages
<1>4. s \in State /\ s.status = Mine.status /\ s.iter = Mine.iter /\ s.sub = Mine.sub /\ s.stage = nxt
  BY <1>1 DEF State
<1>5. InLoop(pc, after) /\ InLoop(pc', after')  BY <1>0, <1>2 DEF InLoop, Saves, Reasons, EndReasons
<1>6. At(pc', after', cur', s) = nxt /\ At(pc, after, cur, Mine) = cur
  BY <1>0, <1>2, <1>4 DEF At, Saves, MoveReasons
<1>7. InPlace(pc', after', cur', s)  BY <1>1, <1>2, <1>4 DEF InPlace, Saves
<1>8. CASE nxt > cur
  <2>1. Below(LeftAt(pc', after', cur', s), RunLeft)
    BY <1>1, <1>4, <1>5, <1>6, <1>8, StageTakes DEF RunLeft
  <2>. QED  BY <1>2, <1>4, <1>5, <1>7, <2>1, LoopStep
<1>9. CASE nxt <= cur
  <2>1. SentBack  BY <1>9 DEF SentBack
  <2>2. Mine' = s  BY <1>2, <1>4, <1>5, LoopHolds, HoldMine
  <2>. QED  BY <1>7, <2>1, <2>2, NextPlace
<1>. QED  BY <1>3, <1>8, <1>9

LEMMA AskRouteTakes == ASSUME Inv, Placed, AskRoute PROVE Below(RunLeft', RunLeft) /\ Placed'
<1>. DEFINE s == [Mine EXCEPT !.stage = cur]
<1>0. /\ pc \in {"completed", "settled"} /\ pc' = "deciding" /\ cur' = cur /\ Hold(s)
      /\ cur # LastStage
  BY DEF AskRoute, Routing, AfterStage
<1>1. Mine \in State /\ Mine.status # "failed" /\ cur \in Stages
  BY <1>0, MineSound DEF Placed, InPlace, InLoop, Holding, Inv, Control_OK
<1>2. /\ s \in State /\ s.status = Mine.status /\ s.iter = Mine.iter /\ s.sub = Mine.sub
      /\ s.retry = Mine.retry
  BY <1>1 DEF State
<1>3. InLoop(pc, after) /\ InLoop(pc', after')  BY <1>0 DEF InLoop
<1>4. At(pc', after', cur', s) = cur /\ At(pc, after, cur, Mine) = cur  BY <1>0 DEF At, Saves
<1>5. PassLeft(pc', after') < PassLeft(pc, after)  BY <1>0 DEF PassLeft
<1>6. InPlace(pc', after', cur', s)  BY <1>0, <1>1, <1>2 DEF InPlace, Saves
<1>. QED  BY <1>0, <1>2, <1>3, <1>4, <1>5, <1>6, PassStep

LEMMA DegradedTakes == ASSUME Inv, Placed, Degraded PROVE Below(RunLeft', RunLeft) /\ Placed'
<1>0. pc = "completed" /\ pc' = "announcing" /\ after' = "degraded" /\ cur' = cur /\ Hold(Mine)
  BY DEF Degraded, Announce
<1>1. Mine \in State /\ Mine.status # "failed"
  BY <1>0, MineSound DEF Placed, InPlace, InLoop, Holding
<1>2. InLoop(pc, after) /\ InLoop(pc', after')  BY <1>0 DEF InLoop, Saves, Reasons, EndReasons
<1>3. At(pc', after', cur', Mine) = cur /\ At(pc, after, cur, Mine) = cur
  BY <1>0 DEF At, Saves, MoveReasons
<1>4. PassLeft(pc', after') < PassLeft(pc, after)  BY <1>0 DEF PassLeft, SaveLeft, MoveReasons
<1>5. InPlace(pc', after', cur', Mine)  BY <1>0, <1>1 DEF InPlace, Saves
<1>. QED  BY <1>0, <1>1, <1>2, <1>3, <1>4, <1>5, PassStep

\* produce has finished a subtopic.
LEMMA SubtopicTakes ==
    ASSUME Inv, Placed, SwitchSubtopic \/ Aggregate
    PROVE  Below(RunLeft', RunLeft) /\ Placed'
<1>0. /\ pc \in {"completed", "settled"} /\ cur = LastStage /\ pc' = "announcing" /\ cur' = cur
      /\ after' \in {"switched", "aggregated"}
  BY DEF SwitchSubtopic, Aggregate, AfterStage, Announce
<1>1. Mine \in State /\ Mine.status # "failed"
  BY <1>0, MineSound DEF Placed, InPlace, InLoop, Holding
<1>2. Mine.sub \in 1..Subtopics
  BY <1>1, BoundAssumption DEF SwitchSubtopic, Aggregate, State
<1>3. LastStage # Clarify /\ IntraTeam # Clarify
  BY StagesAssumption DEF Clarify, IntraTeam
<1>4. \E s \in State : /\ Hold(s) /\ s.status = Mine.status /\ (s.sub = 0 \/ Mine.sub < s.sub)
                       /\ At(pc', after', cur', s) # Clarify
                       /\ after' = "aggregated" => s.sub = 0
  <2>1. CASE SwitchSubtopic
    <3>. DEFINE s == [Mine EXCEPT !.sub = @ + 1, !.iter = 0, !.artifact = "none", !.stage = IntraTeam]
    <3>1. Hold(s) /\ after' = "switched"  BY <2>1 DEF SwitchSubtopic, Announce
    <3>2. Mine.sub + 1 \in 0..Subtopics /\ 0 \in 0..MaxIterations /\ Mine.sub < Mine.sub + 1
      BY <1>2, <2>1, BoundAssumption DEF SwitchSubtopic
    <3>3. s \in State  BY <1>1, <3>2, StagesFacts DEF State, Artifacts
    <3>4. s.status = Mine.status /\ s.sub = Mine.sub + 1 /\ s.stage = IntraTeam  BY <1>1 DEF State
    <3>5. At(pc', after', cur', s) # Clarify  BY <1>0, <1>3, <3>1, <3>4 DEF At
    <3>. QED  BY <3>1, <3>2, <3>3, <3>4, <3>5
  <2>2. CASE Aggregate
    <3>. DEFINE s == [Mine EXCEPT !.sub = 0, !.artifact = "none", !.stage = LastStage]
    <3>1. Hold(s)  BY <2>2 DEF Aggregate, Announce
    <3>2. 0 \in 0..Subtopics  BY BoundAssumption
    <3>3. s \in State  BY <1>1, <3>2, StagesFacts DEF State, Artifacts
    <3>4. s.status = Mine.status /\ s.sub = 0 /\ s.stage = LastStage  BY <1>1 DEF State
    <3>5. At(pc', after', cur', s) # Clarify  BY <1>0, <1>3, <3>4 DEF At
    <3>. QED  BY <3>1, <3>3, <3>4, <3>5
  <2>. QED  BY <2>1, <2>2
<1>5. PICK s \in State : /\ Hold(s) /\ s.status = Mine.status /\ (s.sub = 0 \/ Mine.sub < s.sub)
                         /\ At(pc', after', cur', s) # Clarify
                         /\ after' = "aggregated" => s.sub = 0
  BY <1>4
<1>6. InLoop(pc, after) /\ InLoop(pc', after')  BY <1>0 DEF InLoop, Saves, Reasons, EndReasons
<1>7. At(pc, after, cur, Mine) # Clarify  BY <1>0, <1>3 DEF At, Saves
<1>8. Mine.sub # 0  BY <1>2
<1>9. Below(LeftAt(pc', after', cur', s), RunLeft)
  BY <1>1, <1>5, <1>6, <1>7, <1>8, TopicTakes DEF RunLeft
<1>10. InPlace(pc', after', cur', s)  BY <1>0, <1>1, <1>5 DEF InPlace, Saves
<1>. QED  BY <1>5, <1>6, <1>9, <1>10, LoopStep

LEMMA IterateTakes == ASSUME Inv, Placed, Iterate PROVE Below(RunLeft', RunLeft) /\ Placed'
<1>. DEFINE j == Judged("failing")
            s == [j EXCEPT !.iter = @ + 1, !.stage = LastStage]
<1>0. /\ pc \in {"gate", "completed", "settled"} /\ cur = LastStage /\ pc' = "announcing" /\ cur' = cur
      /\ after' = "iterate" /\ Hold(s) /\ Mine.iter < MaxIterations
  BY DEF Iterate, Judging, AfterStage, Announce, Placed, InPlace
<1>1. Mine \in State /\ Mine.status # "failed"
  BY <1>0, MineSound DEF Placed, InPlace, InLoop, Holding
<1>2. j \in State /\ j.iter = Mine.iter /\ j.status = Mine.status /\ j.sub = Mine.sub
  BY <1>1 DEF Judged, State, Artifacts
<1>3. Mine.iter \in Nat /\ Mine.iter + 1 \in 0..MaxIterations
  BY <1>0, <1>1, BoundAssumption DEF State
<1>4. s \in State  BY <1>2, <1>3, StagesFacts DEF State
<1>5. s.status = Mine.status /\ s.sub = Mine.sub /\ s.stage = LastStage /\ s.iter = Mine.iter + 1
  BY <1>2 DEF State
<1>6. InLoop(pc, after) /\ InLoop(pc', after')  BY <1>0 DEF InLoop, Saves, Reasons, EndReasons
<1>7. At(pc', after', cur', s) = At(pc, after, cur, Mine)
  BY <1>0, <1>5 DEF At, Saves, MoveReasons
<1>8. Mine.iter < s.iter  BY <1>3, <1>5
<1>9. Below(LeftAt(pc', after', cur', s), RunLeft)
  BY <1>1, <1>4, <1>5, <1>6, <1>7, <1>8, IterationTakes DEF RunLeft
<1>10. InPlace(pc', after', cur', s)  BY <1>0, <1>1, <1>5 DEF InPlace, Saves
<1>. QED  BY <1>0, <1>4, <1>6, <1>9, <1>10, LoopStep

\* The pending save: it starts, commits or fails.
LEMMA AnnouncedTakes == ASSUME Inv, Placed, Announced PROVE Below(RunLeft', RunLeft) /\ Placed'
<1>0. pc = "announcing" /\ pc' = "saving" /\ UNCHANGED <<registry, held, cur, after>>
  BY DEF Announced
<1>1. SaveLeft(after) \in Nat /\ SaveLeft(after') = SaveLeft(after)  BY <1>0 DEF SaveLeft
<1>2. PassLeft(pc', after') < PassLeft(pc, after)  BY <1>0, <1>1 DEF PassLeft
<1>3. CASE InLoop(pc, after)
  <2>1. InLoop(pc', after')  BY <1>0, <1>3 DEF InLoop, Saves
  <2>2. At(pc', after', cur', Mine) = At(pc, after, cur, Mine)  BY <1>0 DEF At, Saves
  <2>3. InPlace(pc', after', cur', Mine)  BY <1>0, <1>3, <2>1 DEF InPlace, Saves, Placed
  <2>. QED  BY <1>0, <1>2, <1>3, <2>1, <2>2, <2>3, PassMove
<1>4. CASE ~InLoop(pc, after)
  <2>1. ~InLoop(pc', after')  BY <1>0, <1>4 DEF InLoop, Saves
  <2>. QED  BY <1>0, <1>2, <1>4, <2>1, OutTakes
<1>. QED  BY <1>3, <1>4

LEMMA SavedTakes == ASSUME Inv, Placed, Saved PROVE Below(RunLeft', RunLeft) /\ Placed'
<1>0. pc = "saving" /\ pc' = Resumption[after] /\ UNCHANGED <<registry, held, cur, after>>
  BY DEF Saved
<1>1. after \in Reasons  BY DEF Inv, Control_OK
<1>2. CASE after \in EndReasons
  <2>1. pc' = "leaving"  BY <1>0, <1>2 DEF Resumption, EndReasons
  <2>2. PassLeft(pc', after') < PassLeft(pc, after)
    BY <1>0, <1>2, <2>1 DEF PassLeft, SaveLeft, EndReasons, MoveReasons
  <2>3. ~InLoop(pc, after) /\ ~InLoop(pc', after')  BY <1>0, <1>2, <2>1 DEF InLoop, Saves
  <2>. QED  BY <1>0, <2>1, <2>2, <2>3, OutTakes
<1>3. CASE after \in MoveReasons \cup {"retry"}
  <2>1. pc' = "looping"  BY <1>0, <1>3 DEF Resumption, MoveReasons
  <2>2. PassLeft(pc', after') < PassLeft(pc, after)
    BY <1>0, <1>3, <2>1 DEF PassLeft, SaveLeft, MoveReasons
  <2>3. InLoop(pc, after) /\ InLoop(pc', after')
    BY <1>0, <1>3, <2>1 DEF InLoop, Saves, Reasons, EndReasons, MoveReasons
  <2>4. At(pc', after', cur', Mine) = At(pc, after, cur, Mine)
    BY <1>0, <1>3, <2>1 DEF At, Saves, Placed, InPlace, MoveReasons
  <2>5. InPlace(pc', after', cur', Mine)  BY <2>1, <2>3 DEF InPlace, Saves, Placed
  <2>. QED  BY <1>0, <2>2, <2>3, <2>4, <2>5, PassMove
<1>4. CASE after \in {"stage_done", "degraded", "aggregated"}
  <2>1. pc' = IF after = "stage_done" THEN "completed" ELSE IF after = "degraded" THEN "settled" ELSE "gate"
    BY <1>0, <1>4 DEF Resumption
  <2>2. PassLeft(pc', after') < PassLeft(pc, after)
    BY <1>0, <1>4, <2>1 DEF PassLeft, SaveLeft, MoveReasons
  <2>3. InLoop(pc, after) /\ InLoop(pc', after')
    BY <1>0, <1>4, <2>1 DEF InLoop, Saves, Reasons, EndReasons
  <2>4. At(pc', after', cur', Mine) = At(pc, after, cur, Mine)
    BY <1>0, <1>4, <2>1 DEF At, Saves, MoveReasons
  <2>5. InPlace(pc', after', cur', Mine)  BY <1>0, <1>4, <2>1, <2>3 DEF InPlace, Saves, Placed
  <2>. QED  BY <1>0, <2>2, <2>3, <2>4, <2>5, PassMove
<1>. QED  BY <1>1, <1>2, <1>3, <1>4 DEF Reasons, EndReasons, MoveReasons

LEMMA SaveFailTakes == ASSUME Inv, Placed, SaveFails PROVE Below(RunLeft', RunLeft) /\ Placed'
<1>0. pc = "saving" /\ pc' = "saving" /\ after' = "crashed" /\ after \notin {"crashed", "instant"}
      /\ after \in Reasons
  BY DEF SaveFails, Persist, Inv, Control_OK
<1>1. ~InLoop(pc', after')  BY <1>0 DEF InLoop, Saves, EndReasons
<1>2. CASE InLoop(pc, after)  BY <1>0, <1>1, <1>2, LoopOutTakes
<1>3. CASE ~InLoop(pc, after)
  <2>1. after \in {"paused", "failed", "balance"}  BY <1>0, <1>3 DEF InLoop, Saves, EndReasons
  <2>2. PassLeft(pc', after') < PassLeft(pc, after)
    BY <1>0, <2>1 DEF PassLeft, SaveLeft, MoveReasons
  <2>. QED  BY <1>0, <1>1, <1>3, <2>2, OutTakes
<1>. QED  BY <1>2, <1>3

LEMMA EveryStepTakes ==
    ASSUME Inv, Placed, RunnerStep
    PROVE  (Below(RunLeft', RunLeft) \/ SentBack) /\ Placed'
<1>1. \/ Launched \/ Start \/ StartFindsNothing \/ (\E i \in Intents : Classified(i))
      \/ InstantAnswers \/ InstantPublished \/ InstantFails \/ Reviewed \/ Published \/ PublishFails
      \/ Leave \/ RunnerEscapes
      \/ LoopEnds \/ LoopPauses \/ StageExhausted \/ StageOutOfBalance \/ TurnsTerminal \/ AskReview
      \/ (\E v \in Artifacts : Close(v))
      \/ StageStarts
      \/ (\E nxt \in Stages, f \in Complexities : ClarifyDone(nxt, f))
      \/ (\E nxt \in Stages : StageDone(nxt)) \/ ProduceDone
      \/ StageRetries \/ Spoken \/ Announced \/ Saved \/ SaveFails
      \/ Degraded \/ SwitchSubtopic \/ Aggregate \/ Iterate
      \/ AskRoute \/ (\E nxt \in Stages : Decided(nxt) \/ FixedRoute(nxt))
  BY DEF RunnerStep
<1>. QED
  BY <1>1, LaunchTakes, InstantTakes, LeavingTakes, StageStartTakes, StageEndTakes, RetryStepTakes,
     SpokenTakes, AnnouncedTakes, SavedTakes, SaveFailTakes, DegradedTakes, SubtopicTakes, IterateTakes,
     AskRouteTakes, RouteTakes

-----------------------------------------------------------------------------
(* The steps of everybody else: the object they may change or exchange     *)
(* under the task stays at the same stage, subtopic, iteration and retry.  *)

Same(s, t) == /\ s.stage = t.stage /\ s.sub = t.sub /\ s.iter = t.iter /\ s.retry = t.retry
              /\ t.status # "failed" => s.status # "failed"

LEMMA SameKeeps ==
    ASSUME Placed, UNCHANGED <<pc, after, cur>>, InLoop(pc, after) => Same(Mine', Mine),
           pc # "classifying" \/ Same(Mine', Mine)
    PROVE  RunLeft' = RunLeft /\ Placed'
<1>1. RunLeft' = RunLeft
  <2>1. CASE InLoop(pc, after)
    <3>1. Same(Mine', Mine)  BY <2>1
    <3>2. At(pc', after', cur', Mine') = At(pc, after, cur, Mine)  BY <3>1 DEF At, Same
    <3>3. TopicsLeft(At(pc, after, cur, Mine), Mine') = TopicsLeft(At(pc, after, cur, Mine), Mine)
      BY <3>1 DEF TopicsLeft, Same
    <3>. QED  BY <2>1, <3>1, <3>2, <3>3, NextPlace DEF RunLeft, LeftAt, Same
  <2>2. CASE ~InLoop(pc, after)  BY <2>2, NextPlace DEF RunLeft, LeftAt
  <2>. QED  BY <2>1, <2>2
<1>2. InPlace(pc', after', cur', Mine')
  <2>1. CASE InLoop(pc, after) \/ pc = "classifying"
    <3>1. Same(Mine', Mine)  BY <2>1
    <3>. QED  BY <3>1 DEF InPlace, Placed, Same
  <2>2. CASE ~InLoop(pc, after) /\ pc # "classifying"
    BY <2>2 DEF InPlace, InLoop, Saves, EndReasons, Reasons
  <2>. QED  BY <2>1, <2>2
<1>. QED  BY <1>1, <1>2, NextPlace

\* Somebody registers another object: the task works on with the one it has.
LEMMA ReplaceLeaves ==
    ASSUME Inv, Placed, NEW s, Replace(s), UNCHANGED <<pc, after, cur>>
    PROVE  RunLeft' = RunLeft /\ Placed'
<1>1. CASE Holding
  <2>1. Mine # None  BY <1>1 DEF Inv, RunnerHasMeeting
  <2>2. Mine' = Mine  BY <1>1, <2>1 DEF Replace, Mine
  <2>. QED  BY <2>2, SameKeeps DEF Same
<1>2. CASE ~Holding
  <2>1. ~InLoop(pc, after) /\ pc # "classifying"  BY <1>2, LoopHolds DEF Holding
  <2>. QED  BY <2>1, SameKeeps
<1>. QED  BY <1>1, <1>2

\* Somebody changes the registered object, which the task may share.
LEMMA MutateLeaves ==
    ASSUME Inv, Placed, NEW s, Mutate(s), UNCHANGED <<pc, after, cur>>,
           registry.status # "failed" => Same(s, registry)
    PROVE  RunLeft' = RunLeft /\ Placed'
<1>1. CASE InLoop(pc, after) \/ pc = "classifying"
  <2>1. Mine.status # "failed"  BY <1>1 DEF Placed, InPlace
  <2>2. Same(Mine', Mine)  BY <2>1 DEF Mutate, Mine, Same
  <2>. QED  BY <2>2, SameKeeps
<1>2. CASE ~InLoop(pc, after) /\ pc # "classifying"  BY <1>2, SameKeeps
<1>. QED  BY <1>1, <1>2

LEMMA SignalsLeave ==
    ASSUME Inv, Placed, Pause \/ Resume \/ Abort \/ \E n \in Notes : Inject(n)
    PROVE  RunLeft' = RunLeft /\ Placed'
<1>0. registry # None /\ UNCHANGED <<pc, after, cur>> /\ registry \in State
  BY RegisteredSound DEF Pause, Resume, Abort, Inject, Control
<1>1. CASE Pause
  <2>. DEFINE s == [registry EXCEPT !.snap = SnapshotOf(registry), !.status = "paused"]
  <2>1. Same(s, registry)  BY <1>0 DEF Same, State
  <2>. QED  BY <1>0, <1>1, <2>1, MutateLeaves DEF Pause
<1>2. CASE Abort
  <2>. DEFINE s == [registry EXCEPT !.status = "aborted"]
  <2>1. Same(s, registry)  BY <1>0 DEF Same, State
  <2>. QED  BY <1>0, <1>2, <2>1, MutateLeaves DEF Abort
<1>3. ASSUME NEW n \in Notes, Inject(n) PROVE RunLeft' = RunLeft /\ Placed'
  <2>. DEFINE s == [registry EXCEPT !.notes = @ \cup {n}]
  <2>1. Same(s, registry)  BY <1>0 DEF Same, State
  <2>. QED  BY <1>0, <1>3, <2>1, MutateLeaves DEF Inject
<1>4. CASE Resume
  <2>1. CASE Replace(Resumed(registry))  BY <1>0, <2>1, ReplaceLeaves
  <2>2. CASE Mutate(Resumed(registry)) /\ ~(ShouldPause(registry) /\ registry.snap # None)
    <3>1. registry.status # "failed" => Resumed(registry) = [registry EXCEPT !.status = "running"]
      BY <1>4, <2>2 DEF Resume, Resumable, Resumed, ShouldPause
    <3>2. Same([registry EXCEPT !.status = "running"], registry)  BY <1>0 DEF Same, State
    <3>. QED  BY <1>0, <2>2, <3>1, <3>2, MutateLeaves
  <2>. QED  BY <1>4, <2>1, <2>2 DEF Resume
<1>. QED  BY <1>1, <1>2, <1>3, <1>4

LEMMA OthersLeave ==
    ASSUME Inv, Placed, User \/ Storage \/ Memory \/ UNCHANGED vars
    PROVE  /\ Placed'
           /\ pc # "idle" => RunLeft' = RunLeft \/ pc' = "idle"
<1>1. CASE Run \/ Restart
  <2>1. /\ pc' \in {"launching", "idle"} /\ (pc' = "launching" => pc = "idle")
        /\ after' = after \/ pc' = "idle"
    BY <1>1 DEF Run, Restart
  <2>2. Placed'  BY <2>1, NextPlace DEF InPlace, InLoop, Saves
  <2>. QED  BY <2>1, <2>2
<1>2. CASE Pause \/ Resume \/ Abort \/ \E n \in Notes : Inject(n)  BY <1>2, SignalsLeave
<1>3. CASE \/ UNCHANGED vars \/ Storage \/ \E r \in Readers : Miss(r) \/ ReadRow(r)
  <2>1. Mine' = Mine /\ UNCHANGED <<pc, after, cur>>
    BY <1>3 DEF Mine, vars, runnerVars, Storage, ControlSaved, ControlSaveFails, Miss, ReadRow
  <2>. QED  BY <2>1, SameKeeps DEF Same
<1>4. CASE Evict \/ \E r \in Readers : Install(r)
  <2>1. UNCHANGED <<pc, after, cur>>  BY <1>4 DEF Evict, Install
  <2>2. CASE Evict  BY <2>1, <2>2, ReplaceLeaves DEF Evict
  <2>3. ASSUME NEW r \in Readers, Install(r) PROVE RunLeft' = RunLeft /\ Placed'
    BY <2>1, <2>3, ReplaceLeaves DEF Install
  <2>. QED  BY <1>4, <2>2, <2>3
<1>. QED  BY <1>1, <1>2, <1>3, <1>4 DEF User, Memory

\* A run of the background task goes on only as long as its routing sends it back: what
\* is left of it, six natural numbers in lexicographic order, gets less with every step
\* of the task but a routing decision for the same or an earlier stage, and nobody else,
\* whatever is signalled, saved, evicted or reloaded in between, can add to it before
\* the task has ended.  So between two such decisions, and after the last one, a run has
\* finitely many steps, however many stages, retries, iterations and subtopics there are
\* and whatever the route (Runner.run).  How often the routing sends a meeting back
\* StageRouting bounds.
THEOREM RunsComeToAnEnd ==
    Spec => /\ [](\A k \in 1..6 : RunLeft[k] \in Nat)
            /\ [][RunnerStep => Below(RunLeft', RunLeft) \/ SentBack]_vars
            /\ [][pc # "idle" /\ ~RunnerStep => RunLeft' = RunLeft \/ pc' = "idle"]_vars
<1>1. Init => Placed  BY DEF Init, Placed, InPlace, InLoop, Saves
<1>2. Inv /\ Placed /\ [Next]_vars => Placed'
  BY EveryStepTakes, OthersLeave DEF Next
<1>3. Inv => \A k \in 1..6 : RunLeft[k] \in Nat
  <2>. SUFFICES ASSUME Inv PROVE \A k \in 1..6 : RunLeft[k] \in Nat  OBVIOUS
  <2>1. pc \in PCs /\ after \in Reasons /\ cur \in Stages  BY DEF Inv, Control_OK
  <2>2. InLoop(pc, after) => Mine \in State  BY LoopHolds, MineSound
  <2>. QED  BY <2>1, <2>2, LeftIsNatural DEF RunLeft
<1>4. Inv /\ Placed /\ [Next]_vars => [RunnerStep => Below(RunLeft', RunLeft) \/ SentBack]_vars
  BY EveryStepTakes
<1>5. Inv /\ Placed /\ [Next]_vars
         => [pc # "idle" /\ ~RunnerStep => RunLeft' = RunLeft \/ pc' = "idle"]_vars
  BY OthersLeave DEF Next
<1>. QED  BY <1>1, <1>2, <1>3, <1>4, <1>5, Invariance, PTL DEF Spec

===============================================================================
