--------------------------- MODULE Workshop_proofs ---------------------------
(* Theorems about a round of debate and the production of a service, each for *)
(* any values of its constants, and about the bench that runs them beside the *)
(* issues, containers, browser contexts and sockets.                          *)
EXTENDS MCWorkshop, IssueWorkflow_proofs, SandboxServices_proofs, Connections_proofs

(* A round of debate (DebateRound).                                        *)

\* Conclusions one by one, grounded but for the roles that are to speak again; only a
\* moderator that is a member may have several.
Grounded(said, again) ==
    /\ \A c \in said.conclusions : c.batch > 0 /\ c.role \notin again => c \in said.claims
    /\ \A c, d \in said.conclusions : c.role = d.role => c = d \/ c.role = Moderator

\* The moderator speaks for a supplement that names nobody of the team.
StandsIn == targets \cap Members = {} /\ Processed \subseteq {Moderator}

Said == [claims : SUBSET Word(Members), conclusions : SUBSET Word(Members)]

\* What has been written stands, and a supplement writes only for the roles it names.
Writing ==
    /\ unwritten \subseteq Processed
    /\ \A r \in Processed \ unwritten : answers[r] = "spoke" => Claim(r) \in words.claims
    /\ \A r \in DOMAIN answers : answers[r] # Awaited

RoundInv ==
    /\ RoundTypeOK
    /\ words \in Said
    /\ Grounded(words, targets) /\ Grounded(saved.words, saved.targets)
    /\ round = "debated" => targets = {}
    /\ saved.round = "debated" => saved.targets = {}
    /\ round \in {"thinking", "writing"} => answers \in [Planned -> Endings \cup {Awaited}]
    /\ round = "writing" => Writing

-----------------------------------------------------------------------------
\* In a supplement only roles it names are processed, or the moderator in their stead.
LEMMA ProcessedRoles ==
    ASSUME answers \in [Planned -> Endings \cup {Awaited}]
    PROVE  /\ Processed \subseteq Members /\ Processed \subseteq DOMAIN answers
           /\ targets # {} => Processed \subseteq targets \/ StandsIn
<1>1. DOMAIN answers = Planned  OBVIOUS
<1>2. Processed \subseteq Members /\ Processed \subseteq Heard /\ Heard \subseteq DOMAIN answers
  BY DEF Processed, Heard
<1>3. ASSUME targets # {} PROVE Processed \subseteq targets \/ StandsIn
  <2>1. Planned = Members \cap targets \/ (Planned = {Moderator} /\ Members \cap targets = {})
    BY <1>3 DEF Planned
  <2>2. CASE Planned = Members \cap targets  BY <1>1, <1>2, <2>2
  <2>3. CASE Planned = {Moderator} /\ Members \cap targets = {}  BY <1>1, <1>2, <2>3 DEF StandsIn
  <2>. QED  BY <2>1, <2>2, <2>3
<1>. QED  BY <1>2, <1>3

LEMMA PlannedRoles == Planned \subseteq Voices
  BY DEF Planned, Voices

\* A debate that begins satisfies RoundInv.
THEOREM RoundInitInv == RoundInit => RoundInv
<1>. SUFFICES ASSUME RoundInit PROVE RoundInv  OBVIOUS
<1>1. DOMAIN answers = {}  BY DEF RoundInit
<1>2. words \in Said /\ words.claims = {} /\ words.conclusions = {}  BY DEF RoundInit, Said
<1>3. saved = [round |-> "idle", words |-> words, targets |-> {}]  BY DEF RoundInit
<1>4. /\ round = "idle" /\ batch \in 0..MaxBatches /\ targets = {} /\ unwritten = {}
  BY RolesAssumption DEF RoundInit
<1>5. saved \in [round : {"idle", "debated"},
                 words : [claims : SUBSET Word(Members), conclusions : SUBSET Word(Members)],
                 targets : SUBSET (Members \cup Misnamed)]
  BY <1>2, <1>3 DEF Said
<1>6. RoundTypeOK  BY <1>1, <1>2, <1>4, <1>5 DEF RoundTypeOK
<1>. QED  BY <1>2, <1>3, <1>4, <1>6 DEF RoundInv, Grounded

LEMMA PlanKeeps == ASSUME RoundInv, PlanRound PROVE RoundInv'
<1>1. /\ round = "idle" /\ batch' = batch + 1 /\ batch < MaxBatches /\ round' = "thinking"
      /\ answers' = [r \in Planned |-> Awaited] /\ UNCHANGED <<targets, words, unwritten, saved>>
  BY DEF PlanRound
<1>2. Planned' = Planned  BY <1>1 DEF Planned
<1>3. answers' \in [Planned' -> Endings \cup {Awaited}] /\ DOMAIN answers' \subseteq Voices
  BY <1>1, <1>2, PlannedRoles
<1>4. batch' \in 0..MaxBatches  BY <1>1, RolesAssumption DEF RoundInv, RoundTypeOK
<1>5. RoundTypeOK'  BY <1>1, <1>3, <1>4 DEF RoundInv, RoundTypeOK
<1>. QED  BY <1>1, <1>3, <1>5 DEF RoundInv, Grounded

LEMMA AgentKeeps == ASSUME RoundInv, NEW r, NEW how \in Endings, AgentEnds(r, how) PROVE RoundInv'
<1>1. /\ round = "thinking" /\ r \in DOMAIN answers /\ answers' = [answers EXCEPT ![r] = how]
      /\ UNCHANGED <<round, batch, targets, words, unwritten, saved>>
  BY DEF AgentEnds
<1>2. answers \in [Planned -> Endings \cup {Awaited}] /\ Planned' = Planned  BY <1>1 DEF RoundInv, Planned
<1>3. answers' \in [Planned' -> Endings \cup {Awaited}] /\ DOMAIN answers' \subseteq Voices
  BY <1>1, <1>2, PlannedRoles
<1>4. RoundTypeOK'  BY <1>1, <1>3 DEF RoundInv, RoundTypeOK
<1>. QED  BY <1>1, <1>3, <1>4 DEF RoundInv, Grounded

LEMMA ReduceKeeps == ASSUME RoundInv, ReduceBegins PROVE RoundInv'
<1>1. /\ round = "thinking" /\ \A r \in DOMAIN answers : answers[r] # Awaited
      /\ words' = [words EXCEPT !.claims = WithoutTargets(@)]
      /\ unwritten' = Processed /\ round' = "writing"
      /\ UNCHANGED <<batch, targets, answers, saved>>
  BY DEF ReduceBegins
<1>2. /\ words' \in Said /\ words'.conclusions = words.conclusions
      /\ words'.claims = {c \in words.claims : c.role \notin targets}
  BY <1>1 DEF RoundInv, Said, WithoutTargets
<1>3. answers \in [Planned -> Endings \cup {Awaited}] /\ Planned' = Planned /\ Processed' = Processed
  BY <1>1 DEF RoundInv, Planned, Processed, Heard
<1>4. Processed \subseteq Members  BY <1>3, ProcessedRoles
<1>5. RoundTypeOK'  BY <1>1, <1>2, <1>4 DEF RoundInv, RoundTypeOK, Said
<1>6. Writing'  BY <1>1, <1>3 DEF Writing
<1>. QED  BY <1>1, <1>2, <1>3, <1>5, <1>6 DEF RoundInv, Grounded

LEMMA WriteKeeps == ASSUME RoundInv, NEW r, WriteClaims(r) PROVE RoundInv'
<1>1. /\ round = "writing" /\ r \in unwritten /\ unwritten' = unwritten \ {r}
      /\ words' = IF answers[r] = "spoke" THEN [words EXCEPT !.claims = @ \cup {Claim(r)}] ELSE words
      /\ UNCHANGED <<round, batch, targets, answers, saved>>
  BY DEF WriteClaims
<1>2. Claim(r) \in Word(Members)  BY <1>1 DEF Claim, Word, RoundInv, RoundTypeOK
<1>3. /\ words' \in Said /\ words'.conclusions = words.conclusions
      /\ words.claims \subseteq words'.claims
      /\ answers[r] = "spoke" => Claim(r) \in words'.claims
  BY <1>1, <1>2 DEF RoundInv, Said
<1>4. /\ answers \in [Planned -> Endings \cup {Awaited}] /\ Planned' = Planned /\ Processed' = Processed
      /\ \A s : Claim(s)' = Claim(s)
  BY <1>1 DEF RoundInv, Planned, Processed, Heard, Claim
<1>5. RoundTypeOK'  BY <1>1, <1>3 DEF RoundInv, RoundTypeOK, Said
<1>6. Writing'
  <2>1. ASSUME NEW s \in Processed \ unwritten', answers[s] = "spoke" PROVE Claim(s) \in words'.claims
    BY <1>1, <1>3, <2>1 DEF RoundInv, Writing
  <2>. QED  BY <1>1, <1>4, <2>1 DEF RoundInv, Writing
<1>. QED  BY <1>1, <1>3, <1>4, <1>5, <1>6 DEF RoundInv, Grounded

\* The conclusions of a round: those who spoke are grounded in what has been written.
LEMMA NewConclusions ==
    ASSUME RoundInv, Conclude
    PROVE  LET new == {Conclusion(r, answers[r]) : r \in Processed}
           IN  /\ new \subseteq Word(Members) /\ Processed \subseteq Members
               /\ \A c \in new : c.role \in Processed /\ (c.batch > 0 => c \in words.claims)
               /\ \A c, d \in new : c.role = d.role => c = d
               /\ targets # {} => Processed \subseteq targets \/ StandsIn
<1>. DEFINE new == {Conclusion(r, answers[r]) : r \in Processed}
<1>1. /\ answers \in [Planned -> Endings \cup {Awaited}] /\ unwritten = {} /\ Writing
  BY DEF Conclude, RoundInv
<1>2. Processed \subseteq Members /\ (targets # {} => Processed \subseteq targets \/ StandsIn)
  BY <1>1, ProcessedRoles
<1>3. ASSUME NEW r \in Processed
      PROVE  /\ Conclusion(r, answers[r]) \in Word(Members) /\ Conclusion(r, answers[r]).role = r
             /\ Conclusion(r, answers[r]).batch > 0 => Conclusion(r, answers[r]) \in words.claims
  <2>1. Conclusion(r, answers[r]) \in Word(Members)
    BY <1>2, RolesAssumption DEF Conclusion, Word, RoundInv, RoundTypeOK
  <2>2. CASE answers[r] = "spoke"
    <3>1. Conclusion(r, answers[r]) = Claim(r)  BY <2>2 DEF Conclusion, Claim
    <3>2. Claim(r) \in words.claims  BY <1>1, <2>2 DEF Writing
    <3>. QED  BY <2>1, <3>1, <3>2 DEF Claim
  <2>3. CASE answers[r] # "spoke"  BY <2>1, <2>3 DEF Conclusion
  <2>. QED  BY <2>1, <2>2, <2>3
<1>4. ASSUME NEW c \in new PROVE \E r \in Processed : c = Conclusion(r, answers[r])  OBVIOUS
<1>. HIDE DEF new
<1>5. new \subseteq Word(Members)  BY <1>3, <1>4
<1>6. \A c \in new : c.role \in Processed /\ (c.batch > 0 => c \in words.claims)  BY <1>3, <1>4
<1>7. \A c, d \in new : c.role = d.role => c = d  BY <1>3, <1>4
<1>. QED  BY <1>2, <1>5, <1>6, <1>7 DEF new

LEMMA ConcludeKeeps == ASSUME RoundInv, Conclude PROVE RoundInv'
<1>. DEFINE new == {Conclusion(r, answers[r]) : r \in Processed}
            old == {c \in words.conclusions : c.role \notin targets}
<1>1. /\ round = "writing" /\ unwritten = {} /\ targets' = {} /\ round' = "debated"
      /\ words' = [words EXCEPT !.conclusions = new \cup IF targets = {} THEN {} ELSE old]
      /\ UNCHANGED <<batch, answers, unwritten, saved>>
  BY DEF Conclude, WithoutTargets
<1>2. /\ new \subseteq Word(Members) /\ Processed \subseteq Members
      /\ \A c \in new : c.role \in Processed /\ (c.batch > 0 => c \in words.claims)
      /\ \A c, d \in new : c.role = d.role => c = d
      /\ targets # {} => Processed \subseteq targets \/ Processed \subseteq {Moderator}
  BY NewConclusions DEF StandsIn
<1>. HIDE DEF new
<1>3. words \in Said /\ Grounded(words, targets)  BY DEF RoundInv
<1>4. /\ words' \in Said /\ words'.claims = words.claims
      /\ \A c \in words'.conclusions : c \in new \/ (targets # {} /\ c \in words.conclusions /\ c.role \notin targets)
  BY <1>1, <1>2, <1>3 DEF Said
<1>5. Grounded(words, targets)'
  <2>1. ASSUME NEW c \in words'.conclusions, c.batch > 0 PROVE c \in words'.claims
    BY <1>2, <1>3, <1>4, <2>1 DEF Grounded
  <2>2. ASSUME NEW c \in words'.conclusions, NEW d \in words'.conclusions, c.role = d.role
        PROVE  c = d \/ c.role = Moderator
    <3>1. CASE c \in new /\ d \in new  BY <1>2, <2>2, <3>1
    <3>2. CASE c \in words.conclusions /\ d \in words.conclusions  BY <1>3, <2>2, <3>2 DEF Grounded
    <3>3. CASE /\ c \in new \/ d \in new
               /\ targets # {} /\ c.role \notin targets
      BY <1>2, <2>2, <3>3
    <3>. QED  BY <1>4, <2>2, <3>1, <3>2, <3>3
  <2>. QED  BY <2>1, <2>2 DEF Grounded
<1>6. RoundTypeOK'  BY <1>1, <1>4 DEF RoundInv, RoundTypeOK, Said
<1>. QED  BY <1>1, <1>4, <1>5, <1>6 DEF RoundInv, Grounded

LEMMA BackKeeps ==
    ASSUME RoundInv, NEW roles \in SUBSET (Members \cup Misnamed), BackToRound(roles) PROVE RoundInv'
<1>1. /\ round = "debated" /\ targets' = roles /\ round' = "idle" /\ DOMAIN answers' = {}
      /\ UNCHANGED <<batch, words, unwritten, saved>>
  BY DEF BackToRound
<1>2. RoundTypeOK'  BY <1>1 DEF RoundInv, RoundTypeOK
<1>3. Grounded(words, targets)'  BY <1>1 DEF RoundInv, Grounded
<1>. QED  BY <1>1, <1>2, <1>3 DEF RoundInv, Grounded

LEMMA SaveKeeps == ASSUME RoundInv, SaveRound PROVE RoundInv'
<1>. DEFINE kept == IF round = "debated" THEN round ELSE "idle"
<1>1. /\ saved' = [round |-> kept, words |-> words, targets |-> targets]
      /\ UNCHANGED <<round, batch, targets, answers, words, unwritten>>
  BY DEF SaveRound
<1>2. kept \in {"idle", "debated"} /\ (kept = "debated" => targets = {})  BY DEF RoundInv
<1>. HIDE DEF kept
<1>3. saved' \in [round : {"idle", "debated"},
                  words : [claims : SUBSET Word(Members), conclusions : SUBSET Word(Members)],
                  targets : SUBSET (Members \cup Misnamed)]
  BY <1>1, <1>2 DEF RoundInv, RoundTypeOK, Said
<1>4. RoundTypeOK'  BY <1>1, <1>3 DEF RoundInv, RoundTypeOK
<1>5. Writing' <=> Writing
  BY <1>1 DEF Writing, Processed, Heard, Claim
<1>6. Planned' = Planned  BY <1>1 DEF Planned
<1>7. Grounded(saved.words, saved.targets)'  BY <1>1 DEF RoundInv, Grounded
<1>8. Grounded(words, targets)'  BY <1>1 DEF RoundInv, Grounded
<1>. QED  BY <1>1, <1>2, <1>4, <1>5, <1>6, <1>7, <1>8 DEF RoundInv

LEMMA RestartKeeps == ASSUME RoundInv, RestartRound PROVE RoundInv'
<1>1. /\ round' = saved.round /\ words' = saved.words /\ targets' = saved.targets
      /\ DOMAIN answers' = {} /\ unwritten' = {} /\ UNCHANGED <<batch, saved>>
  BY DEF RestartRound
<1>2. saved.round \in {"idle", "debated"} /\ saved.words \in Said /\ saved.targets \subseteq Members \cup Misnamed
  BY DEF RoundInv, RoundTypeOK, Said
<1>3. RoundTypeOK'  BY <1>1, <1>2 DEF RoundInv, RoundTypeOK, Said
<1>. QED  BY <1>1, <1>2, <1>3 DEF RoundInv, Grounded

\* RoundInv is kept by speakers, their failures, supplements and restarts.
THEOREM RoundNextInv == RoundInv /\ [RoundNext]_roundVars => RoundInv'
<1>. SUFFICES ASSUME RoundInv, [RoundNext]_roundVars PROVE RoundInv'  OBVIOUS
<1>1. CASE PlanRound  BY <1>1, PlanKeeps
<1>2. CASE ReduceBegins  BY <1>2, ReduceKeeps
<1>3. CASE Conclude  BY <1>3, ConcludeKeeps
<1>4. CASE SaveRound  BY <1>4, SaveKeeps
<1>5. CASE RestartRound  BY <1>5, RestartKeeps
<1>6. ASSUME NEW r \in Voices, WriteClaims(r) PROVE RoundInv'  BY <1>6, WriteKeeps
<1>7. ASSUME NEW r \in Voices, NEW how \in Endings, AgentEnds(r, how) PROVE RoundInv'  BY <1>7, AgentKeeps
<1>8. ASSUME NEW roles \in SUBSET (Members \cup Misnamed), BackToRound(roles) PROVE RoundInv'
  BY <1>8, BackKeeps
<1>9. CASE UNCHANGED roundVars
  BY <1>9 DEF roundVars, RoundInv, RoundTypeOK, Grounded, Writing, Processed, Planned, Heard, Claim
<1>. QED  BY <1>1, <1>2, <1>3, <1>4, <1>5, <1>6, <1>7, <1>8, <1>9 DEF RoundNext

\* RoundInv holds of every behaviour of the debate (stage_runners.py).
THEOREM RoundInvariant == RoundSpec => []RoundInv
<1>. QED  BY RoundInitInv, RoundNextInv, PTL DEF RoundSpec

\* Every variable of the round keeps its type, for any team and any number of rounds.
THEOREM RoundTypes == RoundSpec => []RoundTypeOK
<1>1. RoundInv => RoundTypeOK  BY DEF RoundInv
<1>. QED  BY <1>1, RoundInvariant, PTL

\* Every conclusion of a round that is over is grounded, restarts and lost agents included.
THEOREM ConclusionsStayGrounded == RoundSpec => []ConclusionsAreGrounded
<1>1. RoundInv => ConclusionsAreGrounded  BY DEF RoundInv, Grounded, ConclusionsAreGrounded
<1>. QED  BY <1>1, RoundInvariant, PTL

LEMMA SupplementStep ==
    ASSUME RoundInv, [RoundNext]_roundVars, targets # {}, ~RestartRound, NEW r \in Members \ targets
    PROVE  /\ WordsKept(r)
           /\ (r = Moderator /\ targets \cap Members = {}) \/ WordsSame(r)
<1>1. CASE UNCHANGED words  BY <1>1 DEF WordsKept, WordsSame
<1>2. CASE ReduceBegins
  <2>1. /\ words'.conclusions = words.conclusions
        /\ words'.claims = {c \in words.claims : c.role \notin targets}
    BY <1>2 DEF ReduceBegins, WithoutTargets, RoundInv, Said
  <2>. QED  BY <2>1 DEF Of, WordsKept, WordsSame
<1>3. ASSUME NEW s, WriteClaims(s)
      PROVE  /\ WordsKept(r)
             /\ (r = Moderator /\ targets \cap Members = {}) \/ WordsSame(r)
  <2>1. s \in targets \/ (s = Moderator /\ targets \cap Members = {})
    <3>1. s \in Processed /\ answers \in [Planned -> Endings \cup {Awaited}]
      BY <1>3 DEF WriteClaims, RoundInv, Writing
    <3>. QED  BY <3>1, ProcessedRoles DEF StandsIn
  <2>2. words'.conclusions = words.conclusions /\ words'.claims \in {words.claims, words.claims \cup {Claim(s)}}
    BY <1>3 DEF WriteClaims, RoundInv, Said
  <2>3. Claim(s).role = s  BY DEF Claim
  <2>4. Of(words.claims, r) \subseteq Of(words'.claims, r)  BY <2>2 DEF Of
  <2>5. CASE s # r  BY <2>2, <2>3, <2>5 DEF Of, WordsKept, WordsSame
  <2>6. CASE s = r  BY <2>1, <2>2, <2>4, <2>6 DEF WordsKept
  <2>. QED  BY <2>5, <2>6
<1>4. CASE Conclude
  <2>. DEFINE new == {Conclusion(s, answers[s]) : s \in Processed}
              old == {c \in words.conclusions : c.role \notin targets}
  <2>1. words'.claims = words.claims /\ words'.conclusions = new \cup old
    BY <1>4 DEF Conclude, WithoutTargets, RoundInv, Said
  <2>2. \A c \in new : c.role \in targets \/ (c.role = Moderator /\ targets \cap Members = {})
    BY <1>4, NewConclusions DEF StandsIn
  <2>. HIDE DEF new
  <2>3. Of(words.conclusions, r) \subseteq Of(words'.conclusions, r) /\ Of(words'.claims, r) = Of(words.claims, r)
    BY <2>1 DEF Of
  <2>4. CASE r = Moderator /\ targets \cap Members = {}  BY <2>3, <2>4 DEF WordsKept
  <2>5. CASE ~(r = Moderator /\ targets \cap Members = {})
    BY <2>1, <2>2, <2>3, <2>5 DEF Of, WordsKept, WordsSame
  <2>. QED  BY <2>4, <2>5
<1>. QED
  BY <1>1, <1>2, <1>3, <1>4 DEF RoundNext, PlanRound, SaveRound, AgentEnds, BackToRound, roundVars

\* No step of a supplement but a restart touches what roles it does not name have said,
\* unless it is the moderator that speaks where it names nobody of the team.
THEOREM OthersKeepTheirWords == RoundSpec => SupplementSparesOthers
<1>1. ASSUME RoundInv, [RoundNext]_roundVars
      PROVE  targets # {} /\ ~RestartRound =>
               \A r \in Members \ targets :
                   /\ WordsKept(r)
                   /\ (r = Moderator /\ targets \cap Members = {}) \/ WordsSame(r)
  BY <1>1, SupplementStep
<1>. QED  BY <1>1, RoundInvariant, PTL DEF RoundSpec, SupplementSparesOthers

-----------------------------------------------------------------------------
(* The production of a service (ServiceProduction).                        *)

\* What is known of an iteration from the step after its files were written on.
Written ==
    making \in {"scan", "deploy", "test", "report"} =>
        /\ \A f \in Writable(effective) :
              f \in DOMAIN workspace /\ (workspace[f] = effective[f] \/ (f \in Amended /\ workspace[f] = "mended"))
        /\ checks.review => ~Has(effective, "broken")

\* What the scan has left in the checks.
ScannedOK ==
    making \in {"deploy", "test", "report"} =>
        /\ checks.scan \in {"clean", "critical", "skipped"}
        /\ checks.scan = "clean" => ~Has(workspace, "flawed")
        /\ checks.scan = "critical" => ~checks.review

\* What is served is what is on the disk, once it is deployed.
Deployed == /\ making \in {"write", "scan", "deploy"} => ~checks.deployed
            /\ making \in {"test", "report"} /\ checks.deployed => served = workspace

ProductionInv ==
    /\ ProductionTypeOK /\ Written /\ ScannedOK /\ Deployed /\ SuccessIsServedClean
    /\ execution = "success" => making \in {"judge", "generate", "over"}

LEMMA EmptyTree == NoFiles \in Trees /\ NoFiles \in Disks
<1>1. <<>> \in [{} -> Content] /\ <<>> \in [{} -> OnDisk]  OBVIOUS
<1>. QED  BY <1>1 DEF NoFiles, Trees, Disks

\* Files of the tree written over a disk make a disk that has them.
LEMMA Overwritten ==
    ASSUME effective \in Trees, workspace \in Disks, NEW some \in SUBSET Writable(effective)
    PROVE  /\ WithWritten(some) \in Disks
           /\ \A f \in some : f \in DOMAIN WithWritten(some) /\ WithWritten(some)[f] = effective[f]
<1>1. PICK S \in SUBSET Files : effective \in [S -> Content]  BY DEF Trees
<1>2. PICK R \in SUBSET Files : workspace \in [R -> OnDisk]  BY DEF Disks
<1>3. some \subseteq S /\ Content \subseteq OnDisk  BY <1>1 DEF Writable, OnDisk
<1>. DEFINE disk == WithWritten(some)
<1>4. disk = [f \in some \cup R |-> IF f \in some THEN effective[f] ELSE workspace[f]]
  BY <1>2 DEF WithWritten, Over
<1>5. disk \in [some \cup R -> OnDisk] /\ \A f \in some : f \in DOMAIN disk /\ disk[f] = effective[f]
  BY <1>1, <1>2, <1>3, <1>4
<1>6. some \cup R \in SUBSET Files  BY <1>3
<1>. QED  BY <1>5, <1>6 DEF Disks

\* Mending a disk keeps every file that it does not touch.
LEMMA MendedDisk ==
    ASSUME NEW disk \in Disks, NEW touched \in SUBSET Files, NEW made \in SUBSET Files
    PROVE  /\ touched \subseteq DOMAIN disk => Mended(disk, touched, made) \in Disks
           /\ \A f \in DOMAIN disk :
                 /\ f \in DOMAIN Mended(disk, touched, made)
                 /\ Mended(disk, touched, made)[f] = IF f \in touched THEN "mended" ELSE disk[f]
<1>1. PICK R \in SUBSET Files : disk \in [R -> OnDisk]  BY DEF Disks
<1>. DEFINE new == Mended(disk, touched, made)
<1>2. DOMAIN new = R \cup made  BY <1>1 DEF Mended
<1>3. ASSUME NEW f \in R PROVE new[f] = IF f \in touched THEN "mended" ELSE disk[f]
  BY <1>1 DEF Mended
<1>4. ASSUME NEW f \in R \cup made, touched \subseteq R PROVE new[f] \in OnDisk
  <2>1. CASE f \in R  BY <1>1, <1>3, <2>1 DEF OnDisk
  <2>2. CASE f \notin R  BY <1>1, <1>4, <2>2 DEF Mended, OnDisk, Content
  <2>. QED  BY <2>1, <2>2
<1>5. new = [f \in R \cup made |-> new[f]]  BY <1>1 DEF Mended
<1>. HIDE DEF new
<1>6. touched \subseteq R => new \in [R \cup made -> OnDisk]  BY <1>4, <1>5
<1>7. R \cup made \in SUBSET Files  OBVIOUS
<1>8. \A f \in R : f \in DOMAIN new /\ new[f] = IF f \in touched THEN "mended" ELSE disk[f]
  BY <1>2, <1>3
<1>9. DOMAIN disk = R  BY <1>1
<1>. QED  BY <1>6, <1>7, <1>8, <1>9 DEF Disks, new

CheckTypes == [review : BOOLEAN, scan : {"none", "clean", "critical", "skipped"},
               deployed : BOOLEAN, tests : {"none", "passed", "failed", "raised"}]

\* A production that begins satisfies ProductionInv.
THEOREM ProductionInitInv == ProductionInit => ProductionInv
<1>. SUFFICES ASSUME ProductionInit PROVE ProductionInv  OBVIOUS
<1>1. checks \in CheckTypes  BY DEF ProductionInit, Unchecked, CheckTypes
<1>2. ProductionTypeOK
  BY <1>1, EmptyTree, IterationsAssumption DEF ProductionInit, ProductionTypeOK, CheckTypes
<1>. QED  BY <1>2 DEF ProductionInit, ProductionInv, Written, ScannedOK, Deployed, SuccessIsServedClean

LEMMA GenerateKeeps == ASSUME ProductionInv, NEW files \in Trees, Generate(files) PROVE ProductionInv'
<1>1. /\ effective' = files /\ checks' = Unchecked /\ execution' = "none" /\ making' \in {"judge", "write"}
      /\ UNCHANGED <<workspace, served, iteration>>
  BY DEF Generate
<1>2. checks' \in CheckTypes /\ ~checks'.deployed  BY <1>1 DEF Unchecked, CheckTypes
<1>3. ProductionTypeOK'  BY <1>1, <1>2 DEF ProductionInv, ProductionTypeOK, CheckTypes
<1>. QED  BY <1>1, <1>2, <1>3 DEF ProductionInv, Written, ScannedOK, Deployed, SuccessIsServedClean

LEMMA WriteFilesKeeps == ASSUME ProductionInv, WriteFiles PROVE ProductionInv'
<1>. DEFINE disk == WithWritten(Writable(effective))
<1>1. /\ making = "write" /\ making' = "scan"
      /\ checks' = [checks EXCEPT !.review = ~Has(effective, "broken")]
      /\ UNCHANGED <<effective, served, execution, iteration>>
  BY DEF WriteFiles
<1>2. /\ workspace' \in Disks
      /\ \A f \in Writable(effective) :
            f \in DOMAIN workspace' /\ (workspace'[f] = effective[f] \/ (f \in Amended /\ workspace'[f] = "mended"))
  <2>1. PICK touched, made \in SUBSET Files :
          /\ touched \subseteq {f \in Amended \cap DOMAIN disk : disk[f] = "sound"}
          /\ workspace' = Mended(disk, touched, made)
    BY DEF WriteFiles
  <2>2. /\ disk \in Disks
        /\ \A f \in Writable(effective) : f \in DOMAIN disk /\ disk[f] = effective[f]
    BY Overwritten DEF ProductionInv, ProductionTypeOK
  <2>. HIDE DEF disk
  <2>3. touched \subseteq DOMAIN disk /\ touched \subseteq Amended  BY <2>1
  <2>4. /\ touched \subseteq DOMAIN disk => Mended(disk, touched, made) \in Disks
        /\ \A f \in DOMAIN disk :
              /\ f \in DOMAIN Mended(disk, touched, made)
              /\ Mended(disk, touched, made)[f] = IF f \in touched THEN "mended" ELSE disk[f]
    BY <2>2, MendedDisk
  <2>. QED  BY <2>1, <2>2, <2>3, <2>4
<1>3. /\ checks' \in CheckTypes /\ checks'.deployed = checks.deployed
      /\ checks'.review = ~Has(effective, "broken")
  BY <1>1 DEF ProductionInv, ProductionTypeOK, CheckTypes, Has
<1>4. ProductionTypeOK'  BY <1>1, <1>2, <1>3 DEF ProductionInv, ProductionTypeOK, CheckTypes
<1>5. Writable(effective)' = Writable(effective)  BY <1>1 DEF Writable
<1>6. Written'  BY <1>1, <1>2, <1>3, <1>5 DEF Written, Has
<1>. QED  BY <1>1, <1>3, <1>4, <1>6 DEF ProductionInv, ScannedOK, Deployed, SuccessIsServedClean

LEMMA WriteRaisesKeeps == ASSUME ProductionInv, WriteRaises PROVE ProductionInv'
<1>1. /\ making = "write" /\ making' \in {"generate", "over"} /\ execution # "success"
      /\ UNCHANGED <<effective, served, checks, execution, iteration>>
  BY DEF WriteRaises, ProductionInv
<1>2. PICK some \in SUBSET Writable(effective) : workspace' = WithWritten(some)  BY DEF WriteRaises
<1>3. workspace' \in Disks  BY <1>2, Overwritten DEF ProductionInv, ProductionTypeOK
<1>4. ProductionTypeOK'  BY <1>1, <1>3 DEF ProductionInv, ProductionTypeOK
<1>. QED  BY <1>1, <1>4 DEF ProductionInv, Written, ScannedOK, Deployed, SuccessIsServedClean

LEMMA ScanKeeps == ASSUME ProductionInv, ScanFiles \/ ScanRaises PROVE ProductionInv'
<1>1. /\ making = "scan" /\ making' = "deploy"
      /\ UNCHANGED <<effective, workspace, served, execution, iteration>>
  BY DEF ScanFiles, ScanRaises
<1>2. /\ checks' \in CheckTypes /\ checks'.deployed = checks.deployed
      /\ checks'.review => checks.review
      /\ checks'.scan \in {"clean", "critical", "skipped"}
      /\ checks'.scan = "clean" => ~Has(workspace, "flawed")
      /\ checks'.scan = "critical" => ~checks'.review
  <2>1. checks \in CheckTypes  BY DEF ProductionInv, ProductionTypeOK, CheckTypes
  <2>2. CASE ScanRaises  BY <2>1, <2>2 DEF ScanRaises, CheckTypes
  <2>3. CASE ScanFiles /\ Has(workspace, "flawed")  BY <2>1, <2>3 DEF ScanFiles, Scanned, CheckTypes
  <2>4. CASE ScanFiles /\ ~Has(workspace, "flawed")  BY <2>1, <2>4 DEF ScanFiles, Scanned, CheckTypes
  <2>. QED  BY <2>2, <2>3, <2>4
<1>3. ProductionTypeOK'  BY <1>1, <1>2 DEF ProductionInv, ProductionTypeOK, CheckTypes
<1>4. Written'  BY <1>1, <1>2 DEF ProductionInv, Written, Has, Writable
<1>5. ScannedOK'  BY <1>1, <1>2 DEF ScannedOK, Has
<1>. QED  BY <1>1, <1>2, <1>3, <1>4, <1>5 DEF ProductionInv, Deployed, SuccessIsServedClean

LEMMA DeployKeeps == ASSUME ProductionInv, DeployFiles \/ DeployFails PROVE ProductionInv'
<1>1. /\ making = "deploy" /\ execution # "success"
      /\ UNCHANGED <<effective, workspace, execution, iteration>>
  BY DEF DeployFiles, DeployFails, ProductionInv
<1>2. /\ checks' \in CheckTypes /\ checks'.review = checks.review /\ checks'.scan = checks.scan
      /\ making' \in {"test", "report"} /\ served' \in Disks
      /\ checks'.deployed => served' = workspace'
  <2>1. checks \in CheckTypes /\ ~checks.deployed
    BY <1>1 DEF ProductionInv, ProductionTypeOK, CheckTypes, Deployed
  <2>2. CASE DeployFiles  BY <1>1, <2>1, <2>2 DEF DeployFiles, CheckTypes, ProductionInv, ProductionTypeOK
  <2>3. CASE DeployFails
    BY <1>1, <2>1, <2>3, EmptyTree DEF DeployFails, ProductionInv, ProductionTypeOK
  <2>. QED  BY <2>2, <2>3
<1>3. ProductionTypeOK'  BY <1>1, <1>2 DEF ProductionInv, ProductionTypeOK, CheckTypes
<1>4. Written'  BY <1>1, <1>2 DEF ProductionInv, Written, Has, Writable
<1>5. ScannedOK'  BY <1>1, <1>2 DEF ProductionInv, ScannedOK, Has
<1>. QED  BY <1>1, <1>2, <1>3, <1>4, <1>5 DEF ProductionInv, Deployed, SuccessIsServedClean

LEMMA TestKeeps ==
    ASSUME ProductionInv, NEW outcome \in {"none", "passed", "failed", "raised"}, TestFiles(outcome)
    PROVE  ProductionInv'
<1>1. /\ making = "test" /\ making' = "report" /\ execution # "success"
      /\ UNCHANGED <<effective, workspace, served, execution, iteration>>
  BY DEF TestFiles, ProductionInv
<1>2. /\ checks' \in CheckTypes /\ checks'.review = checks.review /\ checks'.scan = checks.scan
      /\ checks'.deployed = checks.deployed
  BY DEF TestFiles, ProductionInv, ProductionTypeOK, CheckTypes
<1>3. ProductionTypeOK'  BY <1>1, <1>2 DEF ProductionInv, ProductionTypeOK, CheckTypes
<1>4. Written'  BY <1>1, <1>2 DEF ProductionInv, Written, Has, Writable
<1>5. ScannedOK'  BY <1>1, <1>2 DEF ProductionInv, ScannedOK, Has
<1>. QED  BY <1>1, <1>2, <1>3, <1>4, <1>5 DEF ProductionInv, Deployed, SuccessIsServedClean

LEMMA ReportKeeps == ASSUME ProductionInv, ReportProduction PROVE ProductionInv'
<1>1. /\ making = "report" /\ making' = "judge"
      /\ execution' = IF checks.deployed /\ checks.review /\ checks.tests # "failed" THEN "success" ELSE "failure"
      /\ UNCHANGED <<effective, workspace, served, checks, iteration>>
  BY DEF ReportProduction
<1>2. ProductionTypeOK'  BY <1>1 DEF ProductionInv, ProductionTypeOK
<1>3. SuccessIsServedClean'
  <2>. SUFFICES ASSUME execution' = "success" PROVE SuccessIsServedClean'  BY DEF SuccessIsServedClean
  <2>1. checks.deployed /\ checks.review  BY <1>1
  <2>2. /\ served = workspace /\ ~Has(effective, "broken")
        /\ \A f \in Writable(effective) :
              f \in DOMAIN workspace /\ (workspace[f] = effective[f] \/ (f \in Amended /\ workspace[f] = "mended"))
    BY <1>1, <2>1 DEF ProductionInv, Deployed, Written
  <2>3. checks.scan # "skipped" => ~Has(workspace, "flawed")
    BY <1>1, <2>1 DEF ProductionInv, ScannedOK
  <2>. QED  BY <1>1, <2>2, <2>3 DEF SuccessIsServedClean, Has, Writable
<1>. QED  BY <1>1, <1>2, <1>3 DEF ProductionInv, Written, ScannedOK, Deployed

LEMMA JudgeKeeps == ASSUME ProductionInv, IterateProduction \/ AcceptProduction PROVE ProductionInv'
<1>1. /\ making = "judge" /\ making' \in {"generate", "over"} /\ iteration' \in 0..MaxIterations
      /\ UNCHANGED <<effective, workspace, served, checks, execution>>
  BY IterationsAssumption DEF IterateProduction, AcceptProduction, ProductionInv, ProductionTypeOK
<1>2. ProductionTypeOK'  BY <1>1 DEF ProductionInv, ProductionTypeOK
<1>3. SuccessIsServedClean'  BY <1>1 DEF ProductionInv, SuccessIsServedClean, Has, Writable
<1>. QED  BY <1>1, <1>2, <1>3 DEF ProductionInv, Written, ScannedOK, Deployed

\* ProductionInv is kept by every phase of an iteration.
THEOREM ProductionNextInv == ProductionInv /\ [ProductionNext]_productionVars => ProductionInv'
<1>. SUFFICES ASSUME ProductionInv, [ProductionNext]_productionVars PROVE ProductionInv'  OBVIOUS
<1>1. ASSUME NEW files \in Trees, Generate(files) PROVE ProductionInv'  BY <1>1, GenerateKeeps
<1>2. CASE WriteFiles \/ WriteRaises  BY <1>2, WriteFilesKeeps, WriteRaisesKeeps
<1>3. CASE ScanFiles \/ ScanRaises  BY <1>3, ScanKeeps
<1>4. CASE DeployFiles \/ DeployFails  BY <1>4, DeployKeeps
<1>5. ASSUME NEW outcome \in {"none", "passed", "failed", "raised"}, TestFiles(outcome) PROVE ProductionInv'
  BY <1>5, TestKeeps
<1>6. CASE ReportProduction  BY <1>6, ReportKeeps
<1>7. CASE IterateProduction \/ AcceptProduction  BY <1>7, JudgeKeeps
<1>8. CASE UNCHANGED productionVars
  BY <1>8 DEF productionVars, ProductionInv, ProductionTypeOK, Written, ScannedOK, Deployed,
              SuccessIsServedClean, Has, Writable
<1>. QED  BY <1>1, <1>2, <1>3, <1>4, <1>5, <1>6, <1>7, <1>8 DEF ProductionNext

\* ProductionInv holds of every behaviour of produce_node (nodes/produce.py).
THEOREM ProductionInvariant == ProductionSpec => []ProductionInv
<1>. QED  BY ProductionInitInv, ProductionNextInv, PTL DEF ProductionSpec

\* Every variable of a production keeps its type, for any files and number of iterations.
THEOREM ProductionTypes == ProductionSpec => []ProductionTypeOK
<1>1. ProductionInv => ProductionTypeOK  BY DEF ProductionInv
<1>. QED  BY <1>1, ProductionInvariant, PTL

\* A reported success runs the files with a text of its own iteration, as generated or as
\* mended, and nothing flawed among what earlier ones have left on the disk.
THEOREM SuccessRunsItsFiles == ProductionSpec => []SuccessIsServedClean
<1>1. ProductionInv => SuccessIsServedClean  BY DEF ProductionInv
<1>. QED  BY <1>1, ProductionInvariant, PTL

-----------------------------------------------------------------------------
(* The bench: it runs one part at a time, and that part runs as it would   *)
(* by itself.                                                              *)

LEMMA BenchSteps ==
    [MCNext]_mcVars => /\ [IssueNext]_issueVars /\ [SvcNext]_svcVars /\ [RoundNext]_roundVars
                       /\ [ProductionNext]_productionVars /\ [PoolNext]_poolVars /\ [WsNext]_wsVars
<1>. SUFFICES ASSUME [MCNext]_mcVars
              PROVE  /\ [IssueNext]_issueVars /\ [SvcNext]_svcVars /\ [RoundNext]_roundVars
                     /\ [ProductionNext]_productionVars /\ [PoolNext]_poolVars /\ [WsNext]_wsVars
  OBVIOUS
<1>1. CASE IssueNext /\ Others("issues", <<svcVars, roundVars, productionVars, poolVars, wsVars>>)
  BY <1>1 DEF Others
<1>2. CASE SvcNext /\ Others("services", <<issueVars, roundVars, productionVars, poolVars, wsVars>>)
  BY <1>2 DEF Others
<1>3. CASE RoundNext /\ Others("round", <<issueVars, svcVars, productionVars, poolVars, wsVars>>)
  BY <1>3 DEF Others
<1>4. CASE ProductionNext /\ Others("production", <<issueVars, svcVars, roundVars, poolVars, wsVars>>)
  BY <1>4 DEF Others
<1>5. CASE PoolNext /\ Others("pool", <<issueVars, svcVars, roundVars, productionVars, wsVars>>)
  BY <1>5 DEF Others
<1>6. CASE WsNext /\ Others("sockets", <<issueVars, svcVars, roundVars, productionVars, poolVars>>)
  BY <1>6 DEF Others
<1>7. CASE UNCHANGED mcVars  BY <1>7 DEF mcVars
<1>. QED  BY <1>1, <1>2, <1>3, <1>4, <1>5, <1>6, <1>7 DEF MCNext

\* Every behaviour of the bench is one of each part: what is proved of a part holds on it.
THEOREM BenchRunsItsParts ==
    MCSpec => IssueSpec /\ SvcSpec /\ RoundSpec /\ ProductionSpec /\ PoolSpec /\ WsSpec
<1>1. MCInit => IssueInit /\ SvcInit /\ RoundInit /\ ProductionInit /\ PoolInit /\ WsInit
  BY DEF MCInit
<1>. QED
  BY <1>1, BenchSteps, PTL DEF MCSpec, IssueSpec, SvcSpec, RoundSpec, ProductionSpec, PoolSpec, WsSpec

\* Every variable of the part that moves keeps its type.
THEOREM WorkshopTypes == MCSpec => []WorkshopTypeOK
<1>. DEFINE Parts == {"issues", "services", "round", "production", "pool", "sockets"}
<1>1. MCInit => active \in Parts  BY DEF MCInit
<1>2. active \in Parts /\ [MCNext]_mcVars => (active \in Parts)'
  BY DEF MCNext, Others, mcVars
<1>3. /\ active \in Parts
      /\ IssueTypeOK /\ SvcTypeOK /\ RoundTypeOK /\ ProductionTypeOK /\ PoolTypeOK /\ WsTypeOK
      => WorkshopTypeOK
  BY DEF WorkshopTypeOK
<1>. QED
  BY <1>1, <1>2, <1>3, BenchRunsItsParts, IssueTypes, SvcTypes, RoundTypes, ProductionTypes, PoolTypes,
     WsTypes, PTL DEF MCSpec

=============================================================================
