------------------------ MODULE IssueWorkflow_proofs ------------------------
EXTENDS IssueWorkflow, TLAPS

BegunRuns == {"bound", "running", "publishing", "over"}
Runs      == {"new", "saved", "bound", "running", "publishing", "over"}
Stops     == {"no", "aborting", "aborted", "deleting", "released", "gone"}

IssueRow   == [status : IssueStatuses \cup {"deleted"}, by : Sessions \cup {Nil},
               proof : Sessions \cup {Nil}]
SessionRow == [i : Issues \cup {Nil}, run : Runs, stop : Stops,
               told : {"nobody", "state", "row"}, freed : {"no", "yes", "failed"}]
EditRow    == [pc : {"ready", "read", "done"}, i : Issues \cup {Nil}, from : IssueStatuses,
               to : IssueStatuses, proof : Sessions \cup {Nil}]
Commits    == Sessions \cup Outsiders
MergePcs   == {"ready", "validated", "fetched", "synced", "sourced", "merged", "stopped",
               "conflicted", "aborting", "unmarked", "pushed", "done", "closed"}
MergeRow   == [pc : MergePcs, confirm : BOOLEAN, i : Issues \cup {Nil}, branch : Sessions \cup {Nil},
               proof : Sessions \cup {Nil}, took : SUBSET Commits]
GitTypes   == /\ tree \in {"clean", "trying", "conflicting"}
              /\ clone \subseteq Commits /\ fetched \subseteq Commits
              /\ tracked \subseteq Commits /\ remote \subseteq Commits

\* A meeting has its issue from its creation on, unless it could not be bound to it; before
\* it is bound, nobody knows an issue to release for it.
SessionOK(row) ==
    /\ row.run # "new" /\ ~(row.run = "over" /\ row.stop = "gone") => row.i \in Issues
    /\ row.run \in {"new", "saved"} =>
           row.told = "nobody" /\ row.freed = "no" /\ row.stop \notin {"aborting", "deleting"}
SessionsOK == \A m \in Sessions : SessionOK(session[m])

\* A PATCH that has read its issue intends a transition that was allowed.
EditOK(row) == /\ row.pc = "ready" => row.i = Nil
               /\ row.pc = "read" => /\ row.i \in Issues /\ row.to \in Table!Allowed[row.from]
                                     /\ row.to = "resolved" => row.i \in ByHand
EditsOK == \A e \in Editors : EditOK(edit[e])

\* A merge is for an issue of a repository; what it merged is where its stage says.
MergeOK(row) == /\ row.pc \notin {"ready", "done"} => row.i \in RepoBound /\ row.branch \in Sessions
                /\ row.pc = "merged" => row.took \subseteq clone
                /\ row.pc \in {"pushed", "closed"} => row.took \subseteq remote
MergesOK == \A k \in Mergers : MergeOK(merge[k])

\* An issue is assigned only to a meeting that was made for it.
Works(m, i) == m \in Sessions /\ session[m].run \in BegunRuns /\ session[m].i = i
BoundOK == \A i \in Issues : issue[i].by \in Sessions => Works(issue[i].by, i)

\* A merge request for the issue has come to its end, with what it merged on origin.
Proven(i) == \E k \in Mergers : At(k, "closed") /\ merge[k].i = i /\ merge[k].took \subseteq remote
PushedOK  == \A i \in RepoBound \ ByHand : issue[i].status = "resolved" => Proven(i)

IssueInv == /\ IssueTypeOK /\ SessionsOK /\ EditsOK /\ MergesOK
            /\ BoundOK /\ PushedOK /\ StoppedFreesIssue

-----------------------------------------------------------------------------
(* Types                                                                   *)

LEMMA IssueTypesOfParts ==
    ASSUME IssueTypeOK
    PROVE  /\ issue \in [Issues -> IssueRow] /\ session \in [Sessions -> SessionRow]
           /\ artifacts \subseteq Sessions
           /\ edit \in [Editors -> EditRow] /\ merge \in [Mergers -> MergeRow]
           /\ GitTypes
  BY DEF IssueTypeOK, IssueRow, SessionRow, Runs, Stops, EditRow, MergeRow, MergePcs, GitTypes, Commits

LEMMA IssuePartsHaveTypes ==
    ASSUME issue \in [Issues -> IssueRow], session \in [Sessions -> SessionRow],
           artifacts \subseteq Sessions,
           edit \in [Editors -> EditRow], merge \in [Mergers -> MergeRow], GitTypes
    PROVE  IssueTypeOK
  BY DEF IssueTypeOK, IssueRow, SessionRow, Runs, Stops, EditRow, MergeRow, MergePcs, GitTypes, Commits

LEMMA IssuePartsHaveTypesNext ==
    ASSUME issue' \in [Issues -> IssueRow], session' \in [Sessions -> SessionRow],
           artifacts' \subseteq Sessions,
           edit' \in [Editors -> EditRow], merge' \in [Mergers -> MergeRow], GitTypes'
    PROVE  IssueTypeOK'
  BY DEF IssueTypeOK, IssueRow, SessionRow, Runs, Stops, EditRow, MergeRow, MergePcs, GitTypes, Commits

\* With open issues and no meetings IssueInv holds.
THEOREM IssueInitInv == IssueInit => IssueInv
<1>. SUFFICES ASSUME IssueInit PROVE IssueInv  OBVIOUS
<1>1. /\ issue \in [Issues -> IssueRow] /\ edit \in [Editors -> EditRow]
      /\ merge \in [Mergers -> MergeRow]
  BY DEF IssueInit, IssueRow, EditRow, MergeRow, NoEdit, NoMerge, IssueStatuses, MergePcs
<1>2. Unmade \in SessionRow  BY DEF Unmade, SessionRow, Runs, Stops
<1>3. session \in [Sessions -> SessionRow]  BY <1>2 DEF IssueInit
<1>4. GitTypes  BY DEF IssueInit, GitTypes
<1>5. IssueTypeOK  BY <1>1, <1>3, <1>4, IssuePartsHaveTypes DEF IssueInit
<1>6. SessionsOK  BY DEF IssueInit, SessionsOK, SessionOK, Unmade
<1>7. EditsOK  BY DEF IssueInit, EditsOK, EditOK, NoEdit
<1>8. MergesOK  BY DEF IssueInit, MergesOK, MergeOK, NoMerge
<1>9. BoundOK /\ PushedOK /\ StoppedFreesIssue
  BY NilAssumption, RepoBoundAssumption DEF IssueInit, BoundOK, PushedOK, StoppedFreesIssue
<1>. QED  BY <1>5, <1>6, <1>7, <1>8, <1>9 DEF IssueInv

-----------------------------------------------------------------------------
(* What a step keeps, part by part                                         *)

\* A meeting that has begun stays so, with its issue.
Kept == \A m, i : Works(m, i) => Works(m, i)'

\* A merge request that has come to its end stays there.
ProvenKept == \A i : Proven(i) => Proven(i)'

\* For no other meeting is an issue released.
FreedKept == \A m \in Sessions : session[m].run \in BegunRuns /\ session'[m].freed = "yes"
                                     => session[m].freed = "yes"

EditsKept == \A e \in Editors : edit[e].pc # "ready" =>
                 edit'[e].i = edit[e].i /\ edit'[e].to = edit[e].to

\* A row of session moves.
LEMMA SessionMoves ==
    ASSUME IssueInv, NEW m \in Sessions, NEW row, session' = [session EXCEPT ![m] = row],
           row \in SessionRow, SessionOK(row),
           session[m].run \in BegunRuns => row.run \in BegunRuns /\ row.i = session[m].i
    PROVE  /\ session' \in [Sessions -> SessionRow] /\ SessionsOK' /\ Kept
           /\ session'[m] = row /\ \A n \in Sessions \ {m} : session'[n] = session[n]
<1>1. /\ session' \in [Sessions -> SessionRow] /\ session'[m] = row
      /\ \A n \in Sessions \ {m} : session'[n] = session[n]
  BY IssueTypesOfParts DEF IssueInv
<1>2. SessionsOK'  BY <1>1 DEF IssueInv, SessionsOK
<1>3. Kept  BY <1>1 DEF Kept, Works
<1>. QED  BY <1>1, <1>2, <1>3

LEMMA SameSessions ==
    ASSUME IssueInv, UNCHANGED session
    PROVE  session' \in [Sessions -> SessionRow] /\ SessionsOK' /\ Kept /\ FreedKept
  BY IssueTypesOfParts DEF IssueInv, SessionsOK, Kept, Works, FreedKept

\* The merges stand where they were.
LEMMA SameMerges ==
    ASSUME IssueInv, UNCHANGED merge, clone \subseteq clone', remote \subseteq remote'
    PROVE  merge' \in [Mergers -> MergeRow] /\ MergesOK' /\ ProvenKept
<1>1. merge' \in [Mergers -> MergeRow]  BY IssueTypesOfParts DEF IssueInv
<1>2. MergesOK'
  <2>. SUFFICES ASSUME NEW k \in Mergers PROVE MergeOK(merge[k])'  BY DEF MergesOK
  <2>. QED  BY DEF IssueInv, MergesOK, MergeOK
<1>3. ProvenKept  BY DEF ProvenKept, Proven, At
<1>. QED  BY <1>1, <1>2, <1>3

LEMMA SameEdits ==
    ASSUME IssueInv, UNCHANGED edit PROVE edit' \in [Editors -> EditRow] /\ EditsOK' /\ EditsKept
  BY IssueTypesOfParts DEF IssueInv, EditsOK, EditsKept

LEMMA SameGit == ASSUME IssueInv, UNCHANGED gitVars
                 PROVE  GitTypes' /\ clone \subseteq clone' /\ remote \subseteq remote'
  BY IssueTypesOfParts DEF IssueInv, gitVars, GitTypes

\* The rows of the issues stand as they were, and none is released.
LEMMA SameIssues ==
    ASSUME IssueInv, UNCHANGED issue, Kept, ProvenKept, EditsKept, FreedKept
    PROVE  issue' \in [Issues -> IssueRow] /\ BoundOK' /\ PushedOK' /\ StoppedFreesIssue'
<1>1. issue' \in [Issues -> IssueRow]  BY IssueTypesOfParts DEF IssueInv
<1>2. BoundOK'  BY DEF IssueInv, BoundOK, Kept
<1>3. PushedOK'  BY DEF IssueInv, PushedOK, ProvenKept
<1>4. StoppedFreesIssue'
  <2>. SUFFICES ASSUME NEW i \in Issues, NEW m \in Sessions, issue[i].status = "in_progress",
                       issue[i].by = m, session'[m].freed = "yes"
                PROVE  \E e \in Editors : edit'[e].i = i /\ edit'[e].to = "in_progress"
    BY DEF StoppedFreesIssue
  <2>1. session[m].freed = "yes"  BY DEF IssueInv, BoundOK, Works, FreedKept
  <2>2. PICK e \in Editors : edit[e].i = i /\ edit[e].to = "in_progress"
    BY <2>1 DEF IssueInv, StoppedFreesIssue
  <2>3. edit[e].pc # "ready"  BY <2>2, NilAssumption DEF IssueInv, EditsOK, EditOK
  <2>. QED  BY <2>2, <2>3 DEF EditsKept
<1>. QED  BY <1>1, <1>2, <1>3, <1>4

\* One row of issue moves.
LEMMA IssueMoves ==
    ASSUME IssueInv, NEW i \in Issues, NEW row, issue' = [issue EXCEPT ![i] = row],
           row \in IssueRow, Kept, ProvenKept, EditsKept,
           \A m \in Sessions : m # row.by /\ session[m].run \in BegunRuns /\ session'[m].freed = "yes"
                                   => session[m].freed = "yes" \/ session[m].i = i,
           row.by \in Sessions => Works(row.by, i)',
           row.status = "resolved" /\ i \in RepoBound \ ByHand => Proven(i)',
           row.status = "in_progress" /\ row.by \in Sessions /\ session'[row.by].freed = "yes"
               => \E e \in Editors : edit'[e].i = i /\ edit'[e].to = "in_progress"
    PROVE  issue' \in [Issues -> IssueRow] /\ BoundOK' /\ PushedOK' /\ StoppedFreesIssue'
<1>1. /\ issue' \in [Issues -> IssueRow] /\ issue'[i] = row
      /\ \A j \in Issues \ {i} : issue'[j] = issue[j]
  BY IssueTypesOfParts DEF IssueInv
<1>2. BoundOK'  BY <1>1 DEF IssueInv, BoundOK, Kept
<1>3. PushedOK'
  <2>. SUFFICES ASSUME NEW j \in RepoBound \ ByHand, issue'[j].status = "resolved" PROVE Proven(j)'
    BY DEF PushedOK
  <2>1. CASE j = i  BY <2>1, <1>1
  <2>2. CASE j # i  BY <2>2, <1>1, RepoBoundAssumption DEF IssueInv, PushedOK, ProvenKept
  <2>. QED  BY <2>1, <2>2
<1>4. StoppedFreesIssue'
  <2>. SUFFICES ASSUME NEW j \in Issues, NEW m \in Sessions, issue'[j].status = "in_progress",
                       issue'[j].by = m, session'[m].freed = "yes"
                PROVE  \E e \in Editors : edit'[e].i = j /\ edit'[e].to = "in_progress"
    BY DEF StoppedFreesIssue
  <2>1. CASE j = i  BY <2>1, <1>1
  <2>2. CASE j # i
    <3>1. issue[j].status = "in_progress" /\ issue[j].by = m  BY <2>2, <1>1
    <3>2. session[m].run \in BegunRuns /\ session[m].i = j  BY <3>1 DEF IssueInv, BoundOK, Works
    <3>3. m # row.by  BY <2>2, <3>2 DEF Kept, Works
    <3>4. session[m].freed = "yes"  BY <2>2, <3>2, <3>3
    <3>5. PICK e \in Editors : edit[e].i = j /\ edit[e].to = "in_progress"
      BY <3>1, <3>4 DEF IssueInv, StoppedFreesIssue
    <3>6. edit[e].pc # "ready"  BY <3>5, NilAssumption DEF IssueInv, EditsOK, EditOK
    <3>. QED  BY <3>5, <3>6 DEF EditsKept
  <2>. QED  BY <2>1, <2>2
<1>. QED  BY <1>1, <1>2, <1>3, <1>4

\* A row of session and a row of issue move: merges and requests stand where they were.
LEMMA SessionAndIssue ==
    ASSUME IssueInv, session' \in [Sessions -> SessionRow], SessionsOK',
           issue' \in [Issues -> IssueRow], BoundOK', PushedOK', StoppedFreesIssue',
           artifacts' \subseteq Sessions, UNCHANGED <<edit, merge, gitVars>>
    PROVE  IssueInv'
<1>1. GitTypes' /\ clone \subseteq clone' /\ remote \subseteq remote'  BY SameGit
<1>2. merge' \in [Mergers -> MergeRow] /\ MergesOK'  BY <1>1, SameMerges
<1>3. edit' \in [Editors -> EditRow] /\ EditsOK'  BY SameEdits
<1>4. IssueTypeOK'  BY <1>1, <1>2, <1>3, IssuePartsHaveTypesNext
<1>. QED  BY <1>2, <1>3, <1>4 DEF IssueInv

\* What the steps of meetings leave alone.
LEMMA RestStays ==
    ASSUME IssueInv, UNCHANGED <<edit, merge, gitVars>> PROVE ProvenKept /\ EditsKept
  BY SameGit, SameMerges, SameEdits

-----------------------------------------------------------------------------
(* Meetings                                                                *)

\* A meeting's row moves and nothing else, but for the artifacts.
LEMMA SessionOnly ==
    ASSUME IssueInv, NEW m \in Sessions, NEW row, session' = [session EXCEPT ![m] = row],
           row \in SessionRow, SessionOK(row),
           session[m].run \in BegunRuns => row.run \in BegunRuns /\ row.i = session[m].i,
           session[m].run \in BegunRuns /\ row.freed = "yes" => session[m].freed = "yes",
           artifacts' \subseteq Sessions, UNCHANGED <<issue, edit, merge, gitVars>>
    PROVE  IssueInv'
<1>1. /\ session' \in [Sessions -> SessionRow] /\ SessionsOK' /\ Kept
      /\ session'[m] = row /\ \A n \in Sessions \ {m} : session'[n] = session[n]
  BY SessionMoves
<1>2. FreedKept  BY <1>1 DEF FreedKept
<1>3. issue' \in [Issues -> IssueRow] /\ BoundOK' /\ PushedOK' /\ StoppedFreesIssue'
  BY <1>1, <1>2, RestStays, SameIssues
<1>. QED  BY <1>1, <1>3, SessionAndIssue

\* The rows that Phase and Stop write.
LEMMA PhaseRow ==
    ASSUME IssueInv, NEW m \in Sessions, NEW run \in Runs, Phase(m, run)
    PROVE  \E row \in SessionRow :
              /\ session' = [session EXCEPT ![m] = row]
              /\ row.run = run /\ row.i = session[m].i /\ row.stop = session[m].stop
              /\ row.told = session[m].told /\ row.freed = session[m].freed
<1>1. session[m] \in SessionRow  BY IssueTypesOfParts DEF IssueInv
<1>2. [session[m] EXCEPT !.run = run] \in SessionRow  BY <1>1 DEF SessionRow
<1>3. PICK row \in SessionRow :
        /\ row = [session[m] EXCEPT !.run = run]
        /\ row.run = run /\ row.i = session[m].i /\ row.stop = session[m].stop
        /\ row.told = session[m].told /\ row.freed = session[m].freed
  BY <1>1, <1>2 DEF SessionRow
<1>4. session' = [session EXCEPT ![m] = row]  BY <1>3, IssueTypesOfParts DEF IssueInv, Phase
<1>. QED  BY <1>3, <1>4

LEMMA StopRow ==
    ASSUME IssueInv, NEW m \in Sessions, NEW stop \in Stops, Stop(m, stop)
    PROVE  \E row \in SessionRow :
              /\ session' = [session EXCEPT ![m] = row]
              /\ row.stop = stop /\ row.i = session[m].i /\ row.run = session[m].run
              /\ row.told = session[m].told /\ row.freed = session[m].freed
<1>1. session[m] \in SessionRow  BY IssueTypesOfParts DEF IssueInv
<1>2. [session[m] EXCEPT !.stop = stop] \in SessionRow  BY <1>1 DEF SessionRow
<1>3. PICK row \in SessionRow :
        /\ row = [session[m] EXCEPT !.stop = stop]
        /\ row.stop = stop /\ row.i = session[m].i /\ row.run = session[m].run
        /\ row.told = session[m].told /\ row.freed = session[m].freed
  BY <1>1, <1>2 DEF SessionRow
<1>4. session' = [session EXCEPT ![m] = row]  BY <1>3, IssueTypesOfParts DEF IssueInv, Stop
<1>. QED  BY <1>3, <1>4

LEMMA FreedRow ==
    ASSUME IssueInv, NEW m \in Sessions, NEW how \in {"yes", "failed"}, Freed(m, how)
    PROVE  \E row \in SessionRow :
              /\ session' = [session EXCEPT ![m] = row]
              /\ row.stop \in {"aborted", "released"} /\ row.freed = how
              /\ row.i = session[m].i /\ row.run = session[m].run /\ row.told = session[m].told
<1>1. session[m] \in SessionRow  BY IssueTypesOfParts DEF IssueInv
<1>. DEFINE to == IF session[m].stop = "aborting" THEN "aborted" ELSE "released"
<1>2. [session[m] EXCEPT !.stop = to, !.freed = how] \in SessionRow  BY <1>1 DEF SessionRow, Stops
<1>3. PICK row \in SessionRow :
        /\ row = [session[m] EXCEPT !.stop = to, !.freed = how]
        /\ row.stop = to /\ row.freed = how
        /\ row.i = session[m].i /\ row.run = session[m].run /\ row.told = session[m].told
  BY <1>1, <1>2 DEF SessionRow
<1>4. session' = [session EXCEPT ![m] = row]  BY <1>3, IssueTypesOfParts DEF IssueInv, Freed
<1>. QED  BY <1>3, <1>4

LEMMA ProposeInv ==
    ASSUME IssueInv, NEW m \in Sessions, NEW i \in Issues, Propose(m, i) PROVE IssueInv'
<1>1. PICK row : row = [Unmade EXCEPT !.i = i, !.run = "saved"]  OBVIOUS
<1>2. /\ row \in SessionRow /\ SessionOK(row) /\ row.freed = "no"
  BY <1>1 DEF SessionRow, SessionOK, Runs, Stops, Unmade
<1>3. session[m].run \notin BegunRuns  BY DEF Propose, BegunRuns
<1>4. /\ session' = [session EXCEPT ![m] = row] /\ artifacts' \subseteq Sessions
      /\ UNCHANGED <<issue, edit, merge, gitVars>>
  BY <1>1, IssueTypesOfParts DEF Propose, IssueInv
<1>. QED  BY <1>2, <1>3, <1>4, SessionOnly

\* A meeting bound to its issue runs, with the binding in its row, in its state only, or
\* not at all.
LEMMA SaveBindingInv ==
    ASSUME IssueInv, NEW m \in Sessions, SaveBinding(m) \/ SaveBindingFails(m) PROVE IssueInv'
<1>1. session[m] \in SessionRow /\ session[m].run = "bound" /\ session[m].i \in Issues
  BY IssueTypesOfParts DEF IssueInv, SessionsOK, SessionOK, SaveBinding, SaveBindingFails
<1>2. PICK row \in SessionRow :
        /\ session' = [session EXCEPT ![m] = row]
        /\ row.run \in {"running", "over"} /\ row.i = session[m].i /\ row.freed = session[m].freed
  <2>1. CASE SaveBinding(m)
    <3>. DEFINE to == IF session[m].stop = "gone" THEN "no" ELSE session[m].stop
                row == [session[m] EXCEPT !.run = "running", !.told = "row", !.stop = to]
    <3>1. row \in SessionRow  BY <1>1 DEF SessionRow, Runs, Stops
    <3>2. row.run = "running" /\ row.i = session[m].i /\ row.freed = session[m].freed
      BY <1>1 DEF SessionRow
    <3>3. session' = [session EXCEPT ![m] = row]  BY <2>1, IssueTypesOfParts DEF IssueInv, SaveBinding
    <3>. HIDE DEF row
    <3>. QED  BY <3>1, <3>2, <3>3
  <2>2. CASE session' = [session EXCEPT ![m].run = "over"]
    <3>1. PICK row \in SessionRow :
            /\ session' = [session EXCEPT ![m] = row]
            /\ row.run = "over" /\ row.i = session[m].i /\ row.freed = session[m].freed
      BY <2>2, PhaseRow DEF Phase, Runs
    <3>. QED  BY <3>1
  <2>3. CASE session' = [session EXCEPT ![m].run = "running", ![m].told = "state"]
    <3>. DEFINE row == [session[m] EXCEPT !.run = "running", !.told = "state"]
    <3>1. row \in SessionRow  BY <1>1 DEF SessionRow, Runs
    <3>2. row.run = "running" /\ row.i = session[m].i /\ row.freed = session[m].freed
      BY <1>1 DEF SessionRow
    <3>3. session' = [session EXCEPT ![m] = row]  BY <2>3, IssueTypesOfParts DEF IssueInv
    <3>. HIDE DEF row
    <3>. QED  BY <3>1, <3>2, <3>3
  <2>. QED  BY <2>1, <2>2, <2>3 DEF SaveBindingFails
<1>3. SessionOK(row)  BY <1>1, <1>2 DEF SessionOK
<1>4. artifacts' \subseteq Sessions /\ UNCHANGED <<issue, edit, merge, gitVars>>
  BY IssueTypesOfParts DEF SaveBinding, SaveBindingFails, IssueInv
<1>. QED  BY <1>2, <1>3, <1>4, SessionOnly DEF BegunRuns

\* The run goes on to its end.
LEMMA RunInv ==
    ASSUME IssueInv, NEW m \in Sessions, RunEnds(m) \/ PublishArtifact(m) \/ CloseIssueFails(m)
    PROVE  IssueInv'
<1>1. PICK run \in {"publishing", "over"} : Phase(m, run)
  BY DEF RunEnds, PublishArtifact, CloseIssueFails
<1>2. session[m].run \in {"running", "publishing"} /\ session[m].i \in Issues
  BY DEF RunEnds, PublishArtifact, CloseIssueFails, IssueInv, SessionsOK, SessionOK
<1>3. PICK row \in SessionRow :
        /\ session' = [session EXCEPT ![m] = row]
        /\ row.run = run /\ row.i = session[m].i /\ row.freed = session[m].freed
  BY <1>1, PhaseRow DEF Runs
<1>4. SessionOK(row)  BY <1>1, <1>2, <1>3 DEF SessionOK
<1>5. artifacts' \subseteq Sessions /\ UNCHANGED <<issue, edit, merge, gitVars>>
  BY IssueTypesOfParts DEF RunEnds, PublishArtifact, CloseIssueFails, IssueInv
<1>. QED  BY <1>1, <1>3, <1>4, <1>5, SessionOnly DEF BegunRuns

\* Aborting and deleting, but for the release.
LEMMA StopInv ==
    ASSUME IssueInv, NEW m \in Sessions, AbortMeeting(m) \/ DeleteMeeting(m) \/ SoftDeleted(m)
    PROVE  IssueInv'
<1>1. PICK stop \in {"aborting", "aborted", "deleting", "released", "gone"} :
        /\ Stop(m, stop)
        /\ stop \in {"aborting", "deleting"} => session[m].run \notin {"new", "saved"}
  BY DEF AbortMeeting, DeleteMeeting, SoftDeleted, Created, IssueInv, SessionsOK, SessionOK
<1>2. session[m].stop # "gone"  BY DEF AbortMeeting, DeleteMeeting, SoftDeleted
<1>3. PICK row \in SessionRow :
        /\ session' = [session EXCEPT ![m] = row]
        /\ row.stop = stop /\ row.i = session[m].i /\ row.run = session[m].run
        /\ row.told = session[m].told /\ row.freed = session[m].freed
  BY <1>1, StopRow DEF Stops
<1>4. SessionOK(row)  BY <1>1, <1>2, <1>3 DEF IssueInv, SessionsOK, SessionOK
<1>5. artifacts' \subseteq Sessions /\ UNCHANGED <<issue, edit, merge, gitVars>>
  BY IssueTypesOfParts DEF AbortMeeting, DeleteMeeting, SoftDeleted, IssueInv
<1>. QED  BY <1>3, <1>4, <1>5, SessionOnly

LEMMA ReleaseFailsInv ==
    ASSUME IssueInv, NEW m \in Sessions, ReleaseFails(m) PROVE IssueInv'
<1>1. PICK how \in {"yes", "failed"} : Freed(m, how) /\ (how = "yes" => session[m].freed = "yes")
  BY DEF ReleaseFails
<1>2. session[m].run \notin {"new", "saved"} /\ session[m].i \in Issues
  BY DEF ReleaseFails, IssueInv, SessionsOK, SessionOK
<1>3. PICK row \in SessionRow :
        /\ session' = [session EXCEPT ![m] = row]
        /\ row.freed = how /\ row.i = session[m].i /\ row.run = session[m].run
  BY <1>1, FreedRow
<1>4. SessionOK(row)  BY <1>2, <1>3 DEF SessionOK
<1>5. artifacts' \subseteq Sessions /\ UNCHANGED <<issue, edit, merge, gitVars>>
  BY IssueTypesOfParts DEF ReleaseFails, IssueInv
<1>. QED  BY <1>1, <1>3, <1>4, <1>5, SessionOnly

\* The rows that the updates of an issue write.
LEMMA StatusRow ==
    ASSUME NEW row \in IssueRow, NEW s \in IssueStatuses
    PROVE  \E r \in IssueRow :
              /\ r = [row EXCEPT !.status = s]
              /\ r.status = s /\ r.by = row.by /\ r.proof = row.proof
<1>1. [row EXCEPT !.status = s] \in IssueRow  BY DEF IssueRow
<1>. QED  BY <1>1 DEF IssueRow

LEMMA ProofRow ==
    ASSUME NEW row \in IssueRow, NEW p \in Sessions
    PROVE  \E r \in IssueRow :
              /\ r = [row EXCEPT !.proof = p]
              /\ r.status = row.status /\ r.by = row.by /\ r.proof = p
<1>1. [row EXCEPT !.proof = p] \in IssueRow  BY DEF IssueRow
<1>. QED  BY <1>1 DEF IssueRow

LEMMA AssignedRow ==
    ASSUME NEW row \in IssueRow, NEW m \in Sessions
    PROVE  \E r \in IssueRow :
              /\ r = [row EXCEPT !.by = m]
              /\ r.status = row.status /\ r.by = m /\ r.proof = row.proof
<1>1. [row EXCEPT !.by = m] \in IssueRow  BY DEF IssueRow
<1>. QED  BY <1>1 DEF IssueRow

LEMMA ResolvedRow ==
    ASSUME issue \in [Issues -> IssueRow], NEW i \in Issues, NEW p \in Sessions
    PROVE  /\ Resolved(i, p) \in IssueRow /\ Resolved(i, p).status = "resolved"
           /\ Resolved(i, p).by = issue[i].by /\ Resolved(i, p).proof = p
<1>1. issue[i] \in IssueRow  OBVIOUS
<1>2. Resolved(i, p) \in IssueRow  BY <1>1 DEF Resolved, IssueRow, IssueStatuses
<1>3. Resolved(i, p).status = "resolved"  BY <1>1 DEF Resolved, IssueRow
<1>4. Resolved(i, p).by = issue[i].by  BY <1>1 DEF Resolved, IssueRow
<1>5. Resolved(i, p).proof = p  BY <1>1 DEF Resolved, IssueRow
<1>. QED  BY <1>2, <1>3, <1>4, <1>5

LEMMA BoundRow ==
    ASSUME issue \in [Issues -> IssueRow], NEW i \in Issues, NEW m \in Sessions
    PROVE  \E r \in IssueRow :
              /\ r = [WithStatus(i, "in_progress") EXCEPT !.by = m]
              /\ r.status = "in_progress" /\ r.by = m /\ r.proof = issue[i].proof
<1>1. issue[i] \in IssueRow /\ "in_progress" \in IssueStatuses  BY DEF IssueStatuses
<1>2. PICK q \in IssueRow : /\ q = [issue[i] EXCEPT !.status = "in_progress"]
                           /\ q.status = "in_progress" /\ q.proof = issue[i].proof
  BY <1>1, StatusRow
<1>3. q = WithStatus(i, "in_progress")  BY <1>2 DEF WithStatus
<1>4. PICK r \in IssueRow : /\ r = [q EXCEPT !.by = m]
                           /\ r.status = q.status /\ r.by = m /\ r.proof = q.proof
  BY AssignedRow
<1>5. r = [WithStatus(i, "in_progress") EXCEPT !.by = m]  BY <1>3, <1>4, Zenon
<1>. QED  BY <1>2, <1>4, <1>5

LEMMA BindMeetingInv ==
    ASSUME IssueInv, NEW m \in Sessions, BindMeeting(m) PROVE IssueInv'
<1>1. PICK i \in Issues : i = session[m].i
  BY DEF BindMeeting, IssueInv, SessionsOK, SessionOK
<1>2. session[m].freed = "no" /\ session[m].run \notin BegunRuns
  BY DEF BindMeeting, IssueInv, SessionsOK, SessionOK, BegunRuns
<1>3. artifacts' \subseteq Sessions /\ UNCHANGED <<edit, merge, gitVars>>
  BY IssueTypesOfParts DEF BindMeeting, IssueInv
<1>4. CASE /\ TransitionStatus(i, Bindable, [WithStatus(i, "in_progress") EXCEPT !.by = m])
           /\ Phase(m, "bound")
  <2>1. PICK run \in SessionRow : /\ session' = [session EXCEPT ![m] = run]
                                /\ run.run = "bound" /\ run.i = i /\ run.freed = "no"
    BY <1>1, <1>2, <1>4, PhaseRow DEF Runs
  <2>2. SessionOK(run)  BY <2>1 DEF SessionOK
  <2>3. /\ session' \in [Sessions -> SessionRow] /\ SessionsOK' /\ Kept
        /\ session'[m] = run /\ \A n \in Sessions \ {m} : session'[n] = session[n]
    BY <1>2, <2>1, <2>2, SessionMoves
  <2>4. PICK row \in IssueRow : /\ row = [WithStatus(i, "in_progress") EXCEPT !.by = m]
                              /\ row.by = m /\ row.status = "in_progress"
    BY BoundRow, IssueTypesOfParts DEF IssueInv
  <2>5. issue' = [issue EXCEPT ![i] = row]  BY <1>4, <2>4 DEF TransitionStatus
  <2>6. Works(row.by, i)'  BY <2>1, <2>3, <2>4 DEF Works, BegunRuns
  <2>7. session'[m].freed # "yes"  BY <2>1, <2>3
  <2>8. \A n \in Sessions : n # row.by /\ session[n].run \in BegunRuns /\ session'[n].freed = "yes"
                                => session[n].freed = "yes" \/ session[n].i = i
    BY <2>3, <2>4
  <2>9. issue' \in [Issues -> IssueRow] /\ BoundOK' /\ PushedOK' /\ StoppedFreesIssue'
    BY <1>3, <2>3, <2>4, <2>5, <2>6, <2>7, <2>8, RestStays, IssueMoves
  <2>. QED  BY <1>3, <2>3, <2>9, SessionAndIssue
<1>5. CASE session' = [session EXCEPT ![m] = Unbound] /\ UNCHANGED issue
  <2>1. PICK row : row = Unbound  OBVIOUS
  <2>2. row \in SessionRow /\ SessionOK(row) /\ row.freed = "no"
    BY <2>1 DEF Unbound, Unmade, SessionRow, SessionOK, Runs, Stops
  <2>. QED  BY <1>2, <1>3, <1>5, <2>1, <2>2, SessionOnly
<1>. QED  BY <1>1, <1>4, <1>5 DEF BindMeeting

\* A document's issue is resolved; that of a repository gets its proof.
LEMMA CloseIssueInv ==
    ASSUME IssueInv, NEW m \in Sessions, CloseIssueAfterPublish(m) PROVE IssueInv'
<1>1. PICK i \in Issues : i = session[m].i
  BY DEF CloseIssueAfterPublish, IssueInv, SessionsOK, SessionOK
<1>2. session[m].run = "publishing"  BY DEF CloseIssueAfterPublish
<1>3. artifacts' \subseteq Sessions /\ UNCHANGED <<edit, merge, gitVars>>
  BY IssueTypesOfParts DEF CloseIssueAfterPublish, IssueInv
<1>4. PICK run \in SessionRow : /\ session' = [session EXCEPT ![m] = run]
                              /\ run.run = "over" /\ run.i = i /\ run.freed = session[m].freed
  BY <1>1, PhaseRow DEF CloseIssueAfterPublish, Runs
<1>5. SessionOK(run)  BY <1>4 DEF SessionOK
<1>6. /\ session' \in [Sessions -> SessionRow] /\ SessionsOK' /\ Kept
      /\ session'[m] = run /\ \A n \in Sessions \ {m} : session'[n] = session[n]
  BY <1>1, <1>4, <1>5, SessionMoves DEF BegunRuns
<1>7. PICK row \in IssueRow :
        /\ row = IF i \in RepoBound THEN [issue[i] EXCEPT !.proof = m] ELSE Resolved(i, m)
        /\ row.by = issue[i].by
        /\ i \in RepoBound => row.status = issue[i].status
        /\ i \notin RepoBound => row.status = "resolved"
  <2>1. issue[i] \in IssueRow  BY IssueTypesOfParts DEF IssueInv
  <2>2. CASE i \in RepoBound  BY <2>1, <2>2, ProofRow
  <2>3. CASE i \notin RepoBound  BY <2>3, IssueTypesOfParts, ResolvedRow DEF IssueInv
  <2>. QED  BY <2>2, <2>3
<1>8. issue' = [issue EXCEPT ![i] = row]
  BY <1>1, <1>7 DEF CloseIssueAfterPublish, TransitionStatus
<1>9. \A n \in Sessions : session'[n].freed = session[n].freed  BY <1>4, <1>6
<1>10. ProvenKept /\ EditsKept  BY <1>3, RestStays
<1>11. row.by \in Sessions => Works(row.by, i)'
  BY <1>6, <1>7 DEF IssueInv, BoundOK, Kept
<1>12. row.status = "resolved" /\ i \in RepoBound \ ByHand => Proven(i)'
  BY <1>7, <1>10 DEF IssueInv, PushedOK, ProvenKept
<1>13. row.status = "in_progress" /\ row.by \in Sessions /\ session'[row.by].freed = "yes"
          => \E e \in Editors : edit'[e].i = i /\ edit'[e].to = "in_progress"
  BY <1>3, <1>7, <1>9 DEF IssueInv, StoppedFreesIssue
<1>14. issue' \in [Issues -> IssueRow] /\ BoundOK' /\ PushedOK' /\ StoppedFreesIssue'
  BY <1>6, <1>7, <1>8, <1>9, <1>10, <1>11, <1>12, <1>13, IssueMoves
<1>. QED  BY <1>3, <1>6, <1>14, SessionAndIssue

\* After the release no issue is in progress for the meeting: its own was put back, and it
\* was assigned no other.
LEMMA ReleaseInv ==
    ASSUME IssueInv, NEW m \in Sessions, Release(m) PROVE IssueInv'
<1>1. PICK i \in Issues : i = session[m].i
  BY DEF Release, IssueInv, SessionsOK, SessionOK
<1>2. session[m].run \notin {"new", "saved"}  BY DEF Release, IssueInv, SessionsOK, SessionOK
<1>3. artifacts' \subseteq Sessions /\ UNCHANGED <<edit, merge, gitVars>>
  BY IssueTypesOfParts DEF Release, IssueInv
<1>4. PICK row \in SessionRow : /\ session' = [session EXCEPT ![m] = row]
                              /\ row.i = i /\ row.run = session[m].run
  BY <1>1, FreedRow DEF Release
<1>5. SessionOK(row)  BY <1>2, <1>4 DEF SessionOK
<1>6. /\ session' \in [Sessions -> SessionRow] /\ SessionsOK' /\ Kept
      /\ session'[m] = row /\ \A n \in Sessions \ {m} : session'[n] = session[n]
  BY <1>1, <1>4, <1>5, SessionMoves
<1>7. PICK free \in IssueRow :
        /\ free = IF issue[i].status = "in_progress" THEN WithStatus(i, "open") ELSE issue[i]
        /\ free.by = issue[i].by /\ free.status # "in_progress"
        /\ free.status = "resolved" => issue[i].status = "resolved"
  <2>1. issue[i] \in IssueRow /\ "open" \in IssueStatuses
    BY IssueTypesOfParts DEF IssueInv, IssueStatuses
  <2>2. CASE issue[i].status = "in_progress"  BY <2>1, <2>2, StatusRow DEF WithStatus
  <2>3. CASE issue[i].status # "in_progress"  BY <2>1, <2>3
  <2>. QED  BY <2>2, <2>3
<1>8. issue' = [issue EXCEPT ![i] = free]
  BY <1>1, <1>7, IssueTypesOfParts DEF Release, ReleaseIssue, WithStatus, IssueInv
<1>9. \A n \in Sessions : n # free.by /\ session[n].run \in BegunRuns /\ session'[n].freed = "yes"
                              => session[n].freed = "yes" \/ session[n].i = i
  BY <1>1, <1>6
<1>10. free.by \in Sessions => Works(free.by, i)'
  BY <1>6, <1>7 DEF IssueInv, BoundOK, Kept
<1>11. ProvenKept /\ EditsKept  BY <1>3, RestStays
<1>12. free.status = "resolved" /\ i \in RepoBound \ ByHand => Proven(i)'
  BY <1>7, <1>11 DEF IssueInv, PushedOK, ProvenKept
<1>13. issue' \in [Issues -> IssueRow] /\ BoundOK' /\ PushedOK' /\ StoppedFreesIssue'
  <2>1. free \in IssueRow /\ Kept /\ free.status # "in_progress"  BY <1>6, <1>7
  <2>. HIDE <1>7
  <2>. QED  BY <2>1, <1>1, <1>8, <1>9, <1>10, <1>11, <1>12, IssueMoves
<1>. QED  BY <1>3, <1>6, <1>13, SessionAndIssue

LEMMA HardDeletedInv ==
    ASSUME IssueInv, NEW m \in Sessions, HardDeleted(m) PROVE IssueInv'
<1>1. artifacts' \subseteq Sessions /\ UNCHANGED <<edit, merge, gitVars>>
  BY IssueTypesOfParts DEF HardDeleted, IssueInv
<1>2. PICK row \in SessionRow :
        /\ session' = [session EXCEPT ![m] = row] /\ SessionOK(row)
        /\ session[m].run \in BegunRuns =>
              row.run \in BegunRuns /\ row.i = session[m].i /\ row.freed = session[m].freed
  <2>1. session[m] \in SessionRow /\ SessionOK(session[m]) /\ session[m].stop = "released"
    BY IssueTypesOfParts DEF HardDeleted, IssueInv, SessionsOK
  <2>2. CASE session[m].run = "saved"
    <3>1. PICK row : row = Unbound  OBVIOUS
    <3>2. row \in SessionRow /\ SessionOK(row)
      BY <3>1 DEF Unbound, Unmade, SessionRow, SessionOK, Runs, Stops
    <3>3. session' = [session EXCEPT ![m] = row]
      BY <2>2, <3>1, IssueTypesOfParts DEF HardDeleted, IssueInv
    <3>. QED  BY <2>2, <3>2, <3>3 DEF BegunRuns
  <2>3. CASE session[m].run # "saved"
    <3>1. session' = [session EXCEPT ![m] = [session[m] EXCEPT !.stop = "gone"]]
      BY <2>3, IssueTypesOfParts DEF HardDeleted, IssueInv
    <3>2. Stop(m, "gone")  BY <3>1, IssueTypesOfParts DEF Stop, IssueInv
    <3>3. PICK row \in SessionRow :
            /\ session' = [session EXCEPT ![m] = row]
            /\ row.stop = "gone" /\ row.i = session[m].i /\ row.run = session[m].run
            /\ row.told = session[m].told /\ row.freed = session[m].freed
      BY <3>2, StopRow DEF Stops
    <3>4. SessionOK(row)  BY <2>1, <3>3 DEF SessionOK
    <3>. QED  BY <3>3, <3>4
  <2>. QED  BY <2>2, <2>3
<1>3. /\ session' \in [Sessions -> SessionRow] /\ SessionsOK' /\ Kept
      /\ session'[m] = row /\ \A n \in Sessions \ {m} : session'[n] = session[n]
  BY <1>2, SessionMoves
<1>4. FreedKept  BY <1>2, <1>3 DEF FreedKept
<1>5. ProvenKept /\ EditsKept  BY <1>1, RestStays
<1>6. /\ issue' \in [Issues -> IssueRow]
      /\ \A i \in Issues :
            /\ issue'[i].status = issue[i].status
            /\ issue'[i].by \in Sessions => issue'[i].by = issue[i].by /\ issue'[i].by # m
  <2>1. \A i \in Issues : issue[i] \in IssueRow  BY IssueTypesOfParts DEF IssueInv
  <2>2. \A i \in Issues : issue'[i] = [issue[i] EXCEPT !.by = IF @ = m THEN Nil ELSE @,
                                                      !.proof = IF @ = m THEN Nil ELSE @]
    BY DEF HardDeleted
  <2>3. \A i \in Issues : /\ issue'[i] \in IssueRow /\ issue'[i].status = issue[i].status
                          /\ issue'[i].by = IF issue[i].by = m THEN Nil ELSE issue[i].by
    BY <2>1, <2>2 DEF IssueRow
  <2>4. issue' \in [Issues -> IssueRow]  BY <2>3 DEF HardDeleted
  <2>. QED  BY <2>3, <2>4, NilAssumption
<1>7. BoundOK'
  <2>. SUFFICES ASSUME NEW i \in Issues, NEW n \in Sessions, n = issue'[i].by PROVE Works(n, i)'
    BY DEF BoundOK
  <2>. QED  BY <1>3, <1>6 DEF IssueInv, BoundOK, Kept
<1>8. PushedOK'
  BY <1>5, <1>6, RepoBoundAssumption DEF IssueInv, PushedOK, ProvenKept
<1>9. StoppedFreesIssue'
  <2>. SUFFICES ASSUME NEW i \in Issues, NEW n \in Sessions, issue'[i].status = "in_progress",
                       issue'[i].by = n, session'[n].freed = "yes"
                PROVE  \E e \in Editors : edit'[e].i = i /\ edit'[e].to = "in_progress"
    BY DEF StoppedFreesIssue
  <2>1. issue[i].by = n /\ n # m /\ issue[i].status = "in_progress"  BY <1>6
  <2>2. session'[n] = session[n]  BY <1>3, <2>1
  <2>3. UNCHANGED edit  BY <1>1
  <2>. QED  BY <2>1, <2>2, <2>3 DEF IssueInv, StoppedFreesIssue
<1>. QED  BY <1>1, <1>3, <1>6, <1>7, <1>8, <1>9, SessionAndIssue

-----------------------------------------------------------------------------
(* Requests: the meetings stand where they were.                           *)

LEMMA EditMoves ==
    ASSUME IssueInv, NEW e \in Editors, NEW row, edit' = [edit EXCEPT ![e] = row],
           row \in EditRow, EditOK(row),
           edit[e].pc # "ready" => row.i = edit[e].i /\ row.to = edit[e].to
    PROVE  edit' \in [Editors -> EditRow] /\ EditsOK' /\ EditsKept /\ edit'[e] = row
<1>1. /\ edit' \in [Editors -> EditRow] /\ edit'[e] = row
      /\ \A f \in Editors \ {e} : edit'[f] = edit[f]
  BY IssueTypesOfParts DEF IssueInv
<1>. QED  BY <1>1 DEF IssueInv, EditsOK, EditsKept

\* A row of issue moves and stays assigned as it was.
LEMMA StatusMoves ==
    ASSUME IssueInv, NEW i \in Issues, NEW row \in IssueRow, issue' = [issue EXCEPT ![i] = row],
           row.by = issue[i].by, UNCHANGED session, ProvenKept, EditsKept,
           row.status = "resolved" /\ issue[i].status # "resolved" /\ i \in RepoBound \ ByHand
               => Proven(i)',
           row.status = "in_progress" /\ issue[i].status # "in_progress"
               => \E e \in Editors : edit'[e].i = i /\ edit'[e].to = "in_progress"
    PROVE  issue' \in [Issues -> IssueRow] /\ BoundOK' /\ PushedOK' /\ StoppedFreesIssue'
<1>1. Kept  BY SameSessions
<1>2. row.by \in Sessions => Works(row.by, i)'  BY <1>1 DEF IssueInv, BoundOK, Kept
<1>3. row.status = "resolved" /\ i \in RepoBound \ ByHand => Proven(i)'
  BY DEF IssueInv, PushedOK, ProvenKept
<1>4. row.status = "in_progress" /\ row.by \in Sessions /\ session'[row.by].freed = "yes"
          => \E e \in Editors : edit'[e].i = i /\ edit'[e].to = "in_progress"
  <2>. SUFFICES ASSUME row.status = "in_progress", row.by \in Sessions,
                       session[row.by].freed = "yes", issue[i].status = "in_progress"
                PROVE  \E e \in Editors : edit'[e].i = i /\ edit'[e].to = "in_progress"
    OBVIOUS
  <2>1. PICK e \in Editors : edit[e].i = i /\ edit[e].to = "in_progress"
    BY DEF IssueInv, StoppedFreesIssue
  <2>2. edit[e].pc # "ready"  BY <2>1, NilAssumption DEF IssueInv, EditsOK, EditOK
  <2>. QED  BY <2>1, <2>2 DEF EditsKept
<1>5. \A m \in Sessions : session'[m].freed = "yes" => session[m].freed = "yes"  OBVIOUS
<1>. QED  BY <1>1, <1>2, <1>3, <1>4, <1>5, IssueMoves

LEMMA IssuesStay ==
    ASSUME IssueInv, UNCHANGED <<issue, session>>, ProvenKept, EditsKept
    PROVE  issue' \in [Issues -> IssueRow] /\ BoundOK' /\ PushedOK' /\ StoppedFreesIssue'
  BY SameSessions, SameIssues

\* The parts make up the whole.
LEMMA Assembled ==
    ASSUME IssueInv, UNCHANGED <<session, artifacts>>,
           issue' \in [Issues -> IssueRow], BoundOK', PushedOK', StoppedFreesIssue',
           edit' \in [Editors -> EditRow], EditsOK',
           merge' \in [Mergers -> MergeRow], MergesOK', GitTypes'
    PROVE  IssueInv'
<1>1. session' \in [Sessions -> SessionRow] /\ SessionsOK'  BY SameSessions
<1>2. IssueTypeOK'  BY <1>1, IssueTypesOfParts, IssuePartsHaveTypesNext DEF IssueInv
<1>. QED  BY <1>1, <1>2 DEF IssueInv

\* A request on issues: merges and histories stand where they were.
LEMMA UserMoves ==
    ASSUME IssueInv, UNCHANGED <<session, artifacts, merge, gitVars>>,
           issue' \in [Issues -> IssueRow], BoundOK', PushedOK', StoppedFreesIssue',
           edit' \in [Editors -> EditRow], EditsOK'
    PROVE  IssueInv'
<1>1. GitTypes' /\ merge' \in [Mergers -> MergeRow] /\ MergesOK'  BY SameGit, SameMerges
<1>. QED  BY <1>1, Assembled

LEMMA MergesStay ==
    ASSUME IssueInv, UNCHANGED <<merge, gitVars>> PROVE ProvenKept
  BY SameGit, SameMerges

LEMMA DoneRow ==
    ASSUME IssueInv, NEW e \in Editors
    PROVE  \E row \in EditRow : /\ row = [edit[e] EXCEPT !.pc = "done"]
                               /\ EditOK(row) /\ row.i = edit[e].i /\ row.to = edit[e].to
<1>1. edit[e] \in EditRow  BY IssueTypesOfParts DEF IssueInv
<1>2. [edit[e] EXCEPT !.pc = "done"] \in EditRow  BY <1>1 DEF EditRow
<1>. QED  BY <1>1, <1>2 DEF EditRow, EditOK

LEMMA PatchingDone ==
    ASSUME IssueInv, NEW e \in Editors, Patching(e, "done")
    PROVE  edit' \in [Editors -> EditRow] /\ EditsOK' /\ EditsKept
<1>1. edit' = [edit EXCEPT ![e] = [edit[e] EXCEPT !.pc = "done"]]
  BY IssueTypesOfParts DEF IssueInv, Patching
<1>2. PICK row \in EditRow : /\ row = [edit[e] EXCEPT !.pc = "done"]
                            /\ EditOK(row) /\ row.i = edit[e].i /\ row.to = edit[e].to
  BY DoneRow
<1>. QED  BY <1>1, <1>2, EditMoves

LEMMA AttachInv ==
    ASSUME IssueInv, NEW e \in Editors, NEW i \in Issues, NEW p \in Sessions, Attach(e, i, p)
    PROVE  IssueInv'
<1>1. edit' \in [Editors -> EditRow] /\ EditsOK' /\ EditsKept
  BY PatchingDone DEF Attach
<1>2. issue[i] \in IssueRow  BY IssueTypesOfParts DEF IssueInv
<1>3. PICK row \in IssueRow : /\ row = [issue[i] EXCEPT !.proof = p]
                             /\ row.status = issue[i].status /\ row.by = issue[i].by
  BY <1>2, ProofRow
<1>4. issue' = [issue EXCEPT ![i] = row]  BY <1>3 DEF Attach, TransitionStatus
<1>5. UNCHANGED <<session, artifacts, merge, gitVars>>  BY DEF Attach
<1>6. ProvenKept  BY <1>5, MergesStay
<1>7. issue' \in [Issues -> IssueRow] /\ BoundOK' /\ PushedOK' /\ StoppedFreesIssue'
  BY <1>1, <1>3, <1>4, <1>5, <1>6, StatusMoves
<1>. QED  BY <1>1, <1>5, <1>7, UserMoves

LEMMA PatchReadInv ==
    ASSUME IssueInv, NEW e \in Editors, NEW i \in Issues, NEW to \in IssueStatuses,
           NEW p \in Sessions \cup {Nil}, PatchRead(e, i, to, p)
    PROVE  IssueInv'
<1>1. PICK row \in EditRow : row = [pc |-> "read", i |-> i, from |-> issue[i].status,
                                   to |-> to, proof |-> p]
  BY DEF PatchRead, EditRow
<1>2. EditOK(row)  BY <1>1 DEF PatchRead, EditOK
<1>3. edit' = [edit EXCEPT ![e] = row] /\ edit[e].pc = "ready"  BY <1>1 DEF PatchRead
<1>4. edit' \in [Editors -> EditRow] /\ EditsOK' /\ EditsKept  BY <1>2, <1>3, EditMoves
<1>5. UNCHANGED <<issue, session, artifacts, merge, gitVars>>  BY DEF PatchRead
<1>6. issue' \in [Issues -> IssueRow] /\ BoundOK' /\ PushedOK' /\ StoppedFreesIssue'
  BY <1>4, <1>5, MergesStay, IssuesStay
<1>. QED  BY <1>4, <1>5, <1>6, UserMoves

LEMMA PatchRefusedInv ==
    ASSUME IssueInv, NEW e \in Editors, PatchRefused(e) PROVE IssueInv'
<1>1. edit' \in [Editors -> EditRow] /\ EditsOK' /\ EditsKept
  BY PatchingDone DEF PatchRefused
<1>2. UNCHANGED <<issue, session, artifacts, merge, gitVars>>  BY DEF PatchRefused
<1>3. issue' \in [Issues -> IssueRow] /\ BoundOK' /\ PushedOK' /\ StoppedFreesIssue'
  BY <1>1, <1>2, MergesStay, IssuesStay
<1>. QED  BY <1>1, <1>2, <1>3, UserMoves

LEMMA PatchWriteInv ==
    ASSUME IssueInv, NEW e \in Editors, PatchWrite(e) PROVE IssueInv'
<1>1. PICK i \in Issues : i = edit[e].i
  BY DEF PatchWrite, IssueInv, EditsOK, EditOK
<1>2. PICK to \in IssueStatuses : to = edit[e].to
  BY IssueTypesOfParts DEF IssueInv, EditRow
<1>3. edit' \in [Editors -> EditRow] /\ EditsOK' /\ EditsKept
  BY PatchingDone DEF PatchWrite
<1>4. edit'[e].i = i /\ edit'[e].to = to  BY <1>1, <1>2, <1>3 DEF EditsKept, PatchWrite
<1>5. UNCHANGED <<session, artifacts, merge, gitVars>>  BY DEF PatchWrite
<1>6. PICK row \in IssueRow : row = PatchedRow(e) /\ row.status = to /\ row.by = issue[i].by
  <2>1. issue[i] \in IssueRow  BY IssueTypesOfParts DEF IssueInv
  <2>2. CASE to = "resolved"
    <3>1. edit[e].proof \in Sessions
      BY <1>2, <2>2, IssueTypesOfParts DEF PatchWrite, IssueInv
    <3>. QED  BY <1>1, <1>2, <2>2, <3>1, ResolvedRow, IssueTypesOfParts DEF PatchedRow, IssueInv
  <2>3. CASE to # "resolved"
    BY <1>1, <1>2, <2>1, <2>3, StatusRow DEF PatchedRow, WithStatus
  <2>. QED  BY <2>2, <2>3
<1>7. issue' = [issue EXCEPT ![i] = row]  BY <1>1, <1>6 DEF PatchWrite, TransitionStatus
<1>8. to = "resolved" => i \in ByHand
  BY <1>1, <1>2 DEF PatchWrite, IssueInv, EditsOK, EditOK
<1>9. ProvenKept  BY <1>5, MergesStay
<1>10. issue' \in [Issues -> IssueRow] /\ BoundOK' /\ PushedOK' /\ StoppedFreesIssue'
  BY <1>3, <1>4, <1>5, <1>6, <1>7, <1>8, <1>9, StatusMoves
<1>. QED  BY <1>3, <1>5, <1>10, UserMoves

LEMMA DeleteIssueInv ==
    ASSUME IssueInv, NEW i \in Issues, DeleteIssue(i) PROVE IssueInv'
<1>1. UNCHANGED <<session, artifacts, edit, merge, gitVars>>  BY DEF DeleteIssue
<1>2. edit' \in [Editors -> EditRow] /\ EditsOK' /\ EditsKept  BY <1>1, SameEdits
<1>3. issue[i] \in IssueRow  BY IssueTypesOfParts DEF IssueInv
<1>4. [issue[i] EXCEPT !.status = "deleted"] \in IssueRow  BY <1>3 DEF IssueRow
<1>5. PICK row \in IssueRow : /\ row = [issue[i] EXCEPT !.status = "deleted"]
                             /\ row.status = "deleted" /\ row.by = issue[i].by
  BY <1>3, <1>4 DEF IssueRow
<1>6. issue' = [issue EXCEPT ![i] = row]  BY <1>5, IssueTypesOfParts DEF DeleteIssue, IssueInv
<1>7. ProvenKept  BY <1>1, MergesStay
<1>8. issue' \in [Issues -> IssueRow] /\ BoundOK' /\ PushedOK' /\ StoppedFreesIssue'
  BY <1>1, <1>2, <1>5, <1>6, <1>7, StatusMoves
<1>. QED  BY <1>1, <1>2, <1>8, UserMoves

-----------------------------------------------------------------------------
(* Merges                                                                  *)

\* A merge request moves; one that has come to its end does not.
LEMMA MergeMoves ==
    ASSUME IssueInv, NEW k \in Mergers, NEW row \in MergeRow, merge' = [merge EXCEPT ![k] = row],
           MergeOK(row)', clone \subseteq clone', remote \subseteq remote', ~At(k, "closed")
    PROVE  merge' \in [Mergers -> MergeRow] /\ MergesOK' /\ ProvenKept /\ merge'[k] = row
<1>1. /\ merge' \in [Mergers -> MergeRow] /\ merge'[k] = row
      /\ \A j \in Mergers \ {k} : merge'[j] = merge[j]
  BY IssueTypesOfParts DEF IssueInv
<1>2. MergesOK'
  <2>. SUFFICES ASSUME NEW j \in Mergers PROVE MergeOK(merge[j])'  BY DEF MergesOK
  <2>1. CASE j = k  BY <1>1, <2>1 DEF MergeOK
  <2>2. CASE j # k  BY <1>1, <2>2 DEF IssueInv, MergesOK, MergeOK
  <2>. QED  BY <2>1, <2>2
<1>3. ProvenKept
  <2>. SUFFICES ASSUME NEW i, NEW j \in Mergers, At(j, "closed"), merge[j].i = i,
                       merge[j].took \subseteq remote
                PROVE  Proven(i)'
    BY DEF ProvenKept, Proven
  <2>1. j # k  OBVIOUS
  <2>2. merge'[j] = merge[j]  BY <1>1, <2>1
  <2>. QED  BY <2>2 DEF Proven, At
<1>. QED  BY <1>1, <1>2, <1>3

\* A request that goes on is for the same issue, of the same branch.
LEMMA GoOnRow ==
    ASSUME IssueInv, NEW k \in Mergers, NEW pc \in MergePcs, GoOn(k, pc)
    PROVE  \E row \in MergeRow :
              /\ merge' = [merge EXCEPT ![k] = row] /\ row.pc = pc
              /\ row.i = merge[k].i /\ row.branch = merge[k].branch /\ row.took = merge[k].took
<1>1. merge[k] \in MergeRow  BY IssueTypesOfParts DEF IssueInv
<1>2. [merge[k] EXCEPT !.pc = pc] \in MergeRow  BY <1>1 DEF MergeRow
<1>3. PICK row \in MergeRow :
        /\ row = [merge[k] EXCEPT !.pc = pc] /\ row.pc = pc
        /\ row.i = merge[k].i /\ row.branch = merge[k].branch /\ row.took = merge[k].took
  BY <1>1, <1>2 DEF MergeRow
<1>4. merge' = [merge EXCEPT ![k] = row]  BY <1>3, IssueTypesOfParts DEF GoOn, IssueInv
<1>. QED  BY <1>3, <1>4

LEMMA GoingOn ==
    ASSUME IssueInv, NEW k \in Mergers, NEW pc \in MergePcs, GoOn(k, pc),
           merge[k].pc \notin {"ready", "done", "closed"}, clone \subseteq clone', remote \subseteq remote',
           pc = "merged" => merge[k].took \subseteq clone',
           pc \in {"pushed", "closed"} => merge[k].took \subseteq remote'
    PROVE  merge' \in [Mergers -> MergeRow] /\ MergesOK' /\ ProvenKept
<1>1. PICK row \in MergeRow :
        /\ merge' = [merge EXCEPT ![k] = row] /\ row.pc = pc
        /\ row.i = merge[k].i /\ row.branch = merge[k].branch /\ row.took = merge[k].took
  BY GoOnRow
<1>2. merge[k].i \in RepoBound /\ merge[k].branch \in Sessions  BY DEF IssueInv, MergesOK, MergeOK
<1>3. MergeOK(row)'  BY <1>1, <1>2 DEF MergeOK
<1>. QED  BY <1>1, <1>3, MergeMoves DEF At

LEMMA Ending ==
    ASSUME IssueInv, NEW k \in Mergers, Ends(k), ~At(k, "closed"),
           clone \subseteq clone', remote \subseteq remote'
    PROVE  merge' \in [Mergers -> MergeRow] /\ MergesOK' /\ ProvenKept
<1>1. PICK row \in MergeRow : row = [NoMerge EXCEPT !.pc = "done"] /\ row.pc = "done"
  <2>1. NoMerge \in MergeRow  BY DEF MergeRow, MergePcs, NoMerge
  <2>2. [NoMerge EXCEPT !.pc = "done"] \in MergeRow  BY <2>1 DEF MergeRow, MergePcs
  <2>. QED  BY <2>1, <2>2 DEF MergeRow
<1>2. MergeOK(row)'  BY <1>1 DEF MergeOK
<1>3. merge' = [merge EXCEPT ![k] = row]  BY <1>1 DEF Ends
<1>. QED  BY <1>2, <1>3, MergeMoves

\* The issues and the requests on them stand where they were.
LEMMA GitMoves ==
    ASSUME IssueInv, UNCHANGED rowVars,
           merge' \in [Mergers -> MergeRow], MergesOK', ProvenKept, GitTypes'
    PROVE  IssueInv'
<1>1. UNCHANGED <<issue, session, artifacts, edit>>  BY DEF rowVars
<1>2. edit' \in [Editors -> EditRow] /\ EditsOK' /\ EditsKept  BY <1>1, SameEdits
<1>3. issue' \in [Issues -> IssueRow] /\ BoundOK' /\ PushedOK' /\ StoppedFreesIssue'
  BY <1>1, <1>2, IssuesStay
<1>. QED  BY <1>1, <1>2, <1>3, Assembled

LEMMA ValidateMergeInv ==
    ASSUME IssueInv, NEW k \in Mergers, NEW i \in RepoBound, NEW confirm \in BOOLEAN,
           ValidateMerge(k, i, confirm)
    PROVE  IssueInv'
<1>1. i \in Issues /\ issue[i] \in IssueRow  BY RepoBoundAssumption, IssueTypesOfParts DEF IssueInv
<1>2. issue[i].by \in Sessions /\ issue[i].proof \in Sessions \cup {Nil}
  BY <1>1 DEF ValidateMerge, IssueRow
<1>3. PICK row \in MergeRow : row = [pc |-> "validated", confirm |-> confirm, i |-> i,
                                    branch |-> issue[i].by, proof |-> issue[i].proof, took |-> {}]
  BY <1>1, <1>2 DEF MergeRow, MergePcs
<1>4. MergeOK(row)'  BY <1>2, <1>3 DEF MergeOK
<1>5. merge' = [merge EXCEPT ![k] = row] /\ ~At(k, "closed")  BY <1>3 DEF ValidateMerge, At
<1>6. UNCHANGED rowVars /\ UNCHANGED gitVars  BY DEF ValidateMerge
<1>7. GitTypes' /\ clone \subseteq clone' /\ remote \subseteq remote'  BY <1>6, SameGit
<1>8. merge' \in [Mergers -> MergeRow] /\ MergesOK' /\ ProvenKept  BY <1>4, <1>5, <1>7, MergeMoves
<1>. QED  BY <1>6, <1>7, <1>8, GitMoves

\* What the git commands write: the histories of the clone and of origin only grow.
LEMMA GitGrows ==
    ASSUME IssueInv, NEW k \in Mergers,
           \/ FetchOrigin(k) \/ FastForward(k) \/ FetchSource(k) \/ MergeBranch(k) \/ TryMerge(k)
           \/ MergeConflicts(k) \/ MergeMeetsAnother(k) \/ CollectConflicts(k) \/ AbortMerge(k)
           \/ PushBranch(k) \/ MergeFails(k)
    PROVE  /\ UNCHANGED rowVars /\ clone \subseteq clone' /\ remote \subseteq remote' /\ GitTypes'
           /\ merge[k].pc \notin {"ready", "done", "closed"}
<1>1. merge[k].pc \notin {"ready", "done", "closed"}
  BY DEF FetchOrigin, FastForward, FetchSource, MergeBranch, TryMerge, MergeConflicts,
         MergeMeetsAnother, CollectConflicts, AbortMerge, PushBranch, MergeFails, At
<1>2. merge[k].branch \in Commits  BY <1>1 DEF IssueInv, MergesOK, MergeOK, Commits
<1>3. GitTypes  BY IssueTypesOfParts DEF IssueInv
<1>4. CASE FetchOrigin(k)  BY <1>1, <1>3, <1>4 DEF FetchOrigin, GitTypes
<1>5. CASE FastForward(k)  BY <1>1, <1>3, <1>5 DEF FastForward, GitTypes
<1>6. CASE FetchSource(k)  BY <1>1, <1>2, <1>3, <1>6 DEF FetchSource, GitTypes
<1>7. CASE MergeBranch(k)  BY <1>1, <1>3, <1>7 DEF MergeBranch, GitTypes
<1>8. CASE TryMerge(k)  BY <1>1, <1>3, <1>8 DEF TryMerge, GitTypes
<1>9. CASE MergeConflicts(k)  BY <1>1, <1>3, <1>9 DEF MergeConflicts, GitTypes
<1>10. CASE AbortMerge(k)  BY <1>1, <1>3, <1>10 DEF AbortMerge, GitTypes
<1>11. CASE PushBranch(k)  BY <1>1, <1>3, <1>11 DEF PushBranch, GitTypes
<1>12. CASE MergeMeetsAnother(k) \/ CollectConflicts(k) \/ MergeFails(k)
  <2>1. UNCHANGED rowVars /\ UNCHANGED gitVars
    BY <1>12 DEF MergeMeetsAnother, CollectConflicts, MergeFails
  <2>. QED  BY <1>1, <2>1, SameGit
<1>. QED  BY <1>4, <1>5, <1>6, <1>7, <1>8, <1>9, <1>10, <1>11, <1>12

\* Each git command moves its request on.
LEMMA GitInv ==
    ASSUME IssueInv, NEW k \in Mergers,
           \/ FetchOrigin(k) \/ FastForward(k) \/ FetchSource(k) \/ MergeBranch(k) \/ TryMerge(k)
           \/ MergeConflicts(k) \/ MergeMeetsAnother(k) \/ CollectConflicts(k) \/ AbortMerge(k)
           \/ PushBranch(k) \/ MergeFails(k)
    PROVE  IssueInv'
<1>1. /\ UNCHANGED rowVars /\ clone \subseteq clone' /\ remote \subseteq remote' /\ GitTypes'
      /\ merge[k].pc \notin {"ready", "done", "closed"}
  BY GitGrows
<1>2. merge' \in [Mergers -> MergeRow] /\ MergesOK' /\ ProvenKept
  <2>1. CASE MergeBranch(k)
    <3>1. merge[k] \in MergeRow /\ fetched \subseteq Commits
      BY IssueTypesOfParts DEF IssueInv, GitTypes
    <3>2. [merge[k] EXCEPT !.pc = "merged", !.took = fetched] \in MergeRow
      BY <3>1 DEF MergeRow, MergePcs
    <3>3. PICK row \in MergeRow :
            /\ row = [merge[k] EXCEPT !.pc = "merged", !.took = fetched]
            /\ row.pc = "merged" /\ row.took = fetched
            /\ row.i = merge[k].i /\ row.branch = merge[k].branch
      BY <3>1, <3>2 DEF MergeRow
    <3>4. merge' = [merge EXCEPT ![k] = row]  BY <2>1, <3>3, IssueTypesOfParts DEF MergeBranch, IssueInv
    <3>5. fetched \subseteq clone'  BY <2>1 DEF MergeBranch
    <3>6. merge[k].i \in RepoBound /\ merge[k].branch \in Sessions
      BY <1>1 DEF IssueInv, MergesOK, MergeOK
    <3>7. MergeOK(row)'  BY <3>3, <3>5, <3>6 DEF MergeOK
    <3>. QED  BY <1>1, <3>4, <3>7, MergeMoves DEF At
  <2>2. CASE PushBranch(k)
    <3>1. GoOn(k, "pushed") /\ merge[k].took \subseteq remote'
      BY <2>2 DEF PushBranch, IssueInv, MergesOK, MergeOK, At
    <3>. QED  BY <1>1, <3>1, GoingOn DEF MergePcs
  <2>3. CASE Ends(k)  BY <1>1, <2>3, Ending DEF At
  <2>4. CASE \E pc \in MergePcs \ {"merged", "pushed", "closed"} : GoOn(k, pc)
    BY <1>1, <2>4, GoingOn
  <2>. QED
    BY <2>1, <2>2, <2>3, <2>4
    DEF FetchOrigin, FastForward, FetchSource, TryMerge, MergeConflicts, MergeMeetsAnother,
        CollectConflicts, AbortMerge, MergeFails, MergePcs
<1>. QED  BY <1>1, <1>2, GitMoves

\* A merge that met a conflict marks its issue.
LEMMA MarkConflictInv ==
    ASSUME IssueInv, NEW k \in Mergers, MarkConflict(k) PROVE IssueInv'
<1>1. UNCHANGED <<session, artifacts, edit>> /\ UNCHANGED gitVars /\ At(k, "unmarked") /\ Ends(k)
  BY DEF MarkConflict
<1>2. GitTypes' /\ clone \subseteq clone' /\ remote \subseteq remote'  BY <1>1, SameGit
<1>3. merge' \in [Mergers -> MergeRow] /\ MergesOK' /\ ProvenKept  BY <1>1, <1>2, Ending DEF At
<1>4. edit' \in [Editors -> EditRow] /\ EditsOK' /\ EditsKept  BY <1>1, SameEdits
<1>5. PICK i \in Issues : i = merge[k].i
  BY <1>1, RepoBoundAssumption DEF At, IssueInv, MergesOK, MergeOK
<1>6. issue' \in [Issues -> IssueRow] /\ BoundOK' /\ PushedOK' /\ StoppedFreesIssue'
  <2>1. CASE TransitionStatus(i, {"in_progress", "conflict"}, WithStatus(i, "conflict"))
    <3>1. issue[i] \in IssueRow /\ "conflict" \in IssueStatuses
      BY IssueTypesOfParts DEF IssueInv, IssueStatuses
    <3>2. PICK row \in IssueRow : row = WithStatus(i, "conflict") /\ row.status = "conflict"
                                 /\ row.by = issue[i].by
      BY <3>1, StatusRow DEF WithStatus
    <3>3. issue' = [issue EXCEPT ![i] = row]  BY <2>1, <3>2 DEF TransitionStatus
    <3>. QED  BY <1>1, <1>3, <1>4, <3>2, <3>3, StatusMoves
  <2>2. CASE UNCHANGED issue  BY <1>1, <1>3, <1>4, <2>2, IssuesStay
  <2>. QED  BY <1>5, <2>1, <2>2 DEF MarkConflict
<1>. QED  BY <1>1, <1>2, <1>3, <1>4, <1>6, Assembled

\* The request that resolves its issue is the proof that it was pushed.
LEMMA ResolveMergedInv ==
    ASSUME IssueInv, NEW k \in Mergers, ResolveMerged(k) PROVE IssueInv'
<1>1. UNCHANGED <<session, artifacts, edit>> /\ UNCHANGED gitVars /\ At(k, "pushed") /\ GoOn(k, "closed")
  BY DEF ResolveMerged
<1>2. GitTypes' /\ clone \subseteq clone' /\ remote \subseteq remote'  BY <1>1, SameGit
<1>3. merge[k].took \subseteq remote'  BY <1>1, <1>2 DEF At, IssueInv, MergesOK, MergeOK
<1>4. merge' \in [Mergers -> MergeRow] /\ MergesOK' /\ ProvenKept
  BY <1>1, <1>2, <1>3, GoingOn DEF At, MergePcs
<1>5. edit' \in [Editors -> EditRow] /\ EditsOK' /\ EditsKept  BY <1>1, SameEdits
<1>6. PICK i \in Issues : i = merge[k].i
  BY <1>1, RepoBoundAssumption DEF At, IssueInv, MergesOK, MergeOK
<1>7. Proven(i)'
  <2>1. PICK row \in MergeRow :
          /\ merge' = [merge EXCEPT ![k] = row] /\ row.pc = "closed"
          /\ row.i = merge[k].i /\ row.took = merge[k].took
    BY <1>1, GoOnRow DEF MergePcs
  <2>2. merge'[k] = row  BY <2>1, IssueTypesOfParts DEF IssueInv
  <2>. QED  BY <1>3, <1>6, <2>1, <2>2 DEF Proven, At
<1>8. merge[k].proof \in Sessions  BY IssueTypesOfParts DEF ResolveMerged, IssueInv
<1>9. PICK row \in IssueRow : /\ row = Resolved(i, merge[k].proof)
                             /\ row.status = "resolved" /\ row.by = issue[i].by
  BY <1>8, IssueTypesOfParts, ResolvedRow DEF IssueInv
<1>10. issue' = [issue EXCEPT ![i] = row]  BY <1>6, <1>9 DEF ResolveMerged, TransitionStatus
<1>11. issue' \in [Issues -> IssueRow] /\ BoundOK' /\ PushedOK' /\ StoppedFreesIssue'
  BY <1>1, <1>4, <1>5, <1>7, <1>9, <1>10, StatusMoves
<1>. QED  BY <1>1, <1>2, <1>4, <1>5, <1>11, Assembled

LEMMA RemoteAdvancesInv ==
    ASSUME IssueInv, NEW x \in Outsiders, RemoteAdvances(x) PROVE IssueInv'
<1>1. UNCHANGED rowVars /\ UNCHANGED <<merge, tree, clone, fetched, tracked>> /\ remote \subseteq remote'
  BY DEF RemoteAdvances
<1>2. GitTypes'  BY <1>1, IssueTypesOfParts DEF RemoteAdvances, IssueInv, GitTypes, Commits
<1>3. merge' \in [Mergers -> MergeRow] /\ MergesOK' /\ ProvenKept  BY <1>1, SameMerges
<1>. QED  BY <1>1, <1>2, <1>3, GitMoves

-----------------------------------------------------------------------------
\* IssueInv is kept by every handler that writes an issue, a meeting or a merge.
THEOREM IssueNextInv == IssueInv /\ [IssueNext]_issueVars => IssueInv'
<1>. SUFFICES ASSUME IssueInv, [IssueNext]_issueVars PROVE IssueInv'  OBVIOUS
<1>1. ASSUME NEW m \in Sessions, SessionStep(m) PROVE IssueInv'
  BY <1>1, ProposeInv, BindMeetingInv, SaveBindingInv, RunInv, CloseIssueInv DEF SessionStep
<1>2. ASSUME NEW m \in Sessions, StopStep(m) PROVE IssueInv'
  BY <1>2, StopInv, ReleaseInv, ReleaseFailsInv, HardDeletedInv DEF StopStep
<1>3. CASE UserStep
  BY <1>3, DeleteIssueInv, AttachInv, PatchReadInv, PatchWriteInv, PatchRefusedInv DEF UserStep
<1>4. ASSUME NEW k \in Mergers, MergeStep(k) PROVE IssueInv'
  BY <1>4, ValidateMergeInv, GitInv, MarkConflictInv, ResolveMergedInv DEF MergeStep
<1>5. ASSUME NEW x \in Outsiders, RemoteAdvances(x) PROVE IssueInv'  BY <1>5, RemoteAdvancesInv
<1>6. CASE UNCHANGED issueVars
  <2>1. UNCHANGED rowVars /\ UNCHANGED <<merge, gitVars>>
    BY <1>6 DEF issueVars, rowVars, gitVars
  <2>2. GitTypes' /\ merge' \in [Mergers -> MergeRow] /\ MergesOK' /\ ProvenKept
    BY <2>1, SameGit, SameMerges
  <2>. QED  BY <2>1, <2>2, GitMoves
<1>. QED  BY <1>1, <1>2, <1>3, <1>4, <1>5, <1>6 DEF IssueNext

\* The invariant holds of every behaviour.
THEOREM IssueInvariant == IssueSpec => []IssueInv
<1>. QED  BY IssueInitInv, IssueNextInv, PTL DEF IssueSpec

\* Every variable keeps its type.
THEOREM IssueTypes == IssueSpec => []IssueTypeOK
<1>1. IssueInv => IssueTypeOK  BY DEF IssueInv
<1>. QED  BY <1>1, IssueInvariant, PTL

-----------------------------------------------------------------------------
(* A request that is the only one merges its own branch.                   *)

LoneOK == \A k \in Mergers : Alone(k) =>
    /\ At(k, "sourced") => fetched = {merge[k].branch}
    /\ merge[k].pc \in {"merged", "pushed", "closed"} => merge[k].branch \in merge[k].took

\* Whoever moves has come.
LEMMA MoverHasCome ==
    ASSUME IssueInv, NEW l \in Mergers, MergeStep(l)
    PROVE  /\ merge'[l].pc # "ready"
           /\ \A k \in Mergers \ {l} : merge'[k] = merge[k]
<1>1. merge \in [Mergers -> MergeRow]  BY IssueTypesOfParts DEF IssueInv
<1>2. ASSUME NEW pc \in MergePcs \ {"ready"}, GoOn(l, pc)
      PROVE  merge'[l].pc # "ready" /\ \A k \in Mergers \ {l} : merge'[k] = merge[k]
  BY <1>1, <1>2 DEF GoOn, MergeRow
<1>3. CASE Ends(l)  BY <1>1, <1>3 DEF Ends, NoMerge
<1>4. CASE \E i \in RepoBound, confirm \in BOOLEAN : ValidateMerge(l, i, confirm)
  BY <1>1, <1>4 DEF ValidateMerge
<1>5. CASE MergeBranch(l)  BY <1>1, <1>5 DEF MergeBranch, MergeRow
<1>. QED
  BY <1>2, <1>3, <1>4, <1>5
  DEF MergeStep, MergePcs, FetchOrigin, FastForward, FetchSource, TryMerge, MergeConflicts, MergeMeetsAnother,
      CollectConflicts, AbortMerge, MarkConflict, PushBranch, ResolveMerged, MergeFails

LEMMA LoneStep ==
    ASSUME IssueInv, NEW k \in Mergers, Alone(k), MergeStep(k),
           At(k, "sourced") => fetched = {merge[k].branch},
           merge[k].pc \in {"merged", "pushed", "closed"} => merge[k].branch \in merge[k].took
    PROVE  /\ At(k, "sourced")' => fetched' = {merge'[k].branch}
           /\ merge'[k].pc \in {"merged", "pushed", "closed"} => merge'[k].branch \in merge'[k].took
<1>1. merge \in [Mergers -> MergeRow]  BY IssueTypesOfParts DEF IssueInv
<1>2. ASSUME NEW pc \in MergePcs, GoOn(k, pc)
      PROVE  merge'[k].pc = pc /\ merge'[k].branch = merge[k].branch /\ merge'[k].took = merge[k].took
  BY <1>1, <1>2 DEF GoOn, MergeRow
<1>3. CASE Ends(k)  BY <1>1, <1>3 DEF Ends, NoMerge, At
<1>4. CASE \E i \in RepoBound, confirm \in BOOLEAN : ValidateMerge(k, i, confirm)
  BY <1>1, <1>4 DEF ValidateMerge, At
<1>5. CASE MergeBranch(k)
  BY <1>1, <1>5 DEF MergeBranch, At, MergeRow
<1>6. CASE FetchSource(k)  BY <1>1, <1>2, <1>6 DEF FetchSource, At, MergePcs
<1>7. CASE PushBranch(k)  BY <1>1, <1>2, <1>7 DEF PushBranch, At, MergePcs
<1>8. CASE ResolveMerged(k)  BY <1>1, <1>2, <1>8 DEF ResolveMerged, At, MergePcs
<1>9. ASSUME NEW pc \in MergePcs \ {"sourced", "merged", "pushed", "closed"}, GoOn(k, pc)
      PROVE  merge'[k].pc \notin {"sourced", "merged", "pushed", "closed"}
  BY <1>2, <1>9
<1>10. CASE CollectConflicts(k)
  <2>. DEFINE pc == IF merge[k].confirm /\ tree = "conflicting" THEN "conflicted" ELSE "aborting"
  <2>1. pc \in MergePcs \ {"sourced", "merged", "pushed", "closed"}  BY DEF MergePcs
  <2>2. GoOn(k, pc)  BY <1>10 DEF CollectConflicts
  <2>. HIDE DEF pc
  <2>. QED  BY <1>9, <2>1, <2>2 DEF At
<1>. QED
  BY <1>3, <1>4, <1>5, <1>6, <1>7, <1>8, <1>9, <1>10
  DEF MergeStep, MergePcs, At, FetchOrigin, FastForward, TryMerge, MergeConflicts, MergeMeetsAnother,
      AbortMerge, MarkConflict, MergeFails

\* LoneOK is kept by every step: another request that comes ends it for good.
LEMMA LoneNext == ASSUME IssueInv, LoneOK, [IssueNext]_issueVars PROVE LoneOK'
<1>1. ASSUME NEW l \in Mergers, MergeStep(l) PROVE LoneOK'
  <2>. SUFFICES ASSUME NEW k \in Mergers, Alone(k)'
                PROVE  /\ At(k, "sourced")' => fetched' = {merge'[k].branch}
                       /\ merge'[k].pc \in {"merged", "pushed", "closed"} =>
                              merge'[k].branch \in merge'[k].took
    BY DEF LoneOK
  <2>1. l = k  BY <1>1, MoverHasCome DEF Alone, At
  <2>2. Alone(k)  BY <1>1, <2>1, MoverHasCome DEF Alone, At
  <2>. QED  BY <1>1, <2>1, <2>2, LoneStep DEF LoneOK
<1>2. CASE UNCHANGED <<merge, fetched>>  BY <1>2 DEF LoneOK, Alone, At
<1>3. ASSUME NEW m \in Sessions, SessionStep(m) \/ StopStep(m) PROVE UNCHANGED <<merge, fetched>>
  BY <1>3 DEF SessionStep, StopStep, gitVars, Propose, BindMeeting, SaveBinding, SaveBindingFails, RunEnds,
              PublishArtifact, CloseIssueAfterPublish, CloseIssueFails, AbortMeeting, DeleteMeeting, Release,
              ReleaseFails, SoftDeleted, HardDeleted
<1>4. CASE UserStep
  BY <1>2, <1>4 DEF UserStep, gitVars, DeleteIssue, Attach, PatchRead, PatchWrite, PatchRefused
<1>5. ASSUME NEW x \in Outsiders, RemoteAdvances(x) PROVE LoneOK'  BY <1>2, <1>5 DEF RemoteAdvances
<1>6. CASE UNCHANGED issueVars  BY <1>2, <1>6 DEF issueVars, gitVars
<1>. QED  BY <1>1, <1>2, <1>3, <1>4, <1>5, <1>6 DEF IssueNext

\* An issue of a repository that nobody closed by hand is resolved only by a merge request
\* for it that has come to its end; whatever this request merged is on origin, however
\* fetches, merges, previews, pushes and requests overlap in the shared clone; and it
\* merged its own branch, if no other request came.
THEOREM ResolvedOnlyWhenPushed == IssueSpec => []ResolvedIsPushed
<1>1. IssueInit => LoneOK  BY DEF IssueInit, LoneOK, At, NoMerge
<1>2. IssueInv /\ LoneOK /\ [IssueNext]_issueVars => LoneOK'  BY LoneNext
<1>3. IssueInv /\ LoneOK => ResolvedIsPushed
  <2>. SUFFICES ASSUME IssueInv, LoneOK, NEW i \in RepoBound \ ByHand, issue[i].status = "resolved"
                PROVE  \E k \in Mergers :
                          /\ At(k, "closed") /\ merge[k].i = i /\ merge[k].took \subseteq remote
                          /\ Alone(k) => merge[k].branch \in merge[k].took
    BY DEF ResolvedIsPushed
  <2>1. PICK k \in Mergers : At(k, "closed") /\ merge[k].i = i /\ merge[k].took \subseteq remote
    BY DEF IssueInv, PushedOK, Proven
  <2>. QED  BY <2>1 DEF LoneOK, At
<1>. QED  BY <1>1, <1>2, <1>3, IssueInvariant, PTL DEF IssueSpec

\* A meeting that was aborted or deleted and for which the release of its issue did not fail
\* leaves it to others, whatever else happens to the issue and to the meeting.
THEOREM StoppedMeetingsHoldNothing == IssueSpec => []StoppedFreesIssue
<1>1. IssueInv => StoppedFreesIssue  BY DEF IssueInv
<1>. QED  BY <1>1, IssueInvariant, PTL

-----------------------------------------------------------------------------
(* The issue table implements IssueProtocol.                               *)

State == [i \in Issues |-> issue[i].status]
Proof == [i \in Issues |-> issue[i].proof]

\* The first state of IssueWorkflow is a first state of the table of transitions.
THEOREM InitRefines == IssueInit => Table!Fresh
  BY DEF IssueInit, Table!Fresh

\* What a row of issue that moves is in the table.
LEMMA TableRow ==
    ASSUME issue \in [Issues -> IssueRow], NEW i \in Issues, NEW row,
           issue' = [issue EXCEPT ![i] = row]
    PROVE  State' = [State EXCEPT ![i] = row.status] /\ Proof' = [Proof EXCEPT ![i] = row.proof]
<1>1. \A j \in Issues : issue'[j] = IF j = i THEN row ELSE issue[j]  OBVIOUS
<1>. QED  BY <1>1 DEF State, Proof

LEMMA AllowedFrom ==
    \A s \in IssueStatuses : \A t \in Table!Allowed[s] : s \in Table!Open
  BY DEF Table!Allowed, Table!Open, IssueStatuses

\* The steps of the table, as they are taken.
LEMMA TableTransition ==
    ASSUME issue \in [Issues -> IssueRow], NEW i \in Issues, NEW to \in Table!Open \cup {"wontfix"},
           issue[i].status \in IssueStatuses, to \in Table!Allowed[issue[i].status],
           NEW row, issue' = [issue EXCEPT ![i] = row],
           row.status = to, row.proof = issue[i].proof, UNCHANGED artifacts
    PROVE  Table!Step
<1>1. State' = [State EXCEPT ![i] = row.status] /\ Proof' = [Proof EXCEPT ![i] = row.proof]
  BY TableRow
<1>2. Proof' = Proof  BY <1>1 DEF Proof
<1>3. State[i] = issue[i].status  BY DEF State
<1>4. to # "resolved"  BY DEF Table!Open
<1>5. Table!Transition(i, to)
  BY <1>1, <1>2, <1>3, <1>4, AllowedFrom DEF Table!Transition, State, Proof
<1>. QED  BY <1>5 DEF Table!Step

LEMMA TableSettle ==
    ASSUME issue \in [Issues -> IssueRow], NEW i \in Issues, NEW p \in Sessions,
           issue[i].status \in Table!Open,
           i \notin RepoBound \/ "resolved" \in Table!Allowed[issue[i].status], p \in artifacts,
           NEW row, issue' = [issue EXCEPT ![i] = row],
           row.status = "resolved", row.proof = p, UNCHANGED artifacts
    PROVE  Table!Step
<1>1. State' = [State EXCEPT ![i] = "resolved"] /\ Proof' = [Proof EXCEPT ![i] = p]
  BY TableRow
<1>2. State[i] = issue[i].status  BY DEF State
<1>3. Table!Settle(i, p)  BY <1>1, <1>2 DEF Table!Settle, Table!Moves, State, Proof
<1>. QED  BY <1>3 DEF Table!Step

LEMMA TablePresent ==
    ASSUME issue \in [Issues -> IssueRow], NEW i \in Issues, NEW p \in Sessions,
           issue[i].status # "deleted", p \in artifacts,
           NEW row, issue' = [issue EXCEPT ![i] = row],
           row.status = issue[i].status, row.proof = p, UNCHANGED artifacts
    PROVE  Table!Step
<1>1. State' = [State EXCEPT ![i] = row.status] /\ Proof' = [Proof EXCEPT ![i] = row.proof]
  BY TableRow
<1>2. State' = State  BY <1>1 DEF State
<1>3. State[i] = issue[i].status  BY DEF State
<1>4. Table!Present(i, p)  BY <1>1, <1>2, <1>3 DEF Table!Present, State, Proof
<1>. QED  BY <1>4 DEF Table!Step

\* A step that keeps statuses, proofs and artifacts is none of the table's.
LEMMA TableStutters ==
    ASSUME UNCHANGED <<issue, artifacts>> PROVE UNCHANGED Table!protocol
  BY DEF Table!protocol

LEMMA BindMeetingRefines ==
    ASSUME IssueInv, NEW m \in Sessions, BindMeeting(m) PROVE [Table!Step]_(Table!protocol)
<1>1. PICK i \in Issues : i = session[m].i  BY DEF BindMeeting, IssueInv, SessionsOK, SessionOK
<1>2. CASE TransitionStatus(i, Bindable, [WithStatus(i, "in_progress") EXCEPT !.by = m])
  <2>2. PICK row \in IssueRow : /\ row = [WithStatus(i, "in_progress") EXCEPT !.by = m]
                               /\ row.status = "in_progress" /\ row.proof = issue[i].proof
    BY BoundRow, IssueTypesOfParts DEF IssueInv
  <2>3. /\ issue[i].status \in IssueStatuses /\ "in_progress" \in Table!Allowed[issue[i].status]
        /\ "in_progress" \in Table!Open
    BY <1>2 DEF TransitionStatus, Bindable, IssueStatuses, Table!Allowed, Table!Open
  <2>4. issue' = [issue EXCEPT ![i] = row]  BY <1>2, <2>2 DEF TransitionStatus
  <2>. QED  BY <2>2, <2>3, <2>4, IssueTypesOfParts, TableTransition DEF BindMeeting, IssueInv
<1>3. CASE UNCHANGED issue  BY <1>3, TableStutters DEF BindMeeting
<1>. QED  BY <1>1, <1>2, <1>3 DEF BindMeeting

LEMMA CloseIssueRefines ==
    ASSUME IssueInv, NEW m \in Sessions, CloseIssueAfterPublish(m) PROVE [Table!Step]_(Table!protocol)
<1>1. PICK i \in Issues : i = session[m].i
  BY DEF CloseIssueAfterPublish, IssueInv, SessionsOK, SessionOK
<1>2. issue[i] \in IssueRow  BY IssueTypesOfParts DEF IssueInv
<1>3. m \in artifacts /\ UNCHANGED artifacts  BY DEF CloseIssueAfterPublish
<1>4. CASE i \in RepoBound
  <2>1. PICK row \in IssueRow : /\ row = [issue[i] EXCEPT !.proof = m]
                               /\ row.status = issue[i].status /\ row.proof = m
    BY <1>2, ProofRow
  <2>2. issue' = [issue EXCEPT ![i] = row] /\ issue[i].status \in IssueStatuses
    BY <1>1, <1>4, <2>1 DEF CloseIssueAfterPublish, TransitionStatus
  <2>3. issue[i].status # "deleted"  BY <2>2 DEF IssueStatuses
  <2>. QED  BY <1>3, <2>1, <2>2, <2>3, IssueTypesOfParts, TablePresent DEF IssueInv
<1>5. CASE i \notin RepoBound
  <2>1. PICK row \in IssueRow : row = Resolved(i, m) /\ row.status = "resolved" /\ row.proof = m
    BY ResolvedRow, IssueTypesOfParts DEF IssueInv
  <2>2. /\ issue' = [issue EXCEPT ![i] = row]
        /\ issue[i].status \in {"open", "scheduled", "in_progress"}
    BY <1>1, <1>5, <2>1 DEF CloseIssueAfterPublish, TransitionStatus
  <2>3. issue[i].status \in Table!Open  BY <2>2 DEF Table!Open
  <2>. QED  BY <1>3, <1>5, <2>1, <2>2, <2>3, IssueTypesOfParts, TableSettle DEF IssueInv
<1>. QED  BY <1>4, <1>5

LEMMA ReleaseRefines ==
    ASSUME IssueInv, NEW m \in Sessions, Release(m) PROVE [Table!Step]_(Table!protocol)
<1>1. PICK i \in Issues : i = session[m].i  BY DEF Release, IssueInv, SessionsOK, SessionOK
<1>2. CASE issue[i].status = "in_progress"
  <2>1. issue[i] \in IssueRow /\ "open" \in IssueStatuses  BY IssueTypesOfParts DEF IssueInv, IssueStatuses
  <2>2. PICK row \in IssueRow : /\ row = [issue[i] EXCEPT !.status = "open"]
                               /\ row.status = "open" /\ row.proof = issue[i].proof
    BY <2>1, StatusRow
  <2>3. issue' = [issue EXCEPT ![i] = row]
    BY <1>1, <1>2, <2>2, IssueTypesOfParts DEF Release, ReleaseIssue, IssueInv
  <2>4. /\ issue[i].status \in IssueStatuses /\ "open" \in Table!Allowed[issue[i].status]
        /\ "open" \in Table!Open
    BY <1>2 DEF IssueStatuses, Table!Allowed, Table!Open
  <2>. QED  BY <2>2, <2>3, <2>4, IssueTypesOfParts, TableTransition DEF Release, IssueInv
<1>3. CASE issue[i].status # "in_progress"
  BY <1>1, <1>3, TableStutters DEF Release, ReleaseIssue
<1>. QED  BY <1>2, <1>3

LEMMA HardDeletedRefines ==
    ASSUME IssueInv, NEW m \in Sessions, HardDeleted(m) PROVE [Table!Step]_(Table!protocol)
<1>1. \A i \in Issues : issue[i] \in IssueRow  BY IssueTypesOfParts DEF IssueInv
<1>2. \A i \in Issues : issue'[i] = [issue[i] EXCEPT !.by = IF @ = m THEN Nil ELSE @,
                                                    !.proof = IF @ = m THEN Nil ELSE @]
  BY DEF HardDeleted
<1>3. \A i \in Issues : /\ issue'[i].status = issue[i].status
                        /\ issue'[i].proof = IF issue[i].proof = m THEN Nil ELSE issue[i].proof
  BY <1>1, <1>2 DEF IssueRow
<1>4. State' = State  BY <1>3 DEF State
<1>5. Proof' = [i \in Issues |-> IF Proof[i] = m THEN Nil ELSE Proof[i]]  BY <1>3 DEF Proof
<1>6. Table!Forget(m)  BY <1>4, <1>5 DEF HardDeleted, Table!Forget, State, Proof
<1>. QED  BY <1>6 DEF Table!Step

LEMMA UserRefines ==
    ASSUME IssueInv, UserStep PROVE [Table!Step]_(Table!protocol)
<1>1. ASSUME NEW i \in Issues, DeleteIssue(i) PROVE [Table!Step]_(Table!protocol)
  <2>1. issue[i] \in IssueRow  BY IssueTypesOfParts DEF IssueInv
  <2>2. [issue[i] EXCEPT !.status = "deleted"] \in IssueRow  BY <2>1 DEF IssueRow
  <2>3. PICK row \in IssueRow : /\ row = [issue[i] EXCEPT !.status = "deleted"]
                               /\ row.status = "deleted" /\ row.proof = issue[i].proof
    BY <2>1, <2>2 DEF IssueRow
  <2>4. issue' = [issue EXCEPT ![i] = row]  BY <1>1, <2>3, IssueTypesOfParts DEF DeleteIssue, IssueInv
  <2>5. State' = [State EXCEPT ![i] = row.status] /\ Proof' = [Proof EXCEPT ![i] = row.proof]
    BY <2>4, TableRow, IssueTypesOfParts DEF IssueInv
  <2>6. Proof' = Proof  BY <2>3, <2>5 DEF Proof
  <2>7. Table!Withdraw(i)  BY <1>1, <2>3, <2>5, <2>6 DEF DeleteIssue, Table!Withdraw, State, Proof
  <2>. QED  BY <2>7 DEF Table!Step
<1>2. ASSUME NEW e \in Editors, NEW i \in Issues, NEW p \in Sessions, Attach(e, i, p)
      PROVE  [Table!Step]_(Table!protocol)
  <2>1. issue[i] \in IssueRow  BY IssueTypesOfParts DEF IssueInv
  <2>2. PICK row \in IssueRow : /\ row = [issue[i] EXCEPT !.proof = p]
                               /\ row.status = issue[i].status /\ row.proof = p
    BY <2>1, ProofRow
  <2>3. issue' = [issue EXCEPT ![i] = row] /\ issue[i].status \in IssueStatuses
    BY <1>2, <2>2 DEF Attach, TransitionStatus
  <2>4. issue[i].status # "deleted"  BY <2>3 DEF IssueStatuses
  <2>. QED  BY <1>2, <2>2, <2>3, <2>4, IssueTypesOfParts, TablePresent DEF Attach, IssueInv
<1>3. ASSUME NEW e \in Editors, PatchWrite(e) PROVE [Table!Step]_(Table!protocol)
  <2>1. PICK i \in Issues : i = edit[e].i  BY <1>3 DEF PatchWrite, IssueInv, EditsOK, EditOK
  <2>2. PICK to \in IssueStatuses : to = edit[e].to  BY IssueTypesOfParts DEF IssueInv, EditRow
  <2>3. /\ issue[i].status \in IssueStatuses /\ to \in Table!Allowed[issue[i].status]
        /\ issue' = [issue EXCEPT ![i] = PatchedRow(e)]
    BY <1>3, <2>1, <2>2, IssueTypesOfParts
    DEF PatchWrite, TransitionStatus, IssueInv, EditsOK, EditOK, EditRow
  <2>4. CASE to = "resolved"
    <3>1. PICK p \in Sessions : p = edit[e].proof /\ p \in artifacts
      BY <1>3, <2>2, <2>4, IssueTypesOfParts DEF PatchWrite, IssueInv
    <3>2. PICK row \in IssueRow : row = PatchedRow(e) /\ row.status = "resolved" /\ row.proof = p
      BY <2>1, <2>2, <2>4, <3>1, ResolvedRow, IssueTypesOfParts DEF PatchedRow, IssueInv
    <3>3. issue[i].status \in Table!Open  BY <2>3, AllowedFrom
    <3>. QED  BY <1>3, <2>3, <2>4, <3>1, <3>2, <3>3, IssueTypesOfParts, TableSettle
              DEF PatchWrite, IssueInv
  <2>5. CASE to # "resolved"
    <3>1. issue[i] \in IssueRow  BY IssueTypesOfParts DEF IssueInv
    <3>2. PICK row \in IssueRow : /\ row = PatchedRow(e) /\ row.status = to
                                 /\ row.proof = issue[i].proof
      BY <2>1, <2>2, <2>5, <3>1, StatusRow DEF PatchedRow, WithStatus
    <3>3. to \in Table!Open \cup {"wontfix"}  BY <2>5 DEF IssueStatuses, Table!Open
    <3>. QED  BY <1>3, <2>3, <3>2, <3>3, IssueTypesOfParts, TableTransition DEF PatchWrite, IssueInv
  <2>. QED  BY <2>4, <2>5
<1>4. ASSUME NEW e \in Editors,
             PatchRefused(e) \/ \E i \in Issues, to \in IssueStatuses, p \in Sessions \cup {Nil} : PatchRead(e, i, to, p)
      PROVE  [Table!Step]_(Table!protocol)
  BY <1>4, TableStutters DEF PatchRefused, PatchRead
<1>. QED  BY <1>1, <1>2, <1>3, <1>4 DEF UserStep

LEMMA MergeRefines ==
    ASSUME IssueInv, NEW k \in Mergers, MergeStep(k) PROVE [Table!Step]_(Table!protocol)
<1>1. CASE MarkConflict(k) /\ issue' # issue
  <2>1. PICK i \in Issues : i = merge[k].i
    BY <1>1, RepoBoundAssumption DEF MarkConflict, At, IssueInv, MergesOK, MergeOK
  <2>2. issue[i] \in IssueRow /\ "conflict" \in IssueStatuses
    BY IssueTypesOfParts DEF IssueInv, IssueStatuses
  <2>3. PICK row \in IssueRow : /\ row = WithStatus(i, "conflict") /\ row.status = "conflict"
                               /\ row.proof = issue[i].proof
    BY <2>2, StatusRow DEF WithStatus
  <2>4. issue' = [issue EXCEPT ![i] = row] /\ issue[i].status \in {"in_progress", "conflict"}
    BY <1>1, <2>1, <2>3 DEF MarkConflict, TransitionStatus
  <2>5. CASE issue[i].status = "in_progress"
    <3>1. /\ issue[i].status \in IssueStatuses /\ "conflict" \in Table!Allowed[issue[i].status]
          /\ "conflict" \in Table!Open
      BY <2>5 DEF IssueStatuses, Table!Allowed, Table!Open
    <3>. QED  BY <1>1, <2>3, <2>4, <3>1, IssueTypesOfParts, TableTransition DEF MarkConflict, IssueInv
  <2>6. CASE issue[i].status = "conflict"
    <3>1. State' = [State EXCEPT ![i] = row.status] /\ Proof' = [Proof EXCEPT ![i] = row.proof]
      BY <2>4, TableRow, IssueTypesOfParts DEF IssueInv
    <3>2. State' = State /\ Proof' = Proof  BY <2>3, <2>6, <3>1 DEF State, Proof
    <3>. QED  BY <1>1, <3>2 DEF MarkConflict, Table!protocol, State, Proof
  <2>. QED  BY <2>4, <2>5, <2>6
<1>2. CASE ResolveMerged(k)
  <2>1. PICK i \in Issues : i = merge[k].i
    BY <1>2, RepoBoundAssumption DEF ResolveMerged, At, IssueInv, MergesOK, MergeOK
  <2>2. PICK p \in Sessions : p = merge[k].proof /\ p \in artifacts
    BY <1>2, IssueTypesOfParts DEF ResolveMerged, IssueInv
  <2>3. PICK row \in IssueRow : row = Resolved(i, p) /\ row.status = "resolved" /\ row.proof = p
    BY ResolvedRow, IssueTypesOfParts DEF IssueInv
  <2>4. issue' = [issue EXCEPT ![i] = row] /\ issue[i].status \in {"in_progress", "conflict"}
    BY <1>2, <2>1, <2>2, <2>3 DEF ResolveMerged, TransitionStatus
  <2>5. issue[i].status \in Table!Open /\ "resolved" \in Table!Allowed[issue[i].status]
    BY <2>4 DEF Table!Open, Table!Allowed
  <2>. QED  BY <1>2, <2>2, <2>3, <2>4, <2>5, IssueTypesOfParts, TableSettle DEF ResolveMerged, IssueInv
<1>3. CASE UNCHANGED <<issue, artifacts>>  BY <1>3, TableStutters
<1>4. \/ MarkConflict(k) /\ issue' # issue
      \/ ResolveMerged(k)
      \/ UNCHANGED <<issue, artifacts>>
  BY DEF MergeStep, ValidateMerge, FetchOrigin, FastForward, FetchSource, MergeBranch, TryMerge,
         MergeConflicts, MergeMeetsAnother, CollectConflicts, AbortMerge, MarkConflict, PushBranch,
         MergeFails, rowVars
<1>. QED  BY <1>1, <1>2, <1>3, <1>4

\* Every step of the handlers is a step of the table of transitions or a stutter.
THEOREM NextRefines == IssueInv /\ [IssueNext]_issueVars => [Table!Step]_(Table!protocol)
<1>. SUFFICES ASSUME IssueInv, [IssueNext]_issueVars PROVE [Table!Step]_(Table!protocol)  OBVIOUS
<1>1. ASSUME NEW m \in Sessions, PublishArtifact(m) PROVE [Table!Step]_(Table!protocol)
  <2>1. Table!Appear(m)  BY <1>1 DEF PublishArtifact, Table!Appear
  <2>. QED  BY <2>1 DEF Table!Step
<1>2. ASSUME NEW m \in Sessions,
             \/ SaveBinding(m) \/ SaveBindingFails(m) \/ RunEnds(m) \/ CloseIssueFails(m)
             \/ AbortMeeting(m) \/ DeleteMeeting(m) \/ ReleaseFails(m) \/ SoftDeleted(m)
             \/ \E i \in Issues : Propose(m, i)
      PROVE  [Table!Step]_(Table!protocol)
  BY <1>2, TableStutters
  DEF SaveBinding, SaveBindingFails, RunEnds, CloseIssueFails, AbortMeeting, DeleteMeeting,
      ReleaseFails, SoftDeleted, Propose
<1>3. ASSUME NEW m \in Sessions, SessionStep(m) \/ StopStep(m)
      PROVE  [Table!Step]_(Table!protocol)
  BY <1>1, <1>2, <1>3, BindMeetingRefines, CloseIssueRefines, ReleaseRefines, HardDeletedRefines
  DEF SessionStep, StopStep
<1>4. ASSUME NEW x \in Outsiders, RemoteAdvances(x) PROVE [Table!Step]_(Table!protocol)
  BY <1>4, TableStutters DEF RemoteAdvances, rowVars
<1>5. CASE UNCHANGED issueVars  BY <1>5, TableStutters DEF issueVars
<1>. QED  BY <1>3, <1>4, <1>5, UserRefines, MergeRefines DEF IssueNext

\* Whatever meetings, users and merges do to it, and in whatever order, the issue table moves
\* as its table of transitions says and closes issues only with artifacts that are there.
THEOREM TableImplementsProtocol == IssueSpec => IssuesFollowProtocol
<1>. QED  BY IssueInvariant, InitRefines, NextRefines, PTL DEF IssueSpec, IssuesFollowProtocol, Table!Protocol

=============================================================================
