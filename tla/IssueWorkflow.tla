----------------------------- MODULE IssueWorkflow -----------------------------
(***************************************************************************)
(* Issues from their pool to their closing: meetings are created for them, *)
(* publish artifacts, are aborted and deleted; users PATCH and delete      *)
(* them; POST /merge brings a meeting's branch into the clone all meetings *)
(* of the project share, pushes it, and closes the issue.                  *)
(*                                                                         *)
(* A branch is named by its meeting, and so is the meeting's artifact; a   *)
(* history is the set of branches merged into it.  Each git command is an  *)
(* awaited subprocess, and nothing locks the clone.                        *)
(***************************************************************************)
EXTENDS Naturals, FiniteSets

CONSTANTS
    Issues,
    RepoBound,   \* issues of the project that has a repo_url
    ByHand,      \* issues somebody may PATCH to resolved
    Sessions,    \* meetings to be created for issues
    Stoppable,   \* meetings somebody may abort or delete
    Deletable,   \* issues somebody may delete
    Editors,     \* PATCH requests
    Mergers,     \* POST /merge requests
    Outsiders,   \* commits others push to the default branch
    MaxRequests, \* bound: how many requests, deletions and foreign pushes there are
    Nil          \* Python's None

ASSUME RepoBoundAssumption == RepoBound \subseteq Issues /\ ByHand \subseteq Issues
ASSUME NilAssumption == Nil \notin Sessions \cup Issues
ASSUME RequestsAssumption == MaxRequests \in Nat

VARIABLES
    issue,    \* rows of issues
    session,  \* meetings: their issue and who knows of it, the run, the handler that
              \* stops them, and (history) what release_issue did for it
    artifacts, \* meetings whose artifact is in the table
    edit,     \* PATCH handlers between their read and their write
    merge,    \* POST /merge handlers
    tree,     \* working tree of the shared clone: "clean", or in a merge that is
              \* "trying" (a preview) or "conflicting"
    clone,    \* history of the shared clone's branch
    fetched,  \* history FETCH_HEAD stands for
    tracked,  \* history of its origin/<default_branch>
    remote    \* history of origin

gitVars   == <<tree, clone, fetched, tracked, remote>>
issueVars == <<issue, session, artifacts, edit, merge, gitVars>>

IssueStatuses == {"open", "scheduled", "in_progress", "conflict", "resolved", "wontfix"}
Table == INSTANCE IssueProtocol WITH Rows <- Issues, Documents <- Issues \ RepoBound,
                                     Proofs <- Sessions, Nothing <- Nil,
                                     state <- [i \in Issues |-> issue[i].status],
                                     proof <- [i \in Issues |-> issue[i].proof], known <- artifacts

NoEdit  == [pc |-> "ready", i |-> Nil, from |-> "open", to |-> "open", proof |-> Nil]
NoMerge == [pc |-> "ready", confirm |-> FALSE, i |-> Nil, branch |-> Nil, proof |-> Nil, took |-> {}]
Unmade  == [i |-> Nil, run |-> "new", stop |-> "no", told |-> "nobody", freed |-> "no"]
Unbound == [Unmade EXCEPT !.run = "over", !.stop = "gone"]

IssueInit == /\ issue = [i \in Issues |-> [status |-> "open", by |-> Nil, proof |-> Nil]]
             /\ session = [m \in Sessions |-> Unmade]
             /\ artifacts = {}
             /\ edit = [e \in Editors |-> NoEdit]
             /\ merge = [k \in Mergers |-> NoMerge]
             /\ tree = "clean"
             /\ clone = {} /\ fetched = {} /\ tracked = {} /\ remote = {}

-----------------------------------------------------------------------------
(* transition_status: UPDATE ... WHERE status IN (expected)                *)

TransitionStatus(i, expected, row) ==
    /\ issue[i].status \in expected
    /\ issue' = [issue EXCEPT ![i] = row]

WithStatus(i, to) == [issue[i] EXCEPT !.status = to]
Resolved(i, p)    == [issue[i] EXCEPT !.status = "resolved", !.proof = p]

\* One more request, deletion or foreign push comes.
Made == {e \in Editors : edit[e].pc # "ready"} \cup {k \in Mergers : merge[k].pc # "ready"}
        \cup {i \in Issues : issue[i].status = "deleted"} \cup (remote \cap Outsiders)
MayRequest == Cardinality(Made) < MaxRequests

Phase(m, pc) == session' = [session EXCEPT ![m].run = pc]
Stop(m, pc)  == session' = [session EXCEPT ![m].stop = pc]

-----------------------------------------------------------------------------
(* POST /api/meetings with an issue_id                                     *)

Bindable == {"open", "scheduled", "conflict"}

\* The meeting's row is saved without its issue, which is bound to it next.
Propose(m, i) ==
    /\ session[m].run = "new" /\ issue[i].status \in Bindable
    /\ session' = [session EXCEPT ![m] = [Unmade EXCEPT !.i = i, !.run = "saved"]]
    /\ UNCHANGED <<issue, artifacts, edit, merge, gitVars>>

\* An issue that is not bindable any more takes the meeting's row with it.
BindMeeting(m) ==
    /\ session[m].run = "saved"
    /\ LET i == session[m].i
       IN  \/ /\ TransitionStatus(i, Bindable, [WithStatus(i, "in_progress") EXCEPT !.by = m])
              /\ Phase(m, "bound")
           \/ /\ issue[i].status \notin Bindable
              /\ session' = [session EXCEPT ![m] = Unbound]
              /\ UNCHANGED issue
    /\ UNCHANGED <<artifacts, edit, merge, gitVars>>

\* state.issue_id is set, and the second save puts it in the row: an upsert, which also
\* brings back a row deleted meanwhile.
SaveBinding(m) ==
    /\ session[m].run = "bound"
    /\ session' = [session EXCEPT ![m].run = "running", ![m].told = "row",
                                  ![m].stop = IF @ = "gone" THEN "no" ELSE @]
    /\ UNCHANGED <<issue, artifacts, edit, merge, gitVars>>

\* The answer of bind_meeting is lost, or the second save fails.
SaveBindingFails(m) ==
    /\ session[m].run = "bound"
    /\ \/ session' = [session EXCEPT ![m].run = "over"]
       \/ session' = [session EXCEPT ![m].run = "running", ![m].told = "state"]
    /\ UNCHANGED <<issue, artifacts, edit, merge, gitVars>>

-----------------------------------------------------------------------------
(* The end of a run: publish_and_notify, or nothing to publish.            *)

RunEnds(m) ==
    /\ session[m].run = "running"
    /\ Phase(m, "over")
    /\ UNCHANGED <<issue, artifacts, edit, merge, gitVars>>

PublishArtifact(m) ==
    /\ session[m].run = "running" /\ session[m].stop # "gone"
    /\ artifacts' = artifacts \cup {m}
    /\ Phase(m, "publishing")
    /\ UNCHANGED <<issue, edit, merge, gitVars>>

\* The issue of a repository only gets its proof, whatever its status; a document
\* closes it.
CloseIssueAfterPublish(m) ==
    /\ session[m].run = "publishing" /\ m \in artifacts
    /\ LET i == session[m].i
       IN  IF i \in RepoBound
           THEN TransitionStatus(i, IssueStatuses, [issue[i] EXCEPT !.proof = m])
           ELSE TransitionStatus(i, {"open", "scheduled", "in_progress"}, Resolved(i, m))
    /\ Phase(m, "over")
    /\ UNCHANGED <<artifacts, edit, merge, gitVars>>

\* The issue is not there or not open any more, the artifact was purged, or the
\* database failed: the exception is logged.
CloseIssueFails(m) ==
    /\ session[m].run = "publishing"
    /\ Phase(m, "over")
    /\ UNCHANGED <<issue, artifacts, edit, merge, gitVars>>

-----------------------------------------------------------------------------
(* The abort signal over REST, and DELETE of a meeting                     *)

Created(m) == session[m].run # "new"

\* The state tells whose issue is to be released; it learns it while the meeting is bound.
AbortMeeting(m) ==
    /\ m \in Stoppable /\ Created(m) /\ session[m].stop = "no"
    /\ \/ (session[m].told # "nobody" \/ session[m].run = "bound") /\ Stop(m, "aborting")
       \/ session[m].told = "nobody" /\ Stop(m, "aborted")
    /\ UNCHANGED <<issue, artifacts, edit, merge, gitVars>>

\* What is to be released is what the row says now.
DeleteMeeting(m) ==
    /\ m \in Stoppable /\ Created(m) /\ session[m].stop \in {"no", "aborted"}
    /\ Stop(m, IF session[m].told = "row" THEN "deleting" ELSE "released")
    /\ UNCHANGED <<issue, artifacts, edit, merge, gitVars>>

\* release_issue does not look at assigned_meeting_id, and leaves it.
ReleaseIssue(i) ==
    IF issue[i].status = "in_progress"
    THEN issue' = [issue EXCEPT ![i].status = "open"]
    ELSE UNCHANGED issue

Freed(m, how) ==
    session' = [session EXCEPT ![m].stop = IF @ = "aborting" THEN "aborted" ELSE "released",
                               ![m].freed = how]

\* Mutant: release expects the issue in its pool.
ReleaseLate(m) ==
    /\ session[m].stop \in {"aborting", "deleting"}
    /\ IF issue[session[m].i].status = "scheduled"
       THEN issue' = [issue EXCEPT ![session[m].i].status = "open"]
       ELSE UNCHANGED issue
    /\ Freed(m, "yes")
    /\ UNCHANGED <<artifacts, edit, merge, gitVars>>

Release(m) ==
    /\ session[m].stop \in {"aborting", "deleting"}
    /\ ReleaseIssue(session[m].i)
    /\ Freed(m, "yes")
    /\ UNCHANGED <<artifacts, edit, merge, gitVars>>

\* Both callers log the exception and go on.
ReleaseFails(m) ==
    /\ session[m].stop \in {"aborting", "deleting"}
    /\ Freed(m, IF session[m].freed = "yes" THEN "yes" ELSE "failed")
    /\ UNCHANGED <<issue, artifacts, edit, merge, gitVars>>

\* A soft deletion keeps the rows.
SoftDeleted(m) ==
    /\ session[m].stop = "released"
    /\ Stop(m, "gone")
    /\ UNCHANGED <<issue, artifacts, edit, merge, gitVars>>

\* A hard one takes the artifacts with it, and the foreign keys of the issues become null;
\* a meeting that is not bound yet cannot be bound any more.
HardDeleted(m) ==
    /\ session[m].stop = "released"
    /\ session' = [session EXCEPT ![m] = IF @.run = "saved" THEN Unbound ELSE [@ EXCEPT !.stop = "gone"]]
    /\ artifacts' = artifacts \ {m}
    /\ issue' = [i \in Issues |->
                    [issue[i] EXCEPT !.by = IF @ = m THEN Nil ELSE @,
                                     !.proof = IF @ = m THEN Nil ELSE @]]
    /\ UNCHANGED <<edit, merge, gitVars>>

-----------------------------------------------------------------------------
(* PATCH and DELETE of an issue                                            *)

Patching(e, pc) == edit' = [edit EXCEPT ![e].pc = pc]

\* Without a status in the request, the artifact is attached whatever the issue's status.
Attach(e, i, p) ==
    /\ edit[e].pc = "ready" /\ MayRequest /\ p \in artifacts
    /\ TransitionStatus(i, IssueStatuses, [issue[i] EXCEPT !.proof = p])
    /\ Patching(e, "done")
    /\ UNCHANGED <<session, artifacts, merge, gitVars>>

\* transition_issue reads the row, and then updates it if its status is still the same.
\* To be resolved, it takes the artifact the request names, or else the row's.
PatchRead(e, i, to, p) ==
    /\ edit[e].pc = "ready" /\ MayRequest /\ issue[i].status \in IssueStatuses
    /\ to \in Table!Allowed[issue[i].status]
    /\ IF to = "resolved" THEN i \in ByHand /\ p \in Sessions ELSE p = Nil
    /\ edit' = [edit EXCEPT ![e] = [pc |-> "read", i |-> i, from |-> issue[i].status,
                                    to |-> to, proof |-> p]]
    /\ UNCHANGED <<issue, session, artifacts, merge, gitVars>>

PatchedRow(e) == IF edit[e].to = "resolved" THEN Resolved(edit[e].i, edit[e].proof)
                                            ELSE WithStatus(edit[e].i, edit[e].to)

PatchWrite(e) ==
    /\ edit[e].pc = "read"
    /\ edit[e].to = "resolved" => edit[e].proof \in artifacts
    /\ TransitionStatus(edit[e].i, {edit[e].from}, PatchedRow(e))
    /\ Patching(e, "done")
    /\ UNCHANGED <<session, artifacts, merge, gitVars>>

PatchRefused(e) ==
    /\ edit[e].pc = "read"
    /\ \/ issue[edit[e].i].status # edit[e].from
       \/ edit[e].to = "resolved" /\ edit[e].proof \notin artifacts
    /\ Patching(e, "done")
    /\ UNCHANGED <<issue, session, artifacts, merge, gitVars>>

DeleteIssue(i) ==
    /\ i \in Deletable /\ issue[i].status # "deleted" /\ MayRequest
    /\ issue' = [issue EXCEPT ![i].status = "deleted"]
    /\ UNCHANGED <<session, artifacts, edit, merge, gitVars>>

-----------------------------------------------------------------------------
(* execute_merge, and with confirm = FALSE preview_merge.                  *)

At(k, pc)    == merge[k].pc = pc
GoOn(k, pc)  == merge' = [merge EXCEPT ![k].pc = pc]
Ends(k)      == merge' = [merge EXCEPT ![k] = [NoMerge EXCEPT !.pc = "done"]]
rowVars      == <<issue, session, artifacts, edit>>

ValidateMerge(k, i, confirm) ==
    /\ At(k, "ready") /\ MayRequest /\ i \in RepoBound
    /\ issue[i].status \in {"in_progress", "conflict"}
    /\ issue[i].by # Nil /\ (confirm => issue[i].proof # Nil)
    /\ merge' = [merge EXCEPT ![k] = [pc |-> "validated", confirm |-> confirm, i |-> i,
                                      branch |-> issue[i].by, proof |-> issue[i].proof, took |-> {}]]
    /\ UNCHANGED <<rowVars, gitVars>>

\* ensure_shared_clone: git fetch origin <branch>.
FetchOrigin(k) ==
    /\ At(k, "validated")
    /\ fetched' = remote /\ tracked' = remote
    /\ GoOn(k, "fetched")
    /\ UNCHANGED <<rowVars, tree, clone, remote>>

\* Mutant: git reset --hard instead of git merge --ff-only.
ResetClone(k) ==
    /\ At(k, "fetched") /\ tree = "clean"
    /\ clone' = tracked
    /\ GoOn(k, "synced")
    /\ UNCHANGED <<rowVars, tree, fetched, tracked, remote>>

\* git merge --ff-only: a clone that has diverged is left to a human.
FastForward(k) ==
    /\ At(k, "fetched") /\ tree = "clean"
    /\ \/ clone \subseteq tracked /\ clone' = tracked
       \/ tracked \subseteq clone /\ UNCHANGED clone
    /\ GoOn(k, "synced")
    /\ UNCHANGED <<rowVars, tree, fetched, tracked, remote>>

\* git fetch <source> HEAD.
FetchSource(k) ==
    /\ At(k, "synced")
    /\ fetched' = {merge[k].branch}
    /\ GoOn(k, "sourced")
    /\ UNCHANGED <<rowVars, tree, clone, tracked, remote>>

\* git merge FETCH_HEAD: whatever was fetched last.
MergeBranch(k) ==
    /\ At(k, "sourced") /\ merge[k].confirm /\ tree = "clean"
    /\ clone' = clone \cup fetched
    /\ merge' = [merge EXCEPT ![k].pc = "merged", ![k].took = fetched]
    /\ UNCHANGED <<rowVars, tree, fetched, tracked, remote>>

\* git merge --no-commit FETCH_HEAD, in a preview.
TryMerge(k) ==
    /\ At(k, "sourced") /\ ~merge[k].confirm /\ tree = "clean"
    /\ tree' = IF fetched \subseteq clone THEN "clean" ELSE "trying"
    /\ GoOn(k, "aborting")
    /\ UNCHANGED <<rowVars, clone, fetched, tracked, remote>>

MergeConflicts(k) ==
    /\ At(k, "sourced") /\ tree = "clean" /\ ~(fetched \subseteq clone)
    /\ tree' = "conflicting"
    /\ GoOn(k, "stopped")
    /\ UNCHANGED <<rowVars, clone, fetched, tracked, remote>>

\* git merge fails because the clone is in the middle of another handler's merge.
MergeMeetsAnother(k) ==
    /\ At(k, "sourced") /\ tree # "clean"
    /\ GoOn(k, "stopped")
    /\ UNCHANGED <<rowVars, gitVars>>

\* Conflicting files, another handler's included, are this one's conflict.
CollectConflicts(k) ==
    /\ At(k, "stopped")
    /\ GoOn(k, IF merge[k].confirm /\ tree = "conflicting" THEN "conflicted" ELSE "aborting")
    /\ UNCHANGED <<rowVars, gitVars>>

\* git merge --abort, whosoever's merge it is.
AbortMerge(k) ==
    /\ At(k, "conflicted") \/ At(k, "aborting")
    /\ tree' = "clean"
    /\ IF At(k, "conflicted") THEN GoOn(k, "unmarked") ELSE Ends(k)
    /\ UNCHANGED <<rowVars, clone, fetched, tracked, remote>>

MarkConflict(k) ==
    /\ At(k, "unmarked")
    /\ LET i == merge[k].i
       IN  \/ TransitionStatus(i, {"in_progress", "conflict"}, WithStatus(i, "conflict"))
           \/ issue[i].status \notin {"in_progress", "conflict"} /\ UNCHANGED issue
    /\ Ends(k)
    /\ UNCHANGED <<session, artifacts, edit, gitVars>>

\* The whole branch is pushed, what an earlier push left in the clone included.
PushBranch(k) ==
    /\ At(k, "merged") /\ remote \subseteq clone
    /\ remote' = clone /\ tracked' = clone
    /\ GoOn(k, "pushed")
    /\ UNCHANGED <<rowVars, tree, clone, fetched>>

\* Mutant: the artifact read at the start is taken to be there still.
ResolveUnchecked(k) ==
    /\ At(k, "pushed")
    /\ TransitionStatus(merge[k].i, {"in_progress", "conflict"}, Resolved(merge[k].i, merge[k].proof))
    /\ GoOn(k, "closed")
    /\ UNCHANGED <<session, artifacts, edit, gitVars>>

\* transition_issue with the proof that was read at the start.
ResolveMerged(k) ==
    /\ At(k, "pushed") /\ merge[k].proof \in artifacts
    /\ TransitionStatus(merge[k].i, {"in_progress", "conflict"}, Resolved(merge[k].i, merge[k].proof))
    /\ GoOn(k, "closed")
    /\ UNCHANGED <<session, artifacts, edit, gitVars>>

\* Any command, the final transition included, may fail: what was done stays.
MergeFails(k) ==
    /\ merge[k].pc \in {"validated", "fetched", "synced", "sourced", "merged", "pushed", "unmarked"}
    /\ Ends(k)
    /\ UNCHANGED <<rowVars, gitVars>>

RemoteAdvances(x) ==
    /\ x \notin remote /\ MayRequest
    /\ remote' = remote \cup {x}
    /\ UNCHANGED <<rowVars, merge, tree, clone, fetched, tracked>>

-----------------------------------------------------------------------------
SessionStep(m) == \/ \E i \in Issues : Propose(m, i)
                  \/ BindMeeting(m) \/ SaveBinding(m) \/ SaveBindingFails(m)
                  \/ RunEnds(m) \/ PublishArtifact(m)
                  \/ CloseIssueAfterPublish(m) \/ CloseIssueFails(m)

StopStep(m) == \/ AbortMeeting(m) \/ DeleteMeeting(m) \/ Release(m) \/ ReleaseFails(m)
               \/ SoftDeleted(m) \/ HardDeleted(m)

UserStep == \/ \E i \in Issues : DeleteIssue(i)
            \/ \E e \in Editors :
                  \/ \E i \in Issues, p \in Sessions : Attach(e, i, p)
                  \/ \E i \in Issues, to \in IssueStatuses, p \in Sessions \cup {Nil} : PatchRead(e, i, to, p)
                  \/ PatchWrite(e) \/ PatchRefused(e)

MergeStep(k) == \/ \E i \in RepoBound, confirm \in BOOLEAN : ValidateMerge(k, i, confirm)
                \/ FetchOrigin(k) \/ FastForward(k) \/ FetchSource(k)
                \/ MergeBranch(k) \/ TryMerge(k) \/ MergeConflicts(k) \/ MergeMeetsAnother(k)
                \/ CollectConflicts(k) \/ AbortMerge(k) \/ MarkConflict(k)
                \/ PushBranch(k) \/ ResolveMerged(k) \/ MergeFails(k)

IssueNext == \/ \E m \in Sessions : SessionStep(m) \/ StopStep(m)
             \/ UserStep
             \/ \E k \in Mergers : MergeStep(k)
             \/ \E x \in Outsiders : RemoteAdvances(x)

IssueSpec == IssueInit /\ [][IssueNext]_issueVars

-----------------------------------------------------------------------------
\* Every variable keeps its type.
IssueTypeOK ==
    /\ issue \in [Issues -> [status : IssueStatuses \cup {"deleted"},
                             by : Sessions \cup {Nil}, proof : Sessions \cup {Nil}]]
    /\ session \in [Sessions -> [i : Issues \cup {Nil},
                                 run : {"new", "saved", "bound", "running", "publishing", "over"},
                                 stop : {"no", "aborting", "aborted", "deleting", "released", "gone"},
                                 told : {"nobody", "state", "row"}, freed : {"no", "yes", "failed"}]]
    /\ artifacts \subseteq Sessions
    /\ edit \in [Editors -> [pc : {"ready", "read", "done"}, i : Issues \cup {Nil}, from : IssueStatuses, to : IssueStatuses,
                             proof : Sessions \cup {Nil}]]
    /\ merge \in [Mergers -> [pc : {"ready", "validated", "fetched", "synced", "sourced", "merged", "stopped",
                                    "conflicted", "aborting", "unmarked", "pushed", "done", "closed"},
                              confirm : BOOLEAN, i : Issues \cup {Nil}, branch : Sessions \cup {Nil},
                              proof : Sessions \cup {Nil}, took : SUBSET (Sessions \cup Outsiders)]]
    /\ tree \in {"clean", "trying", "conflicting"}
    /\ clone \subseteq Sessions \cup Outsiders /\ fetched \subseteq Sessions \cup Outsiders
    /\ tracked \subseteq Sessions \cup Outsiders /\ remote \subseteq Sessions \cup Outsiders

\* However users, publications, aborts and merges overlap, an issue moves along the
\* table of transitions, leaves no final status, and is closed only with an artifact
\* that is there.
IssuesFollowProtocol == Table!Protocol

Alone(k) == \A l \in Mergers \ {k} : At(l, "ready")

\* An issue of a repository that nobody closed by hand is resolved only by a merge request
\* for it, and all that this request has merged is on origin, however many handlers fetch,
\* preview, abort and push in the same clone.  Its own branch is merged for certain only
\* when no other request has come: another one's fetch may replace FETCH_HEAD between the
\* two git commands (merge_service.py:289, 295), and the issue is resolved all the same.
ResolvedIsPushed ==
    \A i \in RepoBound \ ByHand :
        issue[i].status = "resolved" =>
            \E k \in Mergers : /\ At(k, "closed") /\ merge[k].i = i /\ merge[k].took \subseteq remote
                               /\ Alone(k) => merge[k].branch \in merge[k].took

\* A meeting that was aborted or deleted, and for which release_issue has been called and
\* did not fail, does not keep its issue from the pool, unless somebody has put it back to
\* work by hand.
StoppedFreesIssue ==
    \A i \in Issues, m \in Sessions :
        issue[i].status = "in_progress" /\ issue[i].by = m /\ session[m].freed = "yes"
        => \E e \in Editors : edit[e].i = i /\ edit[e].to = "in_progress"

=============================================================================
