---------------------------- MODULE ServiceProduction ----------------------------
(***************************************************************************)
(* produce_node for a deployable service: the generated files are written  *)
(* over the meeting's workspace, mended, checked, scanned, deployed from   *)
(* the workspace and tested, and the execution report sums it up.  A       *)
(* quality iteration does it again on the same workspace, which keeps the  *)
(* files the new tree does not have, or has empty.                         *)
(***************************************************************************)
EXTENDS Integers

CONSTANTS
    Files,          \* paths a generated tree may have, each in one spelling
    Outside,        \* those with "..", which are not written
    Amended,        \* app/main.py and Dockerfile, which are mended on the disk
    Inits,          \* the __init__.py of packages, which are made if they are missing
    MaxIterations   \* max_iterations of the quality gate

ASSUME IterationsAssumption == MaxIterations \in Nat

VARIABLES
    making,     \* "generate", "write", "scan", "deploy", "test", "report", "judge" or "over"
    effective,  \* effective_tree: the files of this iteration
    workspace,  \* the files on disk
    served,     \* the files the meeting's service runs, NoFiles when it has none
    checks,     \* [review, scan, deployed, tests]: review_passed, code_review,
                \* deployment.ok and test_results of this iteration
    execution,  \* exit_code of the report: "none", "success" or "failure"
    iteration

productionVars == <<making, effective, workspace, served, checks, execution, iteration>>

\* The syntax check refuses a broken file; a flawed one has a pattern of critical severity.
\* A mended file was sound: the endpoint /health, or the installation of curl, was put in.
Content == {"sound", "broken", "flawed", "empty"}
OnDisk  == Content \cup {"mended"}
Trees   == UNION {[S -> Content] : S \in SUBSET Files}
Disks   == UNION {[S -> OnDisk] : S \in SUBSET Files}
NoFiles == <<>>
Has(files, content) == \E f \in DOMAIN files : files[f] = content

Unchecked == [review |-> TRUE, scan |-> "none", deployed |-> FALSE, tests |-> "none"]

ProductionInit ==
    /\ making = "generate" /\ effective = NoFiles /\ workspace = NoFiles /\ served = NoFiles
    /\ checks = Unchecked /\ execution = "none" /\ iteration = 0

\* Phases, or the single call they fall back to; a generation without files is kept as it is.
Generate(files) ==
    /\ making = "generate"
    /\ effective' = files
    /\ checks' = Unchecked /\ execution' = "none"
    /\ making' = IF files = NoFiles THEN "judge" ELSE "write"
    /\ UNCHANGED <<workspace, served, iteration>>

\* The new files take the place of those of the same path.
Over(new, old) == [f \in DOMAIN new \cup DOMAIN old |-> IF f \in DOMAIN new THEN new[f] ELSE old[f]]

\* Empty files and paths with ".." are passed over.
Writable(tree) == {f \in DOMAIN tree \ Outside : tree[f] # "empty"}

\* The disk when these of the tree's files have been written.
WithWritten(some) == Over([f \in some |-> effective[f]], workspace)

\* Files put right after the writing, some of them in their text, others made.
Mended(disk, touched, made) ==
    [f \in DOMAIN disk \cup made |-> CASE f \in touched -> "mended"
                                      [] f \in DOMAIN disk \ touched -> disk[f]
                                      [] OTHER -> "empty"]

\* The syntax check parses the tree, not the disk.
WriteFiles ==
    /\ making = "write"
    /\ \E touched, made \in SUBSET Files :
          LET disk == WithWritten(Writable(effective))
          IN  /\ touched \subseteq {f \in Amended \cap DOMAIN disk : disk[f] = "sound"}
              /\ made \subseteq Inits \ DOMAIN disk
              /\ workspace' = Mended(disk, touched, made)
    /\ checks' = [checks EXCEPT !.review = ~Has(effective, "broken")]
    /\ making' = "scan"
    /\ UNCHANGED <<effective, served, execution, iteration>>

\* A write that raises ends produce_node: the runner tries the stage again, or gives it up.
WriteRaises ==
    /\ making = "write"
    /\ \E some \in SUBSET Writable(effective) : workspace' = WithWritten(some)
    /\ making' \in {"generate", "over"}
    /\ UNCHANGED <<effective, served, checks, execution, iteration>>

\* Mutant: only the files of this iteration are scanned.
ScannedTree == effective

Scanned == workspace

ScanFiles ==
    /\ making = "scan"
    /\ checks' = IF Has(Scanned, "flawed") THEN [checks EXCEPT !.scan = "critical", !.review = FALSE]
                                           ELSE [checks EXCEPT !.scan = "clean"]
    /\ making' = "deploy"
    /\ UNCHANGED <<effective, workspace, served, execution, iteration>>

ScanRaises ==
    /\ making = "scan"
    /\ checks' = [checks EXCEPT !.scan = "skipped"]
    /\ making' = "deploy"
    /\ UNCHANGED <<effective, workspace, served, execution, iteration>>

\* deploy_service is called whatever the scan has found: block_deploy only sets the
\* deployment_info that the call then replaces.
DeployFiles ==
    /\ making = "deploy"
    /\ served' = workspace
    /\ checks' = [checks EXCEPT !.deployed = TRUE]
    /\ making' = "test"
    /\ UNCHANGED <<effective, workspace, execution, iteration>>

\* The old service is gone, or still there, according to how far the deployment got.
DeployFails ==
    /\ making = "deploy"
    /\ served' \in {served, NoFiles}
    /\ making' = "report"
    /\ UNCHANGED <<effective, workspace, checks, execution, iteration>>

\* A test run that raises counts no failures; without a test tree there is none.
TestFiles(outcome) ==
    /\ making = "test"
    /\ checks' = [checks EXCEPT !.tests = outcome]
    /\ making' = "report"
    /\ UNCHANGED <<effective, workspace, served, execution, iteration>>

ReportProduction ==
    /\ making = "report"
    /\ execution' = IF checks.deployed /\ checks.review /\ checks.tests # "failed" THEN "success" ELSE "failure"
    /\ making' = "judge"
    /\ UNCHANGED <<effective, workspace, served, checks, iteration>>

\* Mutant: iterations are not limited.
IterateUnlimited ==
    /\ making = "judge"
    /\ iteration' = iteration + 1
    /\ making' = "generate"
    /\ UNCHANGED <<effective, workspace, served, checks, execution>>

\* The quality gate of Runner.run, with auto_iterate.
IterateProduction ==
    /\ making = "judge" /\ iteration < MaxIterations
    /\ iteration' = iteration + 1
    /\ making' = "generate"
    /\ UNCHANGED <<effective, workspace, served, checks, execution>>

AcceptProduction ==
    /\ making = "judge"
    /\ making' = "over"
    /\ UNCHANGED <<effective, workspace, served, checks, execution, iteration>>

ProductionNext == \/ \E files \in Trees : Generate(files)
                  \/ WriteFiles \/ WriteRaises \/ ScanFiles \/ ScanRaises
                  \/ DeployFiles \/ DeployFails
                  \/ \E outcome \in {"none", "passed", "failed", "raised"} : TestFiles(outcome)
                  \/ ReportProduction \/ IterateProduction \/ AcceptProduction

ProductionSpec == ProductionInit /\ [][ProductionNext]_productionVars

-----------------------------------------------------------------------------
\* Every variable keeps its type.
ProductionTypeOK ==
    /\ making \in {"generate", "write", "scan", "deploy", "test", "report", "judge", "over"}
    /\ effective \in Trees /\ workspace \in Disks /\ served \in Disks
    /\ checks \in [review : BOOLEAN, scan : {"none", "clean", "critical", "skipped"},
                   deployed : BOOLEAN, tests : {"none", "passed", "failed", "raised"}]
    /\ execution \in {"none", "success", "failure"}
    /\ iteration \in 0..MaxIterations

\* A production reported as a success has a service that runs the files of its own
\* iteration that have a text and stay in the workspace, as they were generated or as they
\* were mended; its tree parses; and, unless the scan itself failed, none of critical severity
\* is among all that it runs: what earlier iterations have left on the disk included.
SuccessIsServedClean ==
    execution = "success" =>
        /\ ~Has(effective, "broken")
        /\ \A f \in Writable(effective) :
              /\ f \in DOMAIN served
              /\ served[f] = effective[f] \/ (f \in Amended /\ served[f] = "mended")
        /\ checks.scan # "skipped" => ~Has(served, "flawed")

=============================================================================
