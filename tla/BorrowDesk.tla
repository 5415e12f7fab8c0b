------------------------------- MODULE BorrowDesk -------------------------------
(***************************************************************************)
(* Loans of agents to a meeting.  Two of the stages assess whether one is  *)
(* needed; after every stage, whichever it was, the runner lets the        *)
(* borrowed agents speak and saves.  It also saves in passing, when a      *)
(* stage failed or the stages are set back, and then nobody speaks.  The   *)
(* user lends, approves, rejects and freezes at any of its awaits.  While  *)
(* _persist awaits the database the list of borrowed agents is empty       *)
(* (extract_aux), and comes back afterwards.                               *)
(***************************************************************************)
EXTENDS Integers, Sequences

CONSTANTS
    Borrowable,  \* _BORROWABLE_ROLES outside the team
    Strangers,   \* roles only a user lends: they are not on the list
    NoRole,
    MaxAsides    \* bound: saves in passing between two ends of a stage; the code's retries
                 \* are limited too (max_stage_retries)

ASSUME AsidesAssumption == MaxAsides \in Nat
ASSUME NoRoleAssumption == NoRole \notin Borrowable \cup Strangers

VARIABLES
    desk,     \* the runner: "stage", "assessing", "speaking", "saving"
    offered,  \* available_roles of the assessment under way
    charter,  \* roles in borrow_history
    loans,    \* borrowed_agents
    shelf,    \* what extract_aux has taken out of it
    auto,     \* auto_borrow_count
    asides,   \* saves in passing since a stage ended
    pending,  \* target_role of pending_borrow_request, or NoRole
    frozen    \* borrow_frozen

borrowVars == <<desk, offered, charter, loans, shelf, auto, asides, pending, frozen>>

Lendable == Borrowable \cup Strangers
AutoBorrowThreshold == 3
LoanLimit == 2

Loan(r) == [role |-> r, spoken |-> FALSE]
Lent(list) == {list[n].role : n \in DOMAIN list}

\* A new meeting; or one that came back after a restart with three automatic loans on its
\* count of which the aux table had only the first (control signals save the count, only
\* _persist saves the loans).
BorrowInit ==
    /\ desk = "stage" /\ offered = {} /\ shelf = <<>> /\ asides = 0
    /\ pending = NoRole /\ frozen = FALSE
    /\ \/ charter = {} /\ loans = <<>> /\ auto = 0
       \/ \E r, s, t \in Borrowable :
            /\ r # s /\ s # t /\ t # r
            /\ charter = {r, s, t} /\ auto = AutoBorrowThreshold
            /\ loans = <<[role |-> r, spoken |-> TRUE]>>

-----------------------------------------------------------------------------
(* The runner                                                              *)

Available == Borrowable \ Lent(loans)

\* run_intra_team and run_cross_team.
Assess ==
    /\ desk = "stage"
    /\ IF frozen \/ pending # NoRole \/ Len(loans) >= LoanLimit \/ Available = {}
       THEN desk' = "speaking" /\ UNCHANGED offered
       ELSE desk' = "assessing" /\ offered' = Available
    /\ UNCHANGED <<charter, loans, shelf, auto, asides, pending, frozen>>

\* The other stages assess nobody.
PassesBy ==
    /\ desk = "stage"
    /\ desk' = "speaking"
    /\ UNCHANGED <<offered, charter, loans, shelf, auto, asides, pending, frozen>>

\* The LLM names a role, and only the charter is looked at again.
AssessorWants(r) ==
    /\ desk = "assessing" /\ r \in offered /\ r \notin charter
    /\ IF auto < AutoBorrowThreshold
       THEN /\ charter' = charter \cup {r}
            /\ loans' = Append(loans, Loan(r))
            /\ auto' = auto + 1
            /\ UNCHANGED pending
       ELSE pending' = r /\ UNCHANGED <<charter, loans, auto>>
    /\ desk' = "speaking"
    /\ UNCHANGED <<offered, shelf, asides, frozen>>

\* Nobody is needed, an unknown role, one that has been lent, or the call failed.
AssessorWantsNobody ==
    /\ desk = "assessing"
    /\ desk' = "speaking"
    /\ UNCHANGED <<offered, charter, loans, shelf, auto, asides, pending, frozen>>

Silent == {n \in DOMAIN loans : ~loans[n].spoken}

\* The stages that assess, and evidence_check, call the loop before they end, the runner
\* after every stage.  It runs over the live list: a loan granted meanwhile gets its turn.
BorrowedSpeaks ==
    /\ desk = "speaking" /\ Silent # {}
    /\ LET n == CHOOSE k \in Silent : \A j \in Silent : k <= j
       IN  loans' = [loans EXCEPT ![n].spoken = TRUE]
    /\ UNCHANGED <<desk, offered, charter, shelf, auto, asides, pending, frozen>>

Shelved ==
    /\ desk' = "saving"
    /\ shelf' = loans
    /\ loans' = <<>>
    /\ UNCHANGED <<offered, charter, auto, pending, frozen>>

\* Mutant: nobody speaks after the stages that have no loop of their own.
PersistBeginsUnheard ==
    /\ desk = "speaking"
    /\ asides' = 0
    /\ Shelved

\* Everybody has spoken, and the runner saves without an await in between.
PersistBegins ==
    /\ desk = "speaking" /\ Silent = {}
    /\ asides' = 0
    /\ Shelved

\* A stage raised and is retried, a warning is recorded, or subtopics, iterations or the
\* gate set the stages back: loans may still be waiting for their turn.
PersistsInPassing ==
    /\ desk = "stage" /\ asides < MaxAsides
    /\ asides' = asides + 1
    /\ Shelved

\* inject_aux, saved or not: an empty list is not put back, another one replaces what was
\* lent meanwhile.
PersistEnds ==
    /\ desk = "saving"
    /\ desk' = "stage"
    /\ loans' = IF shelf = <<>> THEN loans ELSE shelf
    /\ shelf' = <<>>
    /\ UNCHANGED <<offered, charter, auto, asides, pending, frozen>>

-----------------------------------------------------------------------------
(* Control signals                                                         *)

\* Mutant: only the list is looked at, not the charter.
GrantByList(r) == IF r \in Lent(loans) \/ Len(loans) >= LoanLimit
                  THEN UNCHANGED <<charter, loans>>
                  ELSE /\ charter' = charter \cup {r}
                       /\ loans' = Append(loans, Loan(r))

\* Mutant: the limit is not looked at.
GrantUnlimited(r) == IF r \in charter
                     THEN UNCHANGED <<charter, loans>>
                     ELSE /\ charter' = charter \cup {r}
                          /\ loans' = Append(loans, Loan(r))

Grant(r) == IF r \in charter \/ Len(loans) >= LoanLimit
            THEN UNCHANGED <<charter, loans>>
            ELSE /\ charter' = charter \cup {r}
                 /\ loans' = Append(loans, Loan(r))

HandleLoan(r) ==
    /\ Grant(r)
    /\ UNCHANGED <<desk, offered, shelf, auto, asides, pending, frozen>>

ApproveBorrow ==
    /\ pending # NoRole
    /\ Grant(pending)
    /\ pending' = NoRole
    /\ UNCHANGED <<desk, offered, shelf, auto, asides, frozen>>

RejectBorrow ==
    /\ pending # NoRole
    /\ pending' = NoRole
    /\ UNCHANGED <<desk, offered, charter, loans, shelf, auto, asides, frozen>>

FreezeBorrow ==
    /\ frozen' = TRUE
    /\ pending' = NoRole
    /\ UNCHANGED <<desk, offered, charter, loans, shelf, auto, asides>>

-----------------------------------------------------------------------------
DeskStep == \/ Assess \/ PassesBy \/ (\E r \in Borrowable : AssessorWants(r)) \/ AssessorWantsNobody
            \/ BorrowedSpeaks \/ PersistBegins \/ PersistsInPassing \/ PersistEnds

BorrowNext == \/ DeskStep
              \/ \E r \in Lendable : HandleLoan(r)
              \/ ApproveBorrow \/ RejectBorrow \/ FreezeBorrow

BorrowSpec == BorrowInit /\ [][BorrowNext]_borrowVars /\ WF_borrowVars(DeskStep)

-----------------------------------------------------------------------------
\* Every variable keeps its type.  An assessment that was under way when the user lent two
\* agents makes them three: that is the limit the code keeps.
BorrowTypeOK ==
    /\ desk \in {"stage", "assessing", "speaking", "saving"}
    /\ offered \subseteq Borrowable /\ charter \subseteq Lendable
    /\ loans \in Seq([role : Lendable, spoken : BOOLEAN]) /\ Len(loans) <= LoanLimit + 1
    /\ shelf \in Seq([role : Lendable, spoken : BOOLEAN]) /\ Len(shelf) <= LoanLimit + 1
    /\ auto \in 0..AutoBorrowThreshold /\ asides \in 0..MaxAsides
    /\ pending \in Borrowable \cup {NoRole} /\ frozen \in BOOLEAN

\* Assessments, loan signals and approvals may name the same role at once, also while the
\* list is out to be saved: no role is lent twice, and all that are lent are on record.
LentOnce == LET all == loans \o shelf
            IN  /\ \A j, k \in DOMAIN all : all[j].role = all[k].role => j = k
                /\ Lent(all) \subseteq charter

\* runner.py:556: a loan that is on the list outside a save is heard, at whichever stage
\* it was granted, whatever is lent, rejected, frozen or saved in passing before its turn,
\* as long as the meeting goes on.
LentIsHeard ==
    \A r \in Lendable :
        (desk # "saving" /\ \E n \in Silent : loans[n].role = r)
            ~> (\E n \in DOMAIN loans : loans[n].role = r /\ loans[n].spoken)

=============================================================================
