------------------------- MODULE MCMeetingLifecycle -------------------------
(* Small instances of MeetingLifecycle for TLC.                            *)
EXTENDS MeetingLifecycle

\* Three stages stand for the six: clarify, one debating stage, produce.
Forward == [s \in Stages |-> IF s = LastStage THEN {} ELSE {s + 1}]

\* The routing decision may also repeat a debating stage.
Repeating == [s \in Stages |-> IF s = LastStage THEN {}
                                ELSE IF s = Clarify THEN {s + 1} ELSE {s, s + 1}]

=============================================================================
