---------------------------- MODULE MCRobotLinks ----------------------------
(* Small instances of RobotLinks for TLC. *)
EXTENDS RobotLinks, TLC

CONSTANTS s1, s2, s3
TwoSessions == {s1, s2}
ThreeSessions == {s1, s2, s3}
AnySession == Permutations(ThreeSessions)

AllFailures == {"reset", "damage_out", "damage_in", "break", "late", "estop"}
AllStages == Stages
Running == {"reading", "writing"}
=============================================================================
