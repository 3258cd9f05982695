---------------------------- MODULE MCAttendance ----------------------------
(* Instances of Attendance for TLC. *)
EXTENDS Attendance, TLC

CONSTANTS s1, t1, t2, m1, m2, m3, u1, u2, door, hall, solo, teams

\* m1 leads t1, whose other member is m2; m3 leads t2.
TwoTeams == [m \in Members |-> IF m = m3 THEN t2 ELSE t1]

OwnedByU1 == [s \in Solos |-> u1]

\* All teams compete in one event, the solo registration in another.
TwoEvents == [x \in Parties |-> IF x \in Teams THEN teams ELSE solo]

\* door is common to all events; hall belongs to the teams' event.
DoorAndHall == [k \in Checkpoints |-> IF k = door THEN NoEvent ELSE teams]

ReqSymmetry == Permutations(Reqs)
=============================================================================
