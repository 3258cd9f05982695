------------------------------ MODULE MCTeams ------------------------------
(* Instances of Teams: rules, and the symmetry of requests. *)
EXTENDS Teams, TLC

\* Two mandatory seats and one substitute.
TwoAndOne == [min |-> 2, max |-> 3, required |-> 2, subs |-> 1,
              style |-> "MEMBERS_SUBSTITUTES", individual |-> FALSE]
\* Two to three members.
TwoToThree == [min |-> 2, max |-> 3, required |-> 2, subs |-> 0,
               style |-> "RANGE", individual |-> FALSE]

Alike == Permutations(Reqs) \cup Permutations(Profiles)
=============================================================================
