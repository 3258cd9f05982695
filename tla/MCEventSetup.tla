---------------------------- MODULE MCEventSetup ----------------------------
(* Instances of EventSetup for TLC. *)
EXTENDS EventSetup, TLC

CONSTANTS r1, c1, c2, f1

NoBody == [mode |-> Unset, required |-> Unset, subs |-> Unset, min |-> Unset,
           max |-> Unset, style |-> Unset, custom |-> Unset,
           nulls |-> FALSE]

\* A range of one to two, a size given by the required members alone, members
\* and substitutes, and an event without teams.
NewEvents ==
    {[NoBody EXCEPT !.mode = "TEAM_OR_INDIVIDUAL", !.min = 1, !.max = 2],
     [NoBody EXCEPT !.mode = "TEAM_ONLY", !.min = 1, !.max = 1, !.required = 2],
     [NoBody EXCEPT !.mode = "TEAM_ONLY", !.min = 1, !.max = 3, !.required = 2,
                    !.style = "MEMBERS_SUBSTITUTES"],
     [NoBody EXCEPT !.mode = "TEAM_ONLY", !.min = 1, !.max = 2, !.custom = "FIXED"],
     [NoBody EXCEPT !.mode = "INDIVIDUAL_ONLY", !.min = 2, !.max = 2]}

\* Modes, styles and sizes alone and together; custom fields with and without
\* a style.
Patches ==
    {[NoBody EXCEPT !.mode = "INDIVIDUAL_ONLY", !.max = 2],
     [NoBody EXCEPT !.mode = "TEAM_ONLY", !.custom = "unset"],
     [NoBody EXCEPT !.mode = "TEAM_OR_INDIVIDUAL", !.subs = 1],
     [NoBody EXCEPT !.required = 1, !.subs = 1, !.style = "MEMBERS_SUBSTITUTES"],
     [NoBody EXCEPT !.min = 2, !.style = "RANGE"],
     [NoBody EXCEPT !.custom = "RANGE", !.nulls = TRUE],
     [NoBody EXCEPT !.max = 3, !.custom = "FIXED"]}

ReqSymmetry == Permutations(Reqs)
=============================================================================
