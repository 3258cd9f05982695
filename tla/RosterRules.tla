---------------------------- MODULE RosterRules ----------------------------
(***************************************************************************)
(* How many people a team may have, and in which roles: the roster rules   *)
(* of an event (services/roster_service.py) and the edits of them by an    *)
(* administrator (services/admin_ops_service.py).                          *)
(*                                                                         *)
(* A rules row is a record of its integer columns, 0 for a missing one,    *)
(* and of custom_fields["roster_style"], "unset" when the key is absent.   *)
(* A roster is a pair of counts of active seats: mandatory roles (leader,  *)
(* member) and substitutes.                                                *)
(***************************************************************************)
EXTENDS Naturals

CONSTANTS MaxRequired,     \* MAX_REQUIRED_MEMBERS
          MaxSubstitutes,  \* MAX_SUBSTITUTE_SLOTS
          Unset            \* an argument of an edit that was not given

ASSUME LimitsAssumption == MaxRequired \in Nat \ {0} /\ MaxSubstitutes \in Nat

Styles == {"FIXED", "RANGE", "MEMBERS_SUBSTITUTES"}

Rule == [min : Nat, max : Nat, required : Nat, subs : Nat,
         style : Styles \cup {"unset"}, individual : BOOLEAN]

Least(a, b) == IF a < b THEN a ELSE b
Greatest(a, b) == IF a > b THEN a ELSE b
Clamp(low, high, n) == Greatest(low, Least(high, n))

\* Python's "a or b" on integers.
OrElse(a, b) == IF a = 0 THEN b ELSE a

\* team_size_bounds.
TeamMin(r) == Clamp(1, MaxRequired, OrElse(r.min, OrElse(r.required, 1)))
TeamMax(r) == Greatest(TeamMin(r),
                       Least(MaxRequired + MaxSubstitutes, OrElse(r.max, TeamMin(r))))

\* get_roster_style: a stale style is overruled by substitute slots.
RosterStyle(r) ==
  IF r.subs > 0 THEN "MEMBERS_SUBSTITUTES"
  ELSE IF r.style # "unset" THEN r.style
  ELSE IF TeamMin(r) = TeamMax(r) THEN "FIXED" ELSE "RANGE"

HasSubstitutes(r) == RosterStyle(r) = "MEMBERS_SUBSTITUTES"

\* The second of roster_limits; the others are TeamMin and TeamMax.
SubstituteSlots(r) == IF HasSubstitutes(r) THEN r.subs ELSE 0

Size(roster) == roster.mandatory + roster.subs

MandatoryMet(roster, r) == roster.mandatory >= TeamMin(r)

\* next_join_role; "FULL" stands for the ValueError.
NextJoinRole(roster, r) ==
  IF ~ MandatoryMet(roster, r) THEN "MEMBER"
  ELSE IF Size(roster) >= TeamMax(r) THEN "FULL"
  ELSE IF ~ HasSubstitutes(r) THEN "MEMBER"
  ELSE IF roster.subs < r.subs THEN "SUBSTITUTE" ELSE "FULL"

\* ensure_substitute_role_allowed and can_add_role.
CanAddRole(roster, r, role) ==
  IF role = "SUBSTITUTE"
  THEN /\ HasSubstitutes(r)
       /\ MandatoryMet(roster, r)
       /\ roster.subs < r.subs
       /\ Size(roster) < TeamMax(r)
  ELSE \/ ~ MandatoryMet(roster, r)
       \/ ~ HasSubstitutes(r) /\ Size(roster) < TeamMax(r)

-----------------------------------------------------------------------------
(* Edits of a rules row. *)

Given(argument, stored) == IF argument = Unset THEN stored ELSE argument

WithSubstitutes(r, required, subs) ==
  [r EXCEPT !.required = required, !.subs = subs,
            !.min = required, !.max = required + subs]

\* sync_legacy_team_sizes.
SyncLegacySizes(r) ==
  WithSubstitutes(r, Clamp(1, MaxRequired, r.required),
                  Least(MaxSubstitutes, r.subs))

\* apply_roster_to_rules; e is a record of its keyword arguments.
ApplyRoster(r, e) ==
  LET style == Given(e.style, RosterStyle(r))
      fixed == IF e.min # Unset THEN e.min
               ELSE IF e.max # Unset THEN e.max
               ELSE Given(e.required, r.min)
      low   == Greatest(1, Given(e.min, r.min))
      high  == Greatest(low, Given(e.max, OrElse(r.max, low)))
      Plain(mn, mx) == [r EXCEPT !.min = mn, !.max = mx, !.required = mn,
                                 !.subs = 0, !.style = style]
  IN CASE style = "MEMBERS_SUBSTITUTES" ->
            [WithSubstitutes(r, Clamp(1, MaxRequired, Given(e.required, r.required)),
                             Least(MaxSubstitutes, Given(e.subs, r.subs)))
               EXCEPT !.style = style]
       [] style = "FIXED" ->
            LET n == Clamp(1, MaxRequired, fixed) IN Plain(n, n)
       [] style = "RANGE" ->
            Plain(Least(MaxRequired, low), Least(MaxRequired + MaxSubstitutes, high))

\* apply_registration_mode_to_rules.
ApplyMode(r, mode) ==
  CASE mode = "INDIVIDUAL_ONLY" ->
         SyncLegacySizes([r EXCEPT !.individual = TRUE, !.required = 1, !.subs = 0])
    [] mode = "TEAM_ONLY" -> [r EXCEPT !.individual = FALSE]
    [] mode = "TEAM_OR_INDIVIDUAL" -> [r EXCEPT !.individual = TRUE]
=============================================================================
