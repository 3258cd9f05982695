------------------------------- MODULE Teams -------------------------------
(***************************************************************************)
(* Teams, invitations and rosters of one event whose capacity counts       *)
(* participants: services/team_service.py, the administrator's operations  *)
(* of services/admin_ops_service.py on a team, and what a payment's        *)
(* confirmation (payments/apply.py) writes to a team.                      *)
(*                                                                         *)
(* A handler is a request: it reads, takes its row locks one by one (the   *)
(* team, the registration of the team, the event) and commits or is        *)
(* aborted.  Sessions run at READ COMMITTED, and a row the session already *)
(* holds is not refreshed by SELECT ... FOR UPDATE: "seen" is what the     *)
(* request has read and acts upon.                                         *)
(***************************************************************************)
EXTENDS RosterRules, FiniteSets, Sequences

CONSTANTS Teams, Profiles, Reqs,
          Seats,          \* rows of team_members
          NoTeam, NoProfile, NoSeat,
          Event,          \* the event's row, as something to lock
          Rules,          \* the event's rules row
          LeaderManaged,  \* member_registration_mode = LEADER_MANAGED
          Capacity,       \* events.capacity
          Ops,            \* operations a run lets the requests perform
          MaxAsks         \* bound: requests made

ASSUME RulesAssumption == Rules \in Rule /\ Capacity \in Nat /\ MaxAsks \in Nat
ASSUME RowsAssumption ==
  /\ IsFiniteSet(Seats) /\ NoSeat \notin Seats
  /\ NoTeam \notin Teams /\ NoProfile \notin Profiles

VARIABLES team,      \* teams: status, leader_profile_id, and who formed it
          invited,   \* teams with an active invitation
          reg,       \* status of the team's registration
          seat,      \* team_members
          req,       \* requests in flight
          asks,      \* number of requests made
          unchecked, \* seats that came to count without a capacity check
          revived    \* seats a confirmation brought back

vars == <<team, invited, reg, seat, req, asks, unchecked, revived>>

TeamStatus == {"ABSENT", "FORMING", "PAID", "COMPLETE", "CANCELLED"}
Held == {"ACTIVE", "PENDING_PAYMENT"}   \* _ACTIVE; the rest is _TERMINAL
SeatRow == [team : Teams \cup {NoTeam}, profile : Profiles \cup {NoProfile},
            role : {"LEADER", "MEMBER", "SUBSTITUTE"},
            status : Held \cup {"UNUSED", "LEFT", "REMOVED"}]
Unused == [team |-> NoTeam, profile |-> NoProfile, role |-> "MEMBER", status |-> "UNUSED"]
TeamRow == [status : TeamStatus, leader : Profiles \cup {NoProfile},
            founder : Profiles \cup {NoProfile}]
RegStatus == {"NONE", "PENDING", "CONFIRMED", "CANCELLED"}

RegOf(t) == <<t>>   \* the registration's row, as something to lock
Rows == Teams \cup {Event} \cup {RegOf(t) : t \in Teams}

\* todo and held: the locks to take and taken; seats, placed, room, status and
\* reg: what has been read.
Request == [op : {"join", "add", "adminAdd", "confirm", "transfer", "patch", "leave", "remove",
                  "cancelUnpaid", "cancelTeam", "cancelReg", "revoke", "patchReg"},
            team : Teams, who : Profiles \cup {NoProfile},
            role : {"LEADER", "MEMBER", "SUBSTITUTE"}, seat : Seats \cup {NoSeat},
            todo : Seq(Rows), held : SUBSET Rows, seats : SUBSET Seats,
            placed : BOOLEAN, room : BOOLEAN, status : TeamStatus, reg : RegStatus]
Idle == [op |-> "idle", todo |-> <<>>, held |-> {}]

SeatsOf(t) == {s \in Seats : seat[s].team = t /\ seat[s].status \in Held}
PlacesOf(p) == {s \in Seats : seat[s].profile = p /\ seat[s].status \in Held}

\* count_mandatory and count_substitutes of a set of held seats.
RosterOf(S) == LET subs == {s \in S : seat[s].role = "SUBSTITUTE"}
               IN [mandatory |-> Cardinality(S \ subs), subs |-> Cardinality(subs)]

With(roster, role) == IF role = "SUBSTITUTE" THEN [roster EXCEPT !.subs = @ + 1]
                                             ELSE [roster EXCEPT !.mandatory = @ + 1]

\* _count_used_capacity, PARTICIPANTS.
Counted == {s \in Seats : seat[s].status = "ACTIVE" /\ reg[seat[s].team] = "CONFIRMED"}

\* Full only when exceeded.
MutantHasRoom == Cardinality(Counted) <= Capacity

HasRoom == Cardinality(Counted) < Capacity

\* The partial unique indexes of team_members.
Indexed(S) ==
  \A s1, s2 \in {s \in Seats : S[s].status \in Held} :
    s1 # s2 => /\ S[s1].profile # S[s2].profile \/ S[s1].profile = NoProfile
               /\ S[s1].team # S[s2].team \/ {S[s1].role, S[s2].role} # {"LEADER"}

Init == /\ team = [t \in Teams |-> [status |-> "ABSENT", leader |-> NoProfile,
                                    founder |-> NoProfile]]
        /\ invited = {} /\ unchecked = {} /\ revived = {}
        /\ reg = [t \in Teams |-> "NONE"]
        /\ seat = [s \in Seats |-> Unused]
        /\ req = [c \in Reqs |-> Idle] /\ asks = 0

\* No row is locked.
MutantFree(c, row) == TRUE

Free(c, row) == \A d \in Reqs \ {c} : row \notin req[d].held

\* A new row of team_members.
Inserted(t, p, role, status) ==
  LET next == CHOOSE s \in Seats : seat[s] = Unused
  IN [s \in Seats |-> IF s = next THEN [team |-> t, profile |-> p, role |-> role,
                                        status |-> status]
                                  ELSE seat[s]]
\* Profile and team swapped.
MutantInsert(t, p, role, status) ==
  /\ \E s \in Seats : seat[s] = Unused
  /\ seat' = Inserted(p, t, role, status)
  /\ Indexed(seat')

Insert(t, p, role, status) ==
  /\ \E s \in Seats : seat[s] = Unused   \* bound
  /\ seat' = Inserted(t, p, role, status)
  /\ Indexed(seat')

-----------------------------------------------------------------------------
(* Operations of one transaction without a stale read. *)

\* create_team; the event's row is locked, and a full event only refuses.
CreateTeam(t, p) ==
  /\ team[t].status = "ABSENT" /\ PlacesOf(p) = {}
  /\ \A c \in Reqs : Free(c, Event)
  /\ team' = [team EXCEPT ![t] = [status |-> "FORMING", leader |-> p, founder |-> p]]
  /\ reg' = [reg EXCEPT ![t] = "PENDING"]
  /\ Insert(t, p, "LEADER", "PENDING_PAYMENT")
  /\ UNCHANGED <<invited, req, asks, unchecked, revived>>

\* create_invitation: never withdrawn, and the team's status is not looked at.
Invite(t) ==
  /\ team[t].status # "ABSENT" /\ t \notin invited
  /\ invited' = invited \cup {t}
  /\ UNCHANGED <<team, reg, seat, req, asks, unchecked, revived>>

-----------------------------------------------------------------------------
(* Requests. *)

\* The rows a request locks, in order.  A statement that updates a row locks it.
LockPlan(op, t) ==
  CASE op = "confirm" -> (IF reg[t] = "CONFIRMED" THEN <<>> ELSE <<Event>>) \o <<t, RegOf(t)>>
    [] op \in {"cancelUnpaid", "cancelReg", "revoke"} -> <<RegOf(t), t>>
    [] op = "cancelTeam" -> <<t, RegOf(t)>>
    [] op = "patchReg" -> <<RegOf(t)>>
    [] op \in {"leave", "remove"} -> <<>>
    [] OTHER -> <<t>>

\* Handlers that loaded the team before they lock it keep the status they read.
KeepsStatus == {"adminAdd", "transfer", "patch"}
\* Handlers that act on the registration's status as first read.
KeepsReg == {"confirm", "revoke", "patchReg"}
\* Handlers that read the roster, and the person's seats, under the team's lock.
ReadsRoster == {"join", "add", "adminAdd", "transfer"}

Begin(c, op, t, who, role, s) ==
  /\ op \in Ops /\ req[c] = Idle /\ team[t].status # "ABSENT"
  /\ asks < MaxAsks /\ asks' = asks + 1
  /\ req' = [req EXCEPT ![c] =
       [op |-> op, team |-> t, who |-> who, role |-> role, seat |-> s,
        todo |-> LockPlan(op, t), held |-> {}, seats |-> {}, placed |-> FALSE,
        room |-> FALSE,
        status |-> IF op \in KeepsStatus THEN team[t].status ELSE "ABSENT",
        reg |-> IF op \in KeepsReg THEN reg[t] ELSE "NONE"]]
  /\ UNCHANGED <<team, invited, reg, seat, unchecked, revived>>

AskJoin(c, t, p) == t \in invited /\ Begin(c, "join", t, p, "MEMBER", NoSeat)

\* The role and the person of the request body; an entered member has no profile.
AskAdd(c, op, t, p, role) ==
  /\ role = "SUBSTITUTE" => HasSubstitutes(Rules)
  /\ p = NoProfile => LeaderManaged \/ op = "adminAdd"
  /\ Begin(c, op, t, p, role, NoSeat)

\* The payer is whoever was the leader when the order was created.
AskConfirm(c, t, p) ==
  /\ p \in {team[t].founder, team[t].leader} /\ reg[t] # "CANCELLED"
  /\ Begin(c, "confirm", t, p, "MEMBER", NoSeat)

AskTransfer(c, t, p) == Begin(c, "transfer", t, p, "LEADER", NoSeat)

\* patch_team (administrator) and what its status check reads.
AskPatch(c, t) == team[t].status # "CANCELLED" /\ Begin(c, "patch", t, NoProfile, "MEMBER", NoSeat)

AskCancel(c, op, t) == Begin(c, op, t, NoProfile, "MEMBER", NoSeat)

\* leave_team and remove_member read the seat; only the latter looks at the role.
AskLeave(c, op, s) ==
  /\ seat[s].status \in Held
  /\ op = "leave" => seat[s].profile # NoProfile
  /\ op = "remove" => seat[s].role # "LEADER"
  /\ Begin(c, op, seat[s].team, NoProfile, "MEMBER", s)

\* The next lock is granted, and what is read under it.
Lock(c) ==
  LET r == req[c]  t == r.team  row == Head(r.todo)  mine == row = t
  IN /\ r.todo # <<>> /\ Free(c, row)
     /\ req' = [req EXCEPT ![c] =
          [r EXCEPT
             !.held = @ \cup {row},
             !.todo = Tail(@) \o (IF mine /\ r.op = "join" /\ reg[t] = "CONFIRMED"
                                  THEN <<Event>> ELSE <<>>),
             !.status = IF mine /\ r.op \in {"join", "add"} THEN team[t].status ELSE @,
             !.seats = IF mine /\ r.op \in ReadsRoster THEN SeatsOf(t) ELSE @,
             !.placed = IF mine /\ r.op \in ReadsRoster /\ r.who # NoProfile
                        THEN PlacesOf(r.who) # {} ELSE @,
             !.reg = IF row = RegOf(t) /\ r.op = "cancelUnpaid" THEN reg[t] ELSE @,
             !.room = IF row = Event THEN HasRoom ELSE @]]
     /\ UNCHANGED <<team, invited, reg, seat, asks, unchecked, revived>>

Ready(c, ops) == req[c].op \in ops /\ req[c].todo = <<>>
Done(c) == req' = [req EXCEPT ![c] = Idle] /\ UNCHANGED asks

\* A refusal, a failed transaction, a deadlock's victim or a lost process.
Abort(c) == req[c] # Idle /\ Done(c) /\ UNCHANGED <<team, invited, reg, seat, unchecked, revived>>

\* PAID becomes COMPLETE, by the status and the seats the request has seen.
CompletedBy(c, roster) ==
  LET t == req[c].team
  IN IF MandatoryMet(roster, Rules) /\ req[c].status = "PAID"
     THEN [team EXCEPT ![t].status = "COMPLETE"] ELSE team

\* join_via_invitation.
Join(c) ==
  LET r == req[c]  t == r.team  roster == RosterOf(r.seats)
      role == NextJoinRole(roster, Rules)
  IN /\ Ready(c, {"join"})
     /\ r.status \in {"PAID", "COMPLETE"} /\ ~ r.placed
     /\ Size(roster) < TeamMax(Rules) /\ role # "FULL"
     /\ Event \in r.held => r.room
     /\ Insert(t, r.who, role, "ACTIVE")
     /\ team' = CompletedBy(c, With(roster, role))
     /\ Done(c) /\ UNCHANGED <<invited, reg, unchecked, revived>>

\* A cancelled team is not refused.
MutantAdmitted(r) ==
  LET roster == RosterOf(r.seats)
  IN ~ r.placed /\ Size(roster) < TeamMax(Rules) /\ CanAddRole(roster, Rules, r.role)

\* The checks of add_roster_member before it inserts.
Admitted(r) ==
  LET roster == RosterOf(r.seats)
  IN /\ r.status # "CANCELLED" /\ ~ r.placed
     /\ Size(roster) < TeamMax(Rules) /\ CanAddRole(roster, Rules, r.role)

\* Its second look, after the insert: over_total, over_subs, over_mandatory.
RolledBack(r) ==
  LET roster == With(RosterOf(r.seats), r.role)
  IN \/ Size(roster) > TeamMax(Rules)
     \/ r.role = "SUBSTITUTE" /\ roster.subs > SubstituteSlots(Rules)
     \/ r.role = "MEMBER" /\ roster.mandatory > TeamMin(Rules)

\* add_roster_member, by the leader or by an administrator.
Add(c) ==
  LET r == req[c]  t == r.team
  IN /\ Ready(c, {"add", "adminAdd"}) /\ Admitted(r) /\ ~ RolledBack(r)
     /\ Insert(t, r.who, r.role, "ACTIVE")
     /\ team' = CompletedBy(c, With(RosterOf(r.seats), r.role))
     /\ unchecked' = unchecked \cup {s \in Seats : seat[s] # seat'[s]}
     /\ Done(c) /\ UNCHANGED <<invited, reg, revived>>

\* leave_team and remove_member; LEFT seats keep their role.
Leave(c) ==
  LET r == req[c]
  IN /\ Ready(c, {"leave", "remove"})
     /\ seat' = [seat EXCEPT ![r.seat].status = IF r.op = "leave" THEN "LEFT" ELSE "REMOVED"]
     /\ Done(c) /\ UNCHANGED <<team, invited, reg, unchecked, revived>>

\* leader_profile_id is forgotten.
MutantTransfer(c) ==
  LET r == req[c]
      heirs == {s \in r.seats : seat[s].profile = r.who /\ seat[s].role # "LEADER"}
  IN /\ Ready(c, {"transfer"}) /\ r.status # "CANCELLED" /\ heirs # {}
     /\ seat' = [s \in Seats |->
                   IF s \in r.seats
                   THEN [seat[s] EXCEPT !.role = IF s \in heirs THEN "LEADER"
                                                ELSE IF @ = "LEADER" THEN "MEMBER" ELSE @]
                   ELSE seat[s]]
     /\ Done(c) /\ UNCHANGED <<team, invited, reg, unchecked, revived>>

\* transfer_team_leadership.
Transfer(c) ==
  LET r == req[c]  t == r.team
      heirs == {s \in r.seats : seat[s].profile = r.who /\ seat[s].role # "LEADER"}
  IN /\ Ready(c, {"transfer"}) /\ r.status # "CANCELLED" /\ heirs # {}
     /\ seat' = [s \in Seats |->
                   CASE s \in heirs -> [seat[s] EXCEPT !.role = "LEADER"]
                     [] s \in r.seats /\ seat[s].role = "LEADER" ->
                          [seat[s] EXCEPT !.role = "MEMBER"]
                     [] OTHER -> seat[s]]
     /\ Indexed(seat')
     /\ team' = [team EXCEPT ![t].leader = r.who]
     /\ Done(c) /\ UNCHANGED <<invited, reg, unchecked, revived>>

\* confirm_team_registration: the payer's LEADER seat, whatever its status, is
\* activated; the capacity is checked for one seat unless the registration
\* was seen confirmed.
Confirm(c) ==
  LET r == req[c]  t == r.team
      payers == {s \in Seats : seat[s].team = t /\ seat[s].role = "LEADER"
                                                /\ seat[s].profile = r.who}
      paidFor == IF Event \in r.held THEN payers ELSE {}
  IN /\ Ready(c, {"confirm"}) /\ (Event \in r.held => r.room)
     /\ team' = [team EXCEPT ![t].status = "PAID"]
     /\ seat' = [s \in Seats |-> IF s \in payers THEN [seat[s] EXCEPT !.status = "ACTIVE"]
                                                 ELSE seat[s]]
     /\ Indexed(seat')
     /\ reg' = [reg EXCEPT ![t] = IF @ = "CANCELLED" THEN @ ELSE "CONFIRMED"]
     /\ unchecked' = (unchecked \ paidFor) \cup ((Counted' \ Counted) \ paidFor)
     /\ revived' = revived \cup {s \in payers : seat[s].status \notin Held}
     /\ Done(c) /\ UNCHANGED invited

\* patch_team (administrator): the status is written as given.
Patch(c) ==
  /\ Ready(c, {"patch"})
  /\ \E st \in TeamStatus \ {"ABSENT"} : team' = [team EXCEPT ![req[c].team].status = st]
  /\ Done(c) /\ UNCHANGED <<invited, reg, seat, unchecked, revived>>

\* cancel_unpaid_registration ends the seats too; cancel_team_admin and
\* cancel_registration_admin leave them as they are.
Cancel(c) ==
  LET r == req[c]  t == r.team
  IN /\ Ready(c, {"cancelUnpaid", "cancelTeam", "cancelReg"})
     /\ r.op = "cancelUnpaid" => r.reg = "PENDING"
     /\ team' = [team EXCEPT ![t].status = "CANCELLED"]
     /\ reg' = [reg EXCEPT ![t] = "CANCELLED"]
     /\ seat' = IF r.op = "cancelUnpaid"
                THEN [s \in Seats |-> IF s \in SeatsOf(t)
                                      THEN [seat[s] EXCEPT !.status = "REMOVED"] ELSE seat[s]]
                ELSE seat
     /\ Done(c) /\ UNCHANGED <<invited, unchecked, revived>>

\* patch_registration: CONFIRMED cannot be set, and PENDING instead of CONFIRMED
\* is a revocation.
PatchReg(c) ==
  LET r == req[c]
  IN /\ Ready(c, {"patchReg"})
     /\ \E st \in {"PENDING", "CANCELLED"} :
          /\ r.reg = "CONFIRMED" => st = "CANCELLED"
          /\ reg' = [reg EXCEPT ![r.team] = IF st = r.reg THEN @ ELSE st]
     /\ Done(c) /\ UNCHANGED <<team, invited, seat, unchecked, revived>>

\* revoke_registration_confirmation_admin.
Revoke(c) ==
  LET r == req[c]  t == r.team
  IN /\ Ready(c, {"revoke"}) /\ r.reg = "CONFIRMED"
     /\ reg' = [reg EXCEPT ![t] = "PENDING"]
     /\ team' = [team EXCEPT ![t].status = IF @ \in {"PAID", "COMPLETE"} THEN "FORMING" ELSE @]
     /\ Done(c) /\ UNCHANGED <<invited, seat, unchecked, revived>>

Ask(c) ==
  \/ \E t \in Teams, p \in Profiles :
       AskJoin(c, t, p) \/ AskConfirm(c, t, p) \/ AskTransfer(c, t, p)
  \/ \E op \in {"add", "adminAdd"}, t \in Teams, p \in Profiles \cup {NoProfile},
        role \in {"MEMBER", "SUBSTITUTE"} : AskAdd(c, op, t, p, role)
  \/ \E t \in Teams : AskPatch(c, t)
  \/ \E op \in {"cancelUnpaid", "cancelTeam", "cancelReg", "revoke", "patchReg"}, t \in Teams :
       AskCancel(c, op, t)
  \/ \E op \in {"leave", "remove"}, s \in Seats : AskLeave(c, op, s)

Commit(c) == \/ Join(c) \/ Add(c) \/ Leave(c) \/ Transfer(c) \/ Confirm(c)
             \/ Patch(c) \/ PatchReg(c) \/ Cancel(c) \/ Revoke(c)

Next == \/ \E t \in Teams, p \in Profiles : CreateTeam(t, p)
        \/ \E t \in Teams : Invite(t)
        \/ \E c \in Reqs : Ask(c) \/ Lock(c) \/ Commit(c) \/ Abort(c)

Spec == Init /\ [][Next]_vars

-----------------------------------------------------------------------------
(* Properties. *)

\* Every variable keeps its type: the rows of teams, registrations and
\* team_members, and the requests' locks.
TypeOK ==
  /\ team \in [Teams -> TeamRow] /\ reg \in [Teams -> RegStatus]
  /\ seat \in [Seats -> SeatRow] /\ req \in [Reqs -> Request \cup {Idle}]
  /\ asks \in 0 .. MaxAsks /\ invited \subseteq Teams /\ unchecked \subseteq Seats /\ revived \subseteq Seats

\* Joins, additions, removals and transfers in any interleaving never give a
\* team more people than team_max_size, nor more substitutes than its slots;
\* only the leader a late confirmation brings back may be one too many
\* (team_service.py:449, 568, 642).
RosterWithinLimits ==
  \A t \in Teams : LET roster == RosterOf(SeatsOf(t) \ revived)
                   IN Size(roster) <= TeamMax(Rules) /\ roster.subs <= SubstituteSlots(Rules)

\* The participants that were let in through a capacity check never exceed the
\* event's capacity, however joins and confirmations interleave; what exceeds
\* it came from a roster addition, which checks nothing, or from a confirmed
\* team's further seats (event_service.py:104, 196; team_service.py:458).
CheckedSeatsFit == Cardinality(Counted \ unchecked) <= Capacity

\* Whoever holds the LEADER seat of a team is its leader_profile_id, unless a
\* late confirmation brought a former leader back (admin_ops_service.py:380).
LeaderHoldsTheTeam ==
  \A s \in Seats : seat[s].role = "LEADER" /\ seat[s].status \in Held /\ s \notin revived
                     => team[seat[s].team].leader = seat[s].profile

\* Once a team is cancelled nobody is added to it and it stays cancelled, save
\* for an administrator's addition or edit that read the status before, and
\* for a confirmation, which does not look at it (team_service.py:414, 561;
\* payments/apply.py:110).
NothingEntersCancelled ==
  [][\A t \in Teams : team[t].status = "CANCELLED" =>
       \/ /\ team'[t].status = "CANCELLED"
          /\ \A s \in Seats : seat'[s].team = t => seat[s].team = t
       \/ \E c \in Reqs : /\ req[c] # Idle /\ req'[c] = Idle /\ req[c].team = t
                          /\ \/ req[c].op \in {"adminAdd", "patch"} /\ req[c].status # "CANCELLED"
                             \/ req[c].op = "confirm" /\ req[c].reg # "CANCELLED"]_vars

\* An addition that the roster rules admit is carried out: what can_add_role
\* allows, the look after the insert does not undo (team_service.py:575, 646;
\* tests/test_add_roster_member.py:256 adds a fourth member to a range of 3 to 4).
AdmittedIsKept ==
  \A c \in Reqs : Ready(c, {"add", "adminAdd"}) /\ Admitted(req[c]) => ~ RolledBack(req[c])
=============================================================================
