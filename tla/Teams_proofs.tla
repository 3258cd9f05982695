---------------------------- MODULE Teams_proofs ----------------------------
(***************************************************************************)
(* Theorems of Teams.  TeamsInv is what the row locks buy: two requests    *)
(* never hold one row, a request that has locked its team knows every seat *)
(* the team has, and the status if it read it under the lock.  Limits,     *)
(* leadership and capacity rest on it, each with the little it needs more. *)
(***************************************************************************)
EXTENDS Teams, FiniteSetTheorems, SequenceTheorems, WellFoundedInduction, TLAPS

\* Requests that lock the team's row.
TakesTeam == {"join", "add", "adminAdd", "transfer", "confirm", "patch",
              "cancelUnpaid", "cancelTeam", "cancelReg", "revoke"}

\* The row is locked, or will be before the commit.
Planned(c, row) == row \in req[c].held \/ \E i \in 1 .. Len(req[c].todo) : req[c].todo[i] = row

\* Nobody else holds a lock of the request.
Alone == \A c, d \in Reqs : c # d => req[c].held \cap req[d].held = {}

\* A row of team_members in use belongs to a team that was formed, for good.
Used(s) == \/ seat[s] = Unused
           \/ /\ seat[s].team \in Teams /\ team[seat[s].team].status # "ABSENT"
              /\ seat[s].status # "UNUSED"

Knows(c) ==
    LET r == req[c]
        t == r.team
    IN r # Idle =>
         /\ team[t].status # "ABSENT"
         /\ r.op \in TakesTeam => Planned(c, t)
         /\ r.op = "join" /\ t \in r.held /\ reg[t] = "CONFIRMED" => Planned(c, Event)
         /\ r.op \in {"join", "add"} /\ t \in r.held => r.status = team[t].status
         /\ r.op \in ReadsRoster /\ t \in r.held => SeatsOf(t) \subseteq r.seats
         /\ \A s \in r.seats : seat[s].team = t
         /\ r.op = "confirm" => r.reg # "CANCELLED"
         /\ r.op = "patch" => r.status # "CANCELLED"
         /\ r.op \in {"join", "confirm", "transfer"} => r.who \in Profiles
         /\ r.op \in {"add", "adminAdd"} => r.role \in {"MEMBER", "SUBSTITUTE"}
         /\ r.op \in {"leave", "remove"} => r.seat \in Seats /\ seat[r.seat] # Unused

TeamsInv ==
    /\ TypeOK
    /\ \A s \in Seats : Used(s)
    /\ Alone
    /\ \A c \in Reqs : Knows(c)

\* A request that found room under the event's lock still has it.
RoomInv ==
    /\ CheckedSeatsFit
    /\ \A c \in Reqs : Event \in req[c].held /\ req[c].room
                         => Cardinality(Counted \ unchecked) < Capacity

-----------------------------------------------------------------------------

-----------------------------------------------------------------------------
(* Requests, rules and counts. *)

\* A request in flight has every field of one.
LEMMA InFlight ==
  ASSUME TypeOK, NEW c \in Reqs, req[c] # Idle
  PROVE  req[c] \in Request
BY DEF TypeOK

\* A request that is ready to commit is in flight.
LEMMA ReadyIsInFlight ==
  ASSUME TypeOK, NEW c \in Reqs, NEW ops, "idle" \notin ops, Ready(c, ops)
  PROVE  /\ req[c] # Idle /\ req[c] \in Request
         /\ req[c].op \in ops /\ req[c].todo = <<>> /\ req[c].team \in Teams
BY DEF Ready, TypeOK, Request, Idle

\* Every request holds a set of rows, the idle one none.
LEMMA HeldRows ==
  ASSUME TypeOK, NEW c \in Reqs
  PROVE  req[c].held \subseteq Rows
BY DEF TypeOK, Request, Idle

\* The bounds of a roster are numbers, and a team may have somebody.
LEMMA Limits ==
  /\ TeamMin(Rules) \in Nat /\ TeamMax(Rules) \in Nat \ {0} /\ SubstituteSlots(Rules) \in Nat
  /\ HasSubstitutes(Rules) => SubstituteSlots(Rules) = Rules.subs
BY RulesAssumption, LimitsAssumption
   DEF Rule, TeamMin, TeamMax, SubstituteSlots, Clamp, Greatest, Least, OrElse

\* The substitutes of a set of seats.
Subs(S) == {s \in S : seat[s].role = "SUBSTITUTE"}

\* RosterOf counts people, and among them the substitutes.
LEMMA RosterCount ==
  ASSUME NEW S, S \subseteq Seats
  PROVE  /\ Size(RosterOf(S)) = Cardinality(S)
         /\ RosterOf(S).subs = Cardinality(Subs(S))
         /\ RosterOf(S).mandatory \in Nat
         /\ Cardinality(S) \in Nat /\ Cardinality(Subs(S)) \in Nat
<1> DEFINE rest == S \ Subs(S)
<1>1. IsFiniteSet(S) /\ Subs(S) \subseteq S
  BY RowsAssumption, FS_Subset DEF Subs
<1>2. IsFiniteSet(Subs(S)) /\ IsFiniteSet(rest)
  BY <1>1, FS_Subset
<1>3. Cardinality(S) \in Nat /\ Cardinality(Subs(S)) \in Nat /\ Cardinality(rest) \in Nat
  BY <1>1, <1>2, FS_CardinalityType
<1>4. rest \cup Subs(S) = S /\ rest \cap Subs(S) = {}
  BY <1>1
<1>5. Cardinality(rest \cup Subs(S))
        = Cardinality(rest) + Cardinality(Subs(S)) - Cardinality(rest \cap Subs(S))
  <2> HIDE DEF rest
  <2> QED BY <1>2, FS_Union
<1>6. RosterOf(S) = [mandatory |-> Cardinality(rest), subs |-> Cardinality(Subs(S))]
  BY DEF RosterOf, Subs
<1> HIDE DEF rest
<1>7. Cardinality(S) = Cardinality(rest) + Cardinality(Subs(S)) - Cardinality({})
  BY <1>4, <1>5, Zenon
<1>8. Cardinality({}) = 0
  BY FS_EmptySet
<1> QED BY <1>3, <1>6, <1>7, <1>8 DEF Size

\* A set of seats with at most one more has at most one more member.
LEMMA OneMore ==
  ASSUME NEW S, NEW T, NEW n, S \subseteq Seats, T \subseteq S \cup {n}
  PROVE  /\ Cardinality(S) \in Nat /\ Cardinality(T) \in Nat
         /\ Cardinality(T) <= Cardinality(S) + 1
<1>1. IsFiniteSet(S)
  BY RowsAssumption, FS_Subset
<1>2. IsFiniteSet(S \cup {n}) /\ Cardinality(S) \in Nat
      /\ Cardinality(S \cup {n}) <= Cardinality(S) + 1
  BY <1>1, FS_AddElement, FS_CardinalityType
<1>3. IsFiniteSet(T) /\ Cardinality(T) <= Cardinality(S \cup {n})
  BY <1>2, FS_Subset
<1> QED BY <1>2, <1>3, FS_CardinalityType

\* Fewer seats, fewer people.
LEMMA Fewer ==
  ASSUME NEW S, NEW T, S \subseteq Seats, T \subseteq S
  PROVE  /\ Cardinality(S) \in Nat /\ Cardinality(T) \in Nat
         /\ Cardinality(T) <= Cardinality(S)
<1>1. IsFiniteSet(S)
  BY RowsAssumption, FS_Subset
<1> QED BY <1>1, FS_Subset, FS_CardinalityType

\* Inserting a row of team_members takes one unused row and changes no other.
LEMMA SeatInserted ==
  ASSUME TypeOK, NEW t \in Teams, NEW p \in Profiles \cup {NoProfile},
         NEW role \in {"LEADER", "MEMBER", "SUBSTITUTE"}, NEW status \in Held,
         Insert(t, p, role, status)
  PROVE  \E n \in Seats :
           /\ seat[n] = Unused
           /\ seat'[n] = [team |-> t, profile |-> p, role |-> role, status |-> status]
           /\ \A s \in Seats : s # n => seat'[s] = seat[s]
           /\ seat' \in [Seats -> SeatRow]
<1> DEFINE next == CHOOSE s \in Seats : seat[s] = Unused
           row == [team |-> t, profile |-> p, role |-> role, status |-> status]
<1>1. next \in Seats /\ seat[next] = Unused
  BY DEF Insert
<1>2. row \in SeatRow
  BY DEF SeatRow
<1>3. seat' = [s \in Seats |-> IF s = next THEN row ELSE seat[s]]
  BY DEF Insert, Inserted
<1> HIDE DEF next, row
<1>4. seat' \in [Seats -> SeatRow]
  BY <1>2, <1>3 DEF TypeOK
<1>5. seat'[next] = row /\ \A s \in Seats : s # next => seat'[s] = seat[s]
  BY <1>1, <1>3
<1> QED BY <1>1, <1>4, <1>5 DEF row

\* A seat in use belongs to a formed team, and an unused one to none.
LEMMA SeatsHaveATeam ==
  ASSUME TypeOK, NEW s \in Seats, Used(s)
  PROVE  /\ seat[s].status \in Held => seat[s] # Unused
         /\ seat[s].team \in Teams => seat[s] # Unused /\ team[seat[s].team].status # "ABSENT"
         /\ seat[s] # Unused => seat[s].team \in Teams
BY RowsAssumption DEF Used, Unused, Held

-----------------------------------------------------------------------------
(* What a step leaves to the other requests. *)

\* A team another request has locked: its status stays, its registration is not
\* confirmed, and nobody is added.
Kept(t) == /\ team'[t].status = team[t].status
           /\ reg'[t] = "CONFIRMED" => reg[t] = "CONFIRMED"
           /\ SeatsOf(t)' \subseteq SeatsOf(t)

\* A step keeps TeamsInv if the rows keep their type, a formed team and a seat in
\* use stay so, and every request ends or goes on with what it has read.
LEMMA Framed ==
  ASSUME TeamsInv, TypeOK', \A s \in Seats : Used(s)',
         \A t \in Teams : team[t].status # "ABSENT" => team'[t].status # "ABSENT",
         \A s \in Seats : seat[s] # Unused => seat'[s] # Unused /\ seat'[s].team = seat[s].team,
         \A d \in Reqs : \/ req'[d] = Idle
                         \/ /\ req'[d] = req[d]
                            /\ req[d] # Idle /\ req[d].team \in req[d].held => Kept(req[d].team)
  PROVE  TeamsInv'
<1>1. Alone'
  BY DEF TeamsInv, Alone, Idle
<1>2. ASSUME NEW d \in Reqs
      PROVE  Knows(d)'
  <2>1. CASE req'[d] = Idle
    BY <2>1 DEF Knows
  <2>2. CASE req'[d] = req[d] /\ req[d] # Idle
    <3> DEFINE r == req[d]
               t == req[d].team
    <3>1. r \in Request /\ t \in Teams
      BY <2>2, InFlight DEF TeamsInv, Request
    <3>2. Knows(d) /\ \A s \in Seats : Used(s)
      BY DEF TeamsInv
    <3>3. t \in r.held => Kept(t)
      BY <2>2
    <3>4. /\ team'[t].status # "ABSENT"
          /\ \A s \in r.seats : seat'[s].team = t
          /\ r.op = "confirm" => r.reg # "CANCELLED"
          /\ r.op = "patch" => r.status # "CANCELLED"
          /\ r.op \in {"join", "confirm", "transfer"} => r.who \in Profiles
          /\ r.op \in {"add", "adminAdd"} => r.role \in {"MEMBER", "SUBSTITUTE"}
      <4>1. \A s \in r.seats : s \in Seats /\ seat[s] # Unused
        BY <2>2, <3>1, <3>2, RowsAssumption DEF Knows, Request, Unused
      <4> QED BY <2>2, <3>1, <3>2, <4>1 DEF Knows
    <3>5. r.op \in {"leave", "remove"} => r.seat \in Seats /\ seat'[r.seat] # Unused
      BY <2>2, <3>2 DEF Knows
    <3>6. /\ r.op \in TakesTeam => Planned(d, t)'
          /\ r.op = "join" /\ t \in r.held /\ reg'[t] = "CONFIRMED" => Planned(d, Event)'
      <4>1. \A row : Planned(d, row) => Planned(d, row)'
        BY <2>2 DEF Planned
      <4>2. /\ r.op \in TakesTeam => Planned(d, t)
            /\ r.op = "join" /\ t \in r.held /\ reg[t] = "CONFIRMED" => Planned(d, Event)
        BY <2>2, <3>2 DEF Knows
      <4> QED BY <2>2, <3>3, <4>1, <4>2 DEF Kept, Planned
    <3>7. /\ r.op \in {"join", "add"} /\ t \in r.held => r.status = team'[t].status
          /\ r.op \in ReadsRoster /\ t \in r.held => SeatsOf(t)' \subseteq r.seats
      BY <2>2, <3>2, <3>3 DEF Knows, Kept
    <3> HIDE DEF r, t
    <3>8. /\ team'[t].status # "ABSENT"
          /\ r.op \in TakesTeam => Planned(d, t)'
          /\ r.op = "join" /\ t \in r.held /\ reg'[t] = "CONFIRMED" => Planned(d, Event)'
          /\ r.op \in {"join", "add"} /\ t \in r.held => r.status = team'[t].status
          /\ r.op \in ReadsRoster /\ t \in r.held => SeatsOf(t)' \subseteq r.seats
          /\ \A s \in r.seats : seat'[s].team = t
          /\ r.op = "confirm" => r.reg # "CANCELLED"
          /\ r.op = "patch" => r.status # "CANCELLED"
          /\ r.op \in {"join", "confirm", "transfer"} => r.who \in Profiles
          /\ r.op \in {"add", "adminAdd"} => r.role \in {"MEMBER", "SUBSTITUTE"}
          /\ r.op \in {"leave", "remove"} => r.seat \in Seats /\ seat'[r.seat] # Unused
      BY <3>4, <3>5, <3>6, <3>7
    <3> QED BY <2>2, <3>8, Zenon DEF Knows, r, t
  <2> QED BY <2>1, <2>2
<1> QED BY <1>1, <1>2 DEF TeamsInv

\* A request that commits holds its team, and nobody else does.
LEMMA Mine ==
  ASSUME TeamsInv, NEW c \in Reqs, req[c].op \in TakesTeam, req[c].todo = <<>>
  PROVE  /\ req[c].team \in Teams /\ req[c].team \in req[c].held
         /\ team[req[c].team].status # "ABSENT"
         /\ \A d \in Reqs : d # c /\ req[d] # Idle /\ req[d].team \in req[d].held
                              => req[d].team # req[c].team
<1>1. req[c] # Idle /\ req[c] \in Request /\ req[c].team \in Teams
  BY InFlight DEF TeamsInv, TakesTeam, Idle, Request
<1>2. req[c].team \in req[c].held
  BY <1>1 DEF TeamsInv, Knows, Planned
<1>3. team[req[c].team].status # "ABSENT"
  BY <1>1 DEF TeamsInv, Knows
<1> QED BY <1>1, <1>2, <1>3 DEF TeamsInv, Alone

\* So a commit that writes only its own team keeps TeamsInv.
LEMMA OwnStep ==
  ASSUME TeamsInv, TypeOK', \A s \in Seats : Used(s)',
         NEW c \in Reqs, req[c].op \in TakesTeam, req[c].todo = <<>>,
         req' = [req EXCEPT ![c] = Idle],
         \A u \in Teams \ {req[c].team} : team'[u] = team[u] /\ reg'[u] = reg[u],
         team'[req[c].team].status # "ABSENT",
         \A s \in Seats : seat[s] # Unused => seat'[s] # Unused /\ seat'[s].team = seat[s].team,
         \A s \in Seats : seat'[s] # seat[s] => seat'[s].team = req[c].team
  PROVE  TeamsInv'
<1>1. \A u \in Teams \ {req[c].team} : Kept(u)
  BY DEF Kept, SeatsOf
<1>2. \A t \in Teams : team[t].status # "ABSENT" => team'[t].status # "ABSENT"
  OBVIOUS
<1>3. ASSUME NEW d \in Reqs
      PROVE  \/ req'[d] = Idle
             \/ /\ req'[d] = req[d]
                /\ req[d] # Idle /\ req[d].team \in req[d].held => Kept(req[d].team)
  <2>1. CASE d = c
    BY <2>1 DEF TeamsInv, TypeOK
  <2>2. CASE d # c
    <3>1. req'[d] = req[d]
      BY <2>2
    <3>2. ASSUME req[d] # Idle, req[d].team \in req[d].held
          PROVE  Kept(req[d].team)
      BY <2>2, <3>2, <1>1, Mine, InFlight DEF TeamsInv, Request
    <3> QED BY <3>1, <3>2
  <2> QED BY <2>1, <2>2
<1> QED BY <1>2, <1>3, Framed

\* The rest of a request's end: the requests and their number keep their type.
LEMMA DoneTypes ==
  ASSUME TypeOK, NEW c \in Reqs, Done(c)
  PROVE  req' \in [Reqs -> Request \cup {Idle}] /\ asks' \in 0 .. MaxAsks
         /\ req'[c] = Idle /\ req' = [req EXCEPT ![c] = Idle]
         /\ \A d \in Reqs \ {c} : req'[d] = req[d]
BY DEF TypeOK, Done

-----------------------------------------------------------------------------
(* Each action keeps TeamsInv. *)

LEMMA TeamsInit == Init => TeamsInv
BY RulesAssumption
   DEF Init, TeamsInv, TypeOK, TeamRow, RegStatus, SeatRow, Unused, TeamStatus, Used, Alone, Knows, Idle

\* A step that writes one team's row keeps the type of the rows.
LEMMA TeamRowWritten ==
  ASSUME TypeOK, NEW t \in Teams, NEW x \in TeamRow, team' = [team EXCEPT ![t] = x]
  PROVE  /\ team' \in [Teams -> TeamRow] /\ team'[t] = x
         /\ \A u \in Teams \ {t} : team'[u] = team[u]
BY DEF TypeOK

\* The founder takes an unused seat as leader.
LEMMA FounderSeat ==
  ASSUME TeamsInv, NEW t \in Teams, NEW p \in Profiles, CreateTeam(t, p)
  PROVE  \E n \in Seats :
           /\ seat[n] = Unused
           /\ seat'[n] = [team |-> t, profile |-> p, role |-> "LEADER",
                          status |-> "PENDING_PAYMENT"]
           /\ \A s \in Seats : s # n => seat'[s] = seat[s]
           /\ seat' \in [Seats -> SeatRow]
<1>1. TypeOK /\ Insert(t, p, "LEADER", "PENDING_PAYMENT")
  BY DEF CreateTeam, TeamsInv
<1>2. p \in Profiles \cup {NoProfile} /\ "PENDING_PAYMENT" \in Held
  BY DEF Held
<1> QED BY <1>1, <1>2, SeatInserted

LEMMA CreateTeamKeeps ==
  ASSUME TeamsInv, NEW t \in Teams, NEW p \in Profiles, CreateTeam(t, p)
  PROVE  TeamsInv'
<1> DEFINE x == [status |-> "FORMING", leader |-> p, founder |-> p]
<1>1. PICK n \in Seats :
        /\ seat[n] = Unused
        /\ seat'[n] = [team |-> t, profile |-> p, role |-> "LEADER", status |-> "PENDING_PAYMENT"]
        /\ \A s \in Seats : s # n => seat'[s] = seat[s]
        /\ seat' \in [Seats -> SeatRow]
  BY FounderSeat
<1>2. x \in TeamRow
  BY DEF TeamRow, TeamStatus
<1>3. /\ team' \in [Teams -> TeamRow] /\ team'[t] = x
      /\ \A u \in Teams \ {t} : team'[u] = team[u]
  BY <1>2, TeamRowWritten DEF CreateTeam, TeamsInv
<1>4. /\ reg' \in [Teams -> RegStatus] /\ reg'[t] = "PENDING"
      /\ \A u \in Teams \ {t} : reg'[u] = reg[u]
  BY DEF CreateTeam, TeamsInv, TypeOK, RegStatus
<1>5. team[t].status = "ABSENT" /\ req' = req
  BY DEF CreateTeam
<1>6. TypeOK'
  BY <1>1, <1>3, <1>4 DEF CreateTeam, TeamsInv, TypeOK
<1>7. \A s \in Seats : Used(s)'
  BY <1>1, <1>3 DEF TeamsInv, Used, Unused
<1>8. \A u \in Teams \ {t} : Kept(u)
  BY <1>1, <1>3, <1>4 DEF Kept, SeatsOf
<1>9. \A d \in Reqs : req[d] = Idle \/ req[d].team \in Teams \ {t}
  BY <1>5, InFlight DEF TeamsInv, Knows, Request
<1> QED BY <1>1, <1>3, <1>5, <1>6, <1>7, <1>8, <1>9, Framed

LEMMA InviteKeeps ==
  ASSUME TeamsInv, NEW t \in Teams, Invite(t)
  PROVE  TeamsInv'
<1>1. TypeOK'
  BY DEF Invite, TeamsInv, TypeOK
<1>2. \A s \in Seats : Used(s)'
  BY DEF Invite, TeamsInv, Used
<1>3. \A u \in Teams : Kept(u)
  BY DEF Invite, Kept, SeatsOf
<1> QED BY <1>1, <1>2, <1>3, InFlight, Framed DEF Invite, TeamsInv, Request

\* The rows to lock, the team among them where the operation locks it.
LEMMA Plans ==
  ASSUME NEW op, NEW t \in Teams
  PROVE  /\ LockPlan(op, t) \in Seq(Rows)
         /\ op \in TakesTeam => \E i \in 1 .. Len(LockPlan(op, t)) : LockPlan(op, t)[i] = t
<1>1. t \in Rows /\ RegOf(t) \in Rows /\ Event \in Rows
  BY DEF Rows
<1>2. CASE op = "confirm"
  <2> DEFINE first == IF reg[t] = "CONFIRMED" THEN <<>> ELSE <<Event>>
             rest == <<t, RegOf(t)>>
  <2>1. LockPlan(op, t) = first \o rest
    BY <1>2 DEF LockPlan
  <2>2. /\ first \in Seq(Rows) /\ Len(first) \in Nat
        /\ rest \in Seq(Rows) /\ Len(rest) = 2 /\ rest[1] = t
    BY <1>1
  <2> HIDE DEF first, rest
  <2>3. /\ first \o rest \in Seq(Rows) /\ Len(first \o rest) = Len(first) + 2
        /\ (first \o rest)[Len(first) + 1] = t
    <3> DEFINE all == first \o rest
               at == Len(first) + 1
    <3>1. /\ all \in Seq(Rows) /\ Len(all) = Len(first) + Len(rest)
          /\ \A i \in 1 .. Len(first) + Len(rest) :
               all[i] = IF i <= Len(first) THEN first[i] ELSE rest[i - Len(first)]
      BY <2>2, ConcatProperties
    <3> HIDE DEF all
    <3>2. at \in 1 .. Len(first) + Len(rest) /\ ~ (at <= Len(first)) /\ at - Len(first) = 1
      BY <2>2
    <3> HIDE DEF at
    <3>3. all[at] = rest[1]
      BY <3>1, <3>2
    <3> QED BY <2>2, <3>1, <3>3 DEF all, at
  <2>4. Len(first) + 1 \in 1 .. Len(first \o rest)
    BY <2>2, <2>3
  <2> QED BY <2>1, <2>3, <2>4
<1>3. CASE op \in {"cancelUnpaid", "cancelReg", "revoke"}
  <2>1. LockPlan(op, t) = <<RegOf(t), t>>
    BY <1>3 DEF LockPlan
  <2>2. <<RegOf(t), t>>[2] = t /\ Len(<<RegOf(t), t>>) = 2 /\ <<RegOf(t), t>> \in Seq(Rows)
    BY <1>1
  <2> QED BY <2>1, <2>2
<1>4. CASE op = "cancelTeam"
  <2>1. LockPlan(op, t) = <<t, RegOf(t)>>
    BY <1>4 DEF LockPlan
  <2>2. <<t, RegOf(t)>>[1] = t /\ Len(<<t, RegOf(t)>>) = 2 /\ <<t, RegOf(t)>> \in Seq(Rows)
    BY <1>1
  <2> QED BY <2>1, <2>2
<1>5. CASE op = "patchReg"
  <2>1. LockPlan(op, t) = <<RegOf(t)>> /\ op \notin TakesTeam
    BY <1>5 DEF LockPlan, TakesTeam
  <2> QED BY <1>1, <2>1
<1>6. CASE op \in {"leave", "remove"}
  <2>1. LockPlan(op, t) = <<>> /\ op \notin TakesTeam
    BY <1>6 DEF LockPlan, TakesTeam
  <2> QED BY <2>1
<1>7. CASE op \notin {"confirm", "cancelUnpaid", "cancelReg", "revoke", "cancelTeam", "patchReg",
                      "leave", "remove"}
  <2>1. LockPlan(op, t) = <<t>>
    BY <1>7 DEF LockPlan
  <2>2. <<t>>[1] = t /\ Len(<<t>>) = 1 /\ <<t>> \in Seq(Rows)
    BY <1>1
  <2> QED BY <2>1, <2>2
<1> QED BY <1>2, <1>3, <1>4, <1>5, <1>6, <1>7

\* Who asks, locks or gives up writes no row.
LEMMA RowsUntouched ==
  ASSUME NEW c \in Reqs, Ask(c) \/ Lock(c) \/ Abort(c)
  PROVE  UNCHANGED <<team, reg, seat, unchecked, revived>>
<1>1. ASSUME NEW op, NEW t, NEW who, NEW role, NEW s, Begin(c, op, t, who, role, s)
      PROVE  UNCHANGED <<team, reg, seat, unchecked, revived>>
  BY <1>1 DEF Begin
<1>2. CASE Ask(c)
  <2>1. ASSUME NEW t, NEW p, AskJoin(c, t, p) \/ AskConfirm(c, t, p) \/ AskTransfer(c, t, p)
        PROVE  UNCHANGED <<team, reg, seat, unchecked, revived>>
    BY <1>1, <2>1 DEF AskJoin, AskConfirm, AskTransfer
  <2>2. ASSUME NEW op, NEW t, NEW p, NEW role, AskAdd(c, op, t, p, role)
        PROVE  UNCHANGED <<team, reg, seat, unchecked, revived>>
    BY <1>1, <2>2 DEF AskAdd
  <2>3. ASSUME NEW op, NEW t, NEW s, AskPatch(c, t) \/ AskCancel(c, op, t) \/ AskLeave(c, op, s)
        PROVE  UNCHANGED <<team, reg, seat, unchecked, revived>>
    BY <1>1, <2>3 DEF AskPatch, AskCancel, AskLeave
  <2> QED BY <1>2, <2>1, <2>2, <2>3 DEF Ask
<1>3. CASE Lock(c)
  BY <1>3 DEF Lock
<1>4. CASE Abort(c)
  BY <1>4 DEF Abort
<1> QED BY <1>2, <1>3, <1>4

\* A new request has locked nothing and knows what its operation loads first.
LEMMA BeginKeeps ==
  ASSUME TeamsInv, NEW c \in Reqs, NEW t \in Teams, NEW who \in Profiles \cup {NoProfile},
         NEW role \in {"LEADER", "MEMBER", "SUBSTITUTE"}, NEW s \in Seats \cup {NoSeat},
         NEW op \in {"join", "add", "adminAdd", "confirm", "transfer", "patch", "leave", "remove",
                     "cancelUnpaid", "cancelTeam", "cancelReg", "revoke", "patchReg"},
         Begin(c, op, t, who, role, s),
         op \in {"join", "confirm", "transfer"} => who \in Profiles,
         op \in {"add", "adminAdd"} => role \in {"MEMBER", "SUBSTITUTE"},
         op \in {"leave", "remove"} => s \in Seats /\ seat[s] # Unused,
         op = "confirm" => reg[t] # "CANCELLED",
         op = "patch" => team[t].status # "CANCELLED"
  PROVE  TeamsInv'
<1> DEFINE st == IF op \in KeepsStatus THEN team[t].status ELSE "ABSENT"
           rg == IF op \in KeepsReg THEN reg[t] ELSE "NONE"
           y == [op |-> op, team |-> t, who |-> who, role |-> role, seat |-> s,
                 todo |-> LockPlan(op, t), held |-> {}, seats |-> {}, placed |-> FALSE,
                 room |-> FALSE, status |-> st, reg |-> rg]
<1>1. st \in TeamStatus /\ rg \in RegStatus
  BY DEF TeamsInv, TypeOK, TeamRow, TeamStatus, RegStatus
<1>2. y \in Request
  <2> HIDE DEF st, rg
  <2> QED BY <1>1, Plans DEF Request
<1>3. /\ y.op = op /\ y.team = t /\ y.who = who /\ y.role = role /\ y.seat = s
      /\ y.todo = LockPlan(op, t) /\ y.held = {} /\ y.seats = {} /\ y.status = st /\ y.reg = rg
  OBVIOUS
<1>4. req' = [req EXCEPT ![c] = y]
  BY DEF Begin
<1>5. /\ op = "confirm" => rg = reg[t]
      /\ op = "patch" => st = team[t].status
  BY DEF KeepsStatus, KeepsReg
<1>6. /\ team[t].status # "ABSENT" /\ asks' \in 0 .. MaxAsks
      /\ UNCHANGED <<team, invited, reg, seat, unchecked, revived>>
  BY RulesAssumption DEF Begin, TeamsInv, TypeOK
<1> HIDE DEF st, rg, y
<1>7. /\ req' \in [Reqs -> Request \cup {Idle}] /\ req'[c] = y
      /\ \A d \in Reqs \ {c} : req'[d] = req[d]
  BY <1>2, <1>4 DEF TeamsInv, TypeOK
<1>8. TypeOK'
  BY <1>6, <1>7 DEF TeamsInv, TypeOK
<1>9. \A x \in Seats : Used(x)'
  BY <1>6 DEF TeamsInv, Used
<1>10. Alone'
  BY <1>3, <1>7 DEF TeamsInv, Alone
<1>11. ASSUME NEW d \in Reqs \ {c}
       PROVE  Knows(d)'
  BY <1>6, <1>7 DEF TeamsInv, Knows, Planned, SeatsOf
<1>12. Knows(c)'
  <2>1. op \in TakesTeam => Planned(c, t)'
    BY <1>3, <1>7, Plans DEF Planned
  <2> QED BY <1>3, <1>5, <1>6, <1>7, <2>1 DEF Knows
<1> QED BY <1>8, <1>9, <1>10, <1>11, <1>12 DEF TeamsInv

LEMMA AskKeeps ==
  ASSUME TeamsInv, NEW c \in Reqs, Ask(c)
  PROVE  TeamsInv'
<1>1. ASSUME NEW t \in Teams, NEW p \in Profiles,
             AskJoin(c, t, p) \/ AskConfirm(c, t, p) \/ AskTransfer(c, t, p)
      PROVE  TeamsInv'
  <2>1. CASE AskJoin(c, t, p)
    BY <2>1, BeginKeeps DEF AskJoin
  <2>2. CASE AskConfirm(c, t, p)
    BY <2>2, BeginKeeps DEF AskConfirm
  <2>3. CASE AskTransfer(c, t, p)
    BY <2>3, BeginKeeps DEF AskTransfer
  <2> QED BY <1>1, <2>1, <2>2, <2>3
<1>2. ASSUME NEW op \in {"add", "adminAdd"}, NEW t \in Teams, NEW p \in Profiles \cup {NoProfile},
             NEW role \in {"MEMBER", "SUBSTITUTE"}, AskAdd(c, op, t, p, role)
      PROVE  TeamsInv'
  BY <1>2, BeginKeeps DEF AskAdd
<1>3. ASSUME NEW t \in Teams, AskPatch(c, t)
      PROVE  TeamsInv'
  BY <1>3, BeginKeeps DEF AskPatch
<1>4. ASSUME NEW op \in {"cancelUnpaid", "cancelTeam", "cancelReg", "revoke", "patchReg"},
             NEW t \in Teams, AskCancel(c, op, t)
      PROVE  TeamsInv'
  BY <1>4, BeginKeeps DEF AskCancel
<1>5. ASSUME NEW op \in {"leave", "remove"}, NEW s \in Seats, AskLeave(c, op, s)
      PROVE  TeamsInv'
  <2>1. seat[s] # Unused /\ seat[s].team \in Teams
    BY <1>5, SeatsHaveATeam DEF AskLeave, TeamsInv
  <2> QED BY <1>5, <2>1, BeginKeeps DEF AskLeave
<1> QED BY <1>1, <1>2, <1>3, <1>4, <1>5 DEF Ask

\* What a granted lock changes in the request, and in nothing else.
LEMMA LockTakes ==
  ASSUME TeamsInv, NEW c \in Reqs, Lock(c)
  PROVE  /\ req[c] \in Request /\ req[c].team \in Teams
         /\ Head(req[c].todo) \in Rows /\ Free(c, Head(req[c].todo))
         /\ req' \in [Reqs -> Request \cup {Idle}] /\ req'[c] \in Request
         /\ \A d \in Reqs \ {c} : req'[d] = req[d]
         /\ req'[c].op = req[c].op /\ req'[c].team = req[c].team /\ req'[c].who = req[c].who
         /\ req'[c].role = req[c].role /\ req'[c].seat = req[c].seat
         /\ req'[c].held = req[c].held \cup {Head(req[c].todo)}
         /\ \A row : Planned(c, row) => Planned(c, row)'
         /\ Head(req[c].todo) = req[c].team /\ req[c].op = "join"
              /\ reg[req[c].team] = "CONFIRMED" => Planned(c, Event)'
         /\ req'[c].status = IF Head(req[c].todo) = req[c].team /\ req[c].op \in {"join", "add"}
                             THEN team[req[c].team].status ELSE req[c].status
         /\ req'[c].seats = IF Head(req[c].todo) = req[c].team /\ req[c].op \in ReadsRoster
                            THEN SeatsOf(req[c].team) ELSE req[c].seats
         /\ req[c].op # "cancelUnpaid" => req'[c].reg = req[c].reg
         /\ req'[c].room = IF Head(req[c].todo) = Event THEN HasRoom ELSE req[c].room
<1> DEFINE r == req[c]
           t == r.team
           row == Head(r.todo)
           mine == row = t
           extra == IF mine /\ r.op = "join" /\ reg[t] = "CONFIRMED" THEN <<Event>> ELSE <<>>
           held == r.held \cup {row}
           todo == Tail(r.todo) \o extra
           st == IF mine /\ r.op \in {"join", "add"} THEN team[t].status ELSE r.status
           seats == IF mine /\ r.op \in ReadsRoster THEN SeatsOf(t) ELSE r.seats
           placed == IF mine /\ r.op \in ReadsRoster /\ r.who # NoProfile
                     THEN PlacesOf(r.who) # {} ELSE r.placed
           rg == IF row = RegOf(t) /\ r.op = "cancelUnpaid" THEN reg[t] ELSE r.reg
           room == IF row = Event THEN HasRoom ELSE r.room
           y == [r EXCEPT !.held = held, !.todo = todo, !.status = st, !.seats = seats,
                          !.placed = placed, !.reg = rg, !.room = room]
<1>1. r.todo # <<>> /\ Free(c, row) /\ req' = [req EXCEPT ![c] = y]
  BY DEF Lock
<1>2. r # Idle /\ r \in Request /\ t \in Teams
  BY <1>1, InFlight DEF TeamsInv, Idle, Request
<1>3. r.todo \in Seq(Rows) /\ Len(r.todo) \in Nat
  BY <1>2 DEF Request
<1>4. /\ row \in Rows /\ Tail(r.todo) \in Seq(Rows) /\ Len(Tail(r.todo)) = Len(r.todo) - 1
      /\ \A i \in 1 .. Len(Tail(r.todo)) : Tail(r.todo)[i] = r.todo[i + 1]
  BY <1>1, <1>3, HeadTailProperties
<1>5. extra \in Seq(Rows) /\ Len(extra) \in Nat
  <2>1. <<>> \in Seq(Rows) /\ <<Event>> \in Seq(Rows) /\ Len(<<>>) = 0 /\ Len(<<Event>>) = 1
    BY DEF Rows
  <2>2. extra = <<>> \/ extra = <<Event>>
    BY Zenon
  <2> HIDE DEF extra
  <2> QED BY <2>1, <2>2
<1>6. /\ todo \in Seq(Rows) /\ Len(todo) = Len(Tail(r.todo)) + Len(extra)
      /\ \A i \in 1 .. Len(Tail(r.todo)) + Len(extra) :
           todo[i] = IF i <= Len(Tail(r.todo)) THEN Tail(r.todo)[i]
                                               ELSE extra[i - Len(Tail(r.todo))]
  <2> HIDE DEF extra
  <2> QED BY <1>4, <1>5, ConcatProperties
<1>7. held \subseteq Rows /\ st \in TeamStatus /\ seats \subseteq Seats /\ placed \in BOOLEAN
      /\ rg \in RegStatus /\ room \in BOOLEAN
  <2>1. held \subseteq Rows
    BY <1>2, <1>4 DEF Request
  <2>2. st \in TeamStatus /\ rg \in RegStatus
    BY <1>2 DEF TeamsInv, TypeOK, TeamRow, Request
  <2>3. seats \subseteq Seats
    BY <1>2 DEF Request, SeatsOf
  <2>4. r.placed \in BOOLEAN /\ r.room \in BOOLEAN
    BY <1>2 DEF Request
  <2>5. placed \in BOOLEAN /\ room \in BOOLEAN
    <3> DEFINE full == PlacesOf(r.who) # {}
    <3>1. HasRoom \in BOOLEAN /\ full \in BOOLEAN
      BY DEF HasRoom
    <3>2. placed = full \/ placed = r.placed
      BY Zenon
    <3>3. room = HasRoom \/ room = r.room
      BY Zenon
    <3> HIDE DEF full, placed, room
    <3> QED BY <2>4, <3>1, <3>2, <3>3, Zenon
  <2> QED BY <2>1, <2>2, <2>3, <2>5
<1> HIDE DEF held, todo, st, seats, placed, rg, room
<1>8. y \in Request /\ y.op = r.op /\ y.team = t /\ y.who = r.who /\ y.role = r.role
      /\ y.seat = r.seat /\ y.held = held /\ y.todo = todo /\ y.status = st /\ y.seats = seats
      /\ y.reg = rg /\ y.room = room
  BY <1>2, <1>6, <1>7 DEF Request
<1> HIDE DEF y
<1>9. /\ req' \in [Reqs -> Request \cup {Idle}] /\ req'[c] = y
      /\ \A d \in Reqs \ {c} : req'[d] = req[d]
  BY <1>1, <1>8 DEF TeamsInv, TypeOK
<1>10. ASSUME NEW w, Planned(c, w)
       PROVE  Planned(c, w)'
  <2>1. CASE w \in r.held
    BY <2>1, <1>8, <1>9 DEF Planned, held
  <2>2. CASE w \notin r.held
    <3>1. PICK i \in 1 .. Len(r.todo) : r.todo[i] = w
      BY <1>10, <2>2 DEF Planned
    <3>2. CASE i = 1
      <4>1. row = w
        BY <1>1, <1>3, <3>1, <3>2
      <4> QED BY <4>1, <1>8, <1>9 DEF Planned, held
    <3>3. CASE i # 1
      <4>1. i - 1 \in 1 .. Len(Tail(r.todo)) /\ Tail(r.todo)[i - 1] = w
        BY <1>3, <1>4, <3>1, <3>3
      <4>2. i - 1 \in 1 .. Len(todo) /\ todo[i - 1] = w
        <5> DEFINE rest == Tail(r.todo)
                   at == i - 1
        <5>1. /\ Len(rest) \in Nat /\ Len(extra) \in Nat
              /\ at \in 1 .. Len(rest) /\ rest[at] = w
          BY <1>3, <1>4, <1>5, <4>1
        <5>2. /\ Len(todo) = Len(rest) + Len(extra)
              /\ at \in 1 .. Len(rest) + Len(extra) /\ at <= Len(rest) => todo[at] = rest[at]
          BY <1>6
        <5> HIDE DEF extra, rest, at
        <5>3. at \in 1 .. Len(todo) /\ todo[at] = w
          BY <5>1, <5>2
        <5> QED BY <5>3 DEF at
      <4> QED BY <4>2, <1>8, <1>9 DEF Planned
    <3> QED BY <3>2, <3>3
  <2> QED BY <2>1, <2>2
<1>11. ASSUME mine, r.op = "join", reg[t] = "CONFIRMED"
       PROVE  Planned(c, Event)'
  <2>1. extra = <<Event>> /\ Len(extra) = 1 /\ extra[1] = Event
    BY <1>11
  <2> HIDE DEF extra
  <2>2. Len(todo) \in 1 .. Len(todo) /\ todo[Len(todo)] = Event
    BY <1>3, <1>4, <1>6, <2>1
  <2> QED BY <2>2, <1>8, <1>9 DEF Planned
<1>12. /\ held = r.held \cup {row}
       /\ st = IF row = t /\ r.op \in {"join", "add"} THEN team[t].status ELSE r.status
       /\ seats = IF row = t /\ r.op \in ReadsRoster THEN SeatsOf(t) ELSE r.seats
       /\ r.op # "cancelUnpaid" => rg = r.reg
       /\ room = IF row = Event THEN HasRoom ELSE r.room
  BY Zenon DEF held, st, seats, rg, room
<1> QED BY <1>1, <1>2, <1>4, <1>8, <1>9, <1>10, <1>11, <1>12

LEMMA LockKeeps ==
  ASSUME TeamsInv, NEW c \in Reqs, Lock(c)
  PROVE  TeamsInv'
<1> DEFINE t == req[c].team
           op == req[c].op
<1>1. UNCHANGED <<team, invited, reg, seat, asks, unchecked, revived>>
  BY DEF Lock
<1>2. /\ req[c] \in Request /\ t \in Teams /\ Free(c, Head(req[c].todo))
      /\ req' \in [Reqs -> Request \cup {Idle}] /\ req'[c] \in Request
      /\ \A d \in Reqs \ {c} : req'[d] = req[d]
      /\ req'[c].op = op /\ req'[c].team = t /\ req'[c].who = req[c].who
      /\ req'[c].role = req[c].role /\ req'[c].seat = req[c].seat
      /\ req'[c].held = req[c].held \cup {Head(req[c].todo)}
  BY LockTakes
<1>3. \A row : Planned(c, row) => Planned(c, row)'
  BY LockTakes
<1>4. /\ Head(req[c].todo) = t /\ op = "join" /\ reg[t] = "CONFIRMED" => Planned(c, Event)'
      /\ req'[c].status = IF Head(req[c].todo) = t /\ op \in {"join", "add"}
                          THEN team[t].status ELSE req[c].status
      /\ req'[c].seats = IF Head(req[c].todo) = t /\ op \in ReadsRoster
                         THEN SeatsOf(t) ELSE req[c].seats
      /\ op # "cancelUnpaid" => req'[c].reg = req[c].reg
  BY LockTakes
<1>5. /\ Knows(c) /\ req[c] # Idle
      /\ \A d \in Reqs : Knows(d)
  BY <1>2 DEF TeamsInv, Request, Idle
<1>6. TypeOK'
  BY <1>1, <1>2 DEF TeamsInv, TypeOK
<1>7. \A s \in Seats : Used(s)'
  BY <1>1 DEF TeamsInv, Used
<1>8. Alone'
  BY <1>2 DEF TeamsInv, Alone, Free
<1>9. ASSUME NEW d \in Reqs \ {c}
      PROVE  Knows(d)'
  BY <1>1, <1>2, <1>5 DEF Knows, Planned, SeatsOf
<1>10. Knows(c)'
  <2>1. /\ op \in TakesTeam => Planned(c, t)'
        /\ op = "join" /\ t \in req'[c].held /\ reg[t] = "CONFIRMED" => Planned(c, Event)'
    BY <1>2, <1>3, <1>4, <1>5 DEF Knows
  <2>2. /\ op \in {"join", "add"} /\ t \in req'[c].held => req'[c].status = team[t].status
        /\ op \in ReadsRoster /\ t \in req'[c].held => SeatsOf(t) \subseteq req'[c].seats
        /\ \A s \in req'[c].seats : seat[s].team = t
    BY <1>2, <1>4, <1>5 DEF Knows, SeatsOf
  <2>3. /\ op = "confirm" => req'[c].reg # "CANCELLED"
        /\ op = "patch" => req'[c].status # "CANCELLED"
    BY <1>4, <1>5 DEF Knows
  <2>4. /\ op \in {"join", "confirm", "transfer"} => req'[c].who \in Profiles
        /\ op \in {"add", "adminAdd"} => req'[c].role \in {"MEMBER", "SUBSTITUTE"}
        /\ op \in {"leave", "remove"} => req'[c].seat \in Seats /\ seat[req'[c].seat] # Unused
    BY <1>2, <1>5 DEF Knows
  <2>5. \A u \in Teams : SeatsOf(u)' = SeatsOf(u)
    BY <1>1 DEF SeatsOf
  <2> QED BY <1>1, <1>2, <1>5, <2>1, <2>2, <2>3, <2>4, <2>5 DEF Knows
<1> QED BY <1>6, <1>7, <1>8, <1>9, <1>10 DEF TeamsInv

LEMMA AbortKeeps ==
  ASSUME TeamsInv, NEW c \in Reqs, Abort(c)
  PROVE  TeamsInv'
<1>1. /\ UNCHANGED <<team, invited, reg, seat, unchecked, revived>>
      /\ req' \in [Reqs -> Request \cup {Idle}] /\ asks' \in 0 .. MaxAsks
      /\ \A d \in Reqs : req'[d] = Idle \/ req'[d] = req[d]
  BY DoneTypes DEF Abort, TeamsInv
<1>2. TypeOK' /\ \A s \in Seats : Used(s)'
  BY <1>1 DEF TeamsInv, TypeOK, Used
<1>3. \A u \in Teams : Kept(u)
  BY <1>1 DEF Kept, SeatsOf
<1>4. \A d \in Reqs : req[d] # Idle => req[d].team \in Teams
  BY InFlight DEF TeamsInv, Request
<1>5. \A d \in Reqs : \/ req'[d] = Idle
                      \/ /\ req'[d] = req[d]
                         /\ req[d] # Idle /\ req[d].team \in req[d].held => Kept(req[d].team)
  BY <1>1, <1>3, <1>4
<1> QED BY <1>1, <1>2, <1>5, Framed

\* A member who completes the roster changes the team's status at most.
LEMMA CompletedTeam ==
  ASSUME TypeOK, NEW c \in Reqs, req[c].team \in Teams, NEW roster,
         team' = CompletedBy(c, roster)
  PROVE  /\ team' \in [Teams -> TeamRow]
         /\ \A u \in Teams \ {req[c].team} : team'[u] = team[u]
         /\ team'[req[c].team].leader = team[req[c].team].leader
         /\ team'[req[c].team].status \in {team[req[c].team].status, "COMPLETE"}
<1> DEFINE t == req[c].team
           x == [team[t] EXCEPT !.status = "COMPLETE"]
<1>1. x \in TeamRow /\ x.leader = team[t].leader /\ x.status = "COMPLETE"
  BY DEF TypeOK, TeamRow, TeamStatus
<1>2. CASE MandatoryMet(roster, Rules) /\ req[c].status = "PAID"
  <2>1. team' = [team EXCEPT ![t] = x]
    BY <1>2 DEF CompletedBy
  <2> HIDE DEF x
  <2> QED BY <1>1, <2>1, TeamRowWritten
<1>3. CASE ~ (MandatoryMet(roster, Rules) /\ req[c].status = "PAID")
  BY <1>3 DEF CompletedBy, TypeOK
<1> QED BY <1>2, <1>3

\* A member admitted under the team's lock: one new seat of the team.
LEMMA AdmissionKeeps ==
  ASSUME TeamsInv, NEW c \in Reqs, req[c].op \in {"join", "add", "adminAdd"}, req[c].todo = <<>>,
         NEW role \in {"MEMBER", "SUBSTITUTE"}, NEW roster,
         Insert(req[c].team, req[c].who, role, "ACTIVE"),
         team' = CompletedBy(c, roster), Done(c),
         unchecked' \subseteq Seats, UNCHANGED <<invited, reg, revived>>
  PROVE  /\ TeamsInv'
         /\ req[c].team \in Teams /\ req[c].team \in req[c].held
         /\ \E n \in Seats :
              /\ seat[n] = Unused
              /\ seat'[n] = [team |-> req[c].team, profile |-> req[c].who, role |-> role,
                             status |-> "ACTIVE"]
              /\ \A s \in Seats : s # n => seat'[s] = seat[s]
<1> DEFINE t == req[c].team
<1>1. /\ req[c] # Idle /\ req[c] \in Request
      /\ t \in Teams /\ t \in req[c].held /\ team[t].status # "ABSENT"
      /\ req[c].who \in Profiles \cup {NoProfile}
  BY Mine, InFlight DEF TakesTeam, TeamsInv, Idle, Request
<1>2. PICK n \in Seats :
        /\ seat[n] = Unused
        /\ seat'[n] = [team |-> t, profile |-> req[c].who, role |-> role, status |-> "ACTIVE"]
        /\ \A s \in Seats : s # n => seat'[s] = seat[s]
        /\ seat' \in [Seats -> SeatRow]
  <2>1. role \in {"LEADER", "MEMBER", "SUBSTITUTE"} /\ "ACTIVE" \in Held /\ TypeOK
    BY DEF TeamsInv, Held
  <2>2. PICK who \in Profiles \cup {NoProfile} : who = req[c].who
    BY <1>1
  <2>3. PICK u \in Teams : u = req[c].team
    BY <1>1
  <2>4. Insert(u, who, role, "ACTIVE")
    BY <2>2, <2>3
  <2>5. \E n \in Seats :
          /\ seat[n] = Unused
          /\ seat'[n] = [team |-> u, profile |-> who, role |-> role, status |-> "ACTIVE"]
          /\ \A s \in Seats : s # n => seat'[s] = seat[s]
          /\ seat' \in [Seats -> SeatRow]
    BY <2>1, <2>4, SeatInserted
  <2> QED BY <2>2, <2>3, <2>5
<1>3. /\ team' \in [Teams -> TeamRow]
      /\ \A u \in Teams \ {t} : team'[u] = team[u]
      /\ team'[t].status # "ABSENT"
  BY <1>1, CompletedTeam DEF TeamsInv
<1>4. /\ req' \in [Reqs -> Request \cup {Idle}] /\ asks' \in 0 .. MaxAsks
      /\ req' = [req EXCEPT ![c] = Idle]
  BY DoneTypes DEF TeamsInv
<1>5. TypeOK'
  BY <1>2, <1>3, <1>4 DEF TeamsInv, TypeOK
<1>6. \A s \in Seats : Used(s)'
  BY <1>1, <1>2, <1>3 DEF TeamsInv, Used, Unused
<1>7. TeamsInv'
  <2>1. req[c].op \in TakesTeam
    BY DEF TakesTeam
  <2>2. \A u \in Teams \ {t} : team'[u] = team[u] /\ reg'[u] = reg[u]
    BY <1>3
  <2>3. \A s \in Seats : seat[s] # Unused => seat'[s] # Unused /\ seat'[s].team = seat[s].team
    BY <1>2
  <2>4. \A s \in Seats : seat'[s] # seat[s] => seat'[s].team = t
    BY <1>2
  <2> QED BY <1>3, <1>4, <1>5, <1>6, <2>1, <2>2, <2>3, <2>4, OwnStep
<1> QED BY <1>1, <1>2, <1>7

LEMMA JoinKeeps ==
  ASSUME TeamsInv, NEW c \in Reqs, Join(c)
  PROVE  /\ TeamsInv'
         /\ req[c].team \in Teams /\ req[c].team \in req[c].held
         /\ NextJoinRole(RosterOf(req[c].seats), Rules) \in {"MEMBER", "SUBSTITUTE"}
         /\ \E n \in Seats :
              /\ seat[n] = Unused
              /\ seat'[n] = [team |-> req[c].team, profile |-> req[c].who,
                             role |-> NextJoinRole(RosterOf(req[c].seats), Rules),
                             status |-> "ACTIVE"]
              /\ \A s \in Seats : s # n => seat'[s] = seat[s]
<1> DEFINE role == NextJoinRole(RosterOf(req[c].seats), Rules)
<1>1. role \in {"MEMBER", "SUBSTITUTE"}
  BY DEF Join, NextJoinRole
<1>2. /\ req[c].op \in {"join", "add", "adminAdd"} /\ req[c].todo = <<>>
      /\ Insert(req[c].team, req[c].who, role, "ACTIVE")
      /\ team' = CompletedBy(c, With(RosterOf(req[c].seats), role))
      /\ Done(c) /\ UNCHANGED <<invited, reg, unchecked, revived>>
  BY DEF Join, Ready
<1>3. unchecked' \subseteq Seats
  BY <1>2 DEF TeamsInv, TypeOK
<1> HIDE DEF role
<1>4. /\ TeamsInv'
      /\ req[c].team \in Teams /\ req[c].team \in req[c].held
      /\ \E n \in Seats :
           /\ seat[n] = Unused
           /\ seat'[n] = [team |-> req[c].team, profile |-> req[c].who, role |-> role,
                          status |-> "ACTIVE"]
           /\ \A s \in Seats : s # n => seat'[s] = seat[s]
  BY <1>1, <1>2, <1>3, AdmissionKeeps
<1> QED BY <1>1, <1>4 DEF role

LEMMA AddKeeps ==
  ASSUME TeamsInv, NEW c \in Reqs, Add(c)
  PROVE  /\ TeamsInv'
         /\ req[c].team \in Teams /\ req[c].team \in req[c].held
         /\ req[c].role \in {"MEMBER", "SUBSTITUTE"}
         /\ \E n \in Seats :
              /\ seat[n] = Unused
              /\ seat'[n] = [team |-> req[c].team, profile |-> req[c].who,
                             role |-> req[c].role, status |-> "ACTIVE"]
              /\ \A s \in Seats : s # n => seat'[s] = seat[s]
<1>1. /\ req[c].op \in {"join", "add", "adminAdd"} /\ req[c].todo = <<>>
      /\ Insert(req[c].team, req[c].who, req[c].role, "ACTIVE")
      /\ team' = CompletedBy(c, With(RosterOf(req[c].seats), req[c].role))
      /\ unchecked' = unchecked \cup {s \in Seats : seat[s] # seat'[s]}
      /\ Done(c) /\ UNCHANGED <<invited, reg, revived>>
  BY DEF Add, Ready
<1>2. req[c].role \in {"MEMBER", "SUBSTITUTE"}
  BY ReadyIsInFlight DEF TeamsInv, Knows, Add
<1>3. unchecked' \subseteq Seats
  BY <1>1 DEF TeamsInv, TypeOK
<1>4. PICK role \in {"MEMBER", "SUBSTITUTE"} : role = req[c].role
  BY <1>2
<1>5. /\ TeamsInv'
      /\ req[c].team \in Teams /\ req[c].team \in req[c].held
      /\ \E n \in Seats :
           /\ seat[n] = Unused
           /\ seat'[n] = [team |-> req[c].team, profile |-> req[c].who, role |-> role,
                          status |-> "ACTIVE"]
           /\ \A s \in Seats : s # n => seat'[s] = seat[s]
  <2> DEFINE roster == With(RosterOf(req[c].seats), role)
  <2>1. Insert(req[c].team, req[c].who, role, "ACTIVE") /\ team' = CompletedBy(c, roster)
    BY <1>1, <1>4
  <2>2. /\ req[c].op \in {"join", "add", "adminAdd"} /\ req[c].todo = <<>>
        /\ Done(c) /\ UNCHANGED <<invited, reg, revived>>
    BY <1>1
  <2> HIDE DEF roster
  <2> QED BY <1>3, <2>1, <2>2, AdmissionKeeps
<1> QED BY <1>2, <1>4, <1>5

\* Either of them adds one seat, a member's or a substitute's, to the team.
LEMMA AdmissionAdds ==
  ASSUME TeamsInv, NEW c \in Reqs, Join(c) \/ Add(c)
  PROVE  /\ req[c].team \in Teams /\ req[c].team \in req[c].held
         /\ \E n \in Seats :
              /\ seat[n] = Unused
              /\ seat'[n].team = req[c].team /\ seat'[n].role \in {"MEMBER", "SUBSTITUTE"}
              /\ \A s \in Seats : s # n => seat'[s] = seat[s]
<1>1. CASE Join(c)
  <2> DEFINE role == NextJoinRole(RosterOf(req[c].seats), Rules)
  <2>1. /\ req[c].team \in Teams /\ req[c].team \in req[c].held
        /\ role \in {"MEMBER", "SUBSTITUTE"}
        /\ \E n \in Seats :
             /\ seat[n] = Unused
             /\ seat'[n] = [team |-> req[c].team, profile |-> req[c].who, role |-> role,
                            status |-> "ACTIVE"]
             /\ \A s \in Seats : s # n => seat'[s] = seat[s]
    BY <1>1, JoinKeeps
  <2> HIDE DEF role
  <2> QED BY <2>1
<1>2. CASE Add(c)
  <2>1. /\ req[c].team \in Teams /\ req[c].team \in req[c].held
        /\ req[c].role \in {"MEMBER", "SUBSTITUTE"}
        /\ \E n \in Seats :
             /\ seat[n] = Unused
             /\ seat'[n] = [team |-> req[c].team, profile |-> req[c].who,
                            role |-> req[c].role, status |-> "ACTIVE"]
             /\ \A s \in Seats : s # n => seat'[s] = seat[s]
    BY <1>2, AddKeeps
  <2> QED BY <2>1
<1> QED BY <1>1, <1>2

\* Leaving ends one seat in use.
LEMMA LeaveKeeps ==
  ASSUME TeamsInv, NEW c \in Reqs, Leave(c)
  PROVE  /\ TeamsInv'
         /\ UNCHANGED <<team, invited, reg, unchecked, revived>>
         /\ \A s \in Seats : /\ seat'[s].team = seat[s].team /\ seat'[s].role = seat[s].role
                             /\ seat'[s].profile = seat[s].profile
                             /\ seat'[s].status \in {seat[s].status, "LEFT", "REMOVED"}
<1> DEFINE st == IF req[c].op = "leave" THEN "LEFT" ELSE "REMOVED"
<1>1. /\ req[c] # Idle /\ req[c].seat \in Seats /\ seat[req[c].seat] # Unused
  BY ReadyIsInFlight DEF TeamsInv, Knows, Leave
<1>2. PICK n \in Seats : n = req[c].seat
  BY <1>1
<1> DEFINE x == [seat[n] EXCEPT !.status = st]
<1>3. /\ seat' = [seat EXCEPT ![n] = x] /\ Done(c)
      /\ UNCHANGED <<team, invited, reg, unchecked, revived>>
  BY <1>2 DEF Leave
<1>4. x \in SeatRow /\ x.status = st /\ x.team = seat[n].team /\ x.role = seat[n].role
      /\ x.profile = seat[n].profile /\ st \in {"LEFT", "REMOVED"}
  BY DEF TeamsInv, TypeOK, SeatRow
<1> HIDE DEF x, st
<1>5. /\ seat' \in [Seats -> SeatRow] /\ seat'[n] = x
      /\ \A s \in Seats : s # n => seat'[s] = seat[s]
  BY <1>3, <1>4 DEF TeamsInv, TypeOK
<1>6. /\ req' \in [Reqs -> Request \cup {Idle}] /\ asks' \in 0 .. MaxAsks
      /\ \A d \in Reqs : req'[d] = Idle \/ req'[d] = req[d]
  BY <1>3, DoneTypes DEF TeamsInv
<1>7. TypeOK'
  BY <1>3, <1>5, <1>6 DEF TeamsInv, TypeOK
<1>8. /\ \A s \in Seats : Used(s)'
      /\ \A s \in Seats : seat[s] # Unused => seat'[s] # Unused /\ seat'[s].team = seat[s].team
  BY <1>1, <1>2, <1>3, <1>4, <1>5, RowsAssumption DEF TeamsInv, Used, Unused
<1>9. \A u \in Teams : Kept(u)
  BY <1>3, <1>4, <1>5 DEF Kept, SeatsOf, Held
<1>10. \A d \in Reqs : req[d] # Idle => req[d].team \in Teams
  BY InFlight DEF TeamsInv, Request
<1>11. \A d \in Reqs : \/ req'[d] = Idle
                       \/ /\ req'[d] = req[d]
                          /\ req[d] # Idle /\ req[d].team \in req[d].held => Kept(req[d].team)
  BY <1>6, <1>9, <1>10
<1>12. TeamsInv'
  BY <1>3, <1>7, <1>8, <1>11, Framed
<1>13. \A s \in Seats : /\ seat'[s].team = seat[s].team /\ seat'[s].role = seat[s].role
                        /\ seat'[s].profile = seat[s].profile
                        /\ seat'[s].status \in {seat[s].status, "LEFT", "REMOVED"}
  BY <1>4, <1>5
<1> QED BY <1>3, <1>12, <1>13

\* A step that writes the status of one team.
LEMMA StatusWritten ==
  ASSUME TypeOK, NEW t \in Teams, NEW st \in TeamStatus,
         team' = [team EXCEPT ![t].status = st]
  PROVE  /\ team' \in [Teams -> TeamRow] /\ team'[t].status = st
         /\ team'[t].leader = team[t].leader
         /\ \A u \in Teams \ {t} : team'[u] = team[u]
<1> DEFINE x == [team[t] EXCEPT !.status = st]
<1>1. x \in TeamRow /\ x.status = st /\ x.leader = team[t].leader
  BY DEF TypeOK, TeamRow
<1>2. team' = [team EXCEPT ![t] = x]
  OBVIOUS
<1> HIDE DEF x
<1> QED BY <1>1, <1>2, TeamRowWritten

LEMMA RegWritten ==
  ASSUME TypeOK, NEW t \in Teams, NEW x \in RegStatus, reg' = [reg EXCEPT ![t] = x]
  PROVE  /\ reg' \in [Teams -> RegStatus] /\ reg'[t] = x
         /\ \A u \in Teams \ {t} : reg'[u] = reg[u]
BY DEF TypeOK

\* A transfer gives the LEADER role to the heir's seats, takes it from the seats
\* of the team it has read, and changes nothing else of them.
LEMMA TransferKeeps ==
  ASSUME TeamsInv, NEW c \in Reqs, Transfer(c)
  PROVE  /\ TeamsInv'
         /\ req[c].team \in Teams /\ SeatsOf(req[c].team) \subseteq req[c].seats
         /\ \A s \in req[c].seats : seat[s].team = req[c].team
         /\ UNCHANGED <<invited, reg, unchecked, revived>>
         /\ \A u \in Teams : team'[u].status = team[u].status
         /\ \A u \in Teams \ {req[c].team} : team'[u] = team[u]
         /\ team'[req[c].team].leader = req[c].who
         /\ \A s \in Seats : /\ seat'[s].team = seat[s].team /\ seat'[s].status = seat[s].status
                             /\ seat'[s].profile = seat[s].profile
                             /\ seat'[s].role \in {seat[s].role, "MEMBER", "LEADER"}
                             /\ s \notin req[c].seats => seat'[s] = seat[s]
                             /\ s \in req[c].seats /\ seat'[s].role = "LEADER"
                                  => seat[s].profile = req[c].who
                             /\ seat'[s].role # "SUBSTITUTE" \/ seat[s].role = "SUBSTITUTE"
<1> DEFINE r == req[c]
           heirs == {s \in r.seats : seat[s].profile = r.who /\ seat[s].role # "LEADER"}
           Turned(s) == CASE s \in heirs -> [seat[s] EXCEPT !.role = "LEADER"]
                          [] s \in r.seats /\ seat[s].role = "LEADER" ->
                               [seat[s] EXCEPT !.role = "MEMBER"]
                          [] OTHER -> seat[s]
<1>1. /\ r # Idle /\ r \in Request /\ r.op = "transfer" /\ r.todo = <<>> /\ r.op \in TakesTeam
      /\ r.who \in Profiles
  BY ReadyIsInFlight DEF TeamsInv, Knows, Transfer, TakesTeam
<1>2. /\ r.team \in Teams /\ r.team \in r.held /\ team[r.team].status # "ABSENT"
  BY <1>1, Mine
<1>3. SeatsOf(r.team) \subseteq r.seats /\ \A s \in r.seats : s \in Seats /\ seat[s].team = r.team
  BY <1>1, <1>2 DEF TeamsInv, Knows, ReadsRoster, Request
<1>4. /\ seat' = [s \in Seats |-> Turned(s)]
      /\ team' = [team EXCEPT ![r.team].leader = r.who]
      /\ Done(c) /\ UNCHANGED <<invited, reg, unchecked, revived>>
  BY DEF Transfer
<1>5. PICK t \in Teams : t = r.team
  BY <1>2
<1>6. ASSUME NEW s \in Seats
      PROVE  /\ Turned(s) \in SeatRow
             /\ Turned(s).team = seat[s].team /\ Turned(s).status = seat[s].status
             /\ Turned(s).profile = seat[s].profile
             /\ Turned(s).role \in {seat[s].role, "MEMBER", "LEADER"}
             /\ s \notin r.seats => Turned(s) = seat[s]
             /\ s \in r.seats /\ Turned(s).role = "LEADER" => seat[s].profile = r.who
             /\ Turned(s).role # "SUBSTITUTE" \/ seat[s].role = "SUBSTITUTE"
  <2>1. seat[s] \in SeatRow
    BY DEF TeamsInv, TypeOK
  <2>2. CASE s \in heirs
    <3>1. Turned(s) = [seat[s] EXCEPT !.role = "LEADER"] /\ seat[s].profile = r.who
          /\ s \in r.seats
      BY <2>2
    <3> HIDE DEF Turned, heirs, r
    <3> QED BY <2>1, <3>1 DEF SeatRow
  <2>3. CASE s \notin heirs /\ s \in r.seats /\ seat[s].role = "LEADER"
    <3>1. Turned(s) = [seat[s] EXCEPT !.role = "MEMBER"] /\ s \in r.seats
      BY <2>3
    <3> HIDE DEF Turned, heirs, r
    <3> QED BY <2>1, <3>1 DEF SeatRow
  <2>4. CASE s \notin heirs /\ ~ (s \in r.seats /\ seat[s].role = "LEADER")
    <3>1. Turned(s) = seat[s] /\ ~ (s \in r.seats /\ seat[s].role = "LEADER")
      BY <2>4
    <3> HIDE DEF Turned, heirs, r
    <3> QED BY <2>1, <3>1 DEF SeatRow
  <2> QED BY <2>2, <2>3, <2>4
<1> HIDE DEF Turned, heirs
<1>7. /\ seat' \in [Seats -> SeatRow]
      /\ \A s \in Seats : seat'[s] = Turned(s)
  BY <1>4, <1>6
<1>8. /\ team' \in [Teams -> TeamRow] /\ team'[t].leader = r.who
      /\ team'[t].status = team[t].status
      /\ \A u \in Teams \ {t} : team'[u] = team[u]
  <2> DEFINE x == [team[t] EXCEPT !.leader = r.who]
  <2>1. x \in TeamRow /\ x.leader = r.who /\ x.status = team[t].status
    BY <1>1 DEF TeamsInv, TypeOK, TeamRow
  <2>2. team' = [team EXCEPT ![t] = x]
    BY <1>4, <1>5
  <2> HIDE DEF x
  <2> QED BY <2>1, <2>2, TeamRowWritten DEF TeamsInv
<1>9. /\ req' \in [Reqs -> Request \cup {Idle}] /\ asks' \in 0 .. MaxAsks
      /\ req' = [req EXCEPT ![c] = Idle]
  BY <1>4, DoneTypes DEF TeamsInv
<1>10. TypeOK'
  BY <1>4, <1>7, <1>8, <1>9 DEF TeamsInv, TypeOK
<1>11. \A s \in Seats : seat[s] # Unused => seat'[s] # Unused /\ seat'[s].team = seat[s].team
  BY <1>6, <1>7, SeatsHaveATeam, RowsAssumption DEF TeamsInv, Unused
<1>12. \A s \in Seats : seat[s] = Unused => s \notin r.seats
  BY <1>3, <1>5, RowsAssumption DEF Unused
<1>13. \A s \in Seats : Used(s)'
  BY <1>6, <1>7, <1>8, <1>12 DEF TeamsInv, Used
<1>14. \A s \in Seats : seat'[s] # seat[s] => seat'[s].team = r.team
  BY <1>3, <1>6, <1>7
<1>15. TeamsInv'
  BY <1>1, <1>2, <1>4, <1>5, <1>8, <1>9, <1>10, <1>11, <1>13, <1>14, OwnStep
<1> QED BY <1>2, <1>3, <1>4, <1>5, <1>6, <1>7, <1>8, <1>15

\* A confirmation activates the payer's LEADER seats and writes PAID; a
\* cancelled registration stays cancelled.
LEMMA ConfirmKeeps ==
  ASSUME TeamsInv, NEW c \in Reqs, Confirm(c)
  PROVE  /\ TeamsInv' /\ req[c].team \in Teams /\ req[c].who \in Profiles
         /\ \A u \in Teams : team'[u].leader = team[u].leader
         /\ \A u \in Teams \ {req[c].team} : team'[u] = team[u] /\ reg'[u] = reg[u]
         /\ \A s \in Seats :
              /\ seat'[s].team = seat[s].team /\ seat'[s].role = seat[s].role
              /\ seat'[s].profile = seat[s].profile
              /\ seat'[s] # seat[s] =>
                   /\ seat[s].team = req[c].team /\ seat[s].role = "LEADER"
                   /\ seat[s].profile = req[c].who
                   /\ seat'[s].status = "ACTIVE"
                   /\ seat[s].status \in Held \/ s \in revived'
         /\ revived \subseteq revived'
<1> DEFINE r == req[c]
<1>1. /\ r # Idle /\ r \in Request /\ r.op = "confirm" /\ r.todo = <<>> /\ r.op \in TakesTeam
      /\ r.who \in Profiles
  BY ReadyIsInFlight DEF TeamsInv, Knows, Confirm, TakesTeam
<1>2. /\ r.team \in Teams /\ r.team \in r.held /\ team[r.team].status # "ABSENT"
  BY <1>1, Mine
<1>3. PICK t \in Teams : t = r.team
  BY <1>2
<1> DEFINE payers == {s \in Seats : seat[s].team = t /\ seat[s].role = "LEADER"
                                                     /\ seat[s].profile = r.who}
           paidFor == IF Event \in r.held THEN payers ELSE {}
<1>4. /\ team' = [team EXCEPT ![t].status = "PAID"]
      /\ seat' = [s \in Seats |-> IF s \in payers THEN [seat[s] EXCEPT !.status = "ACTIVE"]
                                                  ELSE seat[s]]
      /\ reg' = [reg EXCEPT ![t] = IF @ = "CANCELLED" THEN @ ELSE "CONFIRMED"]
      /\ unchecked' = (unchecked \ paidFor) \cup ((Counted' \ Counted) \ paidFor)
      /\ revived' = revived \cup {s \in payers : seat[s].status \notin Held}
      /\ Done(c) /\ UNCHANGED invited
  BY <1>3 DEF Confirm
<1>5. ASSUME NEW s \in Seats
      PROVE  /\ seat'[s] \in SeatRow
             /\ seat'[s].team = seat[s].team /\ seat'[s].role = seat[s].role
             /\ seat'[s].profile = seat[s].profile
             /\ s \in payers => seat'[s].status = "ACTIVE"
             /\ s \notin payers => seat'[s] = seat[s]
  <2>1. seat[s] \in SeatRow /\ "ACTIVE" \in Held
    BY DEF TeamsInv, TypeOK, Held
  <2>2. seat'[s] = IF s \in payers THEN [seat[s] EXCEPT !.status = "ACTIVE"] ELSE seat[s]
    BY <1>4
  <2> HIDE DEF payers
  <2> QED BY <2>1, <2>2 DEF SeatRow
<1>6. seat' \in [Seats -> SeatRow]
  BY <1>4, <1>5
<1>7. /\ team' \in [Teams -> TeamRow] /\ team'[t].status = "PAID"
      /\ team'[t].leader = team[t].leader
      /\ \A u \in Teams \ {t} : team'[u] = team[u]
  BY <1>4, StatusWritten DEF TeamsInv, TeamStatus
<1>8. /\ reg' \in [Teams -> RegStatus]
      /\ \A u \in Teams \ {t} : reg'[u] = reg[u]
  BY <1>4 DEF TeamsInv, TypeOK, RegStatus
<1>9. /\ req' \in [Reqs -> Request \cup {Idle}] /\ asks' \in 0 .. MaxAsks
      /\ req' = [req EXCEPT ![c] = Idle]
  BY <1>4, DoneTypes DEF TeamsInv
<1>10. unchecked' \subseteq Seats /\ revived' \subseteq Seats
  <2>1. Counted' \subseteq Seats
    BY DEF Counted
  <2> HIDE DEF paidFor
  <2> QED BY <1>4, <2>1 DEF TeamsInv, TypeOK
<1>11. TypeOK'
  BY <1>4, <1>6, <1>7, <1>8, <1>9, <1>10 DEF TeamsInv, TypeOK
<1>12. \A s \in payers : seat[s] # Unused
  BY RowsAssumption DEF Unused
<1>13. \A s \in Seats : seat[s] # Unused => seat'[s] # Unused /\ seat'[s].team = seat[s].team
  BY <1>5, SeatsHaveATeam, RowsAssumption DEF TeamsInv, Unused
<1>14. \A s \in Seats : Used(s)'
  <2> HIDE DEF payers
  <2> QED BY <1>5, <1>7, <1>12 DEF TeamsInv, Used
<1>15. \A s \in Seats : seat'[s] # seat[s] => seat'[s].team = t
  BY <1>5
<1>16. TeamsInv'
  BY <1>1, <1>2, <1>3, <1>4, <1>7, <1>8, <1>9, <1>11, <1>13, <1>14, <1>15, OwnStep
<1>17. \A s \in Seats :
              /\ seat'[s].team = seat[s].team /\ seat'[s].role = seat[s].role
              /\ seat'[s].profile = seat[s].profile
              /\ seat'[s] # seat[s] =>
                   /\ seat[s].team = t /\ seat[s].role = "LEADER"
                   /\ seat[s].profile = r.who
                   /\ seat'[s].status = "ACTIVE"
                   /\ seat[s].status \in Held \/ s \in revived'
  BY <1>4, <1>5
<1>18. \A u \in Teams : team'[u].leader = team[u].leader
  BY <1>7
<1>19. revived \subseteq revived'
  BY <1>4
<1> QED BY <1>1, <1>3, <1>7, <1>8, <1>16, <1>17, <1>18, <1>19

LEMMA PatchKeeps ==
  ASSUME TeamsInv, NEW c \in Reqs, Patch(c)
  PROVE  /\ TeamsInv' /\ UNCHANGED <<invited, reg, seat, unchecked, revived>>
         /\ req[c].team \in Teams /\ req[c].op = "patch" /\ req[c] # Idle /\ req'[c] = Idle
         /\ \A u \in Teams : team'[u].leader = team[u].leader
         /\ \A u \in Teams \ {req[c].team} : team'[u] = team[u]
<1>1. /\ req[c] # Idle /\ req[c].op = "patch" /\ req[c].todo = <<>> /\ req[c].op \in TakesTeam
  BY ReadyIsInFlight DEF TeamsInv, Patch, TakesTeam
<1>2. PICK t \in Teams : t = req[c].team
  BY <1>1, Mine
<1>3. PICK st \in TeamStatus \ {"ABSENT"} : team' = [team EXCEPT ![t].status = st]
  BY <1>2 DEF Patch
<1>4. Done(c) /\ UNCHANGED <<invited, reg, seat, unchecked, revived>>
  BY DEF Patch
<1>5. /\ team' \in [Teams -> TeamRow] /\ team'[t].status = st
      /\ team'[t].leader = team[t].leader
      /\ \A u \in Teams \ {t} : team'[u] = team[u]
  BY <1>3, StatusWritten DEF TeamsInv
<1>6. /\ req' \in [Reqs -> Request \cup {Idle}] /\ asks' \in 0 .. MaxAsks
      /\ req' = [req EXCEPT ![c] = Idle] /\ req'[c] = Idle
  BY <1>4, DoneTypes DEF TeamsInv
<1>7. TypeOK'
  BY <1>4, <1>5, <1>6 DEF TeamsInv, TypeOK
<1>8. \A s \in Seats : Used(s)'
  BY <1>4, <1>5 DEF TeamsInv, Used
<1>9. TeamsInv'
  BY <1>1, <1>2, <1>4, <1>5, <1>6, <1>7, <1>8, OwnStep
<1> QED BY <1>1, <1>2, <1>4, <1>5, <1>6, <1>9

LEMMA CancelKeeps ==
  ASSUME TeamsInv, NEW c \in Reqs, Cancel(c)
  PROVE  /\ TeamsInv' /\ UNCHANGED <<invited, unchecked, revived>>
         /\ req[c].team \in Teams
         /\ \A u \in Teams : team'[u].leader = team[u].leader
         /\ team'[req[c].team].status = "CANCELLED" /\ reg'[req[c].team] = "CANCELLED"
         /\ \A u \in Teams \ {req[c].team} : team'[u] = team[u] /\ reg'[u] = reg[u]
         /\ \A s \in Seats : /\ seat'[s].team = seat[s].team /\ seat'[s].role = seat[s].role
                             /\ seat'[s].profile = seat[s].profile
                             /\ seat'[s].status \in {seat[s].status, "REMOVED"}
<1>1. /\ req[c] # Idle /\ req[c].todo = <<>> /\ req[c].op \in TakesTeam
  BY ReadyIsInFlight DEF TeamsInv, Cancel, TakesTeam
<1>2. PICK t \in Teams : t = req[c].team
  BY <1>1, Mine
<1>3. /\ team' = [team EXCEPT ![t].status = "CANCELLED"]
      /\ reg' = [reg EXCEPT ![t] = "CANCELLED"]
      /\ \/ seat' = [s \in Seats |-> IF s \in SeatsOf(t)
                                     THEN [seat[s] EXCEPT !.status = "REMOVED"] ELSE seat[s]]
         \/ seat' = seat
      /\ Done(c) /\ UNCHANGED <<invited, unchecked, revived>>
  BY <1>2 DEF Cancel
<1>4. ASSUME NEW s \in Seats
      PROVE  /\ seat'[s] \in SeatRow
             /\ seat'[s].team = seat[s].team /\ seat'[s].role = seat[s].role
             /\ seat'[s].profile = seat[s].profile
             /\ seat'[s].status \in {seat[s].status, "REMOVED"}
             /\ s \notin SeatsOf(t) => seat'[s] = seat[s]
  <2>1. seat[s] \in SeatRow
    BY DEF TeamsInv, TypeOK
  <2>2. seat'[s] \in {seat[s], [seat[s] EXCEPT !.status = "REMOVED"]}
        /\ (s \notin SeatsOf(t) => seat'[s] = seat[s])
    BY <1>3
  <2> QED BY <2>1, <2>2 DEF SeatRow
<1>5. seat' \in [Seats -> SeatRow]
  BY <1>3, <1>4 DEF TeamsInv, TypeOK
<1>6. /\ team' \in [Teams -> TeamRow] /\ team'[t].status = "CANCELLED"
      /\ team'[t].leader = team[t].leader
      /\ \A u \in Teams \ {t} : team'[u] = team[u]
  BY <1>3, StatusWritten DEF TeamsInv, TeamStatus
<1>7. /\ reg' \in [Teams -> RegStatus] /\ reg'[t] = "CANCELLED"
      /\ \A u \in Teams \ {t} : reg'[u] = reg[u]
  BY <1>3, RegWritten DEF TeamsInv, RegStatus
<1>8. /\ req' \in [Reqs -> Request \cup {Idle}] /\ asks' \in 0 .. MaxAsks
      /\ req' = [req EXCEPT ![c] = Idle]
  BY <1>3, DoneTypes DEF TeamsInv
<1>9. TypeOK'
  BY <1>3, <1>5, <1>6, <1>7, <1>8 DEF TeamsInv, TypeOK
<1>10. \A s \in SeatsOf(t) : s \in Seats /\ seat[s].team = t /\ seat[s] # Unused
  BY RowsAssumption DEF SeatsOf, Unused
<1>11. \A s \in Seats : seat[s] # Unused => seat'[s] # Unused /\ seat'[s].team = seat[s].team
  BY <1>4, SeatsHaveATeam, RowsAssumption DEF TeamsInv, Unused
<1>12. \A s \in Seats : Used(s)'
  BY <1>4, <1>6, <1>10 DEF TeamsInv, Used
<1>13. \A s \in Seats : seat'[s] # seat[s] => seat'[s].team = t
  BY <1>4, <1>10
<1>14. TeamsInv'
  BY <1>1, <1>2, <1>6, <1>7, <1>8, <1>9, <1>11, <1>12, <1>13, OwnStep
<1>15. \A u \in Teams : team'[u].leader = team[u].leader
  BY <1>6
<1> QED BY <1>2, <1>3, <1>4, <1>6, <1>7, <1>14, <1>15

LEMMA PatchRegKeeps ==
  ASSUME TeamsInv, NEW c \in Reqs, PatchReg(c)
  PROVE  /\ TeamsInv' /\ UNCHANGED <<team, invited, seat, unchecked, revived>>
         /\ \A u \in Teams : reg'[u] = "CONFIRMED" => reg[u] = "CONFIRMED"
<1>1. req[c] \in Request /\ req[c].team \in Teams
  BY ReadyIsInFlight DEF TeamsInv, PatchReg
<1>2. PICK t \in Teams : t = req[c].team
  BY <1>1
<1>3. PICK st \in {"PENDING", "CANCELLED"} :
        reg' = [reg EXCEPT ![t] = IF st = req[c].reg THEN @ ELSE st]
  BY <1>2 DEF PatchReg
<1>4. Done(c) /\ UNCHANGED <<team, invited, seat, unchecked, revived>>
  BY DEF PatchReg
<1>5. /\ reg' \in [Teams -> RegStatus]
      /\ \A u \in Teams : reg'[u] = "CONFIRMED" => reg[u] = "CONFIRMED"
  BY <1>3 DEF TeamsInv, TypeOK, RegStatus
<1>6. /\ req' \in [Reqs -> Request \cup {Idle}] /\ asks' \in 0 .. MaxAsks
      /\ \A d \in Reqs : req'[d] = Idle \/ req'[d] = req[d]
  BY <1>4, DoneTypes DEF TeamsInv
<1>7. TypeOK' /\ \A s \in Seats : Used(s)'
  BY <1>4, <1>5, <1>6 DEF TeamsInv, TypeOK, Used
<1>8. \A u \in Teams : Kept(u)
  BY <1>4, <1>5 DEF Kept, SeatsOf
<1>9. \A d \in Reqs : req[d] # Idle => req[d].team \in Teams
  BY InFlight DEF TeamsInv, Request
<1>10. \A d \in Reqs : \/ req'[d] = Idle
                       \/ /\ req'[d] = req[d]
                          /\ req[d] # Idle /\ req[d].team \in req[d].held => Kept(req[d].team)
  BY <1>6, <1>8, <1>9
<1>11. TeamsInv'
  BY <1>4, <1>7, <1>10, Framed
<1> QED BY <1>4, <1>5, <1>11

LEMMA RevokeKeeps ==
  ASSUME TeamsInv, NEW c \in Reqs, Revoke(c)
  PROVE  /\ TeamsInv' /\ UNCHANGED <<invited, seat, unchecked, revived>>
         /\ \A u \in Teams : /\ team'[u].leader = team[u].leader
                             /\ team[u].status = "CANCELLED" => team'[u].status = "CANCELLED"
                             /\ reg'[u] = "CONFIRMED" => reg[u] = "CONFIRMED"
<1>1. /\ req[c] # Idle /\ req[c].todo = <<>> /\ req[c].op \in TakesTeam
  BY ReadyIsInFlight DEF TeamsInv, Revoke, TakesTeam
<1>2. PICK t \in Teams : t = req[c].team /\ team[t].status # "ABSENT"
  BY <1>1, Mine
<1> DEFINE st == IF team[t].status \in {"PAID", "COMPLETE"} THEN "FORMING" ELSE team[t].status
<1>3. /\ reg' = [reg EXCEPT ![t] = "PENDING"]
      /\ team' = [team EXCEPT ![t].status = st]
      /\ Done(c) /\ UNCHANGED <<invited, seat, unchecked, revived>>
  <2>1. team \in [Teams -> TeamRow]
    BY DEF TeamsInv, TypeOK
  <2> QED BY <1>2, <2>1 DEF Revoke
<1>4. st \in TeamStatus /\ st # "ABSENT" /\ (team[t].status = "CANCELLED" => st = "CANCELLED")
  BY <1>2 DEF TeamsInv, TypeOK, TeamRow, TeamStatus
<1> HIDE DEF st
<1>5. /\ team' \in [Teams -> TeamRow] /\ team'[t].status = st
      /\ team'[t].leader = team[t].leader
      /\ \A u \in Teams \ {t} : team'[u] = team[u]
  BY <1>3, <1>4, StatusWritten DEF TeamsInv
<1>6. /\ reg' \in [Teams -> RegStatus] /\ reg'[t] = "PENDING"
      /\ \A u \in Teams \ {t} : reg'[u] = reg[u]
  BY <1>3, RegWritten DEF TeamsInv, RegStatus
<1>7. /\ req' \in [Reqs -> Request \cup {Idle}] /\ asks' \in 0 .. MaxAsks
      /\ req' = [req EXCEPT ![c] = Idle]
  BY <1>3, DoneTypes DEF TeamsInv
<1>8. TypeOK'
  BY <1>3, <1>5, <1>6, <1>7 DEF TeamsInv, TypeOK
<1>9. \A s \in Seats : Used(s)'
  BY <1>3, <1>4, <1>5 DEF TeamsInv, Used
<1>10. TeamsInv'
  BY <1>1, <1>2, <1>3, <1>4, <1>5, <1>6, <1>7, <1>8, <1>9, OwnStep
<1> QED BY <1>3, <1>4, <1>5, <1>6, <1>10

\* Every step keeps what the locks buy.
LEMMA TeamsStep ==
  ASSUME TeamsInv, [Next]_vars
  PROVE  TeamsInv'
<1>1. CASE UNCHANGED vars
  <2>1. TypeOK' /\ Alone' /\ \A s \in Seats : Used(s)'
    BY <1>1 DEF vars, TeamsInv, TypeOK, Alone, Used
  <2>2. \A c \in Reqs : Knows(c)'
    BY <1>1 DEF vars, TeamsInv, Knows, Planned, SeatsOf
  <2> QED BY <2>1, <2>2 DEF TeamsInv
<1>2. CASE \E t \in Teams, p \in Profiles : CreateTeam(t, p)
  BY <1>2, CreateTeamKeeps
<1>3. CASE \E t \in Teams : Invite(t)
  BY <1>3, InviteKeeps
<1>4. ASSUME NEW c \in Reqs, Ask(c) \/ Lock(c) \/ Commit(c) \/ Abort(c)
      PROVE  TeamsInv'
  BY <1>4, AskKeeps, LockKeeps, AbortKeeps, JoinKeeps, AddKeeps, LeaveKeeps, TransferKeeps,
     ConfirmKeeps, PatchKeeps, PatchRegKeeps, CancelKeeps, RevokeKeeps, Zenon DEF Commit
<1> QED BY <1>1, <1>2, <1>3, <1>4 DEF Next

THEOREM TeamsInvariant == Spec => []TeamsInv
<1>1. Init => TeamsInv
  BY TeamsInit
<1>2. TeamsInv /\ [Next]_vars => TeamsInv'
  BY TeamsStep
<1> QED BY <1>1, <1>2, PTL DEF Spec

-----------------------------------------------------------------------------
(* Limits of a roster. *)

\* Every variable keeps its type.
THEOREM TeamsTypes == Spec => []TypeOK
BY TeamsInvariant, PTL DEF TeamsInv

\* Whom the limits count: the team's seats but for those a confirmation revived.
Roster(t) == SeatsOf(t) \ revived

FewEnough ==
  \A t \in Teams : /\ Cardinality(Roster(t)) <= TeamMax(Rules)
                   /\ Cardinality(Subs(Roster(t))) <= SubstituteSlots(Rules)

LEMMA FewEnoughIsWithinLimits == FewEnough => RosterWithinLimits
<1> SUFFICES ASSUME FewEnough
             PROVE  RosterWithinLimits
  OBVIOUS
<1>1. ASSUME NEW t \in Teams
      PROVE  /\ Size(RosterOf(SeatsOf(t) \ revived)) <= TeamMax(Rules)
             /\ RosterOf(SeatsOf(t) \ revived).subs <= SubstituteSlots(Rules)
  <2>1. Roster(t) \subseteq Seats
    BY DEF Roster, SeatsOf
  <2>2. /\ Size(RosterOf(Roster(t))) = Cardinality(Roster(t))
        /\ RosterOf(Roster(t)).subs = Cardinality(Subs(Roster(t)))
    BY <2>1, RosterCount
  <2>3. /\ Size(RosterOf(Roster(t))) <= TeamMax(Rules)
        /\ RosterOf(Roster(t)).subs <= SubstituteSlots(Rules)
    BY <2>2 DEF FewEnough
  <2> QED BY <2>3 DEF Roster
<1> QED BY <1>1, Zenon DEF RosterWithinLimits

\* A team whose seats only become fewer stays within the limits.
LEMMA FewerIsEnough ==
  ASSUME FewEnough, NEW t \in Teams,
         Roster(t)' \subseteq Roster(t), Subs(Roster(t))' \subseteq Subs(Roster(t))
  PROVE  /\ Cardinality(Roster(t)') <= TeamMax(Rules)
         /\ Cardinality(Subs(Roster(t))') <= SubstituteSlots(Rules)
<1>1. Roster(t) \subseteq Seats /\ Subs(Roster(t)) \subseteq Seats
  BY DEF Roster, SeatsOf, Subs
<1>2. /\ Cardinality(Roster(t)') <= Cardinality(Roster(t))
      /\ Cardinality(Roster(t)') \in Nat /\ Cardinality(Roster(t)) \in Nat
  BY <1>1, Fewer
<1>3. /\ Cardinality(Subs(Roster(t))') <= Cardinality(Subs(Roster(t)))
      /\ Cardinality(Subs(Roster(t))') \in Nat /\ Cardinality(Subs(Roster(t))) \in Nat
  BY <1>1, Fewer
<1> QED BY <1>2, <1>3, Limits DEF FewEnough

\* So does one that gets nobody new and no new substitute.
LEMMA NobodyNew ==
  ASSUME FewEnough, revived \subseteq revived',
         \A s \in Seats : /\ seat'[s].team = seat[s].team
                          /\ seat'[s].role = "SUBSTITUTE" => seat[s].role = "SUBSTITUTE"
                          /\ seat'[s].status \in Held => seat[s].status \in Held \/ s \in revived'
  PROVE  FewEnough'
<1>1. ASSUME NEW t \in Teams
      PROVE  Roster(t)' \subseteq Roster(t) /\ Subs(Roster(t))' \subseteq Subs(Roster(t))
  BY DEF Roster, SeatsOf, Subs
<1>2. ASSUME NEW t \in Teams
      PROVE  /\ Cardinality(Roster(t)') <= TeamMax(Rules)
             /\ Cardinality(Subs(Roster(t))') <= SubstituteSlots(Rules)
  BY <1>1, FewerIsEnough
<1> QED BY <1>2 DEF FewEnough

\* One that was counted under its lock and gets one more within the limits, too.
LEMMA OneIsAdmitted ==
  ASSUME FewEnough, NEW t \in Teams, NEW seen, seen \subseteq Seats, SeatsOf(t) \subseteq seen,
         NEW n \in Seats, seat'[n].team = t, \A s \in Seats : s # n => seat'[s] = seat[s],
         revived' = revived,
         Size(RosterOf(seen)) < TeamMax(Rules),
         seat'[n].role = "SUBSTITUTE" => RosterOf(seen).subs < SubstituteSlots(Rules)
  PROVE  FewEnough'
<1>1. ASSUME NEW u \in Teams \ {t}
      PROVE  /\ Cardinality(Roster(u)') <= TeamMax(Rules)
             /\ Cardinality(Subs(Roster(u))') <= SubstituteSlots(Rules)
  <2>1. Roster(u)' \subseteq Roster(u) /\ Subs(Roster(u))' \subseteq Subs(Roster(u))
    BY DEF Roster, SeatsOf, Subs
  <2> QED BY <2>1, FewerIsEnough
<1>2. /\ Roster(t) \subseteq Seats /\ Subs(Roster(t)) \subseteq Seats
      /\ Roster(t) \subseteq seen /\ Subs(Roster(t)) \subseteq Subs(seen) /\ Subs(seen) \subseteq Seats
  BY DEF Roster, SeatsOf, Subs
<1>3. /\ Size(RosterOf(seen)) = Cardinality(seen)
      /\ RosterOf(seen).subs = Cardinality(Subs(seen))
      /\ Cardinality(seen) \in Nat /\ Cardinality(Subs(seen)) \in Nat
  BY RosterCount
<1>4. Cardinality(Roster(t)') <= TeamMax(Rules)
  <2>1. Roster(t)' \subseteq Roster(t) \cup {n}
    BY DEF Roster, SeatsOf
  <2>2. /\ Cardinality(Roster(t)') <= Cardinality(Roster(t)) + 1
        /\ Cardinality(Roster(t)') \in Nat /\ Cardinality(Roster(t)) \in Nat
    BY <1>2, <2>1, OneMore
  <2>3. Cardinality(Roster(t)) <= Cardinality(seen)
    BY <1>2, Fewer
  <2> QED BY <1>3, <2>2, <2>3, Limits
<1>5. Cardinality(Subs(Roster(t))') <= SubstituteSlots(Rules)
  <2>1. CASE seat'[n].role = "SUBSTITUTE"
    <3>1. Subs(Roster(t))' \subseteq Subs(Roster(t)) \cup {n}
      BY DEF Roster, SeatsOf, Subs
    <3>2. /\ Cardinality(Subs(Roster(t))') <= Cardinality(Subs(Roster(t))) + 1
          /\ Cardinality(Subs(Roster(t))') \in Nat /\ Cardinality(Subs(Roster(t))) \in Nat
      BY <1>2, <3>1, OneMore
    <3>3. Cardinality(Subs(Roster(t))) <= Cardinality(Subs(seen))
      BY <1>2, Fewer
    <3> QED BY <1>3, <2>1, <3>2, <3>3, Limits
  <2>2. CASE seat'[n].role # "SUBSTITUTE"
    <3>1. Subs(Roster(t))' \subseteq Subs(Roster(t))
      BY <2>2 DEF Roster, SeatsOf, Subs
    <3>2. /\ Cardinality(Subs(Roster(t))') <= Cardinality(Subs(Roster(t)))
          /\ Cardinality(Subs(Roster(t))') \in Nat /\ Cardinality(Subs(Roster(t))) \in Nat
      BY <1>2, <3>1, Fewer
    <3> QED BY <3>2, Limits DEF FewEnough
  <2> QED BY <2>1, <2>2
<1>6. ASSUME NEW u \in Teams
      PROVE  /\ Cardinality(Roster(u)') <= TeamMax(Rules)
             /\ Cardinality(Subs(Roster(u))') <= SubstituteSlots(Rules)
  BY <1>1, <1>4, <1>5
<1> QED BY <1>6 DEF FewEnough

\* The first member of a team.
LEMMA FounderFits ==
  ASSUME TeamsInv, FewEnough, NEW t \in Teams, NEW p \in Profiles, CreateTeam(t, p)
  PROVE  FewEnough'
<1>1. PICK n \in Seats :
        /\ seat[n] = Unused
        /\ seat'[n] = [team |-> t, profile |-> p, role |-> "LEADER", status |-> "PENDING_PAYMENT"]
        /\ \A s \in Seats : s # n => seat'[s] = seat[s]
        /\ seat' \in [Seats -> SeatRow]
  BY FounderSeat
<1>2. SeatsOf(t) = {}
  BY SeatsHaveATeam DEF TeamsInv, CreateTeam, SeatsOf
<1>3. Size(RosterOf({})) = 0
  BY RosterCount, FS_EmptySet
<1>4. Size(RosterOf({})) < TeamMax(Rules)
  BY <1>3, Limits
<1>5. /\ {} \subseteq Seats /\ SeatsOf(t) \subseteq {} /\ seat'[n].team = t
      /\ seat'[n].role # "SUBSTITUTE" /\ revived' = revived
      /\ \A s \in Seats : s # n => seat'[s] = seat[s]
  BY <1>1, <1>2 DEF CreateTeam
<1> QED BY <1>4, <1>5, OneIsAdmitted

LEMMA JoinerFits ==
  ASSUME TeamsInv, FewEnough, NEW c \in Reqs, Join(c)
  PROVE  FewEnough'
<1> DEFINE role == NextJoinRole(RosterOf(req[c].seats), Rules)
<1>1. PICK n \in Seats :
        /\ seat'[n] = [team |-> req[c].team, profile |-> req[c].who, role |-> role,
                       status |-> "ACTIVE"]
        /\ \A s \in Seats : s # n => seat'[s] = seat[s]
  BY JoinKeeps
<1>2. /\ req[c].team \in Teams /\ req[c].team \in req[c].held
      /\ req[c] # Idle /\ req[c] \in Request /\ req[c].op = "join"
  <2>1. req[c].team \in Teams /\ req[c].team \in req[c].held
    BY JoinKeeps
  <2> QED BY <2>1, ReadyIsInFlight DEF TeamsInv, Join
<1>3. SeatsOf(req[c].team) \subseteq req[c].seats /\ req[c].seats \subseteq Seats
  BY <1>2 DEF TeamsInv, Knows, ReadsRoster, Request
<1>4. /\ Size(RosterOf(req[c].seats)) < TeamMax(Rules) /\ revived' = revived
      /\ role = "SUBSTITUTE" => RosterOf(req[c].seats).subs < SubstituteSlots(Rules)
  BY Limits DEF Join, NextJoinRole
<1>5. seat'[n].team = req[c].team /\ seat'[n].role = role
  BY <1>1
<1>6. seat'[n].role = "SUBSTITUTE" => RosterOf(req[c].seats).subs < SubstituteSlots(Rules)
  BY <1>4, <1>5
<1>7. PICK t \in Teams, seen \in SUBSET Seats : t = req[c].team /\ seen = req[c].seats
  BY <1>2, <1>3
<1>8. /\ seen \subseteq Seats /\ SeatsOf(t) \subseteq seen /\ seat'[n].team = t
      /\ Size(RosterOf(seen)) < TeamMax(Rules) /\ revived' = revived
      /\ seat'[n].role = "SUBSTITUTE" => RosterOf(seen).subs < SubstituteSlots(Rules)
  BY <1>3, <1>4, <1>5, <1>6, <1>7
<1> QED BY <1>1, <1>8, OneIsAdmitted

LEMMA AddedFits ==
  ASSUME TeamsInv, FewEnough, NEW c \in Reqs, Add(c)
  PROVE  FewEnough'
<1>1. PICK n \in Seats :
        /\ seat'[n] = [team |-> req[c].team, profile |-> req[c].who, role |-> req[c].role,
                       status |-> "ACTIVE"]
        /\ \A s \in Seats : s # n => seat'[s] = seat[s]
  BY AddKeeps
<1>2. /\ req[c].team \in Teams /\ req[c].team \in req[c].held
      /\ req[c] # Idle /\ req[c] \in Request /\ req[c].op \in {"add", "adminAdd"}
  <2>1. req[c].team \in Teams /\ req[c].team \in req[c].held
    BY AddKeeps
  <2> QED BY <2>1, ReadyIsInFlight DEF TeamsInv, Add
<1>3. SeatsOf(req[c].team) \subseteq req[c].seats /\ req[c].seats \subseteq Seats
  BY <1>2 DEF TeamsInv, Knows, ReadsRoster, Request
<1>4. /\ Size(RosterOf(req[c].seats)) < TeamMax(Rules) /\ revived' = revived
      /\ req[c].role = "SUBSTITUTE" => RosterOf(req[c].seats).subs < SubstituteSlots(Rules)
  BY Limits DEF Add, Admitted, CanAddRole
<1>5. /\ seat'[n].team = req[c].team
      /\ seat'[n].role = "SUBSTITUTE" => RosterOf(req[c].seats).subs < SubstituteSlots(Rules)
  BY <1>1, <1>4
<1>6. PICK t \in Teams, seen \in SUBSET Seats : t = req[c].team /\ seen = req[c].seats
  BY <1>2, <1>3
<1>7. /\ seen \subseteq Seats /\ SeatsOf(t) \subseteq seen /\ seat'[n].team = t
      /\ Size(RosterOf(seen)) < TeamMax(Rules) /\ revived' = revived
      /\ seat'[n].role = "SUBSTITUTE" => RosterOf(seen).subs < SubstituteSlots(Rules)
  BY <1>3, <1>4, <1>5, <1>6
<1> QED BY <1>1, <1>7, OneIsAdmitted

LEMMA FewEnoughStep ==
  ASSUME TeamsInv, FewEnough, [Next]_vars
  PROVE  FewEnough'
<1>1. CASE UNCHANGED <<seat, revived>>
  BY <1>1, NobodyNew
<1>2. ASSUME NEW t \in Teams, NEW p \in Profiles, CreateTeam(t, p)
      PROVE  FewEnough'
  BY <1>2, FounderFits
<1>3. ASSUME NEW c \in Reqs, Leave(c)
      PROVE  FewEnough'
  BY <1>3, LeaveKeeps, NobodyNew DEF Held
<1>4. ASSUME NEW c \in Reqs, Transfer(c)
      PROVE  FewEnough'
  BY <1>4, TransferKeeps, NobodyNew
<1>5. ASSUME NEW c \in Reqs, Confirm(c)
      PROVE  FewEnough'
  BY <1>5, ConfirmKeeps, NobodyNew
<1>6. ASSUME NEW c \in Reqs, Cancel(c)
      PROVE  FewEnough'
  BY <1>6, CancelKeeps, NobodyNew DEF Held
<1>7. ASSUME NEW c \in Reqs, Ask(c) \/ Lock(c) \/ Abort(c) \/ Patch(c) \/ PatchReg(c) \/ Revoke(c)
      PROVE  UNCHANGED <<seat, revived>>
  <2>1. CASE Patch(c) \/ PatchReg(c) \/ Revoke(c)
    BY <2>1 DEF Patch, PatchReg, Revoke
  <2> QED BY <1>7, <2>1, RowsUntouched
<1>8. CASE UNCHANGED vars \/ \E t \in Teams : Invite(t)
  BY <1>1, <1>8 DEF vars, Invite
<1> QED BY <1>1, <1>2, <1>3, <1>4, <1>5, <1>6, <1>7, <1>8, JoinerFits, AddedFits, ZenonT(40)
        DEF Next, Commit

\* Joins, additions, removals and transfers in any interleaving never give a
\* team more people than team_max_size, nor more substitutes than its slots
\* (team_service.py:449, 568, 642): whoever counts, counts under the team's lock.
THEOREM RosterLimits == Spec => []RosterWithinLimits
<1>1. Init => TeamsInv /\ FewEnough
  <2> SUFFICES ASSUME Init
               PROVE  FewEnough
    BY TeamsInit
  <2>1. ASSUME NEW t \in Teams
        PROVE  Roster(t) = {} /\ Subs(Roster(t)) = {}
    BY DEF Init, Roster, SeatsOf, Subs, Unused, Held
  <2>2. Cardinality({}) = 0
    BY FS_EmptySet
  <2>3. ASSUME NEW t \in Teams
        PROVE  Cardinality(Roster(t)) = 0 /\ Cardinality(Subs(Roster(t))) = 0
    BY <2>1, <2>2, Zenon
  <2> QED BY <2>3, Limits DEF FewEnough
<1>2. TeamsInv /\ FewEnough /\ [Next]_vars => (TeamsInv /\ FewEnough)'
  BY TeamsStep, FewEnoughStep
<1> QED BY <1>1, <1>2, FewEnoughIsWithinLimits, PTL DEF Spec

-----------------------------------------------------------------------------
(* Leadership. *)

\* A seat that is written keeps to its team's leader if it is a member's, or if
\* the leader is its profile.
LEMMA LeaderStep ==
  ASSUME TeamsInv, LeaderHoldsTheTeam, [Next]_vars
  PROVE  LeaderHoldsTheTeam'
<1>1. CASE UNCHANGED <<seat, revived>> /\ \A u \in Teams : team'[u].leader = team[u].leader
  BY <1>1, SeatsHaveATeam DEF TeamsInv, LeaderHoldsTheTeam
<1>2. ASSUME NEW t \in Teams, NEW p \in Profiles, CreateTeam(t, p)
      PROVE  LeaderHoldsTheTeam'
  <2>1. PICK n \in Seats :
          /\ seat[n] = Unused
          /\ seat'[n] = [team |-> t, profile |-> p, role |-> "LEADER",
                         status |-> "PENDING_PAYMENT"]
          /\ \A s \in Seats : s # n => seat'[s] = seat[s]
          /\ seat' \in [Seats -> SeatRow]
    BY <1>2, FounderSeat
  <2>2. /\ team[t].status = "ABSENT" /\ revived' = revived /\ team'[t].leader = p
        /\ \A u \in Teams \ {t} : team'[u] = team[u]
    BY <1>2 DEF CreateTeam, TeamsInv, TypeOK
  <2>3. \A s \in Seats : seat[s].status \in Held => seat[s].team \in Teams \ {t}
    BY <2>2, SeatsHaveATeam DEF TeamsInv
  <2> QED BY <2>1, <2>2, <2>3 DEF LeaderHoldsTheTeam
<1>3. ASSUME NEW c \in Reqs, Join(c) \/ Add(c)
      PROVE  LeaderHoldsTheTeam'
  <2>1. PICK n \in Seats :
          /\ seat'[n].role \in {"MEMBER", "SUBSTITUTE"}
          /\ \A s \in Seats : s # n => seat'[s] = seat[s]
    BY <1>3, AdmissionAdds
  <2>2. PICK roster : team' = CompletedBy(c, roster) /\ revived' = revived
    BY <1>3 DEF Join, Add
  <2>3. req[c].team \in Teams
    BY <1>3, AdmissionAdds
  <2>4. \A u \in Teams : team'[u].leader = team[u].leader
    BY <2>2, <2>3, CompletedTeam DEF TeamsInv
  <2> QED BY <2>1, <2>2, <2>4, SeatsHaveATeam DEF TeamsInv, LeaderHoldsTheTeam
<1>4. ASSUME NEW c \in Reqs, Leave(c)
      PROVE  LeaderHoldsTheTeam'
  BY <1>4, LeaveKeeps, SeatsHaveATeam DEF TeamsInv, LeaderHoldsTheTeam, Held
<1>5. ASSUME NEW c \in Reqs, Transfer(c)
      PROVE  LeaderHoldsTheTeam'
  <2>1. PICK t \in Teams : t = req[c].team
    BY <1>5, TransferKeeps
  <2>2. /\ SeatsOf(t) \subseteq req[c].seats /\ \A s \in req[c].seats : seat[s].team = t
        /\ revived' = revived
        /\ \A u \in Teams \ {t} : team'[u] = team[u]
        /\ team'[t].leader = req[c].who
    BY <1>5, <2>1, TransferKeeps
  <2>3. \A s \in Seats : /\ seat'[s].team = seat[s].team /\ seat'[s].status = seat[s].status
                         /\ seat'[s].profile = seat[s].profile
                         /\ s \notin req[c].seats => seat'[s] = seat[s]
                         /\ s \in req[c].seats /\ seat'[s].role = "LEADER"
                              => seat[s].profile = req[c].who
    BY <1>5, TransferKeeps
  <2>4. ASSUME NEW s \in Seats, seat'[s].role = "LEADER", seat'[s].status \in Held,
               s \notin revived'
        PROVE  team'[seat'[s].team].leader = seat'[s].profile
    <3>1. CASE s \in req[c].seats
      BY <2>2, <2>3, <2>4, <3>1
    <3>2. CASE s \notin req[c].seats
      <4>1. seat'[s] = seat[s] /\ seat[s].team \in Teams \ {t}
        BY <2>2, <2>3, <2>4, <3>2, SeatsHaveATeam DEF TeamsInv, SeatsOf
      <4> QED BY <2>2, <2>4, <4>1 DEF LeaderHoldsTheTeam
    <3> QED BY <3>1, <3>2
  <2> QED BY <2>4 DEF LeaderHoldsTheTeam
<1>6. ASSUME NEW c \in Reqs, Confirm(c)
      PROVE  LeaderHoldsTheTeam'
  <2>1. /\ \A u \in Teams : team'[u].leader = team[u].leader
        /\ revived \subseteq revived'
        /\ \A s \in Seats :
             /\ seat'[s].team = seat[s].team /\ seat'[s].role = seat[s].role
             /\ seat'[s].profile = seat[s].profile
             /\ seat'[s] # seat[s] => seat[s].status \in Held \/ s \in revived'
    BY <1>6, ConfirmKeeps
  <2> QED BY <2>1, SeatsHaveATeam DEF TeamsInv, LeaderHoldsTheTeam
<1>7. ASSUME NEW c \in Reqs, Cancel(c)
      PROVE  LeaderHoldsTheTeam'
  BY <1>7, CancelKeeps, SeatsHaveATeam DEF TeamsInv, LeaderHoldsTheTeam, Held
<1>8. ASSUME NEW c \in Reqs, Ask(c) \/ Lock(c) \/ Abort(c) \/ Patch(c) \/ PatchReg(c) \/ Revoke(c)
      PROVE  UNCHANGED <<seat, revived>> /\ \A u \in Teams : team'[u].leader = team[u].leader
  <2>1. CASE Ask(c) \/ Lock(c) \/ Abort(c)
    BY <2>1, RowsUntouched
  <2> QED BY <1>8, <2>1, PatchKeeps, PatchRegKeeps, RevokeKeeps
<1>9. CASE UNCHANGED vars \/ \E t \in Teams : Invite(t)
  BY <1>1, <1>9 DEF vars, Invite
<1> QED BY <1>1, <1>2, <1>3, <1>4, <1>5, <1>6, <1>7, <1>8, <1>9, ZenonT(40)
        DEF Next, Commit

\* Whoever holds the LEADER seat of a team is its leader_profile_id, unless a
\* late confirmation brought a former leader back (admin_ops_service.py:380).
THEOREM LeaderIsTheTeams == Spec => []LeaderHoldsTheTeam
<1>1. Init => TeamsInv /\ LeaderHoldsTheTeam
  BY TeamsInit DEF Init, LeaderHoldsTheTeam, Unused
<1>2. TeamsInv /\ LeaderHoldsTheTeam /\ [Next]_vars => (TeamsInv /\ LeaderHoldsTheTeam)'
  BY TeamsStep, LeaderStep
<1> QED BY <1>1, <1>2, PTL DEF Spec

-----------------------------------------------------------------------------
(* Cancelled teams. *)

\* What a step may do to a cancelled team.
CancelledStays(t) ==
  team[t].status = "CANCELLED" =>
    \/ /\ team'[t].status = "CANCELLED"
       /\ \A s \in Seats : seat'[s].team = t => seat[s].team = t
    \/ \E c \in Reqs : /\ req[c] # Idle /\ req'[c] = Idle /\ req[c].team = t
                       /\ \/ req[c].op \in {"adminAdd", "patch"} /\ req[c].status # "CANCELLED"
                          \/ req[c].op = "confirm" /\ req[c].reg # "CANCELLED"

\* Who joins or is added by the leader has read the status under the lock.
LEMMA AdmissionSeesTheStatus ==
  ASSUME TeamsInv, NEW c \in Reqs, Join(c) \/ Add(c), NEW t \in Teams
  PROVE  CancelledStays(t)
<1> SUFFICES ASSUME team[t].status = "CANCELLED"
             PROVE  \/ /\ team'[t].status = "CANCELLED"
                       /\ \A s \in Seats : seat'[s].team = t => seat[s].team = t
                    \/ \E d \in Reqs : /\ req[d] # Idle /\ req'[d] = Idle /\ req[d].team = t
                                       /\ req[d].op \in {"adminAdd", "patch"}
                                       /\ req[d].status # "CANCELLED"
  BY DEF CancelledStays
<1>1. /\ req[c] # Idle /\ req[c].op \in {"join", "add", "adminAdd"}
      /\ req'[c] = Idle /\ req[c].status # "CANCELLED"
  <2>1. Ready(c, {"join", "add", "adminAdd"}) /\ Done(c) /\ req[c].status # "CANCELLED"
    BY DEF Join, Add, Ready, Admitted
  <2> QED BY <2>1, ReadyIsInFlight, DoneTypes DEF TeamsInv
<1>2. req[c].team \in Teams /\ req[c].team \in req[c].held
  BY AdmissionAdds
<1>3. PICK n \in Seats :
        /\ seat'[n].team = req[c].team
        /\ \A s \in Seats : s # n => seat'[s] = seat[s]
  BY AdmissionAdds
<1>4. PICK roster : team' = CompletedBy(c, roster)
  BY DEF Join, Add
<1>5. \A u \in Teams \ {req[c].team} : team'[u] = team[u]
  BY <1>2, <1>4, CompletedTeam DEF TeamsInv
<1>6. CASE t # req[c].team
  BY <1>3, <1>5, <1>6
<1>7. CASE t = req[c].team
  <2>1. req[c].op = "adminAdd"
    BY <1>1, <1>2, <1>7 DEF TeamsInv, Knows
  <2> QED BY <1>1, <1>7, <2>1
<1> QED BY <1>6, <1>7

LEMMA CancelledStep ==
  ASSUME TeamsInv, [Next]_vars, NEW t \in Teams
  PROVE  CancelledStays(t)
<1> USE DEF CancelledStays
<1>1. CASE UNCHANGED <<team, seat>>
  BY <1>1
<1>2. ASSUME NEW u \in Teams, NEW p \in Profiles, CreateTeam(u, p)
      PROVE  CancelledStays(t)
  <2>1. PICK n \in Seats :
          /\ seat[n] = Unused
          /\ seat'[n] = [team |-> u, profile |-> p, role |-> "LEADER",
                         status |-> "PENDING_PAYMENT"]
          /\ \A s \in Seats : s # n => seat'[s] = seat[s]
          /\ seat' \in [Seats -> SeatRow]
    BY <1>2, FounderSeat
  <2>2. /\ team[u].status = "ABSENT"
        /\ \A v \in Teams \ {u} : team'[v] = team[v]
    BY <1>2 DEF CreateTeam, TeamsInv, TypeOK
  <2>3. seat'[n].team = u
    BY <2>1
  <2> QED BY <2>1, <2>2, <2>3
<1>3. ASSUME NEW c \in Reqs, Leave(c)
      PROVE  CancelledStays(t)
  BY <1>3, LeaveKeeps
<1>4. ASSUME NEW c \in Reqs, Transfer(c)
      PROVE  CancelledStays(t)
  BY <1>4, TransferKeeps
<1>5. ASSUME NEW c \in Reqs, Confirm(c)
      PROVE  CancelledStays(t)
  <2>1. /\ \A u \in Teams \ {req[c].team} : team'[u] = team[u]
        /\ \A s \in Seats : seat'[s].team = seat[s].team
    BY <1>5, ConfirmKeeps
  <2>2. /\ req[c] # Idle /\ req[c].op = "confirm" /\ req'[c] = Idle
    BY <1>5, ReadyIsInFlight, DoneTypes DEF Confirm, TeamsInv
  <2>3. req[c].reg # "CANCELLED"
    BY <2>2 DEF TeamsInv, Knows
  <2> QED BY <2>1, <2>2, <2>3
<1>6. ASSUME NEW c \in Reqs, Patch(c)
      PROVE  CancelledStays(t)
  <2>1. /\ req[c].op = "patch" /\ req[c] # Idle /\ req'[c] = Idle /\ seat' = seat
        /\ \A u \in Teams \ {req[c].team} : team'[u] = team[u]
    BY <1>6, PatchKeeps
  <2>2. req[c].status # "CANCELLED"
    BY <2>1 DEF TeamsInv, Knows
  <2> QED BY <2>1, <2>2
<1>7. ASSUME NEW c \in Reqs, Cancel(c)
      PROVE  CancelledStays(t)
  BY <1>7, CancelKeeps
<1>8. ASSUME NEW c \in Reqs, PatchReg(c) \/ Revoke(c)
      PROVE  CancelledStays(t)
  BY <1>8, PatchRegKeeps, RevokeKeeps
<1>9. ASSUME NEW c \in Reqs, Ask(c) \/ Lock(c) \/ Abort(c)
      PROVE  UNCHANGED <<team, seat>>
  BY <1>9, RowsUntouched
<1>10. CASE UNCHANGED vars \/ \E u \in Teams : Invite(u)
  BY <1>1, <1>10 DEF vars, Invite
<1> HIDE DEF CancelledStays
<1> QED BY <1>1, <1>2, <1>3, <1>4, <1>5, <1>6, <1>7, <1>8, <1>9, <1>10, AdmissionSeesTheStatus,
           ZenonT(40) DEF Next, Commit

\* Once a team is cancelled nobody is added to it and it stays cancelled, save
\* for an administrator's addition or edit that read the status before, and for
\* a confirmation (team_service.py:414, 561; payments/apply.py:110).
THEOREM CancelledIsClosed == Spec => NothingEntersCancelled
<1>1. TeamsInv /\ [Next]_vars => [\A t \in Teams : CancelledStays(t)]_vars
  BY CancelledStep
<1>2. [][\A t \in Teams : CancelledStays(t)]_vars <=> NothingEntersCancelled
  BY DEF NothingEntersCancelled, CancelledStays
<1> QED BY <1>1, <1>2, TeamsInvariant, PTL DEF Spec

-----------------------------------------------------------------------------
(* Capacity. *)

\* The participants that count and passed a check.
Checked == Counted \ unchecked

\* Room that was found under the event's lock is still there if no further seat
\* counts.
LEMMA RoomKept ==
  ASSUME RoomInv, Checked' \subseteq Checked,
         \A d \in Reqs : Event \in req'[d].held /\ req'[d].room
                           => Event \in req[d].held /\ req[d].room
  PROVE  RoomInv'
<1>1. Checked \subseteq Seats
  BY DEF Checked, Counted
<1>2. /\ Cardinality(Checked') <= Cardinality(Checked)
      /\ Cardinality(Checked') \in Nat /\ Cardinality(Checked) \in Nat
  BY <1>1, Fewer
<1>3. /\ Cardinality(Checked) <= Capacity
      /\ \A d \in Reqs : Event \in req[d].held /\ req[d].room => Cardinality(Checked) < Capacity
  BY DEF RoomInv, CheckedSeatsFit, Checked
<1>4. /\ Cardinality(Checked') <= Capacity
      /\ \A d \in Reqs : Event \in req'[d].held /\ req'[d].room => Cardinality(Checked') < Capacity
  BY <1>2, <1>3, RulesAssumption
<1> QED BY <1>4 DEF RoomInv, CheckedSeatsFit, Checked

\* The one request that holds the event's row and found room may take one seat.
LEMMA RoomTaken ==
  ASSUME TeamsInv, RoomInv, NEW c \in Reqs, Event \in req[c].held, req[c].room, Done(c),
         NEW n, Checked' \subseteq Checked \cup {n}
  PROVE  RoomInv'
<1>1. Checked \subseteq Seats
  BY DEF Checked, Counted
<1>2. /\ Cardinality(Checked') <= Cardinality(Checked) + 1
      /\ Cardinality(Checked') \in Nat /\ Cardinality(Checked) \in Nat
  BY <1>1, OneMore
<1>3. Cardinality(Checked) < Capacity
  BY DEF RoomInv, Checked
<1>4. Cardinality(Checked') <= Capacity
  BY <1>2, <1>3, RulesAssumption
<1>5. \A d \in Reqs : Event \notin req'[d].held
  BY DoneTypes DEF TeamsInv, Alone, Idle
<1> QED BY <1>4, <1>5 DEF RoomInv, CheckedSeatsFit, Checked

\* A step after which no further seat is active and confirmed.
LEMMA NoneCounted ==
  ASSUME TeamsInv, unchecked' = unchecked,
         \A s \in Seats : /\ seat'[s].team = seat[s].team
                          /\ seat'[s].status = "ACTIVE" => seat[s].status = "ACTIVE",
         \A u \in Teams : reg'[u] = "CONFIRMED" => reg[u] = "CONFIRMED"
  PROVE  Checked' \subseteq Checked
BY SeatsHaveATeam DEF TeamsInv, Checked, Counted, Held

\* A finished request holds nothing, the others hold what they held.
LEMMA RoomOfTheDone ==
  ASSUME TeamsInv, NEW c \in Reqs, Done(c), NEW d \in Reqs,
         Event \in req'[d].held, req'[d].room
  PROVE  Event \in req[d].held /\ req[d].room /\ d # c
BY DoneTypes DEF TeamsInv, Idle

LEMMA RoomFounder ==
  ASSUME TeamsInv, RoomInv, NEW t \in Teams, NEW p \in Profiles, CreateTeam(t, p)
  PROVE  RoomInv'
<1>1. PICK n \in Seats :
        /\ seat[n] = Unused
        /\ seat'[n] = [team |-> t, profile |-> p, role |-> "LEADER", status |-> "PENDING_PAYMENT"]
        /\ \A s \in Seats : s # n => seat'[s] = seat[s]
        /\ seat' \in [Seats -> SeatRow]
  BY FounderSeat
<1>2. /\ unchecked' = unchecked /\ req' = req
      /\ \A u \in Teams : reg'[u] = "CONFIRMED" => reg[u] = "CONFIRMED"
  BY DEF CreateTeam, TeamsInv, TypeOK
<1>3. Checked' \subseteq Checked
  <2>1. ASSUME NEW s \in Seats, seat'[s].status = "ACTIVE", reg'[seat'[s].team] = "CONFIRMED"
        PROVE  seat[s].status = "ACTIVE" /\ reg[seat[s].team] = "CONFIRMED"
    <3>1. s # n
      BY <1>1, <2>1
    <3>2. seat[s] = seat'[s] /\ seat[s].team \in Teams
      BY <1>1, <2>1, <3>1, SeatsHaveATeam DEF TeamsInv, Held
    <3> QED BY <1>2, <2>1, <3>2
  <2> QED BY <1>2, <2>1 DEF Checked, Counted
<1> QED BY <1>2, <1>3, RoomKept

\* A joiner either holds the event's row and found room, or its team's
\* registration is not confirmed.
LEMMA RoomJoiner ==
  ASSUME TeamsInv, RoomInv, NEW c \in Reqs, Join(c)
  PROVE  RoomInv'
<1>1. PICK n \in Seats : /\ seat'[n].team = req[c].team
                         /\ \A s \in Seats : s # n => seat'[s] = seat[s]
  BY AdmissionAdds
<1>2. /\ Ready(c, {"join"}) /\ Done(c) /\ reg' = reg /\ unchecked' = unchecked
      /\ Event \in req[c].held => req[c].room
  BY DEF Join
<1>3. CASE Event \in req[c].held
  <2>1. Checked' \subseteq Checked \cup {n}
    BY <1>1, <1>2 DEF Checked, Counted
  <2> QED BY <1>2, <1>3, <2>1, RoomTaken
<1>4. CASE Event \notin req[c].held
  <2>1. /\ req[c].team \in req[c].held /\ req[c] # Idle /\ req[c].op = "join"
        /\ req[c].todo = <<>>
    BY <1>2, AdmissionAdds, ReadyIsInFlight DEF TeamsInv
  <2>2. ~ Planned(c, Event)
    BY <1>4, <2>1 DEF Planned
  <2>3. reg[req[c].team] # "CONFIRMED"
    BY <2>1, <2>2 DEF TeamsInv, Knows
  <2>4. Checked' \subseteq Checked
    BY <1>1, <1>2, <2>3 DEF Checked, Counted
  <2>5. \A d \in Reqs : Event \in req'[d].held /\ req'[d].room
                          => Event \in req[d].held /\ req[d].room
    BY <1>2, RoomOfTheDone
  <2> QED BY <2>4, <2>5, RoomKept
<1> QED BY <1>3, <1>4

\* An addition checks nothing, and its seat is marked so.
LEMMA RoomAdded ==
  ASSUME TeamsInv, RoomInv, NEW c \in Reqs, Add(c)
  PROVE  RoomInv'
<1>1. /\ Done(c) /\ reg' = reg
      /\ unchecked' = unchecked \cup {s \in Seats : seat[s] # seat'[s]}
  BY DEF Add
<1>2. Checked' \subseteq Checked
  BY <1>1 DEF Checked, Counted
<1>3. \A d \in Reqs : Event \in req'[d].held /\ req'[d].room
                        => Event \in req[d].held /\ req[d].room
  BY <1>1, RoomOfTheDone
<1> QED BY <1>2, <1>3, RoomKept

\* A confirmation that found room lets in the payer's one seat; the rest it
\* brings to count is marked as unchecked.
LEMMA RoomPayer ==
  ASSUME TeamsInv, RoomInv, NEW c \in Reqs, Confirm(c)
  PROVE  RoomInv'
<1> DEFINE payers == {s \in Seats : seat[s].team = req[c].team /\ seat[s].role = "LEADER"
                                                               /\ seat[s].profile = req[c].who}
           paidFor == IF Event \in req[c].held THEN payers ELSE {}
<1>1. /\ Done(c)
      /\ Event \in req[c].held => req[c].room
      /\ seat' = [s \in Seats |-> IF s \in payers THEN [seat[s] EXCEPT !.status = "ACTIVE"]
                                                  ELSE seat[s]]
      /\ Indexed(seat')
      /\ unchecked' = (unchecked \ paidFor) \cup ((Counted' \ Counted) \ paidFor)
  BY DEF Confirm
<1>2. req[c].who \in Profiles
  BY ConfirmKeeps
<1>3. ASSUME NEW m \in payers, NEW n \in payers
      PROVE  m = n
  <2>1. /\ seat'[m].profile = req[c].who /\ seat'[n].profile = req[c].who
        /\ seat'[m].status \in Held /\ seat'[n].status \in Held
        /\ m \in Seats /\ n \in Seats
    <3>1. seat[m] \in SeatRow /\ seat[n] \in SeatRow
      BY DEF TeamsInv, TypeOK
    <3>2. /\ seat'[m] = [seat[m] EXCEPT !.status = "ACTIVE"]
          /\ seat'[n] = [seat[n] EXCEPT !.status = "ACTIVE"]
      BY <1>1
    <3> QED BY <3>1, <3>2 DEF SeatRow, Held
  <2> QED BY <1>1, <1>2, <2>1, RowsAssumption DEF Indexed
<1> HIDE DEF payers
<1>4. Checked' \subseteq Checked \cup paidFor
  <2> HIDE DEF paidFor
  <2>1. Checked' = Counted' \ unchecked'
    BY DEF Checked
  <2> QED BY <1>1, <2>1 DEF Checked
<1>5. CASE Event \in req[c].held
  <2>1. PICK n : payers \subseteq {n}
    BY <1>3
  <2>2. Checked' \subseteq Checked \cup {n}
    BY <1>4, <1>5, <2>1
  <2> QED BY <1>1, <1>5, <2>2, RoomTaken
<1>6. CASE Event \notin req[c].held
  <2>1. Checked' \subseteq Checked
    BY <1>4, <1>6
  <2>2. \A d \in Reqs : Event \in req'[d].held /\ req'[d].room
                          => Event \in req[d].held /\ req[d].room
    BY <1>1, RoomOfTheDone
  <2> QED BY <2>1, <2>2, RoomKept
<1> QED BY <1>5, <1>6

LEMMA RoomAsked ==
  ASSUME TeamsInv, RoomInv, NEW c \in Reqs, Ask(c)
  PROVE  RoomInv'
<1>1. PICK op, t, who, role, s : Begin(c, op, t, who, role, s)
  BY DEF Ask, AskJoin, AskConfirm, AskTransfer, AskAdd, AskPatch, AskCancel, AskLeave
<1>2. UNCHANGED <<seat, reg, unchecked>>
  BY <1>1 DEF Begin
<1>3. /\ req'[c].held = {}
      /\ \A d \in Reqs \ {c} : req'[d] = req[d]
  BY <1>1 DEF Begin, TeamsInv, TypeOK
<1>4. Checked' \subseteq Checked
  BY <1>2, NoneCounted
<1> QED BY <1>3, <1>4, RoomKept

\* Room is looked for under the event's lock.
LEMMA RoomFound ==
  ASSUME TeamsInv, RoomInv, NEW c \in Reqs, Lock(c)
  PROVE  RoomInv'
<1>1. UNCHANGED <<seat, reg, unchecked>>
  BY DEF Lock
<1>2. Checked' = Checked
  BY <1>1 DEF Checked, Counted
<1>3. /\ \A d \in Reqs \ {c} : req'[d] = req[d]
      /\ req'[c].held = req[c].held \cup {Head(req[c].todo)}
      /\ req'[c].room = IF Head(req[c].todo) = Event THEN HasRoom ELSE req[c].room
  BY LockTakes
<1>4. HasRoom => Cardinality(Checked) < Capacity
  <2>1. Counted \subseteq Seats /\ Checked \subseteq Counted
    BY DEF Counted, Checked
  <2>2. /\ Cardinality(Checked) <= Cardinality(Counted)
        /\ Cardinality(Checked) \in Nat /\ Cardinality(Counted) \in Nat
    BY <2>1, Fewer
  <2> QED BY <2>2, RulesAssumption DEF HasRoom
<1>5. /\ Cardinality(Checked) <= Capacity
      /\ \A d \in Reqs : Event \in req[d].held /\ req[d].room => Cardinality(Checked) < Capacity
  BY DEF RoomInv, CheckedSeatsFit, Checked
<1>6. ASSUME NEW d \in Reqs, Event \in req'[d].held, req'[d].room
      PROVE  Cardinality(Checked) < Capacity
  <2>1. CASE d # c
    BY <1>3, <1>5, <1>6, <2>1
  <2>2. CASE d = c /\ Head(req[c].todo) = Event
    BY <1>3, <1>4, <1>6, <2>2
  <2>3. CASE d = c /\ Head(req[c].todo) # Event
    BY <1>3, <1>5, <1>6, <2>3
  <2> QED BY <2>1, <2>2, <2>3
<1>7. /\ Cardinality(Checked') <= Capacity
      /\ \A d \in Reqs : Event \in req'[d].held /\ req'[d].room => Cardinality(Checked') < Capacity
  BY <1>2, <1>5, <1>6, Zenon
<1> QED BY <1>7 DEF RoomInv, CheckedSeatsFit, Checked

LEMMA RoomStep ==
  ASSUME TeamsInv, RoomInv, [Next]_vars
  PROVE  RoomInv'
<1>1. CASE UNCHANGED vars \/ \E t \in Teams : Invite(t)
  <2>1. UNCHANGED <<seat, reg, req, unchecked>>
    BY <1>1 DEF vars, Invite
  <2>2. Checked' \subseteq Checked
    BY <2>1, NoneCounted
  <2> QED BY <2>1, <2>2, RoomKept
<1>2. ASSUME NEW c \in Reqs, Abort(c) \/ Leave(c) \/ Transfer(c) \/ Patch(c) \/ PatchReg(c)
                               \/ Cancel(c) \/ Revoke(c)
      PROVE  RoomInv'
  <2>1. Done(c)
    BY <1>2 DEF Abort, Leave, Transfer, Patch, PatchReg, Cancel, Revoke
  <2>2. \A d \in Reqs : Event \in req'[d].held /\ req'[d].room
                          => Event \in req[d].held /\ req[d].room
    BY <2>1, RoomOfTheDone
  <2>3. CASE Abort(c) \/ Patch(c) \/ PatchReg(c) \/ Revoke(c)
    <3>1. /\ UNCHANGED <<seat, unchecked>>
          /\ \A u \in Teams : reg'[u] = "CONFIRMED" => reg[u] = "CONFIRMED"
      BY <2>3, PatchKeeps, PatchRegKeeps, RevokeKeeps DEF Abort
    <3>2. Checked' \subseteq Checked
      BY <3>1, NoneCounted
    <3> QED BY <2>2, <3>2, RoomKept
  <2>4. CASE Leave(c) \/ Cancel(c)
    <3>1. /\ unchecked' = unchecked
          /\ \A s \in Seats : /\ seat'[s].team = seat[s].team
                              /\ seat'[s].status \in {seat[s].status, "LEFT", "REMOVED"}
      BY <2>4, LeaveKeeps, CancelKeeps
    <3>2. \A u \in Teams : reg'[u] = "CONFIRMED" => reg[u] = "CONFIRMED"
      <4>1. CASE Leave(c)
        BY <4>1 DEF Leave
      <4>2. CASE Cancel(c)
        BY <4>2, CancelKeeps
      <4> QED BY <2>4, <4>1, <4>2
    <3>3. Checked' \subseteq Checked
      BY <3>1, <3>2, NoneCounted
    <3> QED BY <2>2, <3>3, RoomKept
  <2>5. CASE Transfer(c)
    <3>1. Checked' \subseteq Checked
      BY <2>5, TransferKeeps, NoneCounted
    <3> QED BY <2>2, <3>1, RoomKept
  <2> QED BY <1>2, <2>3, <2>4, <2>5
<1> QED BY <1>1, <1>2, RoomFounder, RoomJoiner, RoomAdded, RoomPayer, RoomAsked, RoomFound,
           Zenon DEF Next, Commit

\* The participants that were let in through a capacity check never exceed the
\* event's capacity, however joins and confirmations interleave: the check and
\* the insert happen under the event's lock (event_service.py:104, 196;
\* team_service.py:458).
THEOREM CapacityOfTheChecked == Spec => []CheckedSeatsFit
<1>1. Init => TeamsInv /\ RoomInv
  <2> SUFFICES ASSUME Init
               PROVE  RoomInv
    BY TeamsInit
  <2>1. Checked = {}
    BY DEF Init, Checked, Counted, Unused
  <2>2. Cardinality(Checked) = 0
    BY <2>1, FS_EmptySet, Zenon
  <2>3. \A d \in Reqs : Event \notin req[d].held
    BY DEF Init, Idle
  <2> QED BY <2>2, <2>3, RulesAssumption DEF RoomInv, CheckedSeatsFit, Checked
<1>2. TeamsInv /\ RoomInv /\ [Next]_vars => (TeamsInv /\ RoomInv)'
  BY TeamsStep, RoomStep
<1>3. RoomInv => CheckedSeatsFit
  BY DEF RoomInv
<1> QED BY <1>1, <1>2, <1>3, PTL DEF Spec

-----------------------------------------------------------------------------
(* Where can_add_role and the look after the insert agree. *)

\* An addition that the roster rules admit is carried out wherever the team's
\* size is fixed or substitutes are allowed (team_service.py:575, 646): only a
\* range of sizes admits a member whom the look after the insert rejects.
THEOREM AdmittedIsKeptOutsideRanges ==
  ASSUME TeamMin(Rules) = TeamMax(Rules) \/ HasSubstitutes(Rules)
  PROVE  Spec => []AdmittedIsKept
<1>1. TeamsInv => AdmittedIsKept
  <2> SUFFICES ASSUME TeamsInv, NEW c \in Reqs, Ready(c, {"add", "adminAdd"}), Admitted(req[c])
               PROVE  ~ RolledBack(req[c])
    BY DEF AdmittedIsKept
  <2> DEFINE roster == RosterOf(req[c].seats)
             role == req[c].role
  <2>1. role \in {"MEMBER", "SUBSTITUTE"} /\ req[c].seats \subseteq Seats
    BY ReadyIsInFlight DEF TeamsInv, Knows, Request
  <2>2. /\ roster \in [mandatory : Nat, subs : Nat]
        /\ Size(roster) = roster.mandatory + roster.subs
    <3>1. roster.mandatory \in Nat /\ roster.subs \in Nat
      BY <2>1, RosterCount
    <3> QED BY <3>1 DEF RosterOf, Size
  <2>3. Size(roster) < TeamMax(Rules) /\ CanAddRole(roster, Rules, role)
    BY DEF Admitted
  <2> HIDE DEF roster, role
  <2>4. CASE role = "SUBSTITUTE"
    <3>1. /\ With(roster, role).subs = roster.subs + 1
          /\ Size(With(roster, role)) = Size(roster) + 1
      BY <2>2, <2>4 DEF With, Size
    <3>2. roster.subs < SubstituteSlots(Rules)
      BY <2>3, <2>4, Limits DEF CanAddRole
    <3> QED BY <2>2, <2>3, <2>4, <3>1, <3>2, Limits DEF RolledBack, roster, role
  <2>5. CASE role = "MEMBER"
    <3>1. /\ With(roster, role).mandatory = roster.mandatory + 1
          /\ Size(With(roster, role)) = Size(roster) + 1
      BY <2>2, <2>5 DEF With, Size
    <3>2. roster.mandatory < TeamMin(Rules)
      BY <2>2, <2>3, <2>5, Limits DEF CanAddRole, MandatoryMet
    <3> QED BY <2>2, <2>3, <2>5, <3>1, <3>2, Limits DEF RolledBack, roster, role
  <2> QED BY <2>1, <2>4, <2>5 DEF role
<1> QED BY <1>1, TeamsInvariant, PTL
=============================================================================
