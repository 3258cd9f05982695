----------------------------- MODULE Attendance -----------------------------
(***************************************************************************)
(* Check-in at the checkpoints of a fest: QR scans, the public scanner's   *)
(* team roster, manual marks and absence corrections, beside the           *)
(* operations that give and take away a participant's right to enter.      *)
(*                                                                         *)
(* A check-in reads, decides and inserts its row without a lock, so the    *)
(* reads of a request and its insert are separate steps.  created_at of a  *)
(* row is the database's now(), the time its transaction began: rows can   *)
(* be committed in another order than they are dated.                      *)
(*                                                                         *)
(* A party is what is paid for: a solo registration, or a team with its    *)
(* registration.  A holder owns a QR code: a solo registration or a team   *)
(* member.                                                                 *)
(***************************************************************************)
EXTENDS Naturals, FiniteSets

CONSTANTS
    Solos, Teams,       \* the parties
    Members, TeamOf,    \* team_members rows and their teams
    Leaders,            \* the members with role LEADER
    Profiles,
    OwnerOf,            \* profile_id of each solo registration
    Checkpoints,
    EventOf,            \* the event of each party
    EventAt,            \* the event of each checkpoint, NoEvent if common to all
    Reqs,               \* requests that may be open at the same time
    Ops,                \* the operations this instance offers
    MaxClock,           \* bound on the number of requests
    NoProfile, NoMember, NoHolder, NoEvent

AllOps == {"Scan", "Roster", "Manual", "AdminPresent", "Absence", "Revoke",
           "Cancel", "Patch", "Leave", "Link", "Fulfil", "Configure"}

Parties == Solos \cup Teams
Holders == Solos \cup Members

ASSUME AttendanceAssumption ==
    /\ TeamOf \in [Members -> Teams]
    /\ OwnerOf \in [Solos -> Profiles]
    /\ Leaders \subseteq Members
    /\ DOMAIN EventOf = Parties /\ DOMAIN EventAt = Checkpoints
    /\ Solos \cap Teams = {} /\ Solos \cap Members = {}
    /\ Checkpoints # {}
    /\ MaxClock \in Nat
    /\ Ops \subseteq AllOps
    /\ NoProfile \notin Profiles
    /\ NoMember \notin Members
    /\ NoHolder \notin Holders

VARIABLES
    party,       \* registrations.status and teams.status of each party
    member,      \* team_members.status
    profileOf,   \* team_members.profile_id
    qr,          \* the qr_codes row of each holder
    checkpoint,  \* is_active, and whether a repeated scan counts again
    scans,       \* attendance_scans
    corrections, \* attendance_corrections
    caps,        \* team capabilities issued and not expired
    clock,       \* the database's clock: transactions begun so far
    req,         \* what each open request is doing and has read
    lost         \* observation: when each holder last lost a right to enter

rights == <<party, member, profileOf, qr, lost>>
rows   == <<scans, corrections>>
vars   == <<rights, checkpoint, rows, caps, clock, req>>

PartyStatus  == {"PENDING", "CONFIRMED", "CANCELLED"}
MemberStatus == {"PENDING_PAYMENT", "ACTIVE", "LEFT", "REMOVED"}
Terminal     == {"LEFT", "REMOVED"}
Result       == {"SUCCESS", "DUPLICATE", "INVALID", "NOT_PAID"}
Via          == {"scanner", "roster", "desk"}
Identities   == (Profiles \cup {NoProfile}) \X (Members \cup {NoMember})

Scan == [k : Checkpoints, h : Holders, prof : Profiles \cup {NoProfile},
         mem : Members \cup {NoMember}, res : Result, at : Nat, via : Via]

Correction == [k : Checkpoints, prof : Profiles \cup {NoProfile},
               mem : Members \cup {NoMember}, at : Nat, via : Via]

Capability == [team : Teams, k : Checkpoints]

PCs == {"idle", "eligible", "presence", "insert", "issue", "absent"}

\* held: the caller keeps the member row it read, so the session does not read
\* that row again; heldStatus is its status then.
Request == [pc : PCs, k : Checkpoints, h : Holders \cup {NoHolder},
            prof : Profiles \cup {NoProfile}, mem : Members \cup {NoMember},
            at : Nat, via : Via, held : BOOLEAN, heldStatus : MemberStatus,
            repeat : BOOLEAN, res : Result]

Idle == [pc |-> "idle", k |-> CHOOSE k \in Checkpoints : TRUE, h |-> NoHolder,
         prof |-> NoProfile, mem |-> NoMember, at |-> 0, via |-> "desk",
         held |-> FALSE, heldStatus |-> "ACTIVE", repeat |-> FALSE,
         res |-> "INVALID"]

\* The unique index: an account holds one seat per event.
SeatsUnique ==
    \A m, n \in Members :
      /\ {member[m], member[n]} \cap Terminal = {}
      /\ EventOf[TeamOf[m]] = EventOf[TeamOf[n]]
      /\ profileOf[m] = profileOf[n] /\ profileOf[m] # NoProfile
      => m = n

\* Before any payment: leaders await it, the members they entered are ACTIVE
\* and may have no account yet; each leader has one.
Init ==
    /\ party = [x \in Parties |-> "PENDING"]
    /\ member = [m \in Members |->
                   IF m \in Leaders THEN "PENDING_PAYMENT" ELSE "ACTIVE"]
    /\ profileOf \in [Members -> Profiles \cup {NoProfile}]
    /\ \A m \in Leaders : profileOf[m] # NoProfile
    /\ SeatsUnique
    /\ qr = [h \in Holders |-> "none"]
    /\ checkpoint \in [Checkpoints -> [open : {TRUE}, repeat : BOOLEAN]]
    /\ scans = {} /\ corrections = {} /\ caps = {}
    /\ clock = 0
    /\ req = [c \in Reqs |-> Idle]
    /\ lost = [h \in Holders |-> 0]
-----------------------------------------------------------------------------
(* Who may enter.                                                          *)

PartyOf(h) == IF h \in Solos THEN h ELSE TeamOf[h]
HoldersOf(x) == {h \in Holders : PartyOf(h) = x}

QrGood(h)   == qr[h] = "active"
PaidGood(h) == party[PartyOf(h)] = "CONFIRMED"
SeatGood(h) == h \in Members => member[h] = "ACTIVE"
MayEnter(h) == QrGood(h) /\ PaidGood(h) /\ SeatGood(h)

\* The observation: a holder loses one of the three now.  It comes last in an
\* action, after the new values it compares.
NoteLosses ==
    lost' = [h \in Holders |->
               IF \/ QrGood(h) /\ ~ QrGood(h)'
                  \/ PaidGood(h) /\ ~ PaidGood(h)'
                  \/ SeatGood(h) /\ ~ SeatGood(h)'
                 THEN clock ELSE lost[h]]

SetQr(hs, st) == qr' = [h \in Holders |-> IF h \in hs THEN st ELSE qr[h]]

NonTerminal(hs) == {h \in hs : h \in Members => member[h] \notin Terminal}

\* A deactivation only touches QR rows that exist.
WithQr(hs) == {h \in hs : qr[h] # "none"}

Elsewhere == UNCHANGED <<checkpoint, rows, caps, clock, req>>
-----------------------------------------------------------------------------
(* Presence: the newest SUCCESS against the newest absence, 0 for none.    *)

Latest(S) == IF S = {} THEN 0 ELSE CHOOSE t \in S : \A u \in S : u <= t

\* The rows dedicated to one member only.
MutantMatches(row, p, m) == m # NoMember /\ row.mem = m

\* _identity_filters, combined by OR.
Matches(row, p, m) == \/ m # NoMember /\ row.mem = m
                      \/ p # NoProfile /\ row.prof = p

Successes(k) == {s \in scans : s.k = k /\ s.res = "SUCCESS"}
Absences(k)  == {a \in corrections : a.k = k}

Stamps(R) == {row.at : row \in R}

LatestSuccess(k, p, m) == Latest(Stamps({s \in Successes(k) : Matches(s, p, m)}))
LatestAbsence(k, p, m) == Latest(Stamps({a \in Absences(k) : Matches(a, p, m)}))

EffectivelyPresent(success, absence) == success # 0 /\ success > absence

IsPresent(k, p, m) ==
    EffectivelyPresent(LatestSuccess(k, p, m), LatestAbsence(k, p, m))

\* present_member_ids: one query for all members ms, then per row a newest
\* stamp by member and one by profile.
BatchRows(R, ms) ==
    {row \in R : \/ row.mem \in ms
                 \/ \E m \in ms : profileOf[m] # NoProfile /\ row.prof = profileOf[m]}

ByMember(R, m)  == Latest(Stamps({row \in R : row.mem = m}))
ByProfile(R, p) == Latest(Stamps({row \in R : p # NoProfile /\ row.prof = p}))

MutantNewest(R, m) == ByMember(R, m)

Newest(R, m) ==
    LET own == ByMember(R, m)
        other == ByProfile(R, profileOf[m])
    IN  IF other > own THEN other ELSE own

PresentMembers(k, ms) ==
    {m \in ms : EffectivelyPresent(Newest(BatchRows(Successes(k), ms), m),
                                   Newest(BatchRows(Absences(k), ms), m))}
-----------------------------------------------------------------------------
(* Check-ins.  Each begins a transaction, reads the checkpoint, the QR row *)
(* and the identity behind it, and ends in scan().                         *)

MutantProfileOf(h) == IF h \in Solos THEN NoProfile ELSE profileOf[h]

\* _resolve_qr_context: who a QR stands for.
ProfileOf(h) == IF h \in Solos THEN OwnerOf[h] ELSE profileOf[h]

MemberOf(h)  == IF h \in Members THEN h ELSE NoMember

Tick == clock < MaxClock /\ clock' = clock + 1

Admits(k, x) == EventAt[k] \in {NoEvent, EventOf[x]}

\* The first checks of scan(): inactive QR, inactive checkpoint, wrong event.
Refused(h, k) ==
    ~ QrGood(h) \/ ~ checkpoint[k].open \/ ~ Admits(k, PartyOf(h))

BeginScan(c, h, k, via, held) ==
    /\ req[c].pc = "idle"
    /\ Tick
    /\ qr[h] # "none"
    /\ req' = [req EXCEPT ![c] =
         [pc |-> IF Refused(h, k) THEN "insert" ELSE "eligible",
          k |-> k, h |-> h, prof |-> ProfileOf(h), mem |-> MemberOf(h),
          at |-> clock + 1, via |-> via, held |-> held,
          heldStatus |-> IF held THEN member[h] ELSE "ACTIVE",
          repeat |-> checkpoint[k].repeat, res |-> "INVALID"]]
    /\ UNCHANGED <<rights, checkpoint, rows, caps>>

\* A QR token presented to the public scanner or to an administrator's.
ScanQr(c, h, k, via) ==
    /\ "Scan" \in Ops
    /\ via \in {"scanner", "desk"}
    /\ BeginScan(c, h, k, via, FALSE)

MutantMatchesScope(m, cap) == member[m] \notin Terminal

\* member_matches_scope: only the roster of the scanned team.
MatchesScope(m, cap) == member[m] \notin Terminal /\ TeamOf[m] = cap.team

RosterCheckIn(c, m, cap) ==
    /\ "Roster" \in Ops
    /\ cap \in caps
    /\ MatchesScope(m, cap) /\ QrGood(m)
    /\ BeginScan(c, m, cap.k, "roster", TRUE)

\* Active QR codes of a profile that the checkpoint's event admits.
ProfileQrs(p, k, H) ==
    {h \in H : ProfileOf(h) = p /\ QrGood(h) /\ Admits(k, PartyOf(h))}

\* A registration's QR is preferred to a member's.
ManualMark(c, p, k) ==
    LET own == ProfileQrs(p, k, Solos) IN
    /\ "Manual" \in Ops
    /\ checkpoint[k].open
    /\ \E h \in IF own # {} THEN own ELSE ProfileQrs(p, k, Members) :
         BeginScan(c, h, k, "desk", FALSE)

AdminPresent(c, m, k) ==
    /\ "AdminPresent" \in Ops
    /\ checkpoint[k].open /\ Admits(k, TeamOf[m]) /\ QrGood(m)
    /\ BeginScan(c, m, k, "desk", TRUE)

\* The ACTIVE status of the seat is not looked at.
MutantIsPaidEligible(q) == PaidGood(q.h)

\* _is_paid_eligible; the team row is read anew in any case.
IsPaidEligible(q) ==
    /\ PaidGood(q.h)
    /\ IF q.held THEN q.heldStatus = "ACTIVE" ELSE SeatGood(q.h)

CheckEligible(c) ==
    LET q == req[c] IN
    /\ q.pc = "eligible"
    /\ req' = [req EXCEPT ![c] =
         IF IsPaidEligible(q)
           THEN [q EXCEPT !.pc = "presence"]
           ELSE [q EXCEPT !.pc = "insert", !.res = "NOT_PAID"]]
    /\ UNCHANGED <<rights, checkpoint, rows, caps, clock>>

\* Someone present may count again only if the checkpoint allows repeats and
\* its duplicate behaviour is ALLOW.
CheckPresence(c) ==
    LET q == req[c] IN
    /\ q.pc = "presence"
    /\ req' = [req EXCEPT ![c] = [q EXCEPT !.pc = "insert",
         !.res = IF IsPresent(q.k, q.prof, q.mem) /\ ~ q.repeat
                   THEN "DUPLICATE" ELSE "SUCCESS"]]
    /\ UNCHANGED <<rights, checkpoint, rows, caps, clock>>

\* _insert_scan commits; the public scanner then looks for the team to show.
InsertScan(c) ==
    LET q == req[c]
        row == [k |-> q.k, h |-> q.h, prof |-> q.prof, mem |-> q.mem,
                res |-> q.res, at |-> q.at, via |-> q.via]
        team == /\ q.via = "scanner" /\ q.mem # NoMember
                /\ q.res \in {"SUCCESS", "DUPLICATE"}
    IN
    /\ q.pc = "insert"
    /\ scans' = scans \cup {row}
    /\ req' = [req EXCEPT ![c] = IF team THEN [q EXCEPT !.pc = "issue"] ELSE Idle]
    /\ UNCHANGED <<rights, checkpoint, corrections, caps, clock>>

IssueCapability(c) ==
    LET q == req[c] IN
    /\ q.pc = "issue"
    /\ caps' = IF member[q.mem] \in Terminal THEN caps
               ELSE caps \cup {[team |-> TeamOf[q.mem], k |-> q.k]}
    /\ req' = [req EXCEPT ![c] = Idle]
    /\ UNCHANGED <<rights, checkpoint, rows, clock>>

\* Twenty minutes later.
ExpireCapability(cap) ==
    /\ cap \in caps
    /\ caps' = caps \ {cap}
    /\ UNCHANGED <<rights, checkpoint, rows, clock, req>>
-----------------------------------------------------------------------------
(* Absence corrections.                                                    *)

BeginAbsence(c, k, p, m, via) ==
    /\ "Absence" \in Ops
    /\ req[c].pc = "idle"
    /\ Tick
    /\ checkpoint[k].open
    /\ req' = [req EXCEPT ![c] =
         [Idle EXCEPT !.pc = "absent", !.k = k, !.prof = p, !.mem = m,
                      !.at = clock + 1, !.via = via]]
    /\ UNCHANGED <<rights, checkpoint, rows, caps>>

\* The administrator names a profile or a member, never both.
AdminAbsent(c, k, p, m) ==
    /\ (p = NoProfile) # (m = NoMember)
    /\ BeginAbsence(c, k, p, m, "desk")

RosterAbsent(c, m, cap) ==
    /\ cap \in caps
    /\ MatchesScope(m, cap)
    /\ BeginAbsence(c, cap.k, profileOf[m], m, "roster")

RecordAbsence(c) ==
    LET q == req[c] IN
    /\ q.pc = "absent"
    /\ corrections' = corrections \cup
         {[k |-> q.k, prof |-> q.prof, mem |-> q.mem, at |-> q.at, via |-> q.via]}
    /\ req' = [req EXCEPT ![c] = Idle]
    /\ UNCHANGED <<rights, checkpoint, scans, caps, clock>>
-----------------------------------------------------------------------------
(* What gives and takes the right to enter, one transaction per action.    *)

\* A capture or an offline payment confirms the party: its team is PAID and
\* the leader ACTIVE, even one who left, unless the unique index refuses.
ActiveLeaders(x) ==
    member' = [m \in Members |-> IF m \in Leaders /\ TeamOf[m] = x
                                   THEN "ACTIVE" ELSE member[m]]

Confirm(x) ==
    /\ party[x] = "PENDING"
    /\ party' = [party EXCEPT ![x] = "CONFIRMED"]
    /\ UNCHANGED profileOf
    /\ ActiveLeaders(x) /\ SeatsUnique'
    /\ SetQr({h \in HoldersOf(x) : h \in Members => member'[h] \notin Terminal},
             "active")
    /\ NoteLosses /\ Elsewhere

\* Fulfilment of a PAID payment is retried whatever became of the party.
Fulfil(x) ==
    /\ "Fulfil" \in Ops
    /\ SetQr(NonTerminal(HoldersOf(x)), "active")
    /\ UNCHANGED <<party, member, profileOf>>
    /\ NoteLosses /\ Elsewhere

\* Any scan of a QR of the party forbids a revocation.
Scanned(x) == \E s \in scans : s.h \in HoldersOf(x)

Revoke(x) ==
    /\ "Revoke" \in Ops
    /\ party[x] = "CONFIRMED" /\ ~ Scanned(x)
    /\ party' = [party EXCEPT ![x] = "PENDING"]
    /\ SetQr(WithQr(HoldersOf(x)), "inactive")
    /\ UNCHANGED <<member, profileOf>>
    /\ NoteLosses /\ Elsewhere

\* By the registration every QR code goes, by the team only those of members
\* who are still on it.
Cancel(x) ==
    /\ "Cancel" \in Ops
    /\ party' = [party EXCEPT ![x] = "CANCELLED"]
    /\ \/ SetQr(WithQr(HoldersOf(x)), "inactive")
       \/ x \in Teams /\ SetQr(WithQr(NonTerminal(HoldersOf(x))), "inactive")
    /\ UNCHANGED <<member, profileOf>>
    /\ NoteLosses /\ Elsewhere

\* PATCH of a solo registration's status: the QR is left alone, CONFIRMED is
\* refused, and CONFIRMED to PENDING is a revocation.
Patch(x, st) ==
    /\ "Patch" \in Ops
    /\ x \in Solos
    /\ st # "CONFIRMED" /\ ~ (st = "PENDING" /\ party[x] = "CONFIRMED")
    /\ party' = [party EXCEPT ![x] = st]
    /\ UNCHANGED <<member, profileOf, qr>>
    /\ NoteLosses /\ Elsewhere

\* Leaving (with an account) or being removed (not the leader): the QR stays.
Leave(m) ==
    /\ "Leave" \in Ops
    /\ member[m] \notin Terminal
    /\ \/ profileOf[m] # NoProfile /\ member' = [member EXCEPT ![m] = "LEFT"]
       \/ m \notin Leaders /\ member' = [member EXCEPT ![m] = "REMOVED"]
    /\ UNCHANGED <<party, profileOf, qr>>
    /\ NoteLosses /\ Elsewhere

\* link_member_profile: a seat without an account gets one.
Link(m, p) ==
    /\ "Link" \in Ops
    /\ member[m] \notin Terminal /\ profileOf[m] = NoProfile
    /\ profileOf' = [profileOf EXCEPT ![m] = p]
    /\ UNCHANGED <<party, member>>
    /\ SeatsUnique'
    /\ IF PaidGood(m) THEN SetQr({m}, "active") ELSE qr' = qr
    /\ NoteLosses /\ Elsewhere

\* update_checkpoint.
Configure(k, open, repeat) ==
    /\ "Configure" \in Ops
    /\ checkpoint' = [checkpoint EXCEPT ![k] = [open |-> open, repeat |-> repeat]]
    /\ UNCHANGED <<rights, rows, caps, clock, req>>
-----------------------------------------------------------------------------
CheckIn(c) ==
    \/ \E h \in Holders, k \in Checkpoints, via \in Via : ScanQr(c, h, k, via)
    \/ \E m \in Members, cap \in caps : RosterCheckIn(c, m, cap)
    \/ \E p \in Profiles, k \in Checkpoints : ManualMark(c, p, k)
    \/ \E m \in Members, k \in Checkpoints : AdminPresent(c, m, k)
    \/ CheckEligible(c) \/ CheckPresence(c) \/ InsertScan(c) \/ IssueCapability(c)

Absent(c) ==
    \/ \E k \in Checkpoints, p \in Profiles \cup {NoProfile},
          m \in Members \cup {NoMember} : AdminAbsent(c, k, p, m)
    \/ \E m \in Members, cap \in caps : RosterAbsent(c, m, cap)
    \/ RecordAbsence(c)

Rights ==
    \/ \E x \in Parties : Confirm(x) \/ Fulfil(x) \/ Revoke(x) \/ Cancel(x)
    \/ \E x \in Parties, st \in PartyStatus : Patch(x, st)
    \/ \E m \in Members : Leave(m)
    \/ \E m \in Members, p \in Profiles : Link(m, p)

Next ==
    \/ \E c \in Reqs : CheckIn(c) \/ Absent(c)
    \/ Rights
    \/ \E cap \in caps : ExpireCapability(cap)
    \/ \E k \in Checkpoints, open, repeat \in BOOLEAN : Configure(k, open, repeat)

Spec == Init /\ [][Next]_vars
-----------------------------------------------------------------------------
(* Properties.                                                             *)

\* Types; each attendance row names a profile or a member (the tables' CHECK
\* constraints); no row is dated later than the clock.
TypeOK ==
    /\ party \in [Parties -> PartyStatus]
    /\ member \in [Members -> MemberStatus]
    /\ profileOf \in [Members -> Profiles \cup {NoProfile}]
    /\ qr \in [Holders -> {"none", "active", "inactive"}]
    /\ checkpoint \in [Checkpoints -> [open : BOOLEAN, repeat : BOOLEAN]]
    /\ scans \subseteq Scan /\ corrections \subseteq Correction
    /\ \A row \in scans \cup corrections :
         /\ row.prof # NoProfile \/ row.mem # NoMember
         /\ row.at \in 1 .. clock
    /\ caps \subseteq Capability
    /\ clock \in Nat
    /\ req \in [Reqs -> Request]
    /\ lost \in [Holders -> Nat]

\* The roster view and the single check agree: present_member_ids, which
\* answers for a whole team from two queries, marks exactly the members for
\* whom is_effectively_present, asked for each, is true.
BatchAgrees ==
    \A k \in Checkpoints, t \in Teams :
      LET ms == {m \in Members : TeamOf[m] = t} IN
      PresentMembers(k, ms) = {m \in ms : IsPresent(k, profileOf[m], m)}

\* Whoever may not enter now has no check-in by a request that began after
\* the right was lost: by the cancellation, the revocation, the departure
\* from the team or the deactivation of the QR code.
NoEntryAfterLoss ==
    \A s \in scans :
      s.res = "SUCCESS" /\ ~ MayEnter(s.h) => s.at <= lost[s.h]

\* The public scanner accepted a code of team t at k before time at.
Opened(k, t, at) ==
    \E s \in scans :
      /\ s.via = "scanner" /\ s.res \in {"SUCCESS", "DUPLICATE"}
      /\ s.k = k /\ s.at < at
      /\ s.mem # NoMember /\ TeamOf[s.mem] = t

\* Nothing happens through the roster of a team unless a QR code of that team
\* was accepted by the public scanner at the same checkpoint before.
RosterWasOpened ==
    \A row \in scans \cup corrections :
      row.via = "roster" =>
        row.mem # NoMember /\ Opened(row.k, TeamOf[row.mem], row.at)

\* The inductive invariant of the proofs.  What it adds to the properties above
\* is what an open request may rely on.

\* What held once since time at was lost since, or still holds.
Still(good, h, at) == good \/ lost[h] >= at

Checking == {"eligible", "presence", "insert"}

RequestOK(q) ==
    /\ q.pc # "idle" => q.at \in 1 .. clock
    /\ q.pc \in Checking => q.h \in Holders
    /\ q.pc \in Checking \cup {"absent"} =>
         /\ q.prof # NoProfile \/ q.mem # NoMember
         /\ q.via = "roster" => /\ q.mem # NoMember
                                /\ Opened(q.k, TeamOf[q.mem], q.at)
    /\ q.pc = "issue" => /\ q.mem # NoMember
                         /\ Opened(q.k, TeamOf[q.mem], clock + 1)
    /\ q.pc = "eligible" =>
         /\ Still(QrGood(q.h), q.h, q.at)
         /\ q.held /\ q.heldStatus = "ACTIVE" => Still(SeatGood(q.h), q.h, q.at)
    /\ q.pc = "presence" \/ (q.pc = "insert" /\ q.res = "SUCCESS") =>
         Still(MayEnter(q.h), q.h, q.at)

AttendanceInv ==
    /\ TypeOK
    /\ \A h \in Holders : lost[h] <= clock
    /\ \A c \in Reqs : RequestOK(req[c])
    /\ \A cap \in caps : Opened(cap.k, cap.team, clock + 1)
    /\ RosterWasOpened
    /\ \A s \in scans : s.res = "SUCCESS" => Still(MayEnter(s.h), s.h, s.at)

\* Two rows that name the same profile or the same member.
SamePerson(row, other) ==
    \/ row.prof # NoProfile /\ row.prof = other.prof
    \/ row.mem # NoMember /\ row.mem = other.mem

\* At a checkpoint that allows no repeats a participant checked in twice was
\* marked absent in between.
OneEntryAtATime ==
    \A s, t \in scans :
      /\ s.k = t.k /\ s.res = "SUCCESS" /\ t.res = "SUCCESS" /\ s.at < t.at
      /\ ~ checkpoint[s.k].repeat /\ SamePerson(s, t)
      => \E a \in corrections : /\ a.k = s.k /\ s.at < a.at /\ a.at < t.at
                                /\ SamePerson(a, t)
=============================================================================
