-------------------------- MODULE Attendance_proofs --------------------------
(* Theorems about Attendance for any parties, members, profiles,           *)
(* checkpoints, requests and any number of them.                           *)
EXTENDS Attendance, TLAPS, WellFoundedInduction

\* What the steps that change rights must keep of the types.
RightsTypes ==
    /\ party \in [Parties -> PartyStatus]
    /\ member \in [Members -> MemberStatus]
    /\ profileOf \in [Members -> Profiles \cup {NoProfile}]
    /\ qr \in [Holders -> {"none", "active", "inactive"}]

\* A request keeps what it relies on while rights rest and rows only grow.
LEMMA RightsRest ==
    ASSUME NEW q \in Request, TypeOK, RequestOK(q), UNCHANGED rights,
           scans \subseteq scans', clock' \in Nat, clock <= clock'
    PROVE  RequestOK(q)'
<1>1. \A k, t, at : Opened(k, t, at) => Opened(k, t, at)'
  BY DEF Opened
<1>2. \A k, t : Opened(k, t, clock + 1) => Opened(k, t, clock + 1)'
  <2> SUFFICES ASSUME NEW k, NEW t, Opened(k, t, clock + 1)
               PROVE  Opened(k, t, clock + 1)'
    OBVIOUS
  <2>1. PICK s \in scans : /\ s.via = "scanner" /\ s.res \in {"SUCCESS", "DUPLICATE"}
                           /\ s.k = k /\ s.at < clock + 1
                           /\ s.mem # NoMember /\ TeamOf[s.mem] = t
    BY DEF Opened
  <2>2. s.at < clock' + 1
    BY <2>1 DEF TypeOK, Scan
  <2> QED BY <2>1, <2>2 DEF Opened
<1>3. q.pc # "idle" => q.at \in 1 .. clock'
  BY DEF RequestOK, TypeOK, Request
<1>4. \A h, at : /\ Still(QrGood(h), h, at) => Still(QrGood(h), h, at)'
                 /\ Still(SeatGood(h), h, at) => Still(SeatGood(h), h, at)'
                 /\ Still(MayEnter(h), h, at) => Still(MayEnter(h), h, at)'
  BY DEF rights, Still, QrGood, SeatGood, PaidGood, MayEnter
<1> QED BY <1>1, <1>2, <1>3, <1>4 DEF RequestOK

\* A right held since a time is still held or was lost since, across a step
\* that notes its losses.
LEMMA LossesNoted ==
    ASSUME TypeOK, \A h \in Holders : lost[h] <= clock, NoteLosses, clock' = clock,
           NEW h \in Holders, NEW at \in Nat, at <= clock
    PROVE  /\ lost'[h] \in Nat /\ lost'[h] <= clock
           /\ Still(QrGood(h), h, at) => Still(QrGood(h), h, at)'
           /\ Still(SeatGood(h), h, at) => Still(SeatGood(h), h, at)'
           /\ Still(MayEnter(h), h, at) => Still(MayEnter(h), h, at)'
<1> DEFINE gone == \/ QrGood(h) /\ ~ QrGood(h)'
                   \/ PaidGood(h) /\ ~ PaidGood(h)'
                   \/ SeatGood(h) /\ ~ SeatGood(h)'
<1>1. lost'[h] = IF gone THEN clock ELSE lost[h]
  BY DEF NoteLosses
<1>2. lost[h] \in Nat /\ clock \in Nat
  BY DEF TypeOK
<1> HIDE DEF gone
<1>3. /\ lost'[h] \in Nat /\ lost'[h] <= clock
      /\ lost[h] >= at => lost'[h] >= at
      /\ gone => lost'[h] >= at
  BY <1>1, <1>2
<1>4. /\ QrGood(h) => QrGood(h)' \/ gone
      /\ SeatGood(h) => SeatGood(h)' \/ gone
      /\ MayEnter(h) => MayEnter(h)' \/ gone
  BY DEF gone, MayEnter
<1> QED BY <1>3, <1>4 DEF Still

\* Every step that gives or takes rights keeps the invariant.
LEMMA RightsStep ==
    ASSUME AttendanceInv, RightsTypes', NoteLosses, Elsewhere
    PROVE  AttendanceInv'
<1> USE DEF Elsewhere, rows
<1>1. TypeOK /\ \A h \in Holders : lost[h] <= clock
  BY DEF AttendanceInv
<1>2. lost' \in [Holders -> Nat] /\ \A h \in Holders : lost'[h] <= clock'
  BY <1>1 DEF NoteLosses, TypeOK
<1>3. TypeOK'
  BY <1>1, <1>2 DEF TypeOK, RightsTypes, vars
<1>4. ASSUME NEW c \in Reqs PROVE RequestOK(req[c])'
  <2> DEFINE q == req[c]
  <2>1. q \in Request /\ RequestOK(q) /\ req'[c] = q
    BY <1>1 DEF AttendanceInv, TypeOK
  <2>2. \A k, t, at : Opened(k, t, at)' = Opened(k, t, at)
    BY DEF Opened
  <2>3. q.pc \in Checking =>
          /\ Still(QrGood(q.h), q.h, q.at) => Still(QrGood(q.h), q.h, q.at)'
          /\ Still(SeatGood(q.h), q.h, q.at) => Still(SeatGood(q.h), q.h, q.at)'
          /\ Still(MayEnter(q.h), q.h, q.at) => Still(MayEnter(q.h), q.h, q.at)'
    <3> SUFFICES ASSUME q.pc \in Checking
                 PROVE  /\ Still(QrGood(q.h), q.h, q.at) => Still(QrGood(q.h), q.h, q.at)'
                        /\ Still(SeatGood(q.h), q.h, q.at) => Still(SeatGood(q.h), q.h, q.at)'
                        /\ Still(MayEnter(q.h), q.h, q.at) => Still(MayEnter(q.h), q.h, q.at)'
      OBVIOUS
    <3>1. q.h \in Holders /\ q.at \in Nat /\ q.at <= clock
      BY <1>1, <2>1 DEF RequestOK, Checking, TypeOK
    <3> QED BY <1>1, <3>1, LossesNoted
  <2> QED BY <2>1, <2>2, <2>3 DEF RequestOK, Checking
<1>5. ASSUME NEW s \in scans', s.res = "SUCCESS"
      PROVE  Still(MayEnter(s.h), s.h, s.at)'
  <2>1. s.h \in Holders /\ s.at \in Nat /\ s.at <= clock /\ Still(MayEnter(s.h), s.h, s.at)
    BY <1>1, <1>5 DEF TypeOK, Scan, AttendanceInv
  <2> QED BY <1>1, <2>1, LossesNoted
<1>6. \A k, t, at : Opened(k, t, at)' = Opened(k, t, at)
  BY DEF Opened
<1> QED BY <1>2, <1>3, <1>4, <1>5, <1>6 DEF AttendanceInv, RosterWasOpened

\* A step of one request that leaves rights and rows alone: it goes on as q.
LEMMA QuietStep ==
    ASSUME AttendanceInv, UNCHANGED <<rights, checkpoint, rows>>,
           clock' \in Nat, clock <= clock',
           caps' \subseteq Capability,
           \A cap \in caps' : Opened(cap.k, cap.team, clock + 1),
           NEW c \in Reqs, NEW q \in Request, RequestOK(q)',
           req' = [req EXCEPT ![c] = q]
    PROVE  AttendanceInv'
<1> USE DEF rows
<1>1. TypeOK
  BY DEF AttendanceInv
<1>2. TypeOK'
  BY <1>1 DEF TypeOK, rights
<1>3. ASSUME NEW d \in Reqs PROVE RequestOK(req[d])'
  <2>1. req[d] \in Request /\ RequestOK(req[d])
    BY <1>1 DEF AttendanceInv, TypeOK
  <2>3. CASE d = c
    <3>1. req'[d] = q
      BY <1>1, <2>3 DEF TypeOK
    <3> QED BY <3>1 DEF RequestOK
  <2>4. CASE d # c
    <3> DEFINE r == req[d]
    <3>1. req'[d] = r
      BY <1>1, <2>4 DEF TypeOK
    <3>2. ASSUME NEW x \in Request, RequestOK(x) PROVE RequestOK(x)'
      BY <1>1, <3>2, RightsRest
    <3>3. PICK x \in Request : x = r /\ RequestOK(x)
      BY <2>1
    <3>4. RequestOK(x)'
      BY <3>2, <3>3
    <3> QED BY <3>1, <3>3, <3>4 DEF RequestOK
  <2> QED BY <2>3, <2>4
<1>4. \A k, t : Opened(k, t, clock + 1) => Opened(k, t, clock + 1)'
  <2> SUFFICES ASSUME NEW k, NEW t, Opened(k, t, clock + 1)
               PROVE  Opened(k, t, clock + 1)'
    OBVIOUS
  <2>1. PICK s \in scans : /\ s.via = "scanner" /\ s.res \in {"SUCCESS", "DUPLICATE"}
                           /\ s.k = k /\ s.at < clock + 1
                           /\ s.mem # NoMember /\ TeamOf[s.mem] = t
    BY DEF Opened
  <2>2. s.at < clock' + 1
    BY <1>1, <2>1 DEF TypeOK, Scan
  <2> QED BY <2>1, <2>2 DEF Opened
<1>5. RosterWasOpened'
  BY DEF AttendanceInv, RosterWasOpened, Opened
<1>6. \A s \in scans' : s.res = "SUCCESS" => Still(MayEnter(s.h), s.h, s.at)'
  BY DEF AttendanceInv, rights, Still, MayEnter, QrGood, PaidGood, SeatGood
<1>7. \A h \in Holders : lost'[h] <= clock'
  BY <1>1 DEF AttendanceInv, TypeOK, rights
<1> QED BY <1>2, <1>3, <1>4, <1>5, <1>6, <1>7 DEF AttendanceInv

LEMMA IdleRequest == Idle \in Request /\ RequestOK(Idle)'
BY AttendanceAssumption
   DEF Idle, Request, RequestOK, Checking, PCs, Via, MemberStatus, Result

LEMMA InitInv == Init => AttendanceInv
<1> SUFFICES ASSUME Init PROVE AttendanceInv
  OBVIOUS
<1>1. req \in [Reqs -> Request]
  BY IdleRequest DEF Init
<1>2. TypeOK
  <2>1. member \in [Members -> MemberStatus] /\ party \in [Parties -> PartyStatus]
    BY DEF Init, PartyStatus, MemberStatus
  <2>2. checkpoint \in [Checkpoints -> [open : BOOLEAN, repeat : BOOLEAN]]
    <3>1. [open : {TRUE}, repeat : BOOLEAN] \subseteq [open : BOOLEAN, repeat : BOOLEAN]
      OBVIOUS
    <3> QED BY <3>1 DEF Init
  <2>3. /\ profileOf \in [Members -> Profiles \cup {NoProfile}]
        /\ qr \in [Holders -> {"none", "active", "inactive"}]
        /\ scans = {} /\ corrections = {} /\ caps = {} /\ clock \in Nat
        /\ lost \in [Holders -> Nat]
    BY DEF Init
  <2> QED BY <1>1, <2>1, <2>2, <2>3 DEF TypeOK
<1>3. \A c \in Reqs : RequestOK(req[c])
  BY DEF Init, Idle, RequestOK, Checking
<1>4. lost = [h \in Holders |-> 0] /\ clock = 0 /\ scans = {} /\ corrections = {} /\ caps = {}
  BY DEF Init
<1> QED BY <1>2, <1>3, <1>4 DEF AttendanceInv, RosterWasOpened

\* The beginning of a check-in.
LEMMA BeginScanStep ==
    ASSUME AttendanceInv, NEW c \in Reqs, NEW h \in Holders, NEW k \in Checkpoints,
           NEW via \in Via, NEW held \in BOOLEAN,
           held => h \in Members,
           via = "roster" => h \in Members /\ Opened(k, TeamOf[h], clock + 1),
           BeginScan(c, h, k, via, held)
    PROVE  AttendanceInv'
<1> DEFINE begun == [pc |-> IF Refused(h, k) THEN "insert" ELSE "eligible",
          k |-> k, h |-> h, prof |-> ProfileOf(h), mem |-> MemberOf(h),
          at |-> clock + 1, via |-> via, held |-> held,
          heldStatus |-> IF held THEN member[h] ELSE "ACTIVE",
          repeat |-> checkpoint[k].repeat, res |-> "INVALID"]
<1>1. TypeOK /\ clock' = clock + 1 /\ clock \in Nat
  BY DEF AttendanceInv, BeginScan, Tick, TypeOK
<1>2. /\ ProfileOf(h) \in Profiles \cup {NoProfile}
      /\ MemberOf(h) \in Members \cup {NoMember}
      /\ ProfileOf(h) # NoProfile \/ MemberOf(h) # NoMember
      /\ h \in Members => MemberOf(h) = h /\ h # NoMember
  BY <1>1, AttendanceAssumption DEF TypeOK, ProfileOf, MemberOf, Holders
<1>3. PICK q \in Request : q = begun
  <2>1. checkpoint[k] \in [open : BOOLEAN, repeat : BOOLEAN]
    BY <1>1 DEF TypeOK
  <2>2. checkpoint[k].repeat \in BOOLEAN
    BY <2>1
  <2>3. (IF held THEN member[h] ELSE "ACTIVE") \in MemberStatus
    BY <1>1 DEF TypeOK, MemberStatus
  <2>4. (IF Refused(h, k) THEN "insert" ELSE "eligible") \in PCs /\ "INVALID" \in Result
    BY DEF PCs, Result
  <2>5. begun \in Request
    BY <1>1, <1>2, <2>2, <2>3, <2>4 DEF Request
  <2> QED BY <2>5
<1>4. ~ Refused(h, k) => QrGood(h)'
  BY DEF Refused, QrGood, BeginScan, rights
<1>5. held /\ member[h] = "ACTIVE" => SeatGood(h)'
  BY DEF SeatGood, BeginScan, rights
<1>6. /\ q.pc \in {"insert", "eligible"} /\ (q.pc = "eligible" => ~ Refused(h, k))
      /\ q.k = k /\ q.h = h /\ q.prof = ProfileOf(h) /\ q.mem = MemberOf(h)
      /\ q.at = clock + 1 /\ q.via = via /\ q.held = held
      /\ q.held /\ q.heldStatus = "ACTIVE" => held /\ member[h] = "ACTIVE"
      /\ q.res = "INVALID"
  BY <1>3
<1>7. RequestOK(q)'
  <2>1. q.at \in 1 .. clock'
    BY <1>1, <1>6
  <2>2. q.via = "roster" => q.mem # NoMember /\ Opened(q.k, TeamOf[q.mem], q.at)'
    <3> SUFFICES ASSUME via = "roster"
                 PROVE  q.mem # NoMember /\ Opened(q.k, TeamOf[q.mem], q.at)'
      BY <1>6
    <3>1. q.mem = h /\ h # NoMember /\ q.k = k /\ q.at = clock + 1
      BY <1>2, <1>6
    <3>2. Opened(q.k, TeamOf[q.mem], q.at)
      BY <3>1
    <3>3. scans' = scans
      BY DEF BeginScan, rows
    <3> QED BY <3>1, <3>2, <3>3 DEF Opened
  <2>3. q.pc = "eligible" =>
         /\ Still(QrGood(q.h), q.h, q.at)'
         /\ q.held /\ q.heldStatus = "ACTIVE" => Still(SeatGood(q.h), q.h, q.at)'
    BY <1>4, <1>5, <1>6 DEF Still
  <2> QED BY <1>2, <1>6, <2>1, <2>2, <2>3 DEF RequestOK, Checking
<1>8. req' = [req EXCEPT ![c] = q]
  BY <1>3 DEF BeginScan
<1>9. caps' \subseteq Capability /\ \A cap \in caps' : Opened(cap.k, cap.team, clock + 1)
  BY DEF BeginScan, AttendanceInv, TypeOK
<1>10. UNCHANGED <<rights, checkpoint, rows>> /\ clock' \in Nat /\ clock <= clock'
  BY <1>1 DEF BeginScan
<1> QED BY <1>7, <1>8, <1>9, <1>10, QuietStep

LEMMA CheckEligibleStep ==
    ASSUME AttendanceInv, NEW c \in Reqs, CheckEligible(c) PROVE AttendanceInv'
<1>1. PICK q \in Request : q = req[c] /\ RequestOK(q) /\ q.pc = "eligible"
  BY DEF AttendanceInv, TypeOK, CheckEligible
<1>2. /\ UNCHANGED <<rights, checkpoint, rows, clock, caps>>
      /\ clock \in Nat /\ clock <= clock'
      /\ caps' \subseteq Capability /\ \A cap \in caps' : Opened(cap.k, cap.team, clock + 1)
  BY DEF CheckEligible, TypeOK, AttendanceInv
<1>3. PICK r \in Request :
        r = IF IsPaidEligible(q)
              THEN [q EXCEPT !.pc = "presence"]
              ELSE [q EXCEPT !.pc = "insert", !.res = "NOT_PAID"]
  BY <1>1 DEF Request, PCs, Result
<1>4. IsPaidEligible(q) => Still(MayEnter(q.h), q.h, q.at)'
  <2>1. IsPaidEligible(q) => Still(MayEnter(q.h), q.h, q.at)
    BY <1>1 DEF IsPaidEligible, RequestOK, Still, MayEnter
  <2> QED BY <1>2, <2>1 DEF Still, MayEnter, QrGood, SeatGood, PaidGood, rights
<1>5. \A k, t, at : Opened(k, t, at) <=> Opened(k, t, at)'
  BY <1>2 DEF Opened, rows
<1>6. /\ r.h = q.h /\ r.k = q.k /\ r.at = q.at /\ r.prof = q.prof /\ r.mem = q.mem
      /\ r.via = q.via
      /\ \/ r.pc = "presence" /\ IsPaidEligible(q)
         \/ r.pc = "insert" /\ r.res = "NOT_PAID"
  BY <1>3 DEF Request
<1>7. RequestOK(r)'
  BY <1>1, <1>2, <1>4, <1>5, <1>6 DEF RequestOK, Checking
<1>8. req' = [req EXCEPT ![c] = r]
  BY <1>1, <1>3 DEF CheckEligible
<1> QED BY <1>2, <1>7, <1>8, QuietStep

LEMMA CheckPresenceStep ==
    ASSUME AttendanceInv, NEW c \in Reqs, CheckPresence(c) PROVE AttendanceInv'
<1>1. PICK q \in Request : q = req[c] /\ RequestOK(q) /\ q.pc = "presence"
  BY DEF AttendanceInv, TypeOK, CheckPresence
<1>2. /\ UNCHANGED <<rights, checkpoint, rows, clock, caps>>
      /\ clock \in Nat /\ clock <= clock'
      /\ caps' \subseteq Capability /\ \A cap \in caps' : Opened(cap.k, cap.team, clock + 1)
  BY DEF CheckPresence, TypeOK, AttendanceInv
<1>3. PICK r \in Request :
        r = [q EXCEPT !.pc = "insert",
               !.res = IF IsPresent(q.k, q.prof, q.mem) /\ ~ q.repeat
                         THEN "DUPLICATE" ELSE "SUCCESS"]
  BY <1>1 DEF Request, PCs, Result
<1>4. Still(MayEnter(q.h), q.h, q.at)'
  BY <1>1, <1>2
     DEF RequestOK, Still, MayEnter, QrGood, SeatGood, PaidGood, rights
<1>5. \A k, t, at : Opened(k, t, at) <=> Opened(k, t, at)'
  BY <1>2 DEF Opened, rows
<1>6. /\ r.h = q.h /\ r.k = q.k /\ r.at = q.at /\ r.prof = q.prof /\ r.mem = q.mem
      /\ r.via = q.via /\ r.pc = "insert"
  BY <1>3 DEF Request
<1>7. RequestOK(r)'
  BY <1>1, <1>2, <1>4, <1>5, <1>6 DEF RequestOK, Checking
<1>8. req' = [req EXCEPT ![c] = r]
  BY <1>1, <1>3 DEF CheckPresence
<1> QED BY <1>2, <1>7, <1>8, QuietStep

LEMMA IssueCapabilityStep ==
    ASSUME AttendanceInv, NEW c \in Reqs, IssueCapability(c) PROVE AttendanceInv'
<1>1. PICK q \in Request : q = req[c] /\ RequestOK(q) /\ q.pc = "issue"
  BY DEF AttendanceInv, TypeOK, IssueCapability
<1>2. /\ UNCHANGED <<rights, checkpoint, rows, clock>>
      /\ clock \in Nat /\ clock <= clock'
  BY DEF IssueCapability, TypeOK, AttendanceInv
<1>3. q.mem \in Members /\ Opened(q.k, TeamOf[q.mem], clock + 1) /\ q.k \in Checkpoints
  BY <1>1 DEF RequestOK, Request
<1>4. /\ caps' \subseteq Capability
      /\ \A cap \in caps' : Opened(cap.k, cap.team, clock + 1)
  <2>1. \A cap \in caps' : \/ cap \in caps
                           \/ cap = [team |-> TeamOf[q.mem], k |-> q.k]
    BY <1>1 DEF IssueCapability
  <2>2. TeamOf[q.mem] \in Teams
    BY <1>3, AttendanceAssumption
  <2> QED BY <1>3, <2>1, <2>2 DEF AttendanceInv, TypeOK, Capability
<1>5. PICK i \in Request : i = Idle /\ RequestOK(i)'
  BY IdleRequest DEF RequestOK
<1>6. req' = [req EXCEPT ![c] = i]
  BY <1>5 DEF IssueCapability
<1> QED BY <1>2, <1>4, <1>5, <1>6, QuietStep
LEMMA InsertScanStep ==
    ASSUME AttendanceInv, NEW c \in Reqs, InsertScan(c) PROVE AttendanceInv'
<1>1. PICK q \in Request : q = req[c] /\ RequestOK(q) /\ q.pc = "insert"
  BY DEF AttendanceInv, TypeOK, InsertScan
<1>2. /\ UNCHANGED <<rights, checkpoint, corrections, clock, caps>>
      /\ clock \in Nat /\ TypeOK
  BY DEF InsertScan, TypeOK, AttendanceInv
<1>3. PICK row \in Scan :
        row = [k |-> q.k, h |-> q.h, prof |-> q.prof, mem |-> q.mem,
               res |-> q.res, at |-> q.at, via |-> q.via]
  BY <1>1 DEF Scan, Request, RequestOK, Checking
<1>4. scans' = scans \cup {row}
  BY <1>1, <1>3 DEF InsertScan
<1>5. /\ row.k = q.k /\ row.h = q.h /\ row.prof = q.prof /\ row.mem = q.mem
      /\ row.res = q.res /\ row.at = q.at /\ row.via = q.via
  BY <1>3
<1>6. \A k, t, at : Opened(k, t, at) => Opened(k, t, at)'
  BY <1>4 DEF Opened
<1>7. PICK r \in Request :
        /\ req' = [req EXCEPT ![c] = r]
        /\ \/ r = Idle
           \/ /\ r = [q EXCEPT !.pc = "issue"]
              /\ q.via = "scanner" /\ q.mem # NoMember
              /\ q.res \in {"SUCCESS", "DUPLICATE"}
  <2>1. [q EXCEPT !.pc = "issue"] \in Request
    BY DEF Request, PCs
  <2> QED BY <1>1, <2>1, IdleRequest DEF InsertScan
<1>8. RequestOK(r)'
  <2>1. CASE r = Idle
    BY <2>1 DEF Idle, RequestOK, Checking
  <2>2. CASE r # Idle
    <3>1. /\ r.pc = "issue" /\ r.k = q.k /\ r.mem = q.mem /\ r.at = q.at
          /\ q.via = "scanner" /\ q.mem # NoMember
          /\ q.res \in {"SUCCESS", "DUPLICATE"}
      BY <1>7, <2>2 DEF Request
    <3>2. q.at \in 1 .. clock /\ clock' = clock
      BY <1>1, <1>2 DEF RequestOK
    <3>3. row \in scans' /\ row.at < clock' + 1
      BY <1>2, <1>4, <1>5, <3>2
    <3>4. Opened(q.k, TeamOf[q.mem], clock + 1)'
      BY <1>5, <3>1, <3>3 DEF Opened
    <3> QED BY <3>1, <3>2, <3>4 DEF RequestOK, Checking
  <2> QED BY <2>1, <2>2
<1>9. ASSUME NEW d \in Reqs PROVE RequestOK(req[d])'
  <2>1. CASE d = c
    <3>1. req'[d] = r
      BY <1>2, <1>7, <2>1 DEF TypeOK
    <3> QED BY <1>8, <3>1 DEF RequestOK
  <2>2. CASE d # c
    <3>1. PICK x \in Request : x = req[d] /\ RequestOK(x)
      BY <1>2 DEF AttendanceInv, TypeOK
    <3>2. req'[d] = x
      BY <1>2, <1>7, <2>2, <3>1 DEF TypeOK
    <3>3. scans \subseteq scans' /\ clock' \in Nat /\ clock <= clock'
      BY <1>2, <1>4
    <3>4. RequestOK(x)'
      BY <1>2, <3>1, <3>3, RightsRest
    <3> QED BY <3>2, <3>4 DEF RequestOK
  <2> QED BY <2>1, <2>2
<1>10. TypeOK'
  <2>1. \A s \in scans' \cup corrections' : /\ s.prof # NoProfile \/ s.mem # NoMember
                                           /\ s.at \in 1 .. clock'
    BY <1>1, <1>2, <1>4, <1>5 DEF TypeOK, RequestOK, Checking
  <2>2. req' \in [Reqs -> Request] /\ scans' \subseteq Scan
    BY <1>2, <1>3, <1>4, <1>7 DEF TypeOK
  <2> QED BY <1>2, <2>1, <2>2 DEF TypeOK, rights
<1>11. RosterWasOpened'
  <2>1. \A s \in scans \cup corrections : s.via = "roster" =>
          s.mem # NoMember /\ Opened(s.k, TeamOf[s.mem], s.at)
    BY DEF AttendanceInv, RosterWasOpened
  <2>2. row.via = "roster" => row.mem # NoMember /\ Opened(row.k, TeamOf[row.mem], row.at)
    BY <1>1, <1>5 DEF RequestOK, Checking
  <2>3. \A s \in scans' \cup corrections' : s.via = "roster" =>
          s.mem # NoMember /\ Opened(s.k, TeamOf[s.mem], s.at)
    BY <1>2, <1>4, <2>1, <2>2
  <2> QED BY <1>6, <2>3 DEF RosterWasOpened
<1>12. \A s \in scans' : s.res = "SUCCESS" => Still(MayEnter(s.h), s.h, s.at)'
  <2>1. \A s \in scans' : s.res = "SUCCESS" => Still(MayEnter(s.h), s.h, s.at)
    BY <1>1, <1>4, <1>5 DEF RequestOK, AttendanceInv
  <2> QED BY <1>2, <2>1
          DEF Still, MayEnter, QrGood, SeatGood, PaidGood, rights
<1>13. /\ \A h \in Holders : lost'[h] <= clock'
       /\ \A cap \in caps' : Opened(cap.k, cap.team, clock + 1)'
  <2>1. \A cap \in caps' : Opened(cap.k, cap.team, clock + 1)
    BY <1>2 DEF AttendanceInv
  <2> QED BY <1>2, <1>6, <2>1 DEF AttendanceInv, rights, Opened
<1> QED BY <1>9, <1>10, <1>11, <1>12, <1>13 DEF AttendanceInv
LEMMA BeginAbsenceStep ==
    ASSUME AttendanceInv, NEW c \in Reqs, NEW k \in Checkpoints,
           NEW p \in Profiles \cup {NoProfile}, NEW m \in Members \cup {NoMember},
           NEW via \in Via, p # NoProfile \/ m # NoMember,
           via = "roster" => m # NoMember /\ Opened(k, TeamOf[m], clock + 1),
           BeginAbsence(c, k, p, m, via)
    PROVE  AttendanceInv'
<1>1. clock' = clock + 1 /\ clock \in Nat
  BY DEF AttendanceInv, BeginAbsence, Tick, TypeOK
<1>2. PICK q \in Request :
        q = [Idle EXCEPT !.pc = "absent", !.k = k, !.prof = p, !.mem = m,
                         !.at = clock + 1, !.via = via]
  <2>1. Idle \in Request /\ "absent" \in PCs /\ clock + 1 \in Nat
    BY <1>1, IdleRequest DEF PCs
  <2>2. /\ p \in Profiles \cup {NoProfile} /\ m \in Members \cup {NoMember}
        /\ k \in Checkpoints /\ via \in Via
    OBVIOUS
  <2>3. [Idle EXCEPT !.pc = "absent", !.k = k, !.prof = p, !.mem = m,
                     !.at = clock + 1, !.via = via] \in Request
    BY <2>1, <2>2 DEF Request
  <2> QED BY <2>3
<1>3. /\ q.pc = "absent" /\ q.k = k /\ q.prof = p /\ q.mem = m
      /\ q.at = clock + 1 /\ q.via = via
  BY <1>2, IdleRequest DEF Request
<1>4. /\ UNCHANGED <<rights, checkpoint, rows, caps>>
      /\ clock' \in Nat /\ clock <= clock'
      /\ caps' \subseteq Capability /\ \A cap \in caps' : Opened(cap.k, cap.team, clock + 1)
      /\ req' = [req EXCEPT ![c] = q]
  BY <1>1, <1>2 DEF BeginAbsence, AttendanceInv, TypeOK
<1>5. RequestOK(q)'
  <2>1. q.via = "roster" => Opened(q.k, TeamOf[q.mem], q.at)
    BY <1>3
  <2>2. q.via = "roster" => Opened(q.k, TeamOf[q.mem], q.at)'
    BY <1>4, <2>1 DEF Opened, rows
  <2>3. q.at \in 1 .. clock'
    BY <1>1, <1>3
  <2> QED BY <1>3, <2>2, <2>3 DEF RequestOK, Checking
<1> QED BY <1>4, <1>5, QuietStep

LEMMA RecordAbsenceStep ==
    ASSUME AttendanceInv, NEW c \in Reqs, RecordAbsence(c) PROVE AttendanceInv'
<1>1. PICK q \in Request : q = req[c] /\ RequestOK(q) /\ q.pc = "absent"
  BY DEF AttendanceInv, TypeOK, RecordAbsence
<1>2. /\ UNCHANGED <<rights, checkpoint, scans, clock, caps>>
      /\ clock \in Nat /\ clock <= clock' /\ scans \subseteq scans' /\ TypeOK
      /\ req' = [req EXCEPT ![c] = Idle]
  BY DEF RecordAbsence, TypeOK, AttendanceInv
<1>3. PICK row \in Correction :
        row = [k |-> q.k, prof |-> q.prof, mem |-> q.mem, at |-> q.at, via |-> q.via]
  BY <1>1 DEF Correction, Request
<1>4. corrections' = corrections \cup {row}
  BY <1>1, <1>3 DEF RecordAbsence
<1>5. /\ row.k = q.k /\ row.prof = q.prof /\ row.mem = q.mem
      /\ row.at = q.at /\ row.via = q.via
  BY <1>3
<1>6. \A k, t, at : Opened(k, t, at) <=> Opened(k, t, at)'
  BY <1>2 DEF Opened
<1>7. ASSUME NEW d \in Reqs PROVE RequestOK(req[d])'
  <2>1. CASE d = c
    <3>1. req'[d] = Idle
      BY <1>2, <2>1 DEF TypeOK
    <3> QED BY <3>1 DEF RequestOK, Idle, Checking
  <2>2. CASE d # c
    <3>1. PICK x \in Request : x = req[d] /\ RequestOK(x)
      BY <1>2 DEF AttendanceInv, TypeOK
    <3>2. req'[d] = x
      BY <1>2, <2>2, <3>1 DEF TypeOK
    <3>3. RequestOK(x)'
      BY <1>2, <3>1, RightsRest
    <3> QED BY <3>2, <3>3 DEF RequestOK
  <2> QED BY <2>1, <2>2
<1>8. TypeOK'
  <2>1. \A s \in scans' \cup corrections' : /\ s.prof # NoProfile \/ s.mem # NoMember
                                           /\ s.at \in 1 .. clock'
    BY <1>1, <1>2, <1>4, <1>5 DEF TypeOK, RequestOK, Checking
  <2>2. req' \in [Reqs -> Request] /\ corrections' \subseteq Correction
    BY <1>2, <1>3, <1>4, IdleRequest DEF TypeOK
  <2> QED BY <1>2, <2>1, <2>2 DEF TypeOK, rights
<1>9. RosterWasOpened'
  <2>1. \A s \in scans \cup corrections : s.via = "roster" =>
          s.mem # NoMember /\ Opened(s.k, TeamOf[s.mem], s.at)
    BY DEF AttendanceInv, RosterWasOpened
  <2>2. row.via = "roster" => row.mem # NoMember /\ Opened(row.k, TeamOf[row.mem], row.at)
    BY <1>1, <1>5 DEF RequestOK, Checking
  <2>3. \A s \in scans' \cup corrections' : s.via = "roster" =>
          s.mem # NoMember /\ Opened(s.k, TeamOf[s.mem], s.at)
    BY <1>2, <1>4, <2>1, <2>2
  <2> QED BY <1>6, <2>3 DEF RosterWasOpened
<1>10. \A s \in scans' : s.res = "SUCCESS" => Still(MayEnter(s.h), s.h, s.at)'
  BY <1>2
     DEF AttendanceInv, Still, MayEnter, QrGood, SeatGood, PaidGood, rights
<1>11. /\ \A h \in Holders : lost'[h] <= clock'
       /\ \A cap \in caps' : Opened(cap.k, cap.team, clock + 1)'
  BY <1>2 DEF AttendanceInv, rights, Opened
<1> QED BY <1>7, <1>8, <1>9, <1>10, <1>11 DEF AttendanceInv

\* A step that leaves requests, rights and rows alone.
LEMMA OutsideStep ==
    ASSUME AttendanceInv, UNCHANGED <<rights, rows, clock, req>>, caps' \subseteq caps,
           checkpoint' \in [Checkpoints -> [open : BOOLEAN, repeat : BOOLEAN]]
    PROVE  AttendanceInv'
<1>1. TypeOK'
  BY DEF AttendanceInv, TypeOK, rights, rows
<1>2. \A k, t, at : Opened(k, t, at) <=> Opened(k, t, at)'
  BY DEF Opened, rows
<1>3. \A h, at : Still(MayEnter(h), h, at) <=> Still(MayEnter(h), h, at)'
  BY DEF Still, MayEnter, QrGood, SeatGood, PaidGood, rights
<1>4. ASSUME NEW d \in Reqs PROVE RequestOK(req[d])'
  <2>1. PICK x \in Request : x = req[d] /\ RequestOK(x)
    BY DEF AttendanceInv, TypeOK
  <2>2. RequestOK(x)'
    BY <2>1, RightsRest DEF AttendanceInv, TypeOK, rows
  <2> QED BY <2>1, <2>2 DEF RequestOK
<1>5. RosterWasOpened'
  BY <1>2 DEF AttendanceInv, RosterWasOpened, rows
<1>6. \A cap \in caps' : Opened(cap.k, cap.team, clock + 1)'
  BY DEF AttendanceInv, Opened, rows
<1>7. \A s \in scans' : s.res = "SUCCESS" => Still(MayEnter(s.h), s.h, s.at)'
  BY <1>3 DEF AttendanceInv, rows
<1>8. \A h \in Holders : lost'[h] <= clock'
  BY DEF AttendanceInv, rights
<1> QED BY <1>1, <1>4, <1>5, <1>6, <1>7, <1>8 DEF AttendanceInv

\* The rights after a step that changes them.
LEMMA RightsTyped ==
    ASSUME TypeOK, Rights PROVE RightsTypes' /\ NoteLosses /\ Elsewhere
<1> DEFINE QrType == qr' \in [Holders -> {"none", "active", "inactive"}]
<1>1. \A hs, st : st \in {"active", "inactive"} /\ SetQr(hs, st) => QrType
  BY DEF SetQr, TypeOK
<1> HIDE DEF QrType
<1>2. ASSUME NEW x \in Parties, Confirm(x)
      PROVE  RightsTypes' /\ NoteLosses /\ Elsewhere
  <2>1. QrType
    BY <1>1, <1>2 DEF Confirm
  <2>2. member' \in [Members -> MemberStatus] /\ party' \in [Parties -> PartyStatus]
    BY <1>2 DEF Confirm, ActiveLeaders, TypeOK, MemberStatus, PartyStatus
  <2> QED BY <1>2, <2>1, <2>2 DEF Confirm, RightsTypes, TypeOK, QrType
<1>3. ASSUME NEW x \in Parties, Fulfil(x)
      PROVE  RightsTypes' /\ NoteLosses /\ Elsewhere
  <2>1. QrType
    BY <1>1, <1>3 DEF Fulfil
  <2> QED BY <1>3, <2>1 DEF Fulfil, RightsTypes, TypeOK, QrType
<1>4. ASSUME NEW x \in Parties, Revoke(x)
      PROVE  RightsTypes' /\ NoteLosses /\ Elsewhere
  <2>1. QrType
    BY <1>1, <1>4 DEF Revoke
  <2>2. party' \in [Parties -> PartyStatus]
    BY <1>4 DEF Revoke, TypeOK, PartyStatus
  <2> QED BY <1>4, <2>1, <2>2 DEF Revoke, RightsTypes, TypeOK, QrType
<1>5. ASSUME NEW x \in Parties, Cancel(x)
      PROVE  RightsTypes' /\ NoteLosses /\ Elsewhere
  <2>1. QrType
    BY <1>1, <1>5 DEF Cancel
  <2>2. party' \in [Parties -> PartyStatus]
    BY <1>5 DEF Cancel, TypeOK, PartyStatus
  <2> QED BY <1>5, <2>1, <2>2 DEF Cancel, RightsTypes, TypeOK, QrType
<1>6. ASSUME NEW x \in Parties, NEW st \in PartyStatus, Patch(x, st)
      PROVE  RightsTypes' /\ NoteLosses /\ Elsewhere
  BY <1>6 DEF Patch, RightsTypes, TypeOK
<1>7. ASSUME NEW m \in Members, Leave(m)
      PROVE  RightsTypes' /\ NoteLosses /\ Elsewhere
  <2>1. member' \in [Members -> MemberStatus]
    BY <1>7 DEF Leave, TypeOK, MemberStatus
  <2> QED BY <1>7, <2>1 DEF Leave, RightsTypes, TypeOK
<1>8. ASSUME NEW m \in Members, NEW p \in Profiles, Link(m, p)
      PROVE  RightsTypes' /\ NoteLosses /\ Elsewhere
  <2>1. QrType
    BY <1>1, <1>8 DEF Link, TypeOK, QrType
  <2>2. profileOf' \in [Members -> Profiles \cup {NoProfile}]
    BY <1>8 DEF Link, TypeOK
  <2> QED BY <1>8, <2>1, <2>2 DEF Link, RightsTypes, TypeOK, QrType
<1> QED BY <1>2, <1>3, <1>4, <1>5, <1>6, <1>7, <1>8 DEF Rights

LEMMA CheckInStep ==
    ASSUME AttendanceInv, NEW c \in Reqs, CheckIn(c) PROVE AttendanceInv'
<1>1. ASSUME NEW h \in Holders, NEW k \in Checkpoints, NEW via \in Via,
             ScanQr(c, h, k, via)
      PROVE  AttendanceInv'
  BY <1>1, BeginScanStep DEF ScanQr
<1>2. ASSUME NEW m \in Members, NEW cap \in caps, RosterCheckIn(c, m, cap)
      PROVE  AttendanceInv'
  <2>1. /\ m \in Holders /\ cap.k \in Checkpoints /\ "roster" \in Via
        /\ Opened(cap.k, TeamOf[m], clock + 1)
        /\ BeginScan(c, m, cap.k, "roster", TRUE)
    BY <1>2 DEF RosterCheckIn, MatchesScope, AttendanceInv, TypeOK, Capability,
                Holders, Via
  <2> QED BY <2>1, BeginScanStep
<1>3. ASSUME NEW p \in Profiles, NEW k \in Checkpoints, ManualMark(c, p, k)
      PROVE  AttendanceInv'
  <2>1. PICK h \in Holders : BeginScan(c, h, k, "desk", FALSE)
    BY <1>3 DEF ManualMark, ProfileQrs, Holders
  <2>2. "desk" \in Via /\ "desk" # "roster"
    BY DEF Via
  <2> QED BY <2>1, <2>2, BeginScanStep
<1>4. ASSUME NEW m \in Members, NEW k \in Checkpoints, AdminPresent(c, m, k)
      PROVE  AttendanceInv'
  <2>1. m \in Holders /\ BeginScan(c, m, k, "desk", TRUE)
    BY <1>4 DEF AdminPresent, Holders
  <2>2. "desk" \in Via /\ "desk" # "roster"
    BY DEF Via
  <2> QED BY <2>1, <2>2, BeginScanStep
<1> QED BY <1>1, <1>2, <1>3, <1>4, CheckEligibleStep, CheckPresenceStep,
           InsertScanStep, IssueCapabilityStep
        DEF CheckIn

LEMMA AbsentStep ==
    ASSUME AttendanceInv, NEW c \in Reqs, Absent(c) PROVE AttendanceInv'
<1>1. ASSUME NEW k \in Checkpoints, NEW p \in Profiles \cup {NoProfile},
             NEW m \in Members \cup {NoMember}, AdminAbsent(c, k, p, m)
      PROVE  AttendanceInv'
  <2>1. /\ "desk" \in Via /\ "desk" # "roster" /\ (p # NoProfile \/ m # NoMember)
        /\ BeginAbsence(c, k, p, m, "desk")
    BY <1>1 DEF AdminAbsent, Via
  <2> QED BY <2>1, BeginAbsenceStep
<1>2. ASSUME NEW m \in Members, NEW cap \in caps, RosterAbsent(c, m, cap)
      PROVE  AttendanceInv'
  <2>1. /\ cap.k \in Checkpoints /\ "roster" \in Via
        /\ profileOf[m] \in Profiles \cup {NoProfile}
        /\ m # NoMember /\ Opened(cap.k, TeamOf[m], clock + 1)
        /\ BeginAbsence(c, cap.k, profileOf[m], m, "roster")
    BY <1>2, AttendanceAssumption
       DEF RosterAbsent, MatchesScope, AttendanceInv, TypeOK, Capability, Via
  <2> QED BY <2>1, BeginAbsenceStep
<1> QED BY <1>1, <1>2, RecordAbsenceStep DEF Absent

\* The invariant is inductive: it holds at first and every step keeps it.
THEOREM AttendanceInvariant == Spec => []AttendanceInv
<1>1. AttendanceInv /\ [Next]_vars => AttendanceInv'
  <2> SUFFICES ASSUME AttendanceInv, [Next]_vars PROVE AttendanceInv'
    OBVIOUS
  <2>1. TypeOK
    BY DEF AttendanceInv
  <2>2. CASE UNCHANGED vars
    BY <2>1, <2>2, OutsideStep DEF vars, TypeOK
  <2>3. CASE Rights
    BY <2>1, <2>3, RightsTyped, RightsStep
  <2>4. ASSUME NEW cap \in caps, ExpireCapability(cap) PROVE AttendanceInv'
    BY <2>1, <2>4, OutsideStep DEF ExpireCapability, TypeOK
  <2>5. ASSUME NEW k \in Checkpoints, NEW open \in BOOLEAN, NEW repeat \in BOOLEAN,
               Configure(k, open, repeat)
        PROVE  AttendanceInv'
    BY <2>1, <2>5, OutsideStep DEF Configure, TypeOK
  <2> QED BY <2>2, <2>3, <2>4, <2>5, CheckInStep, AbsentStep DEF Next
<1> QED BY <1>1, InitInv, PTL DEF Spec

\* Types, identities and dates of the rows.
THEOREM AttendanceTypes == Spec => []TypeOK
BY AttendanceInvariant, PTL DEF AttendanceInv

\* Nobody is checked in by a request begun after the right to enter was lost.
THEOREM NoEntry == Spec => []NoEntryAfterLoss
<1>1. AttendanceInv => NoEntryAfterLoss
  BY DEF AttendanceInv, NoEntryAfterLoss, Still, TypeOK, Scan
<1> QED BY <1>1, AttendanceInvariant, PTL

\* The team roster of the public scanner acts for scanned teams only.
THEOREM RosterOpened == Spec => []RosterWasOpened
BY AttendanceInvariant, PTL DEF AttendanceInv

-----------------------------------------------------------------------------
(* The two presence queries agree.                                         *)

\* The order of the numbers is well-founded.
LEMMA LessThan == IsWellFoundedOn({p \in Nat \X Nat : p[1] < p[2]}, Nat)
<1>1. OpToRel(<, Nat) = {p \in Nat \X Nat : p[1] < p[2]}
  BY DEF OpToRel
<1> QED BY <1>1, NatLessThanWellFounded

\* A set of numbers has a least one.
LEMMA Least ==
    ASSUME NEW T, \A x \in T : x \in Nat, T # {}
    PROVE  \E x \in T : \A y \in T : x <= y
<1> DEFINE R == {p \in Nat \X Nat : p[1] < p[2]}
<1>1. ASSUME NEW x \in Nat, NEW y \in Nat, y < x PROVE <<y, x>> \in R
  BY <1>1
<1>2. IsWellFoundedOn(R, Nat)
  BY LessThan
<1> HIDE DEF R
<1>3. PICK x \in T : \A y \in T : ~ (<<y, x>> \in R)
  <2>1. T \subseteq Nat
    OBVIOUS
  <2> QED BY <1>2, <2>1, WFMin
<1>4. ASSUME NEW y \in T PROVE x <= y
  <2>1. x \in Nat /\ y \in Nat
    OBVIOUS
  <2>2. ~ (y < x)
    BY <1>1, <1>3, <2>1
  <2> QED BY <2>1, <2>2
<1> QED BY <1>4

\* Latest is the greatest member of a bounded set.
LEMMA LatestIsGreatest ==
    ASSUME NEW n \in Nat, NEW S, \A u \in S : u \in 1 .. n, S # {}
    PROVE  Latest(S) \in S /\ \A u \in S : u <= Latest(S)
<1> DEFINE D == {n - u : u \in S}
<1>1. D # {}
  OBVIOUS
<1>2. ASSUME NEW x \in D PROVE x \in Nat
  <2>1. PICK u \in S : x = n - u
    OBVIOUS
  <2> QED BY <2>1
<1>3. ASSUME NEW u \in S PROVE n - u \in D
  OBVIOUS
<1>4. PICK x \in D : \A y \in D : x <= y
  <2> HIDE DEF D
  <2> QED BY <1>1, <1>2, Least
<1>5. PICK t \in S : x = n - t
  BY <1>4
<1> HIDE DEF D
<1>6. ASSUME NEW u \in S PROVE u <= t
  <2>1. n - t <= n - u
    BY <1>3, <1>4, <1>5
  <2>2. u \in 1 .. n /\ t \in 1 .. n
    OBVIOUS
  <2> QED BY <2>1, <2>2
<1>7. \E s \in S : \A u \in S : u <= s
  BY <1>6
<1> QED BY <1>7, Zenon DEF Latest

\* The newest of two sets of stamps, as present_member_ids computes it.
LEMMA LatestOfUnion ==
    ASSUME NEW n \in Nat, NEW S, \A u \in S : u \in 1 .. n,
           NEW T, \A u \in T : u \in 1 .. n
    PROVE  Latest(S \cup T) = IF Latest(T) > Latest(S) THEN Latest(T) ELSE Latest(S)
<1> DEFINE a == Latest(S)
           b == Latest(T)
           c == Latest(S \cup T)
<1>1. S = {} => a = 0 /\ c = b
  <2> SUFFICES ASSUME S = {} PROVE a = 0 /\ c = b
    OBVIOUS
  <2>1. S \cup T = T
    OBVIOUS
  <2> QED BY <2>1 DEF Latest
<1>2. T = {} => b = 0 /\ c = a
  <2> SUFFICES ASSUME T = {} PROVE b = 0 /\ c = a
    OBVIOUS
  <2>1. S \cup T = S
    OBVIOUS
  <2> QED BY <2>1 DEF Latest
<1>3. S # {} => a \in S /\ \A u \in S : u <= a
  BY LatestIsGreatest
<1>4. T # {} => b \in T /\ \A u \in T : u <= b
  BY LatestIsGreatest
<1>5. S # {} \/ T # {} => c \in S \cup T /\ \A u \in S \cup T : u <= c
  <2>1. \A u \in S \cup T : u \in 1 .. n
    OBVIOUS
  <2> QED BY <2>1, LatestIsGreatest
<1> HIDE DEF a, b, c
<1>6. a \in Nat /\ b \in Nat
  <2>1. a \in Nat
    BY <1>1, <1>3
  <2>2. b \in Nat
    BY <1>2, <1>4
  <2> QED BY <2>1, <2>2
<1>7. CASE S = {}
  <2>1. c = IF b > a THEN b ELSE a
    BY <1>1, <1>2, <1>4, <1>6, <1>7
  <2> QED BY <2>1 DEF a, b, c
<1>8. CASE T = {}
  <2>1. c = IF b > a THEN b ELSE a
    BY <1>2, <1>3, <1>6, <1>8
  <2> QED BY <2>1 DEF a, b, c
<1>9. CASE S # {} /\ T # {}
  <2>1. a \in S /\ b \in T /\ a <= c /\ b <= c
    BY <1>3, <1>4, <1>5, <1>9
  <2>2. c \in S \/ c \in T
    BY <1>5, <1>9
  <2>3. c \in Nat /\ (c <= a \/ c <= b)
    BY <1>3, <1>4, <1>9, <2>2
  <2>4. c = IF b > a THEN b ELSE a
    BY <1>6, <2>1, <2>3
  <2> QED BY <2>4 DEF a, b, c
<1> QED BY <1>7, <1>8, <1>9 DEF a, b, c

\* Merging the newest stamps by member and by profile gives the newest stamp
\* of the rows that name either.
LEMMA NewestIsLatest ==
    ASSUME NEW n \in Nat, NEW R, \A row \in R : row.at \in 1 .. n,
           NEW ms, ms \subseteq Members, NEW m \in ms
    PROVE  Newest(BatchRows(R, ms), m)
             = Latest(Stamps({row \in R : Matches(row, profileOf[m], m)}))
<1> DEFINE p == profileOf[m]
           A == {row \in R : row.mem = m}
           B == {row \in R : p # NoProfile /\ row.prof = p}
<1>1. m # NoMember
  BY AttendanceAssumption
<1>2. {row \in BatchRows(R, ms) : row.mem = m} = A
  BY DEF BatchRows
<1>3. {row \in BatchRows(R, ms) : p # NoProfile /\ row.prof = p} = B
  BY DEF BatchRows
<1>4. Stamps({row \in R : Matches(row, p, m)}) = Stamps(A) \cup Stamps(B)
  BY <1>1 DEF Matches, Stamps
<1>5. (\A t \in Stamps(A) : t \in 1 .. n) /\ (\A t \in Stamps(B) : t \in 1 .. n)
  BY DEF Stamps
<1>6. Newest(BatchRows(R, ms), m)
        = IF Latest(Stamps(B)) > Latest(Stamps(A))
            THEN Latest(Stamps(B)) ELSE Latest(Stamps(A))
  BY <1>2, <1>3 DEF Newest, ByMember, ByProfile
<1> QED BY <1>4, <1>5, <1>6, LatestOfUnion

\* The roster view and the single check agree in every state of every instance.
THEOREM PresenceAgrees == Spec => []BatchAgrees
<1>1. TypeOK => BatchAgrees
  <2> SUFFICES ASSUME TypeOK, NEW k \in Checkpoints, NEW t \in Teams
               PROVE  LET ms == {m \in Members : TeamOf[m] = t}
                      IN  PresentMembers(k, ms)
                            = {m \in ms : IsPresent(k, profileOf[m], m)}
    BY DEF BatchAgrees
  <2> DEFINE ms == {m \in Members : TeamOf[m] = t}
  <2>1. ms \subseteq Members
    OBVIOUS
  <2>2. /\ clock \in Nat
        /\ \A row \in Successes(k) : row.at \in 1 .. clock
        /\ \A row \in Absences(k) : row.at \in 1 .. clock
    BY DEF TypeOK, Successes, Absences
  <2> HIDE DEF ms
  <2>3. ASSUME NEW m \in ms
        PROVE  /\ Newest(BatchRows(Successes(k), ms), m) = LatestSuccess(k, profileOf[m], m)
               /\ Newest(BatchRows(Absences(k), ms), m) = LatestAbsence(k, profileOf[m], m)
    BY <2>1, <2>2, NewestIsLatest DEF LatestSuccess, LatestAbsence
  <2>4. PresentMembers(k, ms) = {m \in ms : IsPresent(k, profileOf[m], m)}
    BY <2>3 DEF PresentMembers, IsPresent
  <2> QED BY <2>4 DEF ms
<1> QED BY <1>1, AttendanceTypes, PTL

-----------------------------------------------------------------------------
(* One request at a time: the presence check and the insert are not          *)
(* interrupted, and no two rows are dated alike.                             *)

Pending == {"eligible", "presence", "insert", "absent"}

\* What the request knows, if it is the only one.
Undisturbed(q) ==
    /\ q.pc \in Pending => /\ q.at = clock
                           /\ \A row \in scans \cup corrections : row.at < q.at
    /\ q.pc \in Checking => q.repeat = checkpoint[q.k].repeat
    /\ q.pc = "insert" /\ q.res = "SUCCESS" /\ ~ q.repeat => ~ IsPresent(q.k, q.prof, q.mem)

EntryInv ==
    /\ TypeOK
    /\ \A c \in Reqs : Undisturbed(req[c])
    /\ \A s \in scans, a \in corrections : s.at # a.at
    /\ OneEntryAtATime

\* Whoever was checked in and is not present was marked absent afterwards.
LEMMA MarkedAbsent ==
    ASSUME TypeOK, NEW s \in scans, s.res = "SUCCESS",
           NEW p, NEW m, Matches(s, p, m), ~ IsPresent(s.k, p, m)
    PROVE  \E a \in corrections : a.k = s.k /\ Matches(a, p, m) /\ s.at <= a.at
<1> DEFINE ins == {x \in Successes(s.k) : Matches(x, p, m)}
           outs == {a \in Absences(s.k) : Matches(a, p, m)}
<1>1. clock \in Nat /\ \A row \in scans \cup corrections : row.at \in 1 .. clock
  BY DEF TypeOK
<1>2. s \in ins /\ s.at \in Stamps(ins)
  BY DEF Successes, Stamps
<1>3. \A u \in Stamps(ins) : u \in 1 .. clock
  BY <1>1 DEF Stamps, Successes
<1>4. Latest(Stamps(ins)) \in Stamps(ins) /\ s.at <= Latest(Stamps(ins))
  BY <1>1, <1>2, <1>3, LatestIsGreatest
<1>5. \A u \in Stamps(outs) : u \in 1 .. clock
  BY <1>1 DEF Stamps, Absences
<1>6. CASE Stamps(outs) = {}
  <2>1. Latest(Stamps(outs)) = 0
    BY <1>6 DEF Latest
  <2>2. Latest(Stamps(ins)) \in 1 .. clock
    BY <1>3, <1>4
  <2>3. IsPresent(s.k, p, m)
    BY <1>1, <2>1, <2>2 DEF IsPresent, EffectivelyPresent, LatestSuccess, LatestAbsence
  <2> QED BY <2>3
<1>7. CASE Stamps(outs) # {}
  <2>1. Latest(Stamps(outs)) \in Stamps(outs)
    BY <1>1, <1>5, <1>7, LatestIsGreatest
  <2>2. Latest(Stamps(outs)) \in 1 .. clock /\ Latest(Stamps(ins)) \in 1 .. clock
    BY <1>3, <1>4, <1>5, <2>1
  <2>3. Latest(Stamps(ins)) <= Latest(Stamps(outs))
    BY <1>1, <2>2 DEF IsPresent, EffectivelyPresent, LatestSuccess, LatestAbsence
  <2>4. PICK a \in outs : a.at = Latest(Stamps(outs))
    BY <2>1 DEF Stamps
  <2>5. a \in corrections /\ a.k = s.k /\ Matches(a, p, m)
    BY <2>4 DEF Absences
  <2>6. s.at <= a.at
    BY <1>1, <1>4, <2>2, <2>3, <2>4
  <2> QED BY <2>5, <2>6
<1> QED BY <1>6, <1>7

\* A new check-in that followed a check for presence keeps the property.
LEMMA EntryInserted ==
    ASSUME EntryInv, NEW c \in Reqs, InsertScan(c)
    PROVE  OneEntryAtATime' /\ \A s \in scans', a \in corrections' : s.at # a.at
<1> DEFINE q == req[c]
<1>1. PICK row : /\ row = [k |-> q.k, h |-> q.h, prof |-> q.prof, mem |-> q.mem,
                           res |-> q.res, at |-> q.at, via |-> q.via]
                 /\ scans' = scans \cup {row}
  BY DEF InsertScan
<1>2. /\ row.k = q.k /\ row.prof = q.prof /\ row.mem = q.mem /\ row.res = q.res
      /\ row.at = q.at
  BY <1>1
<1>3. /\ q.pc = "insert" /\ checkpoint' = checkpoint /\ corrections' = corrections
      /\ q.at = clock /\ clock \in Nat
      /\ \A x \in scans \cup corrections : x.at < row.at /\ x.at \in Nat
      /\ q.repeat = checkpoint[q.k].repeat
      /\ q.res = "SUCCESS" /\ ~ q.repeat => ~ IsPresent(q.k, q.prof, q.mem)
  BY <1>2 DEF InsertScan, EntryInv, Undisturbed, Pending, Checking, TypeOK
<1>4. \A s \in scans', a \in corrections' : s.at # a.at
  BY <1>1, <1>2, <1>3 DEF EntryInv
<1>5. ASSUME NEW s \in scans', NEW t \in scans',
             s.k = t.k, s.res = "SUCCESS", t.res = "SUCCESS", s.at < t.at,
             ~ checkpoint'[s.k].repeat, SamePerson(s, t)
      PROVE  \E a \in corrections' : a.k = s.k /\ s.at < a.at /\ a.at < t.at /\ SamePerson(a, t)
  <2>1. CASE s \in scans /\ t \in scans
    BY <1>3, <1>5, <2>1 DEF EntryInv, OneEntryAtATime
  <2>2. CASE s \in scans /\ t = row
    <3>1. Matches(s, q.prof, q.mem) /\ ~ IsPresent(s.k, q.prof, q.mem)
      BY <1>2, <1>3, <1>5, <2>2 DEF SamePerson, Matches
    <3>2. PICK a \in corrections : /\ a.k = s.k /\ Matches(a, q.prof, q.mem)
                                   /\ s.at <= a.at
      BY <1>5, <2>2, <3>1, MarkedAbsent DEF EntryInv
    <3>3. s.at # a.at /\ s.at \in Nat /\ a.at \in Nat /\ a.at < row.at
      BY <1>3, <2>2 DEF EntryInv
    <3>4. SamePerson(a, row)
      BY <1>2, <3>2 DEF SamePerson, Matches
    <3> QED BY <1>3, <2>2, <3>2, <3>3, <3>4
  <2>3. CASE s = row
    BY <1>1, <1>3, <1>5, <2>3
  <2> QED BY <1>1, <2>1, <2>2, <2>3
<1> QED BY <1>4, <1>5 DEF OneEntryAtATime

\* A step without a new row, after which the only request is idle, goes on, or
\* has just begun.
LEMMA EntryQuiet ==
    ASSUME EntryInv, TypeOK', UNCHANGED <<scans, corrections, checkpoint>>,
           \A c \in Reqs : Undisturbed(req[c])'
    PROVE  EntryInv'
<1>1. OneEntryAtATime'
  BY DEF EntryInv, OneEntryAtATime
<1> QED BY <1>1 DEF EntryInv

LEMMA EntryStep ==
    ASSUME AttendanceInv, EntryInv, TypeOK', [Next]_vars,
           \A c, d \in Reqs : c = d, "Configure" \notin Ops
    PROVE  EntryInv'
<1>1. /\ clock \in Nat /\ req \in [Reqs -> Request]
      /\ \A row \in scans \cup corrections : row.at \in 1 .. clock
  BY DEF EntryInv, TypeOK
<1>2. CASE UNCHANGED <<rows, checkpoint, clock, req>>
  <2>1. \A c \in Reqs : Undisturbed(req[c])'
    BY <1>2 DEF rows, EntryInv, Undisturbed, IsPresent, LatestSuccess, LatestAbsence, Successes,
                Absences
  <2> QED BY <1>2, <2>1, EntryQuiet DEF rows
<1>3. ASSUME NEW c \in Reqs, NEW h, NEW k, NEW via, NEW held, BeginScan(c, h, k, via, held)
      PROVE  EntryInv'
  <2>1. /\ clock' = clock + 1 /\ UNCHANGED <<scans, corrections, checkpoint>>
        /\ req'[c].pc \in {"insert", "eligible"} /\ req'[c].at = clock + 1 /\ req'[c].k = k
        /\ req'[c].repeat = checkpoint[k].repeat /\ req'[c].res = "INVALID"
    BY <1>1, <1>3 DEF BeginScan, Tick, rows
  <2>2. Undisturbed(req[c])'
    BY <1>1, <2>1 DEF Undisturbed, Pending, Checking
  <2> QED BY <2>1, <2>2, EntryQuiet
<1>4. ASSUME NEW c \in Reqs, NEW k, NEW p, NEW m, NEW via, BeginAbsence(c, k, p, m, via)
      PROVE  EntryInv'
  <2>1. /\ clock' = clock + 1 /\ UNCHANGED <<scans, corrections, checkpoint>>
        /\ req'[c].pc = "absent" /\ req'[c].at = clock + 1
    BY <1>1, <1>4 DEF BeginAbsence, Tick, rows, Idle
  <2>2. Undisturbed(req[c])'
    BY <1>1, <2>1 DEF Undisturbed, Pending, Checking
  <2> QED BY <2>1, <2>2, EntryQuiet
<1>5. ASSUME NEW c \in Reqs, CheckEligible(c) \/ CheckPresence(c)
      PROVE  EntryInv'
  <2>1. PICK q \in Request : q = req[c] /\ Undisturbed(q)
    BY <1>1 DEF EntryInv
  <2>2. /\ UNCHANGED <<scans, corrections, checkpoint, clock>>
        /\ q.pc \in {"eligible", "presence"}
    BY <1>5, <2>1 DEF CheckEligible, CheckPresence, rows
  <2>3. PICK pc \in {"presence", "insert"}, res \in Result :
          /\ req' = [req EXCEPT ![c] = [q EXCEPT !.pc = pc, !.res = res]]
          /\ pc = "insert" /\ res = "SUCCESS" /\ ~ q.repeat => ~ IsPresent(q.k, q.prof, q.mem)
    <3>1. CASE CheckEligible(c)
      <4>1. \/ req' = [req EXCEPT ![c] = [q EXCEPT !.pc = "presence"]]
            \/ req' = [req EXCEPT ![c] = [q EXCEPT !.pc = "insert", !.res = "NOT_PAID"]]
        BY <2>1, <3>1 DEF CheckEligible
      <4>2. [q EXCEPT !.pc = "presence"] = [q EXCEPT !.pc = "presence", !.res = q.res]
            /\ q.res \in Result /\ "NOT_PAID" \in Result
        BY DEF Request, Result
      <4>3. CASE req' = [req EXCEPT ![c] = [q EXCEPT !.pc = "presence"]]
        BY <4>2, <4>3
      <4>4. CASE req' = [req EXCEPT ![c] = [q EXCEPT !.pc = "insert", !.res = "NOT_PAID"]]
        BY <4>2, <4>4
      <4> QED BY <4>1, <4>3, <4>4
    <3>2. CASE CheckPresence(c)
      <4> DEFINE res == IF IsPresent(q.k, q.prof, q.mem) /\ ~ q.repeat
                          THEN "DUPLICATE" ELSE "SUCCESS"
      <4>1. req' = [req EXCEPT ![c] = [q EXCEPT !.pc = "insert", !.res = res]]
        BY <2>1, <3>2 DEF CheckPresence
      <4>2. res \in Result /\ (res = "SUCCESS" /\ ~ q.repeat => ~ IsPresent(q.k, q.prof, q.mem))
        BY DEF Result
      <4> HIDE DEF res
      <4> QED BY <4>1, <4>2
    <3> QED BY <1>5, <3>1, <3>2
  <2>4. PICK y \in Request : /\ y = [q EXCEPT !.pc = pc, !.res = res]
                             /\ y.pc = pc /\ y.res = res /\ y.at = q.at /\ y.k = q.k
                             /\ y.repeat = q.repeat /\ y.prof = q.prof /\ y.mem = q.mem
    <3>1. [q EXCEPT !.pc = pc, !.res = res] \in Request
      BY DEF Request, PCs
    <3> QED BY <3>1 DEF Request
  <2>5. req'[c] = y
    BY <1>1, <2>3, <2>4
  <2>6. \A k, p, m : IsPresent(k, p, m)' <=> IsPresent(k, p, m)
    BY <2>2 DEF IsPresent, LatestSuccess, LatestAbsence, Successes, Absences
  <2>7. Undisturbed(req[c])'
    BY <2>1, <2>2, <2>3, <2>4, <2>5, <2>6 DEF Undisturbed, Pending, Checking
  <2> QED BY <2>2, <2>7, EntryQuiet
<1>6. ASSUME NEW c \in Reqs, IssueCapability(c)
      PROVE  EntryInv'
  <2>1. UNCHANGED <<scans, corrections, checkpoint>> /\ req'[c] = Idle
    BY <1>1, <1>6 DEF IssueCapability, rows
  <2>2. Undisturbed(req[c])'
    BY <2>1 DEF Undisturbed, Pending, Checking, Idle
  <2> QED BY <2>1, <2>2, EntryQuiet
<1>7. ASSUME NEW c \in Reqs, InsertScan(c)
      PROVE  EntryInv'
  <2>1. req'[c] = Idle \/ req'[c].pc = "issue"
    <3>1. \/ req' = [req EXCEPT ![c] = Idle]
          \/ req' = [req EXCEPT ![c] = [req[c] EXCEPT !.pc = "issue"]]
      BY <1>7 DEF InsertScan
    <3>2. req[c] \in Request
      BY <1>1
    <3> QED BY <1>1, <3>1, <3>2 DEF Request
  <2>2. Undisturbed(req[c])'
    BY <2>1 DEF Undisturbed, Pending, Checking, Idle
  <2> QED BY <1>7, <2>2, EntryInserted DEF EntryInv
<1>8. ASSUME NEW c \in Reqs, RecordAbsence(c)
      PROVE  EntryInv'
  <2>1. PICK a : /\ a = [k |-> req[c].k, prof |-> req[c].prof, mem |-> req[c].mem,
                         at |-> req[c].at, via |-> req[c].via]
                 /\ corrections' = corrections \cup {a}
    BY <1>8 DEF RecordAbsence
  <2>2. a.at = req[c].at /\ scans' = scans /\ checkpoint' = checkpoint /\ req'[c] = Idle
    BY <1>1, <1>8, <2>1 DEF RecordAbsence
  <2>3. \A s \in scans : s.at < a.at
    BY <1>8, <2>2 DEF RecordAbsence, EntryInv, Undisturbed, Pending
  <2>4. \A s \in scans', b \in corrections' : s.at # b.at
    BY <1>1, <2>1, <2>2, <2>3 DEF EntryInv
  <2>5. OneEntryAtATime'
    BY <2>1, <2>2 DEF EntryInv, OneEntryAtATime
  <2>6. Undisturbed(req[c])'
    BY <2>2 DEF Undisturbed, Pending, Checking, Idle
  <2> QED BY <2>4, <2>5, <2>6 DEF EntryInv
<1>9. CASE Rights
  <2>1. UNCHANGED <<rows, checkpoint, clock, req>>
    BY <1>9 DEF Rights, Confirm, Fulfil, Revoke, Cancel, Patch, Leave, Link, Elsewhere
  <2> QED BY <1>2, <2>1
<1>10. CASE UNCHANGED vars \/ \E cap \in caps : ExpireCapability(cap)
  BY <1>2, <1>10 DEF vars, ExpireCapability
<1>11. ASSUME NEW c \in Reqs, CheckIn(c)
       PROVE  EntryInv'
  BY <1>3, <1>5, <1>6, <1>7, <1>11 DEF CheckIn, ScanQr, RosterCheckIn, ManualMark, AdminPresent
<1>12. ASSUME NEW c \in Reqs, Absent(c)
       PROVE  EntryInv'
  BY <1>4, <1>8, <1>12 DEF Absent, AdminAbsent, RosterAbsent
<1>13. ASSUME NEW k \in Checkpoints, NEW open \in BOOLEAN, NEW repeat \in BOOLEAN,
              Configure(k, open, repeat)
       PROVE  EntryInv'
  BY <1>13 DEF Configure
<1> QED BY <1>9, <1>10, <1>11, <1>12, <1>13 DEF Next

\* At a checkpoint that allows no repeats a participant checked in twice was
\* marked absent in between, if requests come one at a time and nobody
\* reconfigures the checkpoint (attendance_service.py: scan() checks presence
\* and inserts without a lock).
THEOREM NobodyEntersTwice ==
    ASSUME \A c, d \in Reqs : c = d, "Configure" \notin Ops
    PROVE  Spec => []OneEntryAtATime
<1>1. Init => EntryInv
  <2>1. Init => TypeOK
    BY InitInv DEF AttendanceInv
  <2>2. Init => /\ \A c \in Reqs : Undisturbed(req[c])
                /\ \A s \in scans, a \in corrections : s.at # a.at
                /\ OneEntryAtATime
    BY DEF Init, Undisturbed, Pending, Checking, Idle, OneEntryAtATime
  <2> QED BY <2>1, <2>2 DEF EntryInv
<1>2. AttendanceInv /\ AttendanceInv' /\ EntryInv /\ [Next]_vars => EntryInv'
  BY EntryStep DEF AttendanceInv
<1>3. EntryInv => OneEntryAtATime
  BY DEF EntryInv
<1> QED BY <1>1, <1>2, <1>3, AttendanceInvariant, PTL DEF Spec
=============================================================================
