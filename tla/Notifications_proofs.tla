------------------------ MODULE Notifications_proofs ------------------------
(***************************************************************************)
(* Theorems of Notifications.  DeliveryInv ties rows, background tasks,    *)
(* mails and requests together: a row that was not resent has at most one  *)
(* task and at most one mail, the row of a resend in progress is its       *)
(* request's alone.  On it rest the guards against a second mail: one      *)
(* confirmation for each participant, one mail for each key.               *)
(***************************************************************************)
EXTENDS Notifications, SequenceTheorems, FiniteSetTheorems, TLAPS

MailOf(t) == [row |-> t.row, at |-> t.at, qr |-> t.qr]
Posting(c) == req[c].op = "confirm" /\ req[c].step = "post"
Serving(c) == req[c].op = "admin" /\ req[c].step \in {"accepted", "refused"}

\* A resend between SMTP and its commit owns an uncommitted row.
OwnsRow(c) ==
    LET n == req[c].row IN
    /\ n \in Ids /\ rows[n].kind = "admin" /\ rows[n].key = req[c].key
    /\ rows[n].for = req[c].who /\ rows[n].status = "UNCOMMITTED"
    /\ req[c].step = "accepted" => [row |-> n, at |-> req[c].who, qr |-> TRUE] \in box
    /\ \A d \in Reqs \ {c} : Serving(d) => req[d].row # n

RowSound(n) ==
    /\ rows[n].status = "UNCOMMITTED" => rows[n].kind = "admin" /\ ~ rows[n].resent
    /\ rows[n].status = "SENT" /\ rows[n].kind # "campaign" /\ ~ rows[n].resent
         => [row |-> n, at |-> rows[n].for, qr |-> TRUE] \in box

\* A delivery of a row that was not resent is its only one and made no mail
\* before it was handed to SMTP.
TaskSound(t) ==
    /\ t.row \in Ids /\ rows[t.row].status # "UNCOMMITTED"
    /\ t.outcome = "accepted" => MailOf(t) \in box
    /\ ~ rows[t.row].resent =>
         /\ rows[t.row].status = "PENDING"
         /\ rows[t.row].kind # "campaign" => t.at = rows[t.row].for /\ t.qr = TRUE
         /\ t.outcome = "queued" => \A m \in box : m.row # t.row
         /\ \A u \in tasks : u.row = t.row => u = t

OneMail(m) == m.row \in Ids /\ (~ rows[m.row].resent => \A o \in box : o.row = m.row => o = m)

DeliveryInv ==
    /\ TypeOK
    /\ \A c \in Reqs : Serving(c) => OwnsRow(c)
    /\ \A n \in Ids : RowSound(n)
    /\ \A t \in tasks : TaskSound(t)
    /\ \A m \in box : OneMail(m)
    /\ \A c \in Reqs : Posting(c) => req[c].who \in People

\* A confirmation of p that counts against another one.
Counts(n, p) ==
    /\ rows[n].kind = "confirm" /\ rows[n].for = p /\ ~ rows[n].resent
    /\ rows[n].status \in {"SENT", "PENDING"}

ConfirmInv ==
    \A p \in People \ raced :
      /\ \A m, n \in Ids : Counts(m, p) /\ Counts(n, p) => m = n
      /\ \A c \in Reqs : Posting(c) /\ req[c].who = p => \A n \in Ids : ~ Counts(n, p)
      /\ \A c, d \in Reqs : Posting(c) /\ Posting(d) /\ req[c].who = p /\ req[d].who = p => c = d

\* The row of a campaign or an administrator's resend with key k, for p, and
\* a request that may still make one.
Keyed(n, kind, k, p) == rows[n].kind = kind /\ rows[n].key = k /\ rows[n].for = p
Asks(c, kind, k) == req[c].op = kind /\ req[c].key = k
ToServe(c, p) == p \in req[c].todo /\ ~ (Serving(c) /\ req[c].who = p)

\* Only a restart leaves an uncommitted row that no request will commit.
Accounted ==
    faults = 0 => \A n \in Ids : rows[n].status = "UNCOMMITTED" =>
                    \E c \in Reqs : Serving(c) /\ req[c].row = n

KeyHolds(kind, k) ==
    /\ \A c, d \in Reqs : Asks(c, kind, k) /\ Asks(d, kind, k) => c = d
    /\ \A p \in People :
         /\ \A m, n \in Ids : Keyed(m, kind, k, p) /\ Keyed(n, kind, k, p) => m = n
         /\ \A c \in Reqs : Asks(c, kind, k) /\ ToServe(c, p)
              => \A n \in Ids : ~ Keyed(n, kind, k, p)

KeyInv ==
    /\ Accounted
    /\ \A k \in Keys \ raced :
         KeyHolds("campaign", k) /\ (faults = 0 => KeyHolds("admin", k))

-----------------------------------------------------------------------------
(* Rows, requests and sets.                                                *)

\* A set whose members are all equal.
LEMMA AtMostOne ==
    ASSUME NEW S, \A x, y \in S : x = y
    PROVE  IsFiniteSet(S) /\ Cardinality(S) \in {0, 1}
<1>1. CASE S = {}
  BY <1>1, FS_EmptySet
<1>2. ASSUME NEW x \in S
      PROVE  IsFiniteSet(S) /\ Cardinality(S) \in {0, 1}
  <2>1. S = {x}
    OBVIOUS
  <2> QED BY <2>1, FS_Singleton
<1> QED BY <1>1, <1>2

LEMMA RowTypes ==
    ASSUME TypeOK
    PROVE  /\ Len(rows) \in Nat /\ Ids = 1 .. Len(rows) /\ \A n \in Ids : rows[n] \in Row
           /\ MaxRows \in Nat
BY PeopleAssumption DEF TypeOK, Ids

\* A new notification comes last and changes no other.
LEMMA RowAdded ==
    ASSUME TypeOK, NEW x \in Row, rows' = Append(rows, x), Len(rows) < MaxRows
    PROVE  /\ rows' \in Seq(Row) /\ Len(rows') <= MaxRows
           /\ Ids' = Ids \cup {Len(rows) + 1} /\ Len(rows) + 1 \notin Ids
           /\ Len(rows) + 1 \in 1 .. MaxRows
           /\ rows'[Len(rows) + 1] = x /\ \A n \in Ids : rows'[n] = rows[n]
<1>1. rows \in Seq(Row) /\ Len(rows) \in Nat /\ Ids = 1 .. Len(rows) /\ MaxRows \in Nat
  BY RowTypes DEF TypeOK
<1>2. rows' \in Seq(Row) /\ Len(rows') = Len(rows) + 1
  BY <1>1, AppendProperties
<1>3. Ids' = 1 .. Len(rows')
  BY <1>2 DEF Ids
<1>4. rows'[Len(rows) + 1] = x /\ \A n \in 1 .. Len(rows) : rows'[n] = rows[n]
  BY <1>1, AppendProperties
<1> QED BY <1>1, <1>2, <1>3, <1>4

\* An update of one row.
LEMMA RowChanged ==
    ASSUME TypeOK, NEW n \in Ids, NEW x \in Row, rows' = [rows EXCEPT ![n] = x]
    PROVE  /\ rows' \in Seq(Row) /\ Len(rows') = Len(rows) /\ Ids' = Ids
           /\ rows'[n] = x /\ \A m \in Ids \ {n} : rows'[m] = rows[m]
<1>1. rows \in Seq(Row) /\ Len(rows) \in Nat /\ Ids = 1 .. Len(rows)
  BY RowTypes DEF TypeOK
<1>2. rows' \in Seq(Row) /\ Len(rows') = Len(rows)
  BY <1>1, ExceptSeq
<1>3. Ids' = 1 .. Len(rows')
  BY <1>2 DEF Ids
<1> QED BY <1>1, <1>2, <1>3

LEMMA IdleRequest == Idle \in Request /\ Idle.op = "idle"
BY PeopleAssumption DEF Idle, Request

\* The request after a recipient: it keeps what it asks and serves nobody.
LEMMA AfterRecipient ==
    ASSUME TypeOK, NEW c \in Reqs, NEW p, Next1(c, p)
    PROVE  /\ req' \in [Reqs -> Request] /\ \A d \in Reqs \ {c} : req'[d] = req[d]
           /\ ~ Serving(c)' /\ ~ Posting(c)'
           /\ \/ req'[c] = Idle
              \/ /\ req'[c].op = req[c].op /\ req'[c].key = req[c].key
                 /\ req'[c].todo = req[c].todo \ {p}
<1> DEFINE y == [req[c] EXCEPT !.todo = @ \ {p}, !.who = Nobody, !.step = "next", !.row = 0]
<1>0. req \in [Reqs -> Request]
  BY DEF TypeOK
<1>1. req' = [req EXCEPT ![c] = Idle] \/ req' = [req EXCEPT ![c] = y]
  BY DEF Next1, Update
<1>2. /\ y \in Request /\ y.op = req[c].op /\ y.key = req[c].key
      /\ y.todo = req[c].todo \ {p} /\ y.step = "next"
  <2>1. req[c] \in Request /\ 0 \in 0 .. MaxRows
    BY <1>0, PeopleAssumption
  <2>2. req[c].todo \ {p} \in SUBSET (People \cup {NoProfile})
    BY <2>1 DEF Request
  <2> DEFINE left == req[c].todo \ {p}
  <2>3. y = [req[c] EXCEPT !.todo = left, !.who = Nobody, !.step = "next", !.row = 0]
    OBVIOUS
  <2> HIDE DEF left
  <2> QED BY <2>1, <2>2, <2>3 DEF Request, left
<1> HIDE DEF y
<1>3. Idle \in Request /\ Idle.op = "idle" /\ Idle.step = "next"
  BY IdleRequest DEF Idle
<1> QED BY <1>0, <1>1, <1>2, <1>3 DEF Serving, Posting

LEMMA Begun ==
    ASSUME TypeOK, NEW c \in Reqs, NEW op \in {"confirm", "admin", "campaign"},
           NEW key \in Keys \cup {NoKey}, NEW todo \in SUBSET (People \cup {NoProfile}),
           Begin(c, op, key, todo)
    PROVE  /\ req' \in [Reqs -> Request] /\ \A d \in Reqs \ {c} : req'[d] = req[d]
           /\ req'[c].op = op /\ req'[c].key = key /\ req'[c].todo = todo
           /\ req[c] = Idle /\ ~ Serving(c)' /\ ~ Posting(c)'
           /\ UNCHANGED <<rows, tasks, box, pass, confirmed, faults>>
           /\ raced \subseteq raced'
           /\ \A d \in Reqs : key # NoKey /\ Asks(d, op, key) => key \in raced'
           /\ TypeOK'
<1> DEFINE y == [Idle EXCEPT !.op = op, !.key = key, !.todo = todo, !.has = pass]
<1>0. req \in [Reqs -> Request] /\ pass \subseteq People /\ Idle \in Request
  BY IdleRequest DEF TypeOK
<1>1. req' = [req EXCEPT ![c] = y]
  BY DEF Begin, Update
<1>2. /\ y \in Request /\ y.op = op /\ y.key = key /\ y.todo = todo /\ y.step = "next"
  BY <1>0 DEF Request, Idle
<1> HIDE DEF y
<1>3. req' \in [Reqs -> Request] /\ req'[c] = y /\ \A d \in Reqs \ {c} : req'[d] = req[d]
  BY <1>0, <1>1, <1>2
<1>4. /\ req[c] = Idle /\ UNCHANGED <<rows, tasks, box, pass, confirmed, faults>>
      /\ raced' = IF key # NoKey /\ \E d \in Reqs : req[d].op = op /\ req[d].key = key
                  THEN raced \cup {key} ELSE raced
      /\ asks < MaxAsks /\ asks' = asks + 1
  BY DEF Begin, OneMoreAsk
<1>5. raced' \subseteq Keys \cup People
  BY <1>4 DEF TypeOK
<1>6. TypeOK'
  BY <1>3, <1>4, <1>5, PeopleAssumption DEF TypeOK
<1> QED BY <1>2, <1>3, <1>4, <1>6 DEF Asks, Serving, Posting

-----------------------------------------------------------------------------
(* Rows, tasks, mails and requests belong together.                        *)

LEMMA DeliveryFrame ==
    ASSUME DeliveryInv, NEW c \in Reqs, \A d \in Reqs \ {c} : req'[d] = req[d],
           UNCHANGED <<rows, tasks, box>>, TypeOK',
           \/ ~ Serving(c)' /\ (Posting(c)' => req'[c].who \in People)
           \/ req'[c] = req[c]
    PROVE  DeliveryInv'
<1>1. ASSUME NEW d \in Reqs, Serving(d)'
      PROVE  OwnsRow(d)'
  <2>1. Serving(d) /\ req'[d] = req[d] /\ OwnsRow(d)
    BY <1>1 DEF Serving, DeliveryInv
  <2>2. \A e \in Reqs : Serving(e)' => Serving(e) /\ req'[e] = req[e]
    BY DEF Serving
  <2> QED BY <2>1, <2>2 DEF OwnsRow, Ids
<1>2. \A n \in Ids' : RowSound(n)'
  BY DEF DeliveryInv, RowSound, Ids
<1>3. \A t \in tasks' : TaskSound(t)'
  BY DEF DeliveryInv, TaskSound, Ids, MailOf
<1>4. \A m \in box' : OneMail(m)'
  BY DEF DeliveryInv, OneMail, Ids
<1>posts. \A d \in Reqs : Posting(d)' => req'[d].who \in People
  BY DEF DeliveryInv, Posting
<1> QED BY <1>1, <1>2, <1>3, <1>4, <1>posts DEF DeliveryInv

\* A request commits a notification and makes its task, if it has one.

LEMMA DeliveryPosted ==
    ASSUME DeliveryInv, NEW c \in Reqs, \A d \in Reqs \ {c} : req'[d] = req[d],
           ~ Serving(c)', ~ Posting(c)', NEW x \in Row, x.status \in {"PENDING", "FAILED"}, x.resent = FALSE,
           Len(rows) < MaxRows, rows' = Append(rows, x), box' = box,
           \/ tasks' = tasks
           \/ \E q \in People, qr \in BOOLEAN :
                /\ tasks' = tasks \cup {NewTask(Len(rows) + 1, q, qr)}
                /\ x.status = "PENDING" /\ (x.kind # "campaign" => q = x.for /\ qr = TRUE),
           TypeOK'
    PROVE  DeliveryInv'
<1> DEFINE k == Len(rows) + 1
<1>0. TypeOK
  BY DEF DeliveryInv
<1>1. /\ Ids' = Ids \cup {k} /\ k \notin Ids
      /\ rows'[k] = x /\ \A n \in Ids : rows'[n] = rows[n]
  BY <1>0, RowAdded
<1> HIDE DEF k
<1>2. ASSUME NEW d \in Reqs, Serving(d)'
      PROVE  OwnsRow(d)'
  <2>1. Serving(d) /\ req'[d] = req[d] /\ OwnsRow(d)
    BY <1>2 DEF Serving, DeliveryInv
  <2>2. \A e \in Reqs : Serving(e)' => Serving(e) /\ req'[e] = req[e]
    BY DEF Serving
  <2> QED BY <1>1, <2>1, <2>2 DEF OwnsRow
<1>3. ASSUME NEW n \in Ids'
      PROVE  RowSound(n)'
  BY <1>1 DEF DeliveryInv, RowSound
<1>4. \A t \in tasks : TaskSound(t) /\ t.row \in Ids
  BY DEF DeliveryInv, TaskSound
<1>5. \A m \in box : OneMail(m) /\ m.row \in Ids
  BY DEF DeliveryInv, OneMail
<1>6. ASSUME NEW t \in tasks'
      PROVE  TaskSound(t)'
  <2>0. ASSUME t \in tasks
        PROVE  TaskSound(t) /\ t.row \in Ids /\ t.row # k /\ rows'[t.row] = rows[t.row]
    BY <1>1, <1>4, <2>0
  <2>1. CASE tasks' = tasks
    <3>1. t \in tasks
      BY <1>6, <2>1
    <3> QED BY <1>1, <2>0, <2>1, <3>1 DEF TaskSound, MailOf
  <2>2. ASSUME NEW q \in People, NEW qr \in BOOLEAN,
               tasks' = tasks \cup {NewTask(k, q, qr)},
               x.status = "PENDING" /\ (x.kind # "campaign" => q = x.for /\ qr = TRUE)
        PROVE  TaskSound(t)'
    <3> DEFINE u == NewTask(k, q, qr)
    <3>1. u.row = k /\ u.at = q /\ u.qr = qr /\ u.outcome = "queued"
      BY DEF NewTask
    <3>2. tasks' = tasks \cup {u}
      BY <2>2
    <3> HIDE DEF u
    <3>3. CASE t \in tasks
      BY <1>1, <2>0, <3>1, <3>2, <3>3 DEF TaskSound, MailOf
    <3>4. CASE t = u
      BY <1>1, <1>4, <1>5, <2>2, <3>1, <3>2, <3>4 DEF TaskSound
    <3> QED BY <1>6, <3>2, <3>3, <3>4
  <2> QED BY <2>1, <2>2 DEF k
<1>7. \A m \in box' : OneMail(m)'
  BY <1>1, <1>5 DEF OneMail
<1>posts. \A d \in Reqs : Posting(d)' => req'[d].who \in People
  BY DEF DeliveryInv, Posting
<1> QED BY <1>2, <1>3, <1>6, <1>7, <1>posts DEF DeliveryInv

\* One row changes that no resend in progress owns.

LEMMA DeliverySettled ==
    ASSUME DeliveryInv, NEW t \in tasks, Settle(t)
    PROVE  DeliveryInv'
<1> DEFINE n == t.row
           x == [rows[n] EXCEPT !.status = IF t.outcome = "accepted" THEN "SENT" ELSE "FAILED"]
<1>0. TypeOK /\ TaskSound(t)
  BY DEF DeliveryInv
<1>1. n \in Ids /\ rows[n] \in Row
  BY <1>0, RowTypes DEF TaskSound
<1>2. rows' = [rows EXCEPT ![n] = x] /\ tasks' = tasks \ {t}
      /\ UNCHANGED <<box, req, pass, confirmed, faults, raced, asks>>
  BY DEF Settle
<1>3. /\ x \in Row /\ x.kind = rows[n].kind /\ x.for = rows[n].for /\ x.key = rows[n].key
      /\ x.resent = rows[n].resent /\ x.status \in {"SENT", "FAILED"}
      /\ x.status = "SENT" => t.outcome = "accepted"
  BY <1>1 DEF Row
<1> HIDE DEF x, n
<1>4. /\ rows' \in Seq(Row) /\ Len(rows') = Len(rows) /\ Ids' = Ids
      /\ rows'[n] = x /\ \A m \in Ids \ {n} : rows'[m] = rows[m]
  BY <1>0, <1>1, <1>2, <1>3, RowChanged
<1>5. TypeOK'
  BY <1>0, <1>2, <1>4 DEF TypeOK
<1>6. ASSUME NEW d \in Reqs, Serving(d)'
      PROVE  OwnsRow(d)'
  <2>1. OwnsRow(d) /\ req[d].row # n
    BY <1>0, <1>2, <1>6 DEF Serving, DeliveryInv, OwnsRow, TaskSound, n
  <2> QED BY <1>2, <1>4, <2>1 DEF OwnsRow, Serving
<1>7. ASSUME NEW m \in Ids'
      PROVE  RowSound(m)'
  <2>1. RowSound(m)
    BY <1>4, <1>7 DEF DeliveryInv
  <2>2. CASE m = n
    <3>1. rows'[n] = x /\ box' = box /\ x.status # "UNCOMMITTED"
      BY <1>2, <1>3, <1>4
    <3>2. ASSUME x.status = "SENT", x.kind # "campaign", ~ x.resent
          PROVE  [row |-> n, at |-> x.for, qr |-> TRUE] \in box
      <4>1. MailOf(t) \in box /\ t.at = x.for /\ t.qr = TRUE /\ t.row = n
        BY <1>0, <1>3, <3>2 DEF TaskSound, n
      <4> QED BY <4>1 DEF MailOf
    <3> QED BY <2>2, <3>1, <3>2 DEF RowSound
  <2>3. CASE m # n
    BY <1>2, <1>4, <1>7, <2>1, <2>3 DEF RowSound
  <2> QED BY <2>2, <2>3
<1>8. ASSUME NEW u \in tasks'
      PROVE  TaskSound(u)'
  <2>1. TaskSound(u) /\ u # t /\ u \in tasks
    BY <1>2, <1>8 DEF DeliveryInv
  <2>2. CASE u.row = n
    BY <1>0, <1>2, <1>3, <1>4, <2>1, <2>2 DEF TaskSound, MailOf, n
  <2>3. CASE u.row # n
    BY <1>2, <1>4, <2>1, <2>3 DEF TaskSound, MailOf
  <2> QED BY <2>2, <2>3
<1>9. \A m \in box' : OneMail(m)'
  BY <1>2, <1>3, <1>4 DEF DeliveryInv, OneMail
<1>posts. \A d \in Reqs : Posting(d)' => req'[d].who \in People
  BY <1>2 DEF DeliveryInv, Posting
<1> QED BY <1>2, <1>5, <1>6, <1>7, <1>8, <1>9, <1>posts DEF DeliveryInv

LEMMA DeliverySmtp ==
    ASSUME DeliveryInv, NEW t \in tasks, NEW ok \in BOOLEAN, Smtp(t, ok)
    PROVE  DeliveryInv'
<1> DEFINE u == [t EXCEPT !.outcome = IF ok THEN "accepted" ELSE "refused"]
           new == MailOf(t)
<1>0. TypeOK /\ TaskSound(t) /\ t \in Task
  BY DEF DeliveryInv, TypeOK
<1>1. /\ t.outcome = "queued" /\ tasks' = (tasks \ {t}) \cup {u}
      /\ box' = IF ok THEN box \cup {new} ELSE box
      /\ UNCHANGED <<rows, req, pass, confirmed, faults, raced, asks>>
  BY DEF Smtp, MailOf
<1>2. /\ u \in Task /\ u.row = t.row /\ u.at = t.at /\ u.qr = t.qr
      /\ u.outcome = IF ok THEN "accepted" ELSE "refused"
  BY <1>0 DEF Task
<1>3. new \in Mail /\ new.row = t.row
  BY <1>0 DEF Mail, Task, MailOf
<1> HIDE DEF u, new
<1>4. TypeOK'
  BY <1>0, <1>1, <1>2, <1>3 DEF TypeOK
<1>5. box \subseteq box' /\ Ids' = Ids /\ \A m \in box' : m \in box \/ m = new
  BY <1>1 DEF Ids
<1>6. ASSUME NEW d \in Reqs, Serving(d)'
      PROVE  OwnsRow(d)'
  BY <1>1, <1>5, <1>6 DEF Serving, DeliveryInv, OwnsRow
<1>7. ASSUME NEW n \in Ids'
      PROVE  RowSound(n)'
  BY <1>1, <1>5, <1>7 DEF DeliveryInv, RowSound
<1>8. ASSUME NEW w \in tasks'
      PROVE  TaskSound(w)'
  <2>1. CASE w = u
    <3>1. ~ rows[t.row].resent => \A v \in tasks' : v.row = t.row => v = u
      BY <1>0, <1>1, <1>2 DEF TaskSound
    <3>2. ok => MailOf(u) \in box'
      BY <1>1, <1>2 DEF MailOf, new
    <3> QED BY <1>0, <1>1, <1>2, <1>5, <2>1, <3>1, <3>2 DEF TaskSound
  <2>2. CASE w \in tasks /\ w # t
    <3>1. TaskSound(w)
      BY <2>2 DEF DeliveryInv
    <3>2. ~ rows[w.row].resent => w.row # t.row
      BY <2>2, <3>1 DEF TaskSound
    <3>3. ~ rows[w.row].resent => \A v \in tasks' : v.row = w.row => v = w
      BY <1>1, <1>2, <3>1, <3>2 DEF TaskSound
    <3>4. ~ rows[w.row].resent /\ w.outcome = "queued" => \A m \in box' : m.row # w.row
      BY <1>3, <1>5, <3>1, <3>2 DEF TaskSound
    <3> QED BY <1>1, <1>5, <3>1, <3>3, <3>4 DEF TaskSound, MailOf
  <2> QED BY <1>1, <1>8, <2>1, <2>2
<1>9. ASSUME NEW m \in box'
      PROVE  OneMail(m)'
  <2>1. \A o \in box : OneMail(o)
    BY DEF DeliveryInv
  <2>2. ~ rows[t.row].resent => \A o \in box : o.row # t.row
    BY <1>0, <1>1 DEF TaskSound
  <2>3. t.row \in Ids
    BY <1>0 DEF TaskSound
  <2> QED BY <1>1, <1>3, <1>5, <1>9, <2>1, <2>2, <2>3 DEF OneMail
<1>posts. \A d \in Reqs : Posting(d)' => req'[d].who \in People
  BY <1>1 DEF DeliveryInv, Posting
<1> QED BY <1>4, <1>6, <1>7, <1>8, <1>9, <1>posts DEF DeliveryInv

\* Whatever else removes tasks and ends requests.

LEMMA DeliveryFewer ==
    ASSUME DeliveryInv, UNCHANGED <<rows, box>>, tasks' \subseteq tasks, TypeOK',
           \A d \in Reqs : req'[d] = req[d] \/ req'[d] = Idle
    PROVE  DeliveryInv'
<1>0. Idle.op = "idle"
  BY IdleRequest
<1>1. ASSUME NEW d \in Reqs, Serving(d)'
      PROVE  OwnsRow(d)'
  <2>1. Serving(d) /\ req'[d] = req[d] /\ OwnsRow(d)
    BY <1>0, <1>1 DEF Serving, DeliveryInv
  <2>2. \A e \in Reqs : Serving(e)' => Serving(e) /\ req'[e] = req[e]
    BY <1>0 DEF Serving
  <2> QED BY <2>1, <2>2 DEF OwnsRow, Ids
<1>2. \A n \in Ids' : RowSound(n)'
  BY DEF DeliveryInv, RowSound, Ids
<1>3. \A t \in tasks' : TaskSound(t)'
  BY DEF DeliveryInv, TaskSound, Ids, MailOf
<1>4. \A m \in box' : OneMail(m)'
  BY DEF DeliveryInv, OneMail, Ids
<1>posts. \A d \in Reqs : Posting(d)' => req'[d].who \in People
  BY <1>0 DEF DeliveryInv, Posting
<1> QED BY <1>1, <1>2, <1>3, <1>4, <1>posts DEF DeliveryInv

\* notification_service.resend takes no row a request has not committed.

LEMMA DeliveryResend ==
    ASSUME DeliveryInv, NEW n \in Ids, Resend(n)
    PROVE  DeliveryInv'
<1> DEFINE to == Owner(rows[n].for)
           x == [rows[n] EXCEPT !.resent = TRUE,
                                !.status = IF to \in Reachable THEN "PENDING" ELSE "FAILED"]
           u == NewTask(n, to, FALSE)
<1>0. TypeOK /\ rows[n] \in Row /\ n \in 1 .. MaxRows
  BY RowTypes DEF DeliveryInv, TypeOK
<1>1. /\ Visible(n) /\ rows' = [rows EXCEPT ![n] = x]
      /\ tasks' = tasks \/ (to \in Reachable /\ tasks' = tasks \cup {u})
      /\ asks < MaxAsks /\ asks' = asks + 1
      /\ UNCHANGED <<box, req, pass, confirmed, faults, raced>>
  <2>1. /\ rows' = [rows EXCEPT ![n].resent = TRUE,
                                ![n].status = IF to \in Reachable THEN "PENDING" ELSE "FAILED"]
        /\ tasks' = tasks \cup {NewTask(n, q, FALSE) : q \in {to} \cap Reachable}
    BY DEF Resend
  <2>2. rows' = [rows EXCEPT ![n] = x]
    BY <1>0, <2>1 DEF Row
  <2> DEFINE S == {NewTask(n, q, FALSE) : q \in {to} \cap Reachable}
  <2>3. S = IF to \in Reachable THEN {u} ELSE {}
    OBVIOUS
  <2>4. tasks' = tasks \cup S
    BY <2>1
  <2> HIDE DEF to, x, u, S
  <2>5. tasks' = tasks \/ (to \in Reachable /\ tasks' = tasks \cup {u})
    BY <2>3, <2>4
  <2>6. /\ Visible(n) /\ asks < MaxAsks /\ asks' = asks + 1
        /\ UNCHANGED <<box, req, pass, confirmed, faults, raced>>
    BY DEF Resend, OneMoreAsk
  <2> QED BY <2>2, <2>5, <2>6
<1>2. /\ x \in Row /\ x.kind = rows[n].kind /\ x.for = rows[n].for /\ x.key = rows[n].key
      /\ x.resent = TRUE /\ x.status \in {"PENDING", "FAILED"}
  BY <1>0 DEF Row
<1>3. to \in Reachable => u \in Task /\ u.row = n
  BY <1>0, PeopleAssumption DEF NewTask, Task
<1>4. u.row = n /\ u.outcome = "queued"
  BY DEF NewTask
<1> HIDE DEF x, u, to
<1>5. /\ rows' \in Seq(Row) /\ Len(rows') = Len(rows) /\ Ids' = Ids
      /\ rows'[n] = x /\ \A m \in Ids \ {n} : rows'[m] = rows[m]
  BY <1>0, <1>1, <1>2, RowChanged
<1>6. TypeOK'
  BY <1>0, <1>1, <1>3, <1>5, PeopleAssumption DEF TypeOK
<1>7. ASSUME NEW d \in Reqs, Serving(d)'
      PROVE  OwnsRow(d)'
  <2>1. OwnsRow(d) /\ req[d].row # n
    BY <1>1, <1>7 DEF Serving, DeliveryInv, OwnsRow, Visible
  <2> QED BY <1>1, <1>5, <2>1 DEF OwnsRow, Serving
<1>8. ASSUME NEW m \in Ids'
      PROVE  RowSound(m)'
  <2>1. RowSound(m)
    BY <1>5, <1>8 DEF DeliveryInv
  <2>2. CASE m = n
    BY <1>2, <1>5, <2>2 DEF RowSound
  <2>3. CASE m # n
    BY <1>1, <1>5, <1>8, <2>1, <2>3 DEF RowSound
  <2> QED BY <2>2, <2>3
<1>9. ASSUME NEW t \in tasks'
      PROVE  TaskSound(t)'
  <2>1. CASE t = u
    <3>1. t.row = n /\ t.outcome = "queued" /\ rows'[n].resent = TRUE /\ rows'[n].status # "UNCOMMITTED"
      BY <1>2, <1>4, <1>5, <2>1
    <3> QED BY <1>5, <3>1 DEF TaskSound
  <2>2. CASE t \in tasks /\ t # u
    <3>1. TaskSound(t) /\ box' = box
      BY <1>1, <2>2 DEF DeliveryInv
    <3>2. CASE t.row = n
      BY <1>2, <1>5, <3>1, <3>2 DEF TaskSound, MailOf
    <3>3. CASE t.row # n
      <4>1. t.row \in Ids /\ rows'[t.row] = rows[t.row]
        BY <1>5, <3>1, <3>3 DEF TaskSound
      <4>2. \A w \in tasks' : w.row = t.row => w \in tasks
        BY <1>1, <1>4, <3>3
      <4> QED BY <1>5, <3>1, <4>1, <4>2 DEF TaskSound, MailOf
    <3> QED BY <3>2, <3>3
  <2> QED BY <1>1, <1>9, <2>1, <2>2
<1>10. \A m \in box' : OneMail(m)'
  <2>1. \A m \in box : OneMail(m)
    BY DEF DeliveryInv
  <2> QED BY <1>1, <1>2, <1>5, <2>1 DEF OneMail
<1>posts. \A d \in Reqs : Posting(d)' => req'[d].who \in People
  BY <1>1 DEF DeliveryInv, Posting
<1> QED BY <1>6, <1>7, <1>8, <1>9, <1>10, <1>posts DEF DeliveryInv

\* A resend by an administrator up to SMTP: the row is its own.

LEMMA DeliveryResendOne ==
    ASSUME DeliveryInv, NEW c \in Reqs, NEW p \in req[c].todo, NEW ok \in BOOLEAN,
           ResendOne(c, p, ok)
    PROVE  LET x == NewRow("admin", req[c].key, p, "UNCOMMITTED") IN
           /\ DeliveryInv' /\ UNCHANGED <<faults, raced>> /\ req[c].op = "admin" /\ p \in People
           /\ Len(rows) < MaxRows /\ rows' = Append(rows, x) /\ x \in Row
           /\ \A d \in Reqs \ {c} : req'[d] = req[d]
           /\ req'[c].op = req[c].op /\ req'[c].key = req[c].key /\ req'[c].todo = req[c].todo
           /\ req'[c].who = p /\ req'[c].row = Len(rows) + 1
           /\ ~ Serving(c) /\ Serving(c)'
<1> DEFINE k == Len(rows) + 1
           x == NewRow("admin", req[c].key, p, "UNCOMMITTED")
           m == [row |-> k, at |-> p, qr |-> TRUE]
           has == req[c].has \cup ({p} \cap pass)
           st == IF ok THEN "accepted" ELSE "refused"
           y == [req[c] EXCEPT !.who = p, !.row = k, !.has = has, !.step = st]
<1>0. TypeOK /\ req[c] \in Request /\ p \in People
  BY PeopleAssumption DEF DeliveryInv, TypeOK, ResendOne
<1>1. /\ req[c].op = "admin" /\ req[c].step = "next" /\ Len(rows) < MaxRows
      /\ rows' = Append(rows, x)
      /\ box' = IF ok THEN box \cup {m} ELSE box
      /\ UNCHANGED <<tasks, pass, confirmed, faults, raced, asks>>
  BY DEF ResendOne
<1>2. req' = [req EXCEPT ![c] = y]
  BY <1>0 DEF ResendOne, Update, Request
<1>3. /\ x \in Row /\ x.kind = "admin" /\ x.key = req[c].key /\ x.for = p
      /\ x.status = "UNCOMMITTED" /\ x.resent = FALSE
  BY <1>0 DEF NewRow, Row, Request
<1>4. /\ rows' \in Seq(Row) /\ Len(rows') <= MaxRows
      /\ Ids' = Ids \cup {k} /\ k \notin Ids /\ k \in 1 .. MaxRows
      /\ rows'[k] = x /\ \A n \in Ids : rows'[n] = rows[n]
  BY <1>0, <1>1, <1>3, RowAdded
<1>5. m \in Mail /\ m.row = k
  BY <1>0, <1>4 DEF Mail
<1>6. has \in SUBSET People
  BY <1>0 DEF TypeOK, Request
<1> HIDE DEF x, k, has, st
<1>7. /\ y \in Request /\ y.op = "admin" /\ y.key = req[c].key /\ y.todo = req[c].todo
      /\ y.who = p /\ y.row = k /\ y.step = IF ok THEN "accepted" ELSE "refused"
  <2>1. st \in {"accepted", "refused"} /\ st = IF ok THEN "accepted" ELSE "refused"
    BY DEF st
  <2>2. k \in 0 .. MaxRows
    BY <1>0, <1>4, RowTypes
  <2>3. y \in Request
    BY <1>0, <1>6, <2>1, <2>2 DEF Request
  <2> QED BY <1>0, <1>1, <2>1, <2>3 DEF Request
<1> HIDE DEF y
<1>8. /\ req' \in [Reqs -> Request] /\ req'[c] = y /\ \A d \in Reqs \ {c} : req'[d] = req[d]
  BY <1>0, <1>2, <1>7 DEF TypeOK
<1>9. box \subseteq box' /\ \A o \in box' : o \in box \/ o = m
  BY <1>1
<1>10. TypeOK'
  BY <1>0, <1>1, <1>4, <1>5, <1>8, <1>9 DEF TypeOK
<1>11. OwnsRow(c)'
  <2>1. \A d \in Reqs \ {c} : Serving(d)' => req'[d].row # k
    <3>1. ASSUME NEW d \in Reqs \ {c}, Serving(d)'
          PROVE  req'[d].row # k
      <4>1. Serving(d) /\ req'[d] = req[d]
        BY <1>8, <3>1 DEF Serving
      <4>2. req[d].row \in Ids
        BY <4>1 DEF DeliveryInv, OwnsRow
      <4> QED BY <1>4, <4>1, <4>2
    <3> QED BY <3>1
  <2>2. y.step = "accepted" => m \in box'
    BY <1>1, <1>7
  <2> QED BY <1>3, <1>4, <1>7, <1>8, <2>1, <2>2 DEF OwnsRow
<1>12. ASSUME NEW d \in Reqs \ {c}, Serving(d)'
       PROVE  OwnsRow(d)'
  <2>1. Serving(d) /\ req'[d] = req[d] /\ OwnsRow(d)
    BY <1>8, <1>12 DEF Serving, DeliveryInv
  <2>2. \A e \in Reqs \ {c} : Serving(e)' => Serving(e) /\ req'[e] = req[e]
    BY <1>8 DEF Serving
  <2>3. req[d].row \in Ids
    BY <2>1 DEF OwnsRow
  <2> QED BY <1>4, <1>7, <1>8, <1>9, <2>1, <2>2, <2>3 DEF OwnsRow
<1>13. ASSUME NEW n \in Ids'
       PROVE  RowSound(n)'
  BY <1>3, <1>4, <1>9 DEF DeliveryInv, RowSound
<1>14. ASSUME NEW t \in tasks'
       PROVE  TaskSound(t)'
  <2>1. TaskSound(t) /\ t.row \in Ids /\ rows'[t.row] = rows[t.row] /\ t.row # k /\ tasks' = tasks
    <3>1. TaskSound(t) /\ t.row \in Ids /\ tasks' = tasks
      BY <1>1, <1>14 DEF DeliveryInv, TaskSound
    <3> QED BY <1>4, <3>1
  <2>2. \A o \in box' : o.row = t.row => o \in box
    BY <1>5, <1>9, <2>1
  <2> QED BY <1>4, <1>9, <2>1, <2>2 DEF TaskSound, MailOf
<1>15. ASSUME NEW o \in box'
       PROVE  OneMail(o)'
  <2>1. \A q \in box : OneMail(q) /\ q.row \in Ids /\ rows'[q.row] = rows[q.row] /\ q.row # k
    BY <1>4 DEF DeliveryInv, OneMail
  <2> QED BY <1>4, <1>5, <1>9, <2>1 DEF OneMail
<1>17. \A d \in Reqs : Posting(d)' => req'[d].who \in People
  BY <1>7, <1>8 DEF DeliveryInv, Posting
<1>16. DeliveryInv'
  BY <1>10, <1>11, <1>12, <1>13, <1>14, <1>15, <1>17 DEF DeliveryInv
<1> QED BY <1>0, <1>1, <1>3, <1>7, <1>8, <1>16 DEF Serving, k, x

\* ... and its commit.

LEMMA DeliveryCommit ==
    ASSUME DeliveryInv, NEW c \in Reqs, ResendCommit(c)
    PROVE  DeliveryInv'
<1> DEFINE n == req[c].row
           x == [rows[n] EXCEPT !.status = IF req[c].step = "accepted" THEN "SENT" ELSE "FAILED"]
<1>0. TypeOK /\ Serving(c) /\ OwnsRow(c) /\ req[c] \in Request
  BY DEF DeliveryInv, TypeOK, ResendCommit, Serving
<1>1. n \in Ids /\ rows[n] \in Row /\ req[c].who \in People
  BY <1>0, RowTypes DEF OwnsRow, Row
<1>2. /\ rows' = [rows EXCEPT ![n] = x] /\ Next1(c, req[c].who)
      /\ pass' = pass \cup ({req[c].who} \ req[c].has)
      /\ UNCHANGED <<tasks, box, confirmed, faults, raced, asks>>
  BY DEF ResendCommit
<1>3. /\ x \in Row /\ x.kind = rows[n].kind /\ x.for = rows[n].for /\ x.key = rows[n].key
      /\ x.resent = rows[n].resent /\ x.status \in {"SENT", "FAILED"}
      /\ x.status = "SENT" => req[c].step = "accepted"
  BY <1>1 DEF Row
<1> HIDE DEF x, n
<1>4. /\ rows' \in Seq(Row) /\ Len(rows') = Len(rows) /\ Ids' = Ids
      /\ rows'[n] = x /\ \A m \in Ids \ {n} : rows'[m] = rows[m]
  BY <1>0, <1>1, <1>2, <1>3, RowChanged
<1>5. /\ req' \in [Reqs -> Request] /\ ~ Serving(c)' /\ ~ Posting(c)'
      /\ \A d \in Reqs \ {c} : req'[d] = req[d]
  BY <1>0, <1>2, AfterRecipient
<1>6. TypeOK'
  BY <1>0, <1>1, <1>2, <1>4, <1>5 DEF TypeOK
<1>7. ASSUME NEW d \in Reqs, Serving(d)'
      PROVE  OwnsRow(d)'
  <2>1. d # c /\ Serving(d) /\ req'[d] = req[d] /\ OwnsRow(d)
    BY <1>5, <1>7 DEF Serving, DeliveryInv
  <2>2. req[d].row # n /\ req[d].row \in Ids
    BY <1>0, <2>1 DEF OwnsRow, n
  <2>3. \A e \in Reqs : Serving(e)' => Serving(e) /\ req'[e] = req[e]
    BY <1>5 DEF Serving
  <2> QED BY <1>2, <1>4, <2>1, <2>2, <2>3 DEF OwnsRow
<1>8. ASSUME NEW m \in Ids'
      PROVE  RowSound(m)'
  <2>1. RowSound(m)
    BY <1>4, <1>8 DEF DeliveryInv
  <2>2. CASE m = n
    <3>1. rows'[n] = x /\ box' = box /\ x.status # "UNCOMMITTED"
      BY <1>2, <1>3, <1>4
    <3>2. x.status = "SENT" => [row |-> n, at |-> x.for, qr |-> TRUE] \in box
      BY <1>0, <1>3 DEF OwnsRow, n
    <3> QED BY <2>2, <3>1, <3>2 DEF RowSound
  <2>3. CASE m # n
    BY <1>2, <1>4, <1>8, <2>1, <2>3 DEF RowSound
  <2> QED BY <2>2, <2>3
<1>9. ASSUME NEW t \in tasks'
      PROVE  TaskSound(t)'
  <2>1. TaskSound(t) /\ t.row # n /\ t.row \in Ids
    BY <1>0, <1>2, <1>9 DEF DeliveryInv, TaskSound, OwnsRow, n
  <2> QED BY <1>2, <1>4, <2>1 DEF TaskSound, MailOf
<1>10. \A m \in box' : OneMail(m)'
  <2>1. \A m \in box : OneMail(m)
    BY DEF DeliveryInv
  <2> QED BY <1>2, <1>3, <1>4, <2>1 DEF OneMail
<1>posts. \A d \in Reqs : Posting(d)' => req'[d].who \in People
  BY <1>5 DEF DeliveryInv, Posting
<1> QED BY <1>6, <1>7, <1>8, <1>9, <1>10, <1>posts DEF DeliveryInv

\* The steps of a request before its next commit or SMTP.
LEMMA DeliveryLook ==
    ASSUME DeliveryInv, NEW c \in Reqs, NEW p \in req[c].todo, Look(c, p)
    PROVE  /\ DeliveryInv' /\ UNCHANGED <<rows, tasks, box, faults>> /\ raced \subseteq raced'
           /\ \A d \in Reqs \ {c} : req'[d] = req[d]
           /\ ~ Serving(c)'
           /\ \/ ~ Posting(c)'
              \/ /\ req'[c].who = p /\ p \in People /\ ~ ConfirmationWasSent(p)
                 /\ \A d \in Reqs : Posting(d) /\ req[d].who = p => p \in raced'
           /\ \/ req'[c].op = "idle"
              \/ req'[c].op = req[c].op /\ req[c].op = "confirm"
<1> DEFINE send == p \in pass /\ p \in Reachable /\ ~ ConfirmationWasSent(p)
           y == [req[c] EXCEPT !.who = p, !.step = "post"]
<1>0. TypeOK /\ req[c] \in Request /\ Idle \in Request /\ Idle.op = "idle"
  BY IdleRequest DEF DeliveryInv, TypeOK
<1>1. /\ req[c].op = "confirm" /\ req[c].step = "next"
      /\ IF send THEN req' = [req EXCEPT ![c] = y] ELSE Next1(c, p)
      /\ raced' = IF send /\ \E d \in Reqs : req[d].op = "confirm" /\ req[d].who = p
                  THEN raced \cup {p} ELSE raced
      /\ UNCHANGED <<rows, tasks, box, pass, confirmed, faults, asks>>
  BY DEF Look, Update
<1>2. CASE send
  <2>1. p \in People
    BY <1>2, PeopleAssumption
  <2>2. y \in Request /\ y.op = "confirm" /\ y.who = p /\ y.step = "post"
    BY <1>0, <1>1, <2>1 DEF Request
  <2> HIDE DEF y
  <2>3. req' \in [Reqs -> Request] /\ req'[c] = y /\ \A d \in Reqs \ {c} : req'[d] = req[d]
    BY <1>0, <1>1, <1>2, <2>2 DEF TypeOK
  <2>4. raced' \subseteq Keys \cup People /\ raced \subseteq raced'
    BY <1>0, <1>1, <2>1 DEF TypeOK
  <2>5. TypeOK'
    BY <1>0, <1>1, <2>3, <2>4 DEF TypeOK
  <2>6. ~ Serving(c)'
    BY <2>2, <2>3 DEF Serving
  <2>8. Posting(c)' => req'[c].who \in People
    BY <2>1, <2>2, <2>3
  <2>7. DeliveryInv'
    BY <1>1, <2>3, <2>5, <2>6, <2>8, DeliveryFrame
  <2> QED BY <1>1, <1>2, <2>1, <2>2, <2>3, <2>4, <2>6, <2>7 DEF Posting
<1>3. CASE ~ send
  <2>1. /\ req' \in [Reqs -> Request] /\ \A d \in Reqs \ {c} : req'[d] = req[d]
        /\ ~ Serving(c)' /\ ~ Posting(c)' /\ (req'[c] = Idle \/ req'[c].op = req[c].op)
    BY <1>0, <1>1, <1>3, AfterRecipient
  <2>2. TypeOK' /\ raced' = raced
    BY <1>0, <1>1, <1>3, <2>1 DEF TypeOK
  <2>3. DeliveryInv'
    BY <1>1, <2>1, <2>2, DeliveryFrame
  <2> QED BY <1>0, <1>1, <2>1, <2>2, <2>3
<1> QED BY <1>2, <1>3

LEMMA DeliveryPost ==
    ASSUME DeliveryInv, NEW c \in Reqs, Post(c)
    PROVE  LET x == NewRow("confirm", NoKey, req[c].who, "PENDING") IN
           /\ DeliveryInv' /\ UNCHANGED <<faults, raced>> /\ req[c].who \in People
           /\ Posting(c) /\ ~ Posting(c)' /\ ~ Serving(c)'
           /\ \A d \in Reqs \ {c} : req'[d] = req[d]
           /\ Len(rows) < MaxRows /\ rows' = Append(rows, x) /\ x \in Row
           /\ req'[c].op \in {"idle", "confirm"}
<1> DEFINE p == req[c].who
           x == NewRow("confirm", NoKey, p, "PENDING")
<1>0. TypeOK /\ Idle.op = "idle"
  BY IdleRequest DEF DeliveryInv
<1>1. /\ req[c].op = "confirm" /\ req[c].step = "post" /\ Len(rows) < MaxRows
      /\ rows' = Append(rows, x) /\ tasks' = tasks \cup {NewTask(Len(rows) + 1, p, TRUE)}
      /\ Next1(c, p) /\ UNCHANGED <<box, pass, confirmed, faults, raced, asks>>
  BY DEF Post
<1>2. Posting(c) /\ p \in People
  BY <1>1 DEF Posting, DeliveryInv
<1>3. /\ x \in Row /\ x.status = "PENDING" /\ x.resent = FALSE /\ x.for = p /\ x.kind = "confirm"
  BY <1>2 DEF NewRow, Row
<1>4. /\ req' \in [Reqs -> Request] /\ \A d \in Reqs \ {c} : req'[d] = req[d]
      /\ ~ Serving(c)' /\ ~ Posting(c)' /\ (req'[c] = Idle \/ req'[c].op = req[c].op)
  BY <1>0, <1>1, AfterRecipient
<1> HIDE DEF x
<1>5. /\ rows' \in Seq(Row) /\ Len(rows') <= MaxRows /\ Len(rows) + 1 \in 1 .. MaxRows
  BY <1>0, <1>1, <1>3, RowAdded
<1>6. NewTask(Len(rows) + 1, p, TRUE) \in Task
  BY <1>2, <1>5 DEF NewTask, Task
<1>7. TypeOK'
  BY <1>0, <1>1, <1>4, <1>5, <1>6 DEF TypeOK
<1>8. DeliveryInv'
  BY <1>1, <1>2, <1>3, <1>4, <1>7, DeliveryPosted
<1> QED BY <1>0, <1>1, <1>2, <1>3, <1>4, <1>8 DEF x

LEMMA DeliveryCampaign ==
    ASSUME DeliveryInv, NEW c \in Reqs, NEW p \in req[c].todo, CampaignPost(c, p)
    PROVE  LET x == NewRow("campaign", req[c].key, p,
                           IF p \in Reachable THEN "PENDING" ELSE "FAILED") IN
           /\ DeliveryInv' /\ UNCHANGED <<faults, raced>>
           /\ ~ Posting(c)' /\ ~ Serving(c)' /\ ~ Serving(c) /\ req[c].op = "campaign"
           /\ \A d \in Reqs \ {c} : req'[d] = req[d]
           /\ \/ req'[c].op = "idle"
              \/ /\ req'[c].op = "campaign" /\ req'[c].key = req[c].key
                 /\ req'[c].todo = req[c].todo \ {p}
           /\ \/ rows' = rows /\ req'[c].op = "idle"
              \/ /\ p \in People /\ Len(rows) < MaxRows
                 /\ rows' = Append(rows, x) /\ x \in Row
<1> DEFINE st == IF p \in Reachable THEN "PENDING" ELSE "FAILED"
           x == NewRow("campaign", req[c].key, p, st)
           S == {NewTask(Len(rows) + 1, q, FALSE) : q \in {p} \cap Reachable}
           u == NewTask(Len(rows) + 1, p, FALSE)
<1>0. TypeOK /\ req[c] \in Request /\ Idle \in Request /\ Idle.op = "idle"
  BY IdleRequest DEF DeliveryInv, TypeOK
<1>1. /\ req[c].op = "campaign" /\ ~ Serving(c)
      /\ UNCHANGED <<box, pass, confirmed, faults, raced, asks>>
  BY DEF CampaignPost, Serving
<1>2. CASE p = NoProfile
  <2>1. UNCHANGED <<rows, tasks>> /\ req' = [req EXCEPT ![c] = Idle]
    BY <1>2 DEF CampaignPost, Finish, Update
  <2>2. /\ req' \in [Reqs -> Request] /\ req'[c] = Idle /\ \A d \in Reqs \ {c} : req'[d] = req[d]
    BY <1>0, <2>1 DEF TypeOK
  <2>3. ~ Serving(c)' /\ ~ Posting(c)'
    BY <1>0, <2>2 DEF Serving, Posting
  <2>4. TypeOK'
    BY <1>0, <1>1, <2>1, <2>2 DEF TypeOK
  <2>5. DeliveryInv'
    BY <1>1, <2>1, <2>2, <2>3, <2>4, DeliveryFrame
  <2> QED BY <1>0, <1>1, <2>1, <2>2, <2>3, <2>5
<1>3. CASE p # NoProfile
  <2>1. Len(rows) < MaxRows /\ rows' = Append(rows, x) /\ tasks' = tasks \cup S /\ Next1(c, p)
    BY <1>3 DEF CampaignPost
  <2>2. S = IF p \in Reachable THEN {u} ELSE {}
    OBVIOUS
  <2>3. p \in People
    BY <1>0, <1>3 DEF Request
  <2>4. /\ x \in Row /\ x.status = st /\ x.resent = FALSE /\ x.for = p /\ x.kind = "campaign"
    BY <1>0, <2>3 DEF NewRow, Row, Request
  <2>5. /\ req' \in [Reqs -> Request] /\ \A d \in Reqs \ {c} : req'[d] = req[d]
        /\ ~ Serving(c)' /\ ~ Posting(c)'
        /\ \/ req'[c] = Idle
           \/ /\ req'[c].op = req[c].op /\ req'[c].key = req[c].key
              /\ req'[c].todo = req[c].todo \ {p}
    BY <1>0, <2>1, AfterRecipient
  <2> HIDE DEF x, S
  <2>6. /\ rows' \in Seq(Row) /\ Len(rows') <= MaxRows /\ Len(rows) + 1 \in 1 .. MaxRows
    BY <1>0, <2>1, <2>4, RowAdded
  <2>7. u \in Task
    BY <2>3, <2>6 DEF NewTask, Task
  <2>8. tasks' = tasks \/ (p \in Reachable /\ tasks' = tasks \cup {u})
    BY <2>1, <2>2
  <2> HIDE DEF u
  <2>9. TypeOK'
    BY <1>0, <1>1, <2>5, <2>6, <2>7, <2>8 DEF TypeOK
  <2>10. \/ tasks' = tasks
         \/ \E q \in People, qr \in BOOLEAN :
              /\ tasks' = tasks \cup {NewTask(Len(rows) + 1, q, qr)}
              /\ x.status = "PENDING" /\ (x.kind # "campaign" => q = x.for /\ qr = TRUE)
    BY <2>3, <2>4, <2>8 DEF u
  <2>11. x.status \in {"PENDING", "FAILED"}
    BY <2>4
  <2>12. DeliveryInv'
    BY <1>1, <2>1, <2>4, <2>5, <2>9, <2>10, <2>11, DeliveryPosted
  <2> QED BY <1>0, <1>1, <2>1, <2>3, <2>4, <2>5, <2>12 DEF x
<1> QED BY <1>2, <1>3

LEMMA DeliverySkip ==
    ASSUME DeliveryInv, NEW c \in Reqs, NEW p \in req[c].todo, SkipOne(c, p)
    PROVE  /\ DeliveryInv' /\ UNCHANGED <<rows, faults, raced>>
           /\ ~ Posting(c)' /\ ~ Serving(c)' /\ ~ Serving(c) /\ req[c].op = "admin"
           /\ \A d \in Reqs \ {c} : req'[d] = req[d]
           /\ \/ req'[c].op = "idle"
              \/ /\ req'[c].op = "admin" /\ req'[c].key = req[c].key
                 /\ req'[c].todo = req[c].todo \ {p}
<1>0. TypeOK /\ Idle.op = "idle"
  BY IdleRequest DEF DeliveryInv
<1>1. /\ req[c].op = "admin" /\ ~ Serving(c) /\ Next1(c, p)
      /\ UNCHANGED <<rows, tasks, box, pass, confirmed, faults, raced, asks>>
  BY DEF SkipOne, Serving
<1>2. /\ req' \in [Reqs -> Request] /\ \A d \in Reqs \ {c} : req'[d] = req[d]
      /\ ~ Serving(c)' /\ ~ Posting(c)'
      /\ \/ req'[c] = Idle
         \/ /\ req'[c].op = req[c].op /\ req'[c].key = req[c].key
            /\ req'[c].todo = req[c].todo \ {p}
  BY <1>0, <1>1, AfterRecipient
<1>3. TypeOK'
  BY <1>0, <1>1, <1>2 DEF TypeOK
<1>4. DeliveryInv'
  BY <1>1, <1>2, <1>3, DeliveryFrame
<1> QED BY <1>0, <1>1, <1>2, <1>4

\* Who begins a request of which kind, and the key it found unused.
LEMMA AskCases ==
    ASSUME DeliveryInv, NEW c \in Reqs, Ask(c)
    PROVE  \E op \in {"confirm", "admin", "campaign"}, key \in Keys \cup {NoKey},
              todo \in SUBSET (People \cup {NoProfile}) :
             Begin(c, op, key, todo)
             /\ (op \in {"admin", "campaign"} /\ key # NoKey => ~ KeyUsed(op, key))
<1>0. pass \subseteq People
  BY DEF DeliveryInv, TypeOK
<1>1. CASE NotifyPayment(c)
  BY <1>1 DEF NotifyPayment
<1>2. ASSUME NEW p \in People, NotifyMember(c, p)
      PROVE  Begin(c, "confirm", NoKey, {p})
  BY <1>2 DEF NotifyMember
<1>3. ASSUME NEW k \in Keys \cup {NoKey}, Campaign(c, k)
      PROVE  /\ Begin(c, "campaign", k, EligibleProfiles)
             /\ k # NoKey => ~ KeyUsed("campaign", k)
             /\ EligibleProfiles \subseteq People \cup {NoProfile}
  BY <1>3 DEF Campaign, EligibleProfiles
<1>4. ASSUME NEW k \in Keys, NEW targets \in {People} \cup {{p} : p \in People},
             AdminResend(c, k, targets)
      PROVE  /\ Begin(c, "admin", k, targets) /\ ~ KeyUsed("admin", k)
             /\ targets \subseteq People \cup {NoProfile}
  BY <1>4 DEF AdminResend
<1> QED BY <1>1, <1>2, <1>3, <1>4 DEF Ask

LEMMA DeliveryBegin ==
    ASSUME DeliveryInv, NEW c \in Reqs, NEW op \in {"confirm", "admin", "campaign"},
           NEW key \in Keys \cup {NoKey}, NEW todo \in SUBSET (People \cup {NoProfile}),
           Begin(c, op, key, todo)
    PROVE  DeliveryInv'
<1>0. TypeOK
  BY DEF DeliveryInv
<1> QED BY <1>0, Begun, DeliveryFrame

\* Steps of no request: lost outcomes, restarts, revocations.
LEMMA DeliveryRest ==
    ASSUME DeliveryInv,
           (\E t \in tasks : LoseOutcome(t)) \/ Restart \/ Revoke \/ Reconfirm \/ UNCHANGED vars
    PROVE  /\ DeliveryInv' /\ UNCHANGED <<rows, box, raced>>
           /\ \/ req' = req /\ faults' = faults
              \/ faults' > 0 /\ faults' \in Nat /\ (req' = req \/ req' = [c \in Reqs |-> Idle])
<1>0. TypeOK /\ Idle \in Request /\ faults \in Nat /\ asks \in Nat
  BY IdleRequest, PeopleAssumption DEF DeliveryInv, TypeOK
<1>1. CASE \E t \in tasks : LoseOutcome(t)
  <2>1. /\ tasks' \subseteq tasks /\ faults < MaxFaults /\ faults' = faults + 1
        /\ UNCHANGED <<rows, box, req, pass, confirmed, raced, asks>>
    BY <1>1 DEF LoseOutcome
  <2>2. TypeOK'
    BY <1>0, <2>1, PeopleAssumption DEF TypeOK
  <2> QED BY <1>0, <2>1, <2>2, DeliveryFewer
<1>2. CASE Restart
  <2>1. /\ tasks' = {} /\ faults < MaxFaults /\ faults' = faults + 1
        /\ req' = [c \in Reqs |-> Idle]
        /\ UNCHANGED <<rows, box, pass, confirmed, raced, asks>>
    BY <1>2 DEF Restart
  <2>2. TypeOK'
    BY <1>0, <2>1, PeopleAssumption DEF TypeOK
  <2>3. \A d \in Reqs : req'[d] = Idle
    BY <2>1
  <2> QED BY <1>0, <2>1, <2>2, <2>3, DeliveryFewer
<1>3. CASE Revoke \/ Reconfirm
  <2>1. /\ pass' \in {{}, People} /\ confirmed' \in BOOLEAN /\ asks < MaxAsks /\ asks' = asks + 1
        /\ UNCHANGED <<rows, tasks, box, req, faults, raced>>
    BY <1>3 DEF Revoke, Reconfirm, OneMoreAsk
  <2>2. TypeOK'
    BY <1>0, <2>1, PeopleAssumption DEF TypeOK
  <2> QED BY <2>1, <2>2, DeliveryFewer
<1>4. CASE UNCHANGED vars
  <2>1. UNCHANGED <<rows, tasks, box, req, pass, asks, confirmed, faults, raced>>
    BY <1>4 DEF vars
  <2>2. TypeOK'
    BY <1>0, <2>1 DEF TypeOK
  <2> QED BY <2>1, <2>2, DeliveryFewer
<1> QED BY <1>1, <1>2, <1>3, <1>4

\* The steps of the system, one by one.
LEMMA DeliverySteps ==
    ASSUME [Next]_vars
    PROVE  \/ \E c \in Reqs : \/ Ask(c) \/ Post(c) \/ ResendCommit(c)
                              \/ \E p \in req[c].todo : \/ Look(c, p) \/ CampaignPost(c, p)
                                                       \/ SkipOne(c, p)
                                                       \/ \E ok \in BOOLEAN : ResendOne(c, p, ok)
           \/ \E t \in tasks : Settle(t) \/ \E ok \in BOOLEAN : Smtp(t, ok)
           \/ \E n \in Ids : Resend(n)
           \/ (\E t \in tasks : LoseOutcome(t)) \/ Restart \/ Revoke \/ Reconfirm \/ UNCHANGED vars
BY DEF Next, Step, Deliver

LEMMA DeliveryInit == Init => DeliveryInv
<1> SUFFICES ASSUME Init
             PROVE  DeliveryInv
  OBVIOUS
<1>1. /\ rows = <<>> /\ tasks = {} /\ box = {} /\ req = [c \in Reqs |-> Idle]
      /\ pass \subseteq People /\ confirmed = TRUE /\ asks = 0 /\ faults = 0 /\ raced = {}
  BY PeopleAssumption DEF Init
<1>2. rows \in Seq(Row) /\ Len(rows) = 0 /\ Ids = {}
  BY <1>1, EmptySeq DEF Ids
<1>3. TypeOK
  BY <1>1, <1>2, IdleRequest, PeopleAssumption DEF TypeOK
<1>4. \A c \in Reqs : ~ Serving(c) /\ ~ Posting(c)
  BY <1>1, IdleRequest DEF Serving, Posting
<1> QED BY <1>1, <1>2, <1>3, <1>4 DEF DeliveryInv

LEMMA DeliveryStep == DeliveryInv /\ [Next]_vars => DeliveryInv'
<1> SUFFICES ASSUME DeliveryInv, [Next]_vars
             PROVE  DeliveryInv'
  OBVIOUS
<1>1. ASSUME NEW c \in Reqs, Ask(c)
      PROVE  DeliveryInv'
  BY <1>1, AskCases, DeliveryBegin
<1>2. ASSUME NEW c \in Reqs, Post(c) \/ ResendCommit(c)
      PROVE  DeliveryInv'
  BY <1>2, DeliveryPost, DeliveryCommit
<1>3. ASSUME NEW c \in Reqs, NEW p \in req[c].todo,
             \/ Look(c, p) \/ CampaignPost(c, p) \/ SkipOne(c, p)
             \/ \E ok \in BOOLEAN : ResendOne(c, p, ok)
      PROVE  DeliveryInv'
  BY <1>3, DeliveryLook, DeliveryCampaign, DeliverySkip, DeliveryResendOne
<1>4. ASSUME NEW t \in tasks, Settle(t) \/ \E ok \in BOOLEAN : Smtp(t, ok)
      PROVE  DeliveryInv'
  BY <1>4, DeliverySettled, DeliverySmtp
<1> QED BY <1>1, <1>2, <1>3, <1>4, DeliveryResend, DeliveryRest, DeliverySteps

\* Rows, tasks, mails and requests belong together, in every state.
THEOREM DeliveryInvariant == Spec => []DeliveryInv
<1> QED BY DeliveryInit, DeliveryStep, PTL DEF Spec

\* Notifications, tasks, mails and requests have their types.
THEOREM NotificationTypes == Spec => []TypeOK
<1>1. DeliveryInv => TypeOK
  BY DEF DeliveryInv
<1> QED BY <1>1, DeliveryInvariant, PTL

\* A confirmation marked SENT has reached its participant with the pass,
\* whatever background deliveries, resends and restarts interleave
\* (notification_service.py:162, 299).
THEOREM SentIsDelivered == Spec => []SentMeansDelivered
<1>1. DeliveryInv => SentMeansDelivered
  BY DEF DeliveryInv, RowSound, SentMeansDelivered
<1> QED BY <1>1, DeliveryInvariant, PTL

-----------------------------------------------------------------------------
(* One confirmation for each participant.                                  *)

\* An update of a row whose delivery is over, or that its request commits,
\* changes neither what it is nor whether it counts, unless it is resent.
LEMMA RowUpdates ==
    ASSUME DeliveryInv,
           \/ \E t \in tasks : Settle(t)
           \/ \E n \in Ids : Resend(n)
           \/ \E c \in Reqs : ResendCommit(c)
    PROVE  /\ Ids' = Ids /\ raced' = raced /\ faults' = faults
           /\ \A m \in Ids : /\ rows'[m].kind = rows[m].kind /\ rows'[m].key = rows[m].key
                             /\ rows'[m].for = rows[m].for
                             /\ rows'[m].status = "UNCOMMITTED" => rows'[m] = rows[m]
                             /\ rows'[m].kind = "confirm" /\ ~ rows'[m].resent
                                  => ~ rows[m].resent /\ (rows[m].status = "PENDING" \/ rows'[m] = rows[m])
<1>0. TypeOK
  BY DEF DeliveryInv
<1> DEFINE After(n, x) == /\ rows' = [rows EXCEPT ![n] = x] /\ x \in Row
                          /\ x.kind = rows[n].kind /\ x.key = rows[n].key /\ x.for = rows[n].for
                          /\ x.status # "UNCOMMITTED"
                          /\ x.kind = "confirm" /\ ~ x.resent
                               => ~ rows[n].resent /\ rows[n].status = "PENDING"
<1>1. ASSUME NEW t \in tasks, Settle(t)
      PROVE  t.row \in Ids /\ raced' = raced /\ faults' = faults /\ \E x : After(t.row, x)
  <2> DEFINE x == [rows[t.row] EXCEPT !.status = IF t.outcome = "accepted" THEN "SENT" ELSE "FAILED"]
  <2>1. TaskSound(t) /\ t.row \in Ids
    BY <1>1 DEF DeliveryInv, TaskSound
  <2>2. rows[t.row] \in Row
    BY <1>0, <2>1, RowTypes
  <2>3. rows' = [rows EXCEPT ![t.row] = x] /\ raced' = raced /\ faults' = faults
    BY <1>1 DEF Settle
  <2>4. /\ x \in Row /\ x.kind = rows[t.row].kind /\ x.key = rows[t.row].key
        /\ x.for = rows[t.row].for /\ x.status # "UNCOMMITTED" /\ x.resent = rows[t.row].resent
    BY <2>2 DEF Row
  <2> HIDE DEF x
  <2>5. After(t.row, x)
    BY <2>1, <2>3, <2>4 DEF TaskSound
  <2> QED BY <2>1, <2>3, <2>5
<1>2. ASSUME NEW n \in Ids, Resend(n)
      PROVE  raced' = raced /\ faults' = faults /\ \E x : After(n, x)
  <2> DEFINE to == Owner(rows[n].for)
             x == [rows[n] EXCEPT !.resent = TRUE,
                                  !.status = IF to \in Reachable THEN "PENDING" ELSE "FAILED"]
  <2>1. rows[n] \in Row
    BY <1>0, RowTypes
  <2>2. /\ rows' = [rows EXCEPT ![n].resent = TRUE,
                                ![n].status = IF to \in Reachable THEN "PENDING" ELSE "FAILED"]
        /\ raced' = raced /\ faults' = faults
    BY <1>2 DEF Resend
  <2>3. rows' = [rows EXCEPT ![n] = x]
    BY <2>1, <2>2 DEF Row
  <2>4. /\ x \in Row /\ x.kind = rows[n].kind /\ x.key = rows[n].key /\ x.for = rows[n].for
        /\ x.status # "UNCOMMITTED" /\ x.resent = TRUE
    BY <2>1 DEF Row
  <2> HIDE DEF x
  <2> QED BY <2>2, <2>3, <2>4
<1>3. ASSUME NEW c \in Reqs, ResendCommit(c)
      PROVE  req[c].row \in Ids /\ raced' = raced /\ faults' = faults /\ \E x : After(req[c].row, x)
  <2> DEFINE n == req[c].row
             x == [rows[n] EXCEPT !.status = IF req[c].step = "accepted" THEN "SENT" ELSE "FAILED"]
  <2>1. Serving(c) /\ OwnsRow(c)
    BY <1>3 DEF DeliveryInv, ResendCommit, Serving
  <2>2. n \in Ids /\ rows[n] \in Row /\ rows[n].kind = "admin"
    BY <1>0, <2>1, RowTypes DEF OwnsRow
  <2>3. rows' = [rows EXCEPT ![n] = x] /\ raced' = raced /\ faults' = faults
    BY <1>3 DEF ResendCommit
  <2>4. /\ x \in Row /\ x.kind = rows[n].kind /\ x.key = rows[n].key /\ x.for = rows[n].for
        /\ x.status # "UNCOMMITTED"
    BY <2>2 DEF Row
  <2> HIDE DEF x
  <2>5. After(n, x)
    BY <2>2, <2>3, <2>4
  <2> QED BY <2>2, <2>3, <2>5
<1>4. ASSUME NEW n \in Ids, NEW x, After(n, x)
      PROVE  /\ Ids' = Ids
             /\ \A m \in Ids : /\ rows'[m].kind = rows[m].kind /\ rows'[m].key = rows[m].key
                               /\ rows'[m].for = rows[m].for
                               /\ rows'[m].status = "UNCOMMITTED" => rows'[m] = rows[m]
                               /\ rows'[m].kind = "confirm" /\ ~ rows'[m].resent
                                    => ~ rows[m].resent /\ (rows[m].status = "PENDING" \/ rows'[m] = rows[m])
  <2>1. /\ rows' = [rows EXCEPT ![n] = x] /\ x \in Row
    BY <1>4
  <2>2. Ids' = Ids /\ rows'[n] = x /\ \A m \in Ids \ {n} : rows'[m] = rows[m]
    BY <1>0, <2>1, RowChanged
  <2> QED BY <1>4, <2>2
<1> HIDE DEF After
<1> QED BY <1>1, <1>2, <1>3, <1>4

LEMMA ConfirmFrame ==
    ASSUME ConfirmInv, raced \subseteq raced',
           \A p \in People, n \in Ids' : Counts(n, p)' => n \in Ids /\ Counts(n, p),
           \A d \in Reqs : Posting(d)' => Posting(d) /\ req'[d].who = req[d].who
    PROVE  ConfirmInv'
<1> SUFFICES ASSUME NEW p \in People, p \notin raced'
             PROVE  /\ \A m, n \in Ids' : Counts(m, p)' /\ Counts(n, p)' => m = n
                    /\ \A c \in Reqs : Posting(c)' /\ req'[c].who = p => \A n \in Ids' : ~ Counts(n, p)'
                    /\ \A c, d \in Reqs : Posting(c)' /\ Posting(d)' /\ req'[c].who = p /\ req'[d].who = p => c = d
  BY DEF ConfirmInv
<1>1. p \in People \ raced
  OBVIOUS
<1> QED BY <1>1 DEF ConfirmInv

\* Looking for an earlier confirmation: who else is about to post one for p
\* is a race.
LEMMA ConfirmLook ==
    ASSUME DeliveryInv, ConfirmInv, NEW c \in Reqs, NEW p \in req[c].todo, Look(c, p)
    PROVE  ConfirmInv'
<1>1. /\ UNCHANGED <<rows, tasks, box, faults>> /\ raced \subseteq raced'
      /\ \A d \in Reqs \ {c} : req'[d] = req[d]
      /\ \/ ~ Posting(c)'
         \/ /\ req'[c].who = p /\ p \in People /\ ~ ConfirmationWasSent(p)
            /\ \A d \in Reqs : Posting(d) /\ req[d].who = p => p \in raced'
  BY DeliveryLook
<1>2. Ids' = Ids /\ \A q \in People, n \in Ids : Counts(n, q)' <=> Counts(n, q)
  BY <1>1 DEF Ids, Counts
<1>3. \A d \in Reqs \ {c} : Posting(d)' <=> Posting(d)
  BY <1>1 DEF Posting
<1>4. CASE ~ Posting(c)'
  BY <1>1, <1>2, <1>3, <1>4, ConfirmFrame
<1>5. CASE /\ req'[c].who = p /\ p \in People /\ ~ ConfirmationWasSent(p)
           /\ \A d \in Reqs : Posting(d) /\ req[d].who = p => p \in raced'
  <2>1. \A n \in Ids : ~ Counts(n, p)
    BY <1>5 DEF Counts, ConfirmationWasSent
  <2>2. SUFFICES ASSUME NEW q \in People, q \notin raced'
                 PROVE  /\ \A m, n \in Ids' : Counts(m, q)' /\ Counts(n, q)' => m = n
                        /\ \A d \in Reqs : Posting(d)' /\ req'[d].who = q => \A n \in Ids' : ~ Counts(n, q)'
                        /\ \A d, e \in Reqs : Posting(d)' /\ Posting(e)' /\ req'[d].who = q /\ req'[e].who = q => d = e
    BY DEF ConfirmInv
  <2>3. q \in People \ raced
    BY <1>1, <2>2
  <2>4. \A m, n \in Ids' : Counts(m, q)' /\ Counts(n, q)' => m = n
    BY <1>2, <2>3 DEF ConfirmInv
  <2>5. CASE q = p
    BY <1>1, <1>2, <1>3, <1>5, <2>1, <2>2, <2>4, <2>5
  <2>6. CASE q # p
    BY <1>1, <1>2, <1>3, <1>5, <2>3, <2>4, <2>6 DEF ConfirmInv
  <2> QED BY <2>5, <2>6
<1> QED BY <1>1, <1>4, <1>5

LEMMA ConfirmPost ==
    ASSUME DeliveryInv, ConfirmInv, NEW c \in Reqs, Post(c)
    PROVE  ConfirmInv'
<1> DEFINE p == req[c].who
           x == NewRow("confirm", NoKey, p, "PENDING")
<1>0. TypeOK
  BY DEF DeliveryInv
<1>1. /\ UNCHANGED <<faults, raced>> /\ p \in People /\ Posting(c) /\ ~ Posting(c)'
      /\ \A d \in Reqs \ {c} : req'[d] = req[d]
      /\ Len(rows) < MaxRows /\ rows' = Append(rows, x) /\ x \in Row
  BY DeliveryPost
<1>2. x.for = p
  BY DEF NewRow
<1> HIDE DEF x
<1>3. PICK k : Ids' = Ids \cup {k} /\ k \notin Ids /\ rows'[k] = x /\ \A n \in Ids : rows'[n] = rows[n]
  BY <1>0, <1>1, RowAdded
<1> HIDE DEF p
<1>4. \A d \in Reqs : Posting(d)' => d # c /\ Posting(d) /\ req'[d].who = req[d].who
  BY <1>1 DEF Posting
<1>5. \A q \in People, n \in Ids : Counts(n, q)' <=> Counts(n, q)
  BY <1>3 DEF Counts
<1>6. \A q \in People : Counts(k, q)' => q = p
  BY <1>2, <1>3 DEF Counts
<1>7. SUFFICES ASSUME NEW q \in People, q \notin raced
               PROVE  /\ \A m, n \in Ids' : Counts(m, q)' /\ Counts(n, q)' => m = n
                      /\ \A d \in Reqs : Posting(d)' /\ req'[d].who = q => \A n \in Ids' : ~ Counts(n, q)'
                      /\ \A d, e \in Reqs : Posting(d)' /\ Posting(e)' /\ req'[d].who = q /\ req'[e].who = q => d = e
  BY <1>1 DEF ConfirmInv
<1>8. /\ \A m, n \in Ids : Counts(m, q) /\ Counts(n, q) => m = n
      /\ \A d \in Reqs : Posting(d) /\ req[d].who = q => \A n \in Ids : ~ Counts(n, q)
      /\ \A d, e \in Reqs : Posting(d) /\ Posting(e) /\ req[d].who = q /\ req[e].who = q => d = e
  BY <1>7 DEF ConfirmInv
<1>9. CASE q = p
  <2>1. (\A n \in Ids : ~ Counts(n, q)) /\ \A d \in Reqs : Posting(d) /\ req[d].who = q => d = c
    BY <1>1, <1>8, <1>9 DEF p
  <2> QED BY <1>3, <1>4, <1>5, <2>1
<1>10. CASE q # p
  BY <1>3, <1>4, <1>5, <1>6, <1>8, <1>10
<1> QED BY <1>9, <1>10

LEMMA ConfirmInit == Init => ConfirmInv
<1> SUFFICES ASSUME Init
             PROVE  ConfirmInv
  OBVIOUS
<1>1. Ids = {} /\ \A c \in Reqs : ~ Posting(c)
  BY IdleRequest DEF Init, Ids, Posting
<1> QED BY <1>1 DEF ConfirmInv

LEMMA ConfirmStep == DeliveryInv /\ ConfirmInv /\ [Next]_vars => ConfirmInv'
<1> SUFFICES ASSUME DeliveryInv, ConfirmInv, [Next]_vars
             PROVE  ConfirmInv'
  OBVIOUS
<1>0. TypeOK /\ Idle.op = "idle"
  BY IdleRequest DEF DeliveryInv
<1>1. ASSUME NEW c \in Reqs, Ask(c)
      PROVE  ConfirmInv'
  <2>1. PICK op \in {"confirm", "admin", "campaign"}, key \in Keys \cup {NoKey},
             todo \in SUBSET (People \cup {NoProfile}) : Begin(c, op, key, todo)
    BY <1>1, AskCases
  <2>2. /\ \A d \in Reqs \ {c} : req'[d] = req[d]
        /\ ~ Posting(c)' /\ rows' = rows /\ raced \subseteq raced'
    BY <1>0, <2>1, Begun
  <2>3. \A p \in People, n \in Ids' : Counts(n, p)' => n \in Ids /\ Counts(n, p)
    BY <2>2 DEF Ids, Counts
  <2>4. \A d \in Reqs : Posting(d)' => Posting(d) /\ req'[d].who = req[d].who
    BY <2>2 DEF Posting
  <2> QED BY <2>2, <2>3, <2>4, ConfirmFrame
<1>2. ASSUME NEW c \in Reqs, NEW p \in req[c].todo, CampaignPost(c, p)
      PROVE  ConfirmInv'
  <2> DEFINE x == NewRow("campaign", req[c].key, p, IF p \in Reachable THEN "PENDING" ELSE "FAILED")
  <2>1. /\ raced' = raced /\ ~ Posting(c)' /\ \A d \in Reqs \ {c} : req'[d] = req[d]
        /\ \/ rows' = rows
           \/ Len(rows) < MaxRows /\ rows' = Append(rows, x) /\ x \in Row
    BY <1>2, DeliveryCampaign
  <2>2. x.kind = "campaign"
    BY DEF NewRow
  <2> HIDE DEF x
  <2>3. \A q \in People, n \in Ids' : Counts(n, q)' => n \in Ids /\ Counts(n, q)
    <3>1. CASE rows' = rows
      BY <3>1 DEF Ids, Counts
    <3>2. CASE Len(rows) < MaxRows /\ rows' = Append(rows, x) /\ x \in Row
      <4>1. PICK k : Ids' = Ids \cup {k} /\ rows'[k] = x /\ \A n \in Ids : rows'[n] = rows[n]
        BY <1>0, <3>2, RowAdded
      <4> QED BY <2>2, <4>1 DEF Counts
    <3> QED BY <2>1, <3>1, <3>2
  <2>4. \A d \in Reqs : Posting(d)' => Posting(d) /\ req'[d].who = req[d].who
    BY <2>1 DEF Posting
  <2> QED BY <2>1, <2>3, <2>4, ConfirmFrame
<1>3. ASSUME NEW c \in Reqs, NEW p \in req[c].todo, NEW ok \in BOOLEAN, ResendOne(c, p, ok)
      PROVE  ConfirmInv'
  <2> DEFINE x == NewRow("admin", req[c].key, p, "UNCOMMITTED")
  <2>1. /\ Serving(c)' /\ \A d \in Reqs \ {c} : req'[d] = req[d]
        /\ Len(rows) < MaxRows /\ rows' = Append(rows, x) /\ raced' = raced /\ x \in Row
    BY <1>3, DeliveryResendOne
  <2>2. x.kind = "admin"
    BY DEF NewRow
  <2> HIDE DEF x
  <2>3. PICK k : Ids' = Ids \cup {k} /\ rows'[k] = x /\ \A n \in Ids : rows'[n] = rows[n]
    BY <1>0, <2>1, RowAdded
  <2>4. \A q \in People, n \in Ids' : Counts(n, q)' => n \in Ids /\ Counts(n, q)
    BY <2>2, <2>3 DEF Counts
  <2>5. \A d \in Reqs : Posting(d)' => Posting(d) /\ req'[d].who = req[d].who
    BY <2>1 DEF Posting, Serving
  <2> QED BY <2>1, <2>4, <2>5, ConfirmFrame
<1>4. ASSUME NEW c \in Reqs, NEW p \in req[c].todo, SkipOne(c, p)
      PROVE  ConfirmInv'
  <2>1. /\ UNCHANGED <<rows, raced>> /\ ~ Posting(c)' /\ \A d \in Reqs \ {c} : req'[d] = req[d]
    BY <1>4, DeliverySkip
  <2>2. \A q \in People, n \in Ids' : Counts(n, q)' => n \in Ids /\ Counts(n, q)
    BY <2>1 DEF Ids, Counts
  <2>3. \A d \in Reqs : Posting(d)' => Posting(d) /\ req'[d].who = req[d].who
    BY <2>1 DEF Posting
  <2> QED BY <2>1, <2>2, <2>3, ConfirmFrame
<1>5. ASSUME NEW t \in tasks, NEW ok \in BOOLEAN, Smtp(t, ok)
      PROVE  ConfirmInv'
  <2>1. UNCHANGED <<rows, req, raced>>
    BY <1>5 DEF Smtp
  <2>2. \A q \in People, n \in Ids' : Counts(n, q)' => n \in Ids /\ Counts(n, q)
    BY <2>1 DEF Ids, Counts
  <2>3. \A d \in Reqs : Posting(d)' => Posting(d) /\ req'[d].who = req[d].who
    BY <2>1 DEF Posting
  <2> QED BY <2>1, <2>2, <2>3, ConfirmFrame
<1>6. ASSUME \/ \E t \in tasks : Settle(t)
             \/ \E n \in Ids : Resend(n)
             \/ \E c \in Reqs : ResendCommit(c)
      PROVE  ConfirmInv'
  <2>1. /\ Ids' = Ids /\ raced' = raced
        /\ \A m \in Ids : /\ rows'[m].kind = rows[m].kind /\ rows'[m].for = rows[m].for
                          /\ rows'[m].kind = "confirm" /\ ~ rows'[m].resent
                               => ~ rows[m].resent /\ (rows[m].status = "PENDING" \/ rows'[m] = rows[m])
    BY <1>6, RowUpdates
  <2>2. \A q \in People, n \in Ids' : Counts(n, q)' => n \in Ids /\ Counts(n, q)
    BY <2>1 DEF Counts
  <2>3. \A d \in Reqs : Posting(d)' => Posting(d) /\ req'[d].who = req[d].who
    <3>1. CASE \/ \E t \in tasks : Settle(t)
               \/ \E n \in Ids : Resend(n)
      <4>1. req' = req
        BY <3>1 DEF Settle, Resend
      <4> QED BY <4>1 DEF Posting
    <3>2. ASSUME NEW c \in Reqs, ResendCommit(c)
          PROVE  \A d \in Reqs : Posting(d)' => Posting(d) /\ req'[d].who = req[d].who
      <4>1. Next1(c, req[c].who)
        BY <3>2 DEF ResendCommit
      <4>2. ~ Posting(c)' /\ \A d \in Reqs \ {c} : req'[d] = req[d]
        BY <1>0, <4>1, AfterRecipient
      <4> QED BY <4>2 DEF Posting
    <3> QED BY <1>6, <3>1, <3>2
  <2> QED BY <2>1, <2>2, <2>3, ConfirmFrame
<1>7. ASSUME (\E t \in tasks : LoseOutcome(t)) \/ Restart \/ Revoke \/ Reconfirm \/ UNCHANGED vars
      PROVE  ConfirmInv'
  <2>1. /\ UNCHANGED <<rows, raced>> /\ (req' = req \/ req' = [c \in Reqs |-> Idle])
    BY <1>7, DeliveryRest
  <2>2. \A q \in People, n \in Ids' : Counts(n, q)' => n \in Ids /\ Counts(n, q)
    BY <2>1 DEF Ids, Counts
  <2>3. \A d \in Reqs : Posting(d)' => Posting(d) /\ req'[d].who = req[d].who
    BY <1>0, <2>1 DEF Posting
  <2> QED BY <2>1, <2>2, <2>3, ConfirmFrame
<1> QED BY <1>1, <1>2, <1>3, <1>4, <1>5, <1>6, <1>7, ConfirmLook, ConfirmPost, DeliverySteps

\* A participant gets a second confirmation of the payment only when two
\* requests looked for the first one at the same time, when the first one
\* failed or when it was resent (confirmation_email.py:417).
THEOREM OneConfirmation == Spec => []OneConfirmationEach
<1>1. Spec => []ConfirmInv
  BY ConfirmInit, ConfirmStep, DeliveryInvariant, PTL DEF Spec
<1>2. ConfirmInv => OneConfirmationEach
  <2> SUFFICES ASSUME ConfirmInv, NEW p \in People \ raced
               PROVE  Cardinality({n \in Ids : rows[n].kind = "confirm" /\ rows[n].for = p
                        /\ ~ rows[n].resent /\ rows[n].status \in {"SENT", "PENDING"}}) <= 1
    BY DEF OneConfirmationEach
  <2> DEFINE S == {n \in Ids : rows[n].kind = "confirm" /\ rows[n].for = p
                     /\ ~ rows[n].resent /\ rows[n].status \in {"SENT", "PENDING"}}
  <2>1. \A m, n \in S : m = n
    BY DEF ConfirmInv, Counts
  <2> HIDE DEF S
  <2>2. Cardinality(S) \in {0, 1}
    BY <2>1, AtMostOne
  <2>3. Cardinality(S) <= 1
    BY <2>2
  <2> QED BY <2>3 DEF S
<1> QED BY <1>1, <1>2, PTL

-----------------------------------------------------------------------------
(* One mail for each key and participant.                                  *)

\* No row becomes keyed and no request asks for more.
LEMMA KeyFrame ==
    ASSUME NEW kind, NEW k, KeyHolds(kind, k),
           \A p \in People, n \in Ids' : Keyed(n, kind, k, p)' => n \in Ids /\ Keyed(n, kind, k, p),
           \A d \in Reqs : Asks(d, kind, k)' => Asks(d, kind, k),
           \A d \in Reqs, p \in People :
             Asks(d, kind, k)' /\ ToServe(d, p)' => ToServe(d, p)
    PROVE  KeyHolds(kind, k)'
BY DEF KeyHolds

\* A request makes the row of its next recipient.
LEMMA KeyAdded ==
    ASSUME TypeOK, NEW kind, NEW k, KeyHolds(kind, k), NEW c \in Reqs, NEW p \in People,
           NEW x \in Row, Len(rows) < MaxRows, rows' = Append(rows, x),
           x.kind = kind /\ x.key = k => Asks(c, kind, k) /\ ToServe(c, p) /\ x.for = p,
           \A d \in Reqs \ {c} : req'[d] = req[d],
           Asks(c, kind, k)' => Asks(c, kind, k),
           \A q \in People : Asks(c, kind, k)' /\ ToServe(c, q)' => ToServe(c, q) /\ q # p
    PROVE  KeyHolds(kind, k)'
<1>1. PICK i : /\ Ids' = Ids \cup {i} /\ i \notin Ids
               /\ rows'[i] = x /\ \A n \in Ids : rows'[n] = rows[n]
  BY RowAdded
<1>2. \A q \in People, n \in Ids : Keyed(n, kind, k, q)' <=> Keyed(n, kind, k, q)
  BY <1>1 DEF Keyed
<1>3. \A q \in People : Keyed(i, kind, k, q)' => q = p /\ Asks(c, kind, k) /\ ToServe(c, p)
  BY <1>1 DEF Keyed
<1>4. \A d \in Reqs : Asks(d, kind, k)' => Asks(d, kind, k)
  BY DEF Asks
<1>5. \A d \in Reqs, q \in People :
        Asks(d, kind, k)' /\ ToServe(d, q)' => ToServe(d, q) /\ (d = c => q # p)
  BY DEF ToServe, Serving
<1>6. \A d, e \in Reqs : Asks(d, kind, k) /\ Asks(e, kind, k) => d = e
  BY DEF KeyHolds
<1>7. ASSUME NEW q \in People
      PROVE  /\ \A m, n \in Ids' : Keyed(m, kind, k, q)' /\ Keyed(n, kind, k, q)' => m = n
             /\ \A d \in Reqs : Asks(d, kind, k)' /\ ToServe(d, q)'
                  => \A n \in Ids' : ~ Keyed(n, kind, k, q)'
  <2>1. /\ \A m, n \in Ids : Keyed(m, kind, k, q) /\ Keyed(n, kind, k, q) => m = n
        /\ \A d \in Reqs : Asks(d, kind, k) /\ ToServe(d, q) => \A n \in Ids : ~ Keyed(n, kind, k, q)
    BY DEF KeyHolds
  <2>2. CASE Keyed(i, kind, k, q)'
    <3>1. q = p /\ Asks(c, kind, k) /\ \A n \in Ids : ~ Keyed(n, kind, k, q)
      BY <1>3, <2>1, <2>2
    <3>2. \A d \in Reqs : Asks(d, kind, k)' => d = c
      BY <1>4, <1>6, <3>1
    <3> QED BY <1>1, <1>2, <1>5, <3>1, <3>2
  <2>3. CASE ~ Keyed(i, kind, k, q)'
    BY <1>1, <1>2, <1>4, <1>5, <2>1, <2>3
  <2> QED BY <2>2, <2>3
<1> QED BY <1>4, <1>6, <1>7 DEF KeyHolds

\* A request begins with a key no row has: campaign_exists,
\* _admin_resend_request_exists.
LEMMA KeyBegun ==
    ASSUME DeliveryInv, Accounted, NEW kind \in {"campaign", "admin"}, NEW k \in Keys,
           KeyHolds(kind, k), kind = "admin" => faults = 0,
           NEW c \in Reqs, NEW op \in {"confirm", "admin", "campaign"},
           NEW key \in Keys \cup {NoKey}, NEW todo \in SUBSET (People \cup {NoProfile}),
           Begin(c, op, key, todo), op \in {"admin", "campaign"} /\ key # NoKey => ~ KeyUsed(op, key),
           k \notin raced'
    PROVE  KeyHolds(kind, k)'
<1>0. TypeOK
  BY DEF DeliveryInv
<1>1. /\ \A d \in Reqs \ {c} : req'[d] = req[d]
      /\ req'[c].op = op /\ req'[c].key = key
      /\ rows' = rows
  BY <1>0 DEF Begin, Update, Idle, TypeOK
<1>6. ASSUME NEW d \in Reqs, key # NoKey, Asks(d, op, key)
      PROVE  key \in raced'
  BY <1>6 DEF Begin, Asks
<1>2. /\ Ids' = Ids /\ \A n \in Ids, p \in People : Keyed(n, kind, k, p)' <=> Keyed(n, kind, k, p)
  BY <1>1 DEF Ids, Keyed
<1>3. \A d \in Reqs \ {c} : /\ Asks(d, kind, k)' => Asks(d, kind, k)
                            /\ \A p \in People : ToServe(d, p)' => ToServe(d, p)
  BY <1>1 DEF Asks, ToServe, Serving
<1>4. CASE ~ (op = kind /\ key = k)
  <2>1. ~ Asks(c, kind, k)'
    BY <1>1, <1>4 DEF Asks
  <2> QED BY <1>2, <1>3, <2>1, KeyFrame
<1>5. CASE op = kind /\ key = k
  <2>1. k # NoKey /\ ~ KeyUsed(kind, k) /\ \A d \in Reqs : ~ Asks(d, kind, k)
    BY <1>5, <1>6, PeopleAssumption
  <2>2. ASSUME NEW n \in Ids, rows[n].kind = kind, rows[n].key = k
        PROVE  FALSE
    <3>1. rows[n].status = "UNCOMMITTED" /\ kind = "admin"
      BY <2>1, <2>2 DEF KeyUsed, Visible, DeliveryInv, RowSound
    <3>2. PICK d \in Reqs : Serving(d) /\ req[d].row = n
      BY <3>1 DEF Accounted
    <3>3. Asks(d, kind, k)
      BY <2>2, <3>1, <3>2 DEF DeliveryInv, OwnsRow, Serving, Asks
    <3> QED BY <2>1, <3>3
  <2>3. \A n \in Ids, p \in People : ~ Keyed(n, kind, k, p)
    BY <2>2 DEF Keyed
  <2>4. \A d \in Reqs : Asks(d, kind, k)' => d = c
    BY <1>3, <2>1
  <2> QED BY <1>2, <2>3, <2>4 DEF KeyHolds
<1> QED BY <1>4, <1>5

LEMMA AccountedFrame ==
    ASSUME Accounted, faults' = 0 => faults = 0,
           \A n \in Ids' : rows'[n].status = "UNCOMMITTED" =>
             \/ \E c \in Reqs : Serving(c)' /\ req'[c].row = n
             \/ /\ n \in Ids /\ rows[n].status = "UNCOMMITTED"
                /\ \A d \in Reqs : Serving(d) /\ req[d].row = n => req'[d] = req[d]
    PROVE  Accounted'
BY DEF Accounted, Serving

\* Which keys a step has to care for: those that held before it.
LEMMA KeyParts ==
    ASSUME KeyInv, raced \subseteq raced', faults' = 0 => faults = 0, Accounted',
           \A kind \in {"campaign", "admin"}, k \in Keys :
             KeyHolds(kind, k) /\ k \notin raced' /\ (kind = "admin" => faults = 0)
               => KeyHolds(kind, k)'
    PROVE  KeyInv'
BY DEF KeyInv

\* A step that makes no row of a campaign or an administrator's resend.
LEMMA KeyQuiet ==
    ASSUME KeyInv, raced \subseteq raced', faults' = 0 => faults = 0, Accounted',
           \A n \in Ids' : rows'[n].kind # "confirm" =>
             /\ n \in Ids /\ rows'[n].kind = rows[n].kind
             /\ rows'[n].key = rows[n].key /\ rows'[n].for = rows[n].for,
           \A d \in Reqs : \/ req'[d] = req[d]
                           \/ req'[d].op \notin {"campaign", "admin"}
                           \/ /\ req'[d].op = req[d].op /\ req'[d].key = req[d].key
                              /\ \A p \in People : ToServe(d, p)' => ToServe(d, p)
    PROVE  KeyInv'
<1>1. ASSUME NEW kind \in {"campaign", "admin"}, NEW k \in Keys, KeyHolds(kind, k)
      PROVE  KeyHolds(kind, k)'
  <2>1. \A p \in People, n \in Ids' : Keyed(n, kind, k, p)' => n \in Ids /\ Keyed(n, kind, k, p)
    BY DEF Keyed
  <2>2. ASSUME NEW d \in Reqs, Asks(d, kind, k)'
        PROVE  Asks(d, kind, k) /\ \A p \in People : ToServe(d, p)' => ToServe(d, p)
    BY <2>2 DEF Asks, ToServe, Serving
  <2> QED BY <1>1, <2>1, <2>2, KeyFrame
<1> QED BY <1>1, KeyParts

LEMMA KeyInit == Init => KeyInv
<1> SUFFICES ASSUME Init
             PROVE  KeyInv
  OBVIOUS
<1>1. Ids = {} /\ \A c \in Reqs : req[c].op = "idle"
  BY IdleRequest DEF Init, Ids
<1> QED BY <1>1 DEF KeyInv, Accounted, KeyHolds, Asks

LEMMA KeyAsk ==
    ASSUME DeliveryInv, KeyInv, NEW c \in Reqs, Ask(c)
    PROVE  KeyInv'
<1>0. TypeOK
  BY DEF DeliveryInv
<1>1. PICK op \in {"confirm", "admin", "campaign"}, key \in Keys \cup {NoKey},
           todo \in SUBSET (People \cup {NoProfile}) :
             Begin(c, op, key, todo)
             /\ (op \in {"admin", "campaign"} /\ key # NoKey => ~ KeyUsed(op, key))
  BY AskCases
<1>2. /\ \A d \in Reqs \ {c} : req'[d] = req[d]
      /\ req[c] = Idle /\ rows' = rows /\ faults' = faults /\ raced \subseteq raced'
  BY <1>0, <1>1, Begun
<1>3. ~ Serving(c)
  BY <1>2, IdleRequest DEF Serving
<1>4. Accounted'
  <2>1. Accounted /\ Ids' = Ids
    BY <1>2 DEF KeyInv, Ids
  <2> QED BY <1>2, <1>3, <2>1, AccountedFrame
<1>5. \A kind \in {"campaign", "admin"}, k \in Keys :
        KeyHolds(kind, k) /\ k \notin raced' /\ (kind = "admin" => faults = 0)
          => KeyHolds(kind, k)'
  BY <1>1, KeyBegun DEF KeyInv
<1> QED BY <1>2, <1>4, <1>5, KeyParts

LEMMA KeyCampaign ==
    ASSUME DeliveryInv, KeyInv, NEW c \in Reqs, NEW p \in req[c].todo, CampaignPost(c, p)
    PROVE  KeyInv'
<1> DEFINE x == NewRow("campaign", req[c].key, p, IF p \in Reachable THEN "PENDING" ELSE "FAILED")
<1>0. TypeOK
  BY DEF DeliveryInv
<1>1. /\ UNCHANGED <<faults, raced>> /\ ~ Serving(c)' /\ ~ Serving(c) /\ req[c].op = "campaign"
      /\ \A d \in Reqs \ {c} : req'[d] = req[d]
      /\ \/ req'[c].op = "idle"
         \/ /\ req'[c].op = "campaign" /\ req'[c].key = req[c].key
            /\ req'[c].todo = req[c].todo \ {p}
      /\ \/ rows' = rows /\ req'[c].op = "idle"
         \/ p \in People /\ Len(rows) < MaxRows /\ rows' = Append(rows, x) /\ x \in Row
  BY DeliveryCampaign
<1>2. x.kind = "campaign" /\ x.key = req[c].key /\ x.for = p /\ x.status # "UNCOMMITTED"
  BY DEF NewRow
<1> HIDE DEF x
<1>3. CASE rows' = rows /\ req'[c].op = "idle"
  <2>1. Accounted'
    <3>1. Accounted /\ Ids' = Ids
      BY <1>3 DEF KeyInv, Ids
    <3> QED BY <1>1, <1>3, <3>1, AccountedFrame
  <2>2. Ids' = Ids
    BY <1>3 DEF Ids
  <2> QED BY <1>1, <1>3, <2>1, <2>2, KeyQuiet
<1>4. CASE p \in People /\ Len(rows) < MaxRows /\ rows' = Append(rows, x) /\ x \in Row
  <2>1. PICK i : /\ Ids' = Ids \cup {i} /\ rows'[i] = x /\ \A n \in Ids : rows'[n] = rows[n]
    BY <1>0, <1>4, RowAdded
  <2>2. Accounted'
    <3>1. Accounted
      BY DEF KeyInv
    <3> QED BY <1>1, <1>2, <2>1, <3>1, AccountedFrame
  <2>3. ASSUME NEW kind \in {"campaign", "admin"}, NEW k \in Keys, KeyHolds(kind, k)
        PROVE  KeyHolds(kind, k)'
    <3>1. x.kind = kind /\ x.key = k => Asks(c, kind, k) /\ ToServe(c, p) /\ x.for = p
      BY <1>1, <1>2 DEF Asks, ToServe
    <3>2. Asks(c, kind, k)' => Asks(c, kind, k)
      BY <1>1 DEF Asks
    <3>3. \A q \in People : Asks(c, kind, k)' /\ ToServe(c, q)' => ToServe(c, q) /\ q # p
      BY <1>1 DEF Asks, ToServe
    <3> QED BY <1>0, <1>1, <1>4, <2>3, <3>1, <3>2, <3>3, KeyAdded
  <2> QED BY <1>1, <2>2, <2>3, KeyParts
<1> QED BY <1>1, <1>3, <1>4

LEMMA KeyResendOne ==
    ASSUME DeliveryInv, KeyInv, NEW c \in Reqs, NEW p \in req[c].todo, NEW ok \in BOOLEAN,
           ResendOne(c, p, ok)
    PROVE  KeyInv'
<1> DEFINE x == NewRow("admin", req[c].key, p, "UNCOMMITTED")
<1>0. TypeOK /\ Len(rows) \in Nat
  BY RowTypes DEF DeliveryInv
<1>1. /\ UNCHANGED <<faults, raced>> /\ req[c].op = "admin" /\ p \in People
      /\ Len(rows) < MaxRows /\ rows' = Append(rows, x) /\ x \in Row
      /\ \A d \in Reqs \ {c} : req'[d] = req[d]
      /\ req'[c].op = req[c].op /\ req'[c].key = req[c].key /\ req'[c].todo = req[c].todo
      /\ req'[c].who = p /\ req'[c].row = Len(rows) + 1
      /\ ~ Serving(c) /\ Serving(c)'
  BY DeliveryResendOne
<1>2. x.kind = "admin" /\ x.key = req[c].key /\ x.for = p
  BY DEF NewRow
<1> HIDE DEF x
<1>3. /\ Ids' = Ids \cup {Len(rows) + 1} /\ rows'[Len(rows) + 1] = x
      /\ \A n \in Ids : rows'[n] = rows[n]
  BY <1>0, <1>1, RowAdded
<1>4. Accounted'
  <2>1. Accounted
    BY DEF KeyInv
  <2>2. ASSUME NEW n \in Ids', rows'[n].status = "UNCOMMITTED"
        PROVE  \/ \E d \in Reqs : Serving(d)' /\ req'[d].row = n
               \/ /\ n \in Ids /\ rows[n].status = "UNCOMMITTED"
                  /\ \A d \in Reqs : Serving(d) /\ req[d].row = n => req'[d] = req[d]
    BY <1>1, <1>3, <2>2
  <2> QED BY <1>1, <2>1, <2>2, AccountedFrame
<1>5. ASSUME NEW kind \in {"campaign", "admin"}, NEW k \in Keys, KeyHolds(kind, k)
      PROVE  KeyHolds(kind, k)'
  <2>1. x.kind = kind /\ x.key = k => Asks(c, kind, k) /\ ToServe(c, p) /\ x.for = p
    BY <1>1, <1>2 DEF Asks, ToServe
  <2>2. Asks(c, kind, k)' => Asks(c, kind, k)
    BY <1>1 DEF Asks
  <2>3. \A q \in People : Asks(c, kind, k)' /\ ToServe(c, q)' => ToServe(c, q) /\ q # p
    BY <1>1 DEF Asks, ToServe
  <2> QED BY <1>0, <1>1, <1>5, <2>1, <2>2, <2>3, KeyAdded
<1> QED BY <1>1, <1>4, <1>5, KeyParts

LEMMA KeyCommit ==
    ASSUME DeliveryInv, KeyInv, NEW c \in Reqs, ResendCommit(c)
    PROVE  KeyInv'
<1> DEFINE n == req[c].row
           x == [rows[n] EXCEPT !.status = IF req[c].step = "accepted" THEN "SENT" ELSE "FAILED"]
<1>0. TypeOK /\ Serving(c) /\ OwnsRow(c)
  BY DEF DeliveryInv, ResendCommit, Serving
<1>1. /\ Ids' = Ids /\ raced' = raced /\ faults' = faults
      /\ \A m \in Ids : /\ rows'[m].kind = rows[m].kind /\ rows'[m].key = rows[m].key
                        /\ rows'[m].for = rows[m].for
                        /\ rows'[m].status = "UNCOMMITTED" => rows'[m] = rows[m]
  BY RowUpdates
<1>2. Next1(c, req[c].who)
  BY DEF ResendCommit
<1>3. /\ \A d \in Reqs \ {c} : req'[d] = req[d]
      /\ ~ Serving(c)'
      /\ \/ req'[c] = Idle
         \/ /\ req'[c].op = req[c].op /\ req'[c].key = req[c].key
            /\ req'[c].todo = req[c].todo \ {req[c].who}
  BY <1>0, <1>2, AfterRecipient
<1>4. n \in Ids /\ rows'[n].status # "UNCOMMITTED"
  <2>1. n \in Ids /\ rows[n] \in Row
    BY <1>0, RowTypes DEF OwnsRow
  <2>2. rows' = [rows EXCEPT ![n] = x]
    BY DEF ResendCommit
  <2>3. x \in Row /\ x.status # "UNCOMMITTED"
    BY <2>1 DEF Row
  <2> HIDE DEF x, n
  <2>4. rows'[n] = x
    BY <1>0, <2>1, <2>2, <2>3, RowChanged
  <2> QED BY <2>1, <2>3, <2>4
<1>5. Accounted'
  <2>1. Accounted
    BY DEF KeyInv
  <2>2. ASSUME NEW m \in Ids', rows'[m].status = "UNCOMMITTED"
        PROVE  /\ m \in Ids /\ rows[m].status = "UNCOMMITTED"
               /\ \A d \in Reqs : Serving(d) /\ req[d].row = m => req'[d] = req[d]
    BY <1>1, <1>3, <1>4, <2>2
  <2> QED BY <1>1, <2>1, <2>2, AccountedFrame
<1>6. Idle.op = "idle"
  BY IdleRequest
<1>7. req'[c].op # "idle" => \A p \in People : ToServe(c, p)' => ToServe(c, p)
  BY <1>3, <1>6 DEF ToServe
<1> QED BY <1>1, <1>3, <1>5, <1>6, <1>7, KeyQuiet

LEMMA KeyStep == DeliveryInv /\ KeyInv /\ [Next]_vars => KeyInv'
<1> SUFFICES ASSUME DeliveryInv, KeyInv, [Next]_vars
             PROVE  KeyInv'
  OBVIOUS
<1>0. TypeOK /\ Accounted /\ Idle.op = "idle"
  BY IdleRequest DEF DeliveryInv, KeyInv
<1>1. ASSUME NEW c \in Reqs, NEW p \in req[c].todo, Look(c, p)
      PROVE  KeyInv'
  <2>1. /\ UNCHANGED <<rows, faults>> /\ raced \subseteq raced'
        /\ \A d \in Reqs \ {c} : req'[d] = req[d]
        /\ req'[c].op \in {"idle", "confirm"}
    BY <1>1, DeliveryLook
  <2>2. ~ Serving(c)
    BY <1>1 DEF Look, Serving
  <2>3. Ids' = Ids
    BY <2>1 DEF Ids
  <2>4. Accounted'
    BY <1>0, <2>1, <2>2, <2>3, AccountedFrame
  <2> QED BY <2>1, <2>3, <2>4, KeyQuiet
<1>2. ASSUME NEW c \in Reqs, Post(c)
      PROVE  KeyInv'
  <2> DEFINE x == NewRow("confirm", NoKey, req[c].who, "PENDING")
  <2>1. /\ UNCHANGED <<faults, raced>> /\ Posting(c)
        /\ \A d \in Reqs \ {c} : req'[d] = req[d]
        /\ Len(rows) < MaxRows /\ rows' = Append(rows, x) /\ x \in Row
        /\ req'[c].op \in {"idle", "confirm"}
    BY <1>2, DeliveryPost
  <2>2. x.kind = "confirm" /\ x.status = "PENDING" /\ ~ Serving(c)
    BY <2>1 DEF NewRow, Posting, Serving
  <2> HIDE DEF x
  <2>3. PICK i : /\ Ids' = Ids \cup {i} /\ rows'[i] = x /\ \A n \in Ids : rows'[n] = rows[n]
    BY <1>0, <2>1, RowAdded
  <2>4. Accounted'
    BY <1>0, <2>1, <2>2, <2>3, AccountedFrame
  <2> QED BY <2>1, <2>2, <2>3, <2>4, KeyQuiet
<1>3. ASSUME NEW c \in Reqs, NEW p \in req[c].todo, SkipOne(c, p)
      PROVE  KeyInv'
  <2>1. /\ UNCHANGED <<rows, faults, raced>> /\ ~ Serving(c)' /\ ~ Serving(c)
        /\ req[c].op = "admin" /\ \A d \in Reqs \ {c} : req'[d] = req[d]
        /\ \/ req'[c].op = "idle"
           \/ /\ req'[c].op = "admin" /\ req'[c].key = req[c].key
              /\ req'[c].todo = req[c].todo \ {p}
    BY <1>3, DeliverySkip
  <2>2. Ids' = Ids
    BY <2>1 DEF Ids
  <2>3. Accounted'
    BY <1>0, <2>1, <2>2, AccountedFrame
  <2>4. req'[c].op # "idle" => \A q \in People : ToServe(c, q)' => ToServe(c, q)
    BY <2>1 DEF ToServe
  <2> QED BY <2>1, <2>2, <2>3, <2>4, KeyQuiet
<1>4. ASSUME NEW t \in tasks, NEW ok \in BOOLEAN, Smtp(t, ok)
      PROVE  KeyInv'
  <2>1. UNCHANGED <<rows, req, raced, faults>>
    BY <1>4 DEF Smtp
  <2>2. Ids' = Ids
    BY <2>1 DEF Ids
  <2>3. Accounted'
    BY <1>0, <2>1, <2>2, AccountedFrame
  <2> QED BY <2>1, <2>2, <2>3, KeyQuiet
<1>5. ASSUME (\E t \in tasks : Settle(t)) \/ (\E n \in Ids : Resend(n))
      PROVE  KeyInv'
  <2>1. /\ Ids' = Ids /\ raced' = raced /\ faults' = faults
        /\ \A m \in Ids : /\ rows'[m].kind = rows[m].kind /\ rows'[m].key = rows[m].key
                          /\ rows'[m].for = rows[m].for
                          /\ rows'[m].status = "UNCOMMITTED" => rows'[m] = rows[m]
    BY <1>5, RowUpdates
  <2>2. req' = req
    BY <1>5 DEF Settle, Resend
  <2>3. Accounted'
    BY <1>0, <2>1, <2>2, AccountedFrame
  <2> QED BY <2>1, <2>2, <2>3, KeyQuiet
<1>6. ASSUME (\E t \in tasks : LoseOutcome(t)) \/ Restart \/ Revoke \/ Reconfirm \/ UNCHANGED vars
      PROVE  KeyInv'
  <2>1. /\ UNCHANGED <<rows, raced>>
        /\ \/ req' = req /\ faults' = faults
           \/ faults' > 0 /\ faults' \in Nat /\ (req' = req \/ req' = [c \in Reqs |-> Idle])
    BY <1>6, DeliveryRest
  <2>2. Ids' = Ids
    BY <2>1 DEF Ids
  <2>3. faults' = 0 => faults = 0 /\ req' = req
    BY <2>1
  <2>4. Accounted'
    <3>1. ASSUME faults' = 0
          PROVE  Accounted'
      BY <1>0, <2>1, <2>2, <2>3, <3>1, AccountedFrame
    <3> QED BY <3>1 DEF Accounted
  <2>5. \A d \in Reqs : req'[d] = req[d] \/ req'[d].op \notin {"campaign", "admin"}
    BY <1>0, <2>1
  <2> QED BY <2>1, <2>2, <2>3, <2>4, <2>5, KeyQuiet
<1> QED BY <1>1, <1>2, <1>3, <1>4, <1>5, <1>6, KeyAsk, KeyCampaign, KeyResendOne, KeyCommit,
           DeliverySteps

\* Requests with one client_request_id mail a participant twice only when two
\* of them ran at the same time or, for a resend, when a restart took one
\* between SMTP and the commit (notification_service.py:679,
\* admin_confirmation_resend.py:436).
THEOREM OneMailForAKey == Spec => []KeyedOnce
<1>1. Spec => [](DeliveryInv /\ KeyInv)
  BY KeyInit, KeyStep, DeliveryInvariant, PTL DEF Spec
<1>2. DeliveryInv /\ KeyInv => KeyedOnce
  <2> DEFINE mails(k, p, kind) == {m \in box : /\ rows[m.row].kind = kind /\ rows[m.row].key = k
                                               /\ rows[m.row].for = p /\ ~ rows[m.row].resent}
  <2> SUFFICES ASSUME DeliveryInv, KeyInv
               PROVE  KeyedOnce
    OBVIOUS
  <2>1. ASSUME NEW k \in Keys \ raced, NEW p \in People, NEW kind \in {"campaign", "admin"}
        PROVE  Cardinality(mails(k, p, kind)) > 1 => kind = "admin" /\ faults > 0
    <3>1. CASE kind = "admin" /\ faults > 0
      BY <3>1
    <3>2. CASE ~ (kind = "admin" /\ faults > 0)
      <4>1. faults \in Nat
        BY PeopleAssumption DEF DeliveryInv, TypeOK
      <4>2. KeyHolds(kind, k)
        BY <3>2, <4>1 DEF KeyInv
      <4>3. ASSUME NEW m \in mails(k, p, kind), NEW o \in mails(k, p, kind)
            PROVE  m = o
        <5>1. /\ OneMail(m) /\ OneMail(o) /\ m.row \in Ids /\ o.row \in Ids
              /\ ~ rows[m.row].resent
          BY DEF DeliveryInv, OneMail
        <5>2. m.row = o.row
          BY <4>2, <5>1 DEF KeyHolds, Keyed
        <5> QED BY <5>1, <5>2 DEF OneMail
      <4> HIDE DEF mails
      <4>4. Cardinality(mails(k, p, kind)) \in {0, 1}
        BY <4>3, AtMostOne
      <4> QED BY <4>4
    <3> QED BY <3>1, <3>2
  <2> QED BY <2>1, Zenon DEF KeyedOnce
<1> QED BY <1>1, <1>2, PTL
=============================================================================
