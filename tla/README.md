# Verification of kratos-backend

TLA+ models of the kratos registration and payment backend (FastAPI, async
SQLAlchemy, PostgreSQL, Razorpay, SMTP), the TLC runs that check them on small
instances, and theorems that the TLA+ proof system checks for every instance.
Paths are relative to the repository (`src/`).

## 1. The system

One process (`docs/RECEIPTS_AND_LOGGING.md:52` runs one worker; what is kept in
memory is kept per process) serves HTTP requests. Every request opens
one database session (`app/db/session.py`): `autoflush=False`,
`expire_on_commit=False`, READ COMMITTED, rollback on close. Concurrency is
between requests: each `await` lets others run.
Synchronisation is by PostgreSQL row locks, guarded UPDATEs, and a few unique
indexes.

| Component | State it keeps | Operations | Talks to | Hard part | Correct when |
|---|---|---|---|---|---|
| Payment application (`payments/apply.py`) | `payments.status`, `registrations.status`, `payment_id` | `apply_payment_success`, `apply_payment_failure` | capacity, fulfilment, notification | stale session objects, three row locks, one transaction | a capture is applied once, both rows change together, nothing settled is overwritten |
| Deliveries of a capture (`webhook.py`, `verify` route, `sync.py`, `reconciliation.py`) | none | load, ask the provider, apply | Razorpay, apply | all race for the same payment, reads before provider calls | each capture is applied in the end |
| Orders (`create_order.py`) | new payment rows, pointer | reuse, retry after FAILED | Razorpay, sync | registration lock held over a provider call | at most one open attempt |
| Offline (`admin_offline.py`), recovery (`admin_recover.py`), refund (`refund.py`), delete (`admin_delete.py`) | the same rows | one or two transactions each | Razorpay, apply, fulfilment | other lock order, provider first, crash between commits | as above, and refunds end confirmations |
| Fulfilment (`fulfillment.py`, `qr_service.py`, `receipt_service.py`) | `qr_codes`, `receipts` | idempotent create or reactivate | apply, offline | swallowed failures | confirmed have an active QR, cancelled have none |
| Registration lifecycle (`registration_service.py`) | `registrations` | create, cancel unpaid | capacity, QR | cancel races with capture | no settled money is lost, cancelled stays cancelled |
| Administrator operations (`admin_ops_service.py`, `endpoints/admin_ops.py`) | registrations, teams, events | cancel, revoke, PATCH, manual registration, transfer leadership, event edits, exports | QR, sheets | some writes are unlocked | status machine is kept |
| Capacity and availability (`event_service.py`, `event_state.py`) | none (counts) and an in-process cache | check at confirmation, registration and join; spots cache | all of the above | check and write in different rows, two counting modes, stale cache | confirmed never exceed the capacity |
| Teams and rosters (`team_service.py`, `roster_service.py`) | teams, members, invitations | create, invite, join, add, leave, remove, link | capacity, QR, notification | last slot, role of the next member | roster limits, one team per profile and event |
| Attendance, scanner (`attendance_service.py`, `scanner_service.py`) | checkpoints, scans, corrections, signed capabilities | scan, team roster, manual mark, absence | QR, registrations, teams | check-then-insert, rows that name a seat, a profile or both | nobody enters without the right, nor twice, and every query says the same of a person |
| Notifications, campaigns, resend (`notification_service.py`, `admin_confirmation_resend.py`) | notifications | create, deliver in the background, resend, campaign | SMTP | lost background tasks, idempotency key | not sent twice, not lost |
| Google Sheets (`google_sheets_service.py`) | a worksheet | background rewrite | Google | concurrent rewrites | last picture wins |
| Administration (`endpoints/admin.py`, `deps_admin.py`, `event_assignment_service.py`, `admin_delete_service.py`) | admins, roles, assignments, a cache of authenticated administrators, revoked tokens | grant, change, delete, assign, log out | caches | last administrator, cached authority, reads without locks | whoever acts has the power or had it a moment ago |
| Event setup (`endpoints/admin_ops.py`, `event_state.py`, `registration_field_service.py`, `event_content_service.py`) | event, rules, form, answers | create, publish, open, close, patch rules, edit fields | registrations, capacity, caches | edits overlap each other and registrations | hidden is closed, the columns of the rules agree, answers have their field |
| Accounts, audit, shell | users, log | single-row updates | | none of their own | |

The status of each component is in `PROJECT.json`, as is the list of hazards
with the line where each bites and the property that covers it.

## 2. What is modelled

### PaymentCore

Payments and solo registrations of one event, with every operation that changes
`payments.status`, `registrations.status`, `registrations.payment_id` or the QR
of a registration, except the ones in section 7.

State and code:

| Variable | Code |
|---|---|
| `regStatus`, `regPtr` | `registrations.status`, `.payment_id` |
| `payStatus` | `payments.status`; `ABSENT` before the insert. `RegOf` is `payments.registration_id`, which never changes |
| `qr`, `receipts` | the `qr_codes` row (unique per registration) and the `receipts` rows |
| `order` | the provider's state of the payment's order, `none` for an offline payment |
| `regLock`, `payLock`, `eventLock` | row locks of PostgreSQL |
| `req` | for each running request: where it is and what its session remembers |
| `applied` | observation only: how often `newly_paid` was true, that is how many confirmations were sent |
| `aborts` | observation only: bounds `Abort` |

Four facts about sessions shape the model:

1. A request may hold an object it loaded before a wait. `SELECT ... FOR UPDATE`
   then takes the row lock but does not refresh the object. The fields
   `seenPay`, `seenReg`, `seenPtr` are that memory; decisions use them, guarded
   UPDATEs use the row.
2. Writes are invisible until the commit, so they are applied by the commit
   step, while the transaction holds the locks it would hold. Every lock a
   request can wait for is a step of its own.
3. A guarded `UPDATE ... RETURNING` that matches no row may or may not leave the
   remembered object PAID (session synchronisation); `TransitionOutcomes` allows
   both.
4. Closing a session without commit rolls back and frees its locks (`Finish`).

A wait for the provider is the gap between the action that starts a
request (`Webhook`, `Verify`, `Sync`, `Reconcile`, `RefundBegin`, ...) and its
next step. `Webhook` stands for both capture events. `ApplyLock`,
`ApplyRepoint`, `ApplyCapacity` and `ApplyCommit` are
`apply_payment_success`, cut at its row locks. `CreateOrderNew` and
`CreateOrderCommit` surround the provider call of `create_payment_order`;
`CreateOrderSync` is its inner polling, which applies a capture in the same
session. `OfflineCommit` and `OfflineFulfil` are the two transactions of an
offline confirmation. `CancelBegin` and `CancelCommit` surround the wait for the
payment's row in `cancel_unpaid_registration`. `Abort` is any crash, timeout or
error; `DeadlockVictim` is PostgreSQL breaking a lock cycle.

`PatchBegin` and `PatchCommit` are `PATCH /admin/registrations/{id}`: it reads
without a lock and writes without looking again, CANCELLED over anything, or PENDING
over what it saw CANCELLED. `Ops` names the two effects apart (`PatchCancel`,
`Reopen`), because the second one undoes what the other operations build on.
`RevokeBegin` and `RevokeCommit` are a revocation, by its own route or by PATCH: the
route's unlocked read is what the service decides on after it has the lock. A
registration that an administrator enters by hand (`manual_register_participant`)
is PENDING like every registration of `Init`; with `mark_paid` the same session goes
on with the offline confirmation, `OfflineBegin`.

Read-only outcomes (an error response, the reuse of an open order, a webhook of
an unknown order) change nothing and are not actions.

The operators named `Mutant...` are defects used to test the runs: each replaces
one definition, and the property it is listed with must then fail.

### MCPaymentCore

Names for the instances: the registration of each payment and the symmetries.
Symmetry is used for safety only.

### PaymentCore_proofs, PaymentLimits_proofs, PaymentLedger_proofs

The theorems of section 5 about `PaymentCore`: its protocol, what it promises of
seats, money, attempts and passes, and its refinement of `PaymentLedger`.

### Attendance

Checkpoints, scans and absence corrections, beside the operations that give and
take a participant's right to enter.

| Variable | Code |
|---|---|
| `party` | `registrations.status` of a solo registration; of a team, `teams.status` with its registration (PAID and COMPLETE are `CONFIRMED`, the open states `PENDING`) |
| `member`, `profileOf` | `team_members.status`, `.profile_id` |
| `qr` | the `qr_codes` row of a solo registration or a seat |
| `checkpoint` | `is_active`; `repeat` is `allow_repeat_scan` with behaviour `ALLOW`, the one combination that records a second SUCCESS |
| `scans`, `corrections` | the two append-only tables. `h` is `qr_id`, `at` is `created_at`, `via` is what the note and the source tell |
| `caps` | capabilities the public scanner issued and that have not expired. A signed token cannot be made otherwise, and it is not used up |
| `clock`, `at` | `created_at` is `now()`, the begin of the transaction: the clock counts begins, and a row carries its request's number, whatever the order of commits |
| `req` | each open request: where `scan()` is and what it has read |
| `lost` | observation only: the clock when a holder last lost its QR, its paid party or its ACTIVE seat |

`BeginScan` is the part of `scan()` up to the wrong-event check, with the entry
point that leads to it: `ScanQr` (both scan routes), `RosterCheckIn`,
`ManualMark`, `AdminPresent`. Then `CheckEligible`, `CheckPresence` and
`InsertScan` are its next database calls, each a step; the public scanner goes on
with `IssueCapability`. The consecutive reads of one such part are one step, as
are the two of the presence check. Refusals that write nothing are not actions;
refusals that write an INVALID or NOT_PAID row are.

The session's identity map keeps a row only while somebody refers to it. In
`scan()` the QR and the checkpoint are kept; a member row is read anew for the
eligibility check, unless the caller still holds it, which `RosterCheckIn` and
`AdminPresent` do: their check uses the status they read first (`held`).

`Confirm`, `Fulfil`, `Revoke`, `Cancel`, `Patch`, `Leave` and `Link` are each one
transaction and one step. Races inside them are the subject of `PaymentCore`.
For `Revoke` this gives the code the benefit of the doubt: its scan count and its
commit are one step, and the race with a scan remains (section 4). `Patch` is
for solo registrations: the right of a team is read from its team row, which a
PATCH leaves alone. `Leave` is both leaving and being removed; neither touches
the QR code.

`PresentMembers` follows `present_member_ids` (two queries for a team, merged in
dictionaries), `IsPresent` follows `is_effectively_present` (two queries per
person); 0 stands for "no row".

### PaymentLedger

The abstract specification of the payment core: registrations and payments with
atomic operations `Order`, `Fail`, `Settle`, `Reconfirm`, `Cancel`, `Withdraw`,
`Refund`. `PaymentCore` maps its two status columns to it (`Ledger ==
INSTANCE PaymentLedger WITH reg <- regStatus, pay <- payStatus`) and
`ImplementsLedger` says that every step of a session is one of these operations
or changes nothing that counts. `Reconfirm` is in the abstract specification
because the code does it: a delivery that remembers money as received confirms
again, whatever the registration has become. `Withdraw` is an administrator's
cancellation, by its own route or by PATCH. Administrators who revoke or reopen
are outside its promise.

### RosterRules and Teams

`RosterRules` is the pure part of `roster_service.py` and of the edits of a rules
row: sizes, styles, limits, the role of the next member, and what
`apply_roster_to_rules` and a change of the registration mode make of the columns.
Missing integers are 0, as Python's `or` treats them.

`Teams` is one event in `PARTICIPANTS` mode. `team`, `reg`, `seat`, `invited` are the
rows of `teams`, `registrations`, `team_members`, `team_invitations`; a seat's row is
used once, rejoining makes a new one; `NoSeat` stands for "no row". Each request is cut at its row locks:

* `Ask...` is the part of a handler before its first lock: what it has loaded by
  then it keeps (`KeepsStatus`, `KeepsReg`), since `FOR UPDATE` does not refresh it;
* `Lock` takes the next lock of `LockPlan` and reads what the handler reads under
  it; a join of a confirmed team adds the event's row to its plan;
* `Join`, `Add`, `Leave`, `Transfer`, `Confirm`, `Patch`, `Cancel`, `PatchReg`, `Revoke` are
  the commits. `Indexed` is the two partial unique indexes, which fail a commit.

`Confirm` is what a payment writes to a team; who pays is the founder or the
leader, as the payer is fixed when the order is made. `unchecked` and `revived` are
observations: seats that count without a capacity check, and seats a late
confirmation brought back from LEFT or REMOVED.

### Notifications

The mails about one confirmed team. `rows` are the notifications (a row not yet
committed is `UNCOMMITTED`), `tasks` the background deliveries of the process, `box`
what SMTP accepted, `pass` who has an active QR. Confirmations commit a row and
hand over a task (`Look`, `Post`); a campaign does so one recipient after another
(`CampaignPost`); an administrator's resend calls SMTP in the request and commits
afterwards (`ResendOne`, `ResendCommit`); `Smtp` and `Settle` are a task. `Restart` loses
tasks and requests, `LoseOutcome` the write after the mail, or a delivery that was
never started because the refresh between the row's commit and `create_task` failed. People in `Linked` have a
profile, the others were entered by name, and their notifications belong to the
leader. `raced` observes which keys and people two requests were busy with at
once.

### Administration

`admin`, `role`, `scope` are the rows of `admin_users`, `roles`,
`event_admin_assignments`; `cache` is `_admin_cache`, `revoked` the users whose token is
in `_revoked_jtis`, `now` the clock. A request is authenticated by `Arrive` and, on a
miss, `ReadRow` and `Store`: the read and the store are two steps, as the entry
can be invalidated between them.

What is stored is the object of the request's session, not a copy. While the
request is `live`, what its operation sets on its own row or role shows in the
cache before any commit (`Shows`) and stays when the answer is 400; a rollback
(`Abort`) leaves an object whose attributes are expired, so that whoever is given it
fails. A session also reads a row once: of its own row and role it knows what it
read when it was authenticated (`RowSeen`, `NameSeen`).

An operation on an administrator reads first, commits what it decided on, and
then drops the entry (`Commit`, `Drop`). `ReadForGrant` and `Grant` are
`grant_admin_access`; `ReadForUpdate`, `Switch` (the flush, the new role on the object,
the refusals and the look at the assignments) and `Update` are `update_admin_user`;
`ReadForRole` and `EditRole` create and change roles; `ReadForDelete` and `Delete`,
`ReadForAssign` and `Assign` the rest. Each decides on what it has read, the role's
name included (`was`, `is`); only a deletion locks it, and a flushed update or insert
holds what PostgreSQL then locks (`Free`, `Unwritten`, `Unreferred`). Where the row is
read again after the commit, that may fail and nothing is dropped.

`lost`, `raced`, `touched`, `mixed` are observations: when somebody lost a power, which
entries were old when stored, which were changed by their own request, and which
administrators changed, or had their role renamed, while another request was
deciding about them by what it had read (`Overtaken`).

### EventSetup

One event: `event`, `rules`, `fields`, `answers`, `regs`, and the two caches `list` and
`spots`. An edit reads, computes the new row and writes the columns that differ
from what it read (`Merged`); the caches are dropped in a step after the commit
(`DropCaches`), because the handlers refresh the row in between; when that fails,
they are not dropped at all (`FailAfterCommit`). `Register` takes
the lock on the event's row that `create_registration` and `create_team` take
(`team` is the latter, which validates no form and drops no cache); the count of
places may come from the cache or from rows (`CountCached`, `CountRows`, `StoreCount`).
`Confirm` is a payment of Razorpay's, which drops the cached places; `ByHand` is what
administrators do without telling any cache: `ConfirmOffline`, also together with
the registration (`mark_paid`), `RegisterByHand`, which asks only that the event
exists, and `Revoke`. What inserts a row that refers to the event waits for the
lock on it.
`fresh` is an observation: the entry was true when stored and nothing that is
not announced has changed since. `torn` notes rows written by an edit that had
read an older version.

### Administration_proofs, EventSetup_proofs, Notifications_proofs, Teams_proofs

The theorems of section 5 about the module each is named after.

### MCAttendance

The instances: `t1` with its leader `m1` and a second member `m2`, `t2` led by
`m3`, a solo registration `s1` in another event. `door` is a common checkpoint,
`hall` one of the teams' event. Which account a seat is linked to is left to
`Init`, so seats and `s1` may share an account.

### Attendance_proofs

The theorems of section 5 about `Attendance`.

## 3. Runs

| Run | Instance | Question |
|---|---|---|
| `attempts` | 1 registration, 2 payments, 2 requests, all operations but revocations and reopenings, failing fulfilment, 1 lost request | do payment and registration stay consistent |
| `capacity` | 2 registrations, 3 payments, 2 requests, 1 seat, no confirmation is taken back | is the last seat sold once, against money |
| `captured` | 1 registration, 2 payments, 2 requests, 1 lost request, fair | is every capture applied in the end |
| `requests` | 1 registration, 2 payments, 2 requests, orders, captures, offline, recovery, cancellations, revocations, reopenings and refunds, fulfilment works, no request is lost, fair | does every request end, and can every confirmed participant enter |
| `att_present` | team of 2 and a solo registration, 2 accounts, common checkpoint, 4 requests in a row, every check-in but the roster | do the batch query and the single check agree, and is nobody checked in twice without absence in between |
| `att_loss` | team of 2 and a solo registration, 1 account, checkpoint of the teams' event, 1 check-in against every loss of rights | is entry refused to whom lost the right before |
| `att_roster` | 2 teams, 3 requests, capabilities expire | does the roster need a scan of that team there |
| `teams` | 1 team of 2 and a substitute, 2 people, 4 seats, capacity 1, 2 requests, 4 asked, all 13 operations | do rosters, roles and the checked seats keep their limits in every interleaving |
| `range` | 1 team of 2 to 3, additions only | finding: an admitted member is rolled back |
| `outbox` | a leader and a guest, 2 requests, 2 rows, 3 asked, 1 restart, lost write or lost delivery, fair deliveries | is what is marked SENT delivered, who is mailed twice, does every row settle |
| `admins` | 2 super administrators, a coordinator, 3 roles (one not created yet), 1 event, 2 requests, 3 asked, the cache lives 1 tick | how long does authority outlive its loss, what makes a cached row false, is the last super administrator safe, do assignments fit roles that are given, left and renamed |
| `setup` | 1 event, 1 registration, 1 field, 2 requests, 2 edits, capacity 0 or 1, administrators' registrations and offline payments | do state, rules, answers and caches stay consistent |

Each property of a passing run has a `Mutant...` definition in its module that
breaks it; `PROJECT.json` lists them.

### Bounds

Two attempts are what pointer moves, duplicate captures and retries need: the
open one and one earlier. Two requests give every pairwise race, lock order and
lock cycle; a third mostly waits with them. One seat and two
registrations are the smallest competition. A second attempt of `r1` in
`capacity` lets a late attempt of a confirmed registration race with another
registration. `MaxAborts` is one where a crash matters. The proofs remove these
bounds for the properties of section 5.

In `Attendance`, `MaxClock` bounds the requests ever begun and `Reqs` those open
at once. A present or absent verdict compares two stamps, one under a seat and
one under a profile, so three requests make every order of a success, an absence
and another row; a fourth allows a check-in, an absence and two more check-ins.
`att_loss` needs one check-in, whose reads and insert any number of losses can
separate, and restorations in between. `OneEntryAtATime` is checked with one
request at a time because it fails with two (section 4), and proved so for any
number of check-ins; the other properties are proved for any number of
concurrent requests.

In `Teams` two requests give every pair of handlers against each other, and four
asked bring a team from its formation over a payment to a race for its last
seat. The limits are a minimum of two and one substitute, the smallest where
the roles differ. One team is enough for its own limits; capacity 1 makes the
second seat compete. In `Notifications` two rows are the smallest where a mail
can be repeated. In `Administration` three users are two who can delete each other
and one whose scope or power changes; a role can be created, given and renamed
within three requests; the cache's lifetime is one tick and one tick
passes, so an entry is used before and after it expires. In `EventSetup` two edits overlap
each other or a registration; the sizes in the bodies go up to the limits
(`MaxRequired` 2, `MaxSubstitutes` 1), so clamping happens.

`CHECK_DEADLOCK FALSE` is set where the system may stop: all attempts used up
and everything refunded or cancelled, or all requests of `MaxClock` or `MaxAsks`
done.

### Fairness

`HandledSpec` says that a started request is carried on (strongly, as PostgreSQL
serves the waiters of a row in order, so a request that is enabled again and
again gets its row). `FairSpec` adds that the provider repeats an unanswered
capture event (`Redelivery`) and, for the same reason of queueing, that a
confirmation of a given payment which waits for the registration row is granted
it (`Granted`): without it two requests could be victims of each other's lock
cycles for ever, in turn. Customers, administrators, failures and captures are
not fair. `CapturedIsApplied` is checked with a seat for every registration: a
capture beyond the capacity is refused by design and stays unapplied.

`Notifications` assumes only that a task given to the event loop runs as long as
the process lives (`WF` on `Deliver`); requests, SMTP's answer, restarts and failing
writes are not fair. `PendingSettles` therefore allows a row to stay PENDING
after a fault. The other modules check safety only.

## 4. Findings

One run ends in a counterexample, a disagreement of the code with a statement in
the repository, quoted in `PROJECT.json`.

* `range`: `add_roster_member` checks `can_add_role`, which lets a RANGE roster grow to
  its maximum, inserts, and compares the mandatory roles with the minimum
  (`team_service.py:646`): every optional member is rolled back and refused.
  `tests/test_add_roster_member.py:256` expects the fourth of a range of 3 to 4.
  `AdmittedIsKeptOutsideRanges` proves that nothing else is affected: where the
  sizes are equal or substitutes are allowed, what is admitted is kept.

The models show more, which the properties name as exceptions or the modules
describe; none has a run of its own.

Payments:

* A capture reads the registration PENDING and waits for its row, which the
  cancellation holds; the confirming UPDATE (`apply.py:84`) has no status guard and
  makes CANCELLED CONFIRMED. `docs/IMPLEMENTATION_PLAN_MONEY_CANCEL.md:104` says it
  stays cancelled. The team variant has the guard.
* A reconciliation that read CONFIRMED skips the capacity check
  (`event_service.py:154`) although the registration has been cancelled and its
  seat sold since.
* A refund cancels only the registration that still points to the payment
  (`refund.py:76`); if a newer attempt moved the pointer, it stays CONFIRMED.
* A revocation may write PENDING over CANCELLED: its route loads the registration,
  CONFIRMED, without a lock (`endpoints/admin_ops.py:1045`). The service then selects it
  `FOR UPDATE`, which waits for a cancellation and does not refresh the object, so
  its check (`admin_ops_service.py:485`, "Cancelled registrations cannot be revoked.")
  passes.
* PATCH makes CANCELLED PENDING (`endpoints/admin_ops.py:1024`) and leaves the payment
  and the pointer alone, which every rule about settled money relies on not
  happening. A capture that comes after an administrative cancellation is PAID;
  reopened, the registration waits for a payment it has (`PaidImpliesSettled` fails
  after 11 steps). With three requests `AppliedOnce` fails (15 steps): a session that
  remembers CANCELLED pays without the registration's lock, the registration is
  reopened, a cancellation that still has CREATED in mind writes FAILED over PAID,
  and a redelivery applies again. `MoneyBacked` (17 steps) and, with `Refund` and
  three payments, `OneOpenAttempt` (23 steps) fail likewise.
* `NoDowngrade` fails with `Revoke` and three requests, after 19 steps. A session
  that remembers CANCELLED holds the payment but not the registration; the
  registration is resurrected by another attempt and revoked, then cancelled
  again while the first session commits PAID, and the cancellation, which still
  has CREATED in mind, writes FAILED over it.
* `OneOpenAttempt` fails with `Revoke`, `Refund` and three payments, after 21 steps. A
  capture of a failed attempt confirms while a new order takes the pointer; its
  refund leaves the registration CONFIRMED, and a second, stale notice of it moves
  the pointer back to the refunded payment. After a revocation a cancellation
  looks only where the pointer leads and leaves the newer attempt open; the next
  order is a second one.
* A capture after a cancellation runs the QR hand-off (`apply.py:163`): the
  cancelled registration gets an active QR, without any race. It does not let
  its owner in, as eligibility is checked apart (`NoEntryAfterLoss`).

Attendance:

* Presence is read, then SUCCESS inserted, without a lock or a unique constraint
  (`attendance_service.py:404`): two scanners let one code in twice.
* A revocation counts no scans, and a scan past its eligibility check inserts
  its row afterwards (`admin_ops_service.py:495`).
* The administrator's absence names a seat or a profile, never both
  (`attendance_service.py:890`), so a presence query by the other identity still
  finds the check-in.

Teams:

* A solo registration and a seat of the same event are excluded by a check, not
  by an index, and a phone number by no index either.
* A leadership transfer before the payment leaves the old leader PENDING_PAYMENT
  in a paid team, or, when the payer has left, brings him back as a second
  leader in waiting; the latter is what `revived` marks.
* A removal reads the role without the team's lock; after a transfer it removes
  the leader.
* An administrator's addition or PATCH that read the status before a
  cancellation writes it back; PATCH of a registration makes CANCELLED PENDING.
* Administrative cancellations leave the seats ACTIVE, so the members cannot
  join another team.
* Roster additions are not checked against the capacity.

Notifications:

* A campaign reaches a member entered by name, adds no profile
  (`notification_service.py:557`), and ends at a constraint
  (`models/notification.py:17`); its key is then used and cannot be repeated.
* A row left PENDING by a crash counts as sent for the automatic confirmations.
* Two requests that look at once both send; a crash between SMTP and the commit
  of a resend repeats the mail.
* `resend` sends to the leader for a member entered by name, without the pass.

Administration:

* The cache holds the object of a session (`deps_admin.py:48`). A super administrator
  whose PATCH of the own row is refused with 400 (`endpoints/admin.py:278`), after
  `admin.role = role` (270), has the new role in the cache without a commit; after a
  rollback (92, 140) the cached object is expired and requests that are given it
  fail. Both last until the entry expires, 30 seconds at most. `ChangesReachCache`
  names them (`touched`).
* A role's name is remembered by the session that read it (196, 251): a rename
  that commits before the grant or the PATCH gives events to somebody who is no
  coordinator.
* Of two overlapping edits of a role's permissions the later one may keep what it
  was to remove: each deletes only the rows it has read.
* Two super administrators who delete each other, or a demotion beside a
  deletion, can leave none: the others are counted without a lock
  (`admin_delete_service.py:293`). A PATCH can do so alone.
* An assignment or a second PATCH that commits during a demotion leaves scope
  behind, against `admin.py:285`.
* Attendance refers to administrators; deleting one who scanned fails.

Event setup:

* `open` reads PUBLISHED, `unpublish` commits, `open` writes its one column: the event
  is UNPUBLISHED and OPEN, which `event_state.py:9` excludes. Nobody can
  register, as both columns are looked at.
* A PATCH with `custom_fields` replaces the stored roster style; a creation with
  required and substitute counts but no style infers RANGE and drops the
  substitutes.
* A field with answers cannot be deleted, and a field deleted between validation
  and insert fails the registration; both are server errors.
* Revocation, administrative cancellation, refund and offline confirmation, also
  with a manual registration, do not drop the cached places
  (`admin_offline.py:143`; only `apply.py:231` does). Nor does an edit whose refresh
  fails after its commit (`endpoints/admin_ops.py:255`).
* A manual registration is inserted at hidden, closed and full events
  (`endpoints/admin_ops.py:514`); only `mark_paid` looks at the capacity.
* A slow reader stores an old list (20 s) or count (5 s).

## 5. Proofs

`PaymentCore_proofs`, for any finite set of registrations and any sets of
payments and requests (`CoreAssumption`).

* `OwnInvariant`, `TypeCorrect`: types need that a request's payment exists and
  belongs to its registration (`OwnInv`), because requests write rows through
  what they remember. Unconditional.
* `SettleInvariant` and, from it, `PaidIsSettled`, `AppliedAtMostOnce` and
  `NeverDowngraded`, for instances in which nothing settled is put back to PENDING
  (`NeverReopened`: no `Revoke`, no `Reopen`; a PATCH that cancels is allowed).

None of the three properties is inductive. `SettleInv` adds, per request
(`RequestOK`): the locks it holds at each point; that the row it will insert is
still absent; that a request about to write PAID has locked a payable row; that
a registration remembered as CONFIRMED or CANCELLED is not PENDING now; and that
a cancellation keeps its registration PENDING and the payment it will fail
payable. The argument for the last part: PAID is written by apply under the
registration's row lock, which the cancellation holds, or by a session that
remembers CANCELLED, which cannot be while the registration is PENDING. Here
revocations and reopenings are excluded (`PutsNothingBack`); with them the
argument, and the properties, fail.

Layout: `OtherRequest` says what a step must keep for the requests that do not
act; `QuietStep`, `QuietFinish`, `QuietStart`, `MoveStep`, `WriteStep` and
`UnmovedStep` treat the shapes of a step; one lemma per writing action; then
`SettleStep` combines them.

`PaymentLimits_proofs`, under the same assumption, proves the invariants that are
about several payments, each where the code keeps it. The hypotheses are needed:
TLC finds each property violated when an operation or failure its hypothesis
excludes is added to the run, the findings of section 4. For `OneOpenAttempt` it
needs `Refund` and three payments beside `Revoke` or `Reopen`.

| Theorem | Hypothesis | Invariant, and why the hypothesis |
|---|---|---|
| `NeverOverbooked` (`CapacityRespected`) | `Lasting`: no `AdminCancel`, `PatchCancel`, `Reopen`, `Revoke`, `Refund` | `SeatsInv` adds `SeatMemory`: who is about to take a seat holds the event's row and has found one, and who remembers CONFIRMED still has it. A session that remembers CONFIRMED checks nothing, so its seat must not have been freed |
| `ConfirmedHasPaid` (`MoneyBacked`) | `MoneyStays`: no `Refund`, no `Reopen` | `PaidInv`, not built on `SettleInv`, as `Revoke` is allowed: a registration that has paid (`Paid`) still has a PAID payment, though not always the same one, and whoever confirms by what it remembers does so for one that has paid (`KnowsMoney`). A refund leaves CONFIRMED a registration that points elsewhere, and a reopened registration need not have paid |
| `AtMostOneOpenAttempt` (`OneOpenAttempt`) | `NeverReopened` | `AttemptsInv` adds that the open attempt is the one the registration points to, or that this points to settled money (`PointerLeads`); that a registration with settled money does not wait (`SettledDecided`); and that who makes an order, or cancels, holding the registration, knows every open attempt (`KnowsAttempts`) |
| `ConfirmedEnters` (`ConfirmedCanEnter`) | `NothingFails`: fulfilment works, no request is lost | inductive beside the types, as a request at `fulfil` waits for nobody and so is no victim of a deadlock (`FulfilIsNoVictim`). Fulfilment swallows its failures, after which nothing makes the code |

The operations a hypothesis excludes are absent from the run that checks the
property too; `ConfirmedEnters` allows them all. `StepCases` sorts the steps into
those that write neither registrations nor payments (`Handles`), those that begin
a request (`Begins`), an administrator's PATCH or revocation (`Revises`) and the other
commits; `HandlesFrame`, `BeginsFrame` and `RevisesFrame` say what the first three
leave alone, and each proof treats the commits one by one.

The delicate part of `PaidInv` is a cancellation that writes FAILED over a payment
that was paid meanwhile, which revocations make possible (`NoDowngrade`, section 4).
Only a session that remembers CANCELLED pays without the registration's lock, and
if one does so of a registration that is PENDING again, the registration was
CONFIRMED in between, hence has paid with another payment. `Spares` states that
alternative, and `PaidStays` follows: some PAID payment survives. `PaysWritten` and
`RegsWritten` say who writes each row and under which lock.

`PaymentLedger_proofs` shows `CoreImplementsLedger`: where `NeverReopened`, `Spec =>
ImplementsLedger` for any registrations, payments and requests. A step of a
session can be an atomic operation only if what the session remembers is still
worth something when it commits: `MoneyInvariant` strengthens `SettleInv` by
`MoneyMemory` (a payment remembered as settled is PAID or REFUNDED, one remembered
as payable has a row, and a request about to confirm without writing PAID does
so for settled money). It is kept because payments only move forward
(`PaymentsGrow`), so a memory of settled money cannot become false. One lemma per
abstract operation (`LedgerApply`, `LedgerInsert`, `LedgerCancel`, `LedgerRefund`, and
`LedgerQuiet` for stuttering) is combined in `LedgerStep`.

`Attendance_proofs`, for any sets of parties, members, profiles, checkpoints and
requests and any `Ops` (`AttendanceAssumption`; sets need not be finite):

* `AttendanceInvariant`, and from it `AttendanceTypes`, `NoEntry`
  (`NoEntryAfterLoss`) and `RosterOpened` (`RosterWasOpened`).
* `PresenceAgrees` (`BatchAgrees`), from the types alone.

The two properties say something of rows, and a row is written several steps
after the reads it rests on. `AttendanceInv` carries the claim across: what a
request has read since it began at `at` still holds or was lost at or after `at`
(`Still`), for the QR from the first step, for the seat if the caller holds the
member row, for all three after `CheckEligible`. Every loss is dated by
`NoteLosses` with the current clock, which no open request exceeds, so a loss
keeps `Still` true (`RightsStep`). For the roster, `Opened` is monotone, as scans
are only added: a capability, and then the request that uses it, inherits it from
the scan that issued it. `QuietStep` treats steps that change one request only;
one lemma per kind of step follows, and `AttendanceInvariant` combines them.

`BatchAgrees` compares two ways to find a newest stamp. `LatestIsGreatest` shows
that a nonempty set of stamps, bounded by the clock, has a greatest one (from the
well-foundedness of `<`), `LatestOfUnion` that the newest of two sets is the
newer of their newest, `NewestIsLatest` that the dictionaries of
`present_member_ids` are such two sets.

`NobodyEntersTwice` is `OneEntryAtATime` for instances in which no two requests are
open at once and no checkpoint is reconfigured, with any number of requests one
after another. Both are needed: two scanners do let one code in twice (section
4), and a checkpoint that allowed repeats has scans from then. `EntryInv` says that the
open request carries the newest date and that no scan and correction are dated
alike, so that an absence lies on one side of a scan, and that what the presence
check said is still true at the insert (`Undisturbed`). `MarkedAbsent` draws the
conclusion: who was checked in and is not present was marked absent afterwards.

`Administration_proofs`, for any users, roles, events, requests, bodies of a PATCH
and lifetime of the cache (`AdminAssumption`). All are unconditional; what the code
does not promise is in the observations `raced`, `touched`, `mixed` and `alone`.

* `RowsInvariant`, `AdministrationTypes`: types need that an active administrator has
  a role, as a view is read through it.
* `RecentAuthority` (`AuthorityIsRecent`). `AuthorityInv` dates what is claimed wrongly
  on its way from the row to the check: the row a request has read, then the
  entry it stores, then the view it acts on were lost at or after the arrival of
  the request that read them, and an entry lives `TTL` from that arrival. That the
  entry is an object gives nobody a new power by `ObjectIsSupers`: only a SUPER
  ADMIN's own request changes it, whose view allows everything, and it is one
  request's at most.
* `CacheIsTold` (`ChangesReachCache`): a commit that changes a view announces the
  entries it will drop, in whichever order other requests store theirs.
  `EntryIsSomeone` adds that only an administrator's row is stored, so that an
  insert makes no entry false, although its drop may fail.
* `AssignmentsFit` (`ScopeFitsRole`). `ScopeInv` adds `ReadsHold`: the row read for a
  PATCH or an assignment is still the administrator's, the names read of the role
  left and the role given are still theirs, and the assignments found are those
  that are there, unless `mixed` says otherwise.
* `LastSuperAdmin` (`SuperSurvivesDeletion`), an action property from `DeletionInv`: the
  other super administrator that a deletion counted is there as long as nothing
  else commits.

`EventSetup_proofs`, for any registrations, fields, bodies, capacities and limits
(`SetupAssumption`, `LimitsAssumption`); unconditional.

* `SetupInvariant`, `SetupTypes`: `SetupInv` says what a request has in hand at each
  step, among it that a registration past its first step holds the event's row and
  that the event is open and visible. `RegisteredAtOpenEvent`
  (`RegisteredWhileOpen`), which is about participants' requests, follows with `RowSteps`, that only the holder of the lock
  and the edits write.
* `EditInvariant`, and from it `HiddenEventsAreClosed` (`HiddenIsClosed`) and
  `RulesStayAligned` (`RulesAgree`). A row is written several steps after it was read,
  so `EditInv` speaks of the row about to be written: it is consistent unless an
  overlapping edit has been lost (`torn`). Under it lie lemmas about `RosterRules` for
  every rules row and every body: `RosterApplied` and `ModeApplied` (what
  `apply_roster_to_rules` and a change of the mode leave in the columns),
  `CreatedAligned`, `PatchedAligned` and, for the event's columns, `EditedConsistent`.
* `AnswersKeepTheirField` (`AnswersHaveTheirField`): the fields may be edited between
  validation and insert; the insert and the deletion see each other's rows.
* `CachesLearn` (`CachesAreTold`), as `ListTold` and `SpotsTold`: whatever makes a fresh
  entry false is a request that has yet to drop it (`DropsStay`), or a revocation, an
  offline payment (`HandKeeps`) or a failed refresh, after which the entry counts as
  fresh no longer.

`Notifications_proofs`, for any people, keys, number of rows, requests and faults
(`PeopleAssumption`).

* `DeliveryInvariant`, `NotificationTypes`, `SentIsDelivered` (`SentMeansDelivered`). SENT is
  written by another transaction than the one that made the row, after a mail of
  a third party. `DeliveryInv` follows a row that was not resent through its
  stages: it has one task, which has not mailed while it is queued and whose mail
  is in the box once it is accepted (`TaskSound`), and so at most one mail
  (`OneMail`); an administrator's resend owns its uncommitted row (`OwnsRow`).
* `OneConfirmation` (`OneConfirmationEach`). `ConfirmInv`: of a person no two requests
  were busy with, at most one request will post a confirmation, and while it
  will, no row counts as one.
* `OneMailForAKey` (`KeyedOnce`). `KeyInv`: of a key that was not raced for, one request
  asks at most, and whom it has still to serve has no row of the key; without a
  fault, an uncommitted row still has its request (`Accounted`).

`Teams_proofs`, for any teams, profiles, requests, rules and capacity, and any
finite set of seats (`RulesAssumption`, `RowsAssumption`, `LimitsAssumption`). But for the
last theorem all are unconditional; the exceptions are those of the properties.

* `TeamsInvariant`, `TeamsTypes`. `TeamsInv` is what the row locks give: no row is held
  twice (`Alone`); a seat in use belongs to a formed team for good (`Used`); a
  request that holds its team's row knows the team's status and every seat, and a
  join of a confirmed team holds or will take the event's row too (`Knows`). A
  request that does not act keeps this as long as the rows it holds are not
  written (`Framed`); `Mine` says that the one that acts writes only what it holds.
* `RosterLimits` (`RosterWithinLimits`): `FewEnough` counts people and substitutes; the
  role given to the next member leaves room for the others (`OneIsAdmitted`), by
  cardinalities of the seats, which the join knows completely under its lock.
* `LeaderIsTheTeams` (`LeaderHoldsTheTeam`): `LeaderStep`, by the roles each commit writes.
* `CancelledIsClosed` (`NothingEntersCancelled`), an action property: a commit that holds
  the team's row has seen the cancellation, and one that has not is named.
* `CapacityOfTheChecked` (`CheckedSeatsFit`). `RoomInv` adds that a request which found
  room under the event's lock still has it; `RoomPayer` uses the unique index, by
  which a payer has one seat to confirm.
* `AdmittedIsKeptOutsideRanges`: `AdmittedIsKept`, which run `range` refutes, where the
  sizes are equal or substitutes are allowed.

## 6. Only model-checked

Every invariant and action property of a passing run is a theorem of section 5,
some under the hypotheses given there. `CapturedIsApplied`, `RequestsEnd` and
`PendingSettles` are liveness under fairness, which the prover does not treat; nor
can it say that a step is possible at all.

## 7. Not modelled, and the plan

Left out of `PaymentCore`: the rows of a team (see `Teams`), deletion, several events, amounts and
signatures (assumed to match), the wording of responses, audit. A refund locks
the payment and then the registration; both waits are one step. Revoke's check
for attendance scans is left out: it only refuses more.

Left out of `Attendance`: creation of checkpoints, seats and teams, deletion,
transfer of leadership, a PATCH of a team's registration, the lists and the
activity view, the rate limit, and the routes' permission checks. A team's
confirmation assumes that the payer is the leader.

Left out of `Teams`: names and contact data, phone numbers, form answers, passes
(see `Attendance`), mails, the solo registration of a member, several events,
deletion, and the payment itself. Capacity counted in registrations is the
subject of `PaymentCore` and `EventSetup`.

Left out of `Notifications`: the mails that tell of a join, a completed team or a
refund, the receipt links, the layout and previews.

Left out of `Administration`: the permission keys other than editing events
(they are read the same way), the routes behind them, profile data, audit rows, which
a restart may lose. Statements that read one after another before the first write
of a handler are one step.

Left out of `EventSetup`: an event without a capacity, types and options of
fields, the answers of team members, content and coordinators beyond their
caches, deletion of the event.

Not modelled at all: Google Sheets (a worksheet outside the database that
nothing reads back), the audit log, exports, templates and receipts (pure
output), deletion of payments, participants and events (one transaction each,
by an administrator, over rows nobody locks), migrations and scripts.

Next: the money and the seats of a team's payment together; lemmas that shorten
the longest proofs (`Teams_proofs`, `Notifications_proofs`), whose cases repeat a
few shapes of steps.
Seven hazards have no property. Four are races or crashes that nothing in the
code prevents (section 4, and the notes in `PROJECT.json`); three need a provider that
refunds, several registrations of a profile, and the worksheet.
