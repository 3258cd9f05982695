--------------------------- MODULE Notifications ---------------------------
(***************************************************************************)
(* The mails about one confirmed team registration: confirmations with the *)
(* entry pass (services/confirmation_email.py), their resend by an         *)
(* administrator (services/admin_confirmation_resend.py), campaigns and    *)
(* the resend of a notification (services/notification_service.py).        *)
(*                                                                         *)
(* A notification is committed as PENDING and its mail is handed to a      *)
(* background task of the process, which a restart loses; a resend by an   *)
(* administrator calls SMTP inside the request and commits afterwards.     *)
(***************************************************************************)
EXTENDS Naturals, Sequences, FiniteSets

CONSTANTS People,     \* the participants on the roster
          Lead,       \* the team's leader
          Linked,     \* those with a profile; the others were entered by name
          Reachable,  \* those with an e-mail address
          Keys,       \* client_request_id of campaigns and resends
          NoKey, NoProfile, Nobody,
          Reqs,
          Ops,        \* operations a run lets the requests perform
          MaxRows,    \* bound: notifications
          MaxAsks,    \* bound: requests in a behaviour
          MaxFaults   \* bound: restarts, lost writes and failed refreshes

ASSUME PeopleAssumption ==
  /\ Lead \in Linked /\ Linked \subseteq People /\ Reachable \subseteq People
  /\ NoKey \notin Keys
  /\ MaxRows \in Nat /\ MaxAsks \in Nat /\ MaxFaults \in Nat

VARIABLES rows,      \* the notifications, in the order of their ids
          tasks,     \* background deliveries of the running process
          box,       \* mails the SMTP server accepted
          req,       \* requests in flight
          pass,      \* participants with an active QR code
          asks,      \* requests so far
          confirmed, \* the registration is CONFIRMED and its payment PAID
          faults,    \* restarts, lost writes and failed refreshes so far
          raced      \* keys and participants two requests were busy with at a time

vars == <<rows, tasks, box, req, pass, asks, confirmed, faults, raced>>

\* A row whose transaction is not committed (or was lost) is UNCOMMITTED.
Row == [kind : {"confirm", "admin", "campaign"}, key : Keys \cup {NoKey}, for : People,
        status : {"PENDING", "SENT", "FAILED", "UNCOMMITTED"}, resent : BOOLEAN]
Task == [row : 1 .. MaxRows, at : People, qr : BOOLEAN,
         outcome : {"queued", "accepted", "refused"}]
Mail == [row : 1 .. MaxRows, at : People, qr : BOOLEAN]

\* todo: the recipients left; has: who had a pass when it was looked; who and
\* row: the recipient being served.
Request == [op : {"idle", "confirm", "admin", "campaign"}, key : Keys \cup {NoKey},
            todo : SUBSET (People \cup {NoProfile}), has : SUBSET People,
            who : People \cup {Nobody}, step : {"next", "post", "accepted", "refused"},
            row : 0 .. MaxRows]

Idle == [op |-> "idle", key |-> NoKey, todo |-> {}, has |-> {}, who |-> Nobody,
         step |-> "next", row |-> 0]

Ids == DOMAIN rows
Pending == {n \in Ids : rows[n].status = "PENDING"}
Visible(n) == rows[n].status # "UNCOMMITTED"

\* Who has no pass: a process stopped between the confirmation and its passes,
\* and the others joined since.
Init == /\ rows = <<>> /\ tasks = {} /\ box = {} /\ req = [c \in Reqs |-> Idle]
        /\ pass \in {People, People \ {Lead}} /\ confirmed = TRUE /\ asks = 0 /\ faults = 0 /\ raced = {}

\* Notification.profile_id, and the address it resolves to.
Owner(p) == IF p \in Linked THEN p ELSE Lead

\* Two arguments swapped.
MutantNewRow(kind, key, p, status) ==
  [kind |-> kind, key |-> p, for |-> key, status |-> status, resent |-> FALSE]

NewRow(kind, key, p, status) ==
  [kind |-> kind, key |-> key, for |-> p, status |-> status, resent |-> FALSE]
NewTask(n, p, qr) == [row |-> n, at |-> p, qr |-> qr, outcome |-> "queued"]

\* Only what was sent counts, not what is about to be.
MutantConfirmationWasSent(p) ==
  \E n \in Ids : rows[n].kind = "confirm" /\ rows[n].for = p /\ rows[n].status = "SENT"

\* confirmation_was_sent, by the dedupe key of a participant and the payment.
ConfirmationWasSent(p) ==
  \E n \in Ids : rows[n].kind = "confirm" /\ rows[n].for = p
                   /\ rows[n].status \in {"SENT", "PENDING"}

MutantKeyUsed(kind, key) ==
  \E n \in Ids : rows[n].kind = kind /\ rows[n].key = key /\ rows[n].status = "SENT"

\* campaign_exists and _admin_resend_request_exists.
KeyUsed(kind, key) == \E n \in Ids : rows[n].kind = kind /\ rows[n].key = key /\ Visible(n)

Update(c, r) == req' = [req EXCEPT ![c] = r]
Finish(c) == Update(c, Idle)
\* The request goes on with its next recipient, or ends after the last one.
Next1(c, p) == LET r == req[c]
               IN Update(c, IF r.todo = {p} THEN Idle
                            ELSE [r EXCEPT !.todo = @ \ {p}, !.who = Nobody, !.step = "next",
                                           !.row = 0])
OneMoreAsk == asks < MaxAsks /\ asks' = asks + 1
Begin(c, op, key, todo) ==
  /\ op \in Ops /\ req[c] = Idle /\ OneMoreAsk
  /\ Update(c, [Idle EXCEPT !.op = op, !.key = key, !.todo = todo, !.has = pass])
  /\ raced' = IF key # NoKey /\ \E d \in Reqs : req[d].op = op /\ req[d].key = key
              THEN raced \cup {key} ELSE raced
  /\ UNCHANGED <<rows, tasks, box, pass, confirmed, faults>>

-----------------------------------------------------------------------------
(* Confirmations: after a payment, for the whole roster; after a join, for  *)
(* the new member.                                                          *)

NotifyPayment(c) == confirmed /\ Begin(c, "confirm", NoKey, People)
NotifyMember(c, p) == p \in pass /\ Begin(c, "confirm", NoKey, {p})

\* _send_team_member_confirmation_email up to the look for an earlier mail.
Look(c, p) ==
  LET r == req[c]
      send == p \in pass /\ p \in Reachable /\ ~ ConfirmationWasSent(p)
  IN /\ r.op = "confirm" /\ r.step = "next" /\ p \in r.todo
     /\ IF send THEN Update(c, [r EXCEPT !.who = p, !.step = "post"]) ELSE Next1(c, p)
     /\ raced' = IF send /\ \E d \in Reqs : req[d].op = "confirm" /\ req[d].who = p
                 THEN raced \cup {p} ELSE raced
     /\ UNCHANGED <<rows, tasks, box, pass, confirmed, faults, asks>>

\* create_and_send_with_inline_image: the row is committed, then the task made.
Post(c) ==
  LET r == req[c]  p == r.who
  IN /\ r.op = "confirm" /\ r.step = "post" /\ Len(rows) < MaxRows
     /\ rows' = Append(rows, NewRow("confirm", NoKey, p, "PENDING"))
     /\ tasks' = tasks \cup {NewTask(Len(rows) + 1, p, TRUE)}
     /\ Next1(c, p)
     /\ UNCHANGED <<box, pass, confirmed, faults, raced, asks>>

-----------------------------------------------------------------------------
(* Campaigns. *)

\* _eligible_event_profile_ids: a participant entered by name adds no profile.
EligibleProfiles == IF confirmed THEN {IF p \in Linked THEN p ELSE NoProfile : p \in People}
                                 ELSE {}

\* send_template_campaign up to the list of recipients; an announcement or a
\* reminder has no key.
Campaign(c, key) ==
  /\ key # NoKey => ~ KeyUsed("campaign", key)
  /\ EligibleProfiles # {}
  /\ Begin(c, "campaign", key, EligibleProfiles)

\* create_and_send; a row without a profile violates a constraint and the
\* request ends there.
CampaignPost(c, p) ==
  LET r == req[c]
  IN /\ r.op = "campaign" /\ p \in r.todo
     /\ IF p = NoProfile
        THEN Finish(c) /\ UNCHANGED <<rows, tasks>>
        ELSE /\ Len(rows) < MaxRows
             /\ rows' = Append(rows, NewRow("campaign", r.key, p,
                                            IF p \in Reachable THEN "PENDING" ELSE "FAILED"))
             /\ tasks' = tasks \cup {NewTask(Len(rows) + 1, q, FALSE) : q \in {p} \cap Reachable}
             /\ Next1(c, p)
     /\ UNCHANGED <<box, pass, confirmed, faults, raced, asks>>

-----------------------------------------------------------------------------
(* Resend of confirmations by an administrator. *)

\* preview_resend_confirmation.
Resendable == confirmed /\ pass \cap Reachable # {}

\* execute_resend_confirmation and execute_event_resend_confirmation: a used
\* key only replays the outcome of its rows.
AdminResend(c, key, targets) ==
  /\ ~ KeyUsed("admin", key) /\ Resendable
  /\ Begin(c, "admin", key, targets)

\* A recipient without an address, or who had a pass when the preview was made
\* and has lost it since, is left out.
SkipOne(c, p) ==
  /\ req[c].op = "admin" /\ req[c].step = "next" /\ p \in req[c].todo
  /\ p \notin Reachable \/ p \in req[c].has \ pass
  /\ Next1(c, p)
  /\ UNCHANGED <<rows, tasks, box, pass, confirmed, faults, raced, asks>>

\* create_and_deliver_inline_image_sync up to the answer of SMTP; a missing
\* pass is made first (_ensure_member_qr).
ResendOne(c, p, accepted) ==
  LET r == req[c]  n == Len(rows) + 1
  IN /\ r.op = "admin" /\ r.step = "next" /\ p \in r.todo \cap Reachable
     /\ p \notin r.has \ pass /\ Len(rows) < MaxRows
     /\ rows' = Append(rows, NewRow("admin", r.key, p, "UNCOMMITTED"))
     /\ box' = IF accepted THEN box \cup {[row |-> n, at |-> p, qr |-> TRUE]} ELSE box
     /\ Update(c, [r EXCEPT !.who = p, !.row = n, !.step = IF accepted THEN "accepted" ELSE "refused",
                            !.has = @ \cup ({p} \cap pass)])
     /\ UNCHANGED <<tasks, pass, confirmed, faults, raced, asks>>

\* ... and its commit, with the pass if it was made anew.
ResendCommit(c) ==
  LET r == req[c]
  IN /\ r.op = "admin" /\ r.step \in {"accepted", "refused"}
     /\ rows' = [rows EXCEPT ![r.row].status = IF r.step = "accepted" THEN "SENT" ELSE "FAILED"]
     /\ pass' = pass \cup ({r.who} \ r.has)
     /\ Next1(c, r.who)
     /\ UNCHANGED <<tasks, box, confirmed, faults, raced, asks>>

-----------------------------------------------------------------------------
(* Background deliveries. *)

\* send_email within _deliver_notification_bg.
Smtp(t, accepted) ==
  /\ t.outcome = "queued"
  /\ tasks' = (tasks \ {t}) \cup
                {[t EXCEPT !.outcome = IF accepted THEN "accepted" ELSE "refused"]}
  /\ box' = IF accepted THEN box \cup {[row |-> t.row, at |-> t.at, qr |-> t.qr]} ELSE box
  /\ UNCHANGED <<rows, req, pass, confirmed, faults, raced, asks>>

\* The outcome is not looked at.
MutantSettleAsSent(t) ==
  /\ t.outcome # "queued"
  /\ rows' = [rows EXCEPT ![t.row].status = "SENT"] /\ tasks' = tasks \ {t}
  /\ UNCHANGED <<box, req, pass, confirmed, faults, raced, asks>>

\* A refusal is not written.
MutantSettleSuccess(t) ==
  /\ t.outcome # "queued"
  /\ rows' = IF t.outcome = "accepted" THEN [rows EXCEPT ![t.row].status = "SENT"] ELSE rows
  /\ tasks' = tasks \ {t}
  /\ UNCHANGED <<box, req, pass, confirmed, faults, raced, asks>>

\* The outcome is written to the row.
Settle(t) ==
  /\ t.outcome # "queued"
  /\ rows' = [rows EXCEPT ![t.row].status = IF t.outcome = "accepted" THEN "SENT" ELSE "FAILED"]
  /\ tasks' = tasks \ {t}
  /\ UNCHANGED <<box, req, pass, confirmed, faults, raced, asks>>

\* ... or the write fails, which is only logged.  A delivery lost while it is
\* queued was never made: the refresh between the commit of the row and
\* create_task failed.
LoseOutcome(t) ==
  /\ faults < MaxFaults
  /\ tasks' = tasks \ {t} /\ faults' = faults + 1
  /\ UNCHANGED <<rows, box, req, pass, confirmed, raced, asks>>

\* notification_service.resend: to the address of the row's profile, and
\* without the inline image.  Once a row: a bound.
Resend(n) ==
  LET to == Owner(rows[n].for)
  IN /\ "resend" \in Ops /\ Visible(n) /\ ~ rows[n].resent /\ OneMoreAsk
     /\ rows' = [rows EXCEPT ![n].resent = TRUE,
                             ![n].status = IF to \in Reachable THEN "PENDING" ELSE "FAILED"]
     /\ tasks' = tasks \cup {NewTask(n, q, FALSE) : q \in {to} \cap Reachable}
     /\ UNCHANGED <<box, req, pass, confirmed, faults, raced>>

\* The process restarts: its tasks and its requests, if it has any, are gone.
Restart ==
  /\ faults < MaxFaults /\ faults' = faults + 1
  /\ tasks # {} \/ \E c \in Reqs : req[c] # Idle
  /\ tasks' = {} /\ req' = [c \in Reqs |-> Idle]
  /\ UNCHANGED <<rows, box, pass, confirmed, raced, asks>>

\* The registration is revoked: the rows of the passes are updated, which waits
\* for a request that holds one.  Then it is confirmed again, with passes for all.
Revoke == /\ OneMoreAsk /\ confirmed /\ confirmed' = FALSE /\ pass' = {}
          /\ \A c \in Reqs : req[c].who # Nobody => req[c].op = "confirm" \/ req[c].who \in req[c].has
          /\ UNCHANGED <<rows, tasks, box, req, faults, raced>>
Reconfirm == /\ OneMoreAsk /\ ~ confirmed /\ confirmed' = TRUE /\ pass' = People
             /\ UNCHANGED <<rows, tasks, box, req, faults, raced>>

Step(c) == \/ \E p \in req[c].todo : \/ Look(c, p) \/ CampaignPost(c, p) \/ SkipOne(c, p)
                                     \/ \E ok \in BOOLEAN : ResendOne(c, p, ok)
           \/ Post(c) \/ ResendCommit(c)

Deliver(n) == \E t \in tasks : t.row = n /\ (Settle(t) \/ \E ok \in BOOLEAN : Smtp(t, ok))

Ask(c) == \/ NotifyPayment(c)
          \/ \E p \in People : NotifyMember(c, p)
          \/ \E k \in Keys \cup {NoKey} : Campaign(c, k)
          \/ \E k \in Keys, targets \in {People} \cup {{p} : p \in People} :
               AdminResend(c, k, targets)

Next == \/ \E c \in Reqs : Ask(c) \/ Step(c)
        \/ \E n \in Ids : Deliver(n) \/ Resend(n)
        \/ \E t \in tasks : LoseOutcome(t)
        \/ Restart \/ Revoke \/ Reconfirm

\* The event loop runs every task it was given while the process lives.
Fairness == \A n \in 1 .. MaxRows : WF_vars(Deliver(n))

Spec == Init /\ [][Next]_vars /\ Fairness

-----------------------------------------------------------------------------
(* Properties. *)

\* Every variable keeps its type: the notification rows, the deliveries and
\* the mails.
TypeOK ==
  /\ rows \in Seq(Row) /\ Len(rows) <= MaxRows
  /\ tasks \subseteq Task /\ box \subseteq Mail /\ req \in [Reqs -> Request]
  /\ pass \subseteq People /\ confirmed \in BOOLEAN /\ asks \in 0 .. MaxAsks /\ faults \in 0 .. MaxFaults
  /\ raced \subseteq Keys \cup People

\* A confirmation marked SENT that was not resent has reached the participant
\* it is for, with the pass (notification_service.py:162, 299).
SentMeansDelivered ==
  \A n \in Ids : rows[n].status = "SENT" /\ rows[n].kind # "campaign" /\ ~ rows[n].resent
                   => [row |-> n, at |-> rows[n].for, qr |-> TRUE] \in box

\* A participant gets a second confirmation of the payment only when two
\* requests looked for the first one at the same time, when the first one
\* failed or when it was resent (confirmation_email.py:417).
OneConfirmationEach ==
  \A p \in People \ raced :
    Cardinality({n \in Ids : rows[n].kind = "confirm" /\ rows[n].for = p /\ ~ rows[n].resent
                               /\ rows[n].status \in {"SENT", "PENDING"}}) <= 1

\* Requests with one client_request_id mail a participant twice only when two
\* of them ran at the same time or, for a resend, when a restart took one
\* between SMTP and the commit (notification_service.py:679,
\* admin_confirmation_resend.py:436).
KeyedOnce ==
  \A k \in Keys \ raced, p \in People, kind \in {"campaign", "admin"} :
    LET mails == {m \in box : /\ rows[m.row].kind = kind /\ rows[m.row].key = k
                              /\ rows[m.row].for = p /\ ~ rows[m.row].resent}
    IN Cardinality(mails) > 1 => kind = "admin" /\ faults > 0

\* A notification does not stay PENDING, unless the process was restarted,
\* the outcome could not be written or the row could not be refreshed (notification_service.py:162).
PendingSettles ==
  \A n \in 1 .. MaxRows : n \in Pending ~> (n \notin Pending \/ faults > 0)
=============================================================================
