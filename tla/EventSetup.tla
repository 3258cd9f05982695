----------------------------- MODULE EventSetup -----------------------------
(***************************************************************************)
(* One event as administrators set it up while people register: the        *)
(* events row, its rules row (RosterRules), its registration fields, and   *)
(* the two caches of services/event_service.py that answer the public.     *)
(*                                                                         *)
(* An administrator's request reads the event without a lock, changes the  *)
(* attributes of what it read, and its commit writes the columns that      *)
(* differ from what it read.  After the commit it still has to refresh the *)
(* row, so the caches are dropped in a later step, or never if that fails. *)
(* A participant who registers locks the events row until the registration *)
(* is committed.  An edit of that row waits for the lock, and so does what *)
(* inserts rows that refer to the event: a new field, or a registration    *)
(* entered by an administrator, who does not look at the event's state.    *)
(* Edits of the rules and of existing fields do not wait.                  *)
(*                                                                         *)
(* The event has a capacity, counted in registrations: solo registrations  *)
(* and teams whose leader is the only active member.                       *)
(***************************************************************************)
EXTENDS RosterRules, FiniteSets

CONSTANTS
    Rows,          \* registrations that may be inserted
    Fields,        \* registration fields that may be configured
    Reqs,          \* requests that may run at the same time
    Capacities,    \* values of events.capacity
    CreateBodies,  \* bodies of POST /events, as far as they make rules
    RuleBodies,    \* bodies of PATCH /events/{id}/registration-rules
    MaxEdits,      \* bound on the edits of event, rules and fields
    NoEntry,       \* an empty cache
    NoReq          \* a free lock

Modes == {"INDIVIDUAL_ONLY", "TEAM_ONLY", "TEAM_OR_INDIVIDUAL"}

\* A number, style or mode that a body may leave out; custom is the roster
\* style in custom_fields; nulls tells that a number is given as null.
Body == [mode : Modes \cup {Unset},
         required : {Unset} \cup Nat, subs : {Unset} \cup Nat,
         min : {Unset} \cup Nat, max : {Unset} \cup Nat,
         style : Styles \cup {Unset}, custom : Styles \cup {"unset", Unset},
         nulls : BOOLEAN]

\* A new event has a mode and team sizes, their defaults if nothing else.
ASSUME SetupAssumption ==
    /\ IsFiniteSet(Rows)
    /\ Capacities \subseteq Nat /\ Capacities # {}
    /\ MaxEdits \in Nat
    /\ NoReq \notin Reqs /\ Unset \notin Modes
    /\ CreateBodies \cup RuleBodies \subseteq Body
    /\ \A b \in CreateBodies : b.mode \in Modes /\ {b.min, b.max} \subseteq Nat

VARIABLES
    event,      \* visibility, registration_status and capacity
    rules,      \* the rules row and registration_mode
    regs,       \* the state of each registration
    fields,     \* the state of each registration field
    answers,    \* pairs of registration and answered field
    list,       \* _events_list_cache
    spots,      \* _spots_cache[event.id]
    eventLock,  \* holder of the lock on the events row
    req,        \* what each request is doing and remembers
    edits,      \* edits committed so far
    torn        \* rows written by an edit that had read an older version

caches == <<list, spots>>
setup  == <<event, rules, edits, torn>>
forms  == <<fields, answers>>
vars   == <<setup, regs, forms, caches, eventLock, req>>

Statuses == {"CLOSED", "COMING_SOON", "OPEN"}
Event == [visible : BOOLEAN, status : Statuses, capacity : Capacities]
Rules == [min : Nat, max : Nat, required : Nat, subs : Nat,
          style : Styles \cup {"unset"}, individual : BOOLEAN, mode : Modes]

\* REVOKED stands for a registration that was confirmed and is not any
\* more; its payment keeps it from being deleted.
RegStates == {"none", "PENDING", "CONFIRMED", "REVOKED", "deleted"}
FieldStates == {"absent", "hidden", "optional", "required"}

Registering == {"solo", "formTeam", "team"}
EventEdits == {"publish", "unpublish", "open", "close", "soon", "capacity"}
Ops == Registering \cup EventEdits
         \cup {"none", "rules", "list", "look", "confirm", "delete"}

\* seen and new: the row an edit or a reader has read, and what it makes of it.
Request == [pc : {"idle", "write", "count", "store", "form", "insert", "drop"},
            op : Ops, seen : Event \cup Rules \cup {NoEntry},
            new : Event \cup Rules \cup {NoEntry},
            left : Nat, r : Rows \cup {NoEntry}, allowed : BOOLEAN,
            ans : SUBSET Fields]

Idle == [pc |-> "idle", op |-> "none", seen |-> NoEntry, new |-> NoEntry,
         left |-> 0, r |-> NoEntry, allowed |-> FALSE, ans |-> {}]

Start(c, request) == req[c].pc = "idle" /\ req' = [req EXCEPT ![c] = request]

\* The commit is done; the caches an operation concerns are still to be dropped.
Dropping(op) == [Idle EXCEPT !.pc = "drop", !.op = op]
\* A request that ends releases the lock it may hold.
Finish(c) ==
    /\ req' = [req EXCEPT ![c] = Idle]
    /\ eventLock' = IF eventLock = c THEN NoReq ELSE eventLock

\* Variants named Mutant... are defects the run must notice: they stand in
\* for the definition that follows them and are used nowhere else.

MutantGranted(c) == TRUE

\* Nobody else holds the events row: SELECT ... FOR UPDATE or UPDATE goes on.
Granted(c) == eventLock \in {NoReq, c}
-----------------------------------------------------------------------------
(* Making and editing the rules row.                                       *)

WithMode(r, mode) ==
    IF mode = Unset THEN r ELSE [ApplyMode(r, mode) EXCEPT !.mode = mode]

\* AdminEventCreate.sync_roster_team_sizes.
Validated(b) ==
    IF b.required # Unset \/ b.subs # Unset
    THEN LET required == Clamp(1, MaxRequired, OrElse(Given(b.required, 0), b.min))
             subs     == Clamp(0, MaxSubstitutes, Given(b.subs, b.max - b.min))
         IN [b EXCEPT !.required = required, !.subs = subs,
                      !.min = required, !.max = required + subs]
    ELSE LET low == Clamp(1, MaxRequired, b.min)
         IN [b EXCEPT !.required = low, !.subs = 0, !.min = low,
                      !.max = Greatest(low, Least(MaxRequired + MaxSubstitutes, b.max))]

\* The rules of a new event; before the insert the columns not in the body
\* are empty.
Created(body) ==
    LET b == Validated(body)
        r == WithMode([min |-> b.min, max |-> b.max, required |-> 0, subs |-> 0,
                       style |-> Given(b.custom, "unset"), individual |-> TRUE,
                       mode |-> b.mode], b.mode)
    IN IF b.mode = "INDIVIDUAL_ONLY" THEN r ELSE ApplyRoster(r, b)

\* roster_patch is not empty, or there is a style.
RosterGiven(b) ==
    \/ b.nulls
    \/ b.required # Unset \/ b.subs # Unset
    \/ b.min # Unset \/ b.max # Unset \/ b.style # Unset

\* Sizes are applied in every mode.
MutantPatched(r, b) ==
    LET s == WithMode([r EXCEPT !.style = Given(b.custom, r.style)], b.mode)
    IN IF RosterGiven(b) THEN ApplyRoster(s, b) ELSE s

\* patch_registration_rules.  A body with custom_fields replaces all of them,
\* the roster style included.
Patched(r, b) ==
    LET s == WithMode([r EXCEPT !.style = Given(b.custom, r.style)], b.mode)
    IN IF RosterGiven(b) /\ s.mode # "INDIVIDUAL_ONLY" THEN ApplyRoster(s, b) ELSE s

\* POST /events makes a hidden, closed event without fields; it may have been
\* published, opened and given a form since.
Init ==
    /\ event \in Event /\ (event.visible <=> event.status = "OPEN")
    /\ event.visible \/ event.status = "CLOSED"
    /\ rules \in {Created(b) : b \in CreateBodies}
    /\ regs = [r \in Rows |-> "none"]
    /\ fields = [f \in Fields |-> IF event.visible THEN "required" ELSE "absent"]
    /\ answers = {} /\ torn = {}
    /\ list = NoEntry /\ spots = NoEntry
    /\ eventLock = NoReq
    /\ req = [c \in Reqs |-> Idle]
    /\ edits = 0

\* The UPDATE of an edit names the columns that differ from what it had read.
Merged(seen, new, current) ==
    [k \in DOMAIN current |-> IF new[k] = seen[k] THEN current[k] ELSE new[k]]

Edit == edits < MaxEdits /\ edits' = edits + 1

BeginRules(c, b) ==
    /\ Edit
    /\ Start(c, [Idle EXCEPT !.pc = "write", !.op = "rules",
                             !.seen = rules, !.new = Patched(rules, b)])
    /\ UNCHANGED <<event, rules, torn, regs, forms, caches, eventLock>>

WriteRules(c) ==
    /\ req[c].pc = "write" /\ req[c].op = "rules"
    /\ rules' = Merged(req[c].seen, req[c].new, rules)
    /\ torn' = IF req[c].seen = rules THEN torn ELSE torn \cup {"rules"}
    /\ req' = [req EXCEPT ![c] = Dropping(req[c].op)]
    /\ UNCHANGED <<event, edits, regs, forms, caches, eventLock>>
-----------------------------------------------------------------------------
(* Publishing, opening, closing and resizing the event (event_state.py).   *)

\* A hidden event may be opened.
MutantPermitted(op, e) == op = "soon" => e.visible /\ e.status # "OPEN"

Permitted(op, e) ==
    CASE op = "open" -> e.visible
      [] op = "soon" -> e.visible /\ e.status # "OPEN"
      [] OTHER -> TRUE

\* A published event is never changed by enforce_event_invariants.
Edited(op, e, n) ==
    CASE op = "publish" ->
           [e EXCEPT !.visible = TRUE,
                     !.status = IF @ = "CLOSED" THEN "COMING_SOON" ELSE @]
      [] op = "unpublish" -> [e EXCEPT !.visible = FALSE, !.status = "CLOSED"]
      [] op = "open" -> [e EXCEPT !.status = "OPEN"]
      [] op = "close" -> [e EXCEPT !.status = "CLOSED"]
      [] op = "soon" -> [e EXCEPT !.status = "COMING_SOON"]
      [] op = "capacity" -> [e EXCEPT !.capacity = n]

BeginEdit(c, op, n) ==
    /\ Edit
    /\ op # "capacity" => n = event.capacity
    /\ Permitted(op, event)
    /\ Start(c, [Idle EXCEPT !.pc = "write", !.op = op,
                             !.seen = event, !.new = Edited(op, event, n)])
    /\ UNCHANGED <<event, rules, torn, regs, forms, caches, eventLock>>

\* An edit that changes nothing sends no UPDATE and waits for nobody.
WriteEvent(c) ==
    LET seen == req[c].seen  new == req[c].new IN
    /\ req[c].pc = "write" /\ req[c].op \in EventEdits
    /\ Granted(c) \/ new = seen
    /\ event' = Merged(seen, new, event)
    /\ torn' = IF seen.visible = event.visible /\ seen.status = event.status
               THEN torn ELSE torn \cup {"event"}
    /\ req' = [req EXCEPT ![c] = Dropping(req[c].op)]
    /\ UNCHANGED <<rules, edits, regs, forms, caches, eventLock>>

Used == Cardinality({r \in Rows : regs[r] = "CONFIRMED"})

\* An oversold event has a negative number of places.
MutantRemaining(capacity) == capacity - Used

Remaining(capacity) == IF capacity > Used THEN capacity - Used ELSE 0

\* The part of an event's list entry that an edit changes; an unpublished
\* event is not listed.
Shown(e) == IF e.visible THEN e.status ELSE "unlisted"

\* fresh is no part of the caches: it tells that the entry was true when
\* it was stored, and has not become false by a change nobody announces.
ListEntry(e) == [shown |-> Shown(e), fresh |-> Shown(e) = Shown(event)]
SpotsEntry(n) == [left |-> n, fresh |-> n = Remaining(event.capacity)]

\* A confirmation does not drop the places left.
MutantDropsSpots(op) ==
    op \in EventEdits \cup {"rules", "delete", "solo", "formTeam"}

\* Operations that call invalidate_events_list_cache, invalidate_spots_cache.
DropsList(op) == op \in EventEdits \cup {"rules", "delete"}
DropsSpots(op) ==
    op \in EventEdits \cup {"rules", "delete", "confirm", "solo", "formTeam"}

DropCaches(c) ==
    /\ req[c].pc = "drop"
    /\ list' = IF DropsList(req[c].op) THEN NoEntry ELSE list
    /\ spots' = IF DropsSpots(req[c].op) THEN NoEntry ELSE spots
    /\ Finish(c)
    /\ UNCHANGED <<setup, regs, forms>>

\* The refresh after the commit fails, or the answer to the commit is lost:
\* nobody tells the caches.
FailAfterCommit(c) ==
    /\ req[c].pc = "drop"
    /\ list' = IF list = NoEntry THEN list
               ELSE [list EXCEPT !.fresh = @ /\ list.shown = Shown(event)]
    /\ spots' = IF spots = NoEntry THEN spots
                ELSE [spots EXCEPT !.fresh = @ /\ spots.left = Remaining(event.capacity)]
    /\ Finish(c)
    /\ UNCHANGED <<setup, regs, forms>>

AfterCommit(c) == DropCaches(c) \/ FailAfterCommit(c)

\* Content sections and coordinators are no part of the list, their edits
\* drop it all the same.
EditContent ==
    /\ list' = NoEntry
    /\ UNCHANGED <<setup, regs, forms, spots, eventLock, req>>

MutantUnanswered(f) == TRUE

\* A field whose answers refer to it cannot be deleted, a new one refers to
\* the event.
Unanswered(f) == \A r \in Rows : <<r, f>> \notin answers

\* Create, update or delete a registration field.
EditField(f, s) ==
    /\ Edit
    /\ fields[f] # s
    /\ s = "absent" => Unanswered(f)
    /\ fields[f] = "absent" => eventLock = NoReq
    /\ fields' = [fields EXCEPT ![f] = s]
    /\ UNCHANGED <<event, rules, torn, regs, answers, caches, eventLock, req>>
-----------------------------------------------------------------------------
(* How many places are left, and the public list of events.                *)

\* GET /events on an empty cache.
ListEvents(c) ==
    /\ list = NoEntry
    /\ Start(c, [Idle EXCEPT !.pc = "count", !.op = "list", !.seen = event])
    /\ UNCHANGED <<setup, regs, forms, caches, eventLock>>

\* GET /events/{id} and every administrator's answer about the event.
LookAt(c) ==
    /\ Start(c, [Idle EXCEPT !.pc = "count", !.op = "look", !.seen = event])
    /\ UNCHANGED <<setup, regs, forms, caches, eventLock>>

\* What a request does as soon as it knows the places left.
Counted(c, left) ==
    \/ /\ req[c].op \in Registering /\ left > 0 /\ req[c].allowed
       /\ req' = [req EXCEPT
             ![c] = [Idle EXCEPT !.pc = IF req[c].op = "team" THEN "insert" ELSE "form",
                                 !.op = req[c].op, !.r = req[c].r]]
       /\ UNCHANGED <<list, eventLock>>
    \/ /\ req[c].op \in Registering /\ ~ (left > 0 /\ req[c].allowed)
       /\ Finish(c) /\ UNCHANGED list
    \/ /\ req[c].op = "look"
       /\ Finish(c) /\ UNCHANGED list
    \/ /\ req[c].op = "list"
       /\ list' = ListEntry(req[c].seen)
       /\ Finish(c)

Unlisted(c) == req[c].op = "list" /\ ~ req[c].seen.visible

CountCached(c) ==
    /\ req[c].pc = "count"
    /\ \/ Unlisted(c) /\ Counted(c, 0)
       \/ ~ Unlisted(c) /\ spots # NoEntry /\ Counted(c, spots.left)
    /\ UNCHANGED <<setup, regs, forms, spots>>

CountRows(c) ==
    /\ req[c].pc = "count" /\ ~ Unlisted(c) /\ spots = NoEntry
    /\ req' = [req EXCEPT ![c].pc = "store",
                          ![c].left = Remaining(req[c].seen.capacity)]
    /\ UNCHANGED <<setup, regs, forms, caches, eventLock>>

StoreCount(c) ==
    /\ req[c].pc = "store"
    /\ spots' = SpotsEntry(req[c].left)
    /\ Counted(c, req[c].left)
    /\ UNCHANGED <<setup, regs, forms>>

\* The time to live of an entry is over.
Expire ==
    /\ \/ list # NoEntry /\ list' = NoEntry /\ UNCHANGED spots
       \/ spots # NoEntry /\ spots' = NoEntry /\ UNCHANGED list
    /\ UNCHANGED <<setup, regs, forms, eventLock, req>>
-----------------------------------------------------------------------------
(* Registrations.                                                          *)

\* Whether the rules, read under the lock, let this kind of registration in.
Allowed(op) ==
    CASE op = "solo" -> rules.individual
      [] op = "formTeam" -> rules.max > 1
      [] op = "team" -> TRUE

Unclaimed(r) == regs[r] = "none" /\ \A d \in Reqs : req[d].r # r

\* create_registration and create_team lock the event and look at it.
Register(c, op, r) ==
    /\ Unclaimed(r)
    /\ Granted(c)
    /\ event.visible /\ event.status = "OPEN"
    /\ op = "team" => TeamMax(rules) > 1
    /\ Start(c, [Idle EXCEPT !.pc = "count", !.op = op, !.r = r, !.seen = event,
                             !.allowed = Allowed(op)])
    /\ eventLock' = c
    /\ UNCHANGED <<setup, regs, forms, caches>>

\* validate_and_prepare_responses: only visible fields, all required ones.
AnswerForm(c, ans) ==
    /\ req[c].pc = "form"
    /\ \A f \in ans : fields[f] \in {"optional", "required"}
    /\ \A f \in Fields : fields[f] = "required" => f \in ans
    /\ req' = [req EXCEPT ![c].pc = "insert", ![c].ans = ans]
    /\ UNCHANGED <<setup, regs, forms, caches, eventLock>>

\* An unknown field, a missing answer, or the profile is registered already.
RefuseForm(c) ==
    /\ req[c].pc = "form"
    /\ Finish(c)
    /\ UNCHANGED <<setup, regs, forms, caches>>

\* The commit; only the form's registrations drop the cached places.
Insert(c) ==
    LET r == req[c].r IN
    /\ req[c].pc = "insert"
    /\ \A f \in req[c].ans : fields[f] # "absent"
    /\ regs' = [regs EXCEPT ![r] = "PENDING"]
    /\ answers' = answers \cup {r} \X req[c].ans
    /\ eventLock' = NoReq
    /\ req' = [req EXCEPT ![c] = IF req[c].op = "team" THEN Idle
                                 ELSE Dropping(req[c].op)]
    /\ UNCHANGED <<setup, fields, caches>>

\* An answered field is gone: the foreign key fails the insert.
FailInsert(c) ==
    /\ req[c].pc = "insert"
    /\ \E f \in req[c].ans : fields[f] = "absent"
    /\ Finish(c)
    /\ UNCHANGED <<setup, regs, forms, caches>>

\* A payment of Razorpay's is applied (payments/apply.py).
Confirm(c, r) ==
    /\ regs[r] = "PENDING"
    /\ Granted(c) /\ Used < event.capacity
    /\ Start(c, Dropping("confirm"))
    /\ regs' = [regs EXCEPT ![r] = "CONFIRMED"]
    /\ UNCHANGED <<setup, forms, caches, eventLock>>

\* The cached places are wrong from now on and nobody tells the cache.
SpotsOutdated ==
    spots' = IF spots = NoEntry THEN NoEntry ELSE [spots EXCEPT !.fresh = FALSE]

\* Revocation, cancellation or refund by an administrator: no cache is dropped.
Revoke(r) ==
    /\ regs[r] = "CONFIRMED"
    /\ regs' = [regs EXCEPT ![r] = "REVOKED"]
    /\ SpotsOutdated
    /\ UNCHANGED <<setup, forms, list, eventLock, req>>

\* A payment taken offline is entered, perhaps together with a registration:
\* no cache is dropped.
ConfirmOffline(r) ==
    /\ regs[r] = "PENDING" \/ Unclaimed(r)
    /\ eventLock = NoReq /\ Used < event.capacity
    /\ regs' = [regs EXCEPT ![r] = "CONFIRMED"]
    /\ SpotsOutdated
    /\ UNCHANGED <<setup, forms, list, eventLock, req>>

\* manual_register_participant without mark_paid: the event has to exist.
RegisterByHand(r) ==
    /\ Unclaimed(r)
    /\ eventLock = NoReq
    /\ regs' = [regs EXCEPT ![r] = "PENDING"]
    /\ UNCHANGED <<setup, forms, caches, eventLock, req>>

\* What administrators do to a registration without telling any cache.
ByHand(r) == Revoke(r) \/ ConfirmOffline(r) \/ RegisterByHand(r)

\* admin_delete_registration and admin_delete_team of an unpaid registration.
Delete(c, r) ==
    /\ regs[r] = "PENDING"
    /\ Start(c, Dropping("delete"))
    /\ regs' = [regs EXCEPT ![r] = "deleted"]
    /\ answers' = {a \in answers : a[1] # r}
    /\ UNCHANGED <<setup, fields, caches, eventLock>>

\* The process restarts: caches and uncommitted work are gone.
Restart ==
    /\ req' = [c \in Reqs |-> Idle]
    /\ eventLock' = NoReq
    /\ list' = NoEntry /\ spots' = NoEntry
    /\ UNCHANGED <<setup, regs, forms>>
-----------------------------------------------------------------------------
Administrate(c) ==
    \/ \E op \in EventEdits, n \in Capacities : BeginEdit(c, op, n)
    \/ WriteEvent(c)
    \/ \E b \in RuleBodies : BeginRules(c, b)
    \/ WriteRules(c)
    \/ \E r \in Rows : Delete(c, r)

Read(c) ==
    \/ ListEvents(c) \/ LookAt(c)
    \/ CountCached(c) \/ CountRows(c) \/ StoreCount(c)

Enrol(c) ==
    \/ \E op \in Registering, r \in Rows : Register(c, op, r)
    \/ \E ans \in SUBSET Fields : AnswerForm(c, ans)
    \/ RefuseForm(c) \/ Insert(c) \/ FailInsert(c)
    \/ \E r \in Rows : Confirm(c, r)

Next ==
    \/ \E c \in Reqs : Administrate(c) \/ Read(c) \/ Enrol(c) \/ AfterCommit(c)
    \/ \E f \in Fields, s \in FieldStates : EditField(f, s)
    \/ \E r \in Rows : ByHand(r)
    \/ EditContent \/ Expire \/ Restart

Spec == Init /\ [][Next]_vars
-----------------------------------------------------------------------------
\* Everything has its type.
TypeOK ==
    /\ event \in Event /\ rules \in Rules
    /\ regs \in [Rows -> RegStates]
    /\ fields \in [Fields -> FieldStates]
    /\ answers \subseteq Rows \X Fields
    /\ list \in [shown : Statuses \cup {"unlisted"}, fresh : BOOLEAN] \cup {NoEntry}
    /\ spots \in [left : Nat, fresh : BOOLEAN] \cup {NoEntry}
    /\ eventLock \in Reqs \cup {NoReq}
    /\ req \in [Reqs -> Request]
    /\ edits \in 0..MaxEdits /\ torn \subseteq {"event", "rules"}

Consistent(e) == e.visible \/ e.status = "CLOSED"

\* event_state.py's rule, an unpublished event is closed, holds as long as
\* no two edits of the state overlapped.  (It is lost when they do: open has
\* read PUBLISHED, unpublish commits, open writes its one column.)
HiddenIsClosed == "event" \in torn \/ Consistent(event)

Aligned(r) ==
    /\ r.required = r.min /\ r.min \in 1..MaxRequired
    /\ r.min <= r.max /\ r.max <= MaxRequired + MaxSubstitutes
    /\ r.subs > 0 => r.max = r.min + r.subs
    /\ r.mode = "INDIVIDUAL_ONLY" => r.individual /\ r.max = 1
    /\ r.mode = "TEAM_ONLY" => ~ r.individual

\* roster_service.py keeps the old and the new columns of the rules aligned,
\* whatever sequence of modes, styles and sizes is patched, as long as no
\* two patches overlapped.
RulesAgree == "rules" \in torn \/ Aligned(rules)

\* A request of a participant inserts its registration only while the event
\* is public and open: the lock create_registration and create_team hold
\* keeps unpublish and close out between their look at the event and their
\* commit.  Administrators enter registrations at any event.
RegisteredWhileOpen ==
    [][\A c \in Reqs : \A r \in Rows :
         /\ req[c].op \in Registering /\ req[c].r = r
         /\ regs[r] = "none" /\ regs'[r] # "none"
         => event.visible /\ event.status = "OPEN"]_vars

\* A cached answer that was true when stored is still true, or the request
\* that made it false is about to drop it: every edit, every confirmation of
\* a payment of Razorpay's and every deletion that does not fail after its
\* commit tells the caches it concerns.  Revocations and payments taken
\* offline tell nobody.
CachesAreTold ==
    /\ list # NoEntry /\ list.fresh =>
         \/ list.shown = Shown(event)
         \/ \E c \in Reqs : req[c].pc = "drop" /\ DropsList(req[c].op)
    /\ spots # NoEntry /\ spots.fresh =>
         \/ spots.left = Remaining(event.capacity)
         \/ \E c \in Reqs : req[c].pc = "drop" /\ DropsSpots(req[c].op)

\* Every answer belongs to a registration and to a field that exist, though
\* fields are edited while a form is being validated and inserted.
AnswersHaveTheirField ==
    \A a \in answers : regs[a[1]] \notin {"none", "deleted"} /\ fields[a[2]] # "absent"
=============================================================================
