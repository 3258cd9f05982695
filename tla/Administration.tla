--------------------------- MODULE Administration ---------------------------
(***************************************************************************)
(* Administrators, their roles and the events they are assigned to         *)
(* (api/v1/endpoints/admin.py, services/event_assignment_service.py,       *)
(* admin_delete_admin_user), and how a request is given its authority: a   *)
(* token (core/security.py), then a row kept for a while in the process    *)
(* (api/deps_admin.py).                                                    *)
(*                                                                         *)
(* A request is authenticated, from the cache or by reading the row and    *)
(* then storing it; an operation on an administrator reads first, commits  *)
(* what it decided on, and drops the cached row after the commit.          *)
(*                                                                         *)
(* What is stored is the object of the request's session, not a copy:      *)
(* until the request ends, what its operation sets on its own row or on    *)
(* the row of its role shows in the cache before any commit, and stays     *)
(* when there is none; a rollback empties the object, and whoever is given *)
(* it from the cache fails.  A session reads a row once: its own row and   *)
(* role are, to its operation, what they were when it was authenticated.   *)
(***************************************************************************)
EXTENDS Naturals, FiniteSets

CONSTANTS Users,                 \* people who may be administrators
          Roles,                 \* rows of roles
          Super, Coord, Staff,   \* names of roles; the program knows the
          Other,                 \*   first two
          Unnamed,               \* the name of a role not created
          NoRole,                \* the role of a user without a row
          NoUser,
          Keep,                  \* a field absent from a PATCH body
          Events,
          Reqs,
          Ops,                   \* operations a run offers
          Patches, RoleBodies,   \* the bodies of PATCH requests a run offers
          FirstRoles,            \* the roles at the start
          FirstAdmins,           \* role of each user at the start
          TTL,                   \* _ADMIN_CACHE_TTL_SEC
          MaxNow, MaxAsks        \* bounds: time, and requests

ASSUME AdminAssumption ==
  /\ TTL \in Nat \ {0} /\ MaxNow \in Nat /\ MaxAsks \in Nat
  /\ FirstRoles \in [Roles -> [name : {Super, Coord, Staff, Other, Unnamed}, edit : BOOLEAN]]
  /\ FirstAdmins \in [Users -> Roles \cup {NoRole}]
  /\ \A u \in Users : FirstAdmins[u] # NoRole => FirstRoles[FirstAdmins[u]].name # Unnamed
  /\ Roles \cap {NoRole, Keep} = {} /\ \A es \in SUBSET Events : es # Keep
  /\ Super # Coord /\ Unnamed \notin {Super, Coord, Staff, Other}
  /\ Patches \subseteq [roleTo : Roles \cup {Keep}, activeTo : BOOLEAN \cup {Keep},
                        events : (SUBSET Events) \cup {Keep}]
  /\ RoleBodies \subseteq [id : Roles, name : {Super, Coord, Staff, Other}, edit : BOOLEAN]

VARIABLES admin,   \* admin_users: role and is_active of each user
          role,    \* roles: name, and whether its permissions hold event-edit
          scope,   \* event_admin_assignments: pairs of a user and an event
          cache,   \* _admin_cache
          revoked, \* users whose token is in _revoked_jtis
          now,     \* time.monotonic()
          req,     \* requests in flight
          asks,    \* number of requests made
          lost,    \* observation: when a user last lost a power
          raced,   \* observation: cached rows that were old when stored
          touched, \* observation: cached rows that their own request has
                   \*   changed ahead of a commit, or emptied by a rollback
          mixed    \* observation: administrators changed while another request
                   \*   had read their row, or whose role was renamed

vars == <<admin, role, scope, cache, revoked, now, req, asks, lost, raced, touched, mixed>>

Names  == {Super, Coord, Staff, Other}
Powers == {"super", "edit"}
AdminRow == [role : Roles \cup {NoRole}, active : BOOLEAN]
RoleRow  == [name : Names \cup {Unnamed}, edit : BOOLEAN]
NoRow  == [role |-> NoRole, active |-> FALSE]
Nothing == [name |-> Unnamed, edit |-> FALSE]   \* the view of who is no administrator
Empty  == [view |-> Nothing, until |-> 0]       \* no entry of the cache

\* A request: who makes it, when it arrived, what it knows of its authority;
\* its own row as the session holds it, and whether the cached row is that
\* object; then whose row it has read and what it will write (row, roleTo,
\* activeTo, events; was and is, the names read of the role left and the role
\* given; had, the events found), the cached entries it will drop, and whether
\* no other change was committed since it read.
Idle == [step |-> "idle", by |-> NoUser, at |-> 0, view |-> Nothing, own |-> NoRow,
         live |-> FALSE, who |-> NoUser, row |-> NoRow, roleTo |-> Keep, activeTo |-> Keep,
         events |-> Keep, was |-> Unnamed, is |-> Unnamed, had |-> {}, body |-> Keep,
         drops |-> {}, alone |-> TRUE]

Steps == {"grant", "update", "reconcile", "role", "delete", "assign"}

Request == [step : {"idle", "read", "store", "act", "drop"} \cup Steps,
            by : Users \cup {NoUser}, at : Nat, view : RoleRow, own : AdminRow, live : BOOLEAN,
            who : Users \cup {NoUser}, row : AdminRow, roleTo : Roles \cup {Keep},
            activeTo : BOOLEAN \cup {Keep}, events : (SUBSET Events) \cup {Keep},
            was : Names \cup {Unnamed}, is : Names \cup {Unnamed}, had : SUBSET Events,
            body : RoleBodies \cup {Keep}, drops : SUBSET Users, alone : BOOLEAN]

\* What get_current_active_admin reads of a user.
ViewIn(a, r, u) == IF a[u].active THEN r[a[u].role] ELSE Nothing
View(u) == ViewIn(admin, role, u)

\* require_super_admin; require_scoped_event_access and require_mutation_admin:
\* a coordinator writes nothing, whatever the permissions of the role.
Allows(view, power) ==
  \/ view.name = Super
  \/ power = "edit" /\ view.edit /\ view.name \notin {Coord, Unnamed}

\* Active administrators with the name of the role SUPER ADMIN.
SupersIn(a, r) == {u \in Users : ViewIn(a, r, u).name = Super}

Init ==
  /\ role = FirstRoles
  /\ admin = [u \in Users |-> [role |-> FirstAdmins[u], active |-> FirstAdmins[u] # NoRole]]
  /\ scope = {} /\ cache = [u \in Users |-> Empty] /\ revoked = {} /\ now = TTL
  /\ req = [c \in Reqs |-> Idle] /\ asks = 0
  /\ lost = [u \in Users |-> [p \in Powers |-> 0]] /\ raced = {} /\ touched = {}
  /\ mixed = {}

Finish(c) == req' = [req EXCEPT ![c] = Idle]
Rows  == <<admin, role, scope>>
Cached == <<cache, raced, touched>>
Notes == <<lost, mixed>>

-----------------------------------------------------------------------------
(* Authentication. *)

\* get_current_user, and a look into the cache; the time is taken before.
Arrive(c, u) ==
  LET hit == now < cache[u].until
  IN /\ req[c] = Idle /\ u \notin revoked /\ asks < MaxAsks /\ asks' = asks + 1
     /\ req' = [req EXCEPT ![c] = [Idle EXCEPT !.step = IF hit THEN "act" ELSE "read",
                                               !.by = u, !.at = now,
                                               !.view = IF hit THEN cache[u].view ELSE Nothing]]
     /\ UNCHANGED <<Rows, Cached, revoked, now, Notes>>

\* The row is read; who has none, or is not active, is refused.
ReadRow(c) ==
  LET r == req[c]
  IN /\ r.step = "read"
     /\ IF admin[r.by].active
        THEN req' = [req EXCEPT ![c] = [r EXCEPT !.step = "store", !.view = View(r.by),
                                                 !.own = admin[r.by]]]
        ELSE Finish(c)
     /\ UNCHANGED <<Rows, Cached, revoked, now, asks, Notes>>

\* From now on the cached row of u, if there is one, is the object of c.
Live(c, u, to) ==
  [d \in Reqs |-> CASE d = c -> [req[c] EXCEPT !.step = to, !.live = TRUE]
                    [] d # c /\ req[d].by = u -> [req[d] EXCEPT !.live = FALSE]
                    [] OTHER -> req[d]]

StoreUntil(c, until) ==
  LET r == req[c]
  IN /\ r.step = "store"
     /\ cache' = [cache EXCEPT ![r.by] = [view |-> r.view, until |-> until]]
     /\ req' = Live(c, r.by, "act")
     /\ raced' = IF r.view = View(r.by) THEN raced \ {r.by} ELSE raced \cup {r.by}
     /\ touched' = touched \ {r.by}
     /\ UNCHANGED <<Rows, revoked, now, asks, Notes>>

\* The entry lives from the moment it is stored.
MutantStore(c) == StoreUntil(c, now + TTL)

\* ... and stored, though it may have changed.
Store(c) == StoreUntil(c, req[c].at + TTL)

\* logout and google_login; the token of a new login is another one.
Logout(u) == /\ "logout" \in Ops /\ u \notin revoked /\ asks < MaxAsks /\ asks' = asks + 1
             /\ revoked' = revoked \cup {u}
             /\ UNCHANGED <<Rows, Cached, now, req, Notes>>
Login(u) == /\ u \in revoked /\ revoked' = revoked \ {u}
            /\ UNCHANGED <<Rows, Cached, now, req, asks, Notes>>

\* Who the request is allowed to be when it turns to its operation.
Authorised(c, op, power) == op \in Ops /\ req[c].step = "act" /\ Allows(req[c].view, power)

-----------------------------------------------------------------------------
(* Operations on administrators. *)

NameOf(rl) == IF rl = NoRole THEN Unnamed ELSE role[rl].name

\* What the session of c sees of a row and of a role's name: of its own, once
\* it has read them, what it read.
RowSeen(c, u)   == IF u = req[c].by /\ req[c].own # NoRow THEN req[c].own ELSE admin[u]
NameSeen(c, rl) == IF rl # NoRole /\ rl = req[c].own.role THEN req[c].view.name ELSE NameOf(rl)

\* The cached row, if it is the object of c, becomes view.
Shows(c, view) ==
  LET u == req[c].by
  IN IF req[c].live /\ view # cache[u].view
     THEN cache' = [cache EXCEPT ![u].view = view] /\ touched' = touched \cup {u}
     ELSE UNCHANGED <<cache, touched>>

\* What an update writes: only what differs from the row as it was read.
NewRole(r)   == r.roleTo \notin {Keep, r.row.role}
NewActive(r) == r.activeTo \notin {Keep, r.row.active}
Writes(r)    == NewRole(r) \/ NewActive(r)
Adds(r)      == IF r.events = Keep THEN {} ELSE r.events \ r.had

\* FOR UPDATE on the row that an open deletion has read; it also stops a new
\* row that refers to it.
Free(c, u) == \A d \in Reqs \ {c} : req[d].step = "delete" => req[d].who # u

\* Of an open update: the row it has written, the rows its inserts refer to.
Unwritten(c, u) ==
  \A d \in Reqs \ {c} : req[d].step = "reconcile" /\ Writes(req[d]) => req[d].who # u
Unreferred(c, u) ==
  \A d \in Reqs \ {c} : req[d].step = "reconcile" /\ Adds(req[d]) # {}
                          => u \notin {req[d].who, req[d].by}

EventsIn(s, u) == {e \in Events : <<u, e>> \in s}

\* Administrators whose assignments or role, as some other request knows them,
\* are no longer what they are once c has committed a, r and s.
Overtaken(c, a, r, s) ==
  LET renamed(rl) == rl \in Roles /\ r[rl].name # role[rl].name
  IN {u \in Users :
        \/ renamed(admin[u].role)
        \/ \E d \in Reqs \ {c} :
             /\ req[d].who = u
             /\ \/ renamed(req[d].roleTo) \/ a[u] # admin[u]
                \/ EventsIn(s, u) # EventsIn(scope, u)}

\* c commits the rows a, r and s; the cached entries of us are then dropped.
Commit(c, a, r, s, us) ==
  /\ admin' = a /\ role' = r /\ scope' = s
  /\ req' = [d \in Reqs |->
               CASE d = c -> [Idle EXCEPT !.step = "drop", !.by = req[c].by, !.at = req[c].at,
                                          !.drops = us]
                 [] d # c /\ (req[d].own # NoRow \/ req[d].step \in {"delete", "role"})
                      -> [req[d] EXCEPT !.alone = FALSE]
                 [] OTHER -> req[d]]
  /\ lost' = [u \in Users |-> [p \in Powers |->
                IF Allows(View(u), p) /\ ~ Allows(ViewIn(a, r, u), p) THEN now ELSE lost[u][p]]]
  /\ mixed' = mixed \cup Overtaken(c, a, r, s)
  /\ UNCHANGED <<Cached, revoked, now, asks>>

\* The columns swapped.
MutantScopeOf(u, es) == (scope \ ({u} \X Events)) \cup (es \X {u})

\* The assignments, once u has exactly the events es.
ScopeOf(u, es) == (scope \ ({u} \X Events)) \cup ({u} \X es)

\* An insert refers to the administrator who makes it.
CanSign(c) == admin[req[c].by].role # NoRole /\ Free(c, req[c].by)

\* grant_admin_access: the role is read; only coordinators are given events.
ReadForGrant(c, u, rl, es) ==
  /\ Authorised(c, "grant", "super")
  /\ NameOf(rl) # Unnamed
  /\ es # {} => NameSeen(c, rl) = Coord
  /\ req' = [req EXCEPT ![c] = [@ EXCEPT !.step = "grant", !.who = u, !.roleTo = rl, !.events = es,
                                         !.own = NoRow, !.alone = TRUE]]
  /\ UNCHANGED <<Rows, Cached, revoked, now, asks, Notes>>

\* ... the row is inserted with its events, and read again after the commit:
\* when that fails, nothing is dropped.
Grant(c) ==
  LET r == req[c]
  IN /\ r.step = "grant" /\ admin[r.who].role = NoRole
     /\ r.events # {} => CanSign(c)
     /\ \E us \in {{}, {r.who}} :
          Commit(c, [admin EXCEPT ![r.who] = [role |-> r.roleTo, active |-> TRUE]], role,
                 ScopeOf(r.who, r.events), us)

\* update_admin_user up to its first write.
ReadForUpdate(c, u, body) ==
  LET row == RowSeen(c, u)
      to  == IF body.roleTo = Keep THEN row.role ELSE body.roleTo
  IN /\ Authorised(c, "update", "super")
     /\ admin[u].role # NoRole
     /\ NameOf(to) # Unnamed
     /\ req' = [req EXCEPT ![c] = [@ EXCEPT !.step = "update", !.who = u, !.row = row,
                                            !.roleTo = body.roleTo, !.activeTo = body.activeTo,
                                            !.events = body.events, !.was = NameSeen(c, row.role),
                                            !.is = NameSeen(c, to), !.own = NoRow,
                                            !.alone = TRUE]]
     /\ mixed' = IF row = admin[u] /\ NameSeen(c, row.role) = NameOf(row.role)
                      /\ NameSeen(c, to) = NameOf(to)
                 THEN mixed ELSE mixed \cup {u}
     /\ UNCHANGED <<Rows, Cached, revoked, now, asks, lost>>

Written(r) == [role   |-> IF NewRole(r) THEN r.roleTo ELSE admin[r.who].role,
               active |-> IF NewActive(r) THEN r.activeTo ELSE admin[r.who].active]

\* The assignments stay.
MutantEventsAfter(r) == IF r.is = Coord /\ r.events # Keep THEN r.events ELSE Keep

\* left_coordinator; reconcile_coordinator_assignments; or nothing to do.
EventsAfter(r) ==
  CASE r.was = Coord /\ r.is # Coord -> {}
    [] r.is = Coord /\ r.events # Keep -> r.events
    [] OTHER -> Keep

\* Events for who is no coordinator, or not active.
Refused(r) == IF r.is = Coord THEN r.events # Keep /\ ~ Written(r).active
                              ELSE r.events \notin {Keep, {}}

\* ... the row is written and waits for its commit, the object is given its new
\* role, whose permissions are not loaded; the answer is 400, or the
\* assignments are read and reconciled.
Switch(c) ==
  LET r == req[c]
      next == [r EXCEPT !.step = "reconcile", !.events = EventsAfter(r), !.had = EventsIn(scope, r.who)]
  IN /\ r.step = "update" /\ admin[r.who].role # NoRole
     /\ Writes(r) => Free(c, r.who) /\ Unwritten(c, r.who)
     /\ Shows(c, IF r.who = r.by /\ NewRole(r) THEN [name |-> r.is, edit |-> FALSE]
                                              ELSE cache[r.by].view)
     /\ IF Refused(r)
        THEN Finish(c)
        ELSE /\ Adds(next) # {} => Free(c, r.who) /\ CanSign(c)
             /\ req' = [req EXCEPT ![c] = next]
     /\ UNCHANGED <<Rows, revoked, now, asks, raced, Notes>>

ScopeAfter(r) ==
  IF r.events = Keep THEN scope
  ELSE (scope \ ({r.who} \X (r.had \ r.events))) \cup ({r.who} \X Adds(r))

\* ... and the commit.
Update(c) ==
  LET r == req[c]
  IN /\ r.step = "reconcile" /\ admin[r.who].role # NoRole
     /\ Adds(r) \cap EventsIn(scope, r.who) = {}
     /\ Commit(c, [admin EXCEPT ![r.who] = Written(r)], role, ScopeAfter(r), {r.who})

\* Inactive ones count as well.
MutantOtherSupers(u) == {w \in Users \ {u} : admin[w].role # NoRole /\ NameOf(admin[w].role) = Super}

OtherSupers(u) == SupersIn(admin, role) \ {u}

\* admin_delete_admin_user: the row is locked, the others are only counted.
ReadForDelete(c, u) ==
  /\ Authorised(c, "delete", "super")
  /\ u # req[c].by /\ admin[u].role # NoRole
  /\ Free(c, u) /\ Unwritten(c, u) /\ Unreferred(c, u)
  /\ admin[u].active /\ NameSeen(c, admin[u].role) = Super => OtherSupers(u) # {}
  /\ req' = [req EXCEPT ![c] = [@ EXCEPT !.step = "delete", !.who = u, !.row = admin[u],
                                         !.own = NoRow, !.alone = TRUE]]
  /\ UNCHANGED <<Rows, Cached, revoked, now, asks, Notes>>

\* ... and its commit; the assignments go with the row.
Delete(c) ==
  LET u == req[c].who
  IN /\ req[c].step = "delete"
     /\ Commit(c, [admin EXCEPT ![u] = NoRow], role, ScopeOf(u, {}), {u})

\* create_role and update_role: the name is set on the object that was read.
ReadForRole(c, body) ==
  LET mine == body.id = req[c].own.role
      old  == cache[req[c].by].view
  IN /\ Authorised(c, "role", "super")
     /\ Shows(c, IF mine THEN [old EXCEPT !.name = body.name] ELSE old)
     /\ req' = [req EXCEPT ![c] = [@ EXCEPT !.step = "role", !.was = NameSeen(c, body.id),
                                            !.body = body, !.own = NoRow,
                                            !.alone = IF mine THEN req[c].alone ELSE TRUE]]
     /\ UNCHANGED <<Rows, revoked, now, asks, raced, Notes>>

\* ... and the commit.  The name is written when it differs from the one read.
\* Permissions that were read are replaced: those another request has put in
\* their place since stay.  A created role is read again before the drop.
EditRole(c) ==
  LET r == req[c]  old == role[r.body.id]
      name == IF r.body.name # r.was THEN r.body.name ELSE old.name
      kept == IF r.alone \/ r.was = Unnamed THEN {FALSE} ELSE {FALSE, old.edit}
  IN /\ r.step = "role"
     /\ r.was = Unnamed => old.name = Unnamed
     /\ \A other \in Roles \ {r.body.id} : role[other].name # name
     /\ \E k \in kept, us \in {Users} \cup (IF r.was = Unnamed THEN {{}} ELSE {}) :
          Commit(c, admin, [role EXCEPT ![r.body.id] = [name |-> name, edit |-> r.body.edit \/ k]],
                 scope, us)

\* create_event_assignment: the checks,
ReadForAssign(c, u, e) ==
  /\ Authorised(c, "assign", "super")
  /\ admin[u].active /\ NameSeen(c, RowSeen(c, u).role) = Coord /\ <<u, e>> \notin scope
  /\ req' = [req EXCEPT ![c] = [@ EXCEPT !.step = "assign", !.who = u, !.row = admin[u],
                                         !.events = {e}, !.own = NoRow, !.alone = TRUE]]
  /\ UNCHANGED <<Rows, Cached, revoked, now, asks, Notes>>

\* ... and the insert.  Nothing is cached of assignments.
Assign(c) ==
  LET r == req[c]  new == {r.who} \X r.events
  IN /\ r.step = "assign" /\ admin[r.who].role # NoRole /\ Free(c, r.who) /\ CanSign(c)
     /\ new \cap scope = {}
     /\ Commit(c, admin, role, scope \cup new, {})

Unassign(c, u, e) ==
  /\ Authorised(c, "assign", "super") /\ <<u, e>> \in scope
  /\ Commit(c, admin, role, scope \ {<<u, e>>}, {})

\* The entries are left.
MutantDrop(c) ==
  /\ req[c].step = "drop" /\ Finish(c) /\ raced' = raced \ req[c].drops
  /\ UNCHANGED <<Rows, cache, touched, revoked, now, asks, Notes>>

\* invalidate_admin_cache.
Drop(c) ==
  LET us == req[c].drops
  IN /\ req[c].step = "drop"
     /\ cache' = [u \in Users |-> IF u \in us THEN Empty ELSE cache[u]]
     /\ raced' = raced \ us /\ touched' = touched \ us
     /\ req' = [d \in Reqs |-> CASE d = c -> Idle
                                 [] d # c /\ req[d].by \in us -> [req[d] EXCEPT !.live = FALSE]
                                 [] OTHER -> req[d]]
     /\ UNCHANGED <<Rows, revoked, now, asks, Notes>>

\* An edit of an event, which changes nothing here.
EditEvent(c) ==
  /\ Authorised(c, "edit", "edit") /\ Finish(c)
  /\ UNCHANGED <<Rows, Cached, revoked, now, asks, Notes>>

\* A refusal, which leaves the object as it is, or a failed transaction, whose
\* rollback empties it; after the commit there is nothing to fail.
Abort(c) ==
  /\ req[c].step \in {"act"} \cup Steps /\ Finish(c)
  /\ \E view \in {cache[req[c].by].view, Nothing} : Shows(c, view)
  /\ UNCHANGED <<Rows, revoked, now, asks, raced, Notes>>

-----------------------------------------------------------------------------

Tick == /\ now < TTL + MaxNow /\ now' = now + 1
        /\ UNCHANGED <<Rows, Cached, revoked, req, asks, Notes>>

\* A restart empties what the process keeps, revoked tokens included.
Restart == /\ "restart" \in Ops /\ asks < MaxAsks /\ asks' = asks + 1
           /\ cache' = [u \in Users |-> Empty] /\ revoked' = {}
           /\ req' = [c \in Reqs |-> Idle] /\ raced' = {} /\ touched' = {}
           /\ UNCHANGED <<Rows, now, Notes>>

Authenticate(c) == (\E u \in Users : Arrive(c, u)) \/ ReadRow(c) \/ Store(c)

Operate(c) ==
  \/ \E u \in Users, rl \in Roles, es \in SUBSET Events : ReadForGrant(c, u, rl, es)
  \/ \E u \in Users, body \in Patches : ReadForUpdate(c, u, body)
  \/ \E u \in Users : ReadForDelete(c, u)
  \/ \E u \in Users, e \in Events : ReadForAssign(c, u, e) \/ Unassign(c, u, e)
  \/ \E body \in RoleBodies : ReadForRole(c, body)
  \/ Grant(c) \/ Switch(c) \/ Update(c) \/ Delete(c) \/ EditRole(c) \/ Assign(c)
  \/ Drop(c) \/ EditEvent(c) \/ Abort(c)

Next == \/ \E c \in Reqs : Authenticate(c) \/ Operate(c)
        \/ \E u \in Users : Logout(u) \/ Login(u)
        \/ Tick \/ Restart

Spec == Init /\ [][Next]_vars

-----------------------------------------------------------------------------
(* Properties. *)

\* Every variable keeps its type: the rows of admin_users, roles and
\* assignments, and the cached views of them.
TypeOK ==
  /\ admin \in [Users -> AdminRow]
  /\ role \in [Roles -> RoleRow]
  /\ scope \subseteq Users \X Events
  /\ cache \in [Users -> [view : RoleRow, until : Nat]]
  /\ req \in [Reqs -> Request]
  /\ lost \in [Users -> [Powers -> Nat]]
  /\ revoked \cup raced \cup touched \cup mixed \subseteq Users
  /\ now \in TTL .. TTL + MaxNow /\ asks \in 0 .. MaxAsks

\* Whoever acts with a power has it, or had it at most the cache's lifetime
\* before the request arrived: however reads, changes and drops interleave, a
\* removed administrator is locked out after that (deps_admin.py:33, 48).
AuthorityIsRecent ==
  \A c \in Reqs, p \in Powers :
    req[c].step = "act" /\ Allows(req[c].view, p)
      => Allows(View(req[c].by), p) \/ req[c].at < lost[req[c].by][p] + TTL

\* A cached row that differs from the administrator's was stored by a request
\* that had read it before the change, or the request that changed it has yet
\* to drop it, or the administrator's own request, whose object it is, has
\* changed it ahead of a commit that may never come (admin.py:270, 308;
\* deps_admin.py:21, 48).
ChangesReachCache ==
  \A u \in Users : cache[u] # Empty /\ cache[u].view # View(u)
    => \/ u \in raced \cup touched
       \/ \E c \in Reqs : req[c].step = "drop" /\ u \in req[c].drops

\* Only coordinators are assigned to events, unless the administrator or the
\* assignments were changed by one request while another had read the row, or
\* the role was renamed, also after a request had read its name to give it
\* (admin.py:196, 244, 274; event_assignment_service.py:189).
ScopeFitsRole ==
  \A a \in scope : NameOf(admin[a[1]].role) = Coord \/ a[1] \in mixed

\* A deletion during which nothing else is committed does not take the last
\* active SUPER ADMIN away, even when the one who deletes has been deactivated
\* and acts on a cached row (admin_delete_service.py:293).
SuperSurvivesDeletion ==
  [][\A c \in Reqs : req[c].step = "delete" /\ req'[c].step = "drop" /\ req[c].alone
       => SupersIn(admin, role) = {} \/ SupersIn(admin', role') # {}]_vars
-----------------------------------------------------------------------------
(* Inductive invariants: the types with what they leave open, then what    *)
(* each of the properties rests on.                                        *)

\* An active administrator has a role; the role of an administrator exists.
ActiveHasRole == \A u \in Users : /\ admin[u].active => admin[u].role # NoRole
                                  /\ admin[u].role # NoRole => NameOf(admin[u].role) # Unnamed

\* A request knows who makes it and, between its read and its commit, whose
\* row it has read; an assignment names its events, a grant its role too; the
\* roles read exist.
RequestKnows(r) ==
  /\ r.step # "idle" => r.by \in Users
  /\ r.step \in Steps \ {"role"} => r.who \in Users
  /\ r.step \in {"assign", "grant"} => r.events \in SUBSET Events
  /\ r.step = "grant" => r.roleTo \in Roles
  /\ \A rl \in Roles \cap {r.roleTo, r.own.role} : NameOf(rl) # Unnamed
  /\ r.step = "role" => /\ r.body \in RoleBodies
                        /\ r.was # Unnamed => NameOf(r.body.id) # Unnamed

RowsInv == TypeOK /\ ActiveHasRole /\ \A c \in Reqs : RequestKnows(req[c])

\* No request is younger than the clock, no entry outlives its lifetime.
DatesOK == /\ \A c \in Reqs : req[c].at <= now
           /\ \A u \in Users : cache[u].until <= now + TTL

\* A power that a cached row or a row about to be stored claims wrongly was
\* lost after the request that read it had arrived.
CacheIsRecent ==
  \A u \in Users, p \in Powers :
    Allows(cache[u].view, p) => Allows(View(u), p) \/ cache[u].until <= lost[u][p] + TTL

ReadIsRecent ==
  \A c \in Reqs, p \in Powers :
    req[c].step = "store" /\ Allows(req[c].view, p)
      => Allows(View(req[c].by), p) \/ req[c].at <= lost[req[c].by][p]

\* Whoever changes a cached row has every power the row then shows: the row was
\* a SUPER ADMIN's, and it is one request's at most.
ObjectIsSupers ==
  /\ \A c \in Reqs : req[c].step \in Steps => req[c].view.name = Super
  /\ \A c \in Reqs : req[c].live => /\ req[c].by \in Users
                                    /\ req[c].step \in {"act", "update"}
                                         => cache[req[c].by].view = req[c].view
  /\ \A c, d \in Reqs : req[c].live /\ req[d].live /\ req[c].by = req[d].by => c = d

AuthorityInv == RowsInv /\ DatesOK /\ CacheIsRecent /\ ReadIsRecent /\ ObjectIsSupers
                  /\ AuthorityIsRecent

\* Nobody's row is stored who is no administrator.
EntryIsSomeone ==
  /\ \A u \in Users : cache[u] # Empty => cache[u].view # Nothing \/ u \in touched
  /\ \A c \in Reqs : req[c].step = "store" => req[c].view # Nothing

CacheInv == RowsInv /\ EntryIsSomeone /\ ChangesReachCache

\* What a request has read of an administrator, of the roles and of the
\* assignments is so, unless somebody came in between.
ReadsHold(r) ==
  r.step \in {"grant", "update", "reconcile", "assign"} /\ r.who \notin mixed =>
    /\ r.step # "grant" => admin[r.who] = r.row
    /\ r.step = "assign" => NameOf(r.row.role) = Coord
    /\ r.step \in {"update", "reconcile"} => r.was = NameOf(r.row.role)
    /\ r.step \in {"update", "reconcile"}
         => r.is = NameOf(IF r.roleTo = Keep THEN r.row.role ELSE r.roleTo)
    /\ r.step = "grant" /\ r.events # {} => NameOf(r.roleTo) = Coord
    /\ r.step = "reconcile" =>
         /\ r.had = EventsIn(scope, r.who)
         /\ r.events \notin {Keep, {}} => r.is = Coord
         /\ r.was = Coord /\ r.is # Coord => r.events = {}

ScopeInv == RowsInv /\ ScopeFitsRole /\ \A c \in Reqs : ReadsHold(req[c])

\* The other SUPER ADMIN a deletion has counted is still there.
CountHolds(c) ==
  req[c].step = "delete" /\ req[c].alone /\ View(req[c].who).name = Super
    => OtherSupers(req[c].who) # {}

DeletionInv == RowsInv /\ \A c \in Reqs : CountHolds(c)
=============================================================================
