----------------------- MODULE Administration_proofs -----------------------
(***************************************************************************)
(* Proofs about Administration for every set of users, roles, events,      *)
(* requests and bodies, and every lifetime of the cache.                   *)
(***************************************************************************)
EXTENDS Administration, TLAPS

LEMMA ViewType ==
  ASSUME NEW a \in [Users -> AdminRow], NEW r \in [Roles -> RoleRow],
         \A u \in Users : a[u].active => a[u].role # NoRole,
         NEW u \in Users
  PROVE  ViewIn(a, r, u) \in RoleRow
BY DEF ViewIn, Nothing, RoleRow, AdminRow

LEMMA IdleType == Idle \in Request
BY AdminAssumption DEF Idle, Request, Nothing, NoRow, RoleRow, AdminRow, Steps

\* The fields of a request.
LEMMA RequestFields ==
  ASSUME NEW q \in Request
  PROVE  /\ q.step \in {"idle", "read", "store", "act", "drop"} \cup Steps
         /\ q.by \in Users \cup {NoUser} /\ q.at \in Nat /\ q.view \in RoleRow
         /\ q.own \in AdminRow /\ q.live \in BOOLEAN
         /\ q.who \in Users \cup {NoUser} /\ q.row \in AdminRow
         /\ q.roleTo \in Roles \cup {Keep} /\ q.activeTo \in BOOLEAN \cup {Keep}
         /\ q.events \in (SUBSET Events) \cup {Keep}
         /\ q.was \in Names \cup {Unnamed} /\ q.is \in Names \cup {Unnamed}
         /\ q.had \in SUBSET Events /\ q.body \in RoleBodies \cup {Keep}
         /\ q.drops \in SUBSET Users /\ q.alone \in BOOLEAN
BY DEF Request

-----------------------------------------------------------------------------
(* Steps of two kinds: those that commit rows, and the rest.               *)

\* Grants, updates, deletions, roles and assignments.
Mutation(c) ==
  \/ \E u \in Users, e \in Events : Unassign(c, u, e)
  \/ Grant(c) \/ EditRole(c) \/ Update(c) \/ Delete(c) \/ Assign(c)

\* The reads that precede some of them.
Reading(c) ==
  \/ \E u \in Users, rl \in Roles, es \in SUBSET Events : ReadForGrant(c, u, rl, es)
  \/ \E u \in Users, body \in Patches : ReadForUpdate(c, u, body)
  \/ \E u \in Users : ReadForDelete(c, u)
  \/ \E u \in Users, e \in Events : ReadForAssign(c, u, e)

\* The steps that change the object of the session.
Showing(c) == (\E body \in RoleBodies : ReadForRole(c, body)) \/ Switch(c) \/ Abort(c)

LEMMA NextCases ==
  ASSUME [Next]_vars
  PROVE  \/ \E c \in Reqs : Mutation(c) \/ Reading(c) \/ Showing(c)
         \/ \E c \in Reqs : Drop(c) \/ EditEvent(c)
         \/ \E c \in Reqs, u \in Users : Arrive(c, u)
         \/ \E c \in Reqs : ReadRow(c) \/ Store(c)
         \/ \E u \in Users : Logout(u) \/ Login(u)
         \/ Tick \/ Restart \/ UNCHANGED vars
BY DEF Next, Authenticate, Operate, Mutation, Reading, Showing

\* A mutation commits well-typed rows, and drops the cached entry of everybody
\* whose view it changes and who was an administrator before.
Commits(c, a, r, s, us) ==
  /\ a \in [Users -> AdminRow] /\ \A u \in Users : a[u].active => a[u].role # NoRole
  /\ \A u \in Users : a[u].role # NoRole => r[a[u].role].name # Unnamed
  /\ r \in [Roles -> RoleRow] /\ s \subseteq Users \X Events /\ us \subseteq Users
  /\ \A rl \in Roles : role[rl].name # Unnamed => r[rl].name # Unnamed
  /\ req[c].step \in {"act"} \cup Steps
  /\ \A u \in Users \ us : ViewIn(a, r, u) = View(u) \/ View(u) = Nothing
  /\ Commit(c, a, r, s, us)

LEMMA WrittenType ==
  ASSUME RowsInv, NEW c \in Reqs, req[c].step \in {"update", "reconcile"},
         admin[req[c].who].role # NoRole
  PROVE  /\ Written(req[c]) \in AdminRow /\ Written(req[c]).role # NoRole
         /\ role[Written(req[c]).role].name # Unnamed
<1> DEFINE r == req[c]
<1>1. r.who \in Users /\ admin[r.who] \in AdminRow /\ r \in Request /\ RequestKnows(r)
  BY DEF RowsInv, RequestKnows, TypeOK, Steps
<1>2. r.roleTo \in Roles \cup {Keep} /\ r.activeTo \in BOOLEAN \cup {Keep}
  BY <1>1, RequestFields
<1>3. Written(r).role \in Roles \cup {NoRole} /\ Written(r).active \in BOOLEAN
  BY <1>1, <1>2 DEF Written, AdminRow, NewRole, NewActive
<1>4. Written(r).role # NoRole
  BY <1>2, AdminAssumption DEF Written, NewRole
<1>5. role[Written(r).role].name # Unnamed
  <2>1. CASE NewRole(r)
    <3>1. r.roleTo \in Roles /\ Written(r).role = r.roleTo
      BY <1>2, <2>1 DEF NewRole, Written
    <3>2. NameOf(r.roleTo) # Unnamed
      BY <1>1, <3>1 DEF RequestKnows
    <3> QED BY <3>1, <3>2, AdminAssumption DEF NameOf
  <2>2. CASE ~ NewRole(r)
    BY <1>1, <2>2 DEF Written, RowsInv, ActiveHasRole, NameOf
  <2> QED BY <2>1, <2>2
<1> QED BY <1>3, <1>4, <1>5 DEF Written, AdminRow

LEMMA MutationCommits ==
  ASSUME RowsInv, NEW c \in Reqs, Mutation(c)
  PROVE  \E a, r, s, us : Commits(c, a, r, s, us)
<1> USE DEF Commits
<1>0. /\ admin \in [Users -> AdminRow] /\ role \in [Roles -> RoleRow]
      /\ scope \subseteq Users \X Events /\ req[c] \in Request /\ RequestKnows(req[c])
      /\ \A u \in Users : admin[u].active => admin[u].role # NoRole
      /\ \A u \in Users : admin[u].role # NoRole => role[admin[u].role].name # Unnamed
  BY DEF RowsInv, TypeOK, ActiveHasRole, NameOf
<1>1. \A u \in Users, es \in SUBSET Events : ScopeOf(u, es) \subseteq Users \X Events
  BY <1>0 DEF ScopeOf
<1>2. \A u \in Users, row \in AdminRow :
        /\ [admin EXCEPT ![u] = row] \in [Users -> AdminRow]
        /\ \A v \in Users \ {u} : ViewIn([admin EXCEPT ![u] = row], role, v) = View(v)
        /\ \A v \in Users : [admin EXCEPT ![u] = row][v] = IF v = u THEN row ELSE admin[v]
  BY <1>0 DEF ViewIn, View
<1>9. ASSUME NEW u \in Users, NEW row \in AdminRow, row.active => row.role # NoRole,
             row.role # NoRole => role[row.role].name # Unnamed,
             NEW s \in SUBSET (Users \X Events), NEW us \in SUBSET Users,
             us = {u} \/ View(u) = Nothing, req[c].step \in {"act"} \cup Steps,
             Commit(c, [admin EXCEPT ![u] = row], role, s, us)
      PROVE  \E a, r, s1, us1 : Commits(c, a, r, s1, us1)
  <2> DEFINE a == [admin EXCEPT ![u] = row]
  <2>1. /\ a \in [Users -> AdminRow] /\ \A v \in Users : a[v] = IF v = u THEN row ELSE admin[v]
        /\ \A v \in Users \ {u} : ViewIn(a, role, v) = View(v)
    BY <1>2
  <2>2. Commit(c, a, role, s, us)
    BY <1>9
  <2> HIDE DEF a
  <2>3. Commits(c, a, role, s, us)
    BY <1>0, <1>9, <2>1, <2>2
  <2> QED BY <2>3
<1>3. ASSUME Grant(c)
      PROVE  \E a, r, s, us : Commits(c, a, r, s, us)
  <2> DEFINE u == req[c].who
             row == [role |-> req[c].roleTo, active |-> TRUE]
  <2>1. /\ u \in Users /\ req[c].events \in SUBSET Events /\ req[c].roleTo \in Roles
        /\ NameOf(req[c].roleTo) # Unnamed /\ req[c].step = "grant"
    BY <1>0, <1>3 DEF Grant, RequestKnows, Steps
  <2>2. row \in AdminRow /\ row.role # NoRole /\ role[row.role].name # Unnamed
    BY <2>1, AdminAssumption DEF AdminRow, NameOf
  <2>3. View(u) = Nothing
    BY <1>0, <1>3, <2>1 DEF Grant, View, ViewIn
  <2>4. PICK us \in {{}, {u}} : Commit(c, [admin EXCEPT ![u] = row], role, ScopeOf(u, req[c].events), us)
    BY <1>3 DEF Grant
  <2>5. ScopeOf(u, req[c].events) \subseteq Users \X Events
    BY <1>1, <2>1
  <2>6. req[c].step \in {"act"} \cup Steps
    BY <2>1 DEF Steps
  <2> HIDE DEF row, u
  <2> QED BY <1>9, <2>1, <2>2, <2>3, <2>4, <2>5, <2>6
<1>4. ASSUME NEW u \in Users, NEW e \in Events, Unassign(c, u, e)
      PROVE  \E a, r, s, us : Commits(c, a, r, s, us)
  <2>1. Commits(c, admin, role, scope \ {<<u, e>>}, {})
    BY <1>0, <1>4 DEF Unassign, Authorised, View
  <2> QED BY <2>1
<1>5. ASSUME EditRole(c)
      PROVE  \E a, r, s, us : Commits(c, a, r, s, us)
  <2> DEFINE q == req[c]
             old == role[q.body.id]
             name == IF q.body.name # q.was THEN q.body.name ELSE old.name
  <2>1. /\ q.step = "role" /\ q.body.id \in Roles /\ q.body.name \in Names /\ q.body.edit \in BOOLEAN
        /\ q.was # Unnamed => old.name # Unnamed
        /\ q.step \in {"act"} \cup Steps
    BY <1>0, <1>5, AdminAssumption DEF EditRole, RequestKnows, NameOf, Names, Steps
  <2>2. PICK k \in BOOLEAN, us \in {{}, Users} :
          /\ Commit(c, admin, [role EXCEPT ![q.body.id] = [name |-> name, edit |-> q.body.edit \/ k]],
                    scope, us)
          /\ us # Users => q.was = Unnamed
    BY <1>0, <1>5, <2>1 DEF EditRole, RoleRow
  <2>3. q.was = Unnamed => old.name = Unnamed
    BY <1>5 DEF EditRole
  <2>4. name \in Names \cup {Unnamed} /\ name # Unnamed
    BY <1>0, <2>1, AdminAssumption DEF Names, RoleRow
  <2> DEFINE new == [name |-> name, edit |-> q.body.edit \/ k]
             r == [role EXCEPT ![q.body.id] = new]
  <2>5. new \in RoleRow /\ new.name # Unnamed
    BY <2>1, <2>4 DEF RoleRow
  <2> HIDE DEF new, name
  <2>6. /\ r \in [Roles -> RoleRow] /\ \A rl \in Roles : r[rl] = IF rl = q.body.id THEN new ELSE role[rl]
    BY <1>0, <2>1, <2>5
  <2>7. ASSUME NEW u \in Users, us # Users
        PROVE  ViewIn(admin, r, u) = View(u)
    <3>1. old.name = Unnamed /\ (admin[u].active => admin[u].role \in Roles \ {q.body.id})
      BY <1>0, <2>2, <2>3, <2>7 DEF AdminRow
    <3> QED BY <2>6, <3>1 DEF ViewIn, View
  <2>8. \A u \in Users : admin[u].role # NoRole => r[admin[u].role].name # Unnamed
    BY <1>0, <2>5, <2>6 DEF AdminRow
  <2>9. Commit(c, admin, r, scope, us)
    BY <2>2 DEF new, name
  <2> HIDE DEF r, q
  <2>10. Commits(c, admin, r, scope, us)
    BY <1>0, <2>1, <2>2, <2>5, <2>6, <2>7, <2>8, <2>9 DEF q
  <2> QED BY <2>10
<1>6. ASSUME Update(c)
      PROVE  \E a, r, s, us : Commits(c, a, r, s, us)
  <2>1. /\ req[c].step = "reconcile" /\ admin[req[c].who].role # NoRole /\ req[c].who \in Users
        /\ req[c].step \in {"act"} \cup Steps
    BY <1>0, <1>6 DEF Update, RequestKnows, Steps
  <2>2. /\ Written(req[c]) \in AdminRow /\ Written(req[c]).role # NoRole
        /\ role[Written(req[c]).role].name # Unnamed
    BY <2>1, WrittenType
  <2>3. req[c].events \in (SUBSET Events) \cup {Keep}
    BY <1>0, RequestFields
  <2>4. ScopeAfter(req[c]) \subseteq Users \X Events
    BY <1>0, <2>1, <2>3 DEF ScopeAfter, Adds
  <2>5. Commit(c, [admin EXCEPT ![req[c].who] = Written(req[c])], role, ScopeAfter(req[c]),
               {req[c].who})
    BY <1>6 DEF Update
  <2> DEFINE u == req[c].who
             row == Written(req[c])
             s0 == ScopeAfter(req[c])
  <2>6. /\ u \in Users /\ row \in AdminRow /\ s0 \in SUBSET (Users \X Events)
        /\ {u} \in SUBSET Users /\ Commit(c, [admin EXCEPT ![u] = row], role, s0, {u})
        /\ row.role # NoRole /\ role[row.role].name # Unnamed
    BY <2>1, <2>2, <2>4, <2>5
  <2> HIDE DEF u, row, s0
  <2> QED BY <1>9, <2>1, <2>6
<1>7. ASSUME Delete(c)
      PROVE  \E a, r, s, us : Commits(c, a, r, s, us)
  <2>1. req[c].step = "delete" /\ req[c].who \in Users /\ req[c].step \in {"act"} \cup Steps
    BY <1>0, <1>7 DEF Delete, RequestKnows, Steps
  <2>2. NoRow \in AdminRow /\ ~ NoRow.active /\ NoRow.role = NoRole
    BY DEF NoRow, AdminRow
  <2>3. Commit(c, [admin EXCEPT ![req[c].who] = NoRow], role, ScopeOf(req[c].who, {}), {req[c].who})
    BY <1>7 DEF Delete
  <2>4. ScopeOf(req[c].who, {}) \subseteq Users \X Events
    BY <1>1, <2>1
  <2> DEFINE u == req[c].who
             row == NoRow
             s0 == ScopeOf(u, {})
  <2>5. /\ u \in Users /\ row \in AdminRow /\ s0 \in SUBSET (Users \X Events)
        /\ {u} \in SUBSET Users /\ Commit(c, [admin EXCEPT ![u] = row], role, s0, {u})
        /\ ~ row.active /\ row.role = NoRole
    BY <2>1, <2>2, <2>3, <2>4
  <2> HIDE DEF u, row, s0
  <2> QED BY <1>9, <2>1, <2>5
<1>8. ASSUME Assign(c)
      PROVE  \E a, r, s, us : Commits(c, a, r, s, us)
  <2>1. /\ req[c].step = "assign" /\ req[c].who \in Users /\ req[c].events \in SUBSET Events
        /\ req[c].step \in {"act"} \cup Steps
    BY <1>0, <1>8 DEF Assign, RequestKnows, Steps
  <2>2. Commits(c, admin, role, scope \cup ({req[c].who} \X req[c].events), {})
    BY <1>0, <1>8, <2>1 DEF Assign, View
  <2> QED BY <2>2
<1> QED BY <1>3, <1>4, <1>5, <1>6, <1>7, <1>8 DEF Mutation

\* What a session becomes with its commit is again a session.
LEMMA DropType ==
  ASSUME NEW p \in Request, NEW b \in Users \cup {NoUser}, NEW t \in Nat, NEW us \in SUBSET Users
  PROVE  [p EXCEPT !.step = "drop", !.by = b, !.at = t, !.drops = us] \in Request
<1> DEFINE q == [p EXCEPT !.step = "drop", !.by = b, !.at = t, !.drops = us]
<1>1. "drop" \in {"idle", "read", "store", "act", "drop"} \cup Steps
  OBVIOUS
<1> HIDE DEF Steps
<1> QED BY <1>1, ZenonT(120) DEF Request

\* What a commit leaves of the requests.
LEMMA CommitFields ==
  ASSUME RowsInv, NEW c \in Reqs, NEW a, NEW r, NEW s, NEW us, Commits(c, a, r, s, us)
  PROVE  /\ req' \in [Reqs -> Request]
         /\ req'[c].step = "drop" /\ req'[c].drops = us /\ req'[c].by = req[c].by
         /\ req'[c].at = req[c].at /\ ~ req'[c].live
         /\ Roles \cap {req'[c].roleTo, req'[c].own.role} = {}
         /\ req[c].step \in {"act"} \cup Steps
         /\ \A d \in Reqs \ {c} :
              /\ \/ req'[d] = req[d]
                 \/ req'[d] = [req[d] EXCEPT !.alone = FALSE]
              /\ req[d].step = "delete" => ~ req'[d].alone
<1>1. req \in [Reqs -> Request] /\ us \in SUBSET Users
  BY DEF RowsInv, TypeOK, Commits
<1> DEFINE q == [Idle EXCEPT !.step = "drop", !.by = req[c].by, !.at = req[c].at, !.drops = us]
<1>2. /\ q \in Request /\ q.step = "drop" /\ q.drops = us /\ q.by = req[c].by /\ q.at = req[c].at
      /\ ~ q.live /\ q.roleTo = Keep /\ q.own = NoRow
  <2>1. req[c] \in Request /\ req[c].by \in Users \cup {NoUser} /\ req[c].at \in Nat
    BY <1>1, RequestFields
  <2>2. q \in Request
    BY <1>1, <2>1, IdleType, DropType
  <2> QED BY <2>2 DEF Idle
<1>3. req'[c] = q
  BY DEF Commits, Commit
<1>4. ASSUME NEW d \in Reqs \ {c}
      PROVE  /\ \/ req'[d] = req[d]
                \/ req'[d] = [req[d] EXCEPT !.alone = FALSE]
             /\ req[d].step = "delete" => ~ req'[d].alone
             /\ req'[d] \in Request
  <2>1. req[d] \in Request
    BY <1>1
  <2>2. [req[d] EXCEPT !.alone = FALSE] \in Request /\ ~ [req[d] EXCEPT !.alone = FALSE].alone
    BY <2>1, ZenonT(150) DEF Request
  <2>3. req'[d] = IF req[d].own # NoRow \/ req[d].step \in {"delete", "role"}
                  THEN [req[d] EXCEPT !.alone = FALSE] ELSE req[d]
    BY DEF Commits, Commit
  <2> QED BY <2>1, <2>2, <2>3
<1>5. req' \in [Reqs -> Request]
  <2>1. req' = [d \in Reqs |-> req'[d]]
    BY DEF Commits, Commit
  <2>2. \A d \in Reqs : req'[d] \in Request
    BY <1>2, <1>3, <1>4
  <2> QED BY <2>1, <2>2
<1>6. Roles \cap {q.roleTo, q.own.role} = {}
  BY <1>2, AdminAssumption DEF NoRow
<1> HIDE DEF q
<1> QED BY <1>2, <1>3, <1>4, <1>5, <1>6 DEF Commits

\* What the invariants look at of the other requests.
LEMMA OthersCommit ==
  ASSUME RowsInv, NEW c \in Reqs, NEW a, NEW r, NEW s, NEW us, Commits(c, a, r, s, us),
         NEW d \in Reqs \ {c}
  PROVE  /\ req'[d].step = req[d].step /\ req'[d].by = req[d].by
         /\ req'[d].at = req[d].at /\ req'[d].view = req[d].view
         /\ req'[d].own = req[d].own /\ req'[d].live = req[d].live
         /\ req'[d].who = req[d].who /\ req'[d].row = req[d].row
         /\ req'[d].roleTo = req[d].roleTo /\ req'[d].events = req[d].events
         /\ req'[d].was = req[d].was /\ req'[d].is = req[d].is /\ req'[d].had = req[d].had
         /\ req'[d].body = req[d].body /\ req'[d].drops = req[d].drops
<1>1. req[d] \in Request
  BY DEF RowsInv, TypeOK
<1>2. CASE req'[d] = req[d]
  BY <1>2
<1>3. CASE req'[d] = [req[d] EXCEPT !.alone = FALSE]
  BY <1>1, <1>3 DEF Request
<1> QED BY <1>2, <1>3, CommitFields

-----------------------------------------------------------------------------
(* What the other steps do to the requests and to the cache.               *)

\* An operation that has read what it needs.
LEMMA ReadingFields ==
  ASSUME RowsInv, NEW c \in Reqs, Reading(c)
  PROVE  /\ UNCHANGED <<Rows, Cached, revoked, now, asks, lost>>
         /\ mixed \subseteq mixed' /\ mixed' \subseteq Users
         /\ req[c].step = "act" /\ req[c].view.name = Super
         /\ \E q \in Request :
              /\ req' = [req EXCEPT ![c] = q] /\ q.step \in Steps \ {"role"} /\ q.who \in Users
              /\ q.by = req[c].by /\ q.at = req[c].at /\ q.view = req[c].view
              /\ q.live = req[c].live
              /\ q.step \in {"grant", "assign"} => q.events \in SUBSET Events
              /\ q.step = "grant" => q.roleTo \in Roles
              /\ \A rl \in Roles \cap {q.roleTo, q.own.role} : NameOf(rl) # Unnamed
<1> USE DEF Notes
<1>0. /\ req[c] \in Request /\ RequestKnows(req[c]) /\ admin \in [Users -> AdminRow]
      /\ role \in [Roles -> RoleRow] /\ mixed \subseteq Users
      /\ \A u \in Users : RowSeen(c, u) \in AdminRow
      /\ \A rl \in Roles \cup {NoRole} : NameSeen(c, rl) \in Names \cup {Unnamed}
  <2>1. req[c] \in Request /\ RequestKnows(req[c]) /\ mixed \subseteq Users
        /\ admin \in [Users -> AdminRow] /\ role \in [Roles -> RoleRow]
    BY DEF RowsInv, TypeOK
  <2>2. req[c].own \in AdminRow /\ req[c].view.name \in Names \cup {Unnamed}
    BY <2>1, RequestFields DEF RoleRow
  <2>3. \A rl \in Roles \cup {NoRole} : NameOf(rl) \in Names \cup {Unnamed}
    BY <2>1 DEF NameOf, RoleRow
  <2> QED BY <2>1, <2>2, <2>3 DEF RowSeen, NameSeen
<1>1. \A p \in Powers : ~ Allows(req[c].view, "super") \/ req[c].view.name = Super
  BY DEF Allows
<1>2. "super" \in Powers /\ NoRow \in AdminRow /\ NoRow.role \notin Roles
  BY AdminAssumption DEF Powers, NoRow, AdminRow
<1> DEFINE Goal(q) ==
      /\ q \in Request /\ q.step \in Steps \ {"role"} /\ q.who \in Users
      /\ q.by = req[c].by /\ q.at = req[c].at /\ q.view = req[c].view
      /\ q.live = req[c].live
      /\ q.step \in {"grant", "assign"} => q.events \in SUBSET Events
      /\ q.step = "grant" => q.roleTo \in Roles
      /\ \A rl \in Roles \cap {q.roleTo, q.own.role} : NameOf(rl) # Unnamed
<1>3. ASSUME NEW u \in Users, NEW rl \in Roles, NEW es \in SUBSET Events, ReadForGrant(c, u, rl, es)
      PROVE  \E q : Goal(q) /\ req' = [req EXCEPT ![c] = q]
  <2> DEFINE q == [req[c] EXCEPT !.step = "grant", !.who = u, !.roleTo = rl, !.events = es,
                                 !.own = NoRow, !.alone = TRUE]
  <2>1. NameOf(rl) # Unnamed
    BY <1>3 DEF ReadForGrant
  <2>2. req' = [req EXCEPT ![c] = q]
    BY <1>3 DEF ReadForGrant
  <2>3. q \in Request
    BY <1>0, <1>2, <2>1, ZenonT(150) DEF Request, Steps
  <2>4. /\ q.step = "grant" /\ q.who = u /\ q.roleTo = rl /\ q.events = es /\ q.own = NoRow
        /\ q.by = req[c].by /\ q.at = req[c].at /\ q.view = req[c].view /\ q.live = req[c].live
    BY <1>0, ZenonT(150) DEF Request
  <2> HIDE DEF q
  <2>5. Goal(q)
    BY <1>2, <2>1, <2>3, <2>4 DEF Steps
  <2> HIDE DEF Goal
  <2> QED BY <2>2, <2>5
<1>4. ASSUME NEW u \in Users, NEW body \in Patches, ReadForUpdate(c, u, body)
      PROVE  \E q : Goal(q) /\ req' = [req EXCEPT ![c] = q]
  <2> DEFINE row == RowSeen(c, u)
             to  == IF body.roleTo = Keep THEN row.role ELSE body.roleTo
             was == NameSeen(c, row.role)
             is  == NameSeen(c, to)
             q == [req[c] EXCEPT !.step = "update", !.who = u, !.row = row, !.roleTo = body.roleTo,
                                 !.activeTo = body.activeTo, !.events = body.events,
                                 !.was = was, !.is = is, !.own = NoRow, !.alone = TRUE]
  <2>1. /\ body.roleTo \in Roles \cup {Keep} /\ body.activeTo \in BOOLEAN \cup {Keep}
        /\ body.events \in (SUBSET Events) \cup {Keep} /\ row \in AdminRow
    BY <1>0, AdminAssumption
  <2>2. to \in Roles \cup {NoRole} /\ row.role \in Roles \cup {NoRole}
    BY <2>1 DEF AdminRow
  <2>3. is \in Names \cup {Unnamed} /\ was \in Names \cup {Unnamed}
    BY <1>0, <2>2
  <2>4. body.roleTo \in Roles => NameOf(body.roleTo) # Unnamed
    BY <1>4, AdminAssumption DEF ReadForUpdate
  <2>5. req' = [req EXCEPT ![c] = q]
    BY <1>4 DEF ReadForUpdate
  <2> HIDE DEF is, was, to, row
  <2>6. q \in Request
    <3>1. "update" \in Steps
      BY DEF Steps
    <3> HIDE DEF Steps
    <3> QED BY <1>0, <1>2, <2>1, <2>3, <3>1, ZenonT(200) DEF Request
  <2>7. /\ q.step = "update" /\ q.who = u /\ q.roleTo = body.roleTo /\ q.own = NoRow
        /\ q.by = req[c].by /\ q.at = req[c].at /\ q.view = req[c].view /\ q.live = req[c].live
    BY <1>0, ZenonT(150) DEF Request
  <2> HIDE DEF q
  <2>8. Goal(q)
    BY <1>2, <2>4, <2>6, <2>7 DEF Steps
  <2> HIDE DEF Goal
  <2> QED BY <2>5, <2>8
<1>5. ASSUME NEW u \in Users, ReadForDelete(c, u)
      PROVE  \E q : Goal(q) /\ req' = [req EXCEPT ![c] = q]
  <2> DEFINE q == [req[c] EXCEPT !.step = "delete", !.who = u, !.row = admin[u],
                                 !.own = NoRow, !.alone = TRUE]
  <2>1. req' = [req EXCEPT ![c] = q]
    BY <1>5 DEF ReadForDelete
  <2>2. q \in Request
    BY <1>0, <1>2, ZenonT(150) DEF Request, Steps
  <2>3. /\ q.step = "delete" /\ q.who = u /\ q.roleTo = req[c].roleTo /\ q.own = NoRow
        /\ q.by = req[c].by /\ q.at = req[c].at /\ q.view = req[c].view /\ q.live = req[c].live
    BY <1>0, ZenonT(150) DEF Request
  <2> HIDE DEF q
  <2>4. Goal(q)
    BY <1>0, <1>2, <2>2, <2>3 DEF Steps, RequestKnows
  <2> HIDE DEF Goal
  <2> QED BY <2>1, <2>4
<1>6. ASSUME NEW u \in Users, NEW e \in Events, ReadForAssign(c, u, e)
      PROVE  \E q : Goal(q) /\ req' = [req EXCEPT ![c] = q]
  <2> DEFINE q == [req[c] EXCEPT !.step = "assign", !.who = u, !.row = admin[u], !.events = {e},
                                 !.own = NoRow, !.alone = TRUE]
  <2>1. req' = [req EXCEPT ![c] = q]
    BY <1>6 DEF ReadForAssign
  <2>2. q \in Request
    BY <1>0, <1>2, ZenonT(150) DEF Request, Steps
  <2>3. /\ q.step = "assign" /\ q.who = u /\ q.roleTo = req[c].roleTo /\ q.own = NoRow
        /\ q.events = {e}
        /\ q.by = req[c].by /\ q.at = req[c].at /\ q.view = req[c].view /\ q.live = req[c].live
    BY <1>0, ZenonT(150) DEF Request
  <2> HIDE DEF q
  <2>4. Goal(q)
    BY <1>0, <1>2, <2>2, <2>3 DEF Steps, RequestKnows
  <2> HIDE DEF Goal
  <2> QED BY <2>1, <2>4
<1>7. \E q : Goal(q) /\ req' = [req EXCEPT ![c] = q]
  <2> HIDE DEF Goal
  <2> QED BY <1>3, <1>4, <1>5, <1>6, Zenon DEF Reading
<1>8. /\ UNCHANGED <<Rows, Cached, revoked, now, asks, lost>>
      /\ mixed \subseteq mixed' /\ mixed' \subseteq Users
      /\ req[c].step = "act" /\ req[c].view.name = Super
  <2>1. CASE \E u \in Users, rl \in Roles, es \in SUBSET Events : ReadForGrant(c, u, rl, es)
    BY <1>0, <1>1, <1>2, <2>1 DEF ReadForGrant, Authorised
  <2>2. CASE \E u \in Users, body \in Patches : ReadForUpdate(c, u, body)
    BY <1>0, <1>1, <1>2, <2>2 DEF ReadForUpdate, Authorised
  <2>3. CASE \E u \in Users : ReadForDelete(c, u)
    BY <1>0, <1>1, <1>2, <2>3 DEF ReadForDelete, Authorised
  <2>4. CASE \E u \in Users, e \in Events : ReadForAssign(c, u, e)
    BY <1>0, <1>1, <1>2, <2>4 DEF ReadForAssign, Authorised
  <2> QED BY <1>7, <2>1, <2>2, <2>3, <2>4 DEF Reading
<1> QED BY <1>7, <1>8

\* A step that may change the object of the session: its entry, when it has
\* one, gets another view.
LEMMA ShowingFields ==
  ASSUME RowsInv, NEW c \in Reqs, Showing(c)
  PROVE  /\ UNCHANGED <<Rows, raced, revoked, now, asks, Notes>>
         /\ req[c].step \in {"act"} \cup Steps /\ req[c].by \in Users
         /\ \E view \in RoleRow :
              /\ Shows(c, view)
              /\ \/ view \in {cache[req[c].by].view, Nothing}
                 \/ req[c].step = "act" /\ req[c].view.name = Super
                 \/ req[c].step = "update"
         /\ \E q \in Request :
              /\ req' = [req EXCEPT ![c] = q] /\ RequestKnows(q)
              /\ \/ q = Idle
                 \/ /\ q.step \in {"role", "reconcile"}
                    /\ q.by = req[c].by /\ q.at = req[c].at /\ q.view = req[c].view
                    /\ q.live = req[c].live
                    /\ q.step = "role" => req[c].view.name = Super
                    /\ q.step = "reconcile" => req[c].step = "update"
<1> USE DEF Notes
<1>0. /\ req[c] \in Request /\ RequestKnows(req[c]) /\ role \in [Roles -> RoleRow]
      /\ \A u \in Users : cache[u].view \in RoleRow
      /\ \A rl \in Roles : NameOf(rl) \in Names \cup {Unnamed}
  BY AdminAssumption DEF RowsInv, TypeOK, NameOf, RoleRow
<1>1. /\ req[c].own \in AdminRow /\ req[c].view.name \in Names \cup {Unnamed}
      /\ req[c].is \in Names \cup {Unnamed} /\ req[c].events \in (SUBSET Events) \cup {Keep}
  BY <1>0, RequestFields DEF RoleRow
<1>2. Nothing \in RoleRow /\ NoRow \in AdminRow /\ NoRow.role \notin Roles
      /\ Idle \in Request /\ RequestKnows(Idle)
  BY AdminAssumption, IdleType DEF Nothing, NoRow, RoleRow, AdminRow, RequestKnows, Idle, Steps
<1> DEFINE GoodView(view) == \/ view \in {cache[req[c].by].view, Nothing}
                             \/ req[c].step = "act" /\ req[c].view.name = Super
                             \/ req[c].step = "update"
           GoodNext(q) == /\ q \in Request /\ RequestKnows(q)
                          /\ \/ q = Idle
                             \/ /\ q.step \in {"role", "reconcile"}
                                /\ q.by = req[c].by /\ q.at = req[c].at /\ q.view = req[c].view
                                /\ q.live = req[c].live
                                /\ q.step = "role" => req[c].view.name = Super
                                /\ q.step = "reconcile" => req[c].step = "update"
           Goal == /\ UNCHANGED <<Rows, raced, revoked, now, asks, Notes>>
                   /\ req[c].step \in {"act"} \cup Steps /\ req[c].by \in Users
                   /\ \E view \in RoleRow : Shows(c, view) /\ GoodView(view)
                   /\ \E q : GoodNext(q) /\ req' = [req EXCEPT ![c] = q]
<1>3. ASSUME NEW body \in RoleBodies, ReadForRole(c, body) PROVE Goal
  <2> DEFINE mine == body.id = req[c].own.role
             old  == cache[req[c].by].view
             was == NameSeen(c, body.id)
             alone == IF mine THEN req[c].alone ELSE TRUE
             q == [req[c] EXCEPT !.step = "role", !.was = was, !.body = body, !.own = NoRow,
                                 !.alone = alone]
             view == IF mine THEN [old EXCEPT !.name = body.name] ELSE old
  <2>1. /\ req[c].step = "act" /\ req[c].view.name = Super /\ req[c].by \in Users
        /\ Shows(c, view) /\ req' = [req EXCEPT ![c] = q]
        /\ UNCHANGED <<Rows, raced, revoked, now, asks, Notes>>
    <3>1. req[c].step = "act" /\ Allows(req[c].view, "super") /\ Shows(c, view)
      BY <1>3 DEF ReadForRole, Authorised
    <3>2. UNCHANGED <<Rows, raced, revoked, now, asks, Notes>>
      BY <1>3 DEF ReadForRole
    <3>5. req' = [req EXCEPT ![c] = q]
      BY <1>3, Zenon DEF ReadForRole
    <3>3. req[c].view.name = Super
      BY <3>1 DEF Allows
    <3>4. req[c].by \in Users
      BY <1>0, <3>1 DEF RequestKnows
    <3> QED BY <3>1, <3>2, <3>3, <3>4, <3>5
  <2>2. body.id \in Roles /\ body.name \in Names /\ old \in RoleRow
    BY <1>0, <2>1, AdminAssumption DEF Names
  <2>3. view \in RoleRow
    BY <2>2 DEF RoleRow
  <2>4. was \in Names \cup {Unnamed} /\ (was # Unnamed => NameOf(body.id) # Unnamed)
    <3>1. CASE mine
      BY <1>0, <1>1, <2>2, <3>1 DEF NameSeen, RequestKnows
    <3>2. CASE ~ mine
      BY <1>0, <2>2, <3>2 DEF NameSeen
    <3> QED BY <3>1, <3>2
  <2>5. alone \in BOOLEAN
    BY <1>0, RequestFields
  <2> HIDE DEF was, alone, mine, view, old
  <2>6. q \in Request
    <3>1. "role" \in Steps
      BY DEF Steps
    <3> HIDE DEF Steps
    <3> QED BY <1>0, <1>2, <2>2, <2>4, <2>5, <3>1, ZenonT(150) DEF Request
  <2>7. /\ q.step = "role" /\ q.roleTo = req[c].roleTo /\ q.own = NoRow /\ q.body = body
        /\ q.was = was
        /\ q.by = req[c].by /\ q.at = req[c].at /\ q.view = req[c].view /\ q.live = req[c].live
    BY <1>0, ZenonT(150) DEF Request
  <2> HIDE DEF q
  <2>8. RequestKnows(q)
    BY <1>0, <1>2, <2>1, <2>4, <2>7 DEF RequestKnows, Steps
  <2>9. GoodNext(q) /\ GoodView(view)
    BY <2>1, <2>6, <2>7, <2>8
  <2> HIDE DEF GoodNext, GoodView
  <2> QED BY <2>1, <2>3, <2>9
<1>4. ASSUME Switch(c) PROVE Goal
  <2> DEFINE events == EventsAfter(req[c])
             had == EventsIn(scope, req[c].who)
             q == [req[c] EXCEPT !.step = "reconcile", !.events = events, !.had = had]
             view == IF req[c].who = req[c].by /\ NewRole(req[c])
                     THEN [name |-> req[c].is, edit |-> FALSE] ELSE cache[req[c].by].view
  <2>1. /\ req[c].step = "update" /\ Shows(c, view)
        /\ UNCHANGED <<Rows, raced, revoked, now, asks, Notes>>
        /\ req' = [req EXCEPT ![c] = Idle] \/ req' = [req EXCEPT ![c] = q]
    BY <1>4 DEF Switch, Finish
  <2>2. req[c].by \in Users /\ req[c].step \in Steps
    BY <1>0, <2>1 DEF RequestKnows, Steps
  <2>3. view \in RoleRow
    BY <1>0, <1>1, <2>2 DEF RoleRow
  <2>4. events \in (SUBSET Events) \cup {Keep} /\ had \in SUBSET Events
    BY <1>1 DEF EventsAfter, EventsIn
  <2> HIDE DEF events, had, view
  <2>5. q \in Request
    <3>1. "reconcile" \in Steps
      BY DEF Steps
    <3> HIDE DEF Steps
    <3> QED BY <1>0, <2>4, <3>1, ZenonT(150) DEF Request
  <2>6. /\ q.step = "reconcile" /\ q.roleTo = req[c].roleTo /\ q.own = req[c].own
        /\ q.who = req[c].who
        /\ q.by = req[c].by /\ q.at = req[c].at /\ q.view = req[c].view /\ q.live = req[c].live
    BY <1>0, ZenonT(150) DEF Request
  <2> HIDE DEF q
  <2>7. RequestKnows(q)
    BY <1>0, <2>1, <2>6 DEF RequestKnows, Steps
  <2>8. GoodNext(q) /\ GoodNext(Idle) /\ GoodView(view)
    BY <1>2, <2>1, <2>5, <2>6, <2>7
  <2> HIDE DEF GoodNext, GoodView
  <2> QED BY <2>1, <2>2, <2>3, <2>8
<1>5. ASSUME Abort(c) PROVE Goal
  <2>1. /\ req[c].step \in {"act"} \cup Steps /\ req' = [req EXCEPT ![c] = Idle]
        /\ UNCHANGED <<Rows, raced, revoked, now, asks, Notes>>
    BY <1>5 DEF Abort, Finish
  <2>2. PICK view \in {cache[req[c].by].view, Nothing} : Shows(c, view)
    BY <1>5 DEF Abort
  <2>3. req[c].by \in Users
    BY <1>0, <2>1 DEF RequestKnows, Steps
  <2>4. view \in RoleRow /\ GoodNext(Idle) /\ GoodView(view)
    BY <1>0, <1>2, <2>2, <2>3
  <2> HIDE DEF GoodNext, GoodView
  <2> QED BY <2>1, <2>2, <2>3, <2>4
<1>6. Goal
  <2> HIDE DEF Goal
  <2> QED BY <1>3, <1>4, <1>5 DEF Showing
<1> QED BY <1>6

-----------------------------------------------------------------------------
(* Types.                                                                  *)

LEMMA RowsInit == Init => RowsInv
<1> SUFFICES ASSUME Init PROVE RowsInv
  OBVIOUS
<1>1. admin \in [Users -> AdminRow] /\ role \in [Roles -> RoleRow] /\ ActiveHasRole
  BY AdminAssumption DEF Init, AdminRow, RoleRow, Names, ActiveHasRole, NameOf
<1>2. req \in [Reqs -> Request] /\ \A c \in Reqs : RequestKnows(req[c])
  <2>1. \A c \in Reqs : req[c] = Idle
    BY DEF Init
  <2> QED BY <2>1, IdleType, AdminAssumption DEF Init, RequestKnows, Idle, NoRow, Steps
<1>3. cache \in [Users -> [view : RoleRow, until : Nat]]
  BY DEF Init, Empty, Nothing, RoleRow
<1>4. TypeOK
  BY <1>1, <1>2, <1>3, AdminAssumption DEF Init, TypeOK
<1> QED BY <1>1, <1>2, <1>4 DEF RowsInv

LEMMA RowsCommit ==
  ASSUME RowsInv, NEW c \in Reqs, NEW a, NEW r, NEW s, NEW us, Commits(c, a, r, s, us)
  PROVE  RowsInv'
<1>1. /\ admin' = a /\ role' = r /\ scope' = s
      /\ a \in [Users -> AdminRow] /\ \A u \in Users : a[u].active => a[u].role # NoRole
      /\ \A u \in Users : a[u].role # NoRole => r[a[u].role].name # Unnamed
      /\ \A rl \in Roles : role[rl].name # Unnamed => r[rl].name # Unnamed
      /\ r \in [Roles -> RoleRow] /\ s \subseteq Users \X Events
      /\ UNCHANGED <<Cached, revoked, now, asks>>
  BY DEF Commits, Commit
<1>2. lost' \in [Users -> [Powers -> Nat]]
  BY AdminAssumption DEF Commits, Commit, RowsInv, TypeOK
<1>3. mixed' \subseteq Users
  BY DEF Commits, Commit, RowsInv, TypeOK, Overtaken
<1>4. TypeOK'
  BY <1>1, <1>2, <1>3, CommitFields DEF RowsInv, TypeOK, Cached
<1>5. \A rl \in Roles : NameOf(rl) # Unnamed => NameOf(rl)' # Unnamed
  BY <1>1, AdminAssumption DEF NameOf
<1>6. ASSUME NEW d \in Reqs
      PROVE  RequestKnows(req[d])'
  <2>1. req[d] \in Request /\ RequestKnows(req[d]) /\ req[c] \in Request /\ RequestKnows(req[c])
    BY DEF RowsInv, TypeOK
  <2>2. CASE d = c
    <3>1. /\ req'[d].step = "drop" /\ req'[d].by = req[d].by /\ req[d].step # "idle"
          /\ Roles \cap {req'[d].roleTo, req'[d].own.role} = {}
      BY <2>2, CommitFields DEF Steps
    <3> QED BY <2>1, <2>2, <3>1 DEF RequestKnows, Steps
  <2>3. CASE d # c
    <3>1. /\ req'[d].step = req[d].step /\ req'[d].by = req[d].by
          /\ req'[d].who = req[d].who /\ req'[d].events = req[d].events
          /\ req'[d].roleTo = req[d].roleTo /\ req'[d].own = req[d].own
          /\ req'[d].body = req[d].body /\ req'[d].was = req[d].was
      BY <2>3, OthersCommit
    <3>2. \A body \in RoleBodies : body.id \in Roles
      BY AdminAssumption
    <3> QED BY <1>5, <2>1, <3>1, <3>2 DEF RequestKnows
  <2> QED BY <2>2, <2>3
<1>7. ActiveHasRole'
  BY <1>1 DEF ActiveHasRole, NameOf
<1> QED BY <1>4, <1>6, <1>7 DEF RowsInv

\* A step that commits nothing.
LEMMA RowsKept ==
  ASSUME RowsInv, UNCHANGED <<Rows, lost>>, now' \in TTL .. TTL + MaxNow, asks' \in 0 .. MaxAsks,
         revoked' \cup raced' \cup touched' \cup mixed' \subseteq Users,
         cache' \in [Users -> [view : RoleRow, until : Nat]],
         req' \in [Reqs -> Request], \A c \in Reqs : RequestKnows(req'[c])
  PROVE  RowsInv'
<1>1. TypeOK'
  BY DEF RowsInv, TypeOK, Rows
<1>2. ASSUME NEW d \in Reqs
      PROVE  RequestKnows(req[d])'
  BY DEF RequestKnows, Rows, NameOf
<1> QED BY <1>1, <1>2 DEF RowsInv, ActiveHasRole, Rows, NameOf

\* The requests, when one of them moves on.
LEMMA RequestsKept ==
  ASSUME RowsInv, NEW c \in Reqs, NEW q \in Request, RequestKnows(q), req' = [req EXCEPT ![c] = q]
  PROVE  /\ req' \in [Reqs -> Request] /\ \A d \in Reqs : RequestKnows(req'[d])
         /\ req'[c] = q /\ \A d \in Reqs \ {c} : req'[d] = req[d]
BY DEF RowsInv, TypeOK

\* ... and when some of them lose the object that is cached.
LEMMA UnliveType ==
  ASSUME NEW q \in Request, NEW b \in BOOLEAN
  PROVE  LET d == [q EXCEPT !.live = b]
         IN /\ d \in Request /\ d.step = q.step /\ d.by = q.by /\ d.at = q.at /\ d.view = q.view
            /\ d.live = b /\ d.own = q.own /\ d.who = q.who /\ d.row = q.row /\ d.roleTo = q.roleTo
            /\ d.events = q.events /\ d.was = q.was /\ d.is = q.is /\ d.had = q.had
            /\ d.body = q.body /\ d.drops = q.drops /\ d.alone = q.alone
            /\ RequestKnows(q) => RequestKnows(d)
<1> DEFINE d == [q EXCEPT !.live = b]
<1>1. d \in Request
  BY ZenonT(150) DEF Request
<1>2. /\ d.step = q.step /\ d.by = q.by /\ d.at = q.at /\ d.view = q.view
      /\ d.live = b /\ d.own = q.own /\ d.who = q.who /\ d.row = q.row /\ d.roleTo = q.roleTo
      /\ d.events = q.events /\ d.was = q.was /\ d.is = q.is /\ d.had = q.had
      /\ d.body = q.body /\ d.drops = q.drops /\ d.alone = q.alone
  BY DEF Request
<1> HIDE DEF d
<1>3. RequestKnows(q) => RequestKnows(d)
  BY <1>2 DEF RequestKnows
<1> QED BY <1>1, <1>2, <1>3 DEF d

LEMMA ShowsType ==
  ASSUME RowsInv, NEW c \in Reqs, req[c].by \in Users, NEW view \in RoleRow, Shows(c, view)
  PROVE  /\ cache' \in [Users -> [view : RoleRow, until : Nat]] /\ touched' \subseteq Users
         /\ \A u \in Users : \/ cache'[u] = cache[u] /\ (u \in touched => u \in touched')
                             \/ /\ req[c].live /\ u = req[c].by /\ u \in touched'
                                /\ cache'[u].view = view /\ cache'[u].until = cache[u].until
<1> DEFINE u == req[c].by
<1>1. cache \in [Users -> [view : RoleRow, until : Nat]] /\ touched \subseteq Users
  BY DEF RowsInv, TypeOK
<1>2. CASE req[c].live /\ view # cache[u].view
  <2>1. cache' = [cache EXCEPT ![u].view = view] /\ touched' = touched \cup {u}
    BY <1>2 DEF Shows
  <2>2. cache[u] \in [view : RoleRow, until : Nat]
    BY <1>1
  <2>3. cache' = [cache EXCEPT ![u] = [cache[u] EXCEPT !.view = view]]
    BY <2>1
  <2>4. LET e == [cache[u] EXCEPT !.view = view]
        IN e \in [view : RoleRow, until : Nat] /\ e.view = view /\ e.until = cache[u].until
    BY <2>2
  <2> QED BY <1>1, <1>2, <2>1, <2>3, <2>4
<1>3. CASE ~ (req[c].live /\ view # cache[u].view)
  BY <1>1, <1>3 DEF Shows
<1> QED BY <1>2, <1>3

\* A cached row that was read is stored.
LEMMA StoreFields ==
  ASSUME RowsInv, NEW c \in Reqs, Store(c)
  PROVE  /\ req[c].step = "store" /\ req[c].by \in Users
         /\ UNCHANGED <<Rows, revoked, now, asks, Notes>>
         /\ cache' \in [Users -> [view : RoleRow, until : Nat]]
         /\ cache'[req[c].by] = [view |-> req[c].view, until |-> req[c].at + TTL]
         /\ \A u \in Users \ {req[c].by} :
              cache'[u] = cache[u] /\ (u \in raced => u \in raced') /\ (u \in touched => u \in touched')
         /\ raced' \cup touched' \subseteq Users
         /\ req[c].view # View(req[c].by) => req[c].by \in raced'
         /\ req' \in [Reqs -> Request] /\ \A d \in Reqs : RequestKnows(req'[d])
         /\ req'[c] = [req[c] EXCEPT !.step = "act", !.live = TRUE]
         /\ req'[c].step = "act" /\ req'[c].by = req[c].by /\ req'[c].at = req[c].at
         /\ req'[c].view = req[c].view
         /\ \A d \in Reqs \ {c} :
              /\ req'[d] = req[d] \/ req'[d] = [req[d] EXCEPT !.live = FALSE]
              /\ req[d].by = req[c].by => ~ req'[d].live
<1> USE DEF Notes
<1>0. /\ \A d \in Reqs : req[d] \in Request /\ RequestKnows(req[d])
      /\ cache \in [Users -> [view : RoleRow, until : Nat]]
      /\ raced \subseteq Users /\ touched \subseteq Users
  BY DEF RowsInv, TypeOK
<1>1. /\ req[c].step = "store" /\ UNCHANGED <<Rows, revoked, now, asks, Notes>>
      /\ cache' = [cache EXCEPT ![req[c].by] = [view |-> req[c].view, until |-> req[c].at + TTL]]
      /\ req' = Live(c, req[c].by, "act")
      /\ raced' = IF req[c].view = View(req[c].by) THEN raced \ {req[c].by} ELSE raced \cup {req[c].by}
      /\ touched' = touched \ {req[c].by}
  BY DEF Store, StoreUntil
<1>2. req[c].by \in Users /\ req[c].view \in RoleRow /\ req[c].at \in Nat
  BY <1>0, <1>1, RequestFields DEF RequestKnows
<1>3. [view |-> req[c].view, until |-> req[c].at + TTL] \in [view : RoleRow, until : Nat]
  BY <1>2, AdminAssumption
<1> DEFINE q == [req[c] EXCEPT !.step = "act", !.live = TRUE]
<1>4. /\ q \in Request /\ q.step = "act" /\ q.by = req[c].by /\ q.at = req[c].at
      /\ q.view = req[c].view /\ q.roleTo = req[c].roleTo /\ q.own = req[c].own
  <2>1. req[c] \in Request
    BY <1>0
  <2>2. q \in Request
    BY <2>1, ZenonT(150) DEF Request
  <2> QED BY <2>1, <2>2 DEF Request
<1>5. req'[c] = q
  BY <1>1 DEF Live
<1>6. ASSUME NEW d \in Reqs \ {c}
      PROVE  /\ req'[d] = req[d] \/ req'[d] = [req[d] EXCEPT !.live = FALSE]
             /\ req[d].by = req[c].by => req'[d] = [req[d] EXCEPT !.live = FALSE]
  BY <1>1 DEF Live
<1>7. ASSUME NEW d \in Reqs \ {c}
      PROVE  /\ req'[d] \in Request /\ RequestKnows(req'[d])
             /\ req[d].by = req[c].by => ~ req'[d].live
  <2>1. req[d] \in Request /\ RequestKnows(req[d]) /\ FALSE \in BOOLEAN
    BY <1>0
  <2>2. LET e == [req[d] EXCEPT !.live = FALSE]
        IN e \in Request /\ RequestKnows(e) /\ e.live = FALSE
    BY <2>1, UnliveType
  <2> QED BY <1>6, <2>1, <2>2
<1> HIDE DEF q
<1>8. req'[c] \in Request /\ RequestKnows(req'[c])
  BY <1>0, <1>1, <1>2, <1>4, <1>5 DEF RequestKnows, Steps
<1>9. req' \in [Reqs -> Request] /\ \A d \in Reqs : RequestKnows(req'[d])
  <2>1. req' = [d \in Reqs |-> req'[d]]
    BY <1>1 DEF Live
  <2>2. \A d \in Reqs : req'[d] \in Request /\ RequestKnows(req'[d])
    BY <1>7, <1>8
  <2> QED BY <2>1, <2>2
<1>10. /\ cache' \in [Users -> [view : RoleRow, until : Nat]]
       /\ cache'[req[c].by] = [view |-> req[c].view, until |-> req[c].at + TTL]
       /\ \A u \in Users \ {req[c].by} : cache'[u] = cache[u]
  BY <1>0, <1>1, <1>2, <1>3
<1>11. /\ \A u \in Users \ {req[c].by} : (u \in raced => u \in raced') /\ (u \in touched => u \in touched')
       /\ raced' \cup touched' \subseteq Users
       /\ req[c].view # View(req[c].by) => req[c].by \in raced'
  BY <1>0, <1>1, <1>2
<1>12. req'[c] = [req[c] EXCEPT !.step = "act", !.live = TRUE]
  BY <1>5 DEF q
<1> QED BY <1>1, <1>2, <1>4, <1>5, <1>6, <1>7, <1>9, <1>10, <1>11, <1>12

LEMMA DropFields ==
  ASSUME RowsInv, NEW c \in Reqs, Drop(c)
  PROVE  /\ req[c].step = "drop" /\ UNCHANGED <<Rows, revoked, now, asks, Notes>>
         /\ cache' = [u \in Users |-> IF u \in req[c].drops THEN Empty ELSE cache[u]]
         /\ cache' \in [Users -> [view : RoleRow, until : Nat]]
         /\ raced' = raced \ req[c].drops /\ touched' = touched \ req[c].drops
         /\ req' \in [Reqs -> Request] /\ \A d \in Reqs : RequestKnows(req'[d])
         /\ req'[c] = Idle
         /\ \A d \in Reqs \ {c} :
              /\ req'[d] = req[d] \/ req'[d] = [req[d] EXCEPT !.live = FALSE]
              /\ req[d].by \in req[c].drops => ~ req'[d].live
<1> USE DEF Notes
<1>0. /\ \A d \in Reqs : req[d] \in Request /\ RequestKnows(req[d])
      /\ cache \in [Users -> [view : RoleRow, until : Nat]]
  BY DEF RowsInv, TypeOK
<1>1. /\ req[c].step = "drop" /\ UNCHANGED <<Rows, revoked, now, asks, Notes>>
      /\ cache' = [u \in Users |-> IF u \in req[c].drops THEN Empty ELSE cache[u]]
      /\ raced' = raced \ req[c].drops /\ touched' = touched \ req[c].drops
      /\ req' = [d \in Reqs |-> CASE d = c -> Idle
                                 [] d # c /\ req[d].by \in req[c].drops
                                      -> [req[d] EXCEPT !.live = FALSE]
                                 [] OTHER -> req[d]]
  BY DEF Drop
<1>2. Empty \in [view : RoleRow, until : Nat]
  BY DEF Empty, Nothing, RoleRow
<1>3. cache' \in [Users -> [view : RoleRow, until : Nat]]
  BY <1>0, <1>1, <1>2
<1>4. req'[c] = Idle
  BY <1>1
<1>5. ASSUME NEW d \in Reqs \ {c}
      PROVE  /\ req'[d] = req[d] \/ req'[d] = [req[d] EXCEPT !.live = FALSE]
             /\ req[d].by \in req[c].drops => req'[d] = [req[d] EXCEPT !.live = FALSE]
  BY <1>1
<1>6. ASSUME NEW d \in Reqs \ {c}
      PROVE  /\ req'[d] \in Request /\ RequestKnows(req'[d])
             /\ req[d].by \in req[c].drops => ~ req'[d].live
  <2>1. req[d] \in Request /\ RequestKnows(req[d]) /\ FALSE \in BOOLEAN
    BY <1>0
  <2>2. LET e == [req[d] EXCEPT !.live = FALSE]
        IN e \in Request /\ RequestKnows(e) /\ e.live = FALSE
    BY <2>1, UnliveType
  <2> QED BY <1>5, <2>1, <2>2
<1>7. Idle \in Request /\ RequestKnows(Idle)
  BY AdminAssumption, IdleType DEF NoRow, RequestKnows, Idle, Steps
<1>8. req' \in [Reqs -> Request] /\ \A d \in Reqs : RequestKnows(req'[d])
  <2>1. req' = [d \in Reqs |-> req'[d]]
    BY <1>1
  <2>2. \A d \in Reqs : req'[d] \in Request /\ RequestKnows(req'[d])
    BY <1>4, <1>6, <1>7
  <2> QED BY <2>1, <2>2
<1> QED BY <1>1, <1>3, <1>4, <1>5, <1>6, <1>8

LEMMA ArriveFields ==
  ASSUME RowsInv, NEW c \in Reqs, NEW u \in Users, Arrive(c, u)
  PROVE  /\ UNCHANGED <<Rows, Cached, revoked, now, Notes>> /\ asks' \in 0 .. MaxAsks
         /\ req[c] = Idle
         /\ \E q \in Request :
              /\ req' = [req EXCEPT ![c] = q] /\ RequestKnows(q)
              /\ q.by = u /\ q.at = now /\ ~ q.live
              /\ \/ now < cache[u].until /\ q.step = "act" /\ q.view = cache[u].view
                 \/ q.step = "read"
<1> USE DEF Notes
<1>1. UNCHANGED <<Rows, Cached, revoked, now, Notes>> /\ req[c] = Idle /\ asks' \in 0 .. MaxAsks
  BY AdminAssumption DEF Arrive, RowsInv, TypeOK
<1>2. /\ cache[u].view \in RoleRow /\ Nothing \in RoleRow /\ now \in Nat
  BY AdminAssumption DEF RowsInv, TypeOK, Nothing, RoleRow
<1>3. ASSUME NEW st \in {"act", "read"}, NEW v \in RoleRow
      PROVE  LET q == [Idle EXCEPT !.step = st, !.by = u, !.at = now, !.view = v]
             IN q \in Request /\ q.by = u /\ q.step = st /\ q.at = now /\ q.view = v /\ ~ q.live
                /\ RequestKnows(q)
  <2> DEFINE q == [Idle EXCEPT !.step = st, !.by = u, !.at = now, !.view = v]
  <2>1. q \in Request
    BY <1>2, IdleType, ZenonT(150) DEF Request
  <2>2. /\ q.by = u /\ q.step = st /\ q.at = now /\ q.view = v /\ ~ q.live
        /\ q.roleTo = Keep /\ q.own = NoRow
    BY DEF Idle
  <2> HIDE DEF q
  <2>3. RequestKnows(q)
    BY <2>2, AdminAssumption DEF RequestKnows, NoRow, Steps
  <2> QED BY <2>1, <2>2, <2>3 DEF q
<1>4. CASE now < cache[u].until
  <2> DEFINE q == [Idle EXCEPT !.step = "act", !.by = u, !.at = now, !.view = cache[u].view]
  <2>1. req' = [req EXCEPT ![c] = q]
    BY <1>4 DEF Arrive
  <2>2. q \in Request /\ q.by = u /\ q.step = "act" /\ q.at = now /\ q.view = cache[u].view
        /\ ~ q.live /\ RequestKnows(q)
    BY <1>2, <1>3
  <2> HIDE DEF q
  <2> QED BY <1>1, <1>4, <2>1, <2>2
<1>5. CASE ~ (now < cache[u].until)
  <2> DEFINE q == [Idle EXCEPT !.step = "read", !.by = u, !.at = now, !.view = Nothing]
  <2>1. req' = [req EXCEPT ![c] = q]
    BY <1>5 DEF Arrive
  <2>2. q \in Request /\ q.by = u /\ q.step = "read" /\ q.at = now /\ ~ q.live /\ RequestKnows(q)
    BY <1>2, <1>3
  <2> HIDE DEF q
  <2> QED BY <1>1, <2>1, <2>2
<1> QED BY <1>4, <1>5

LEMMA ReadRowFields ==
  ASSUME RowsInv, NEW c \in Reqs, ReadRow(c)
  PROVE  /\ UNCHANGED <<Rows, Cached, revoked, now, asks, Notes>> /\ req[c].step = "read"
         /\ \E q \in Request :
              /\ req' = [req EXCEPT ![c] = q] /\ RequestKnows(q)
              /\ \/ q = Idle
                 \/ /\ q.step = "store" /\ q.by = req[c].by /\ q.at = req[c].at
                    /\ q.live = req[c].live /\ q.by \in Users
                    /\ admin[q.by].active /\ q.view = View(q.by)
<1> USE DEF Notes
<1>1. UNCHANGED <<Rows, Cached, revoked, now, asks, Notes>> /\ req[c].step = "read"
  BY DEF ReadRow
<1>2. /\ req[c] \in Request /\ req[c].by \in Users /\ RequestKnows(req[c])
      /\ admin \in [Users -> AdminRow]
      /\ \A u \in Users : admin[u].active => admin[u].role # NoRole
      /\ \A u \in Users : admin[u].role # NoRole => NameOf(admin[u].role) # Unnamed
  BY <1>1 DEF RowsInv, TypeOK, RequestKnows, ActiveHasRole
<1>3. View(req[c].by) \in RoleRow
  BY <1>2, ViewType DEF RowsInv, TypeOK, View
<1>4. CASE admin[req[c].by].active
  <2> DEFINE v == View(req[c].by)
             own == admin[req[c].by]
             q == [req[c] EXCEPT !.step = "store", !.view = v, !.own = own]
  <2>1. req' = [req EXCEPT ![c] = q]
    BY <1>4 DEF ReadRow
  <2>2. v \in RoleRow /\ own \in AdminRow /\ own.role # NoRole /\ NameOf(own.role) # Unnamed
    BY <1>2, <1>3, <1>4
  <2> HIDE DEF v, own
  <2>3. q \in Request
    BY <1>2, <2>2, ZenonT(150) DEF Request
  <2>4. /\ q.step = "store" /\ q.by = req[c].by /\ q.at = req[c].at /\ q.live = req[c].live
        /\ q.view = v /\ q.own = own /\ q.roleTo = req[c].roleTo
    BY <1>2, ZenonT(150) DEF Request
  <2> HIDE DEF q
  <2>5. RequestKnows(q)
    BY <1>2, <2>2, <2>4 DEF RequestKnows, Steps
  <2>6. admin[q.by].active /\ q.view = View(q.by)
    BY <1>4, <2>4 DEF v
  <2> QED BY <1>1, <1>2, <2>1, <2>3, <2>4, <2>5, <2>6
<1>5. CASE ~ admin[req[c].by].active
  <2>1. req' = [req EXCEPT ![c] = Idle]
    BY <1>5 DEF ReadRow, Finish
  <2>2. Idle \in Request /\ RequestKnows(Idle)
    BY AdminAssumption, IdleType DEF NoRow, RequestKnows, Idle, Steps
  <2> QED BY <1>1, <2>1, <2>2
<1> QED BY <1>4, <1>5

\* What a reading knows.
LEMMA ReadingKnows ==
  ASSUME RowsInv, NEW c \in Reqs, NEW q \in Request, req[c].step = "act",
         q.step \in Steps \ {"role"}, q.who \in Users, q.by = req[c].by,
         q.step \in {"grant", "assign"} => q.events \in SUBSET Events,
         q.step = "grant" => q.roleTo \in Roles,
         \A rl \in Roles \cap {q.roleTo, q.own.role} : NameOf(rl) # Unnamed
  PROVE  RequestKnows(q) /\ q.by \in Users
<1>1. req[c].by \in Users
  BY DEF RowsInv, RequestKnows
<1> QED BY <1>1 DEF RequestKnows

LEMMA RowsStep == RowsInv /\ [Next]_vars => RowsInv'
<1> SUFFICES ASSUME RowsInv, [Next]_vars PROVE RowsInv'
  OBVIOUS
<1> USE DEF Notes
<1>0. /\ \A c \in Reqs : req[c] \in Request /\ RequestKnows(req[c])
      /\ cache \in [Users -> [view : RoleRow, until : Nat]] /\ req \in [Reqs -> Request]
      /\ revoked \cup raced \cup touched \cup mixed \subseteq Users
      /\ asks \in 0 .. MaxAsks /\ now \in TTL .. TTL + MaxNow
  BY DEF RowsInv, TypeOK
<1>1. ASSUME NEW c \in Reqs, Mutation(c) PROVE RowsInv'
  BY <1>1, MutationCommits, RowsCommit
<1>2. ASSUME NEW c \in Reqs, Reading(c) PROVE RowsInv'
  <2>1. /\ UNCHANGED <<Rows, Cached, revoked, now, asks, lost>> /\ mixed' \subseteq Users
        /\ req[c].step = "act"
    BY <1>2, ReadingFields
  <2>2. PICK q \in Request :
              /\ req' = [req EXCEPT ![c] = q] /\ q.step \in Steps \ {"role"} /\ q.who \in Users
              /\ q.by = req[c].by
              /\ q.step \in {"grant", "assign"} => q.events \in SUBSET Events
              /\ q.step = "grant" => q.roleTo \in Roles
              /\ \A rl \in Roles \cap {q.roleTo, q.own.role} : NameOf(rl) # Unnamed
    BY <1>2, ReadingFields
  <2>3. RequestKnows(q)
    BY <2>1, <2>2, ReadingKnows
  <2>4. req' \in [Reqs -> Request] /\ \A d \in Reqs : RequestKnows(req'[d])
    BY <2>2, <2>3, RequestsKept
  <2> QED BY <1>0, <2>1, <2>4, RowsKept DEF Cached
<1>3. ASSUME NEW c \in Reqs, Showing(c) PROVE RowsInv'
  <2>1. UNCHANGED <<Rows, raced, revoked, now, asks, Notes>> /\ req[c].by \in Users
    BY <1>3, ShowingFields
  <2>2. PICK view \in RoleRow : Shows(c, view)
    BY <1>3, ShowingFields
  <2>3. PICK q \in Request : req' = [req EXCEPT ![c] = q] /\ RequestKnows(q)
    BY <1>3, ShowingFields
  <2>4. req' \in [Reqs -> Request] /\ \A d \in Reqs : RequestKnows(req'[d])
    BY <2>3, RequestsKept
  <2>5. cache' \in [Users -> [view : RoleRow, until : Nat]] /\ touched' \subseteq Users
    BY <2>1, <2>2, ShowsType
  <2> QED BY <1>0, <2>1, <2>4, <2>5, RowsKept
<1>4. ASSUME NEW c \in Reqs, Drop(c) PROVE RowsInv'
  BY <1>0, <1>4, DropFields, RowsKept
<1>5. ASSUME NEW c \in Reqs, EditEvent(c) PROVE RowsInv'
  <2>1. UNCHANGED <<Rows, Cached, revoked, now, asks, Notes>> /\ req' = [req EXCEPT ![c] = Idle]
    BY <1>5 DEF EditEvent, Finish
  <2>2. Idle \in Request /\ RequestKnows(Idle)
    BY AdminAssumption, IdleType DEF NoRow, RequestKnows, Idle, Steps
  <2>3. req' \in [Reqs -> Request] /\ \A d \in Reqs : RequestKnows(req'[d])
    BY <2>1, <2>2, RequestsKept
  <2> QED BY <1>0, <2>1, <2>3, RowsKept DEF Cached
<1>6. ASSUME NEW c \in Reqs, NEW u \in Users, Arrive(c, u) PROVE RowsInv'
  <2>1. UNCHANGED <<Rows, Cached, revoked, now, Notes>> /\ asks' \in 0 .. MaxAsks
    BY <1>6, ArriveFields
  <2>2. PICK q \in Request : req' = [req EXCEPT ![c] = q] /\ RequestKnows(q)
    BY <1>6, ArriveFields
  <2>3. req' \in [Reqs -> Request] /\ \A d \in Reqs : RequestKnows(req'[d])
    BY <2>2, RequestsKept
  <2> QED BY <1>0, <2>1, <2>3, RowsKept DEF Cached
<1>7. ASSUME NEW c \in Reqs, ReadRow(c) PROVE RowsInv'
  <2>1. UNCHANGED <<Rows, Cached, revoked, now, asks, Notes>>
    BY <1>7, ReadRowFields
  <2>2. PICK q \in Request : req' = [req EXCEPT ![c] = q] /\ RequestKnows(q)
    BY <1>7, ReadRowFields
  <2>3. req' \in [Reqs -> Request] /\ \A d \in Reqs : RequestKnows(req'[d])
    BY <2>2, RequestsKept
  <2> QED BY <1>0, <2>1, <2>3, RowsKept DEF Cached
<1>8. ASSUME NEW c \in Reqs, Store(c) PROVE RowsInv'
  BY <1>0, <1>8, StoreFields, RowsKept
<1>9. ASSUME NEW u \in Users, Logout(u) \/ Login(u) PROVE RowsInv'
  <2>1. UNCHANGED <<Rows, Cached, now, req, Notes>> /\ revoked' \subseteq Users /\ asks' \in 0 .. MaxAsks
    BY <1>0, <1>9, AdminAssumption DEF Logout, Login
  <2> QED BY <1>0, <2>1, RowsKept DEF Cached
<1>10. CASE Tick
  <2>1. UNCHANGED <<Rows, Cached, revoked, req, asks, Notes>> /\ now' \in TTL .. TTL + MaxNow
    BY <1>0, <1>10, AdminAssumption DEF Tick
  <2> QED BY <1>0, <2>1, RowsKept DEF Cached
<1>11. CASE Restart
  <2>1. /\ UNCHANGED <<Rows, now, lost, mixed>> /\ revoked' = {} /\ raced' = {} /\ touched' = {}
        /\ asks' \in 0 .. MaxAsks /\ cache' = [u \in Users |-> Empty]
        /\ req' = [c \in Reqs |-> Idle]
    BY <1>0, <1>11, AdminAssumption DEF Restart
  <2>2. cache' \in [Users -> [view : RoleRow, until : Nat]]
    BY <2>1 DEF Empty, Nothing, RoleRow
  <2>3. Idle \in Request /\ RequestKnows(Idle)
    BY AdminAssumption, IdleType DEF NoRow, RequestKnows, Idle, Steps
  <2>4. req' \in [Reqs -> Request] /\ \A d \in Reqs : RequestKnows(req'[d])
    BY <2>1, <2>3
  <2> QED BY <1>0, <2>1, <2>2, <2>4, RowsKept
<1>12. CASE UNCHANGED vars
  BY <1>0, <1>12, RowsKept DEF vars, Rows
<1> QED BY <1>1, <1>2, <1>3, <1>4, <1>5, <1>6, <1>7, <1>8, <1>9, <1>10, <1>11, <1>12, NextCases

\* In every reachable state the rows, the cached views and what the requests
\* know have their types, and an active administrator has a role.
THEOREM RowsInvariant == Spec => []RowsInv
BY RowsInit, RowsStep, PTL DEF Spec

\* Type correctness.
THEOREM AdministrationTypes == Spec => []TypeOK
<1>1. RowsInv => TypeOK
  BY DEF RowsInv
<1> QED BY <1>1, RowsInvariant, PTL

-----------------------------------------------------------------------------
(* Authority: whoever acts with a power has it or lost it a moment ago.    *)

\* A request that may have lost the object that is cached.
LEMMA UnliveFields ==
  ASSUME NEW q \in Request, NEW d, d = q \/ d = [q EXCEPT !.live = FALSE]
  PROVE  /\ d.step = q.step /\ d.by = q.by /\ d.at = q.at /\ d.view = q.view
         /\ d.live => q.live
         /\ d.own = q.own /\ d.who = q.who /\ d.row = q.row /\ d.roleTo = q.roleTo
         /\ d.events = q.events /\ d.was = q.was /\ d.is = q.is /\ d.had = q.had
         /\ d.body = q.body /\ d.drops = q.drops /\ d.alone = q.alone
<1>1. CASE d = q
  BY <1>1
<1>2. CASE d = [q EXCEPT !.live = FALSE]
  BY <1>2, UnliveType
<1> QED BY <1>1, <1>2

\* A step that gives nobody the cached object.
LEMMA ObjectKept ==
  ASSUME ObjectIsSupers,
         \A d \in Reqs :
           /\ req'[d].step \in Steps => req'[d].view.name = Super
           /\ req'[d].live => /\ req[d].live /\ req'[d].by = req[d].by
                              /\ req'[d].step \in {"act", "update"}
                                   => cache'[req'[d].by].view = req'[d].view
  PROVE  ObjectIsSupers'
BY DEF ObjectIsSupers

\* What holds of the others when the step is one request's.
LEMMA ObjectOthers ==
  ASSUME RowsInv, ObjectIsSupers, NEW d \in Reqs,
         req'[d] = req[d] \/ req'[d] = [req[d] EXCEPT !.live = FALSE],
         req'[d].live => cache'[req[d].by] = cache[req[d].by]
  PROVE  /\ req'[d].step \in Steps => req'[d].view.name = Super
         /\ req'[d].live => /\ req[d].live /\ req'[d].by = req[d].by
                            /\ req'[d].step \in {"act", "update"}
                                 => cache'[req'[d].by].view = req'[d].view
<1>1. req[d] \in Request
  BY DEF RowsInv, TypeOK
<1> QED BY <1>1, UnliveFields DEF ObjectIsSupers

LEMMA ObjectStep ==
  ASSUME RowsInv, ObjectIsSupers, [Next]_vars
  PROVE  ObjectIsSupers'
<1> DEFINE Good(d) == /\ req'[d].step \in Steps => req'[d].view.name = Super
                      /\ req'[d].live => /\ req[d].live /\ req'[d].by = req[d].by
                                         /\ req'[d].step \in {"act", "update"}
                                              => cache'[req'[d].by].view = req'[d].view
<1>0. /\ \A c \in Reqs : req[c] \in Request /\ RequestKnows(req[c])
      /\ "update" \in Steps /\ "act" \notin Steps /\ "drop" \notin Steps /\ "idle" \notin Steps
      /\ "read" \notin Steps /\ "store" \notin Steps
      /\ Idle.step = "idle" /\ ~ Idle.live
  BY DEF RowsInv, TypeOK, Steps, Idle
<1>1. ASSUME NEW c \in Reqs, Mutation(c) PROVE ObjectIsSupers'
  <2>1. PICK a, r, s, us : Commits(c, a, r, s, us)
    BY <1>1, MutationCommits
  <2>2. UNCHANGED cache
    BY <2>1 DEF Commits, Commit, Cached
  <2>3. Good(c)
    BY <1>0, <2>1, CommitFields
  <2>4. ASSUME NEW d \in Reqs \ {c} PROVE Good(d)
    <3>1. /\ req'[d].step = req[d].step /\ req'[d].by = req[d].by
          /\ req'[d].view = req[d].view /\ req'[d].live = req[d].live
      BY <2>1, OthersCommit
    <3> QED BY <2>2, <3>1 DEF ObjectIsSupers
  <2> QED BY <2>3, <2>4, ObjectKept
<1>2. ASSUME NEW c \in Reqs, Reading(c) PROVE ObjectIsSupers'
  <2>1. UNCHANGED cache /\ req[c].step = "act" /\ req[c].view.name = Super
    BY <1>2, ReadingFields DEF Cached
  <2>2. PICK q \in Request :
           /\ req' = [req EXCEPT ![c] = q]
           /\ q.by = req[c].by /\ q.view = req[c].view /\ q.live = req[c].live
    BY <1>2, ReadingFields
  <2>3. req'[c] = q /\ \A d \in Reqs \ {c} : req'[d] = req[d]
    BY <2>2 DEF RowsInv, TypeOK
  <2>4. Good(c)
    BY <2>1, <2>2, <2>3 DEF ObjectIsSupers
  <2>5. \A d \in Reqs \ {c} : Good(d)
    BY <2>1, <2>3, ObjectOthers
  <2> QED BY <2>4, <2>5, ObjectKept
<1>3. ASSUME NEW c \in Reqs, Showing(c) PROVE ObjectIsSupers'
  <2>1. req[c].by \in Users
    BY <1>3, ShowingFields
  <2>2. PICK view \in RoleRow : Shows(c, view)
    BY <1>3, ShowingFields
  <2>3. PICK q \in Request :
              /\ req' = [req EXCEPT ![c] = q] /\ RequestKnows(q)
              /\ \/ q = Idle
                 \/ /\ q.step \in {"role", "reconcile"}
                    /\ q.by = req[c].by /\ q.at = req[c].at /\ q.view = req[c].view
                    /\ q.live = req[c].live
                    /\ q.step = "role" => req[c].view.name = Super
                    /\ q.step = "reconcile" => req[c].step = "update"
    BY <1>3, ShowingFields
  <2>4. req'[c] = q /\ \A d \in Reqs \ {c} : req'[d] = req[d]
    BY <2>3, RequestsKept
  <2>5. Good(c)
    BY <1>0, <2>3, <2>4 DEF ObjectIsSupers
  <2>6. ASSUME NEW d \in Reqs \ {c} PROVE Good(d)
    <3>1. req[d].live => cache'[req[d].by] = cache[req[d].by]
      <4>1. req[d].live => req[d].by \in Users /\ (req[c].live => req[d].by # req[c].by)
        BY DEF ObjectIsSupers
      <4> QED BY <2>1, <2>2, <4>1, ShowsType
    <3> QED BY <2>4, <3>1, ObjectOthers
  <2> QED BY <2>5, <2>6, ObjectKept
<1>4. ASSUME NEW c \in Reqs, Drop(c) PROVE ObjectIsSupers'
  <2>1. /\ req'[c] = Idle
        /\ cache' = [u \in Users |-> IF u \in req[c].drops THEN Empty ELSE cache[u]]
        /\ \A d \in Reqs \ {c} :
              /\ req'[d] = req[d] \/ req'[d] = [req[d] EXCEPT !.live = FALSE]
              /\ req[d].by \in req[c].drops => ~ req'[d].live
    BY <1>4, DropFields
  <2>2. Good(c)
    BY <1>0, <2>1
  <2>3. ASSUME NEW d \in Reqs \ {c} PROVE Good(d)
    <3>1. req'[d].live => req[d].live
      BY <1>0, <2>1, UnliveFields
    <3>2. req'[d].live => cache'[req[d].by] = cache[req[d].by]
      BY <2>1, <3>1 DEF ObjectIsSupers
    <3> QED BY <2>1, <3>2, ObjectOthers
  <2> QED BY <2>2, <2>3, ObjectKept
<1>5. ASSUME NEW c \in Reqs, EditEvent(c) PROVE ObjectIsSupers'
  <2>1. UNCHANGED cache /\ req'[c] = Idle /\ \A d \in Reqs \ {c} : req'[d] = req[d]
    BY <1>5 DEF EditEvent, Finish, Cached, RowsInv, TypeOK
  <2>2. Good(c)
    BY <1>0, <2>1
  <2> QED BY <2>1, <2>2, ObjectOthers, ObjectKept
<1>6. ASSUME NEW c \in Reqs, NEW u \in Users, Arrive(c, u) PROVE ObjectIsSupers'
  <2>1. UNCHANGED cache
    BY <1>6, ArriveFields DEF Cached
  <2>2. PICK q \in Request :
              /\ req' = [req EXCEPT ![c] = q] /\ ~ q.live
              /\ q.step \in {"act", "read"}
    BY <1>6, ArriveFields
  <2>3. req'[c] = q /\ \A d \in Reqs \ {c} : req'[d] = req[d]
    BY <2>2 DEF RowsInv, TypeOK
  <2>4. Good(c)
    BY <1>0, <2>2, <2>3
  <2> QED BY <2>1, <2>3, <2>4, ObjectOthers, ObjectKept
<1>7. ASSUME NEW c \in Reqs, ReadRow(c) PROVE ObjectIsSupers'
  <2>1. UNCHANGED cache
    BY <1>7, ReadRowFields DEF Cached
  <2>2. PICK q \in Request :
              /\ req' = [req EXCEPT ![c] = q]
              /\ \/ q = Idle
                 \/ q.step = "store" /\ q.by = req[c].by /\ q.live = req[c].live
    BY <1>7, ReadRowFields
  <2>3. req'[c] = q /\ \A d \in Reqs \ {c} : req'[d] = req[d]
    BY <2>2 DEF RowsInv, TypeOK
  <2>4. Good(c)
    BY <1>0, <2>2, <2>3
  <2> QED BY <2>1, <2>3, <2>4, ObjectOthers, ObjectKept
<1>8. ASSUME NEW c \in Reqs, Store(c) PROVE ObjectIsSupers'
  <2>1. /\ req[c].by \in Users
        /\ cache'[req[c].by] = [view |-> req[c].view, until |-> req[c].at + TTL]
        /\ \A u \in Users \ {req[c].by} : cache'[u] = cache[u]
        /\ req'[c].step = "act" /\ req'[c].by = req[c].by /\ req'[c].view = req[c].view
        /\ \A d \in Reqs \ {c} :
              /\ req'[d] = req[d] \/ req'[d] = [req[d] EXCEPT !.live = FALSE]
              /\ req[d].by = req[c].by => ~ req'[d].live
    BY <1>8, StoreFields
  <2>2. ASSUME NEW d \in Reqs \ {c}
        PROVE  Good(d) /\ (req'[d].live => req[d].live /\ req'[d].by \in Users \ {req'[c].by})
    <3>1. req'[d].by = req[d].by /\ (req'[d].live => req[d].live)
      <4>1. /\ req[d] \in Request
            /\ req'[d] = req[d] \/ req'[d] = [req[d] EXCEPT !.live = FALSE]
        BY <1>0, <2>1
      <4> QED BY <4>1, UnliveFields
    <3>2. req'[d].live => req[d].by \in Users \ {req[c].by}
      BY <2>1, <3>1 DEF ObjectIsSupers
    <3>3. req'[d].live => cache'[req[d].by] = cache[req[d].by]
      BY <2>1, <3>2
    <3> QED BY <2>1, <3>1, <3>2, <3>3, ObjectOthers
  <2>3. \A d \in Reqs : req'[d].step \in Steps => req'[d].view.name = Super
    BY <1>0, <2>1, <2>2
  <2>4. \A d \in Reqs : req'[d].live => /\ req'[d].by \in Users
                                        /\ req'[d].step \in {"act", "update"}
                                             => cache'[req'[d].by].view = req'[d].view
    BY <2>1, <2>2
  <2>5. \A d, e \in Reqs : req'[d].live /\ req'[e].live /\ req'[d].by = req'[e].by => d = e
    BY <2>2 DEF ObjectIsSupers
  <2> QED BY <2>3, <2>4, <2>5 DEF ObjectIsSupers
<1>9. ASSUME Tick \/ UNCHANGED vars \/ \E u \in Users : Logout(u) \/ Login(u)
      PROVE  ObjectIsSupers'
  <2>1. UNCHANGED <<cache, req>>
    BY <1>9 DEF Tick, vars, Logout, Login, Cached
  <2> QED BY <2>1, ObjectKept DEF ObjectIsSupers
<1>10. CASE Restart
  <2>1. \A d \in Reqs : req'[d] = Idle
    BY <1>10 DEF Restart
  <2> QED BY <1>0, <2>1, ObjectKept
<1> QED BY <1>1, <1>2, <1>3, <1>4, <1>5, <1>6, <1>7, <1>8, <1>9, <1>10, NextCases

\* A commit dates every power it takes away.
LEMMA CommitDates ==
  ASSUME NEW c \in Reqs, NEW a, NEW r, NEW s, NEW us, Commits(c, a, r, s, us),
         NEW u \in Users, NEW p \in Powers
  PROVE  \/ lost'[u][p] = now
         \/ lost'[u][p] = lost[u][p] /\ (Allows(View(u), p) => Allows(View(u)', p))
<1>1. View(u)' = ViewIn(a, r, u)
  BY DEF Commits, Commit, View
<1>2. lost'[u][p] = IF Allows(View(u), p) /\ ~ Allows(ViewIn(a, r, u), p) THEN now ELSE lost[u][p]
  BY DEF Commits, Commit
<1> QED BY <1>1, <1>2

\* Numbers and lifetimes.
LEMMA Dates ==
  ASSUME RowsInv
  PROVE  /\ now \in Nat /\ TTL \in Nat \ {0}
         /\ \A c \in Reqs : req[c].at \in Nat
         /\ \A u \in Users : cache[u].until \in Nat /\ \A p \in Powers : lost[u][p] \in Nat
<1>1. now \in Nat /\ TTL \in Nat \ {0}
  BY AdminAssumption DEF RowsInv, TypeOK
<1>2. \A c \in Reqs : req[c] \in Request
  BY DEF RowsInv, TypeOK
<1>3. \A u \in Users : cache[u].until \in Nat /\ \A p \in Powers : lost[u][p] \in Nat
  BY DEF RowsInv, TypeOK
<1> QED BY <1>1, <1>2, <1>3, RequestFields

LEMMA AuthorityInit == Init => AuthorityInv
<1> SUFFICES ASSUME Init PROVE AuthorityInv
  OBVIOUS
<1>1. RowsInv /\ now = TTL
  BY RowsInit DEF Init
<1>2. \A c \in Reqs : req[c].step = "idle" /\ req[c].at = 0 /\ ~ req[c].live
  BY DEF Init, Idle
<1>3. \A u \in Users : cache[u].until = 0
  BY DEF Init, Empty
<1>4. /\ now \in Nat /\ TTL \in Nat \ {0}
      /\ \A u \in Users, p \in Powers : lost[u][p] \in Nat
  BY <1>1, Dates
<1>5. DatesOK
  BY <1>1, <1>2, <1>3, <1>4 DEF DatesOK
<1>6. CacheIsRecent
  BY <1>3, <1>4 DEF CacheIsRecent
<1>7. ObjectIsSupers
  BY <1>2 DEF ObjectIsSupers, Steps
<1> QED BY <1>1, <1>2, <1>5, <1>6, <1>7 DEF AuthorityInv, ReadIsRecent, AuthorityIsRecent

LEMMA AuthorityCommit ==
  ASSUME AuthorityInv, RowsInv', ObjectIsSupers', NEW c \in Reqs, Mutation(c)
  PROVE  AuthorityInv'
<1>1. RowsInv
  BY DEF AuthorityInv
<1>2. PICK a, r, s, us : Commits(c, a, r, s, us)
  BY <1>1, MutationCommits
<1>3. UNCHANGED <<cache, now>>
  BY <1>2 DEF Commits, Commit, Cached
<1>4. /\ now \in Nat /\ TTL \in Nat \ {0}
      /\ \A d \in Reqs : req[d].at \in Nat /\ req[d].at <= now
      /\ \A u \in Users : cache[u].until \in Nat /\ cache[u].until <= now + TTL
      /\ \A u \in Users, p \in Powers : lost[u][p] \in Nat
  BY <1>1, Dates DEF AuthorityInv, DatesOK
<1>5. \A d \in Reqs : /\ req'[d].at = req[d].at /\ req'[d].by = req[d].by
                      /\ d # c => req'[d].step = req[d].step /\ req'[d].view = req[d].view
  BY <1>1, <1>2, CommitFields, OthersCommit
<1>6. req'[c].step = "drop"
  BY <1>1, <1>2, CommitFields
<1>7. \A u \in Users, p \in Powers :
        \/ lost'[u][p] = now
        \/ lost'[u][p] = lost[u][p] /\ (Allows(View(u), p) => Allows(View(u)', p))
  BY <1>2, CommitDates
<1>8. DatesOK'
  BY <1>3, <1>4, <1>5 DEF DatesOK
<1>9. CacheIsRecent'
  <2> SUFFICES ASSUME NEW u \in Users, NEW p \in Powers, Allows(cache[u].view, p)
               PROVE  Allows(View(u)', p) \/ cache[u].until <= lost'[u][p] + TTL
    BY <1>3 DEF CacheIsRecent, Allows
  <2>1. Allows(View(u), p) \/ cache[u].until <= lost[u][p] + TTL
    BY DEF AuthorityInv, CacheIsRecent
  <2> QED BY <1>4, <1>7, <2>1
<1>10. \A d \in Reqs : req[d].step \in {"store", "act"} => req[d].by \in Users
  BY <1>1 DEF RowsInv, RequestKnows
<1>11. ReadIsRecent'
  <2> SUFFICES ASSUME NEW d \in Reqs, NEW p \in Powers, req'[d].step = "store",
                      Allows(req'[d].view, p)
               PROVE  Allows(ViewIn(admin', role', req'[d].by), p) \/ req'[d].at <= lost'[req'[d].by][p]
    BY DEF ReadIsRecent, Allows, View
  <2>1. d # c
    BY <1>6
  <2>2. req[d].by \in Users /\ req'[d].by = req[d].by /\ req'[d].at = req[d].at
    BY <1>5, <1>10, <2>1
  <2>3. Allows(View(req[d].by), p) \/ req[d].at <= lost[req[d].by][p]
    BY <1>5, <2>1 DEF AuthorityInv, ReadIsRecent
  <2>4. \A u \in Users : View(u)' = ViewIn(admin', role', u)
    BY DEF View
  <2> QED BY <1>4, <1>7, <2>2, <2>3, <2>4
<1>12. AuthorityIsRecent'
  <2> SUFFICES ASSUME NEW d \in Reqs, NEW p \in Powers, req'[d].step = "act",
                      Allows(req'[d].view, p)
               PROVE  Allows(ViewIn(admin', role', req'[d].by), p) \/ req'[d].at < lost'[req'[d].by][p] + TTL
    BY DEF AuthorityIsRecent, Allows, View
  <2>1. d # c
    BY <1>6
  <2>2. req[d].by \in Users /\ req'[d].by = req[d].by /\ req'[d].at = req[d].at
    BY <1>5, <1>10, <2>1
  <2>3. Allows(View(req[d].by), p) \/ req[d].at < lost[req[d].by][p] + TTL
    BY <1>5, <2>1 DEF AuthorityInv, AuthorityIsRecent
  <2>4. \A u \in Users : View(u)' = ViewIn(admin', role', u)
    BY DEF View
  <2> QED BY <1>4, <1>7, <2>2, <2>3, <2>4
<1> QED BY <1>8, <1>9, <1>11, <1>12 DEF AuthorityInv

\* What the invariant says of one entry of the cache and of one request.
GoodEntry(e, u) ==
  /\ e.until <= now + TTL
  /\ \A p \in Powers : Allows(e.view, p) => Allows(View(u), p) \/ e.until <= lost[u][p] + TTL

GoodRequest(q) ==
  /\ q.at <= now
  /\ \A p \in Powers :
       Allows(q.view, p) =>
         /\ q.step = "store" => Allows(View(q.by), p) \/ q.at <= lost[q.by][p]
         /\ q.step = "act" => Allows(View(q.by), p) \/ q.at < lost[q.by][p] + TTL

LEMMA AuthorityParts ==
  AuthorityInv <=> /\ RowsInv /\ ObjectIsSupers
                   /\ \A u \in Users : GoodEntry(cache[u], u)
                   /\ \A c \in Reqs : GoodRequest(req[c])
BY DEF AuthorityInv, DatesOK, CacheIsRecent, ReadIsRecent, AuthorityIsRecent, GoodEntry, GoodRequest

\* A step that commits nothing keeps the invariant when what it caches and
\* what it lets a request know is good.
LEMMA AuthorityKept ==
  ASSUME AuthorityInv, RowsInv', ObjectIsSupers', UNCHANGED <<Rows, lost>>, now' \in {now, now + 1},
         \A u \in Users : cache'[u] = cache[u] \/ GoodEntry(cache'[u], u),
         \A c \in Reqs : req'[c] = req[c] \/ GoodRequest(req'[c])
  PROVE  AuthorityInv'
<1>1. RowsInv /\ now \in Nat /\ now' \in Nat /\ now <= now' /\ TTL \in Nat
  BY Dates DEF AuthorityInv
<1>2. /\ \A c \in Reqs : req'[c].at \in Nat
      /\ \A u \in Users : cache'[u].until \in Nat
  <2>1. req' \in [Reqs -> Request] /\ cache' \in [Users -> [view : RoleRow, until : Nat]]
    BY DEF RowsInv, TypeOK
  <2>2. \A c \in Reqs : req'[c] \in Request
    BY <2>1
  <2> QED BY <2>1, <2>2, RequestFields
<1>3. \A u : View(u)' = View(u)
  BY DEF View, Rows
<1>4. ASSUME NEW u \in Users PROVE GoodEntry(cache[u], u)'
  <2>1. GoodEntry(cache'[u], u)
    BY AuthorityParts
  <2> QED BY <1>1, <1>2, <1>3, <2>1 DEF GoodEntry, Allows
<1>5. ASSUME NEW c \in Reqs PROVE GoodRequest(req[c])'
  <2>1. GoodRequest(req'[c])
    BY AuthorityParts
  <2>2. ViewIn(admin', role', req'[c].by) = ViewIn(admin, role, req'[c].by)
    BY DEF Rows
  <2> QED BY <1>1, <1>2, <2>1, <2>2 DEF GoodRequest, Allows, View
<1> QED BY <1>4, <1>5 DEF AuthorityInv, DatesOK, CacheIsRecent, ReadIsRecent, AuthorityIsRecent,
                          GoodEntry, GoodRequest

\* Requests that neither store nor act claim nothing.
LEMMA GoodOthers ==
  ASSUME RowsInv, NEW q \in Request, q.at <= now, q.step \notin {"store", "act"}
  PROVE  GoodRequest(q)
BY DEF GoodRequest

\* An entry whose view is emptied, or was a SUPER ADMIN's and is changed.
LEMMA GoodChange ==
  ASSUME NEW e, NEW f, NEW u, GoodEntry(e, u), f.until = e.until,
         f.view \in {e.view, Nothing} \/ e.view.name = Super
  PROVE  GoodEntry(f, u)
<1>1. \A p \in Powers : ~ Allows(Nothing, p)
  BY AdminAssumption DEF Allows, Nothing
<1>2. \A p \in Powers : Allows(f.view, p) => Allows(e.view, p)
  BY <1>1 DEF Allows
<1> QED BY <1>2 DEF GoodEntry

LEMMA AuthorityStep == AuthorityInv /\ RowsInv' /\ [Next]_vars => AuthorityInv'
<1> SUFFICES ASSUME AuthorityInv, RowsInv', [Next]_vars PROVE AuthorityInv'
  OBVIOUS
<1> USE DEF Notes
<1>0. /\ RowsInv /\ now \in Nat /\ TTL \in Nat \ {0} /\ ObjectIsSupers'
      /\ \A c \in Reqs : /\ req[c] \in Request /\ req'[c] \in Request
                         /\ req[c].at \in Nat /\ req[c].at <= now /\ GoodRequest(req[c])
      /\ \A u \in Users : cache[u] \in [view : RoleRow, until : Nat] /\ GoodEntry(cache[u], u)
      /\ \A u \in Users, p \in Powers : lost[u][p] \in Nat
      /\ DOMAIN req = Reqs /\ DOMAIN cache = Users
  BY Dates, AuthorityParts, ObjectStep DEF AuthorityInv, RowsInv, TypeOK, DatesOK
<1>20. Idle \in Request /\ Idle.at = 0 /\ Idle.step = "idle" /\ GoodRequest(Idle)
  BY <1>0, IdleType, GoodOthers DEF Idle
<1>1. ASSUME NEW c \in Reqs, Mutation(c) PROVE AuthorityInv'
  BY <1>0, <1>1, AuthorityCommit
<1>2. ASSUME NEW c \in Reqs, Reading(c) PROVE AuthorityInv'
  <2>1. UNCHANGED <<Rows, cache, now, lost>>
    BY <1>2, <1>0, ReadingFields DEF Cached
  <2>2. PICK q \in Request : /\ req' = [req EXCEPT ![c] = q] /\ q.step \in Steps
                             /\ q.at = req[c].at
    BY <1>2, <1>0, ReadingFields
  <2>3. GoodRequest(q)
    BY <1>0, <2>2, GoodOthers DEF Steps
  <2>4. \A d \in Reqs : req'[d] = req[d] \/ GoodRequest(req'[d])
    BY <1>0, <2>2, <2>3
  <2> QED BY <1>0, <2>1, <2>4, AuthorityKept
<1>3. ASSUME NEW c \in Reqs, Showing(c) PROVE AuthorityInv'
  <2>1. UNCHANGED <<Rows, now, lost>> /\ req[c].by \in Users
    BY <1>0, <1>3, ShowingFields
  <2>2. PICK view \in RoleRow :
              /\ Shows(c, view)
              /\ \/ view \in {cache[req[c].by].view, Nothing}
                 \/ req[c].step = "act" /\ req[c].view.name = Super
                 \/ req[c].step = "update"
    BY <1>0, <1>3, ShowingFields
  <2>3. PICK q \in Request :
              /\ req' = [req EXCEPT ![c] = q]
              /\ q = Idle \/ (q.step \in {"role", "reconcile"} /\ q.at = req[c].at)
    BY <1>0, <1>3, ShowingFields
  <2>4. GoodRequest(q)
    BY <1>0, <1>20, <2>3, GoodOthers
  <2>5. \A d \in Reqs : req'[d] = req[d] \/ GoodRequest(req'[d])
    BY <1>0, <2>3, <2>4
  <2>6. ASSUME NEW u \in Users PROVE cache'[u] = cache[u] \/ GoodEntry(cache'[u], u)
    <3>1. SUFFICES ASSUME /\ req[c].live /\ u = req[c].by
                          /\ cache'[u].view = view /\ cache'[u].until = cache[u].until
                   PROVE  GoodEntry(cache'[u], u)
      BY <1>0, <2>1, <2>2, ShowsType
    <3>2. view \in {cache[u].view, Nothing} \/ cache[u].view.name = Super
      BY <2>2, <3>1 DEF AuthorityInv, ObjectIsSupers, Steps
    <3> QED BY <1>0, <3>1, <3>2, GoodChange
  <2> QED BY <1>0, <2>1, <2>5, <2>6, AuthorityKept
<1>4. ASSUME NEW c \in Reqs, Drop(c) PROVE AuthorityInv'
  <2>1. /\ UNCHANGED <<Rows, now, lost>> /\ req'[c] = Idle
        /\ cache' = [u \in Users |-> IF u \in req[c].drops THEN Empty ELSE cache[u]]
        /\ \A d \in Reqs \ {c} : req'[d] = req[d] \/ req'[d] = [req[d] EXCEPT !.live = FALSE]
    BY <1>0, <1>4, DropFields
  <2>2. \A u \in Users : GoodEntry(Empty, u)
    BY <1>0 DEF GoodEntry, Empty
  <2>3. ASSUME NEW d \in Reqs PROVE GoodRequest(req'[d])
    <3>1. CASE d = c
      BY <1>20, <2>1, <3>1
    <3>2. CASE d # c
      <4>1. /\ req[d] \in Request /\ GoodRequest(req[d])
            /\ req'[d] = req[d] \/ req'[d] = [req[d] EXCEPT !.live = FALSE]
        BY <1>0, <2>1, <3>2
      <4>2. /\ req'[d].step = req[d].step /\ req'[d].by = req[d].by /\ req'[d].at = req[d].at
            /\ req'[d].view = req[d].view
        BY <4>1, UnliveFields
      <4> QED BY <4>1, <4>2 DEF GoodRequest
    <3> QED BY <3>1, <3>2
  <2> QED BY <1>0, <2>1, <2>2, <2>3, AuthorityKept
<1>5. ASSUME NEW c \in Reqs, EditEvent(c) PROVE AuthorityInv'
  <2>1. UNCHANGED <<Rows, cache, now, lost>> /\ req' = [req EXCEPT ![c] = Idle]
    BY <1>5 DEF EditEvent, Finish, Cached
  <2> QED BY <1>0, <1>20, <2>1, AuthorityKept
<1>6. ASSUME NEW c \in Reqs, NEW u \in Users, Arrive(c, u) PROVE AuthorityInv'
  <2>1. UNCHANGED <<Rows, cache, now, lost>>
    BY <1>0, <1>6, ArriveFields DEF Cached
  <2>2. PICK q \in Request :
              /\ req' = [req EXCEPT ![c] = q] /\ q.by = u /\ q.at = now
              /\ \/ now < cache[u].until /\ q.step = "act" /\ q.view = cache[u].view
                 \/ q.step = "read"
    BY <1>0, <1>6, ArriveFields
  <2>3. GoodRequest(q)
    <3>1. CASE now < cache[u].until /\ q.step = "act" /\ q.view = cache[u].view
      BY <1>0, <2>2, <3>1 DEF GoodEntry, GoodRequest
    <3>2. CASE q.step = "read"
      BY <1>0, <2>2, <3>2, GoodOthers
    <3> QED BY <2>2, <3>1, <3>2
  <2>4. \A d \in Reqs : req'[d] = req[d] \/ GoodRequest(req'[d])
    BY <1>0, <2>2, <2>3
  <2> QED BY <1>0, <2>1, <2>4, AuthorityKept
<1>7. ASSUME NEW c \in Reqs, ReadRow(c) PROVE AuthorityInv'
  <2>1. UNCHANGED <<Rows, cache, now, lost>>
    BY <1>0, <1>7, ReadRowFields DEF Cached
  <2>2. PICK q \in Request :
              /\ req' = [req EXCEPT ![c] = q]
              /\ \/ q = Idle
                 \/ q.step = "store" /\ q.at = req[c].at /\ q.view = View(q.by)
    BY <1>0, <1>7, ReadRowFields
  <2>3. GoodRequest(q)
    BY <1>0, <1>20, <2>2 DEF GoodRequest
  <2>4. \A d \in Reqs : req'[d] = req[d] \/ GoodRequest(req'[d])
    BY <1>0, <2>2, <2>3
  <2> QED BY <1>0, <2>1, <2>4, AuthorityKept
<1>8. ASSUME NEW c \in Reqs, Store(c) PROVE AuthorityInv'
  <2>0. RowsInv
    BY <1>0
  <2>1. /\ req[c].step = "store" /\ req[c].by \in Users /\ UNCHANGED <<Rows, now, lost>>
        /\ cache'[req[c].by] = [view |-> req[c].view, until |-> req[c].at + TTL]
        /\ \A u \in Users \ {req[c].by} : cache'[u] = cache[u]
        /\ req'[c].step = "act" /\ req'[c].by = req[c].by /\ req'[c].view = req[c].view
        /\ req'[c].at = req[c].at
        /\ \A d \in Reqs \ {c} : req'[d] = req[d] \/ req'[d] = [req[d] EXCEPT !.live = FALSE]
    BY <1>8, <2>0, StoreFields
  <2>2. GoodEntry(cache'[req[c].by], req[c].by)
    BY <1>0, <2>1 DEF GoodEntry, GoodRequest
  <2>3. ASSUME NEW d \in Reqs PROVE GoodRequest(req'[d])
    <3>1. CASE d = c
      BY <1>0, <2>1, <3>1 DEF GoodRequest
    <3>2. CASE d # c
      <4>1. /\ req[d] \in Request /\ GoodRequest(req[d])
            /\ req'[d] = req[d] \/ req'[d] = [req[d] EXCEPT !.live = FALSE]
        BY <1>0, <2>1, <3>2
      <4>2. /\ req'[d].step = req[d].step /\ req'[d].by = req[d].by /\ req'[d].at = req[d].at
            /\ req'[d].view = req[d].view
        BY <4>1, UnliveFields
      <4> QED BY <4>1, <4>2 DEF GoodRequest
    <3> QED BY <3>1, <3>2
  <2> QED BY <1>0, <2>1, <2>2, <2>3, AuthorityKept
<1>9. ASSUME NEW u \in Users, Logout(u) \/ Login(u) PROVE AuthorityInv'
  BY <1>0, <1>9, AuthorityKept DEF Logout, Login, Cached
<1>10. CASE Tick
  BY <1>0, <1>10, AuthorityKept DEF Tick, Cached
<1>11. CASE Restart
  <2>1. \A u \in Users : GoodEntry(Empty, u)
    BY <1>0 DEF GoodEntry, Empty
  <2>2. /\ \A c \in Reqs : req'[c] = Idle
        /\ \A u \in Users : cache'[u] = Empty
        /\ UNCHANGED <<Rows, now, lost>>
    BY <1>11 DEF Restart
  <2> QED BY <1>0, <1>20, <2>1, <2>2, AuthorityKept
<1>12. CASE UNCHANGED vars
  BY <1>0, <1>12, AuthorityKept DEF vars, Rows
<1> QED BY <1>1, <1>2, <1>3, <1>4, <1>5, <1>6, <1>7, <1>8, <1>9, <1>10, <1>11, <1>12, NextCases

\* What a cached row or a request claims wrongly was lost after the read it
\* comes from.
THEOREM AuthorityInvariant == Spec => []AuthorityInv
BY AuthorityInit, AuthorityStep, RowsInvariant, PTL DEF Spec

\* Whoever acts with a power has it, or lost it less than the cache's lifetime
\* before the request arrived.
THEOREM RecentAuthority == Spec => []AuthorityIsRecent
<1>1. AuthorityInv => AuthorityIsRecent
  BY DEF AuthorityInv
<1> QED BY <1>1, AuthorityInvariant, PTL

-----------------------------------------------------------------------------
(* Every change of an administrator reaches the cache.                     *)

CacheHolds == EntryIsSomeone /\ ChangesReachCache

\* The drops that are still to come.
Dropping(d, u) == req[d].step = "drop" /\ u \in req[d].drops

\* A step that leaves the rows alone.
LEMMA CacheKept ==
  ASSUME CacheHolds, UNCHANGED Rows,
         \A u \in Users :
           \/ cache'[u] = Empty
           \/ u \in touched'
           \/ cache'[u].view # Nothing /\ (cache'[u].view = View(u) \/ u \in raced')
           \/ /\ cache'[u] = cache[u] /\ (u \in raced => u \in raced')
              /\ \A d \in Reqs : Dropping(d, u) => Dropping(d, u)'
              /\ u \in touched => u \in touched',
         \A d \in Reqs : req'[d].step = "store" => req'[d].view # Nothing
  PROVE  CacheHolds'
<1>1. \A u \in Users : View(u)' = View(u)
  BY DEF View, Rows
<1>2. ASSUME NEW u \in Users, cache'[u] # Empty
      PROVE  /\ cache'[u].view # Nothing \/ u \in touched'
             /\ \/ cache'[u].view = View(u)' \/ u \in raced' \cup touched'
                \/ \E d \in Reqs : Dropping(d, u)'
  <2>1. CASE u \in touched'
    BY <2>1
  <2>2. CASE cache'[u].view # Nothing /\ (cache'[u].view = View(u) \/ u \in raced')
    BY <1>1, <2>2
  <2>3. CASE /\ cache'[u] = cache[u] /\ (u \in raced => u \in raced')
             /\ \A d \in Reqs : Dropping(d, u) => Dropping(d, u)'
             /\ u \in touched => u \in touched'
    <3>1. /\ cache[u].view # Nothing \/ u \in touched
          /\ \/ cache[u].view = View(u) \/ u \in raced \cup touched
             \/ \E d \in Reqs : Dropping(d, u)
      BY <1>2, <2>3 DEF CacheHolds, EntryIsSomeone, ChangesReachCache, Dropping
    <3> QED BY <1>1, <2>3, <3>1
  <2> QED BY <1>2, <2>1, <2>2, <2>3
<1>3. EntryIsSomeone'
  BY <1>2 DEF EntryIsSomeone
<1>4. ChangesReachCache'
  BY <1>2 DEF ChangesReachCache, Dropping
<1> QED BY <1>3, <1>4 DEF CacheHolds

\* A commit: whose view it changes is dropped afterwards, or is not cached.
LEMMA CacheCommit ==
  ASSUME RowsInv, CacheHolds, NEW c \in Reqs, NEW a, NEW r, NEW s, NEW us, Commits(c, a, r, s, us)
  PROVE  CacheHolds'
<1>1. /\ UNCHANGED <<cache, raced, touched>> /\ \A u \in Users : View(u)' = ViewIn(a, r, u)
      /\ \A u \in Users \ us : ViewIn(a, r, u) = View(u) \/ View(u) = Nothing
  BY DEF Commits, Commit, Cached, View
<1>2. /\ req'[c].step = "drop" /\ req'[c].drops = us /\ req[c].step # "drop"
  BY CommitFields DEF Steps
<1>3. \A d \in Reqs \ {c} : /\ req'[d].step = req[d].step /\ req'[d].drops = req[d].drops
                            /\ req'[d].view = req[d].view
  BY OthersCommit
<1>4. EntryIsSomeone'
  BY <1>1, <1>2, <1>3 DEF CacheHolds, EntryIsSomeone
<1>5. ASSUME NEW u \in Users, cache'[u] # Empty, cache'[u].view # View(u)'
      PROVE  \/ u \in (raced \cup touched)'
             \/ \E d \in Reqs : req'[d].step = "drop" /\ u \in req'[d].drops
  <2>1. CASE u \in us
    BY <1>2, <2>1
  <2>2. CASE u \notin us
    <3>1. cache[u].view # View(u) \/ u \in touched
      BY <1>1, <1>5, <2>2 DEF CacheHolds, EntryIsSomeone
    <3>2. u \in raced \cup touched \/ \E d \in Reqs : req[d].step = "drop" /\ u \in req[d].drops
      BY <1>1, <1>5, <3>1 DEF CacheHolds, ChangesReachCache
    <3> QED BY <1>1, <1>2, <1>3, <3>2
  <2> QED BY <2>1, <2>2
<1> QED BY <1>4, <1>5 DEF CacheHolds, ChangesReachCache

LEMMA CacheStep == RowsInv /\ CacheHolds /\ [Next]_vars => CacheHolds'
<1> SUFFICES ASSUME RowsInv, CacheHolds, [Next]_vars PROVE CacheHolds'
  OBVIOUS
<1> USE DEF Notes
<1>0. /\ \A c \in Reqs : req[c] \in Request /\ RequestKnows(req[c])
      /\ DOMAIN req = Reqs /\ DOMAIN cache = Users
      /\ \A c \in Reqs : req[c].step = "store" => req[c].view # Nothing
      /\ Idle.step = "idle"
      /\ "drop" \notin Steps \cup {"act"} /\ "store" \notin Steps \cup {"act"}
  BY DEF RowsInv, TypeOK, CacheHolds, EntryIsSomeone, Idle, Steps
\* One request goes on, and nothing is stored or dropped.
<1>20. ASSUME NEW c \in Reqs, NEW q, req' = [req EXCEPT ![c] = q], req[c].step # "drop",
              q.step = "store" => q.view # Nothing
       PROVE  /\ \A d \in Reqs : req'[d].step = "store" => req'[d].view # Nothing
              /\ \A d \in Reqs, u \in Users : Dropping(d, u) => Dropping(d, u)'
  BY <1>0, <1>20 DEF Dropping
<1>1. ASSUME NEW c \in Reqs, Mutation(c) PROVE CacheHolds'
  BY <1>1, MutationCommits, CacheCommit
<1>2. ASSUME NEW c \in Reqs, Reading(c) PROVE CacheHolds'
  <2>1. UNCHANGED <<Rows, cache, raced, touched>> /\ req[c].step = "act"
    BY <1>2, ReadingFields DEF Cached
  <2>2. PICK q \in Request : req' = [req EXCEPT ![c] = q] /\ q.step \in Steps
    BY <1>2, ReadingFields
  <2> QED BY <1>0, <1>20, <2>1, <2>2, CacheKept
<1>3. ASSUME NEW c \in Reqs, Showing(c) PROVE CacheHolds'
  <2>1. UNCHANGED <<Rows, raced>> /\ req[c].by \in Users /\ req[c].step # "drop"
    BY <1>0, <1>3, ShowingFields
  <2>2. PICK view \in RoleRow : Shows(c, view)
    BY <1>3, ShowingFields
  <2>3. PICK q \in Request : req' = [req EXCEPT ![c] = q] /\ q.step # "store"
    BY <1>0, <1>3, ShowingFields
  <2>4. \A u \in Users : \/ cache'[u] = cache[u] /\ (u \in touched => u \in touched')
                         \/ u \in touched'
    BY <2>1, <2>2, ShowsType
  <2> QED BY <1>20, <2>1, <2>3, <2>4, CacheKept
<1>4. ASSUME NEW c \in Reqs, Drop(c) PROVE CacheHolds'
  <2>1. /\ UNCHANGED Rows /\ req'[c] = Idle
        /\ cache' = [u \in Users |-> IF u \in req[c].drops THEN Empty ELSE cache[u]]
        /\ raced' = raced \ req[c].drops /\ touched' = touched \ req[c].drops
        /\ \A d \in Reqs \ {c} : req'[d] = req[d] \/ req'[d] = [req[d] EXCEPT !.live = FALSE]
    BY <1>4, DropFields
  <2>2. ASSUME NEW d \in Reqs \ {c}
        PROVE  req'[d].step = req[d].step /\ req'[d].view = req[d].view /\ req'[d].drops = req[d].drops
    <3>1. req[d] \in Request /\ (req'[d] = req[d] \/ req'[d] = [req[d] EXCEPT !.live = FALSE])
      BY <1>0, <2>1
    <3> QED BY <3>1, UnliveFields
  <2>3. \A u \in Users \ req[c].drops :
          /\ cache'[u] = cache[u] /\ (u \in raced => u \in raced')
          /\ \A d \in Reqs : Dropping(d, u) => Dropping(d, u)'
          /\ u \in touched => u \in touched'
    BY <2>1, <2>2 DEF Dropping
  <2>4. \A d \in Reqs : req'[d].step = "store" => req'[d].view # Nothing
    BY <1>0, <2>1, <2>2
  <2> QED BY <2>1, <2>3, <2>4, CacheKept
<1>5. ASSUME NEW c \in Reqs, EditEvent(c) PROVE CacheHolds'
  <2>1. /\ UNCHANGED <<Rows, cache, raced, touched>> /\ req' = [req EXCEPT ![c] = Idle]
        /\ req[c].step # "drop"
    BY <1>5 DEF EditEvent, Finish, Cached, Authorised
  <2> QED BY <1>0, <1>20, <2>1, CacheKept
<1>6. ASSUME NEW c \in Reqs, NEW u \in Users, Arrive(c, u) PROVE CacheHolds'
  <2>1. UNCHANGED <<Rows, cache, raced, touched>> /\ req[c].step # "drop"
    BY <1>0, <1>6, ArriveFields DEF Cached
  <2>2. PICK q \in Request : req' = [req EXCEPT ![c] = q] /\ q.step \in {"act", "read"}
    BY <1>6, ArriveFields
  <2> QED BY <1>20, <2>1, <2>2, CacheKept
<1>7. ASSUME NEW c \in Reqs, ReadRow(c) PROVE CacheHolds'
  <2>1. UNCHANGED <<Rows, cache, raced, touched>> /\ req[c].step = "read"
    BY <1>7, ReadRowFields DEF Cached
  <2>2. PICK q \in Request :
              /\ req' = [req EXCEPT ![c] = q]
              /\ \/ q = Idle
                 \/ q.by \in Users /\ admin[q.by].active /\ q.view = View(q.by)
    BY <1>7, ReadRowFields
  <2>3. q.step = "store" => q.view # Nothing
    <3>1. SUFFICES ASSUME q.by \in Users, admin[q.by].active, q.view = View(q.by)
                   PROVE  q.view # Nothing
      BY <1>0, <2>2
    <3>2. NameOf(admin[q.by].role) # Unnamed /\ admin[q.by].role # NoRole
      BY <3>1 DEF RowsInv, ActiveHasRole
    <3> QED BY <3>1, <3>2 DEF View, ViewIn, NameOf, Nothing
  <2> QED BY <1>20, <2>1, <2>2, <2>3, CacheKept
<1>8. ASSUME NEW c \in Reqs, Store(c) PROVE CacheHolds'
  <2>1. /\ req[c].step = "store" /\ req[c].by \in Users /\ UNCHANGED Rows
        /\ cache'[req[c].by] = [view |-> req[c].view, until |-> req[c].at + TTL]
        /\ \A u \in Users \ {req[c].by} :
             cache'[u] = cache[u] /\ (u \in raced => u \in raced') /\ (u \in touched => u \in touched')
        /\ req[c].view # View(req[c].by) => req[c].by \in raced'
        /\ req'[c].step = "act"
        /\ \A d \in Reqs \ {c} : req'[d] = req[d] \/ req'[d] = [req[d] EXCEPT !.live = FALSE]
    BY <1>8, StoreFields
  <2>2. ASSUME NEW d \in Reqs \ {c}
        PROVE  req'[d].step = req[d].step /\ req'[d].view = req[d].view /\ req'[d].drops = req[d].drops
    <3>1. req[d] \in Request /\ (req'[d] = req[d] \/ req'[d] = [req[d] EXCEPT !.live = FALSE])
      BY <1>0, <2>1
    <3> QED BY <3>1, UnliveFields
  <2>3. \A u \in Users \ {req[c].by} :
          /\ cache'[u] = cache[u] /\ (u \in raced => u \in raced')
          /\ \A d \in Reqs : Dropping(d, u) => Dropping(d, u)'
          /\ u \in touched => u \in touched'
    BY <2>1, <2>2 DEF Dropping
  <2>4. \A d \in Reqs : req'[d].step = "store" => req'[d].view # Nothing
    BY <1>0, <2>1, <2>2
  <2>5. /\ cache'[req[c].by].view # Nothing
        /\ cache'[req[c].by].view = View(req[c].by) \/ req[c].by \in raced'
    BY <1>0, <2>1
  <2> QED BY <2>1, <2>3, <2>4, <2>5, CacheKept
<1>9. ASSUME Tick \/ UNCHANGED vars \/ \E u \in Users : Logout(u) \/ Login(u) PROVE CacheHolds'
  <2>1. UNCHANGED <<Rows, cache, raced, touched, req>>
    BY <1>9 DEF Tick, vars, Logout, Login, Cached, Rows
  <2>2. \A d \in Reqs, u \in Users : Dropping(d, u) => Dropping(d, u)'
    BY <2>1 DEF Dropping
  <2> QED BY <1>0, <2>1, <2>2, CacheKept
<1>10. CASE Restart
  <2>1. /\ UNCHANGED Rows /\ \A u \in Users : cache'[u] = Empty
        /\ \A d \in Reqs : req'[d] = Idle
    BY <1>10 DEF Restart
  <2> QED BY <1>0, <2>1, CacheKept
<1> QED BY <1>1, <1>2, <1>3, <1>4, <1>5, <1>6, <1>7, <1>8, <1>9, <1>10, NextCases

\* A cached row is the administrator's, or the request that changed it has yet
\* to drop it, or it was read before the change and stored after it, or its own
\* request has changed the object ahead of a commit.
THEOREM CacheIsTold == Spec => []ChangesReachCache
<1>1. Init => CacheHolds
  BY DEF Init, CacheHolds, EntryIsSomeone, ChangesReachCache, Idle
<1>2. CacheHolds => ChangesReachCache
  BY DEF CacheHolds
<1> QED BY <1>1, <1>2, CacheStep, RowsInvariant, PTL DEF Spec

-----------------------------------------------------------------------------
(* The assignments of coordinators.                                        *)

LEMMA ScopeInit == Init => ScopeFitsRole /\ \A c \in Reqs : ReadsHold(req[c])
BY DEF Init, ScopeFitsRole, ReadsHold, Idle

\* Whom a commit does not note.
LEMMA NotOvertaken ==
  ASSUME RowsInv, NEW c \in Reqs, NEW a, NEW r, NEW s, NEW us, Commits(c, a, r, s, us),
         NEW u \in Users, u \notin mixed'
  PROVE  /\ u \notin mixed
         /\ NameOf(admin[u].role) = IF admin[u].role = NoRole THEN Unnamed ELSE r[admin[u].role].name
         /\ \A d \in Reqs \ {c} : req[d].who = u =>
              /\ a[u] = admin[u] /\ EventsIn(s, u) = EventsIn(scope, u)
              /\ req[d].roleTo \in Roles => r[req[d].roleTo].name = role[req[d].roleTo].name
<1>1. mixed' = mixed \cup Overtaken(c, a, r, s)
  BY DEF Commits, Commit
<1>2. admin[u].role \in Roles \cup {NoRole}
  BY DEF RowsInv, TypeOK, AdminRow
<1> QED BY <1>1, <1>2 DEF Overtaken, NameOf

\* Assignments that stay, of an administrator whose row stays.
Fits(p) == NameOf(admin[p[1]].role)' = Coord \/ p[1] \in mixed'

LEMMA ScopeStays ==
  ASSUME RowsInv, ScopeFitsRole, NEW c \in Reqs, NEW a, NEW r, NEW s, NEW us,
         Commits(c, a, r, s, us), NEW p \in scope, a[p[1]] = admin[p[1]]
  PROVE  Fits(p)
<1>1. p[1] \in Users /\ admin' = a /\ role' = r
  BY DEF Commits, Commit, RowsInv, TypeOK
<1>2. p[1] \notin mixed' => NameOf(admin[p[1]].role) = Coord
  BY <1>1, NotOvertaken DEF ScopeFitsRole
<1>3. p[1] \notin mixed' => NameOf(admin[p[1]].role)' = NameOf(admin[p[1]].role)
  BY <1>1, NotOvertaken DEF NameOf
<1> QED BY <1>2, <1>3 DEF Fits

\* What the other requests have read holds after a commit.
LEMMA ReadsCommit ==
  ASSUME RowsInv, NEW c \in Reqs, NEW a, NEW r, NEW s, NEW us, Commits(c, a, r, s, us),
         NEW d \in Reqs, ReadsHold(req[d])
  PROVE  ReadsHold(req[d])'
<1>1. CASE d = c
  <2>1. req'[c].step = "drop"
    BY CommitFields
  <2> QED BY <1>1, <2>1 DEF ReadsHold
<1>2. CASE d # c
  <2>1. /\ req'[d].step = req[d].step
        /\ req'[d].who = req[d].who /\ req'[d].row = req[d].row
        /\ req'[d].roleTo = req[d].roleTo /\ req'[d].events = req[d].events
        /\ req'[d].was = req[d].was /\ req'[d].is = req[d].is /\ req'[d].had = req[d].had
    BY <1>2, OthersCommit
  <2> SUFFICES ASSUME req[d].step \in {"grant", "update", "reconcile", "assign"},
                      req[d].who \notin mixed'
               PROVE  ReadsHold(req[d])'
    BY <2>1 DEF ReadsHold
  <2>2. req[d] \in Request /\ RequestKnows(req[d]) /\ req[d].who \in Users
    BY DEF RowsInv, TypeOK, RequestKnows, Steps
  <2>3. req[d].roleTo \in Roles \cup {Keep} /\ req[d].row.role \in Roles \cup {NoRole}
    BY <2>2, RequestFields DEF AdminRow
  <2>4. /\ admin' = a /\ role' = r /\ scope' = s
        /\ req[d].who \notin mixed /\ a[req[d].who] = admin[req[d].who]
        /\ EventsIn(s, req[d].who) = EventsIn(scope, req[d].who)
        /\ NameOf(admin[req[d].who].role)' = NameOf(admin[req[d].who].role)
        /\ req[d].roleTo \in Roles => NameOf(req[d].roleTo)' = NameOf(req[d].roleTo)
    <3>1. admin' = a /\ role' = r /\ scope' = s
      BY DEF Commits, Commit
    <3>2. /\ req[d].who \notin mixed /\ a[req[d].who] = admin[req[d].who]
          /\ EventsIn(s, req[d].who) = EventsIn(scope, req[d].who)
          /\ NameOf(admin[req[d].who].role)
               = IF admin[req[d].who].role = NoRole THEN Unnamed ELSE r[admin[req[d].who].role].name
          /\ req[d].roleTo \in Roles => r[req[d].roleTo].name = role[req[d].roleTo].name
      BY <1>2, <2>2, NotOvertaken
    <3>3. NameOf(admin[req[d].who].role)' = NameOf(admin[req[d].who].role)
      BY <2>1, <3>1, <3>2 DEF NameOf
    <3>4. req[d].roleTo \in Roles => NameOf(req[d].roleTo)' = NameOf(req[d].roleTo)
      BY <2>1, <3>1, <3>2, AdminAssumption DEF NameOf
    <3> QED BY <3>1, <3>2, <3>3, <3>4
  <2>5. req[d].step # "grant" => admin[req[d].who] = req[d].row /\ admin'[req[d].who] = req[d].row
    BY <2>4 DEF ReadsHold
  <2>6. req[d].step # "grant" => NameOf(req[d].row.role)' = NameOf(req[d].row.role)
    <3> SUFFICES ASSUME req[d].step # "grant"
                 PROVE  NameOf(req[d].row.role)' = NameOf(req[d].row.role)
      OBVIOUS
    <3>1. NameOf(admin[req[d].who].role)' = NameOf(admin[req[d].who].role)
      BY <2>4
    <3>2. req'[d].row.role = admin'[req[d].who].role
      BY <2>1, <2>5
    <3> QED BY <2>1, <2>4, <2>5, <3>1, <3>2 DEF NameOf
  <2>7. /\ req[d].step \in {"update", "reconcile"} =>
             /\ req[d].was = NameOf(req[d].row.role)'
             /\ req[d].is = NameOf(IF req[d].roleTo = Keep THEN req[d].row.role
                                                           ELSE req[d].roleTo)'
    <3> SUFFICES ASSUME req[d].step \in {"update", "reconcile"}
                 PROVE  /\ req[d].was = NameOf(req[d].row.role)'
                        /\ req[d].is = NameOf(IF req[d].roleTo = Keep THEN req[d].row.role
                                                           ELSE req[d].roleTo)'
      OBVIOUS
    <3>1. /\ req[d].was = NameOf(req[d].row.role)
          /\ req[d].is = NameOf(IF req[d].roleTo = Keep THEN req[d].row.role ELSE req[d].roleTo)
      BY <2>4 DEF ReadsHold
    <3>2. CASE req[d].roleTo = Keep
      BY <2>1, <2>6, <3>1, <3>2
    <3>3. CASE req[d].roleTo # Keep
      BY <2>1, <2>3, <2>4, <2>6, <3>1, <3>3
    <3> QED BY <3>2, <3>3
  <2>8. /\ req[d].step = "assign" => NameOf(req[d].row.role)' = Coord
        /\ req[d].step = "grant" /\ req[d].events # {} => NameOf(req[d].roleTo)' = Coord
    <3>1. req[d].step = "grant" => req[d].roleTo \in Roles
      BY <2>2 DEF RequestKnows
    <3> QED BY <2>4, <2>6, <3>1 DEF ReadsHold
  <2>9. req[d].step = "reconcile" =>
          /\ req[d].had = EventsIn(scope', req[d].who)
          /\ req[d].events \notin {Keep, {}} => req[d].is = Coord
          /\ req[d].was = Coord /\ req[d].is # Coord => req[d].events = {}
    BY <2>4 DEF ReadsHold
  <2> QED BY <2>1, <2>5, <2>7, <2>8, <2>9 DEF ReadsHold
<1> QED BY <1>1, <1>2

\* The assignments after each kind of commit.
LEMMA ScopeMutation ==
  ASSUME ScopeInv, NEW c \in Reqs, Mutation(c)
  PROVE  ScopeFitsRole'
<1> SUFFICES ASSUME NEW p \in scope' PROVE Fits(p)
  BY DEF ScopeFitsRole, Fits
<1>0. /\ RowsInv /\ ScopeFitsRole /\ \A d \in Reqs : ReadsHold(req[d])
      /\ req[c] \in Request /\ RequestKnows(req[c]) /\ admin \in [Users -> AdminRow]
      /\ scope \subseteq Users \X Events
  BY DEF ScopeInv, RowsInv, TypeOK
<1>1. PICK a, r, s, us : Commits(c, a, r, s, us)
  BY <1>0, MutationCommits
<1>2. admin' = a /\ role' = r /\ scope' = s /\ s \subseteq Users \X Events
  BY <1>1 DEF Commits, Commit
<1>3. p \in scope /\ admin'[p[1]] = admin[p[1]] => Fits(p)
  BY <1>0, <1>1, <1>2, ScopeStays
<1>4. \A u \in mixed : u \in mixed'
  BY <1>1 DEF Commits, Commit
<1>5. /\ p[1] \in Users /\ p[2] \in Events /\ p = <<p[1], p[2]>>
  BY <1>2
<1>6. \A u \in Users, es \in SUBSET Events :
        p \in ScopeOf(u, es) => \/ p \in scope /\ p[1] # u
                                \/ p[1] = u /\ p[2] \in es
  BY <1>5 DEF ScopeOf
<1>7. \A u \in Users : \A row : admin' = [admin EXCEPT ![u] = row]
        => admin'[u] = row /\ \A v \in Users \ {u} : admin'[v] = admin[v]
  BY <1>0
<1>10. ASSUME Grant(c)
       PROVE  Fits(p)
  <2> DEFINE u == req[c].who
             row == [role |-> req[c].roleTo, active |-> TRUE]
  <2>1. /\ req[c].step = "grant" /\ u \in Users /\ req[c].events \in SUBSET Events
        /\ req[c].roleTo \in Roles
    BY <1>0, <1>10 DEF Grant, RequestKnows, Steps
  <2>2. /\ admin' = [admin EXCEPT ![u] = row] /\ role' = role
        /\ p \in ScopeOf(u, req[c].events)
    BY <1>10 DEF Grant, Commit
  <2>3. CASE p[1] # u
    BY <1>3, <1>5, <1>6, <1>7, <2>1, <2>2, <2>3
  <2>4. CASE p[1] = u
    <3>1. u \in mixed \/ NameOf(req[c].roleTo) = Coord
      BY <1>0, <1>6, <2>1, <2>2, <2>4 DEF ReadsHold
    <3>2. admin'[p[1]].role = req[c].roleTo
      <4>1. admin'[u] = row
        BY <1>7, <2>1, <2>2
      <4> QED BY <2>4, <4>1
    <3>3. NameOf(admin[p[1]].role)' = NameOf(req[c].roleTo)
      BY <2>2, <3>2 DEF NameOf
    <3> QED BY <1>4, <2>4, <3>1, <3>3 DEF Fits
  <2> QED BY <2>3, <2>4
<1>11. ASSUME Update(c)
       PROVE  Fits(p)
  <2> DEFINE q == req[c]
             new == Written(q)
             to == IF q.roleTo = Keep THEN q.row.role ELSE q.roleTo
  <2>1. /\ q.step = "reconcile" /\ q.who \in Users /\ role' = role
        /\ admin' = [admin EXCEPT ![q.who] = new] /\ p \in ScopeAfter(q)
    BY <1>0, <1>11 DEF Update, Commit, RequestKnows, Steps
  <2>2. q.events \in (SUBSET Events) \cup {Keep} /\ q.had \in SUBSET Events
    BY <1>0, RequestFields
  <2>3. p \notin scope => q.events # Keep /\ p[1] = q.who /\ p[2] \in q.events
    BY <1>5, <2>1 DEF ScopeAfter, Adds
  <2>4. CASE p[1] # q.who
    BY <1>3, <1>5, <1>7, <2>1, <2>3, <2>4
  <2>5. CASE p[1] = q.who /\ q.who \in mixed
    BY <1>4, <2>5 DEF Fits
  <2>6. CASE p[1] = q.who /\ q.who \notin mixed
    <3>1. /\ admin[q.who] = q.row /\ q.was = NameOf(q.row.role) /\ q.is = NameOf(to)
          /\ q.had = EventsIn(scope, q.who)
          /\ q.events \notin {Keep, {}} => q.is = Coord
          /\ q.was = Coord /\ q.is # Coord => q.events = {}
      BY <1>0, <2>1, <2>6 DEF ReadsHold
    <3>2. admin'[q.who].role = to
      <4>1. admin'[q.who] = new
        BY <1>7, <2>1
      <4> QED BY <3>1, <4>1 DEF Written, NewRole
    <3>3. NameOf(admin[p[1]].role)' = q.is
      BY <2>1, <2>6, <3>1, <3>2 DEF NameOf
    <3>4. q.is = Coord
      <4> SUFFICES ASSUME q.is # Coord PROVE FALSE
        OBVIOUS
      <4>1. q.events \in {Keep, {}} /\ p \in scope
        BY <2>3, <3>1
      <4>2. NameOf(admin[q.who].role) = Coord
        BY <1>0, <2>6, <4>1 DEF ScopeFitsRole
      <4>3. q.events = {} /\ q.events # Keep
        BY <3>1, <4>2, AdminAssumption
      <4>4. p[2] \in q.had
        BY <1>5, <2>6, <3>1, <4>1 DEF EventsIn
      <4>5. p \in {q.who} \X q.had
        BY <1>5, <2>6, <4>4
      <4>6. ScopeAfter(q) = scope \ ({q.who} \X q.had)
        BY <4>3 DEF ScopeAfter, Adds
      <4> QED BY <2>1, <4>5, <4>6
    <3> QED BY <3>3, <3>4 DEF Fits
  <2> QED BY <2>4, <2>5, <2>6
<1>12. ASSUME Delete(c)
       PROVE  Fits(p)
  <2> DEFINE u == req[c].who
  <2>1. /\ u \in Users /\ admin' = [admin EXCEPT ![u] = NoRow] /\ p \in ScopeOf(u, {})
    BY <1>0, <1>12 DEF Delete, Commit, RequestKnows, Steps
  <2>2. p[1] # u /\ p \in scope
    BY <1>6, <2>1
  <2> QED BY <1>3, <1>5, <1>7, <2>1, <2>2
<1>13. ASSUME EditRole(c)
       PROVE  Fits(p)
  BY <1>3, <1>13 DEF EditRole, Commit
<1>14. ASSUME NEW u \in Users, NEW e \in Events, Unassign(c, u, e)
       PROVE  Fits(p)
  BY <1>3, <1>14 DEF Unassign, Commit
<1>15. ASSUME Assign(c)
       PROVE  Fits(p)
  <2> DEFINE q == req[c]
  <2>1. /\ q.step = "assign" /\ admin' = admin /\ role' = role
        /\ p \in scope \cup ({q.who} \X q.events)
    BY <1>15 DEF Assign, Commit
  <2>2. CASE p \in scope
    BY <1>3, <2>1, <2>2
  <2>3. CASE p \in {q.who} \X q.events
    <3>1. p[1] = q.who
      BY <2>3
    <3>2. q.who \in mixed \/ NameOf(admin[q.who].role) = Coord
      BY <1>0, <2>1 DEF ReadsHold
    <3>3. NameOf(admin[p[1]].role)' = NameOf(admin[q.who].role)
      BY <2>1, <3>1 DEF NameOf
    <3> QED BY <1>4, <3>1, <3>2, <3>3 DEF Fits
  <2> QED BY <2>1, <2>2, <2>3
<1> QED BY <1>10, <1>11, <1>12, <1>13, <1>14, <1>15 DEF Mutation

\* A step that leaves the rows alone.
LEMMA ReadsKept ==
  ASSUME ScopeInv, UNCHANGED Rows, mixed \subseteq mixed',
         \A c \in Reqs :
           \/ /\ req'[c].step = req[c].step /\ req'[c].who = req[c].who /\ req'[c].row = req[c].row
              /\ req'[c].roleTo = req[c].roleTo /\ req'[c].events = req[c].events
              /\ req'[c].was = req[c].was /\ req'[c].is = req[c].is /\ req'[c].had = req[c].had
           \/ req'[c].step \notin {"grant", "update", "reconcile", "assign"}
           \/ ReadsHold(req[c])'
  PROVE  ScopeFitsRole' /\ \A c \in Reqs : ReadsHold(req[c])'
<1>1. ScopeFitsRole'
  BY DEF ScopeInv, ScopeFitsRole, Rows, NameOf
<1>2. ASSUME NEW c \in Reqs PROVE ReadsHold(req[c])'
  <2>1. ReadsHold(req[c]) /\ admin' = admin /\ role' = role /\ scope' = scope
    BY DEF ScopeInv, Rows
  <2>2. CASE /\ req'[c].step = req[c].step /\ req'[c].who = req[c].who /\ req'[c].row = req[c].row
             /\ req'[c].roleTo = req[c].roleTo /\ req'[c].events = req[c].events
             /\ req'[c].was = req[c].was /\ req'[c].is = req[c].is /\ req'[c].had = req[c].had
    BY <2>1, <2>2 DEF ReadsHold, NameOf, EventsIn
  <2>3. CASE req'[c].step \notin {"grant", "update", "reconcile", "assign"}
    BY <2>3 DEF ReadsHold
  <2> QED BY <2>2, <2>3
<1> QED BY <1>1, <1>2

\* What a session sees of a role, when it sees a coordinator's name.
LEMMA SeenName ==
  ASSUME NEW c \in Reqs, req[c].view.name = Super, NEW rl, NameSeen(c, rl) = Coord
  PROVE  NameOf(rl) = Coord /\ ~ (rl = req[c].own.role /\ rl # NoRole)
BY AdminAssumption DEF NameSeen

\* A reading gives the request what it has read, or notes whom it concerns.
LEMMA ReadingHolds ==
  ASSUME RowsInv, NEW c \in Reqs, Reading(c), req[c].view.name = Super
  PROVE  ReadsHold(req[c])' /\ \A d \in Reqs \ {c} : req'[d] = req[d]
<1> USE DEF Notes
<1>0. req[c] \in Request /\ DOMAIN req = Reqs /\ admin \in [Users -> AdminRow] /\ mixed \subseteq Users
  BY DEF RowsInv, TypeOK
<1>1. ASSUME NEW u \in Users, NEW rl \in Roles, NEW es \in SUBSET Events, ReadForGrant(c, u, rl, es)
      PROVE  ReadsHold(req[c])' /\ \A d \in Reqs \ {c} : req'[d] = req[d]
  <2> DEFINE q == [req[c] EXCEPT !.step = "grant", !.who = u, !.roleTo = rl, !.events = es,
                                 !.own = NoRow, !.alone = TRUE]
  <2>1. req' = [req EXCEPT ![c] = q] /\ UNCHANGED Rows
    BY <1>1 DEF ReadForGrant
  <2>2. q.step = "grant" /\ q.who = u /\ q.roleTo = rl /\ q.events = es
    BY <1>0, ZenonT(150) DEF Request
  <2> HIDE DEF q
  <2>3. req'[c] = q /\ \A d \in Reqs \ {c} : req'[d] = req[d]
    BY <1>0, <2>1
  <2>4. es # {} => NameOf(rl) = Coord
    BY <1>1, SeenName DEF ReadForGrant
  <2>5. NameOf(req[c].roleTo)' = NameOf(rl)
    BY <2>1, <2>2, <2>3 DEF NameOf, Rows
  <2> QED BY <2>2, <2>3, <2>4, <2>5 DEF ReadsHold
<1>2. ASSUME NEW u \in Users, NEW body \in Patches, ReadForUpdate(c, u, body)
      PROVE  ReadsHold(req[c])' /\ \A d \in Reqs \ {c} : req'[d] = req[d]
  <2> DEFINE row == RowSeen(c, u)
             to  == IF body.roleTo = Keep THEN row.role ELSE body.roleTo
             was == NameSeen(c, row.role)
             is  == NameSeen(c, to)
             q == [req[c] EXCEPT !.step = "update", !.who = u, !.row = row, !.roleTo = body.roleTo,
                                 !.activeTo = body.activeTo, !.events = body.events,
                                 !.was = was, !.is = is, !.own = NoRow, !.alone = TRUE]
  <2>1. req' = [req EXCEPT ![c] = q] /\ UNCHANGED Rows
    BY <1>2 DEF ReadForUpdate
  <2>2. u \in mixed' \/ (row = admin[u] /\ was = NameOf(row.role) /\ is = NameOf(to))
    BY <1>2 DEF ReadForUpdate
  <2> HIDE DEF row, was, is
  <2>3. /\ q.step = "update" /\ q.who = u /\ q.roleTo = body.roleTo /\ q.row = row
        /\ q.was = was /\ q.is = is
    BY <1>0, ZenonT(150) DEF Request
  <2> HIDE DEF q
  <2>4. req'[c] = q /\ \A d \in Reqs \ {c} : req'[d] = req[d]
    BY <1>0, <2>1
  <2>5. CASE u \in mixed'
    BY <2>3, <2>4, <2>5 DEF ReadsHold
  <2>6. CASE row = admin[u] /\ was = NameOf(row.role) /\ is = NameOf(to)
    <3>1. admin' = admin /\ role' = role
      BY <2>1 DEF Rows
    <3>2. admin'[req'[c].who] = req'[c].row
      BY <2>3, <2>4, <2>6, <3>1
    <3>3. req'[c].was = NameOf(req[c].row.role)'
      BY <2>3, <2>4, <2>6, <3>1 DEF NameOf
    <3>4. req'[c].is = NameOf(IF req[c].roleTo = Keep THEN req[c].row.role ELSE req[c].roleTo)'
      BY <2>3, <2>4, <2>6, <3>1 DEF NameOf
    <3>5. req'[c].step = "update"
      BY <2>3, <2>4
    <3>6. ReadsHold(req[c])'
      BY <3>2, <3>3, <3>4, <3>5 DEF ReadsHold
    <3> QED BY <2>4, <3>6
  <2> QED BY <2>2, <2>5, <2>6
<1>3. ASSUME NEW u \in Users, ReadForDelete(c, u)
      PROVE  ReadsHold(req[c])' /\ \A d \in Reqs \ {c} : req'[d] = req[d]
  <2> DEFINE q == [req[c] EXCEPT !.step = "delete", !.who = u, !.row = admin[u],
                                 !.own = NoRow, !.alone = TRUE]
  <2>1. req' = [req EXCEPT ![c] = q]
    BY <1>3 DEF ReadForDelete
  <2>2. q.step = "delete"
    BY <1>0, ZenonT(150) DEF Request
  <2> HIDE DEF q
  <2> QED BY <1>0, <2>1, <2>2 DEF ReadsHold
<1>4. ASSUME NEW u \in Users, NEW e \in Events, ReadForAssign(c, u, e)
      PROVE  ReadsHold(req[c])' /\ \A d \in Reqs \ {c} : req'[d] = req[d]
  <2> DEFINE q == [req[c] EXCEPT !.step = "assign", !.who = u, !.row = admin[u], !.events = {e},
                                 !.own = NoRow, !.alone = TRUE]
  <2>1. req' = [req EXCEPT ![c] = q] /\ UNCHANGED Rows
    BY <1>4 DEF ReadForAssign
  <2>2. q.step = "assign" /\ q.who = u /\ q.row = admin[u]
    BY <1>0, ZenonT(150) DEF Request
  <2> HIDE DEF q
  <2>3. req'[c] = q /\ \A d \in Reqs \ {c} : req'[d] = req[d]
    BY <1>0, <2>1
  <2>4. NameSeen(c, RowSeen(c, u).role) = Coord
    BY <1>4 DEF ReadForAssign
  <2>5. NameOf(admin[u].role) = Coord
    <3>1. CASE u = req[c].by /\ req[c].own # NoRow
      <4>1. RowSeen(c, u) = req[c].own
        BY <3>1 DEF RowSeen
      <4>2. NameOf(req[c].own.role) = Coord /\ req[c].own.role = NoRole
        BY <2>4, <4>1, SeenName
      <4> QED BY <4>2, AdminAssumption DEF NameOf
    <3>2. CASE ~ (u = req[c].by /\ req[c].own # NoRow)
      <4>1. RowSeen(c, u) = admin[u]
        BY <3>2 DEF RowSeen
      <4> QED BY <2>4, <4>1, SeenName
    <3> QED BY <3>1, <3>2
  <2>6. NameOf(req[c].row.role)' = Coord /\ admin'[req'[c].who] = req'[c].row
    BY <2>1, <2>2, <2>3, <2>5 DEF NameOf, Rows
  <2> QED BY <2>2, <2>3, <2>6 DEF ReadsHold
<1> QED BY <1>1, <1>2, <1>3, <1>4 DEF Reading

\* What the update still knows when it has written its row.
LEMMA SwitchHolds ==
  ASSUME RowsInv, NEW c \in Reqs, Switch(c), ReadsHold(req[c]), req'[c].step = "reconcile"
  PROVE  ReadsHold(req[c])'
<1> USE DEF Notes
<1> DEFINE events == EventsAfter(req[c])
           had == EventsIn(scope, req[c].who)
           q == [req[c] EXCEPT !.step = "reconcile", !.events = events, !.had = had]
<1>0. req[c] \in Request /\ DOMAIN req = Reqs
  BY DEF RowsInv, TypeOK
<1>1. /\ req[c].step = "update" /\ UNCHANGED <<Rows, mixed>>
      /\ req' = [req EXCEPT ![c] = Idle] \/ req' = [req EXCEPT ![c] = q]
  BY DEF Switch, Finish
<1>2. req'[c] = q
  <2>1. req'[c] = Idle \/ req'[c] = q
    BY <1>0, <1>1
  <2> QED BY <2>1 DEF Idle
<1>3. /\ events \notin {Keep, {}} => req[c].is = Coord
      /\ req[c].was = Coord /\ req[c].is # Coord => events = {}
  BY DEF EventsAfter
<1> HIDE DEF events
<1>4. /\ q.step = "reconcile" /\ q.who = req[c].who /\ q.row = req[c].row
      /\ q.roleTo = req[c].roleTo /\ q.was = req[c].was /\ q.is = req[c].is
      /\ q.events = events /\ q.had = had
  BY <1>0, ZenonT(150) DEF Request
<1> HIDE DEF q
<1> SUFFICES ASSUME req[c].who \notin mixed PROVE ReadsHold(req[c])'
  BY <1>1, <1>2, <1>4 DEF ReadsHold
<1>5. /\ admin[req[c].who] = req[c].row /\ req[c].was = NameOf(req[c].row.role)
      /\ req[c].is = NameOf(IF req[c].roleTo = Keep THEN req[c].row.role ELSE req[c].roleTo)
  BY <1>1 DEF ReadsHold
<1>6. admin' = admin /\ role' = role /\ scope' = scope
  BY <1>1 DEF Rows
<1>7. /\ admin'[req'[c].who] = req'[c].row /\ req'[c].was = NameOf(req[c].row.role)'
      /\ req'[c].is = NameOf(IF req[c].roleTo = Keep THEN req[c].row.role ELSE req[c].roleTo)'
  BY <1>2, <1>4, <1>5, <1>6 DEF NameOf
<1>8. req'[c].had = EventsIn(scope, req[c].who)'
  BY <1>2, <1>4, <1>6 DEF EventsIn
<1> QED BY <1>2, <1>3, <1>4, <1>7, <1>8 DEF ReadsHold

LEMMA ScopeStep ==
  ASSUME ScopeInv, [Next]_vars
  PROVE  ScopeFitsRole' /\ \A c \in Reqs : ReadsHold(req[c])'
<1> DEFINE Goal == ScopeFitsRole' /\ \A c \in Reqs : ReadsHold(req[c])'
           Same(d) == /\ req'[d].step = req[d].step /\ req'[d].who = req[d].who
                      /\ req'[d].row = req[d].row
                      /\ req'[d].roleTo = req[d].roleTo /\ req'[d].events = req[d].events
                      /\ req'[d].was = req[d].was /\ req'[d].is = req[d].is /\ req'[d].had = req[d].had
           Free0(d) == req'[d].step \notin {"grant", "update", "reconcile", "assign"}
<1> USE DEF Notes
<1>0. /\ RowsInv /\ (\A d \in Reqs : ReadsHold(req[d]) /\ req[d] \in Request)
      /\ DOMAIN req = Reqs /\ Idle.step = "idle"
  BY DEF ScopeInv, RowsInv, TypeOK, Idle
<1>20. ASSUME NEW c \in Reqs, NEW q, req' = [req EXCEPT ![c] = q], UNCHANGED <<Rows, mixed>>,
              q.step \notin {"grant", "update", "reconcile", "assign"}
       PROVE  Goal
  <2>1. req'[c] = q /\ \A d \in Reqs \ {c} : req'[d] = req[d]
    BY <1>0, <1>20
  <2>2. \A d \in Reqs : Same(d) \/ Free0(d)
    BY <1>20, <2>1
  <2> QED BY <1>20, <2>2, ReadsKept
<1>1. ASSUME NEW c \in Reqs, Mutation(c) PROVE Goal
  <2>1. \E a, r, s, us : Commits(c, a, r, s, us)
    BY <1>0, <1>1, MutationCommits
  <2>2. \A d \in Reqs : ReadsHold(req[d])'
    BY <1>0, <2>1, ReadsCommit
  <2> QED BY <1>1, <2>2, ScopeMutation
<1>2. ASSUME NEW c \in Reqs, Reading(c) PROVE Goal
  <2>1. UNCHANGED Rows /\ mixed \subseteq mixed' /\ req[c].view.name = Super
    BY <1>0, <1>2, ReadingFields
  <2>2. ReadsHold(req[c])' /\ \A d \in Reqs \ {c} : req'[d] = req[d]
    BY <1>0, <1>2, <2>1, ReadingHolds
  <2>3. \A d \in Reqs : Same(d) \/ ReadsHold(req[d])'
    BY <2>2
  <2> QED BY <2>1, <2>3, ReadsKept
<1>3. ASSUME NEW c \in Reqs, Showing(c) PROVE Goal
  <2>1. UNCHANGED <<Rows, mixed>>
    BY <1>0, <1>3, ShowingFields
  <2>2. PICK q \in Request : req' = [req EXCEPT ![c] = q]
                               /\ (q.step \in {"idle", "role"} \/ q.step = "reconcile")
    BY <1>0, <1>3, ShowingFields
  <2>3. CASE q.step \in {"idle", "role"}
    BY <1>20, <2>1, <2>2, <2>3
  <2>4. CASE q.step = "reconcile"
    <3>1. req'[c] = q /\ \A d \in Reqs \ {c} : req'[d] = req[d]
      BY <1>0, <2>2
    <3>2. Switch(c)
      <4>1. ASSUME NEW body \in RoleBodies, ReadForRole(c, body) PROVE FALSE
        <5>1. req'[c].step = "role"
          BY <1>0, <4>1 DEF ReadForRole, Request
        <5> QED BY <2>4, <3>1, <5>1
      <4>2. ASSUME Abort(c) PROVE FALSE
        <5>1. req'[c] = Idle
          BY <1>0, <4>2 DEF Abort, Finish
        <5> QED BY <1>0, <2>4, <3>1, <5>1
      <4> QED BY <1>3, <4>1, <4>2 DEF Showing
    <3>3. ReadsHold(req[c])'
      BY <1>0, <2>4, <3>1, <3>2, SwitchHolds
    <3>4. \A d \in Reqs : Same(d) \/ ReadsHold(req[d])'
      BY <3>1, <3>3
    <3> QED BY <2>1, <3>4, ReadsKept
  <2> QED BY <2>2, <2>3, <2>4
<1>4. ASSUME NEW c \in Reqs, Drop(c) \/ Store(c) PROVE Goal
  <2>1. /\ UNCHANGED <<Rows, mixed>> /\ Free0(c)
        /\ \A d \in Reqs \ {c} : req'[d] = req[d] \/ req'[d] = [req[d] EXCEPT !.live = FALSE]
    <3>1. CASE Drop(c)
      BY <1>0, <3>1, DropFields
    <3>2. CASE Store(c)
      BY <1>0, <3>2, StoreFields
    <3> QED BY <1>4, <3>1, <3>2
  <2>2. ASSUME NEW d \in Reqs \ {c} PROVE Same(d)
    <3>1. req[d] \in Request /\ (req'[d] = req[d] \/ req'[d] = [req[d] EXCEPT !.live = FALSE])
      BY <1>0, <2>1
    <3> QED BY <3>1, UnliveFields
  <2> QED BY <2>1, <2>2, ReadsKept
<1>5. ASSUME NEW c \in Reqs, EditEvent(c) PROVE Goal
  <2>1. UNCHANGED <<Rows, mixed>> /\ req' = [req EXCEPT ![c] = Idle]
    BY <1>5 DEF EditEvent, Finish
  <2> QED BY <1>0, <1>20, <2>1
<1>6. ASSUME NEW c \in Reqs, NEW u \in Users, Arrive(c, u) PROVE Goal
  <2>1. UNCHANGED <<Rows, mixed>>
    BY <1>0, <1>6, ArriveFields
  <2>2. PICK q \in Request : req' = [req EXCEPT ![c] = q] /\ q.step \in {"act", "read"}
    BY <1>0, <1>6, ArriveFields
  <2> QED BY <1>20, <2>1, <2>2
<1>7. ASSUME NEW c \in Reqs, ReadRow(c) PROVE Goal
  <2>1. UNCHANGED <<Rows, mixed>>
    BY <1>0, <1>7, ReadRowFields
  <2>2. PICK q \in Request : req' = [req EXCEPT ![c] = q] /\ q.step \in {"idle", "store"}
    BY <1>0, <1>7, ReadRowFields
  <2> QED BY <1>20, <2>1, <2>2
<1>8. ASSUME Tick \/ UNCHANGED vars \/ \E u \in Users : Logout(u) \/ Login(u) PROVE Goal
  <2>1. UNCHANGED <<Rows, mixed, req>>
    BY <1>8 DEF Tick, vars, Logout, Login, Rows
  <2> QED BY <2>1, ReadsKept
<1>9. ASSUME Restart PROVE Goal
  <2>1. UNCHANGED <<Rows, mixed>> /\ \A d \in Reqs : req'[d] = Idle
    BY <1>9 DEF Restart
  <2>2. \A d \in Reqs : Free0(d)
    BY <1>0, <2>1
  <2> QED BY <2>1, <2>2, ReadsKept
<1> QED BY <1>1, <1>2, <1>3, <1>4, <1>5, <1>6, <1>7, <1>8, <1>9, NextCases

\* Only coordinators hold assignments, for any number of users, roles and
\* requests, except who was changed while another request had read the row or
\* whose role was renamed, also between the reading of its name and the commit.
THEOREM AssignmentsFit == Spec => []ScopeFitsRole
<1>1. Init => ScopeInv
  BY RowsInit, ScopeInit DEF ScopeInv
<1>2. ScopeInv /\ [Next]_vars => ScopeInv'
  <2> SUFFICES ASSUME ScopeInv, [Next]_vars PROVE ScopeInv'
    OBVIOUS
  <2>1. RowsInv'
    BY RowsStep DEF ScopeInv
  <2> QED BY <2>1, ScopeStep DEF ScopeInv
<1>3. ScopeInv => ScopeFitsRole
  BY DEF ScopeInv
<1> QED BY <1>1, <1>2, <1>3, PTL DEF Spec

-----------------------------------------------------------------------------
(* The last SUPER ADMIN.                                                   *)

LEMMA CountsCommit ==
  ASSUME RowsInv, NEW c \in Reqs, NEW a, NEW r, NEW s, NEW us, Commits(c, a, r, s, us),
         NEW d \in Reqs
  PROVE  CountHolds(d)'
<1>1. CASE d = c
  <2>1. req'[c].step = "drop"
    BY CommitFields
  <2> QED BY <1>1, <2>1 DEF CountHolds
<1>2. CASE d # c
  <2>1. req'[d].step = req[d].step
    BY <1>2, OthersCommit
  <2>2. req[d].step = "delete" => ~ req'[d].alone
    BY <1>2, CommitFields
  <2> QED BY <2>1, <2>2 DEF CountHolds
<1> QED BY <1>1, <1>2

\* A deletion that has just counted.
Counted(r) == r.step = "delete" /\ \E u \in Users : /\ r.who = u
                                                    /\ View(u).name = Super => OtherSupers(u) # {}

\* What a request is to the deletions after a step that leaves the rows alone.
Kind(d) == \/ /\ req'[d].step = req[d].step /\ req'[d].who = req[d].who
              /\ req'[d].alone = req[d].alone
           \/ req'[d].step \notin {"delete", "drop"}
           \/ Counted(req'[d])

LEMMA CountsKept ==
  ASSUME DeletionInv, UNCHANGED Rows, NEW c \in Reqs, Kind(c)
  PROVE  CountHolds(c)'
<1>1. admin' = admin /\ role' = role /\ CountHolds(c)
  BY DEF Rows, DeletionInv
<1>2. CASE /\ req'[c].step = req[c].step /\ req'[c].who = req[c].who
           /\ req'[c].alone = req[c].alone
  BY <1>1, <1>2 DEF CountHolds, View, ViewIn, OtherSupers, SupersIn
<1>3. CASE req'[c].step \notin {"delete", "drop"}
  BY <1>3 DEF CountHolds
<1>4. ASSUME NEW u \in Users, req'[c].who = u, View(u).name = Super => OtherSupers(u) # {}
      PROVE  CountHolds(c)'
  BY <1>1, <1>4 DEF CountHolds, View, ViewIn, OtherSupers, SupersIn
<1> QED BY <1>2, <1>3, <1>4 DEF Kind, Counted

\* A SUPER ADMIN is one to the session that counts, too.
LEMMA CountedSuper ==
  ASSUME RowsInv, NEW c \in Reqs, NEW u \in Users, ReadForDelete(c, u), req[c].view.name = Super,
         View(u).name = Super
  PROVE  OtherSupers(u) # {}
<1>1. admin[u].active /\ NameOf(admin[u].role) = Super
  <2>1. admin[u].active
    BY AdminAssumption DEF View, ViewIn, Nothing
  <2> QED BY <2>1 DEF ReadForDelete, View, ViewIn, NameOf
<1>2. NameSeen(c, admin[u].role) = Super
  BY <1>1 DEF NameSeen
<1> QED BY <1>1, <1>2 DEF ReadForDelete

LEMMA OtherSteps ==
  ASSUME RowsInv, [Next]_vars, \A c \in Reqs : ~ Mutation(c)
  PROVE  UNCHANGED Rows /\ \A c \in Reqs : Kind(c)
<1> DEFINE Goal == UNCHANGED Rows /\ \A d \in Reqs : Kind(d)
<1> USE DEF Notes
<1>0. /\ \A d \in Reqs : req[d] \in Request
      /\ DOMAIN req = Reqs /\ Idle.step = "idle"
  BY DEF RowsInv, TypeOK, Idle
<1>20. ASSUME NEW c \in Reqs, NEW q, req' = [req EXCEPT ![c] = q], UNCHANGED Rows,
              q.step \notin {"delete", "drop"} \/ Counted(q)
       PROVE  Goal
  <2>1. req'[c] = q /\ \A d \in Reqs \ {c} : req'[d] = req[d]
    BY <1>0, <1>20
  <2> QED BY <1>20, <2>1 DEF Kind
<1>1. ASSUME NEW c \in Reqs, Reading(c) PROVE Goal
  <2>0. UNCHANGED Rows /\ req[c].view.name = Super
    BY <1>1, ReadingFields
  <2>1. PICK q \in Request : req' = [req EXCEPT ![c] = q] /\ q.step \in Steps
    BY <1>1, ReadingFields
  <2>2. req'[c] = q
    BY <1>0, <2>1
  <2>3. ASSUME NEW u \in Users, ReadForDelete(c, u) PROVE Goal
    <3>1. View(u).name = Super => OtherSupers(u) # {}
      BY <2>0, <2>3, CountedSuper
    <3>2. req'[c].step = "delete" /\ req'[c].who = u
      <4> DEFINE p == [req[c] EXCEPT !.step = "delete", !.who = u, !.row = admin[u],
                                     !.own = NoRow, !.alone = TRUE]
      <4>1. req' = [req EXCEPT ![c] = p]
        BY <2>3 DEF ReadForDelete
      <4>2. p.step = "delete" /\ p.who = u
        BY <1>0, ZenonT(150) DEF Request
      <4> HIDE DEF p
      <4> QED BY <1>0, <4>1, <4>2
    <3> QED BY <1>20, <2>0, <2>1, <2>2, <3>1, <3>2 DEF Counted
  <2>4. ASSUME \A u \in Users : ~ ReadForDelete(c, u) PROVE Goal
    <3>1. req'[c].step \in {"grant", "update", "assign"}
      <4>1. ASSUME NEW u \in Users, NEW rl \in Roles, NEW es \in SUBSET Events,
                   ReadForGrant(c, u, rl, es)
            PROVE  req'[c].step = "grant"
        BY <1>0, <4>1 DEF ReadForGrant, Request
      <4>2. ASSUME NEW u \in Users, NEW body \in Patches, ReadForUpdate(c, u, body)
            PROVE  req'[c].step = "update"
        BY <1>0, <4>2 DEF ReadForUpdate, Request
      <4>3. ASSUME NEW u \in Users, NEW e \in Events, ReadForAssign(c, u, e)
            PROVE  req'[c].step = "assign"
        BY <1>0, <4>3 DEF ReadForAssign, Request
      <4> QED BY <1>1, <2>4, <4>1, <4>2, <4>3 DEF Reading
    <3> QED BY <1>20, <2>0, <2>1, <2>2, <3>1
  <2> QED BY <2>3, <2>4
<1>2. ASSUME NEW c \in Reqs, Showing(c) PROVE Goal
  <2>1. UNCHANGED Rows
    BY <1>2, ShowingFields
  <2>2. PICK q \in Request : req' = [req EXCEPT ![c] = q] /\ q.step \in {"idle", "role", "reconcile"}
    BY <1>0, <1>2, ShowingFields
  <2> QED BY <1>20, <2>1, <2>2
<1>3. ASSUME NEW c \in Reqs, Drop(c) \/ Store(c) PROVE Goal
  <2>1. /\ UNCHANGED Rows /\ req'[c].step \in {"idle", "act"}
        /\ \A d \in Reqs \ {c} : req'[d] = req[d] \/ req'[d] = [req[d] EXCEPT !.live = FALSE]
    <3>1. CASE Drop(c)
      BY <1>0, <3>1, DropFields
    <3>2. CASE Store(c)
      BY <1>0, <3>2, StoreFields
    <3> QED BY <1>3, <3>1, <3>2
  <2>2. ASSUME NEW d \in Reqs \ {c} PROVE Kind(d)
    <3>1. req[d] \in Request /\ (req'[d] = req[d] \/ req'[d] = [req[d] EXCEPT !.live = FALSE])
      BY <1>0, <2>1
    <3> QED BY <3>1, UnliveFields DEF Kind
  <2> QED BY <2>1, <2>2 DEF Kind
<1>4. ASSUME NEW c \in Reqs, EditEvent(c) PROVE Goal
  <2>1. UNCHANGED Rows /\ req' = [req EXCEPT ![c] = Idle]
    BY <1>4 DEF EditEvent, Finish
  <2> QED BY <1>0, <1>20, <2>1
<1>5. ASSUME NEW c \in Reqs, NEW u \in Users, Arrive(c, u) PROVE Goal
  <2>1. UNCHANGED Rows
    BY <1>5, ArriveFields
  <2>2. PICK q \in Request : req' = [req EXCEPT ![c] = q] /\ q.step \in {"act", "read"}
    BY <1>5, ArriveFields
  <2> QED BY <1>20, <2>1, <2>2
<1>6. ASSUME NEW c \in Reqs, ReadRow(c) PROVE Goal
  <2>1. UNCHANGED Rows
    BY <1>6, ReadRowFields
  <2>2. PICK q \in Request : req' = [req EXCEPT ![c] = q] /\ q.step \in {"idle", "store"}
    BY <1>0, <1>6, ReadRowFields
  <2> QED BY <1>20, <2>1, <2>2
<1>7. ASSUME Tick \/ UNCHANGED vars \/ \E u \in Users : Logout(u) \/ Login(u) PROVE Goal
  BY <1>7 DEF Tick, vars, Logout, Login, Rows, Kind
<1>8. ASSUME Restart PROVE Goal
  BY <1>0, <1>8 DEF Restart, Kind
<1> QED BY <1>1, <1>2, <1>3, <1>4, <1>5, <1>6, <1>7, <1>8, NextCases

LEMMA DeletionStep == DeletionInv /\ [Next]_vars => DeletionInv'
<1> SUFFICES ASSUME DeletionInv, [Next]_vars PROVE DeletionInv'
  OBVIOUS
<1>1. RowsInv /\ RowsInv'
  BY RowsStep DEF DeletionInv
<1>2. ASSUME NEW c \in Reqs, Mutation(c), NEW d \in Reqs PROVE CountHolds(d)'
  BY <1>1, <1>2, MutationCommits, CountsCommit
<1>3. ASSUME \A c \in Reqs : ~ Mutation(c), NEW d \in Reqs PROVE CountHolds(d)'
  BY <1>1, <1>3, OtherSteps, CountsKept
<1> QED BY <1>1, <1>2, <1>3 DEF DeletionInv

\* A deletion during which nothing else is committed.
LEMMA DeletionKeepsSuper ==
  ASSUME DeletionInv, [Next]_vars, NEW c \in Reqs,
         req[c].step = "delete", req'[c].step = "drop", req[c].alone
  PROVE  SupersIn(admin, role) = {} \/ SupersIn(admin', role') # {}
<1>0. RowsInv /\ CountHolds(c) /\ req[c].who \in Users /\ admin \in [Users -> AdminRow]
  BY DEF DeletionInv, RowsInv, RequestKnows, TypeOK, Steps
<1>1. Delete(c)
  <2>1. PICK d \in Reqs : Mutation(d)
    BY <1>0, OtherSteps DEF Kind, Counted
  <2>2. d = c
    BY <1>0, <2>1, MutationCommits, OthersCommit
  <2> QED BY <2>1, <2>2 DEF Mutation, Grant, Unassign, EditRole, Update, Assign, Authorised
<1>2. PICK u \in Users : u = req[c].who
  BY <1>0
<1>3. admin' = [admin EXCEPT ![u] = NoRow] /\ role' = role
  BY <1>1, <1>2 DEF Delete, Commit
<1>4. OtherSupers(u) \subseteq SupersIn(admin', role')
  BY <1>0, <1>3 DEF OtherSupers, SupersIn, ViewIn
<1>5. CASE View(u).name = Super
  BY <1>0, <1>2, <1>4, <1>5 DEF CountHolds
<1>6. CASE View(u).name # Super
  <2>1. OtherSupers(u) = SupersIn(admin, role)
    BY <1>6 DEF OtherSupers, SupersIn, View
  <2> QED BY <1>4, <2>1
<1> QED BY <1>5, <1>6

\* No deletion by itself takes the last active SUPER ADMIN away.
THEOREM LastSuperAdmin == Spec => SuperSurvivesDeletion
<1>1. Init => DeletionInv
  BY RowsInit DEF Init, DeletionInv, CountHolds, Idle
<1>2. DeletionInv /\ [Next]_vars => DeletionInv'
  BY DeletionStep
<1>3. DeletionInv /\ [Next]_vars
        => [\A c \in Reqs : req[c].step = "delete" /\ req'[c].step = "drop" /\ req[c].alone
              => SupersIn(admin, role) = {} \/ SupersIn(admin', role') # {}]_vars
  BY DeletionKeepsSuper
<1> QED BY <1>1, <1>2, <1>3, PTL DEF Spec, SuperSurvivesDeletion
=============================================================================
