-------------------------- MODULE MCAdministration --------------------------
(* An instance of Administration: the roles and administrators at the      *)
(* start, and the bodies of PATCH requests.                                *)
EXTENDS Administration, TLC

CONSTANTS u1, u2, u3, r1, r2, r3, e1

\* SUPER ADMIN, EVENT COORDINATOR, and a role that is not created yet.
TwoRoles == r1 :> [name |-> Super, edit |-> FALSE] @@ r2 :> [name |-> Coord, edit |-> FALSE]
            @@ r3 :> [name |-> Unnamed, edit |-> FALSE]

\* Two super administrators and a coordinator.
TwoSupers == u1 :> r1 @@ u2 :> r1 @@ u3 :> r2

\* The events of a coordinator, given with the role, or with the account
\* active again; a deactivation; another role, alone or, which is refused
\* after the role is set, with events.
SomePatches == {[roleTo |-> r2, activeTo |-> Keep, events |-> {e1}],
                [roleTo |-> Keep, activeTo |-> TRUE, events |-> {e1}],
                [roleTo |-> Keep, activeTo |-> FALSE, events |-> Keep],
                [roleTo |-> r3, activeTo |-> Keep, events |-> Keep],
                [roleTo |-> r3, activeTo |-> Keep, events |-> {e1}]}

\* The administrators' own role and the coordinators' under another name, and
\* a role created.
SomeBodies == {[id |-> r1, name |-> Other, edit |-> TRUE],
               [id |-> r2, name |-> Other, edit |-> TRUE],
               [id |-> r3, name |-> Staff, edit |-> TRUE]}

\* The two super administrators are alike, and so are the requests.
Alike == Permutations(Reqs) \cup Permutations({u1, u2})
=============================================================================
