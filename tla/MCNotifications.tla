--------------------------- MODULE MCNotifications ---------------------------
(* Names for the instance: a registration's leader, a team mate and a guest. *)
EXTENDS Notifications

CONSTANTS lead, mate, guest

=============================================================================
