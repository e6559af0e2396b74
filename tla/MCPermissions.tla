--------------------------- MODULE MCPermissions ---------------------------
(* The permission requests of a runner on a small instance.                *)
EXTENDS Permissions

CONSTANTS d1, d2

=============================================================================
