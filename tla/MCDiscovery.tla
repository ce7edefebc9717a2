---------------------------- MODULE MCDiscovery ----------------------------
(* Discovery with one task that reads and creates, the task that refreshes behind it, one tab of  *)
(* the admin page, and two things to create, so that one can be made inside the other.            *)
EXTENDS Discovery
CONSTANTS db, pg, x1, x2, r1, a1
=============================================================================
