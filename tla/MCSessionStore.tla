--------------------------- MODULE MCSessionStore ---------------------------
(***************************************************************************)
(* SessionStore for TLC: two workspaces, one request that selects one.     *)
(***************************************************************************)
EXTENDS SessionStore

CONSTANTS a, b, s1
=============================================================================
