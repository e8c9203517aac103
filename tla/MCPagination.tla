---------------------------- MODULE MCPagination ----------------------------
(* Instances of Pagination for TLC. *)
EXTENDS Pagination

CONSTANTS r1, r2, r3

\* No ?limit=, zero, one, and more than MAX_LIMIT.
MCRequested == {NoLimit, 0, 1, 9}
=============================================================================
