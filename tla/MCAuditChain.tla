---------------------------- MODULE MCAuditChain ----------------------------
(* A small instance of AuditChain for TLC. *)
EXTENDS AuditChain

CONSTANTS single, pair, other

\* One create and two create_many of two rows.
Requests == {single, pair, other}
Sizes == [w \in Requests |-> IF w = single THEN 1 ELSE 2]
=============================================================================
