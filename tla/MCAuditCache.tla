---------------------------- MODULE MCAuditCache ----------------------------
(* Instances of AuditCache for TLC. *)
EXTENDS AuditCache
CONSTANTS k1, k2, g1, c1, c2

MCWanted == [c \in Clients |-> k1]
=============================================================================
