----------------------------- MODULE MCAuditLog -----------------------------
(* AuditLog with one session of two threads and one of a single thread.      *)
EXTENDS AuditLog, TLC

CONSTANTS s1, s2, main, proxy, other

MCSessionOf == main :> s1 @@ proxy :> s1 @@ other :> s2
=============================================================================
