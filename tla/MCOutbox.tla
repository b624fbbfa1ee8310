------------------------------ MODULE MCOutbox ------------------------------
(* Small instances of the outbox for TLC. *)
EXTENDS Outbox, TLC

CONSTANTS e1, e2, r1, r2, w1, w2

TwoEvents == {e1, e2}
TokenEvents == {e2}
AuditedEvents == {e1}
TwoRequests == {r1, r2}
TwoWorkers == {w1, w2}
=============================================================================
