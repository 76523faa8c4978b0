---------------------------- MODULE MCEventStore ----------------------------
(* Small instances of EventStore for TLC. *)
EXTENDS EventStore, TLC

CONSTANTS e1, e2, w1, w2

MCBatch == {<<e1>>, <<e1, e2>>}
=============================================================================
