----------------------------- MODULE MCSemaphore -----------------------------
(***************************************************************************)
(* Four threads and the two amounts the work queue gives: one for a task,  *)
(* as many as there are threads for the end.                               *)
(***************************************************************************)
EXTENDS Semaphore

CONSTANTS w1, w2, w3, w4
FourThreads == {w1, w2, w3, w4}
OneOrAll == {1, Cardinality(Thread)}
=============================================================================
