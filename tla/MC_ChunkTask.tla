---------------------------- MODULE MC_ChunkTask ----------------------------
(* Model-checking instance of ChunkTask: two wait_user_canceled calls and  *)
(* two cancel calls (the task manager and a ChunkTaskReader drop), and    *)
(* one speed accessor call of the scheduler.                              *)
EXTENDS ChunkTask
CONSTANTS w1, w2, k1, k2, q1
MCWaiters == {w1, w2}
MCCancelers == {k1, k2}
MCQueriers == {q1}
=============================================================================
