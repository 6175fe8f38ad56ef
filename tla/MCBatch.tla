------------------------------- MODULE MCBatch -------------------------------
(***************************************************************************)
(* Instances of Batch: up to three clients q1 .. q3 whose requests may be  *)
(* queued, a realtime client rt, and a call cb that only the callback      *)
(* makes.                                                                  *)
(***************************************************************************)
EXTENDS Batch

CONSTANTS q1, q2, q3, rt, cb
=============================================================================
