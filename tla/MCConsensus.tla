---------------------------- MODULE MCConsensus ----------------------------
(* Instances of Consensus for TLC, in the system that asks for a verdict.  *)
EXTENDS E2e

(* From below 0 to above 1, as models may say and operators may write.     *)
MCNumbers == -1 .. 3
=============================================================================
