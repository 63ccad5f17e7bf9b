----------------------------- MODULE MCBuffers -----------------------------
(* Instances of Buffers for TLC: three blocks, two of them on one page.     *)
EXTENDS Buffers, TLC

CONSTANTS a1, a2, a3, q1, q2

PageTable == a1 :> q1 @@ a2 :> q1 @@ a3 :> q2

=============================================================================
