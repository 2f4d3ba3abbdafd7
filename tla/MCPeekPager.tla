----------------------------- MODULE MCPeekPager -----------------------------
(***************************************************************************)
(* PeekPager on small instances.                                           *)
(***************************************************************************)
EXTENDS PeekPager

TwoSessions == [m \in Seqs |-> IF m % 2 = 0 THEN "s0" ELSE "s1"]
=============================================================================
