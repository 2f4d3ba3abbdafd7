----------------------------- MODULE MCExtractor -----------------------------
(***************************************************************************)
(* Extractor on small instances.                                           *)
(***************************************************************************)
EXTENDS Extractor

OneSession == [m \in Seqs |-> "s0"]
TwoSessions == [m \in Seqs |-> IF m % 2 = 0 THEN "s0" ELSE "s1"]
=============================================================================
