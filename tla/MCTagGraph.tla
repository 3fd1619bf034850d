----------------------------- MODULE MCTagGraph -----------------------------
(* Composites are interchangeable in TagGraph.                              *)
EXTENDS TagGraph, TLC

CompositeSymmetry == Permutations(Composites)
=============================================================================
