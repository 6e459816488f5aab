----------------------------- MODULE MCCellTree -----------------------------
(* An instance of CellTree for TLC: a root with children a and b, and c below a. *)
EXTENDS CellTree

CONSTANTS a, b, c

Tree == (Root :> None) @@ (a :> Root) @@ (b :> Root) @@ (c :> a)
\* The tamest supervisors and the wildest.
BothEnds == {<<"one", FALSE>>, <<"all", TRUE>>}
InOrder == (Root :> 0) @@ (a :> 1) @@ (b :> 2) @@ (c :> 3)
=============================================================================
