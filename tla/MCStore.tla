------------------------------- MODULE MCStore -------------------------------
(***************************************************************************)
(* Two processes on one data directory.  From genesis g one branch is      *)
(* a, b and the other c alone, which outweighs a and ties with b.  c       *)
(* carries evidence that state-only validation cannot decide.              *)
(***************************************************************************)
EXTENDS StoreProperties, TLC

CONSTANTS n1, n2, g, a, b, c

MCNodes == {n1, n2}
MCBlocks == {g, a, b, c}
MCValid == {<<g>>, <<g, a>>, <<g, a, b>>, <<g, c>>}
MCWork == (<<g>> :> 1) @@ (<<g, a>> :> 2) @@ (<<g, a, b>> :> 3) @@ (<<g, c>> :> 3)
MCDeferred == {c}
==============================================================================
