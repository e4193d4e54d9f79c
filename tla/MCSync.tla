-------------------------------- MODULE MCSync --------------------------------
(***************************************************************************)
(* Endpoint 1 is this node, known to the honest peer 3; peer 2 changes its *)
(* history between requests; 4 is of another network.  Branch a, b, e of   *)
(* genesis g is too long for the lane's table at e; c outweighs a and b    *)
(* with evidence state-only validation cannot decide; r carries a block    *)
(* reward and outweighs all but e.                                         *)
(***************************************************************************)
EXTENDS SyncProperties, TLC

CONSTANTS s1, s2, g, a, b, c, e, r

MCClients == {s1, s2}
MCBlocks == {g, a, b, c, e, r}
MCValid == {<<g>>, <<g, a>>, <<g, a, b>>, <<g, a, b, e>>, <<g, c>>, <<g, r>>}
MCWork == (<<g>> :> 1) @@ (<<g, a>> :> 2) @@ (<<g, a, b>> :> 3)
    @@ (<<g, c>> :> 4) @@ (<<g, r>> :> 5) @@ (<<g, a, b, e>> :> 6)
MCDeferred == {c}
MCRewarded == {r}
MCTargets == {<<g, a, b>>, <<g, c>>}
MCEndpoints == 1..4
MCConfigured == {2, 3}
MCKnown == (1 :> {2, 3}) @@ (3 :> {1, 3}) @@ (2 :> {4})
MCUnstable == {2}
MCForeign == {4}
==============================================================================
