------------------------------- MODULE MCReaders -------------------------------
(***************************************************************************)
(* One root, publishers p and q.  On branch a the publication p1 is        *)
(* dormant and authorised, q1 dormant and not; both return in b, after a   *)
(* grant for q, and p2 in b2.  Branch d holds p2 first and revokes p in e, *)
(* where a transfer stands before q2 and hides it; u carries evidence that *)
(* state-only validation cannot decide, with the issuance it asks for.     *)
(* Branch t begins with a transfer and shows nothing.  The branches take   *)
(* turns in having more work.                                              *)
(***************************************************************************)
EXTENDS Readers, TLC

CONSTANTS root, p, q, x, n1, n2, g, a, b, b2, d, u, e, t, rpc, host

MCRoots == {root}
MCIdentities == {p, q}
MCScopes == {x}
MCNonces == {n1, n2}
MCBlocks == {g, a, b, b2, d, u, e, t}
MCValid == {<<g>>, <<g, a>>, <<g, d>>, <<g, a, b>>, <<g, d, u>>, <<g, d, e>>, <<g, t>>,
            <<g, a, b, b2>>}
MCWork == (<<g>> :> 1) @@ (<<g, a>> :> 2) @@ (<<g, d>> :> 3) @@ (<<g, a, b>> :> 4)
    @@ (<<g, d, u>> :> 5) @@ (<<g, d, e>> :> 6) @@ (<<g, t>> :> 7)
    @@ (<<g, a, b, b2>> :> 8)
MCDeferred == {u}
MCConsumers == {rpc, host}
MCKeepers == {host}

Grant(i) == [type |-> "GRANT", issuer |-> root, subject |-> i, scope |-> x, signed |-> TRUE]
Pub(i, n) == [type |-> "PUBLICATION", signer |-> i, scope |-> x, nonce |-> n, signed |-> TRUE]
Revoke(i) == [type |-> "REVOKE", issuer |-> root, grant |-> Grant(i), signed |-> TRUE]

Transfer == [type |-> "TRANSFER"]
Compensation == [type |-> "BLOCK_COMPENSATION"]
Issuance == [type |-> "ISSUANCE"]
MCOthers == {Transfer, Compensation, Issuance}

MCContent ==
    (g :> <<Grant(p)>>)
    @@ (a :> <<Pub(p, n1), Pub(q, n1)>>)
    @@ (b :> <<Grant(q), Pub(p, n1), Pub(q, n1)>>)
    @@ (b2 :> <<Pub(p, n2)>>)
    @@ (d :> <<Pub(p, n2)>>)
    @@ (u :> <<Pub(p, n1), Compensation, Issuance>>)
    @@ (e :> <<Pub(p, n1), Revoke(p), Grant(q), Transfer, Pub(q, n2)>>)
    @@ (t :> <<Transfer, Pub(p, n1)>>)
==============================================================================
