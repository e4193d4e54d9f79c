----------------------------- MODULE MCAuthority -----------------------------
(***************************************************************************)
(* Bounded instance of the consensus validator for its authority rules:    *)
(* one root, three identities of which one is initial, one scope, and      *)
(* every body of at most two transactions.                                 *)
(***************************************************************************)
EXTENDS ChainProperties

CONSTANTS r, r2, a, b, c, s, p1,
          MaxHeight             \* height of the last block that is offered

MCRoots == {r, r2}
MCIdentities == {a, b, c}
MCInitial == {a}
MCScopes == {s}
MCNonces == {p1}

Grant(i, j) ==
    [type |-> "GRANT", issuer |-> i, subject |-> j, scope |-> s, signed |-> TRUE]
Revoke(i, g) == [type |-> "REVOKE", issuer |-> i, grant |-> g, signed |-> TRUE]
Rotate(i, j) == [type |-> "ROTATE", old |-> i, new |-> j, signed |-> TRUE]
Publication(i, n) ==
    [type |-> "PUBLICATION", signer |-> i, scope |-> s, nonce |-> n, signed |-> TRUE]

Singles ==
    {Grant(r, a), Grant(r, b), Grant(b, b),
     Revoke(r, Grant(r, a)), Revoke(r2, Grant(r, a)), Revoke(r, Grant(r, b)),
     Rotate(a, b), Rotate(b, c), Rotate(b, a),
     Publication(a, p1), Publication(b, p1)}
Bodies == {<<>>} \cup {<<t>> : t \in Singles} \cup {<<t, u>> : t, u \in Singles}

MCGenesis == [height |-> 0, parent |-> ForeignId, time |-> 1, sealed |-> TRUE, txs |-> <<>>]
Offer(h, t, body) ==
    [height |-> h, parent |-> h - 1, time |-> t, sealed |-> TRUE, txs |-> body]
MCOffers ==
    {Offer(h, 1, body) : h \in 1..MaxHeight, body \in Bodies} \cup {Offer(1, 0, <<>>)}
=============================================================================
