------------------------------ MODULE MCEconomy ------------------------------
(***************************************************************************)
(* Bounded instance of the consensus validator for its economic rules: two *)
(* miners, two wallets and every body made of at most two units, where a   *)
(* unit is one transaction or a block-compensation pair.                   *)
(***************************************************************************)
EXTENDS ChainProperties

CONSTANTS m1, m2, w1, w2, n1, n2,
          MaxHeight             \* height of the last block that is offered

MCMiners == {m1, m2}
MCWallets == {w1, w2}
MCNonces == {n1, n2}

Share(m, h, p, n) ==
    [type |-> "SHARE", miner |-> m, height |-> h, parent |-> p, nonce |-> n,
     proof |-> TRUE, historical |-> TRUE]
Reward(b, m) == [type |-> "REWARD", block |-> b, miner |-> m]
Destination(m, w) == [type |-> "DESTINATION", miner |-> m, wallet |-> w]
Issuance(e, w) ==
    [type |-> "ISSUANCE", evidence |-> e, miner |-> e.miner, wallet |-> w]
Transfer(s, d, u, n) ==
    [type |-> "TRANSFER", source |-> s, destination |-> d, units |-> u,
     nonce |-> n, signed |-> TRUE]

S1 == Share(m1, 1, 0, n1)

Singles ==
    {S1, Share(m1, 2, 1, n1), Share(m1, 1, ForeignId, n1),
     Destination(m1, w1), Destination(m1, w2), Destination(m2, w2),
     Issuance(S1, w1), Issuance(S1, w2),
     Reward(0, m1),
     Transfer(w1, w2, 1, n1), Transfer(w1, w2, 2, n1), Transfer(w2, w1, 1, n1)}
Paired(b, m, w) == <<Reward(b, m), Issuance(Reward(b, m), w)>>
Units ==
    {<<t>> : t \in Singles}
    \cup {Paired(0, m1, w1), Paired(1, m1, w1), Paired(1, m2, w2), Paired(ForeignId, m1, w1)}

(* Destinations come first: nothing else is acceptable at height 1 *)
Bodies(h) ==
    IF h = 1 THEN {<<>>, <<Destination(m1, w1)>>, <<Destination(m1, w1), Destination(m2, w2)>>,
                   <<Destination(m1, w1)>> \o Paired(0, m1, w1), <<S1>>}
             ELSE {<<>>} \cup Units \cup {u \o v : u, v \in Units}

MCGenesis == [height |-> 0, parent |-> ForeignId, time |-> 0, sealed |-> TRUE, txs |-> <<>>]
Offer(h, p, t, body) ==
    [height |-> h, parent |-> p, time |-> t, sealed |-> TRUE, txs |-> body]
MCOffers ==
    UNION {{Offer(h, h - 1, 0, body) : body \in Bodies(h)} : h \in 1..MaxHeight}
    \cup {Offer(1, ForeignId, 0, <<>>)}

(* A short history is enough to meet the documented statements that the    *)
(* code does not keep.                                                     *)
ShortBodies ==
    {<<>>, <<Destination(m1, w1), Destination(m2, w2)>>,
     <<S1>>, <<[S1 EXCEPT !.historical = FALSE]>>, <<Issuance(S1, w1)>>,
     Paired(1, m1, w1), Paired(1, m2, w2)}
ShortOffers == {Offer(h, h - 1, 0, body) : h \in 1..MaxHeight, body \in ShortBodies}
=============================================================================
