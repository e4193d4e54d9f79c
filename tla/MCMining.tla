------------------------------ MODULE MCMining ------------------------------
(***************************************************************************)
(* Bounded instance of the mining service: two miners, one of them without *)
(* a destination at first, a pool of six entries and bodies of three.      *)
(***************************************************************************)
EXTENDS MiningProperties

CONSTANTS m1, m2, w1, w2, n1, root, a1, sc, pn

Share(m, h, p) ==
    [type |-> "SHARE", miner |-> m, height |-> h, parent |-> p, nonce |-> n1,
     proof |-> TRUE, historical |-> TRUE]
Reward(b, m) == [type |-> "REWARD", block |-> b, miner |-> m]
Destination(m, w) == [type |-> "DESTINATION", miner |-> m, wallet |-> w]
Issuance(e, w) ==
    [type |-> "ISSUANCE", evidence |-> e, miner |-> e.miner, wallet |-> w]
Transfer(s, d, u, n) ==
    [type |-> "TRANSFER", source |-> s, destination |-> d, units |-> u,
     nonce |-> n, signed |-> TRUE]
G1 == [type |-> "GRANT", issuer |-> root, subject |-> a1, scope |-> sc, signed |-> TRUE]
R1 == [type |-> "REVOKE", issuer |-> root, grant |-> G1, signed |-> TRUE]
P1 == [type |-> "PUBLICATION", signer |-> a1, scope |-> sc, nonce |-> pn, signed |-> TRUE]

Shares ==
    {Share(m, h, p) : m \in {m1, m2}, h \in 1..(MaxHeight + 1), p \in {ForeignId} \cup 0..MaxHeight}
Rewards == {Reward(b, m) : b \in {ForeignId} \cup 0..(MaxHeight + 1), m \in {m1, m2}}
Destinations == {Destination(m1, w1), Destination(m1, w2), Destination(m2, w2)}
T1 == Transfer(w1, w2, 2, n1)

\* Identifiers: authority records first, then issuances, shares, ..., rewards
One(x, second) == IF x = second THEN 1 ELSE 0
Position(id) == IF id = ForeignId THEN 9 ELSE id
Numbered(e) ==
    One(e.miner, m2) + IF e.type = "SHARE" THEN 100 * e.height + 10 * Position(e.parent)
                       ELSE 1000 + 10 * Position(e.block)
Identifier(tx) ==
    CASE tx = R1 -> 1
      [] tx = G1 -> 2
      [] tx = P1 -> 3
      [] tx.type = "ISSUANCE" -> 10 + 2 * Numbered(tx.evidence) + One(tx.wallet, w2)
      [] tx.type = "SHARE" -> 3000 + Numbered(tx)
      [] tx.type = "DESTINATION" -> 4000 + 2 * One(tx.miner, m2) + One(tx.wallet, w2)
      [] tx = T1 -> 4010
      [] tx.type = "REWARD" -> 5000 + Numbered(tx)
MCIdOf ==
    [tx \in {R1, G1, P1, T1} \cup Shares \cup Rewards \cup Destinations
              \cup {Issuance(e, w) : e \in Shares \cup Rewards, w \in {w1, w2}} |-> Identifier(tx)]

Block(h, p, t, body) ==
    [height |-> h, parent |-> p, time |-> t, sealed |-> TRUE, txs |-> body]
MCGenesis == Block(0, ForeignId, 0, <<>>)
B1 == Block(1, 0, 1, <<Destination(m1, w1)>>)
S1 == Share(m1, 1, 0)
E1 == Reward(1, m1)

\* Evidence, issuances, a publication and a transfer
MCSubmitted ==
    {Destination(m2, w2), P1, Issuance(S1, w1), E1, Issuance(E1, w1), T1}
MCSolutions == {S1, Share(m2, 1, 0), Share(m1, 1, ForeignId)}
MCOffers ==
    {B1, Block(2, 1, 1, <<S1>>), Block(2, 1, 1, <<G1>>),
     Block(2, 1, 1, <<E1, Issuance(E1, w1)>>),
     Block(3, 2, 1, <<Issuance(S1, w1)>>), Block(3, 2, 1, <<P1>>)}
MCBranches == {<<MCGenesis, Block(1, 0, 2, <<>>), Block(2, 1, 2, <<Destination(m1, w2)>>)>>}
=============================================================================
