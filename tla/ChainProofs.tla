----------------------------- MODULE ChainProofs -----------------------------
(***************************************************************************)
(* Theorems about the consensus validator, its projections and its targets *)
(* (stn_chain.c, stn_lifecycle.c, stn_authority.c, stn_economic_state.c,   *)
(* stn_pow.c), for every value of the constants.  Type correctness comes   *)
(* first; the replay theorems rest on the inductive invariant OnceInv,     *)
(* which relates the consumed replay keys of the accepted and candidate    *)
(* projections to the transactions of the accepted history and to the      *)
(* applied prefix of the candidate.  The second part reads the accepted    *)
(* history as a whole.  Authority speaks of the order in which statements  *)
(* were accepted and supply of all issuances there are, so the proofs lay  *)
(* the accepted transactions and the applied prefix of the candidate out   *)
(* on one timeline and show what the projections remember of it.  Replay   *)
(* is a fold over the history, of folds over its blocks.  The last part is *)
(* about targets and work, and shares nothing with the others but the      *)
(* library of folds.                                                       *)
(***************************************************************************)
EXTENDS ChainProperties, Target, FiniteSetTheorems, TLAPS

-----------------------------------------------------------------------------
(* A transaction with a given type field is a record of that type          *)
(* (stn_transaction_decode checks the record against the type).            *)
LEMMA TransactionTypes ==
    ASSUME NEW tx \in TransactionRecords
    PROVE  /\ tx.type = "SHARE" => tx \in ShareRecords
           /\ tx.type = "REWARD" => tx \in RewardRecords
           /\ tx.type = "DESTINATION" => tx \in DestinationRecords
           /\ tx.type = "ISSUANCE" => tx \in IssuanceRecords
           /\ tx.type = "TRANSFER" => tx \in TransferRecords
           /\ tx.type = "GRANT" => tx \in GrantRecords
           /\ tx.type = "REVOKE" => tx \in RevocationRecords
           /\ tx.type = "ROTATE" => tx \in RotationRecords
           /\ tx.type = "PUBLICATION" => tx \in PublicationRecords
  BY DEF TransactionRecords, LifecycleRecords, ShareRecords, RewardRecords,
         DestinationRecords, IssuanceRecords, TransferRecords, GrantRecords,
         RevocationRecords, RotationRecords, PublicationRecords

(* A credit that fits keeps balances and supply within 64 bits             *)
(* (stn_economic_state_apply).                                             *)
LEMMA CreditType ==
    ASSUME NEW e \in Economies, NEW tx \in IssuanceRecords, CreditFits(e, tx)
    PROVE  Credit(e, tx) \in Economies
  <1>1. UnitsOf(tx) \in Nat
    BY EconomyAssumption DEF UnitsOf
  <1>2. tx.wallet \in Wallets
    BY DEF IssuanceRecords
  <1>3. e.supply + UnitsOf(tx) \in 0..MaxUnits
    BY <1>1, EconomyAssumption DEF CreditFits, Economies
  <1>4. e.balance[tx.wallet] + UnitsOf(tx) \in 0..MaxUnits
    BY <1>1, <1>2, EconomyAssumption DEF CreditFits, Economies
  <1> QED
    BY <1>2, <1>3, <1>4 DEF Credit, Economies

(* A transfer that is accepted keeps balances within 64 bits               *)
(* (stn_economic_state_apply_transfer).                                    *)
LEMMA TransferType ==
    ASSUME NEW e \in Economies, NEW tx \in TransferRecords, TransferOK(e, tx)
    PROVE  ApplyTransfer(e, tx) \in Economies
  <1>1. /\ tx.source \in Wallets
        /\ tx.destination \in Wallets
        /\ tx.units \in Nat
        /\ tx.source # tx.destination
        /\ TransferKey(tx) \in Wallets \X Nonces
    BY DEF TransferRecords, TransferOK, TransferKey
  <1>2. e.balance[tx.source] - tx.units \in 0..MaxUnits
    BY <1>1, EconomyAssumption DEF TransferOK, Economies
  <1>3. e.balance[tx.destination] + tx.units \in 0..MaxUnits
    BY <1>1, EconomyAssumption DEF TransferOK, Economies
  <1> DEFINE b == [e.balance EXCEPT ![tx.source] = @ - tx.units,
                                    ![tx.destination] = @ + tx.units]
  <1>4. b \in [Wallets -> 0..MaxUnits]
    BY <1>1, <1>2, <1>3 DEF Economies
  <1>5. ApplyTransfer(e, tx) =
          [e EXCEPT !.balance = b, !.spent = @ \cup {TransferKey(tx)}]
    BY <1>1 DEF ApplyTransfer, Economies
  <1>6. e.spent \cup {TransferKey(tx)} \in SUBSET (Wallets \X Nonces)
    BY <1>1 DEF Economies
  <1> HIDE DEF b
  <1> QED
    BY <1>4, <1>5, <1>6 DEF Economies

(* A consumed replay identifier is one of the known identifiers            *)
(* (stn_replay_state_consume).                                             *)
LEMMA ConsumeType ==
    ASSUME NEW l \in Lifecycles, NEW tx \in LifecycleRecords
    PROVE  Consume(l, tx) \in Lifecycles
  BY DEF Consume, Lifecycles, ReplayKeys

(* The candidate-local authority projection keeps its shape whichever      *)
(* lifecycle record is applied (stn_lifecycle_apply_transaction).          *)
LEMMA GrantType ==
    ASSUME NEW l \in Lifecycles, NEW tx \in GrantRecords
    PROVE  ApplyGrant(l, tx) \in Lifecycles
  <1>1. Consume(l, tx) \in Lifecycles
    BY ConsumeType DEF LifecycleRecords
  <1> QED
    BY <1>1 DEF ApplyGrant, Lifecycles

(* Revocation adds the revoked grant to the revoked set                    *)
(* (stn_authority_state_apply).                                            *)
LEMMA RevocationType ==
    ASSUME NEW l \in Lifecycles, NEW tx \in RevocationRecords
    PROVE  ApplyRevocation(l, tx) \in Lifecycles
  <1>1. Consume(l, tx) \in Lifecycles
    BY ConsumeType DEF LifecycleRecords
  <1>2. tx.grant \in GrantRecords
    BY DEF RevocationRecords
  <1> QED
    BY <1>1, <1>2 DEF ApplyRevocation, Lifecycles

(* Rotation appends to the rotation chain (stn_identity_rotation_apply).   *)
LEMMA RotationType ==
    ASSUME NEW l \in Lifecycles, NEW tx \in RotationRecords
    PROVE  ApplyRotation(l, tx) \in Lifecycles
  <1>1. Consume(l, tx) \in Lifecycles
    BY ConsumeType DEF LifecycleRecords
  <1>2. Append(Consume(l, tx).rotations, tx) \in Seq(RotationRecords)
    BY <1>1 DEF Lifecycles
  <1> QED
    BY <1>1, <1>2 DEF ApplyRotation, Lifecycles

-----------------------------------------------------------------------------
(* The EMPTY state has the types of the model (stn_chain_initialize).      *)
LEMMA TypeInit == Init => TypeOK
  <1> SUFFICES ASSUME Init PROVE TypeOK
    OBVIOUS
  <1>1. EmptyEconomy \in Economies
    BY EconomyAssumption DEF EmptyEconomy, Economies
  <1>2. EmptyLifecycle \in Lifecycles
    BY DEF EmptyLifecycle, Lifecycles
  <1> QED
    BY <1>1, <1>2, ChainAssumption DEF Init, TypeOK, Acceptances

(* The transaction at hand is a transaction record.                        *)
LEMMA TxType == TypeOK /\ Applying => Tx \in TransactionRecords
  BY DEF TypeOK, Applying, Tx, BlockRecords

(* A step that applies economic transactions preserves the types whenever  *)
(* the clone it leaves has the type of an economy.                         *)
LEMMA EconomicStepType ==
    ASSUME TypeOK, NEW after, NEW type, NEW count \in Nat \ {0},
           ApplyEconomic(type, after), Advance(count), after \in Economies
    PROVE  TypeOK'
  BY DEF TypeOK, ApplyEconomic, Advance, accepted

(* The same for a step that applies lifecycle transactions and             *)
(* publications.                                                           *)
LEMMA AuthorityStepType ==
    ASSUME TypeOK, NEW after, NEW type, NEW count \in Nat \ {0},
           ApplyAuthority(type, after), Advance(count), after \in Lifecycles
    PROVE  TypeOK'
  BY DEF TypeOK, ApplyAuthority, Advance, accepted

(* Every step of validate_candidate, refusals included, preserves the      *)
(* types.                                                                  *)
LEMMA TypeNext == TypeOK /\ [Next]_vars => TypeOK'
  <1> SUFFICES ASSUME TypeOK, [Next]_vars PROVE TypeOK'
    OBVIOUS
  <1> USE ChainAssumption
  <1>1. ASSUME NEW b \in Offers \cup {Genesis}, RefuseLink(b) PROVE TypeOK'
    BY <1>1 DEF RefuseLink, TypeOK, accepted, candidate, Acceptances
  <1>2. ASSUME NEW b \in Offers \cup {Genesis}, NEW m \in Modes, Begin(b, m) PROVE TypeOK'
    BY <1>2 DEF Begin, TypeOK, accepted, Acceptances
  <1>3. CASE AcceptShare
    <2>1. Tx \in ShareRecords
      BY <1>3, TxType, TransactionTypes DEF AcceptShare, ApplyEconomic
    <2>2. ShareKey(Tx) \in (Nat \X BlockIds \X BOOLEAN) \X Miners \X Nonces
      BY <2>1 DEF ShareRecords, ShareKey, WorkId
    <2>3. ConsumeShare(cloneE, Tx) \in Economies
      BY <2>2 DEF TypeOK, ConsumeShare, Economies
    <2> QED
      BY <1>3, <2>3, EconomicStepType DEF AcceptShare
  <1>4. CASE AcceptDestination
    <2>1. Tx \in DestinationRecords
      BY <1>4, TxType, TransactionTypes DEF AcceptDestination, ApplyEconomic
    <2>2. SetDestination(cloneE, Tx) \in Economies
      BY <2>1 DEF TypeOK, SetDestination, Economies, DestinationRecords
    <2> QED
      BY <1>4, <2>2, EconomicStepType DEF AcceptDestination
  <1>5. CASE AcceptShareIssuance
    <2>1. Tx \in IssuanceRecords
      BY <1>5, TxType, TransactionTypes DEF AcceptShareIssuance, ApplyEconomic
    <2>2. CreditFits(cloneE, Tx)
      BY <1>5, <2>1 DEF AcceptShareIssuance, ApplyEconomic, TxOK, ShareIssuanceOK
    <2>3. Credit(cloneE, Tx) \in Economies
      BY <2>1, <2>2, CreditType DEF TypeOK
    <2> QED
      BY <1>5, <2>3, EconomicStepType DEF AcceptShareIssuance
  <1>6. CASE AcceptTransfer
    <2>1. Tx \in TransferRecords
      BY <1>6, TxType, TransactionTypes DEF AcceptTransfer, ApplyEconomic
    <2>2. TransferOK(cloneE, Tx)
      BY <1>6, <2>1 DEF AcceptTransfer, ApplyEconomic, TxOK
    <2>3. ApplyTransfer(cloneE, Tx) \in Economies
      BY <2>1, <2>2, TransferType DEF TypeOK
    <2> QED
      BY <1>6, <2>3, EconomicStepType DEF AcceptTransfer
  <1>7. CASE AcceptReward
    <2> DEFINE issuance == block.txs[next + 1]
    <2>1. Applying /\ Tx.type = "REWARD" /\ RewardPairOK(mode, Tx, cloneE)
      BY <1>7 DEF AcceptReward, ApplyEconomic, TxOK
    <2>2. Tx \in RewardRecords
      BY <2>1, TxType, TransactionTypes
    <2>3. issuance \in TransactionRecords
      BY <2>1 DEF TypeOK, Applying, RewardPairOK, RewardPaired, BlockRecords
    <2>4. issuance \in IssuanceRecords /\ CreditFits(cloneE, issuance)
      BY <2>1, <2>3, TransactionTypes DEF RewardPairOK, RewardOK, IsBlockIssuance
    <2> DEFINE recorded == [cloneE EXCEPT !.rewards = @ \cup {Tx}]
    <2>5. recorded \in Economies /\ CreditFits(recorded, issuance)
      BY <2>2, <2>4 DEF TypeOK, Economies, CreditFits
    <2>6. ApplyReward(cloneE, Tx, issuance) \in Economies
      BY <2>4, <2>5, CreditType DEF ApplyReward
    <2> QED
      BY <1>7, <2>6, EconomicStepType DEF AcceptReward
  <1>8. CASE AcceptGrant
    <2>1. Tx \in GrantRecords
      BY <1>8, TxType, TransactionTypes DEF AcceptGrant, ApplyAuthority
    <2> QED
      BY <1>8, <2>1, GrantType, AuthorityStepType DEF AcceptGrant, TypeOK
  <1>9. CASE AcceptRevocation
    <2>1. Tx \in RevocationRecords
      BY <1>9, TxType, TransactionTypes DEF AcceptRevocation, ApplyAuthority
    <2> QED
      BY <1>9, <2>1, RevocationType, AuthorityStepType DEF AcceptRevocation, TypeOK
  <1>10. CASE AcceptRotation
    <2>1. Tx \in RotationRecords
      BY <1>10, TxType, TransactionTypes DEF AcceptRotation, ApplyAuthority
    <2> QED
      BY <1>10, <2>1, RotationType, AuthorityStepType DEF AcceptRotation, TypeOK
  <1>11. CASE AcceptPublication
    <2>1. Tx \in LifecycleRecords
      BY <1>11, TxType, TransactionTypes
         DEF AcceptPublication, ApplyAuthority, LifecycleRecords
    <2>2. (IF Dormant(Tx) THEN cloneA ELSE Consume(cloneA, Tx)) \in Lifecycles
      BY <2>1, ConsumeType DEF TypeOK
    <2> QED
      BY <1>11, <2>2, AuthorityStepType DEF AcceptPublication
  <1>12. CASE Discard
    BY <1>12 DEF Discard, TypeOK, accepted, Acceptances
  <1>13. CASE Publish
    <2>1. history' \in Seq(BlockRecords) /\ economy' \in Economies /\ authority' \in Lifecycles
      BY <1>13 DEF Publish, TypeOK, accepted
    <2> QED
      BY <1>13, <2>1 DEF Publish, TypeOK, Acceptances
  <1>14. CASE UNCHANGED vars
    BY <1>14 DEF vars, accepted, candidate, TypeOK
  <1> QED
    BY <1>1, <1>2, <1>3, <1>4, <1>5, <1>6, <1>7, <1>8, <1>9, <1>10, <1>11,
       <1>12, <1>13, <1>14 DEF Next

(* Every variable of the validator keeps its type: in particular balances  *)
(* and supply stay within 64 bits and are never negative                   *)
(* (stn_economic_state_apply, stn_economic_state_apply_transfer).          *)
THEOREM TypeCorrect == Spec => []TypeOK
  BY TypeInit, TypeNext, PTL DEF Spec

-----------------------------------------------------------------------------
(* Replay protection.  Consuming says which transactions of a block at     *)
(* height ht consume a replay key, KeyOf which key, and Consumed collects  *)
(* the keys that a pair of projections remembers.                          *)
Consuming(tx, ht) ==
    \/ tx.type \in {"SHARE", "REWARD", "TRANSFER", "GRANT", "REVOKE", "ROTATE"}
    \/ tx.type = "PUBLICATION" /\ ht >= ActivationHeight
KeyOf(tx) ==
    CASE tx.type = "SHARE"    -> <<"SHARE", ShareKey(tx)>>
      [] tx.type = "REWARD"   -> <<"REWARD", tx>>
      [] tx.type = "TRANSFER" -> <<"TRANSFER", TransferKey(tx)>>
      [] OTHER                -> <<"AUTHORITY", ReplayKey(tx)>>
Consumed(e, a) ==
    ({"SHARE"} \X e.shares) \cup ({"REWARD"} \X e.rewards)
    \cup ({"TRANSFER"} \X e.spent) \cup ({"AUTHORITY"} \X a.consumed)

HistoryConsumes(h, i) == Accepted(h, i) /\ Consuming(TxAt(h, i), h - 1)
PrefixConsumes(i) ==
    /\ i \in DOMAIN block.txs
    /\ i < next
    /\ Consuming(block.txs[i], Len(history))

(* The inductive invariant.  Every consuming transaction of the history    *)
(* has its key in the accepted projections, every one of the applied       *)
(* prefix has its key in the clones but not in the accepted projections,   *)
(* the clones forget nothing, and no two of these transactions share one.  *)
OnceInv ==
    /\ mode = "idle" => next = 1
    /\ mode \in Modes => block.height = Len(history)
    /\ Consumed(economy, authority) \subseteq Consumed(cloneE, cloneA)
    /\ \A h, i \in Nat : HistoryConsumes(h, i) =>
           KeyOf(TxAt(h, i)) \in Consumed(economy, authority)
    /\ \A i \in Nat : PrefixConsumes(i) =>
           /\ KeyOf(block.txs[i]) \in Consumed(cloneE, cloneA)
           /\ KeyOf(block.txs[i]) \notin Consumed(economy, authority)
    /\ \A h, i, k, j \in Nat :
           (/\ HistoryConsumes(h, i)
            /\ HistoryConsumes(k, j)
            /\ KeyOf(TxAt(h, i)) = KeyOf(TxAt(k, j))) => h = k /\ i = j
    /\ \A i, j \in Nat :
           (/\ PrefixConsumes(i)
            /\ PrefixConsumes(j)
            /\ KeyOf(block.txs[i]) = KeyOf(block.txs[j])) => i = j

(* What one pass of the transaction loop does to the consumed keys: the    *)
(* transaction at hand consumes a fresh key or none, and the issuance that *)
(* follows block evidence consumes none.                                   *)
LoopPass(count) ==
    /\ Applying
    /\ UNCHANGED <<accepted, block, mode>>
    /\ next' = next + count
    /\ count = 1 \/ (count = 2 /\ ~Consuming(block.txs[next + 1], Len(history)))
    /\ IF Consuming(Tx, Len(history))
       THEN /\ KeyOf(Tx) \notin Consumed(cloneE, cloneA)
            /\ Consumed(cloneE, cloneA)' = Consumed(cloneE, cloneA) \cup {KeyOf(Tx)}
       ELSE Consumed(cloneE, cloneA)' = Consumed(cloneE, cloneA)

(* One pass of the loop steps over one transaction, or a reward pair, whose *)
(* replay key was fresh, and records that key (validate_candidate).        *)
LEMMA OnceLoopPass ==
    ASSUME TypeOK, OnceInv, NEW count \in {1, 2}, LoopPass(count)
    PROVE  OnceInv'
  <1>1. /\ next \in Nat
        /\ next' = next + count
        /\ \A i \in Nat : i < next' => i < next \/ i = next \/ (i = next + 1 /\ count = 2)
    BY DEF LoopPass, TypeOK
  <1>2. \A i \in Nat : PrefixConsumes(i)' =>
            PrefixConsumes(i) \/ (i = next /\ Consuming(Tx, Len(history)))
    BY <1>1 DEF LoopPass, PrefixConsumes, accepted, Tx
  <1>3. UNCHANGED <<history, economy, authority, block, mode>>
    BY DEF LoopPass, accepted
  <1>4. /\ Consumed(economy, authority)' = Consumed(economy, authority)
        /\ Consumed(cloneE, cloneA) \subseteq Consumed(cloneE, cloneA)'
    BY <1>3 DEF LoopPass, Consumed
  <1>5. \A h, i \in Nat : /\ HistoryConsumes(h, i)' <=> HistoryConsumes(h, i)
                         /\ KeyOf(TxAt(h, i))' = KeyOf(TxAt(h, i))
    BY <1>3 DEF HistoryConsumes, Accepted, TxAt, KeyOf
  <1>6. (mode = "idle" => next = 1)' /\ (mode \in Modes => block.height = Len(history))'
    BY <1>3 DEF OnceInv, LoopPass, Applying, Modes
  <1>7. Consuming(Tx, Len(history)) =>
            /\ KeyOf(Tx) \notin Consumed(cloneE, cloneA)
            /\ KeyOf(Tx) \notin Consumed(economy, authority)
            /\ KeyOf(Tx) \in Consumed(cloneE, cloneA)'
    BY DEF LoopPass, OnceInv
  <1>8. ASSUME NEW i \in Nat, PrefixConsumes(i)'
        PROVE  /\ KeyOf(block.txs[i])' \in Consumed(cloneE, cloneA)'
               /\ KeyOf(block.txs[i])' \notin Consumed(economy, authority)'
    BY <1>2, <1>3, <1>4, <1>7, <1>8 DEF OnceInv, Tx, KeyOf
  <1>9. ASSUME NEW i \in Nat, NEW j \in Nat, PrefixConsumes(i)', PrefixConsumes(j)',
               KeyOf(block.txs[i])' = KeyOf(block.txs[j])'
        PROVE  i = j
    BY <1>2, <1>3, <1>7, <1>9 DEF OnceInv, Tx, KeyOf
  <1>10. ASSUME NEW h \in Nat, NEW i \in Nat, HistoryConsumes(h, i)'
         PROVE  KeyOf(TxAt(h, i))' \in Consumed(economy, authority)'
    BY <1>4, <1>5, <1>10 DEF OnceInv
  <1>11. ASSUME NEW h \in Nat, NEW i \in Nat, NEW k \in Nat, NEW j \in Nat,
                HistoryConsumes(h, i)', HistoryConsumes(k, j)',
                KeyOf(TxAt(h, i))' = KeyOf(TxAt(k, j))'
         PROVE  h = k /\ i = j
    BY <1>5, <1>11 DEF OnceInv
  <1>12. Consumed(economy, authority)' \subseteq Consumed(cloneE, cloneA)'
    BY <1>4 DEF OnceInv
  <1> QED
    BY <1>6, <1>8, <1>9, <1>10, <1>11, <1>12 DEF OnceInv

(* Every accepting action is such a pass.                                  *)
LEMMA AcceptIsLoopPass ==
    ASSUME TypeOK, OnceInv
    PROVE  /\ AcceptShare => LoopPass(1)
           /\ AcceptDestination => LoopPass(1)
           /\ AcceptShareIssuance => LoopPass(1)
           /\ AcceptTransfer => LoopPass(1)
           /\ AcceptReward => LoopPass(2)
           /\ AcceptGrant => LoopPass(1)
           /\ AcceptRevocation => LoopPass(1)
           /\ AcceptRotation => LoopPass(1)
           /\ AcceptPublication => LoopPass(1)
  <1> USE DEF TypeOK, Economies, Lifecycles
  <1>1. ASSUME AcceptShare PROVE LoopPass(1)
    <2>1. Tx.type = "SHARE" /\ ShareKey(Tx) \notin cloneE.shares
      BY <1>1 DEF AcceptShare, ApplyEconomic, TxOK, ShareOK, ShareFresh
    <2>2. Consuming(Tx, Len(history)) /\ KeyOf(Tx) = <<"SHARE", ShareKey(Tx)>>
      BY <2>1 DEF Consuming, KeyOf
    <2>3. /\ cloneE'.shares = cloneE.shares \cup {ShareKey(Tx)}
          /\ cloneE'.rewards = cloneE.rewards
          /\ cloneE'.spent = cloneE.spent
          /\ cloneA' = cloneA
      BY <1>1 DEF AcceptShare, ApplyEconomic, ConsumeShare
    <2>4. KeyOf(Tx) \notin Consumed(cloneE, cloneA)
      BY <2>1, <2>2 DEF Consumed
    <2>5. Consumed(cloneE, cloneA)' = Consumed(cloneE, cloneA) \cup {KeyOf(Tx)}
      BY <2>2, <2>3 DEF Consumed
    <2> QED
      BY <1>1, <2>2, <2>4, <2>5 DEF AcceptShare, ApplyEconomic, Advance, LoopPass
  <1>2. ASSUME AcceptDestination PROVE LoopPass(1)
    <2>1. /\ Tx.type = "DESTINATION"
          /\ cloneE'.shares = cloneE.shares
          /\ cloneE'.rewards = cloneE.rewards
          /\ cloneE'.spent = cloneE.spent
          /\ cloneA' = cloneA
      BY <1>2 DEF AcceptDestination, ApplyEconomic, SetDestination
    <2>2. ~Consuming(Tx, Len(history)) /\ Consumed(cloneE, cloneA)' = Consumed(cloneE, cloneA)
      BY <2>1 DEF Consuming, Consumed
    <2> QED
      BY <1>2, <2>2 DEF AcceptDestination, ApplyEconomic, Advance, LoopPass
  <1>3. ASSUME AcceptShareIssuance PROVE LoopPass(1)
    <2>1. /\ Tx.type = "ISSUANCE"
          /\ cloneE'.shares = cloneE.shares
          /\ cloneE'.rewards = cloneE.rewards
          /\ cloneE'.spent = cloneE.spent
          /\ cloneA' = cloneA
      BY <1>3 DEF AcceptShareIssuance, ApplyEconomic, Credit
    <2>2. ~Consuming(Tx, Len(history)) /\ Consumed(cloneE, cloneA)' = Consumed(cloneE, cloneA)
      BY <2>1 DEF Consuming, Consumed
    <2> QED
      BY <1>3, <2>2 DEF AcceptShareIssuance, ApplyEconomic, Advance, LoopPass
  <1>4. ASSUME AcceptTransfer PROVE LoopPass(1)
    <2>1. Tx.type = "TRANSFER" /\ TransferKey(Tx) \notin cloneE.spent
      BY <1>4 DEF AcceptTransfer, ApplyEconomic, TxOK, TransferOK
    <2>2. Consuming(Tx, Len(history)) /\ KeyOf(Tx) = <<"TRANSFER", TransferKey(Tx)>>
      BY <2>1 DEF Consuming, KeyOf
    <2>3. /\ cloneE'.shares = cloneE.shares
          /\ cloneE'.rewards = cloneE.rewards
          /\ cloneE'.spent = cloneE.spent \cup {TransferKey(Tx)}
          /\ cloneA' = cloneA
      BY <1>4 DEF AcceptTransfer, ApplyEconomic, ApplyTransfer
    <2>4. KeyOf(Tx) \notin Consumed(cloneE, cloneA)
      BY <2>1, <2>2 DEF Consumed
    <2>5. Consumed(cloneE, cloneA)' = Consumed(cloneE, cloneA) \cup {KeyOf(Tx)}
      BY <2>2, <2>3 DEF Consumed
    <2> QED
      BY <1>4, <2>2, <2>4, <2>5 DEF AcceptTransfer, ApplyEconomic, Advance, LoopPass
  <1>5. ASSUME AcceptReward PROVE LoopPass(2)
    <2>1. /\ Tx.type = "REWARD"
          /\ Tx \notin cloneE.rewards
          /\ block.txs[next + 1].type = "ISSUANCE"
      BY <1>5 DEF AcceptReward, ApplyEconomic, TxOK, RewardPairOK, RewardOK, IsBlockIssuance
    <2>2. /\ Consuming(Tx, Len(history))
          /\ KeyOf(Tx) = <<"REWARD", Tx>>
          /\ ~Consuming(block.txs[next + 1], Len(history))
      BY <2>1 DEF Consuming, KeyOf
    <2>3. /\ cloneE'.shares = cloneE.shares
          /\ cloneE'.rewards = cloneE.rewards \cup {Tx}
          /\ cloneE'.spent = cloneE.spent
          /\ cloneA' = cloneA
      BY <1>5 DEF AcceptReward, ApplyEconomic, ApplyReward, Credit
    <2>4. KeyOf(Tx) \notin Consumed(cloneE, cloneA)
      BY <2>1, <2>2 DEF Consumed
    <2>5. Consumed(cloneE, cloneA)' = Consumed(cloneE, cloneA) \cup {KeyOf(Tx)}
      BY <2>2, <2>3 DEF Consumed
    <2> QED
      BY <1>5, <2>2, <2>4, <2>5 DEF AcceptReward, ApplyEconomic, Advance, LoopPass
  <1>6. ASSUME AcceptGrant \/ AcceptRevocation \/ AcceptRotation \/ AcceptPublication
        PROVE  LoopPass(1)
    <2>1. /\ Tx.type \in {"GRANT", "REVOKE", "ROTATE", "PUBLICATION"}
          /\ cloneE' = cloneE
          /\ Applying
          /\ Advance(1)
      BY <1>6 DEF AcceptGrant, AcceptRevocation, AcceptRotation, AcceptPublication, ApplyAuthority
    <2>2. KeyOf(Tx) = <<"AUTHORITY", ReplayKey(Tx)>>
      BY <2>1 DEF KeyOf
    <2>3. block.height = Len(history)
      BY <2>1 DEF OnceInv, Applying
    <2>4. Consuming(Tx, Len(history)) <=> ~Dormant(Tx)
      BY <2>1, <2>3, ChainAssumption DEF Consuming, Dormant, BlockRecords
    <2>5. CASE Dormant(Tx)
      <3>1. cloneA' = cloneA
        BY <1>6, <2>5 DEF AcceptGrant, AcceptRevocation, AcceptRotation, AcceptPublication,
                          ApplyAuthority, Dormant
      <3> QED
        BY <2>1, <2>4, <2>5, <3>1 DEF LoopPass, Advance, Consumed
    <2>6. CASE ~Dormant(Tx)
      <3>1. /\ ReplayKey(Tx) \notin cloneA.consumed
            /\ cloneA'.consumed = cloneA.consumed \cup {ReplayKey(Tx)}
        <4>1. CASE AcceptGrant
          BY <4>1 DEF AcceptGrant, ApplyAuthority, TxOK, GrantOK, Fresh, ApplyGrant, Consume
        <4>2. CASE AcceptRevocation
          BY <4>2 DEF AcceptRevocation, ApplyAuthority, TxOK, RevocationOK, Fresh,
                      ApplyRevocation, Consume
        <4>3. CASE AcceptRotation
          BY <4>3 DEF AcceptRotation, ApplyAuthority, TxOK, RotationOK, Fresh,
                      ApplyRotation, Consume
        <4>4. CASE AcceptPublication
          BY <2>6, <4>4 DEF AcceptPublication, ApplyAuthority, TxOK, PublicationOK, Fresh, Consume
        <4> QED
          BY <1>6, <4>1, <4>2, <4>3, <4>4
      <3>2. KeyOf(Tx) \notin Consumed(cloneE, cloneA)
        BY <2>2, <3>1 DEF Consumed
      <3>3. Consumed(cloneE, cloneA)' = Consumed(cloneE, cloneA) \cup {KeyOf(Tx)}
        BY <2>1, <2>2, <3>1 DEF Consumed
      <3> QED
        BY <2>1, <2>4, <2>6, <3>2, <3>3 DEF LoopPass, Advance
    <2> QED
      BY <2>5, <2>6
  <1> QED
    BY <1>1, <1>2, <1>3, <1>4, <1>5, <1>6

(* Between validations the applied prefix is empty and the clones are the  *)
(* accepted projections; a discarded candidate returns to such a state.    *)
LEMMA OnceEmptyPrefix ==
    ASSUME TypeOK, OnceInv, block' \in BlockRecords, next' = 1,
           UNCHANGED accepted, cloneE' = economy, cloneA' = authority,
           (mode \in Modes => block.height = Len(history))'
    PROVE  OnceInv'
  <1>1. \A i \in Nat : ~PrefixConsumes(i)'
    BY DEF PrefixConsumes, BlockRecords
  <1>2. UNCHANGED <<history, economy, authority>>
    BY DEF accepted
  <1>3. \A h, i \in Nat : /\ HistoryConsumes(h, i)' <=> HistoryConsumes(h, i)
                         /\ KeyOf(TxAt(h, i))' = KeyOf(TxAt(h, i))
    BY <1>2 DEF HistoryConsumes, Accepted, TxAt, KeyOf
  <1>4. /\ Consumed(economy, authority)' = Consumed(economy, authority)
        /\ Consumed(cloneE, cloneA)' = Consumed(economy, authority)
    BY <1>2 DEF Consumed
  <1> QED
    BY <1>1, <1>3, <1>4 DEF OnceInv

(* Publishing appends the candidate, whose transactions were all applied.  *)
LEMMA OncePublish ==
    ASSUME TypeOK, OnceInv, Publish, mode = "history"
    PROVE  OnceInv'
  <1>1. /\ next > Len(block.txs)
        /\ history' = Append(history, block)
        /\ economy' = cloneE /\ authority' = cloneA
        /\ cloneE' = cloneE /\ cloneA' = cloneA
        /\ block' = Genesis /\ mode' = "idle" /\ next' = 1
    BY DEF Publish
  <1>2. /\ history \in Seq(BlockRecords) /\ block.txs \in Seq(TransactionRecords)
        /\ next \in Nat /\ Len(history) \in Nat
    BY DEF TypeOK, BlockRecords
  <1> DEFINE top == Len(history) + 1
  <1>3. \A h, i \in Nat : HistoryConsumes(h, i)' =>
           \/ HistoryConsumes(h, i) /\ h # top /\ KeyOf(TxAt(h, i))' = KeyOf(TxAt(h, i))
           \/ h = top /\ PrefixConsumes(i) /\ KeyOf(TxAt(h, i))' = KeyOf(block.txs[i])
    <2> SUFFICES ASSUME NEW h \in Nat, NEW i \in Nat, HistoryConsumes(h, i)'
                 PROVE  \/ HistoryConsumes(h, i) /\ h # top /\ KeyOf(TxAt(h, i))' = KeyOf(TxAt(h, i))
                        \/ h = top /\ PrefixConsumes(i) /\ KeyOf(TxAt(h, i))' = KeyOf(block.txs[i])
      OBVIOUS
    <2>1. h \in 1..top /\ i \in DOMAIN history'[h].txs /\ Consuming(history'[h].txs[i], h - 1)
      BY <1>1, <1>2 DEF HistoryConsumes, Accepted, TxAt
    <2>2. CASE h = top
      <3>1. history'[h] = block
        BY <1>1, <1>2, <2>2
      <3>2. i \in 1..Len(block.txs) /\ i < next /\ h - 1 = Len(history)
        BY <1>1, <1>2, <2>1, <2>2, <3>1
      <3>3. PrefixConsumes(i)
        BY <1>2, <2>1, <2>2, <3>1, <3>2 DEF PrefixConsumes
      <3>4. KeyOf(TxAt(h, i))' = KeyOf(block.txs[i])
        BY <3>1 DEF TxAt, KeyOf
      <3> QED
        BY <2>2, <3>3, <3>4
    <2>3. CASE h # top
      <3>1. h \in DOMAIN history /\ history'[h] = history[h]
        BY <1>1, <1>2, <2>1, <2>3
      <3>2. HistoryConsumes(h, i)
        BY <2>1, <3>1 DEF HistoryConsumes, Accepted, TxAt
      <3>3. KeyOf(TxAt(h, i))' = KeyOf(TxAt(h, i))
        BY <3>1 DEF TxAt, KeyOf
      <3> QED
        BY <2>3, <3>2, <3>3
    <2> QED
      BY <2>2, <2>3
  <1>4. /\ Consumed(economy, authority)' = Consumed(cloneE, cloneA)
        /\ Consumed(cloneE, cloneA)' = Consumed(cloneE, cloneA)
        /\ Consumed(economy, authority) \subseteq Consumed(cloneE, cloneA)
    BY <1>1 DEF Consumed, OnceInv
  <1>5. \A i \in Nat : ~PrefixConsumes(i)'
    BY <1>1, ChainAssumption DEF PrefixConsumes, BlockRecords
  <1>6. ASSUME NEW h \in Nat, NEW i \in Nat, HistoryConsumes(h, i)'
        PROVE  KeyOf(TxAt(h, i))' \in Consumed(economy, authority)'
    BY <1>3, <1>4, <1>6 DEF OnceInv
  <1>7. ASSUME NEW h \in Nat, NEW i \in Nat, NEW k \in Nat, NEW j \in Nat,
               HistoryConsumes(h, i)', HistoryConsumes(k, j)',
               KeyOf(TxAt(h, i))' = KeyOf(TxAt(k, j))'
        PROVE  h = k /\ i = j
    <2>1. CASE h # top /\ k # top
      <3>1. /\ HistoryConsumes(h, i) /\ KeyOf(TxAt(h, i))' = KeyOf(TxAt(h, i))
            /\ HistoryConsumes(k, j) /\ KeyOf(TxAt(k, j))' = KeyOf(TxAt(k, j))
        BY <1>3, <1>7, <2>1
      <3> QED
        BY <1>7, <3>1 DEF OnceInv
    <2>2. CASE h = top /\ k = top
      <3>1. /\ PrefixConsumes(i) /\ KeyOf(TxAt(h, i))' = KeyOf(block.txs[i])
            /\ PrefixConsumes(j) /\ KeyOf(TxAt(k, j))' = KeyOf(block.txs[j])
        BY <1>3, <1>7, <2>2
      <3> QED
        BY <1>7, <2>2, <3>1 DEF OnceInv
    <2>3. CASE h # top /\ k = top
      <3>1. /\ HistoryConsumes(h, i) /\ KeyOf(TxAt(h, i))' = KeyOf(TxAt(h, i))
            /\ PrefixConsumes(j) /\ KeyOf(TxAt(k, j))' = KeyOf(block.txs[j])
        BY <1>3, <1>7, <2>3
      <3> QED
        BY <1>7, <3>1 DEF OnceInv
    <2>4. CASE h = top /\ k # top
      <3>1. /\ PrefixConsumes(i) /\ KeyOf(TxAt(h, i))' = KeyOf(block.txs[i])
            /\ HistoryConsumes(k, j) /\ KeyOf(TxAt(k, j))' = KeyOf(TxAt(k, j))
        BY <1>3, <1>7, <2>4
      <3> QED
        BY <1>7, <3>1 DEF OnceInv
    <2> QED
      BY <2>1, <2>2, <2>3, <2>4
  <1>8. (mode = "idle" => next = 1)' /\ (mode \in Modes => block.height = Len(history))'
    BY <1>1 DEF Modes
  <1> QED
    BY <1>4, <1>5, <1>6, <1>7, <1>8 DEF OnceInv

(* The verdict of a validation is no part of the invariant.                *)
LEMMA OnceStutter ==
    ASSUME OnceInv, UNCHANGED <<history, economy, authority, block, mode, next, cloneE, cloneA>>
    PROVE  OnceInv'
  <1>1. \A h, i \in Nat : /\ HistoryConsumes(h, i)' <=> HistoryConsumes(h, i)
                         /\ KeyOf(TxAt(h, i))' = KeyOf(TxAt(h, i))
    BY DEF HistoryConsumes, Accepted, TxAt, KeyOf
  <1>2. \A i \in Nat : /\ PrefixConsumes(i)' <=> PrefixConsumes(i)
                      /\ KeyOf(block.txs[i])' = KeyOf(block.txs[i])
    BY DEF PrefixConsumes, KeyOf
  <1>3. /\ Consumed(economy, authority)' = Consumed(economy, authority)
        /\ Consumed(cloneE, cloneA)' = Consumed(cloneE, cloneA)
    BY DEF Consumed
  <1> QED
    BY <1>1, <1>2, <1>3 DEF OnceInv

(* The EMPTY state has consumed nothing (stn_chain_initialize).            *)
LEMMA OnceInit == Init => OnceInv
  <1> SUFFICES ASSUME Init PROVE OnceInv
    OBVIOUS
  <1>1. \A h, i \in Nat : ~HistoryConsumes(h, i)
    BY DEF Init, HistoryConsumes, Accepted
  <1>2. \A i \in Nat : ~PrefixConsumes(i)
    BY ChainAssumption DEF Init, PrefixConsumes, BlockRecords
  <1>3. mode = "idle" /\ next = 1 /\ cloneE = economy /\ cloneA = authority
    BY DEF Init
  <1> QED
    BY <1>1, <1>2, <1>3 DEF OnceInv, Modes

(* Every step of validate_candidate keeps the consumed keys equal to the   *)
(* keys of the transactions applied.                                       *)
LEMMA OnceNext == TypeOK /\ OnceInv /\ [Next]_vars => OnceInv'
  <1> SUFFICES ASSUME TypeOK, OnceInv, [Next]_vars PROVE OnceInv'
    OBVIOUS
  <1>0. TypeOK'
    BY TypeNext
  <1>1. ASSUME NEW b \in Offers \cup {Genesis}, RefuseLink(b) PROVE OnceInv'
    BY <1>1, OnceStutter DEF RefuseLink, accepted, candidate
  <1>2. ASSUME NEW b \in Offers \cup {Genesis}, NEW m \in Modes, Begin(b, m) PROVE OnceInv'
    <2>1. block.height' = Len(history)'
      <3>1. LinkOK(b) /\ block' = b /\ history' = history
        BY <1>2 DEF Begin, accepted
      <3>2. CASE history = <<>>
        BY <3>1, <3>2, ChainAssumption DEF LinkOK
      <3>3. CASE history # <<>>
        BY <3>1, <3>3 DEF LinkOK, Height
      <3> QED
        BY <3>2, <3>3
    <2> QED
      BY <1>0, <1>2, <2>1, OnceEmptyPrefix DEF Begin, TypeOK
  <1>3. CASE AcceptShare \/ AcceptDestination \/ AcceptShareIssuance \/ AcceptTransfer
             \/ AcceptReward \/ AcceptGrant \/ AcceptRevocation \/ AcceptRotation
             \/ AcceptPublication
    <2>1. LoopPass(1) \/ LoopPass(2)
      BY <1>3, AcceptIsLoopPass
    <2> QED
      BY <2>1, OnceLoopPass
  <1>4. CASE Discard
    BY <1>0, <1>4, OnceEmptyPrefix DEF Discard, Modes, TypeOK
  <1>5. CASE Publish /\ mode = "history"
    BY <1>5, OncePublish
  <1>6. CASE Publish /\ mode = "state"
    <2>1. UNCHANGED accepted /\ cloneE' = economy /\ cloneA' = authority
          /\ mode' = "idle" /\ next' = 1
      BY <1>6 DEF Publish, accepted
    <2> QED
      BY <1>0, <2>1, OnceEmptyPrefix DEF Modes, TypeOK
  <1>7. CASE UNCHANGED vars
    BY <1>7, OnceStutter DEF vars, accepted, candidate
  <1> QED
    BY <1>1, <1>2, <1>3, <1>4, <1>5, <1>6, <1>7 DEF Next, Publish, Modes

(* Consumed keys are those of the accepted history in every reachable      *)
(* state (validate_candidate).                                             *)
LEMMA OnceCorrect == Spec => []OnceInv
  BY TypeInit, TypeNext, OnceInit, OnceNext, PTL DEF Spec

(* Positions of accepted transactions are natural numbers.                 *)
LEMMA PositionsAreNat ==
    ASSUME TypeOK, NEW h \in DOMAIN history, NEW i \in DOMAIN history[h].txs
    PROVE  /\ h \in Nat \ {0}
           /\ i \in Nat \ {0}
           /\ TxAt(h, i) \in TransactionRecords
  <1>1. history[h] \in BlockRecords /\ h \in 1..Len(history)
    BY DEF TypeOK
  <1>2. history[h].txs \in Seq(TransactionRecords)
    BY <1>1 DEF BlockRecords
  <1> QED
    BY <1>1, <1>2 DEF TxAt

(* Two consuming transactions of the accepted history with the same replay *)
(* key are the same transaction (the replay checks of validate_candidate). *)
LEMMA SameKeySamePosition ==
    ASSUME TypeOK, OnceInv,
           NEW h \in DOMAIN history, NEW i \in DOMAIN history[h].txs,
           NEW k \in DOMAIN history, NEW j \in DOMAIN history[k].txs,
           Consuming(TxAt(h, i), h - 1), Consuming(TxAt(k, j), k - 1),
           KeyOf(TxAt(h, i)) = KeyOf(TxAt(k, j))
    PROVE  h = k /\ i = j
  <1>1. HistoryConsumes(h, i) /\ HistoryConsumes(k, j)
    BY DEF HistoryConsumes, Accepted
  <1>2. h \in Nat /\ i \in Nat /\ k \in Nat /\ j \in Nat
    BY PositionsAreNat
  <1> QED
    BY <1>1, <1>2 DEF OnceInv

(* Share keys consumed once means share evidence accepted once             *)
(* (stn_share_replay_consume).                                             *)
LEMMA ShareOnceStep == TypeOK /\ OnceInv => ShareEvidenceOnce
  <1> SUFFICES ASSUME TypeOK, OnceInv,
                      NEW h \in DOMAIN history, NEW k \in DOMAIN history,
                      NEW i \in DOMAIN history[h].txs, NEW j \in DOMAIN history[k].txs,
                      TxAt(h, i).type = "SHARE",
                      TxAt(k, j).type = "SHARE",
                      ShareKey(TxAt(h, i)) = ShareKey(TxAt(k, j))
               PROVE  h = k /\ i = j
    BY DEF ShareEvidenceOnce
  <1>1. Consuming(TxAt(h, i), h - 1) /\ Consuming(TxAt(k, j), k - 1)
    BY DEF Consuming
  <1>2. KeyOf(TxAt(h, i)) = KeyOf(TxAt(k, j))
    BY DEF KeyOf
  <1> QED
    BY <1>1, <1>2, SameKeySamePosition

(* No share evidence enters the accepted history twice                     *)
(* (stn_share_replay_consume).                                             *)
THEOREM ShareOnce == Spec => []ShareEvidenceOnce
  BY TypeCorrect, OnceCorrect, ShareOnceStep, PTL

(* The same for block-compensation evidence                                *)
(* (stn_block_compensation_replay_consume).                                *)
LEMMA RewardOnceStep == TypeOK /\ OnceInv => RewardEvidenceOnce
  <1> SUFFICES ASSUME TypeOK, OnceInv,
                      NEW h \in DOMAIN history, NEW k \in DOMAIN history,
                      NEW i \in DOMAIN history[h].txs, NEW j \in DOMAIN history[k].txs,
                      TxAt(h, i).type = "REWARD",
                      TxAt(h, i) = TxAt(k, j)
               PROVE  h = k /\ i = j
    BY DEF RewardEvidenceOnce
  <1>1. Consuming(TxAt(h, i), h - 1) /\ Consuming(TxAt(k, j), k - 1)
    BY DEF Consuming
  <1>2. KeyOf(TxAt(h, i)) = KeyOf(TxAt(k, j))
    BY DEF KeyOf
  <1> QED
    BY <1>1, <1>2, SameKeySamePosition

(* No block-compensation evidence enters the accepted history twice        *)
(* (stn_block_compensation_replay_consume).                                *)
THEOREM RewardOnce == Spec => []RewardEvidenceOnce
  BY TypeCorrect, OnceCorrect, RewardOnceStep, PTL

(* The same for transfer nonces (stn_transfer_envelope_replay_consume).    *)
LEMMA TransferOnceStep == TypeOK /\ OnceInv => TransferNonceOnce
  <1> SUFFICES ASSUME TypeOK, OnceInv,
                      NEW h \in DOMAIN history, NEW k \in DOMAIN history,
                      NEW i \in DOMAIN history[h].txs, NEW j \in DOMAIN history[k].txs,
                      TxAt(h, i).type = "TRANSFER",
                      TxAt(k, j).type = "TRANSFER",
                      TransferKey(TxAt(h, i)) = TransferKey(TxAt(k, j))
               PROVE  h = k /\ i = j
    BY DEF TransferNonceOnce
  <1>1. Consuming(TxAt(h, i), h - 1) /\ Consuming(TxAt(k, j), k - 1)
    BY DEF Consuming
  <1>2. KeyOf(TxAt(h, i)) = KeyOf(TxAt(k, j))
    BY DEF KeyOf
  <1> QED
    BY <1>1, <1>2, SameKeySamePosition

(* A transfer nonce of a controller is spent by one accepted transfer      *)
(* (stn_transfer_envelope_replay_consume).                                 *)
THEOREM TransferOnce == Spec => []TransferNonceOnce
  BY TypeCorrect, OnceCorrect, TransferOnceStep, PTL

(* Nothing that authorises value acts twice in an accepted history (the    *)
(* three consumed sets of the economic state).                             *)
THEOREM EvidenceOnce == Spec => []EvidenceActsOnce
  <1>1. ShareEvidenceOnce /\ RewardEvidenceOnce /\ TransferNonceOnce => EvidenceActsOnce
    BY DEF EvidenceActsOnce
  <1> QED
    BY <1>1, ShareOnce, RewardOnce, TransferOnce, PTL

(* The same for lifecycle statements and governed publications             *)
(* (stn_lifecycle.c, consume).                                             *)
LEMMA AuthorityOnceStep == TypeOK /\ OnceInv => AuthorityActsOnce
  <1> SUFFICES ASSUME TypeOK, OnceInv,
                      NEW h \in DOMAIN history, NEW k \in DOMAIN history,
                      NEW i \in DOMAIN history[h].txs, NEW j \in DOMAIN history[k].txs,
                      Governed(h, i), Governed(k, j),
                      ReplayKey(TxAt(h, i)) = ReplayKey(TxAt(k, j))
               PROVE  h = k /\ i = j
    BY DEF AuthorityActsOnce
  <1>1. Consuming(TxAt(h, i), h - 1) /\ Consuming(TxAt(k, j), k - 1)
    BY DEF Governed, Consuming
  <1>2. KeyOf(TxAt(h, i)) = KeyOf(TxAt(k, j))
    BY DEF Governed, KeyOf
  <1> QED
    BY <1>1, <1>2, SameKeySamePosition

(* A grant, revocation, rotation or governed publication statement acts    *)
(* once (stn_lifecycle.c, consume).                                        *)
THEOREM AuthorityOnce == Spec => []AuthorityActsOnce
  BY TypeCorrect, OnceCorrect, AuthorityOnceStep, PTL

-----------------------------------------------------------------------------
(* Evidence of issuances.  Transaction j of block b has its evidence when  *)
(* share evidence is in one of the first n blocks, and block evidence is   *)
(* right before it and names one of those blocks.  The invariant extends   *)
(* IssuanceHasEvidence to the applied prefix of a candidate.               *)
HasEvidence(b, j, n) ==
    /\ IsShareIssuance(b.txs[j]) =>
          \E h \in 1..n : \E i \in DOMAIN history[h].txs :
              history[h].txs[i] = b.txs[j].evidence
    /\ IsBlockIssuance(b.txs[j]) =>
          /\ j > 1
          /\ b.txs[j - 1] = b.txs[j].evidence
          /\ b.txs[j - 1].block \in 0..(n - 1)
EvidenceInv ==
    /\ \A k \in DOMAIN history : \A j \in DOMAIN history[k].txs :
           HasEvidence(history[k], j, k - 1)
    /\ mode = "history" =>
           \A j \in DOMAIN block.txs : j < next => HasEvidence(block, j, Len(history))

(* Evidence found in a prefix stays there while the history only grows     *)
(* above it.                                                               *)
LEMMA EvidenceStays ==
    ASSUME NEW b, NEW j, NEW n \in Nat, HasEvidence(b, j, n),
           \A h \in 1..n : history'[h] = history[h]
    PROVE  /\ IsShareIssuance(b.txs[j]) =>
                 \E h \in 1..n : \E i \in DOMAIN history'[h].txs :
                     history'[h].txs[i] = b.txs[j].evidence
           /\ IsBlockIssuance(b.txs[j]) =>
                 /\ j > 1
                 /\ b.txs[j - 1] = b.txs[j].evidence
                 /\ b.txs[j - 1].block \in 0..(n - 1)
  BY DEF HasEvidence

(* A pass of the loop keeps the invariant when every transaction it steps  *)
(* over has its evidence.                                                  *)
LEMMA EvidenceLoopPass ==
    ASSUME TypeOK, EvidenceInv, UNCHANGED <<history, block, mode>>, next' \in Nat,
           mode = "history" =>
               \A j \in DOMAIN block.txs :
                   next <= j /\ j < next' => HasEvidence(block, j, Len(history))
    PROVE  EvidenceInv'
  <1>1. \A b, j, n : HasEvidence(b, j, n)' <=> HasEvidence(b, j, n)
    BY DEF HasEvidence
  <1>2. next \in Nat /\ DOMAIN block.txs \subseteq Nat
    BY DEF TypeOK, BlockRecords
  <1>3. mode = "history" =>
            \A j \in DOMAIN block.txs : j < next' => HasEvidence(block, j, Len(history))
    BY <1>2 DEF EvidenceInv
  <1>4. \A k \in DOMAIN history : \A j \in DOMAIN history[k].txs :
            HasEvidence(history[k], j, k - 1)
    BY DEF EvidenceInv
  <1>5. (\A k \in DOMAIN history : \A j \in DOMAIN history[k].txs :
            HasEvidence(history[k], j, k - 1))'
    BY <1>4 DEF HasEvidence
  <1>6. (mode = "history" =>
            \A j \in DOMAIN block.txs : j < next => HasEvidence(block, j, Len(history)))'
    BY <1>3 DEF HasEvidence
  <1> QED
    BY <1>5, <1>6 DEF EvidenceInv

(* Publication makes the candidate the last block of the history, and its  *)
(* issuances keep their evidence (validate_candidate).                     *)
LEMMA EvidencePublish ==
    ASSUME TypeOK, EvidenceInv, Publish, mode = "history"
    PROVE  EvidenceInv'
  <1>1. /\ next > Len(block.txs)
        /\ history' = Append(history, block)
        /\ mode' = "idle"
    BY DEF Publish
  <1>2. /\ history \in Seq(BlockRecords) /\ block.txs \in Seq(TransactionRecords)
        /\ next \in Nat /\ Len(history) \in Nat
    BY DEF TypeOK, BlockRecords
  <1>3. ASSUME NEW k \in DOMAIN history', NEW j \in DOMAIN history'[k].txs
        PROVE  HasEvidence(history[k], j, k - 1)'
    <2>1. CASE k = Len(history) + 1
      <3>1. history'[k] = block /\ j \in DOMAIN block.txs /\ k - 1 = Len(history)
        BY <1>1, <1>2, <1>3, <2>1
      <3>2. j < next
        BY <1>1, <1>2, <3>1
      <3>3. HasEvidence(block, j, Len(history))
        BY <3>1, <3>2 DEF EvidenceInv
      <3>4. \A h \in 1..Len(history) : history'[h] = history[h]
        BY <1>1, <1>2
      <3> QED
        BY <1>2, <3>1, <3>3, <3>4, EvidenceStays DEF HasEvidence
    <2>2. CASE k # Len(history) + 1
      <3>1. k \in DOMAIN history /\ history'[k] = history[k] /\ k - 1 \in Nat
        BY <1>1, <1>2, <2>2
      <3>2. HasEvidence(history[k], j, k - 1)
        BY <1>3, <3>1 DEF EvidenceInv
      <3>3. \A h \in 1..(k - 1) : history'[h] = history[h]
        BY <1>1, <1>2, <3>1
      <3> QED
        BY <3>1, <3>2, <3>3, EvidenceStays DEF HasEvidence
    <2> QED
      BY <2>1, <2>2
  <1> QED
    BY <1>1, <1>3 DEF EvidenceInv

(* Every step of validate_candidate keeps the evidence of the issuances    *)
(* accepted and applied so far.                                            *)
LEMMA EvidenceNext == TypeOK /\ EvidenceInv /\ [Next]_vars => EvidenceInv'
  <1> SUFFICES ASSUME TypeOK, EvidenceInv, [Next]_vars PROVE EvidenceInv'
    OBVIOUS
  <1>0. next \in Nat /\ DOMAIN block.txs \subseteq Nat
    BY DEF TypeOK, BlockRecords
  <1>1. CASE UNCHANGED <<history, block, mode, next>>
    BY <1>0, <1>1, EvidenceLoopPass
  <1>2. ASSUME UNCHANGED history, next' = 1, TypeOK' PROVE EvidenceInv'
    <2>1. \A j \in DOMAIN block'.txs : ~(j < next')
      BY <1>2 DEF TypeOK, BlockRecords
    <2>2. (\A k \in DOMAIN history : \A j \in DOMAIN history[k].txs :
              HasEvidence(history[k], j, k - 1))'
      BY <1>2 DEF EvidenceInv, HasEvidence
    <2> QED
      BY <2>1, <2>2 DEF EvidenceInv
  <1>3. ASSUME Applying, Advance(1), Tx.type # "ISSUANCE" PROVE EvidenceInv'
    <2>1. \A j \in DOMAIN block.txs : next <= j /\ j < next' => j = next
      BY <1>0, <1>3 DEF Advance
    <2>2. HasEvidence(block, next, Len(history))
      BY <1>3 DEF HasEvidence, Tx, IsShareIssuance, IsBlockIssuance
    <2> QED
      BY <1>0, <1>3, <2>1, <2>2, EvidenceLoopPass DEF Advance, accepted
  <1>4. CASE AcceptShareIssuance
    <2>1. Applying /\ Advance(1) /\ ShareIssuanceOK(mode, Tx, cloneE)
      BY <1>4 DEF AcceptShareIssuance, ApplyEconomic, TxOK
    <2>2. HasEvidence(block, next, Len(history))
      BY <2>1 DEF HasEvidence, Tx, ShareIssuanceOK, IssuanceBound, IsShareIssuance,
                  IsBlockIssuance, TypeOK
    <2>3. \A j \in DOMAIN block.txs : next <= j /\ j < next' => j = next
      BY <1>0, <2>1 DEF Advance
    <2> QED
      BY <1>0, <2>1, <2>2, <2>3, EvidenceLoopPass DEF Advance, accepted
  <1>5. CASE AcceptReward
    <2>1. Applying /\ Advance(2) /\ Tx.type = "REWARD" /\ RewardPairOK(mode, Tx, cloneE)
      BY <1>5 DEF AcceptReward, ApplyEconomic, TxOK
    <2>2. HasEvidence(block, next, Len(history))
      BY <2>1 DEF HasEvidence, Tx, IsShareIssuance, IsBlockIssuance
    <2>3. mode = "history" => HasEvidence(block, next + 1, Len(history))
      <3>1. /\ IsBlockIssuance(block.txs[next + 1])
            /\ block.txs[next + 1].evidence = Tx
            /\ mode = "history" => Tx.block \in 0..(Len(history) - 1)
        BY <2>1 DEF RewardPairOK, RewardOK, IssuanceBound, RewardBlockKnown, TipId
      <3>2. ~IsShareIssuance(block.txs[next + 1])
        BY <3>1 DEF IsShareIssuance, IsBlockIssuance
      <3>3. next + 1 > 1 /\ (next + 1) - 1 = next
        BY <1>0 DEF TypeOK
      <3> QED
        BY <3>1, <3>2, <3>3 DEF HasEvidence, Tx
    <2>4. \A j \in DOMAIN block.txs : next <= j /\ j < next' => j = next \/ j = next + 1
      BY <1>0, <2>1 DEF Advance
    <2> QED
      BY <1>0, <2>1, <2>2, <2>3, <2>4, EvidenceLoopPass DEF Advance, accepted
  <1>6. CASE AcceptShare \/ AcceptDestination \/ AcceptTransfer \/ AcceptGrant
             \/ AcceptRevocation \/ AcceptRotation \/ AcceptPublication
    <2>1. Applying /\ Advance(1) /\ Tx.type # "ISSUANCE"
      BY <1>6 DEF AcceptShare, AcceptDestination, AcceptTransfer, AcceptGrant,
                  AcceptRevocation, AcceptRotation, AcceptPublication,
                  ApplyEconomic, ApplyAuthority
    <2> QED
      BY <1>3, <2>1
  <1>7. CASE Discard
    BY <1>2, <1>7, TypeNext DEF Discard, accepted
  <1>8. CASE Publish /\ mode = "history"
    BY <1>8, EvidencePublish
  <1>9. CASE Publish /\ mode # "history"
    BY <1>2, <1>9, TypeNext DEF Publish, accepted
  <1>10. ASSUME NEW b \in Offers \cup {Genesis}, RefuseLink(b) PROVE EvidenceInv'
    BY <1>1, <1>10 DEF RefuseLink, accepted, candidate
  <1>11. ASSUME NEW b \in Offers \cup {Genesis}, NEW m \in Modes, Begin(b, m)
         PROVE  EvidenceInv'
    BY <1>2, <1>11, TypeNext DEF Begin, accepted
  <1>12. CASE UNCHANGED vars
    BY <1>1, <1>12 DEF vars, accepted, candidate
  <1> QED
    BY <1>4, <1>5, <1>6, <1>7, <1>8, <1>9, <1>10, <1>11, <1>12 DEF Next

(* The EMPTY history has no issuance (stn_chain_initialize).               *)
LEMMA EvidenceInit == Init => EvidenceInv
  BY DEF Init, EvidenceInv

(* The invariant contains the property for the accepted history            *)
(* (stn_chain.c, issuance arms).                                           *)
LEMMA EvidenceStep == TypeOK /\ EvidenceInv => IssuanceHasEvidence
  <1> SUFFICES ASSUME TypeOK, EvidenceInv,
                      NEW k \in DOMAIN history, NEW j \in DOMAIN history[k].txs,
                      HasEvidence(history[k], j, k - 1)
               PROVE  /\ IsShareIssuance(TxAt(k, j)) =>
                            \E h \in 1..(k - 1) : \E i \in DOMAIN history[h].txs :
                                TxAt(h, i) = TxAt(k, j).evidence
                      /\ IsBlockIssuance(TxAt(k, j)) =>
                            /\ j > 1
                            /\ TxAt(k, j - 1) = TxAt(k, j).evidence
                            /\ TxAt(k, j - 1).block \in 0..(k - 2)
    BY DEF IssuanceHasEvidence, EvidenceInv
  <1>1. k \in Nat /\ (k - 1) - 1 = k - 2
    BY PositionsAreNat
  <1> QED
    BY <1>1 DEF HasEvidence, TxAt

(* Every accepted issuance has its evidence in the accepted history before *)
(* it (stn_chain.c, issuance and compensation arms).                       *)
THEOREM IssuanceEvidenced == Spec => []IssuanceHasEvidence
  <1>1. Spec => []EvidenceInv
    BY TypeCorrect, EvidenceInit, EvidenceNext, PTL DEF Spec
  <1> QED
    BY <1>1, TypeCorrect, EvidenceStep, PTL

-----------------------------------------------------------------------------
(* Destinations.  A transaction pays as chosen under destinations d when   *)
(* it is no issuance and no destination, or names the wallet d holds for   *)
(* its miner.  The invariant covers the accepted history and the applied   *)
(* prefix, and says that the clone changes no destination already chosen.  *)
PaysAsChosen(tx, d) == tx.type \in {"ISSUANCE", "DESTINATION"} => d[tx.miner] = tx.wallet
Keeps(d, e) == \A m \in Miners : d[m] # NoWallet => e[m] = d[m]
DestinationInv ==
    /\ Keeps(economy.destination, cloneE.destination)
    /\ \A k \in DOMAIN history : \A j \in DOMAIN history[k].txs :
           PaysAsChosen(history[k].txs[j], economy.destination)
    /\ \A j \in DOMAIN block.txs : j < next => PaysAsChosen(block.txs[j], cloneE.destination)

(* What was paid as chosen remains so while destinations are only added.   *)
LEMMA PaidStays ==
    ASSUME NEW tx \in TransactionRecords, NEW d, NEW e, PaysAsChosen(tx, d), Keeps(d, e)
    PROVE  PaysAsChosen(tx, e)
  <1> SUFFICES ASSUME tx.type \in {"ISSUANCE", "DESTINATION"} PROVE e[tx.miner] = tx.wallet
    BY DEF PaysAsChosen
  <1>1. tx \in IssuanceRecords \/ tx \in DestinationRecords
    BY TransactionTypes
  <1>2. tx.miner \in Miners /\ tx.wallet \in Wallets
    <2>1. CASE tx \in IssuanceRecords
      BY <2>1 DEF IssuanceRecords
    <2>2. CASE tx \in DestinationRecords
      BY <2>2 DEF DestinationRecords
    <2> QED
      BY <1>1, <2>1, <2>2
  <1>3. d[tx.miner] = tx.wallet
    BY DEF PaysAsChosen
  <1> QED
    BY <1>2, <1>3, EconomyAssumption DEF Keeps

(* A pass of the loop keeps the destinations chosen before it and pays only *)
(* to chosen ones (stn_compensation_state_apply).                          *)
LEMMA DestinationLoopPass ==
    ASSUME TypeOK, DestinationInv, UNCHANGED <<history, economy, block>>, next' \in Nat,
           Keeps(cloneE.destination, cloneE'.destination),
           \A j \in DOMAIN block.txs :
               next <= j /\ j < next' => PaysAsChosen(block.txs[j], cloneE'.destination)
    PROVE  DestinationInv'
  <1>1. /\ next \in Nat /\ DOMAIN block.txs \subseteq Nat
        /\ \A j \in DOMAIN block.txs : block.txs[j] \in TransactionRecords
    BY DEF TypeOK, BlockRecords
  <1>2. Keeps(economy.destination, cloneE'.destination)
    BY DEF DestinationInv, Keeps
  <1>3. ASSUME NEW j \in DOMAIN block.txs, j < next'
        PROVE  PaysAsChosen(block.txs[j], cloneE'.destination)
    <2>1. CASE j < next
      <3>1. PaysAsChosen(block.txs[j], cloneE.destination)
        BY <2>1 DEF DestinationInv
      <3> QED
        BY <1>1, <3>1, PaidStays
    <2>2. CASE ~(j < next)
      BY <1>1, <1>3, <2>2
    <2> QED
      BY <2>1, <2>2
  <1>4. \A k \in DOMAIN history' : \A j \in DOMAIN history'[k].txs :
            PaysAsChosen(history'[k].txs[j], economy'.destination)
    BY DEF DestinationInv
  <1>5. Keeps(economy'.destination, cloneE'.destination)
    BY <1>2
  <1>6. \A j \in DOMAIN block'.txs : j < next' => PaysAsChosen(block'.txs[j], cloneE'.destination)
    BY <1>3
  <1> QED
    BY <1>4, <1>5, <1>6 DEF DestinationInv, Keeps, PaysAsChosen

(* A discarded candidate leaves the accepted destinations as they were     *)
(* (validate_candidate, failure arm).                                      *)
LEMMA DestinationReset ==
    ASSUME DestinationInv, TypeOK', UNCHANGED <<history, economy>>,
           next' = 1, cloneE' = economy
    PROVE  DestinationInv'
  <1>1. \A j \in DOMAIN block'.txs : ~(j < next')
    BY DEF TypeOK, BlockRecords
  <1>2. Keeps(economy'.destination, cloneE'.destination)
    BY DEF Keeps
  <1>3. \A k \in DOMAIN history' : \A j \in DOMAIN history'[k].txs :
            PaysAsChosen(history'[k].txs[j], economy'.destination)
    BY DEF DestinationInv
  <1> QED
    BY <1>1, <1>2, <1>3 DEF DestinationInv, Keeps, PaysAsChosen

(* Publication makes the destinations of the clone the accepted ones       *)
(* (validate_candidate).                                                   *)
LEMMA DestinationPublish ==
    ASSUME TypeOK, DestinationInv, Publish, mode = "history"
    PROVE  DestinationInv'
  <1>1. /\ next > Len(block.txs)
        /\ history' = Append(history, block)
        /\ economy' = cloneE /\ cloneE' = cloneE
        /\ block' = Genesis /\ next' = 1
    BY DEF Publish
  <1>2. /\ history \in Seq(BlockRecords) /\ block.txs \in Seq(TransactionRecords)
        /\ next \in Nat /\ Len(history) \in Nat
    BY DEF TypeOK, BlockRecords
  <1>3. ASSUME NEW k \in DOMAIN history', NEW j \in DOMAIN history'[k].txs
        PROVE  PaysAsChosen(history'[k].txs[j], cloneE.destination)
    <2>1. CASE k = Len(history) + 1
      <3>1. history'[k] = block /\ j \in DOMAIN block.txs /\ j < next
        BY <1>1, <1>2, <1>3, <2>1
      <3> QED
        BY <3>1 DEF DestinationInv
    <2>2. CASE k # Len(history) + 1
      <3>1. k \in DOMAIN history /\ history'[k] = history[k]
        BY <1>1, <1>2, <2>2
      <3>2. history[k].txs[j] \in TransactionRecords /\ j \in DOMAIN history[k].txs
        <4>1. j \in DOMAIN history[k].txs
          BY <1>3, <3>1
        <4> QED
          BY <3>1, <4>1, PositionsAreNat DEF TxAt
      <3>3. PaysAsChosen(history[k].txs[j], economy.destination)
        BY <3>1, <3>2 DEF DestinationInv
      <3>4. Keeps(economy.destination, cloneE.destination)
        BY DEF DestinationInv
      <3> QED
        BY <3>1, <3>2, <3>3, <3>4, PaidStays
    <2> QED
      BY <2>1, <2>2
  <1>4. Keeps(economy'.destination, cloneE'.destination)
    BY <1>1 DEF Keeps
  <1>5. \A j \in DOMAIN block'.txs : ~(j < next')
    BY <1>1, ChainAssumption DEF BlockRecords
  <1> QED
    BY <1>1, <1>3, <1>4, <1>5 DEF DestinationInv, Keeps, PaysAsChosen

(* Every step of validate_candidate keeps payments at the destination first *)
(* chosen.                                                                 *)
LEMMA DestinationNext == TypeOK /\ DestinationInv /\ [Next]_vars => DestinationInv'
  <1> SUFFICES ASSUME TypeOK, DestinationInv, [Next]_vars PROVE DestinationInv'
    OBVIOUS
  <1>0. /\ next \in Nat /\ DOMAIN block.txs \subseteq Nat
        /\ cloneE \in Economies
        /\ TypeOK'
    BY TypeNext DEF TypeOK, BlockRecords
  <1>1. CASE UNCHANGED <<history, economy, block, next, cloneE>>
    <2>1. Keeps(cloneE.destination, cloneE'.destination)
      BY <1>1 DEF Keeps
    <2> QED
      BY <1>0, <1>1, <2>1, DestinationLoopPass
  <1>2. ASSUME Applying, Advance(1), Tx.type \notin {"ISSUANCE", "DESTINATION"},
               cloneE'.destination = cloneE.destination
        PROVE  DestinationInv'
    <2>1. \A j \in DOMAIN block.txs : next <= j /\ j < next' => j = next
      BY <1>0, <1>2 DEF Advance
    <2>2. PaysAsChosen(block.txs[next], cloneE'.destination)
      BY <1>2 DEF PaysAsChosen, Tx
    <2>3. Keeps(cloneE.destination, cloneE'.destination)
      BY <1>2 DEF Keeps
    <2> QED
      BY <1>0, <1>2, <2>1, <2>2, <2>3, DestinationLoopPass DEF Advance, accepted
  <1>3. CASE AcceptDestination
    <2>1. /\ Applying /\ Advance(1) /\ Tx.type = "DESTINATION"
          /\ DestinationOK(cloneE, Tx)
          /\ cloneE' = SetDestination(cloneE, Tx)
      BY <1>3 DEF AcceptDestination, ApplyEconomic, TxOK
    <2>2. Tx \in DestinationRecords
      BY <2>1, TxType, TransactionTypes
    <2>3. cloneE'.destination = [cloneE.destination EXCEPT ![Tx.miner] = Tx.wallet]
      BY <1>0, <2>1 DEF SetDestination, Economies
    <2>4. Keeps(cloneE.destination, cloneE'.destination)
      BY <1>0, <2>1, <2>2, <2>3 DEF DestinationOK, Keeps, Economies, DestinationRecords
    <2>5. PaysAsChosen(block.txs[next], cloneE'.destination)
      BY <1>0, <2>2, <2>3 DEF PaysAsChosen, Tx, Economies, DestinationRecords
    <2>6. \A j \in DOMAIN block.txs : next <= j /\ j < next' => j = next
      BY <1>0, <2>1 DEF Advance
    <2> QED
      BY <1>0, <2>1, <2>4, <2>5, <2>6, DestinationLoopPass DEF Advance, accepted
  <1>4. CASE AcceptShareIssuance
    <2>1. /\ Applying /\ Advance(1) /\ ShareIssuanceOK(mode, Tx, cloneE)
          /\ cloneE' = Credit(cloneE, Tx)
      BY <1>4 DEF AcceptShareIssuance, ApplyEconomic, TxOK
    <2>2. cloneE'.destination = cloneE.destination
      BY <1>0, <2>1 DEF Credit, Economies
    <2>3. PaysAsChosen(block.txs[next], cloneE'.destination)
      BY <2>1, <2>2 DEF PaysAsChosen, Tx, ShareIssuanceOK, IssuanceBound
    <2>4. \A j \in DOMAIN block.txs : next <= j /\ j < next' => j = next
      BY <1>0, <2>1 DEF Advance
    <2>5. Keeps(cloneE.destination, cloneE'.destination)
      BY <2>2 DEF Keeps
    <2> QED
      BY <1>0, <2>1, <2>3, <2>4, <2>5, DestinationLoopPass DEF Advance, accepted
  <1>5. CASE AcceptReward
    <2>1. /\ Applying /\ Advance(2) /\ Tx.type = "REWARD"
          /\ RewardOK(cloneE, Tx, block.txs[next + 1])
          /\ cloneE' = ApplyReward(cloneE, Tx, block.txs[next + 1])
      BY <1>5 DEF AcceptReward, ApplyEconomic, TxOK, RewardPairOK
    <2>2. cloneE'.destination = cloneE.destination
      BY <1>0, <2>1 DEF ApplyReward, Credit, Economies
    <2>3. /\ PaysAsChosen(block.txs[next], cloneE'.destination)
          /\ PaysAsChosen(block.txs[next + 1], cloneE'.destination)
      BY <2>1, <2>2 DEF PaysAsChosen, Tx, RewardOK, IssuanceBound
    <2>4. \A j \in DOMAIN block.txs : next <= j /\ j < next' => j = next \/ j = next + 1
      BY <1>0, <2>1 DEF Advance
    <2>5. Keeps(cloneE.destination, cloneE'.destination)
      BY <2>2 DEF Keeps
    <2> QED
      BY <1>0, <2>1, <2>3, <2>4, <2>5, DestinationLoopPass DEF Advance, accepted
  <1>6. CASE AcceptShare
    BY <1>0, <1>2, <1>6 DEF AcceptShare, ApplyEconomic, ConsumeShare, Economies
  <1>7. CASE AcceptTransfer
    <2>1. cloneE'.destination = cloneE.destination
      BY <1>0, <1>7 DEF AcceptTransfer, ApplyEconomic, ApplyTransfer, Economies
    <2> QED
      BY <1>2, <1>7, <2>1 DEF AcceptTransfer, ApplyEconomic
  <1>8. CASE AcceptGrant \/ AcceptRevocation \/ AcceptRotation \/ AcceptPublication
    <2>1. /\ Applying /\ Advance(1) /\ cloneE' = cloneE
          /\ Tx.type \in {"GRANT", "REVOKE", "ROTATE", "PUBLICATION"}
      BY <1>8 DEF AcceptGrant, AcceptRevocation, AcceptRotation, AcceptPublication,
                  ApplyAuthority
    <2> QED
      BY <1>2, <2>1
  <1>9. CASE Discard
    BY <1>0, <1>9, DestinationReset DEF Discard, accepted
  <1>10. CASE Publish /\ mode = "history"
    BY <1>10, DestinationPublish
  <1>11. CASE Publish /\ mode # "history"
    BY <1>0, <1>11, DestinationReset DEF Publish, accepted
  <1>12. ASSUME NEW b \in Offers \cup {Genesis}, RefuseLink(b) PROVE DestinationInv'
    BY <1>1, <1>12 DEF RefuseLink, accepted, candidate
  <1>13. ASSUME NEW b \in Offers \cup {Genesis}, NEW m \in Modes, Begin(b, m)
         PROVE  DestinationInv'
    BY <1>0, <1>13, DestinationReset DEF Begin, accepted
  <1>14. CASE UNCHANGED vars
    BY <1>1, <1>14 DEF vars, accepted, candidate
  <1> QED
    BY <1>3, <1>4, <1>5, <1>6, <1>7, <1>8, <1>9, <1>10, <1>11, <1>12, <1>13, <1>14
       DEF Next

(* The EMPTY history has paid nothing (stn_chain_initialize).              *)
LEMMA DestinationInit == Init => DestinationInv
  <1> SUFFICES ASSUME Init PROVE DestinationInv
    OBVIOUS
  <1>1. \A j \in DOMAIN block.txs : ~(j < next)
    BY ChainAssumption DEF Init, BlockRecords
  <1> QED
    BY <1>1 DEF Init, DestinationInv, Keeps

(* The invariant contains the property for the accepted history            *)
(* (stn_compensation_state_apply).                                         *)
LEMMA DestinationStep == DestinationInv => PaidToFirstDestination
  BY DEF DestinationInv, PaidToFirstDestination, PaysAsChosen, TxAt

(* Every unit ever issued went to the wallet its miner chose first         *)
(* (stn_compensation_state_apply, stn_issuance_bind_share).                *)
THEOREM PaidOnceChosen == Spec => []PaidToFirstDestination
  <1>1. Spec => []DestinationInv
    BY TypeCorrect, DestinationInit, DestinationNext, PTL DEF Spec
  <1> QED
    BY <1>1, DestinationStep, PTL

-----------------------------------------------------------------------------
(* The two entry points agree in every state of the right types, transaction *)
(* by transaction (validate_candidate).                                    *)
LEMMA AgreementStep == TypeOK => EntryPointsAgree
  <1> SUFFICES ASSUME TypeOK, Applying, mode = "state"
               PROVE  /\ Tx.type # "SHARE" =>
                            (TxOK("state", Tx, cloneE, cloneA)
                             => TxOK("history", Tx, cloneE, cloneA))
                      /\ (/\ TxOK("history", Tx, cloneE, cloneA)
                          /\ ~TxOK("state", Tx, cloneE, cloneA))
                            => TxUnresolved("state", Tx, cloneE)
    BY DEF EntryPointsAgree
  <1>1. history \in Seq(BlockRecords) /\ Len(history) \in Nat
    BY DEF TypeOK
  <1>2. CASE Tx.type = "REWARD"
    <2>1. RewardPairOK("state", Tx, cloneE) => RewardPairOK("history", Tx, cloneE)
      BY <1>1 DEF RewardPairOK, RewardBlockKnown, TipId
    <2>2. RewardPairOK("history", Tx, cloneE) /\ ~RewardPairOK("state", Tx, cloneE)
          => RewardUnresolved("state", Tx)
      BY DEF RewardPairOK, RewardUnresolved
    <2> QED
      BY <1>2, <2>1, <2>2 DEF TxOK, TxUnresolved
  <1>3. CASE Tx.type = "SHARE"
    <2>1. ShareOK("history", Tx, cloneE) /\ ~ShareOK("state", Tx, cloneE)
          => ShareUnresolved("state", Tx)
      BY DEF ShareOK, ShareUnresolved
    <2> QED
      BY <1>3, <2>1 DEF TxOK, TxUnresolved
  <1>4. CASE Tx.type = "ISSUANCE"
    <2>1. ~ShareIssuanceOK("state", Tx, cloneE)
      BY DEF ShareIssuanceOK
    <2>2. ShareIssuanceOK("history", Tx, cloneE) => ShareIssuanceUnresolved("state", Tx, cloneE)
      BY DEF ShareIssuanceOK, ShareIssuanceUnresolved, IssuanceBound
    <2> QED
      BY <1>4, <2>1, <2>2 DEF TxOK, TxUnresolved
  <1>5. CASE Tx.type \notin {"SHARE", "REWARD", "ISSUANCE"}
    BY <1>5 DEF TxOK
  <1> QED
    BY <1>2, <1>3, <1>4, <1>5

(* State-only validation and reconstruction give compatible answers on     *)
(* every transaction (validate_candidate with and without history).        *)
THEOREM AgreementOfEntryPoints == Spec => []EntryPointsAgree
  BY TypeCorrect, AgreementStep, PTL

-----------------------------------------------------------------------------
\* The step of either fold of a replay: a block, or a transaction of one.
Blocks == <<"blocks">>
Body(b) == <<"transactions", b>>
Replayed(c, s, x) == IF c = Blocks THEN ReplayBlock(s, x) ELSE ReplayTx(s, c[2], x)

INSTANCE Inductions WITH Pass <- Replayed

-----------------------------------------------------------------------------
(* The timeline of a history h followed by the first n - 1 transactions of *)
(* block b: a function from positions to transactions.                     *)
Places(h, b, n) ==
    (UNION {{k} \X DOMAIN h[k].txs : k \in DOMAIN h})
    \cup ({Len(h) + 1} \X {i \in DOMAIN b.txs : i < n})
Timeline(h, b, n) ==
    [p \in Places(h, b, n) |->
        IF p[1] \in DOMAIN h THEN h[p[1]].txs[p[2]] ELSE b.txs[p[2]]]
Extend(T, q, tx) == [p \in DOMAIN T \cup {q} |-> IF p = q THEN tx ELSE T[p]]
Earlier(p, q) == Before(p[1], p[2], q[1], q[2])

Past == Timeline(history, Genesis, 1)
Seen == Timeline(history, block, next)

(* A chain of rotations ends at an identity it has not left, and a         *)
(* rotation it holds has had its replay identifier consumed.               *)
Chained(l) ==
    /\ l.rotations # <<>> => l.rotations[Len(l.rotations)].new \notin Retired(l)
    /\ \A i \in DOMAIN l.rotations : ReplayKey(l.rotations[i]) \in l.consumed

(* What projection l remembers of timeline T: every grant it holds was     *)
(* accepted, and every revocation and rotation on the line left its mark.  *)
Explains(l, T) ==
    /\ Chained(l)
    /\ \A g \in l.grants : \E p \in DOMAIN T : T[p] = g
    /\ \A p \in DOMAIN T : T[p].type = "REVOKE" => T[p].grant \in l.revoked
    /\ \A p \in DOMAIN T : T[p].type = "ROTATE" => T[p].old \in Retired(l)

(* A publication at q, if it is governed, had a grant not revoked by then. *)
GrantFor(T, p, q) ==
    /\ Earlier(p, q)
    /\ T[p].type = "GRANT"
    /\ T[p].subject = T[q].signer
    /\ T[p].scope = T[q].scope
RevokedBy(T, p, q) ==
    \E r \in DOMAIN T : Earlier(r, q) /\ T[r].type = "REVOKE" /\ T[r].grant = T[p]
Publishes(T, q) == T[q].type = "PUBLICATION" /\ q[1] - 1 >= ActivationHeight
Authorized(T) ==
    \A q \in DOMAIN T :
        Publishes(T, q) => \E p \in DOMAIN T : GrantFor(T, p, q) /\ ~RevokedBy(T, p, q)

(* Nothing governed speaks for an identity after its rotation. *)
Silent(T) ==
    \A p, q \in DOMAIN T :
        (T[p].type = "ROTATE" /\ Earlier(p, q)) =>
            /\ Publishes(T, q) => T[q].signer # T[p].old
            /\ T[q].type = "ROTATE" => T[p].old \notin {T[q].old, T[q].new}

(* The inductive invariant: the accepted projection explains the accepted  *)
(* history, the clone the history with the applied prefix, and both        *)
(* timelines obey the two rules.                                           *)
Ruled(l, T) == Explains(l, T) /\ Authorized(T) /\ Silent(T)
AuthorityInv == Ruled(authority, Past) /\ Ruled(cloneA, Seen)

-----------------------------------------------------------------------------
(* A block record carries a sequence of transaction records                *)
(* (stn_block_decode).                                                     *)
LEMMA BlockBody ==
    /\ \A b \in BlockRecords : b.txs \in Seq(TransactionRecords)
    /\ \A h \in Seq(BlockRecords) : \A k \in DOMAIN h : h[k].txs \in Seq(TransactionRecords)
  <1>1. \A b \in BlockRecords : b.txs \in Seq(TransactionRecords)
    BY DEF BlockRecords
  <1>2. \A h \in Seq(BlockRecords) : \A k \in DOMAIN h : h[k] \in BlockRecords
    OBVIOUS
  <1> QED
    BY <1>1, <1>2

(* Laying out the line. Its places are pairs, the transactions of the      *)
(* history and the applied prefix of the candidate (the block records of   *)
(* stn_block_span and the loop index of validate_candidate).               *)
LEMMA PlacesAre ==
    ASSUME NEW h \in Seq(BlockRecords), NEW b \in BlockRecords, NEW n \in Nat, NEW p
    PROVE  p \in Places(h, b, n) <=>
               /\ p = <<p[1], p[2]>>
               /\ p[1] \in Nat /\ p[2] \in Nat
               /\ \/ p[1] \in DOMAIN h /\ p[2] \in DOMAIN h[p[1]].txs
                  \/ p[1] = Len(h) + 1 /\ p[2] \in DOMAIN b.txs /\ p[2] < n
  <1>1. \A k \in DOMAIN h : k \in Nat /\ h[k].txs \in Seq(TransactionRecords)
    BY BlockBody
  <1>2. b.txs \in Seq(TransactionRecords) /\ Len(h) \in Nat
    BY BlockBody
  <1>3. p \in Places(h, b, n) <=>
            \/ \E k \in DOMAIN h : p \in {k} \X DOMAIN h[k].txs
            \/ p \in {Len(h) + 1} \X {i \in DOMAIN b.txs : i < n}
    BY DEF Places
  <1>4. ASSUME NEW k \in DOMAIN h PROVE DOMAIN h[k].txs \subseteq Nat
    BY <1>1
  <1>5. DOMAIN b.txs \subseteq Nat
    BY <1>2
  <1> QED
    BY <1>1, <1>2, <1>3, <1>4, <1>5

(* Every transaction on the line is a transaction record.                  *)
LEMMA TimelineType ==
    ASSUME NEW h \in Seq(BlockRecords), NEW b \in BlockRecords, NEW n \in Nat,
           NEW p \in DOMAIN Timeline(h, b, n)
    PROVE  Timeline(h, b, n)[p] \in TransactionRecords
  <1>1. p \in Places(h, b, n) /\ Len(h) \in Nat
    BY DEF Timeline
  <1>2. b.txs \in Seq(TransactionRecords) /\ DOMAIN h = 1..Len(h)
    BY DEF BlockRecords
  <1>3. CASE p[1] \in DOMAIN h
    <2>1. h[p[1]].txs \in Seq(TransactionRecords)
      BY <1>3, BlockBody
    <2>2. p[2] \in DOMAIN h[p[1]].txs
      BY <1>1, <1>2, <1>3, PlacesAre
    <2> QED
      BY <1>1, <1>3, <2>1, <2>2 DEF Timeline
  <1>4. CASE p[1] \notin DOMAIN h
    <2>1. p[2] \in DOMAIN b.txs
      BY <1>1, <1>4, PlacesAre
    <2> QED
      BY <1>1, <1>2, <1>4, <2>1 DEF Timeline
  <1> QED
    BY <1>3, <1>4

(* Applying the transaction at hand puts it at the end of the line: one    *)
(* pass of the loop of validate_candidate.                                 *)
LEMMA TimelineGrows ==
    ASSUME NEW h \in Seq(BlockRecords), NEW b \in BlockRecords, NEW n \in DOMAIN b.txs
    PROVE  /\ Timeline(h, b, n + 1) = Extend(Timeline(h, b, n), <<Len(h) + 1, n>>, b.txs[n])
           /\ <<Len(h) + 1, n>> \notin DOMAIN Timeline(h, b, n)
           /\ \A p \in DOMAIN Timeline(h, b, n) :
                 /\ Earlier(p, <<Len(h) + 1, n>>)
                 /\ ~Earlier(<<Len(h) + 1, n>>, p)
           /\ ~Earlier(<<Len(h) + 1, n>>, <<Len(h) + 1, n>>)
  <1> DEFINE q == <<Len(h) + 1, n>>
  <1>1. /\ n \in Nat /\ n + 1 \in Nat /\ Len(h) \in Nat /\ DOMAIN h = 1..Len(h)
        /\ DOMAIN b.txs \subseteq Nat
    BY DEF BlockRecords
  <1>2. q[1] = Len(h) + 1 /\ q[2] = n /\ q[1] \notin DOMAIN h
    BY <1>1
  <1>3. ASSUME NEW p
        PROVE  p \in Places(h, b, n + 1) <=> p \in Places(h, b, n) \/ p = q
    <2>1. p[2] \in Nat => (p[2] < n + 1 <=> p[2] < n \/ p[2] = n)
      BY <1>1
    <2> QED
      BY <1>1, <1>2, <2>1, PlacesAre
  <1>4. Places(h, b, n + 1) = Places(h, b, n) \cup {q}
    BY <1>3
  <1>5. q \notin Places(h, b, n)
    BY <1>1, <1>2, PlacesAre
  <1>6. Timeline(h, b, n + 1) = Extend(Timeline(h, b, n), q, b.txs[n])
    BY <1>2, <1>4, <1>5 DEF Timeline, Extend
  <1>7. ASSUME NEW p \in Places(h, b, n) PROVE Earlier(p, q) /\ ~Earlier(q, p)
    BY <1>1, <1>2, PlacesAre DEF Earlier, Before
  <1>8. ~Earlier(q, q)
    BY <1>1, <1>2 DEF Earlier, Before
  <1> QED
    BY <1>5, <1>6, <1>7, <1>8 DEF Timeline

(* Before its first transaction a candidate adds nothing to the line, so a *)
(* discarded candidate leaves the accepted history (validate_candidate).   *)
LEMMA TimelineStart ==
    ASSUME NEW h \in Seq(BlockRecords), NEW b \in BlockRecords, NEW c \in BlockRecords
    PROVE  Timeline(h, b, 1) = Timeline(h, c, 1)
  <1>1. /\ DOMAIN b.txs \subseteq Nat \ {0} /\ DOMAIN c.txs \subseteq Nat \ {0}
        /\ Len(h) \in Nat /\ DOMAIN h = 1..Len(h) /\ 1 \in Nat
    BY DEF BlockRecords
  <1>2. ASSUME NEW p PROVE p \in Places(h, b, 1) <=> p \in Places(h, c, 1)
    <2>1. p[2] \in Nat \ {0} => ~(p[2] < 1)
      OBVIOUS
    <2> QED
      BY <1>1, <2>1, PlacesAre
  <1>3. Places(h, b, 1) = Places(h, c, 1)
    BY <1>2
  <1>4. \A p \in Places(h, b, 1) : p[1] \in DOMAIN h
    <2>1. ASSUME NEW p \in Places(h, b, 1) PROVE p[1] \in DOMAIN h
      BY <1>1, PlacesAre
    <2> QED
      BY <2>1
  <1> QED
    BY <1>3, <1>4 DEF Timeline

(* Publishing a candidate whose every transaction was applied keeps the    *)
(* line: the applied prefix becomes the last block (validate_candidate).   *)
LEMMA TimelinePublish ==
    ASSUME NEW h \in Seq(BlockRecords), NEW b \in BlockRecords, NEW c \in BlockRecords,
           NEW n \in Nat, n > Len(b.txs)
    PROVE  Timeline(Append(h, b), c, 1) = Timeline(h, b, n)
  <1> DEFINE g == Append(h, b)
  <1>1. /\ g \in Seq(BlockRecords)
        /\ Len(g) = Len(h) + 1 /\ Len(h) \in Nat
        /\ DOMAIN h = 1..Len(h) /\ DOMAIN g = 1..(Len(h) + 1)
        /\ \A k \in DOMAIN h : g[k] = h[k]
        /\ g[Len(h) + 1] = b
    OBVIOUS
  <1>2. /\ DOMAIN b.txs = 1..Len(b.txs) /\ Len(b.txs) \in Nat
        /\ DOMAIN c.txs \subseteq Nat \ {0}
    BY DEF BlockRecords
  <1> HIDE DEF g
  <1>3. ASSUME NEW p PROVE p \in Places(g, c, 1) <=> p \in Places(h, b, n)
    <2>1. p \in Places(g, c, 1) <=>
               /\ p = <<p[1], p[2]>> /\ p[1] \in Nat /\ p[2] \in Nat
               /\ p[1] \in DOMAIN g /\ p[2] \in DOMAIN g[p[1]].txs
      <3>1. p[2] \in Nat \ {0} => ~(p[2] < 1)
        OBVIOUS
      <3> QED
        BY <1>1, <1>2, <3>1, PlacesAre
    <2>2. CASE p[1] \in DOMAIN h
      <3>1. p[1] \in DOMAIN g /\ g[p[1]] = h[p[1]] /\ p[1] # Len(h) + 1
        BY <1>1, <2>2
      <3> QED
        BY <2>1, <2>2, <3>1, PlacesAre
    <2>3. CASE p[1] = Len(h) + 1
      <3>1. p[1] \in DOMAIN g /\ g[p[1]] = b /\ p[1] \notin DOMAIN h
        BY <1>1, <2>3
      <3>2. p[2] \in DOMAIN b.txs => p[2] < n
        BY <1>2
      <3> QED
        BY <2>1, <2>3, <3>1, <3>2, PlacesAre
    <2>4. CASE p[1] \notin DOMAIN h /\ p[1] # Len(h) + 1
      <3>1. p[1] \notin DOMAIN g
        BY <1>1, <2>4
      <3> QED
        BY <2>1, <2>4, <3>1, PlacesAre
    <2> QED
      BY <2>2, <2>3, <2>4
  <1>4. Places(g, c, 1) = Places(h, b, n)
    BY <1>3
  <1>5. ASSUME NEW p \in Places(h, b, n)
        PROVE  Timeline(g, c, 1)[p] = Timeline(h, b, n)[p]
    <2>1. p[1] \in DOMAIN h \/ p[1] = Len(h) + 1
      BY PlacesAre
    <2> QED
      BY <1>1, <1>4, <2>1 DEF Timeline
  <1> QED
    BY <1>4, <1>5 DEF Timeline, g

-----------------------------------------------------------------------------
(* Adding to the line.  Position q is at the end of timeline T when it is  *)
(* new and nothing on the line follows it.                                 *)
AtEnd(T, q) ==
    /\ q \notin DOMAIN T
    /\ \A p \in DOMAIN T : Earlier(p, q) /\ ~Earlier(q, p)
    /\ ~Earlier(q, q)

(* What authorised the publications on the line still does, and a new one  *)
(* needs a grant that nothing on the line revoked                          *)
(* (stn_lifecycle_check_publication).                                      *)
LEMMA AuthorizedExtends ==
    ASSUME NEW T, NEW q, NEW tx, AtEnd(T, q), Authorized(T),
           (tx.type = "PUBLICATION" /\ q[1] - 1 >= ActivationHeight) =>
               \E p \in DOMAIN T :
                   /\ T[p].type = "GRANT"
                   /\ T[p].subject = tx.signer /\ T[p].scope = tx.scope
                   /\ \A r \in DOMAIN T : T[r].type = "REVOKE" => T[r].grant # T[p]
    PROVE  Authorized(Extend(T, q, tx))
  <1> DEFINE U == Extend(T, q, tx)
  <1>1. /\ DOMAIN U = DOMAIN T \cup {q}
        /\ U[q] = tx
        /\ \A p \in DOMAIN T : p # q /\ U[p] = T[p]
    BY DEF Extend, AtEnd
  <1>2. \A p \in DOMAIN T : Earlier(p, q) /\ ~Earlier(q, p)
    BY DEF AtEnd
  <1>3. ~Earlier(q, q)
    BY DEF AtEnd
  <1> HIDE DEF U
  <1> SUFFICES ASSUME NEW s \in DOMAIN U, Publishes(U, s)
               PROVE  \E p \in DOMAIN U : GrantFor(U, p, s) /\ ~RevokedBy(U, p, s)
    BY DEF Authorized, U
  <1>4. CASE s \in DOMAIN T
    <2>1. Publishes(T, s)
      BY <1>1, <1>4 DEF Publishes
    <2>2. PICK p \in DOMAIN T : GrantFor(T, p, s) /\ ~RevokedBy(T, p, s)
      BY <1>4, <2>1 DEF Authorized
    <2>3. GrantFor(U, p, s)
      BY <1>1, <1>4, <2>2 DEF GrantFor
    <2>4. ~RevokedBy(U, p, s)
      BY <1>1, <1>2, <1>4, <2>2 DEF RevokedBy
    <2> QED
      BY <1>1, <2>3, <2>4
  <1>5. CASE s = q
    <2>1. tx.type = "PUBLICATION" /\ q[1] - 1 >= ActivationHeight
      BY <1>1, <1>5 DEF Publishes
    <2>2. PICK p \in DOMAIN T :
              /\ T[p].type = "GRANT"
              /\ T[p].subject = tx.signer /\ T[p].scope = tx.scope
              /\ \A r \in DOMAIN T : T[r].type = "REVOKE" => T[r].grant # T[p]
      BY <2>1
    <2>3. GrantFor(U, p, q)
      BY <1>1, <1>2, <2>2 DEF GrantFor
    <2>4. ~RevokedBy(U, p, q)
      BY <1>1, <1>3, <2>2 DEF RevokedBy
    <2> QED
      BY <1>1, <1>5, <2>3, <2>4
  <1> QED
    BY <1>1, <1>4, <1>5

(* The identities left so far stay silent when what is added speaks for    *)
(* none of them (stn_lifecycle_check_publication,                          *)
(* stn_identity_rotation_validate).                                        *)
LEMMA SilentExtends ==
    ASSUME NEW T, NEW q, NEW tx, AtEnd(T, q), Silent(T),
           \A p \in DOMAIN T : T[p].type = "ROTATE" =>
               /\ (tx.type = "PUBLICATION" /\ q[1] - 1 >= ActivationHeight) => tx.signer # T[p].old
               /\ tx.type = "ROTATE" => T[p].old \notin {tx.old, tx.new}
    PROVE  Silent(Extend(T, q, tx))
  <1> DEFINE U == Extend(T, q, tx)
  <1>1. /\ DOMAIN U = DOMAIN T \cup {q}
        /\ U[q] = tx
        /\ \A p \in DOMAIN T : p # q /\ U[p] = T[p]
    BY DEF Extend, AtEnd
  <1>2. /\ \A p \in DOMAIN T : Earlier(p, q) /\ ~Earlier(q, p)
        /\ ~Earlier(q, q)
    BY DEF AtEnd
  <1> HIDE DEF U
  <1> SUFFICES ASSUME NEW p \in DOMAIN U, NEW s \in DOMAIN U, U[p].type = "ROTATE", Earlier(p, s)
               PROVE  /\ Publishes(U, s) => U[s].signer # U[p].old
                      /\ U[s].type = "ROTATE" => U[p].old \notin {U[s].old, U[s].new}
    BY DEF Silent, U
  <1>3. p \in DOMAIN T
    BY <1>1, <1>2
  <1>4. CASE s \in DOMAIN T
    BY <1>1, <1>3, <1>4 DEF Silent, Publishes
  <1>5. CASE s = q
    BY <1>1, <1>3, <1>5 DEF Publishes
  <1> QED
    BY <1>1, <1>4, <1>5

-----------------------------------------------------------------------------
(* What the projection remembers. A rotation that is accepted is never one *)
(* the chain already holds, because that one's replay identifier was       *)
(* consumed: it extends the chain (stn_identity_rotation_validate,         *)
(* stn_lifecycle_apply_transaction).                                       *)
LEMMA RotationIsNew ==
    ASSUME NEW l \in Lifecycles, NEW tx \in RotationRecords, Chained(l), RotationOK(l, tx)
    PROVE  RotationExtends(l, tx)
  <1> SUFFICES ASSUME RotationHeld(l, tx) PROVE FALSE
    BY DEF RotationOK, RotationValid
  <1>1. PICK i \in DOMAIN l.rotations :
            l.rotations[i].old = tx.old /\ l.rotations[i].new = tx.new
    BY DEF RotationHeld
  <1>2. l.rotations[i].type = "ROTATE" /\ tx.type = "ROTATE"
    <2>1. l.rotations[i] \in RotationRecords
      BY DEF Lifecycles
    <2> QED
      BY <2>1 DEF RotationRecords
  <1>3. ReplayKey(l.rotations[i]) = ReplayKey(tx)
    BY <1>1, <1>2 DEF ReplayKey
  <1> QED
    BY <1>3 DEF Chained, RotationOK, Fresh

(* Rotating leaves the old identity and ends the chain at the new one,     *)
(* which was never left (stn_identity_rotation_apply).                     *)
LEMMA RotationChains ==
    ASSUME NEW l \in Lifecycles, NEW tx \in RotationRecords, Chained(l), RotationOK(l, tx)
    PROVE  /\ Chained(ApplyRotation(l, tx))
           /\ Retired(ApplyRotation(l, tx)) = Retired(l) \cup {tx.old}
           /\ tx.old \notin Retired(l) /\ tx.new \notin Retired(l)
  <1> DEFINE m == ApplyRotation(l, tx)
  <1>1. /\ l.rotations \in Seq(RotationRecords)
        /\ m.rotations = Append(l.rotations, tx)
        /\ m.consumed = l.consumed \cup {ReplayKey(tx)}
    BY DEF ApplyRotation, Consume, Lifecycles
  <1>2. /\ Len(l.rotations) \in Nat
        /\ Len(m.rotations) = Len(l.rotations) + 1
        /\ DOMAIN l.rotations = 1..Len(l.rotations)
        /\ DOMAIN m.rotations = 1..(Len(l.rotations) + 1)
        /\ \A i \in DOMAIN l.rotations : m.rotations[i] = l.rotations[i]
        /\ m.rotations[Len(l.rotations) + 1] = tx
    BY <1>1
  <1>3. Retired(m) = Retired(l) \cup {tx.old}
    BY <1>2 DEF Retired
  <1>4. tx.old # tx.new /\ tx.new \notin Retired(l)
    BY RotationIsNew DEF RotationExtends
  <1>5. tx.old \notin Retired(l)
    <2>1. CASE l.rotations = <<>>
      BY <2>1 DEF Retired
    <2>2. CASE l.rotations # <<>>
      BY <2>2, RotationIsNew DEF RotationExtends, Chained
    <2> QED
      BY <2>1, <2>2
  <1>6. m.rotations[Len(m.rotations)].new \notin Retired(m)
    BY <1>2, <1>3, <1>4
  <1>7. \A i \in DOMAIN m.rotations : ReplayKey(m.rotations[i]) \in m.consumed
    BY <1>1, <1>2 DEF Chained
  <1> QED
    BY <1>3, <1>4, <1>5, <1>6, <1>7 DEF Chained

(* A statement that leaves the rotations alone leaves the chain in order   *)
(* (stn_lifecycle_apply_transaction).                                      *)
LEMMA ChainedStays ==
    ASSUME NEW l, NEW m, Chained(l), m.rotations = l.rotations, l.consumed \subseteq m.consumed
    PROVE  Chained(m) /\ Retired(m) = Retired(l)
  BY DEF Chained, Retired

(* A projection that keeps its marks, adds the mark of tx and gains no     *)
(* grant but tx explains the line with tx added                            *)
(* (stn_lifecycle_apply_transaction).                                      *)
LEMMA ExplainsExtends ==
    ASSUME NEW T, NEW q, NEW tx, AtEnd(T, q), NEW l, NEW m, Explains(l, T), Chained(m),
           m.grants \subseteq l.grants \cup {tx},
           l.revoked \subseteq m.revoked, Retired(l) \subseteq Retired(m),
           tx.type = "REVOKE" => tx.grant \in m.revoked,
           tx.type = "ROTATE" => tx.old \in Retired(m)
    PROVE  Explains(m, Extend(T, q, tx))
  <1> DEFINE U == Extend(T, q, tx)
  <1>1. /\ DOMAIN U = DOMAIN T \cup {q}
        /\ U[q] = tx
        /\ \A p \in DOMAIN T : p # q /\ U[p] = T[p]
    BY DEF Extend, AtEnd
  <1> HIDE DEF U
  <1>2. \A g \in m.grants : \E p \in DOMAIN U : U[p] = g
    BY <1>1 DEF Explains
  <1>3. \A p \in DOMAIN U : U[p].type = "REVOKE" => U[p].grant \in m.revoked
    BY <1>1 DEF Explains
  <1>4. \A p \in DOMAIN U : U[p].type = "ROTATE" => U[p].old \in Retired(m)
    BY <1>1 DEF Explains
  <1> QED
    BY <1>2, <1>3, <1>4 DEF Explains, U

-----------------------------------------------------------------------------
(* One transaction.  One that is no revocation, rotation or governed       *)
(* publication extends the line without a change of the projection: the    *)
(* economic arms of validate_candidate.                                    *)
LEMMA PlainExtends ==
    ASSUME NEW T, NEW q, NEW tx, AtEnd(T, q), NEW l, Ruled(l, T),
           tx.type \notin {"REVOKE", "ROTATE"},
           tx.type = "PUBLICATION" => ~(q[1] - 1 >= ActivationHeight)
    PROVE  Ruled(l, Extend(T, q, tx))
  <1>1. Explains(l, Extend(T, q, tx))
    <2>1. Chained(l) /\ Explains(l, T)
      BY DEF Ruled, Explains
    <2> QED
      BY <2>1, ExplainsExtends
  <1>2. Authorized(Extend(T, q, tx))
    BY AuthorizedExtends DEF Ruled
  <1>3. Silent(Extend(T, q, tx))
    BY SilentExtends DEF Ruled
  <1> QED
    BY <1>1, <1>2, <1>3 DEF Ruled

(* A grant adds itself to the grants (stn_authority_state_apply).          *)
LEMMA GrantExtends ==
    ASSUME NEW T, NEW q, AtEnd(T, q), NEW l \in Lifecycles, Ruled(l, T),
           NEW tx \in GrantRecords
    PROVE  Ruled(ApplyGrant(l, tx), Extend(T, q, tx))
  <1> DEFINE m == ApplyGrant(l, tx)
  <1>1. /\ m.grants = l.grants \cup {tx}
        /\ m.revoked = l.revoked /\ m.rotations = l.rotations
        /\ l.consumed \subseteq m.consumed
    BY DEF ApplyGrant, Consume, Lifecycles
  <1>2. tx.type = "GRANT"
    BY DEF GrantRecords
  <1> HIDE DEF m
  <1>3. Chained(m) /\ Retired(m) = Retired(l)
    BY <1>1, ChainedStays DEF Ruled, Explains
  <1>4. Explains(m, Extend(T, q, tx))
    BY <1>1, <1>2, <1>3, ExplainsExtends DEF Ruled
  <1>5. Authorized(Extend(T, q, tx)) /\ Silent(Extend(T, q, tx))
    BY <1>2, AuthorizedExtends, SilentExtends DEF Ruled
  <1> QED
    BY <1>4, <1>5 DEF Ruled, m

(* A revocation adds its grant to the revoked set                          *)
(* (stn_authority_state_apply).                                            *)
LEMMA RevocationExtends ==
    ASSUME NEW T, NEW q, AtEnd(T, q), NEW l \in Lifecycles, Ruled(l, T),
           NEW tx \in RevocationRecords, RevocationOK(l, tx)
    PROVE  Ruled(ApplyRevocation(l, tx), Extend(T, q, tx))
  <1> DEFINE m == ApplyRevocation(l, tx)
  <1>1. /\ m.revoked = l.revoked \cup {tx.grant}
        /\ m.grants = l.grants /\ m.rotations = l.rotations
        /\ l.consumed \subseteq m.consumed
    BY DEF ApplyRevocation, Consume, Lifecycles
  <1>2. tx.type = "REVOKE"
    BY DEF RevocationRecords
  <1> HIDE DEF m
  <1>3. Chained(m) /\ Retired(m) = Retired(l)
    BY <1>1, ChainedStays DEF Ruled, Explains
  <1>4. Explains(m, Extend(T, q, tx))
    BY <1>1, <1>2, <1>3, ExplainsExtends DEF Ruled
  <1>5. Authorized(Extend(T, q, tx)) /\ Silent(Extend(T, q, tx))
    BY <1>2, AuthorizedExtends, SilentExtends DEF Ruled
  <1> QED
    BY <1>4, <1>5 DEF Ruled, m

(* A rotation leaves an identity no earlier rotation left, for one no      *)
(* earlier rotation left (stn_identity_rotation_validate).                 *)
LEMMA RotationExtendsLine ==
    ASSUME NEW T, NEW q, AtEnd(T, q), NEW l \in Lifecycles, Ruled(l, T),
           NEW tx \in RotationRecords, RotationOK(l, tx)
    PROVE  Ruled(ApplyRotation(l, tx), Extend(T, q, tx))
  <1> DEFINE m == ApplyRotation(l, tx)
  <1>1. m.grants = l.grants /\ m.revoked = l.revoked
    BY DEF ApplyRotation, Consume, Lifecycles
  <1>2. tx.type = "ROTATE"
    BY DEF RotationRecords
  <1>3. /\ Chained(m) /\ Retired(m) = Retired(l) \cup {tx.old}
        /\ tx.old \notin Retired(l) /\ tx.new \notin Retired(l)
    BY RotationChains DEF Ruled, Explains
  <1> HIDE DEF m
  <1>4. Explains(m, Extend(T, q, tx))
    BY <1>1, <1>2, <1>3, ExplainsExtends DEF Ruled
  <1>5. Authorized(Extend(T, q, tx))
    BY <1>2, AuthorizedExtends DEF Ruled
  <1>6. \A p \in DOMAIN T : T[p].type = "ROTATE" => T[p].old \notin {tx.old, tx.new}
    BY <1>3 DEF Ruled, Explains
  <1>7. Silent(Extend(T, q, tx))
    BY <1>2, <1>6, SilentExtends DEF Ruled
  <1> QED
    BY <1>4, <1>5, <1>7 DEF Ruled, m

(* A governed publication has a grant in force and a signer that was not   *)
(* left (stn_lifecycle_check_publication).                                 *)
LEMMA PublicationExtends ==
    ASSUME NEW T, NEW q, AtEnd(T, q), NEW l \in Lifecycles, Ruled(l, T),
           NEW tx \in PublicationRecords, PublicationOK(l, tx)
    PROVE  Ruled(Consume(l, tx), Extend(T, q, tx))
  <1> DEFINE m == Consume(l, tx)
  <1>1. /\ m.grants = l.grants /\ m.revoked = l.revoked /\ m.rotations = l.rotations
        /\ l.consumed \subseteq m.consumed
    BY DEF Consume, Lifecycles
  <1>2. tx.type = "PUBLICATION"
    BY DEF PublicationRecords
  <1> HIDE DEF m
  <1>3. Chained(m) /\ Retired(m) = Retired(l)
    BY <1>1, ChainedStays DEF Ruled, Explains
  <1>4. Explains(m, Extend(T, q, tx))
    BY <1>1, <1>2, <1>3, ExplainsExtends DEF Ruled
  <1>5. PICK g \in l.grants \ l.revoked : g.subject = tx.signer /\ g.scope = tx.scope
    BY DEF PublicationOK
  <1>6. PICK p \in DOMAIN T : T[p] = g
    BY <1>5 DEF Ruled, Explains
  <1>7. g.type = "GRANT"
    <2>1. g \in GrantRecords
      BY <1>5 DEF Lifecycles
    <2> QED
      BY <2>1 DEF GrantRecords
  <1>8. \A r \in DOMAIN T : T[r].type = "REVOKE" => T[r].grant # T[p]
    BY <1>5, <1>6 DEF Ruled, Explains
  <1>9. Authorized(Extend(T, q, tx))
    BY <1>5, <1>6, <1>7, <1>8, AuthorizedExtends DEF Ruled
  <1>10. \A p2 \in DOMAIN T : T[p2].type = "ROTATE" => tx.signer # T[p2].old
    BY DEF PublicationOK, Ruled, Explains
  <1>11. Silent(Extend(T, q, tx))
    BY <1>2, <1>10, SilentExtends DEF Ruled
  <1> QED
    BY <1>4, <1>9, <1>11 DEF Ruled, m

-----------------------------------------------------------------------------
(* The steps.  A pass of the loop over one transaction preserves the       *)
(* invariant when the clone it leaves obeys the rules on the line with the *)
(* transaction added (validate_candidate).                                 *)
LEMMA AuthorityLoopPass ==
    ASSUME TypeOK, AuthorityInv, UNCHANGED <<history, authority, block>>, Applying,
           next' = next + 1,
           Ruled(cloneA', Extend(Seen, <<Len(history) + 1, next>>, Tx))
    PROVE  AuthorityInv'
  <1>1. history \in Seq(BlockRecords) /\ block \in BlockRecords /\ next \in DOMAIN block.txs
    BY BlockBody DEF TypeOK, Applying
  <1>2. Seen' = Extend(Seen, <<Len(history) + 1, next>>, Tx)
    BY <1>1, TimelineGrows DEF Seen, Tx
  <1>3. Past' = Past
    BY DEF Past
  <1>4. Ruled(authority', Past') /\ Ruled(cloneA', Seen')
    BY <1>2, <1>3 DEF AuthorityInv
  <1> QED
    BY <1>4 DEF AuthorityInv

(* The end of the line is a new place for the transaction at hand          *)
(* (validate_candidate).                                                   *)
LEMMA HereAtEnd ==
    ASSUME TypeOK, Applying
    PROVE  AtEnd(Seen, <<Len(history) + 1, next>>)
  <1>1. history \in Seq(BlockRecords) /\ block \in BlockRecords /\ next \in DOMAIN block.txs
    BY BlockBody DEF TypeOK, Applying
  <1> QED
    BY <1>1, TimelineGrows DEF Seen, AtEnd

(* Between candidates the line is the accepted history                     *)
(* (validate_candidate, failure and success arms).                         *)
LEMMA AuthorityReset ==
    ASSUME TypeOK, TypeOK', Ruled(authority', Past'), next' = 1, cloneA' = authority'
    PROVE  AuthorityInv'
  <1>1. /\ history' \in Seq(BlockRecords) /\ block' \in BlockRecords
        /\ Genesis \in BlockRecords
    BY ChainAssumption DEF TypeOK
  <1>2. Seen' = Past'
    BY <1>1, TimelineStart DEF Seen, Past
  <1> QED
    BY <1>2 DEF AuthorityInv

(* A step that changes neither history nor projections preserves the       *)
(* invariant, and the rules on the accepted line follow an unchanged       *)
(* history (stn_chain_validate_candidate, refusal).                        *)
LEMMA AuthorityStutter ==
    ASSUME AuthorityInv, UNCHANGED <<history, authority, block, next, cloneA>>
    PROVE  AuthorityInv'
  <1>1. Past' = Past /\ Seen' = Seen
    BY DEF Past, Seen
  <1> QED
    BY <1>1 DEF AuthorityInv

(* An unchanged history keeps its line (a candidate that is refused).      *)
LEMMA SamePast ==
    ASSUME AuthorityInv, UNCHANGED <<history, authority>>
    PROVE  Ruled(authority', Past')
  <1>1. Past' = Past
    BY DEF Past
  <1> QED
    BY <1>1 DEF AuthorityInv

(* A reward pair is two passes in one, neither of which speaks of          *)
(* authority (validate_candidate, compensation arm).                       *)
LEMMA AuthorityReward ==
    ASSUME TypeOK, AuthorityInv, AcceptReward
    PROVE  AuthorityInv'
  <1> DEFINE q == <<Len(history) + 1, next>>
             r == <<Len(history) + 1, next + 1>>
             T == Timeline(history, block, next + 1)
             issuance == block.txs[next + 1]
  <1>1. /\ Applying /\ Tx.type = "REWARD" /\ RewardPairOK(mode, Tx, cloneE)
        /\ cloneA' = cloneA /\ Advance(2)
    BY DEF AcceptReward, ApplyEconomic, TxOK
  <1>2. /\ history \in Seq(BlockRecords) /\ block \in BlockRecords
        /\ next \in DOMAIN block.txs /\ next + 1 \in DOMAIN block.txs
        /\ next + 2 = (next + 1) + 1
    BY <1>1, BlockBody DEF TypeOK, Applying, RewardPairOK, RewardPaired
  <1>3. issuance.type = "ISSUANCE"
    BY <1>1 DEF RewardPairOK, RewardOK, IsBlockIssuance
  <1>4. AtEnd(Seen, q) /\ T = Extend(Seen, q, Tx)
    BY <1>1, <1>2, HereAtEnd, TimelineGrows DEF Seen, Tx
  <1>5. Ruled(cloneA, T)
    BY <1>1, <1>4, PlainExtends DEF AuthorityInv
  <1>6. AtEnd(T, r) /\ Timeline(history, block, next + 2) = Extend(T, r, issuance)
    BY <1>2, TimelineGrows DEF AtEnd
  <1>7. Ruled(cloneA, Extend(T, r, issuance))
    BY <1>3, <1>5, <1>6, PlainExtends
  <1>8. Seen' = Extend(T, r, issuance) /\ Past' = Past /\ authority' = authority
    BY <1>1, <1>6 DEF Seen, Past, Advance, accepted
  <1> QED
    BY <1>1, <1>7, <1>8 DEF AuthorityInv

(* A publication is dormant below the activation height and otherwise      *)
(* authorised by the clone (stn_chain.c, publication arm).                 *)
LEMMA AuthorityPublication ==
    ASSUME TypeOK, OnceInv, AuthorityInv, AcceptPublication
    PROVE  AuthorityInv'
  <1> DEFINE q == <<Len(history) + 1, next>>
  <1>1. /\ Applying /\ Advance(1) /\ Tx.type = "PUBLICATION"
        /\ Dormant(Tx) \/ PublicationOK(cloneA, Tx)
        /\ cloneA' = IF Dormant(Tx) THEN cloneA ELSE Consume(cloneA, Tx)
    BY DEF AcceptPublication, ApplyAuthority, TxOK
  <1>2. /\ AtEnd(Seen, q) /\ Ruled(cloneA, Seen) /\ cloneA \in Lifecycles
        /\ Tx \in PublicationRecords
    BY <1>1, HereAtEnd, TxType, TransactionTypes DEF AuthorityInv, TypeOK
  <1>3. block.height = Len(history) /\ Len(history) \in Nat
    BY <1>1 DEF OnceInv, Applying, TypeOK
  <1>4. q[1] - 1 = block.height
    BY <1>3
  <1>5. CASE Dormant(Tx)
    <2>1. ~(q[1] - 1 >= ActivationHeight)
      BY <1>3, <1>4, <1>5, ChainAssumption DEF Dormant
    <2>2. Ruled(cloneA', Extend(Seen, q, Tx))
      BY <1>1, <1>2, <1>5, <2>1, PlainExtends
    <2> QED
      BY <1>1, <2>2, AuthorityLoopPass DEF Advance, accepted
  <1>6. CASE ~Dormant(Tx)
    <2>1. Ruled(cloneA', Extend(Seen, q, Tx))
      BY <1>1, <1>2, <1>6, PublicationExtends
    <2> QED
      BY <1>1, <2>1, AuthorityLoopPass DEF Advance, accepted
  <1> QED
    BY <1>5, <1>6

(* Publication makes the line of the candidate the accepted one and its    *)
(* clone the accepted projection (validate_candidate).                     *)
LEMMA AuthorityPublish ==
    ASSUME TypeOK, AuthorityInv, Publish
    PROVE  AuthorityInv'
  <1>0. TypeOK'
    BY TypeNext DEF Next
  <1>1. CASE mode = "history"
    <2>1. /\ history' = Append(history, block) /\ authority' = cloneA
          /\ cloneA' = authority' /\ next' = 1 /\ next > Len(block.txs)
      BY <1>1 DEF Publish
    <2>2. Past' = Seen
      BY <2>1, TimelinePublish, ChainAssumption DEF Past, Seen, TypeOK
    <2>3. Ruled(authority', Past')
      BY <2>1, <2>2 DEF AuthorityInv
    <2> QED
      BY <1>0, <2>1, <2>3, AuthorityReset
  <1>2. CASE mode # "history"
    <2>1. UNCHANGED <<history, authority>> /\ next' = 1 /\ cloneA' = authority'
      BY <1>2 DEF Publish, accepted
    <2> QED
      BY <1>0, <2>1, AuthorityReset, SamePast
  <1> QED
    BY <1>1, <1>2

(* Every step of validate_candidate preserves the rules of authority.      *)
LEMMA AuthorityNext == TypeOK /\ OnceInv /\ AuthorityInv /\ [Next]_vars => AuthorityInv'
  <1> SUFFICES ASSUME TypeOK, OnceInv, AuthorityInv, [Next]_vars PROVE AuthorityInv'
    OBVIOUS
  <1> DEFINE q == <<Len(history) + 1, next>>
  <1>0. TypeOK' /\ cloneA \in Lifecycles
    BY TypeNext DEF TypeOK
  <1>1. ASSUME Applying PROVE AtEnd(Seen, q) /\ Ruled(cloneA, Seen) /\ Tx \in TransactionRecords
    BY <1>1, HereAtEnd, TxType DEF AuthorityInv
  <1>2. ASSUME Applying, Advance(1), cloneA' = cloneA, Tx.type \notin {"REVOKE", "ROTATE", "PUBLICATION"}
        PROVE  AuthorityInv'
    <2>1. Ruled(cloneA, Extend(Seen, q, Tx))
      BY <1>1, <1>2, PlainExtends
    <2> QED
      BY <1>2, <2>1, AuthorityLoopPass DEF Advance, accepted
  <1>3. CASE AcceptShare \/ AcceptDestination \/ AcceptShareIssuance \/ AcceptTransfer
    BY <1>2, <1>3 DEF AcceptShare, AcceptDestination, AcceptShareIssuance, AcceptTransfer,
                      ApplyEconomic
  <1>4. CASE AcceptReward
    BY <1>4, AuthorityReward
  <1>5. CASE AcceptGrant
    <2>1. Applying /\ Advance(1) /\ Tx.type = "GRANT" /\ cloneA' = ApplyGrant(cloneA, Tx)
      BY <1>5 DEF AcceptGrant, ApplyAuthority
    <2>2. Tx \in GrantRecords
      BY <1>1, <2>1, TransactionTypes
    <2>3. Ruled(cloneA', Extend(Seen, q, Tx))
      BY <1>0, <1>1, <2>1, <2>2, GrantExtends
    <2> QED
      BY <2>1, <2>3, AuthorityLoopPass DEF Advance, accepted
  <1>6. CASE AcceptRevocation
    <2>1. /\ Applying /\ Advance(1) /\ Tx.type = "REVOKE"
          /\ RevocationOK(cloneA, Tx) /\ cloneA' = ApplyRevocation(cloneA, Tx)
      BY <1>6 DEF AcceptRevocation, ApplyAuthority, TxOK
    <2>2. Tx \in RevocationRecords
      BY <1>1, <2>1, TransactionTypes
    <2>3. Ruled(cloneA', Extend(Seen, q, Tx))
      BY <1>0, <1>1, <2>1, <2>2, RevocationExtends
    <2> QED
      BY <2>1, <2>3, AuthorityLoopPass DEF Advance, accepted
  <1>7. CASE AcceptRotation
    <2>1. /\ Applying /\ Advance(1) /\ Tx.type = "ROTATE"
          /\ RotationOK(cloneA, Tx) /\ cloneA' = ApplyRotation(cloneA, Tx)
      BY <1>7 DEF AcceptRotation, ApplyAuthority, TxOK
    <2>2. Tx \in RotationRecords
      BY <1>1, <2>1, TransactionTypes
    <2>3. Ruled(cloneA', Extend(Seen, q, Tx))
      BY <1>0, <1>1, <2>1, <2>2, RotationExtendsLine
    <2> QED
      BY <2>1, <2>3, AuthorityLoopPass DEF Advance, accepted
  <1>8. CASE AcceptPublication
    BY <1>8, AuthorityPublication
  <1>9. CASE Discard
    <2>1. UNCHANGED <<history, authority>> /\ next' = 1 /\ cloneA' = authority'
      BY <1>9 DEF Discard, accepted
    <2> QED
      BY <1>0, <2>1, AuthorityReset, SamePast DEF AuthorityInv
  <1>10. CASE Publish
    BY <1>10, AuthorityPublish
  <1>11. ASSUME NEW b \in Offers \cup {Genesis}, RefuseLink(b) PROVE AuthorityInv'
    BY <1>11, AuthorityStutter DEF RefuseLink, accepted, candidate
  <1>12. ASSUME NEW b \in Offers \cup {Genesis}, NEW m \in Modes, Begin(b, m)
         PROVE  AuthorityInv'
    <2>1. UNCHANGED <<history, authority>> /\ next' = 1 /\ cloneA' = authority'
      BY <1>12 DEF Begin, accepted
    <2> QED
      BY <1>0, <2>1, AuthorityReset, SamePast DEF AuthorityInv
  <1>13. CASE UNCHANGED vars
    BY <1>13, AuthorityStutter DEF vars, accepted, candidate
  <1> QED
    BY <1>3, <1>4, <1>5, <1>6, <1>7, <1>8, <1>9, <1>10, <1>11, <1>12, <1>13 DEF Next

(* The EMPTY state has a line with nothing on it (stn_chain_initialize).   *)
LEMMA EmptyLine == Init => DOMAIN Past = {} /\ Seen = Past
  <1> SUFFICES ASSUME Init PROVE DOMAIN Past = {} /\ Seen = Past
    OBVIOUS
  <1>1. history = <<>> /\ block = Genesis /\ next = 1
    BY DEF Init
  <1>2. <<>> \in Seq(BlockRecords) /\ 1 \in Nat /\ DOMAIN Genesis.txs \subseteq Nat \ {0}
    BY ChainAssumption, BlockBody
  <1>3. ASSUME NEW p, p \in Places(history, Genesis, 1) PROVE FALSE
    <2>1. DOMAIN history = {}
      BY <1>1
    <2>2. p[2] \in DOMAIN Genesis.txs /\ p[2] < 1
      BY <1>1, <1>2, <1>3, <2>1, PlacesAre, ChainAssumption
    <2> QED
      BY <1>2, <2>2
  <1> QED
    BY <1>1, <1>3 DEF Past, Seen, Timeline

(* And it obeys the rules of authority (stn_chain_initialize).             *)
LEMMA AuthorityInit == Init => AuthorityInv
  <1> SUFFICES ASSUME Init PROVE AuthorityInv
    OBVIOUS
  <1>1. authority = EmptyLifecycle /\ cloneA = authority
    BY DEF Init
  <1>2. DOMAIN Past = {} /\ Seen = Past
    BY EmptyLine
  <1>3. /\ authority.grants = {} /\ authority.revoked = {} /\ authority.rotations = <<>>
    BY <1>1 DEF EmptyLifecycle
  <1>4. Ruled(authority, Past)
    BY <1>2, <1>3 DEF Ruled, Explains, Chained, Authorized, Silent
  <1> QED
    BY <1>1, <1>2, <1>4 DEF AuthorityInv

(* The line of the accepted history, read by block and position.           *)
LEMMA PastReads ==
    ASSUME TypeOK
    PROVE  /\ \A h \in DOMAIN history : \A i \in DOMAIN history[h].txs :
                  <<h, i>> \in DOMAIN Past /\ Past[<<h, i>>] = TxAt(h, i)
           /\ \A p \in DOMAIN Past :
                  /\ p = <<p[1], p[2]>>
                  /\ p[1] \in DOMAIN history /\ p[2] \in DOMAIN history[p[1]].txs
                  /\ Past[p] = TxAt(p[1], p[2])
  <1>1. /\ history \in Seq(BlockRecords) /\ Genesis \in BlockRecords /\ 1 \in Nat
        /\ DOMAIN history \subseteq Nat
        /\ DOMAIN Genesis.txs \subseteq Nat \ {0}
    BY ChainAssumption, BlockBody DEF TypeOK
  <1>2. ASSUME NEW h \in DOMAIN history, NEW i \in DOMAIN history[h].txs
        PROVE  <<h, i>> \in DOMAIN Past /\ Past[<<h, i>>] = TxAt(h, i)
    <2>1. i \in Nat
      <3>1. history[h].txs \in Seq(TransactionRecords)
        BY <1>1, BlockBody
      <3> QED
        BY <3>1
    <2>2. <<h, i>> \in Places(history, Genesis, 1)
      BY <1>1, <2>1, PlacesAre
    <2> QED
      BY <2>2 DEF Past, Timeline, TxAt
  <1>3. ASSUME NEW p \in DOMAIN Past
        PROVE  /\ p = <<p[1], p[2]>>
               /\ p[1] \in DOMAIN history /\ p[2] \in DOMAIN history[p[1]].txs
               /\ Past[p] = TxAt(p[1], p[2])
    <2>1. p \in Places(history, Genesis, 1)
      BY DEF Past, Timeline
    <2>2. /\ p = <<p[1], p[2]>>
          /\ p[1] \in DOMAIN history /\ p[2] \in DOMAIN history[p[1]].txs
      <3>1. p[2] \in Nat \ {0} => ~(p[2] < 1)
        OBVIOUS
      <3> QED
        BY <1>1, <2>1, <3>1, PlacesAre
    <2> QED
      BY <2>1, <2>2 DEF Past, Timeline, TxAt
  <1> QED
    BY <1>2, <1>3

(* The rule of the line is the property of the history                     *)
(* (stn_lifecycle_check_publication).                                      *)
LEMMA AuthorizedStep == TypeOK /\ AuthorityInv => PublicationAuthorized
  <1> SUFFICES ASSUME TypeOK, AuthorityInv,
                      NEW k \in DOMAIN history, NEW j \in DOMAIN history[k].txs,
                      Governed(k, j), TxAt(k, j).type = "PUBLICATION"
               PROVE  \E h \in DOMAIN history : \E i \in DOMAIN history[h].txs :
                         /\ Before(h, i, k, j)
                         /\ TxAt(h, i).type = "GRANT"
                         /\ TxAt(h, i).subject = TxAt(k, j).signer
                         /\ TxAt(h, i).scope = TxAt(k, j).scope
                         /\ ~\E g \in DOMAIN history : \E f \in DOMAIN history[g].txs :
                               /\ Before(g, f, k, j)
                               /\ TxAt(g, f).type = "REVOKE"
                               /\ TxAt(g, f).grant = TxAt(h, i)
    BY DEF PublicationAuthorized
  <1> DEFINE q == <<k, j>>
  <1>1. q \in DOMAIN Past /\ Past[q] = TxAt(k, j) /\ q[1] = k /\ q[2] = j
    BY PastReads
  <1>2. Publishes(Past, q)
    BY <1>1 DEF Publishes, Governed
  <1>3. PICK p \in DOMAIN Past : GrantFor(Past, p, q) /\ ~RevokedBy(Past, p, q)
    BY <1>1, <1>2 DEF AuthorityInv, Ruled, Authorized
  <1>4. /\ p[1] \in DOMAIN history /\ p[2] \in DOMAIN history[p[1]].txs
        /\ Past[p] = TxAt(p[1], p[2])
    BY PastReads
  <1>5. /\ Before(p[1], p[2], k, j)
        /\ TxAt(p[1], p[2]).type = "GRANT"
        /\ TxAt(p[1], p[2]).subject = TxAt(k, j).signer
        /\ TxAt(p[1], p[2]).scope = TxAt(k, j).scope
    BY <1>1, <1>3, <1>4 DEF GrantFor, Earlier
  <1>6. ASSUME NEW g \in DOMAIN history, NEW f \in DOMAIN history[g].txs,
               Before(g, f, k, j), TxAt(g, f).type = "REVOKE",
               TxAt(g, f).grant = TxAt(p[1], p[2])
        PROVE  FALSE
    <2>1. <<g, f>> \in DOMAIN Past /\ Past[<<g, f>>] = TxAt(g, f)
      BY PastReads
    <2>2. Earlier(<<g, f>>, q)
      BY <1>6 DEF Earlier
    <2> QED
      BY <1>3, <1>4, <1>6, <2>1, <2>2 DEF RevokedBy
  <1> QED
    BY <1>4, <1>5, <1>6

(* The same for the identities left behind (stn_identity_rotation_validate). *)
LEMMA SilentStep == TypeOK /\ AuthorityInv => RetiredIdentitySilent
  <1> SUFFICES ASSUME TypeOK, AuthorityInv,
                      NEW h \in DOMAIN history, NEW k \in DOMAIN history,
                      NEW i \in DOMAIN history[h].txs, NEW j \in DOMAIN history[k].txs,
                      TxAt(h, i).type = "ROTATE", Before(h, i, k, j), Governed(k, j)
               PROVE  /\ TxAt(k, j).type = "PUBLICATION" =>
                            TxAt(k, j).signer # TxAt(h, i).old
                      /\ TxAt(k, j).type = "ROTATE" =>
                            TxAt(h, i).old \notin {TxAt(k, j).old, TxAt(k, j).new}
    BY DEF RetiredIdentitySilent
  <1> DEFINE p == <<h, i>>
             q == <<k, j>>
  <1>1. /\ p \in DOMAIN Past /\ Past[p] = TxAt(h, i)
        /\ q \in DOMAIN Past /\ Past[q] = TxAt(k, j)
        /\ q[1] = k
    BY PastReads
  <1>2. Earlier(p, q)
    BY DEF Earlier
  <1>3. TxAt(k, j).type = "PUBLICATION" => Publishes(Past, q)
    BY <1>1 DEF Publishes, Governed
  <1> QED
    BY <1>1, <1>2, <1>3 DEF AuthorityInv, Ruled, Silent

(* The invariant holds in every reachable state (stn_lifecycle.c).         *)
LEMMA AuthorityCorrect == Spec => []AuthorityInv
  BY TypeCorrect, OnceCorrect, AuthorityInit, AuthorityNext, PTL DEF Spec

(* Whenever a governed publication was accepted, a grant for its signer    *)
(* and scope had been accepted before it and no revocation of that grant   *)
(* had: whatever the order of statements within and across blocks          *)
(* (stn_lifecycle_check_publication).                                      *)
THEOREM PublicationsAuthorized == Spec => []PublicationAuthorized
  BY TypeCorrect, AuthorityCorrect, AuthorizedStep, PTL

(* An identity that was rotated away never signs a governed publication    *)
(* again and is never rotated from or to again                             *)
(* (stn_lifecycle_check_publication, stn_identity_rotation_validate).      *)
THEOREM RetiredStaySilent == Spec => []RetiredIdentitySilent
  BY TypeCorrect, AuthorityCorrect, SilentStep, PTL

-----------------------------------------------------------------------------
(* Supply.  What the issuances of a timeline create, as a function of      *)
(* their places.                                                           *)
Issues(T) == {p \in DOMAIN T : T[p].type = "ISSUANCE"}
Created(T) == [p \in Issues(T) |-> UnitsOf(T[p])]

(* A projection accounts for its line: the balances add up to the supply,  *)
(* and so do the issuances on the line.                                    *)
Accounted(e, T) ==
    /\ IsFiniteSet(DOMAIN T)
    /\ e.supply = Total(e.balance, Wallets)
    /\ e.supply = Total(Created(T), Issues(T))

SupplyInv == Accounted(economy, Past) /\ Accounted(cloneE, Seen)

(* The units of an issuance are a number (stn_issuance.c).                 *)
LEMMA UnitsAreNat == \A tx : UnitsOf(tx) \in Nat
  BY EconomyAssumption DEF UnitsOf

(* Whatever creates nothing and moves nothing between wallets keeps the    *)
(* account (share evidence, destinations, authority records).              *)
LEMMA AccountStays ==
    ASSUME NEW T, NEW q, q \notin DOMAIN T, NEW tx, tx.type # "ISSUANCE",
           NEW e, NEW f, Accounted(e, T), f.supply = e.supply,
           Total(f.balance, Wallets) = Total(e.balance, Wallets)
    PROVE  Accounted(f, Extend(T, q, tx))
  <1> DEFINE U == Extend(T, q, tx)
  <1>1. DOMAIN U = DOMAIN T \cup {q} /\ U[q] = tx /\ \A p \in DOMAIN T : U[p] = T[p]
    BY DEF Extend
  <1> HIDE DEF U
  <1>2. IsFiniteSet(DOMAIN U)
    BY <1>1, FS_AddElement DEF Accounted
  <1>3. Issues(U) = Issues(T)
    BY <1>1 DEF Issues
  <1>4. Created(U) = Created(T)
    BY <1>1, <1>3 DEF Created, Issues
  <1> QED
    BY <1>2, <1>3, <1>4 DEF Accounted, U

(* A credit adds its units to one wallet, to the supply and to what was    *)
(* issued (stn_economic_state_apply).                                      *)
LEMMA AccountCredits ==
    ASSUME NEW T, NEW q, q \notin DOMAIN T, NEW tx \in IssuanceRecords,
           NEW e \in Economies, Accounted(e, T), NEW r,
           NEW f, f = Credit([e EXCEPT !.rewards = r], tx) \/ f = Credit(e, tx),
           f \in Economies
    PROVE  Accounted(f, Extend(T, q, tx))
  <1> DEFINE U == Extend(T, q, tx)
             u == UnitsOf(tx)
  <1>1. /\ DOMAIN U = DOMAIN T \cup {q} /\ U[q] = tx /\ \A p \in DOMAIN T : U[p] = T[p]
        /\ tx.type = "ISSUANCE" /\ tx.wallet \in Wallets /\ u \in Nat
        /\ IsFiniteSet(Wallets)
    BY UnitsAreNat, EconomyAssumption DEF Extend, IssuanceRecords
  <1>2. /\ e.balance \in [Wallets -> 0..MaxUnits] /\ f.balance \in [Wallets -> 0..MaxUnits]
        /\ e.supply \in Nat /\ MaxUnits \in Nat
    BY EconomyAssumption DEF Economies
  <1>3. f.supply = e.supply + u /\ f.balance = [e.balance EXCEPT ![tx.wallet] = @ + u]
    BY DEF Credit, Economies
  <1>4. Total(f.balance, Wallets) + e.balance[tx.wallet]
           = Total(e.balance, Wallets) + f.balance[tx.wallet]
    <2>1. \A w \in Wallets : e.balance[w] \in Nat /\ f.balance[w] \in Nat
      BY <1>2
    <2>2. \A w \in Wallets \ {tx.wallet} : e.balance[w] = f.balance[w]
      BY <1>2, <1>3
    <2> QED
      BY <1>1, <2>1, <2>2, TotalChanges
  <1>5. /\ f.balance[tx.wallet] = e.balance[tx.wallet] + u /\ e.balance[tx.wallet] \in Nat
        /\ Total(e.balance, Wallets) \in Nat /\ Total(f.balance, Wallets) \in Nat
    BY <1>1, <1>2, <1>3, TotalSplits
  <1>6. f.supply = Total(f.balance, Wallets)
    <2>1. e.supply = Total(e.balance, Wallets)
      BY DEF Accounted
    <2> HIDE DEF u
    <2> QED
      BY <1>1, <1>2, <1>3, <1>4, <1>5, <2>1
  <1> HIDE DEF U
  <1>7. IsFiniteSet(DOMAIN U) /\ IsFiniteSet(Issues(T))
    BY <1>1, FS_AddElement, FS_Subset DEF Accounted, Issues
  <1>8. Issues(U) = Issues(T) \cup {q} /\ q \notin Issues(T)
    BY <1>1 DEF Issues
  <1>9. /\ \A p \in Issues(T) : Created(T)[p] \in Nat /\ Created(U)[p] = Created(T)[p]
        /\ Created(U)[q] = u
    BY <1>1, <1>8, UnitsAreNat DEF Created, Issues
  <1>10. Total(Created(U), Issues(U)) = Total(Created(T), Issues(T)) + u
    BY <1>1, <1>7, <1>8, <1>9, TotalGrows
  <1> QED
    BY <1>3, <1>6, <1>7, <1>10 DEF Accounted, U

(* A transfer takes from one wallet what it gives to another               *)
(* (stn_economic_state_apply_transfer).                                    *)
LEMMA TransferMoves ==
    ASSUME NEW e \in Economies, NEW tx \in TransferRecords, TransferOK(e, tx)
    PROVE  LET f == ApplyTransfer(e, tx)
           IN f.supply = e.supply /\ Total(f.balance, Wallets) = Total(e.balance, Wallets)
  <1> DEFINE f == ApplyTransfer(e, tx)
             s == tx.source
             d == tx.destination
             mid == [e.balance EXCEPT ![s] = @ - tx.units]
  <1>1. /\ s \in Wallets /\ d \in Wallets /\ s # d /\ tx.units \in Nat
        /\ e.balance \in [Wallets -> 0..MaxUnits] /\ MaxUnits \in Nat
        /\ tx.units <= e.balance[s] /\ IsFiniteSet(Wallets)
    BY EconomyAssumption DEF TransferRecords, TransferOK, Economies
  <1>2. f \in Economies /\ f.supply = e.supply
    BY TransferType DEF ApplyTransfer, Economies
  <1>3. f.balance = [mid EXCEPT ![d] = @ + tx.units]
    BY <1>1 DEF ApplyTransfer, Economies
  <1>4. f.balance \in [Wallets -> 0..MaxUnits]
    BY <1>2 DEF Economies
  <1>5. \A w \in Wallets : e.balance[w] \in Nat /\ f.balance[w] \in Nat
    BY <1>1, <1>4
  <1>6. /\ mid[s] = e.balance[s] - tx.units /\ mid[s] \in Nat
        /\ \A w \in Wallets \ {s} : mid[w] = e.balance[w]
        /\ f.balance[d] = mid[d] + tx.units
        /\ \A w \in Wallets \ {d} : f.balance[w] = mid[w]
    BY <1>1, <1>3
  <1> HIDE DEF mid, f
  <1>7. \A w \in Wallets : mid[w] \in Nat
    BY <1>5, <1>6
  <1>8. Total(mid, Wallets) + e.balance[s] = Total(e.balance, Wallets) + mid[s]
    BY <1>1, <1>5, <1>6, <1>7, TotalChanges
  <1>9. Total(f.balance, Wallets) + mid[d] = Total(mid, Wallets) + f.balance[d]
    <2>1. \A w \in Wallets \ {d} : mid[w] = f.balance[w]
      BY <1>6
    <2> QED
      BY <1>1, <1>5, <1>7, <2>1, TotalChanges
  <1>10. /\ Total(mid, Wallets) \in Nat /\ Total(e.balance, Wallets) \in Nat
         /\ Total(f.balance, Wallets) \in Nat
    BY <1>1, <1>5, <1>7, TotalSplits
  <1>11. /\ e.balance[s] \in Nat /\ mid[d] \in Nat /\ mid[s] \in Nat /\ f.balance[d] \in Nat
    BY <1>1, <1>5, <1>7
  <1>12. Total(f.balance, Wallets) = Total(e.balance, Wallets)
    BY <1>1, <1>6, <1>8, <1>9, <1>10, <1>11
  <1> QED
    BY <1>2, <1>12 DEF f

-----------------------------------------------------------------------------
(* One pass of the loop keeps the accounts when the clone it leaves        *)
(* accounts for the line with the transaction added.                       *)
LEMMA SupplyLoopPass ==
    ASSUME TypeOK, SupplyInv, UNCHANGED <<history, economy, block>>, Applying,
           next' = next + 1,
           Accounted(cloneE', Extend(Seen, <<Len(history) + 1, next>>, Tx))
    PROVE  SupplyInv'
  <1>1. history \in Seq(BlockRecords) /\ block \in BlockRecords /\ next \in DOMAIN block.txs
    BY BlockBody DEF TypeOK, Applying
  <1>2. Seen' = Extend(Seen, <<Len(history) + 1, next>>, Tx)
    BY <1>1, TimelineGrows DEF Seen, Tx
  <1>3. Past' = Past
    BY DEF Past
  <1>4. Accounted(economy', Past') /\ Accounted(cloneE', Seen')
    BY <1>2, <1>3 DEF SupplyInv
  <1> QED
    BY <1>4 DEF SupplyInv

(* Between candidates the clone is the accepted projection                 *)
(* (validate_candidate, failure and success arms).                         *)
LEMMA SupplyReset ==
    ASSUME TypeOK', Accounted(economy', Past'), next' = 1, cloneE' = economy'
    PROVE  SupplyInv'
  <1>1. /\ history' \in Seq(BlockRecords) /\ block' \in BlockRecords
        /\ Genesis \in BlockRecords
    BY ChainAssumption DEF TypeOK
  <1>2. Seen' = Past'
    BY <1>1, TimelineStart DEF Seen, Past
  <1> QED
    BY <1>2 DEF SupplyInv

(* An unchanged history keeps its account (a candidate that is refused).   *)
LEMMA SameAccount ==
    ASSUME SupplyInv, UNCHANGED <<history, economy>>
    PROVE  Accounted(economy', Past')
  <1>1. Past' = Past
    BY DEF Past
  <1> QED
    BY <1>1 DEF SupplyInv

(* A reward pair consumes its evidence and credits its issuance            *)
(* (validate_candidate, compensation arm).                                 *)
LEMMA SupplyReward ==
    ASSUME TypeOK, TypeOK', SupplyInv, AcceptReward
    PROVE  SupplyInv'
  <1> DEFINE q == <<Len(history) + 1, next>>
             r == <<Len(history) + 1, next + 1>>
             T == Timeline(history, block, next + 1)
             issuance == block.txs[next + 1]
  <1>1. /\ Applying /\ Tx.type = "REWARD" /\ RewardPairOK(mode, Tx, cloneE)
        /\ cloneE' = ApplyReward(cloneE, Tx, issuance) /\ Advance(2)
    BY DEF AcceptReward, ApplyEconomic, TxOK
  <1>2. /\ history \in Seq(BlockRecords) /\ block \in BlockRecords
        /\ next \in DOMAIN block.txs /\ next + 1 \in DOMAIN block.txs
        /\ next + 2 = (next + 1) + 1
    BY <1>1, BlockBody DEF TypeOK, Applying, RewardPairOK, RewardPaired
  <1>3. issuance \in IssuanceRecords
    <2>1. issuance \in TransactionRecords /\ issuance.type = "ISSUANCE"
      BY <1>1, <1>2, BlockBody DEF RewardPairOK, RewardOK, IsBlockIssuance
    <2> QED
      BY <2>1, TransactionTypes
  <1>4. q \notin DOMAIN Seen /\ T = Extend(Seen, q, Tx)
    BY <1>1, <1>2, TimelineGrows DEF Seen, Tx
  <1>5. cloneE \in Economies /\ cloneE' \in Economies /\ Accounted(cloneE, Seen)
    BY DEF TypeOK, SupplyInv
  <1>6. Accounted(cloneE, T)
    <2>1. Tx.type # "ISSUANCE"
      BY <1>1
    <2> QED
      BY <1>4, <1>5, <2>1, AccountStays
  <1>7. r \notin DOMAIN T /\ Timeline(history, block, next + 2) = Extend(T, r, issuance)
    BY <1>2, TimelineGrows
  <1>8. cloneE' = Credit([cloneE EXCEPT !.rewards = cloneE.rewards \cup {Tx}], issuance)
    BY <1>1 DEF ApplyReward
  <1> HIDE DEF T, issuance, r, q
  <1>9. Accounted(cloneE', Extend(T, r, issuance))
    BY <1>3, <1>5, <1>6, <1>7, <1>8, AccountCredits
  <1>10. Seen' = Extend(T, r, issuance) /\ Past' = Past /\ economy' = economy
    BY <1>1, <1>7 DEF Seen, Past, Advance, accepted
  <1> QED
    BY <1>9, <1>10 DEF SupplyInv

(* Publication makes the clone's account the accepted one                  *)
(* (validate_candidate).                                                   *)
LEMMA SupplyPublish ==
    ASSUME TypeOK, TypeOK', SupplyInv, Publish
    PROVE  SupplyInv'
  <1>1. CASE mode = "history"
    <2>1. /\ history' = Append(history, block) /\ economy' = cloneE
          /\ cloneE' = economy' /\ next' = 1 /\ next > Len(block.txs)
      BY <1>1 DEF Publish
    <2>2. Past' = Seen
      BY <2>1, TimelinePublish, ChainAssumption DEF Past, Seen, TypeOK
    <2>3. Accounted(economy', Past')
      BY <2>1, <2>2 DEF SupplyInv
    <2> QED
      BY <2>1, <2>3, SupplyReset
  <1>2. CASE mode # "history"
    <2>1. UNCHANGED <<history, economy>> /\ next' = 1 /\ cloneE' = economy'
      BY <1>2 DEF Publish, accepted
    <2> QED
      BY <2>1, SupplyReset, SameAccount
  <1> QED
    BY <1>1, <1>2

(* Every step of validate_candidate keeps the accounts.                    *)
LEMMA SupplyNext == TypeOK /\ SupplyInv /\ [Next]_vars => SupplyInv'
  <1> SUFFICES ASSUME TypeOK, SupplyInv, [Next]_vars PROVE SupplyInv'
    OBVIOUS
  <1> DEFINE q == <<Len(history) + 1, next>>
  <1>0. TypeOK' /\ cloneE \in Economies
    BY TypeNext DEF TypeOK
  <1>1. ASSUME Applying
        PROVE  /\ q \notin DOMAIN Seen /\ Accounted(cloneE, Seen)
               /\ Tx \in TransactionRecords
    BY <1>1, HereAtEnd, TxType DEF SupplyInv, AtEnd
  <1> HIDE DEF q
  <1>2. ASSUME Applying, Advance(1), Tx.type # "ISSUANCE", cloneE'.supply = cloneE.supply,
               Total(cloneE'.balance, Wallets) = Total(cloneE.balance, Wallets)
        PROVE  SupplyInv'
    <2>1. Accounted(cloneE', Extend(Seen, q, Tx))
      BY <1>1, <1>2, AccountStays
    <2> QED
      BY <1>2, <2>1, SupplyLoopPass DEF Advance, accepted, q
  <1>3. CASE AcceptShare \/ AcceptDestination
    <2>1. /\ Applying /\ Advance(1) /\ Tx.type # "ISSUANCE"
          /\ cloneE' = ConsumeShare(cloneE, Tx) \/ cloneE' = SetDestination(cloneE, Tx)
      BY <1>3 DEF AcceptShare, AcceptDestination, ApplyEconomic
    <2>2. cloneE'.supply = cloneE.supply /\ cloneE'.balance = cloneE.balance
      BY <1>0, <2>1 DEF ConsumeShare, SetDestination, Economies
    <2> QED
      BY <1>2, <2>1, <2>2
  <1>4. CASE AcceptShareIssuance
    <2>1. /\ Applying /\ Advance(1) /\ Tx.type = "ISSUANCE" /\ cloneE' = Credit(cloneE, Tx)
      BY <1>4 DEF AcceptShareIssuance, ApplyEconomic
    <2>2. Tx \in IssuanceRecords /\ cloneE' \in Economies
      BY <1>0, <1>1, <2>1, TransactionTypes DEF TypeOK
    <2>3. Accounted(cloneE', Extend(Seen, q, Tx))
      BY <1>0, <1>1, <2>1, <2>2, AccountCredits
    <2> QED
      BY <2>1, <2>3, SupplyLoopPass DEF Advance, accepted, q
  <1>5. CASE AcceptTransfer
    <2>1. /\ Applying /\ Advance(1) /\ Tx.type = "TRANSFER" /\ TransferOK(cloneE, Tx)
          /\ cloneE' = ApplyTransfer(cloneE, Tx)
      BY <1>5 DEF AcceptTransfer, ApplyEconomic, TxOK
    <2>2. Tx \in TransferRecords
      BY <1>1, <2>1, TransactionTypes
    <2> QED
      BY <1>0, <1>2, <2>1, <2>2, TransferMoves
  <1>6. CASE AcceptReward
    BY <1>0, <1>6, SupplyReward
  <1>7. CASE AcceptGrant \/ AcceptRevocation \/ AcceptRotation \/ AcceptPublication
    <2>1. Applying /\ Advance(1) /\ Tx.type # "ISSUANCE" /\ cloneE' = cloneE
      BY <1>7 DEF AcceptGrant, AcceptRevocation, AcceptRotation, AcceptPublication,
                  ApplyAuthority
    <2> QED
      BY <1>2, <2>1
  <1>8. CASE Discard
    <2>1. UNCHANGED <<history, economy>> /\ next' = 1 /\ cloneE' = economy'
      BY <1>8 DEF Discard, accepted
    <2> QED
      BY <1>0, <2>1, SupplyReset, SameAccount
  <1>9. CASE Publish
    BY <1>0, <1>9, SupplyPublish
  <1>10. CASE UNCHANGED <<history, economy, block, next, cloneE>>
    <2>1. Past' = Past /\ Seen' = Seen
      BY <1>10 DEF Past, Seen
    <2> QED
      BY <1>10, <2>1 DEF SupplyInv
  <1>11. ASSUME NEW b \in Offers \cup {Genesis}, RefuseLink(b) PROVE SupplyInv'
    BY <1>10, <1>11 DEF RefuseLink, accepted, candidate
  <1>12. ASSUME NEW b \in Offers \cup {Genesis}, NEW m \in Modes, Begin(b, m)
         PROVE  SupplyInv'
    <2>1. UNCHANGED <<history, economy>> /\ next' = 1 /\ cloneE' = economy'
      BY <1>12 DEF Begin, accepted
    <2> QED
      BY <1>0, <2>1, SupplyReset, SameAccount
  <1>13. CASE UNCHANGED vars
    BY <1>10, <1>13 DEF vars, accepted, candidate
  <1> QED
    BY <1>3, <1>4, <1>5, <1>6, <1>7, <1>8, <1>9, <1>11, <1>12, <1>13 DEF Next

(* The EMPTY state has no units and no issuance (stn_chain_initialize).    *)
LEMMA SupplyInit == Init => SupplyInv
  <1> SUFFICES ASSUME Init PROVE SupplyInv
    OBVIOUS
  <1>1. economy = EmptyEconomy /\ cloneE = economy
    BY DEF Init
  <1>2. DOMAIN Past = {} /\ Seen = Past
    BY EmptyLine
  <1>3. IsFiniteSet({}) /\ Issues(Past) = {}
    BY <1>2, FS_EmptySet DEF Issues
  <1>4. Total(Created(Past), Issues(Past)) = 0
    BY <1>3, TotalSplits
  <1>5. Total(economy.balance, Wallets) = 0
    BY <1>1, TotalOfZeros, EconomyAssumption DEF EmptyEconomy
  <1>6. economy.supply = 0
    BY <1>1 DEF EmptyEconomy
  <1> QED
    BY <1>1, <1>2, <1>3, <1>4, <1>5, <1>6 DEF SupplyInv, Accounted

(* The library's sums are the ones reasoned about.                         *)
LEMMA BalancesAdded ==
    ASSUME NEW e
    PROVE  MapThenSumSet(LAMBDA w : e.balance[w], Wallets) = Total(e.balance, Wallets)
  BY DEF Total, MapThenSumSet, MapThenFoldSet

(* So is the sum over the issuances, whatever their places.                *)
LEMMA IssuancesAdded ==
    ASSUME NEW Q, NEW f, f = [p \in Q |-> UnitsOf(TxAt(p[1], p[2]))]
    PROVE  MapThenSumSet(LAMBDA p : UnitsOf(TxAt(p[1], p[2])), Q) = Total(f, Q)
  <1> DEFINE U(p) == UnitsOf(TxAt(p[1], p[2]))
             P(it) == it = [T \in SUBSET Q |->
                               IF T = {} THEN 0 ELSE U(AnyOf(T)) + it[T \ {AnyOf(T)}]]
  <1>1. MapThenSumSet(LAMBDA p : UnitsOf(TxAt(p[1], p[2])), Q) = (CHOOSE it : P(it))[Q]
    BY DEF MapThenSumSet, MapThenFoldSet, AnyOf
  <1>2. ASSUME NEW it PROVE P(it) <=> Sums(f, Q, it)
    <2>1. \A T \in SUBSET Q : T # {} => AnyOf(T) \in Q
      BY DEF AnyOf
    <2>2. \A T \in SUBSET Q : T # {} => f[AnyOf(T)] = U(AnyOf(T))
      BY <2>1
    <2> HIDE DEF U
    <2> QED
      BY <2>2 DEF Sums, Partial
  <1>3. (CHOOSE it : P(it)) = (CHOOSE it : Sums(f, Q, it))
    <2> HIDE DEF P
    <2> QED
      BY <1>2
  <1> QED
    BY <1>1, <1>3, TotalIs

(* The accounts are the property.                                          *)
LEMMA SupplyStep == TypeOK /\ SupplyInv => SupplyIsAccounted
  <1> SUFFICES ASSUME TypeOK, SupplyInv PROVE SupplyIsAccounted
    OBVIOUS
  <1> DEFINE Q == {p \in Positions : TxAt(p[1], p[2]).type = "ISSUANCE"}
             f == [p \in Q |-> UnitsOf(TxAt(p[1], p[2]))]
  <1>1. ASSUME NEW p
        PROVE  p \in Positions <=> p \in DOMAIN Past
    <2>1. p \in Positions <=> \E h \in DOMAIN history : p \in {h} \X DOMAIN history[h].txs
      BY DEF Positions
    <2>2. p \in Positions => p \in DOMAIN Past
      BY <2>1, PastReads
    <2>3. ASSUME p \in DOMAIN Past
          PROVE  p \in Positions
      <3>1. /\ p = <<p[1], p[2]>>
            /\ p[1] \in DOMAIN history /\ p[2] \in DOMAIN history[p[1]].txs
        BY <2>3, PastReads
      <3> QED
        BY <2>1, <3>1
    <2> QED
      BY <2>2, <2>3
  <1>2. \A p \in DOMAIN Past : Past[p] = TxAt(p[1], p[2])
    BY PastReads
  <1>3. Q = Issues(Past) /\ f = Created(Past)
    BY <1>1, <1>2 DEF Issues, Created
  <1>4. MapThenSumSet(LAMBDA p : UnitsOf(TxAt(p[1], p[2])), Q) = Total(f, Q)
    BY IssuancesAdded
  <1>5. economy.supply = MapThenSumSet(LAMBDA p : UnitsOf(TxAt(p[1], p[2])), Q)
    BY <1>3, <1>4 DEF SupplyInv, Accounted
  <1>6. \A e \in {economy, cloneE} :
            e.supply = MapThenSumSet(LAMBDA w : e.balance[w], Wallets)
    BY BalancesAdded DEF SupplyInv, Accounted
  <1> QED
    BY <1>5, <1>6 DEF SupplyIsAccounted

(* Units are neither made nor lost: whatever blocks are validated,         *)
(* discarded or published, the balances of all wallets add up to the       *)
(* supply, and the supply is exactly what the issuances of the accepted    *)
(* history create (stn_economic_state_apply,                               *)
(* stn_economic_state_apply_transfer).                                     *)
THEOREM SupplyAccounted == Spec => []SupplyIsAccounted
  BY TypeCorrect, SupplyInit, SupplyNext, SupplyStep, PTL DEF Spec

-----------------------------------------------------------------------------
(* Replay.  Folding a history is two nested folds, one of its blocks and   *)
(* one of the transactions of each.                                        *)
State(e, a) == [e |-> e, a |-> a]

(* The folds of the property are these.                                    *)
LEMMA HistoryFolds ==
    ASSUME NEW base, NEW h, NEW b
    PROVE  FoldLeft(ReplayBlock, base, h) = Fold(Blocks, base, h)
  BY DEF FoldLeft, MapThenFoldSet, Fold, Folds, Piece, Replayed, Blocks, Body

(* So is the replay of one block.                                          *)
LEMMA BlockFolds ==
    ASSUME NEW s, NEW b
    PROVE  ReplayBlock(s, b) = Fold(Body(b), s, [i \in DOMAIN b.txs |-> i])
  BY DEF ReplayBlock, FoldLeft, MapThenFoldSet, Fold, Folds, Piece, Replayed, Blocks, Body

(* Counting one position more replays one transaction more.                *)
LEMMA ReplayStep ==
    ASSUME NEW b, NEW s, NEW n \in Nat
    PROVE  Fold(Body(b), s, Counted(n + 1)) = ReplayTx(Fold(Body(b), s, Counted(n)), b, n + 1)
  <1>1. Fold(Body(b), s, Counted(n + 1)) = Replayed(Body(b), Fold(Body(b), s, Counted(n)), n + 1)
    BY CountedStep
  <1> QED
    BY <1>1 DEF Replayed, Blocks, Body

(* The inductive invariant: the accepted projections are the replay of the *)
(* history, and the clones go on from them with the applied prefix of the  *)
(* candidate.                                                              *)
ReplayInv ==
    /\ State(economy, authority)
          = Fold(Blocks, State(EmptyEconomy, EmptyLifecycle), history)
    /\ State(cloneE, cloneA) = Fold(Body(block), State(economy, authority), Counted(next - 1))
    /\ next <= Len(block.txs) + 1

(* One pass of the loop replays one transaction (validate_candidate).      *)
LEMMA ReplayPass ==
    ASSUME TypeOK, ReplayInv, UNCHANGED <<history, economy, authority, block>>, Applying,
           next' = next + 1,
           State(cloneE', cloneA') = ReplayTx(State(cloneE, cloneA), block, next)
    PROVE  ReplayInv'
  <1>1. next - 1 \in Nat /\ next = (next - 1) + 1 /\ next' - 1 = next
    BY DEF TypeOK
  <1>2. Fold(Body(block), State(economy, authority), Counted(next))
           = ReplayTx(Fold(Body(block), State(economy, authority), Counted(next - 1)), block, next)
    <2> DEFINE n == next - 1
    <2>1. n \in Nat /\ n + 1 = next
      BY <1>1
    <2> HIDE DEF n
    <2>2. Fold(Body(block), State(economy, authority), Counted(n + 1))
             = ReplayTx(Fold(Body(block), State(economy, authority), Counted(n)), block, n + 1)
      BY <2>1, ReplayStep
    <2> QED
      BY <2>1, <2>2 DEF n
  <1>3. next' <= Len(block'.txs) + 1
    <2>1. block.txs \in Seq(TransactionRecords)
      BY BlockBody DEF TypeOK
    <2> QED
      BY <2>1 DEF Applying, TypeOK
  <1> QED
    BY <1>1, <1>2, <1>3 DEF ReplayInv

(* Between candidates the clones are the accepted projections              *)
(* (validate_candidate, failure and success arms).                         *)
LEMMA ReplayReset ==
    ASSUME TypeOK', next' = 1, cloneE' = economy', cloneA' = authority',
           State(economy', authority')
              = Fold(Blocks, State(EmptyEconomy, EmptyLifecycle), history')
    PROVE  ReplayInv'
  <1>1. DOMAIN Counted(next' - 1) = 1..0
    BY DEF Counted
  <1>2. Fold(Body(block'), State(economy', authority'), Counted(next' - 1))
           = State(economy', authority')
    BY <1>1, FoldOfNone
  <1>3. block'.txs \in Seq(TransactionRecords)
    BY BlockBody DEF TypeOK
  <1> QED
    BY <1>2, <1>3 DEF ReplayInv

(* Publication appends the block whose replay the clones are               *)
(* (validate_candidate).                                                   *)
LEMMA ReplayPublish ==
    ASSUME TypeOK, TypeOK', ReplayInv, Publish
    PROVE  ReplayInv'
  <1> DEFINE base == State(EmptyEconomy, EmptyLifecycle)
  <1>1. next' = 1 /\ cloneE' = economy' /\ cloneA' = authority'
    BY DEF Publish
  <1>2. CASE mode = "history"
    <2>1. /\ history' = Append(history, block) /\ economy' = cloneE /\ authority' = cloneA
          /\ next > Len(block.txs)
      BY <1>2 DEF Publish
    <2>2. Counted(next - 1) = [i \in DOMAIN block.txs |-> i]
      <3>1. block.txs \in Seq(TransactionRecords)
        BY BlockBody DEF TypeOK
      <3>2. next - 1 = Len(block.txs) /\ DOMAIN block.txs = 1..Len(block.txs)
        BY <2>1, <3>1 DEF ReplayInv, TypeOK
      <3> QED
        BY <3>2 DEF Counted
    <2>3. State(economy', authority') = ReplayBlock(State(economy, authority), block)
      BY <2>1, <2>2, BlockFolds DEF ReplayInv
    <2>4. Fold(Blocks, base, history')
             = ReplayBlock(Fold(Blocks, base, history), block)
      <3> DEFINE n == Len(history)
      <3>1. /\ n \in Nat /\ DOMAIN history = 1..n /\ DOMAIN history' = 1..(n + 1)
            /\ \A i \in 1..n : history[i] = history'[i]
            /\ history'[n + 1] = block
        BY <2>1 DEF TypeOK
      <3> HIDE DEF n, base
      <3>2. Fold(Blocks, base, history')
               = Replayed(Blocks, Fold(Blocks, base, history), history'[n + 1])
        BY <3>1, FoldSteps
      <3> QED
        BY <3>1, <3>2 DEF Replayed
    <2>5. State(economy', authority') = Fold(Blocks, base, history')
      BY <2>3, <2>4 DEF ReplayInv
    <2> QED
      BY <1>1, <2>5, ReplayReset
  <1>3. CASE mode # "history"
    <2>1. UNCHANGED <<history, economy, authority>>
      BY <1>3 DEF Publish, accepted
    <2>2. State(economy', authority') = Fold(Blocks, base, history')
      BY <2>1 DEF ReplayInv
    <2> QED
      BY <1>1, <2>2, ReplayReset
  <1> QED
    BY <1>2, <1>3

(* What each transaction leaves, replayed (the arms of validate_candidate  *)
(* without their checks).                                                  *)
LEMMA ReplayArms ==
    ASSUME NEW e, NEW a, NEW b, NEW i
    PROVE  LET tx == b.txs[i]
               s == ReplayTx(State(e, a), b, i)
           IN  /\ tx.type = "SHARE" => s = State(ConsumeShare(e, tx), a)
               /\ tx.type = "DESTINATION" => s = State(SetDestination(e, tx), a)
               /\ IsShareIssuance(tx) => s = State(Credit(e, tx), a)
               /\ IsBlockIssuance(tx) => s = State(e, a)
               /\ tx.type = "REWARD" => s = State(ApplyReward(e, tx, b.txs[i + 1]), a)
               /\ tx.type = "TRANSFER" => s = State(ApplyTransfer(e, tx), a)
               /\ tx.type = "GRANT" => s = State(e, ApplyGrant(a, tx))
               /\ tx.type = "REVOKE" => s = State(e, ApplyRevocation(a, tx))
               /\ tx.type = "ROTATE" => s = State(e, ApplyRotation(a, tx))
               /\ tx.type = "PUBLICATION" =>
                      s = State(e, IF b.height < ActivationHeight THEN a ELSE Consume(a, tx))
  BY DEF ReplayTx, State, IsShareIssuance, IsBlockIssuance

(* A reward pair is two transactions, replayed together at the first; the  *)
(* second replays to nothing (validate_candidate, compensation arm).       *)
LEMMA ReplayReward ==
    ASSUME TypeOK, ReplayInv, AcceptReward
    PROVE  ReplayInv'
  <1> DEFINE base == State(economy, authority)
             n == next - 1
             tx == block.txs[next]
             issuance == block.txs[next + 1]
  <1>1. /\ Applying /\ Tx = tx /\ tx.type = "REWARD" /\ RewardPairOK(mode, Tx, cloneE)
        /\ cloneE' = ApplyReward(cloneE, Tx, issuance) /\ cloneA' = cloneA
        /\ next' = next + 2 /\ UNCHANGED <<history, economy, authority, block>>
    BY DEF AcceptReward, ApplyEconomic, TxOK, Advance, accepted, Tx
  <1>2. n \in Nat /\ n + 1 = next /\ next' - 1 = (n + 1) + 1 /\ n + 1 \in Nat
    BY <1>1 DEF TypeOK
  <1>3. IsBlockIssuance(issuance) /\ next < Len(block.txs)
    BY <1>1 DEF RewardPairOK, RewardOK, RewardPaired
  <1> HIDE DEF n
  <1>4. Fold(Body(block), base, Counted(n + 1)) = State(cloneE', cloneA')
    <2>1. Fold(Body(block), base, Counted(n + 1))
             = ReplayTx(Fold(Body(block), base, Counted(n)), block, n + 1)
      BY <1>2, ReplayStep
    <2>2. Fold(Body(block), base, Counted(n)) = State(cloneE, cloneA)
      BY DEF ReplayInv, n
    <2>3. ReplayTx(State(cloneE, cloneA), block, next)
             = State(ApplyReward(cloneE, tx, issuance), cloneA)
      BY <1>1, ReplayArms
    <2> QED
      BY <1>1, <1>2, <2>1, <2>2, <2>3
  <1>5. Fold(Body(block), base, Counted((n + 1) + 1)) = State(cloneE', cloneA')
    <2>1. Fold(Body(block), base, Counted((n + 1) + 1))
             = ReplayTx(Fold(Body(block), base, Counted(n + 1)), block, (n + 1) + 1)
      BY <1>2, ReplayStep
    <2>2. ReplayTx(State(cloneE', cloneA'), block, next + 1) = State(cloneE', cloneA')
      BY <1>3, ReplayArms
    <2> QED
      BY <1>2, <1>4, <2>1, <2>2
  <1>6. next' <= Len(block'.txs) + 1
    <2>1. block.txs \in Seq(TransactionRecords)
      BY BlockBody DEF TypeOK
    <2> QED
      BY <1>1, <1>3, <2>1 DEF TypeOK
  <1> QED
    BY <1>1, <1>2, <1>5, <1>6 DEF ReplayInv

(* Every step of validate_candidate keeps the replay.                      *)
LEMMA ReplayNext == TypeOK /\ ReplayInv /\ [Next]_vars => ReplayInv'
  <1> SUFFICES ASSUME TypeOK, ReplayInv, [Next]_vars PROVE ReplayInv'
    OBVIOUS
  <1>0. TypeOK'
    BY TypeNext
  <1>1. ASSUME Applying, Advance(1),
               State(cloneE', cloneA') = ReplayTx(State(cloneE, cloneA), block, next)
        PROVE  ReplayInv'
    BY <1>1, ReplayPass DEF Advance, accepted
  <1>2. ASSUME UNCHANGED <<history, economy, authority>>, next' = 1,
               cloneE' = economy', cloneA' = authority'
        PROVE  ReplayInv'
    <2>1. State(economy', authority')
             = Fold(Blocks, State(EmptyEconomy, EmptyLifecycle), history')
      BY <1>2 DEF ReplayInv
    <2> QED
      BY <1>0, <1>2, <2>1, ReplayReset
  <1>3. CASE AcceptShare \/ AcceptDestination \/ AcceptTransfer
    <2>1. /\ Applying /\ Advance(1) /\ cloneA' = cloneA
          /\ \/ Tx.type = "SHARE" /\ cloneE' = ConsumeShare(cloneE, Tx)
             \/ Tx.type = "DESTINATION" /\ cloneE' = SetDestination(cloneE, Tx)
             \/ Tx.type = "TRANSFER" /\ cloneE' = ApplyTransfer(cloneE, Tx)
      BY <1>3 DEF AcceptShare, AcceptDestination, AcceptTransfer, ApplyEconomic
    <2>2. State(cloneE', cloneA') = ReplayTx(State(cloneE, cloneA), block, next)
      BY <2>1, ReplayArms DEF Tx
    <2> QED
      BY <1>1, <2>1, <2>2
  <1>4. CASE AcceptShareIssuance
    <2>1. /\ Applying /\ Advance(1) /\ cloneA' = cloneA
          /\ IsShareIssuance(Tx) /\ cloneE' = Credit(cloneE, Tx)
      BY <1>4 DEF AcceptShareIssuance, ApplyEconomic, TxOK, ShareIssuanceOK
    <2>2. State(cloneE', cloneA') = ReplayTx(State(cloneE, cloneA), block, next)
      BY <2>1, ReplayArms DEF Tx
    <2> QED
      BY <1>1, <2>1, <2>2
  <1>5. CASE AcceptReward
    BY <1>5, ReplayReward
  <1>6. CASE AcceptGrant \/ AcceptRevocation \/ AcceptRotation
    <2>1. /\ Applying /\ Advance(1) /\ cloneE' = cloneE
          /\ \/ Tx.type = "GRANT" /\ cloneA' = ApplyGrant(cloneA, Tx)
             \/ Tx.type = "REVOKE" /\ cloneA' = ApplyRevocation(cloneA, Tx)
             \/ Tx.type = "ROTATE" /\ cloneA' = ApplyRotation(cloneA, Tx)
      BY <1>6 DEF AcceptGrant, AcceptRevocation, AcceptRotation, ApplyAuthority
    <2>2. State(cloneE', cloneA') = ReplayTx(State(cloneE, cloneA), block, next)
      BY <2>1, ReplayArms DEF Tx
    <2> QED
      BY <1>1, <2>1, <2>2
  <1>7. CASE AcceptPublication
    <2>1. /\ Applying /\ Advance(1) /\ cloneE' = cloneE /\ Tx.type = "PUBLICATION"
          /\ cloneA' = IF block.height < ActivationHeight THEN cloneA ELSE Consume(cloneA, Tx)
      BY <1>7 DEF AcceptPublication, ApplyAuthority, Dormant
    <2>2. State(cloneE', cloneA') = ReplayTx(State(cloneE, cloneA), block, next)
      BY <2>1, ReplayArms DEF Tx
    <2> QED
      BY <1>1, <2>1, <2>2
  <1>8. CASE Discard
    BY <1>2, <1>8 DEF Discard, accepted
  <1>9. CASE Publish
    BY <1>0, <1>9, ReplayPublish
  <1>10. CASE UNCHANGED <<history, economy, authority, block, next, cloneE, cloneA>>
    BY <1>10 DEF ReplayInv
  <1>11. ASSUME NEW b \in Offers \cup {Genesis}, RefuseLink(b) PROVE ReplayInv'
    BY <1>10, <1>11 DEF RefuseLink, accepted, candidate
  <1>12. ASSUME NEW b \in Offers \cup {Genesis}, NEW m \in Modes, Begin(b, m)
         PROVE  ReplayInv'
    BY <1>2, <1>12 DEF Begin, accepted
  <1>13. CASE UNCHANGED vars
    BY <1>10, <1>13 DEF vars, accepted, candidate
  <1> QED
    BY <1>3, <1>4, <1>5, <1>6, <1>7, <1>8, <1>9, <1>11, <1>12, <1>13 DEF Next

(* The EMPTY state is the replay of nothing (stn_chain_initialize).        *)
LEMMA ReplayInit == Init => ReplayInv
  <1> SUFFICES ASSUME Init PROVE ReplayInv
    OBVIOUS
  <1> DEFINE base == State(EmptyEconomy, EmptyLifecycle)
  <1>1. /\ economy = EmptyEconomy /\ authority = EmptyLifecycle /\ next = 1
        /\ cloneE = economy /\ cloneA = authority /\ block = Genesis
    BY DEF Init
  <1>2. DOMAIN history = 1..0
    BY Initials DEF Init
  <1>3. DOMAIN Counted(next - 1) = 1..0
    BY <1>1 DEF Counted
  <1>4. Genesis.txs \in Seq(TransactionRecords)
    BY BlockBody, ChainAssumption
  <1> HIDE DEF base
  <1>5. /\ Fold(Blocks, base, history) = base
        /\ Fold(Body(block), base, Counted(next - 1)) = base
    BY <1>2, <1>3, FoldOfNone
  <1> QED
    BY <1>1, <1>4, <1>5 DEF ReplayInv, base

(* Whatever candidates were validated, discarded or left half way, the     *)
(* accepted projections are what replaying the accepted history from the   *)
(* empty state gives: no refused candidate left a trace in them            *)
(* (validate_candidate; docs/CHAIN_STATE.md, full sequence and atomic      *)
(* behavior).                                                              *)
THEOREM StateReplays == Spec => []AcceptedStateReplays
  <1>1. ReplayInv => AcceptedStateReplays
    BY HistoryFolds DEF ReplayInv, AcceptedStateReplays, State
  <1> QED
    BY <1>1, TypeCorrect, ReplayInit, ReplayNext, PTL DEF Spec

-----------------------------------------------------------------------------
(* Targets and work (stn_pow.c, module Target).  The digit arithmetic is   *)
(* folds, and each fold is related to the number its digits write: the     *)
(* scaled target to a product, the long division to a quotient, the        *)
(* bitwise division and the doubling to theirs.  TargetInv then says that  *)
(* the window an accepted state keeps is the end of its history.           *)

\* The folds of the target arithmetic, each with its step.
Multiplying(c, v, x) == v * x
Reading(c, v, x) == v * Radix + x
Carrying(c, v, x) == (x + v) \div Radix
Remaining(c, v, x) == (v * Radix + x) % Expected
Halving(c, s, x) == Round(s)
Dividing(t, s, k) ==
    IF Shifted(s, k) >= Value(t) + 1
    THEN [rest |-> Shifted(s, k) - (Value(t) + 1), work |-> 2 * s.work + 1]
    ELSE [rest |-> Shifted(s, k), work |-> 2 * s.work]
Earning(c, w, h) == w + Power(Radix, Digits) \div (Value(h.target) + 1)

Powers == INSTANCE Inductions WITH Pass <- Multiplying
Numbers == INSTANCE Inductions WITH Pass <- Reading
Carries == INSTANCE Inductions WITH Pass <- Carrying
Rests == INSTANCE Inductions WITH Pass <- Remaining
Rounds == INSTANCE Inductions WITH Pass <- Halving
Quotients == INSTANCE Inductions WITH Pass <- Dividing
Works == INSTANCE Inductions WITH Pass <- Earning

(* Quotient and remainder (the shifts and divisions of stn_pow.c).         *)
LEMMA Division ==
    ASSUME NEW a \in Nat, NEW b \in Nat \ {0}
    PROVE  /\ a \div b \in Nat /\ a % b \in Nat /\ a % b < b
           /\ a = b * (a \div b) + (a % b)
  OBVIOUS

(* No other pair is (the shifts and divisions of stn_pow.c).               *)
LEMMA DivisionUnique ==
    ASSUME NEW b \in Nat \ {0}, NEW a \in Nat, NEW q \in Nat, NEW r \in Nat,
           r < b, a = b * q + r
    PROVE  a \div b = q /\ a % b = r
  OBVIOUS

(* A quotient is less than what, times the divisor, is more.               *)
LEMMA QuotientBelow ==
    ASSUME NEW a \in Nat, NEW b \in Nat \ {0}, NEW c \in Nat, a < b * c
    PROVE  a \div b < c
  <1>1. /\ a \div b \in Nat /\ a % b \in Nat /\ a = b * (a \div b) + (a % b)
    BY Division
  <1> DEFINE q == a \div b
             r == a % b
  <1> HIDE DEF q, r
  <1>2. q \in Nat /\ r \in Nat /\ a = b * q + r
    BY <1>1 DEF q, r
  <1>3. ASSUME c <= q PROVE FALSE
    <2>1. b * c <= b * q
      BY <1>2, <1>3
    <2> QED
      BY <1>2, <2>1
  <1> QED
    BY <1>2, <1>3 DEF q

-----------------------------------------------------------------------------
(* Powers multiply one at a time.                                          *)
LEMMA PowerIs ==
    ASSUME NEW b \in Nat \ {0}
    PROVE  /\ Power(b, 0) = 1
           /\ \A n \in Nat : Power(b, n + 1) = Power(b, n) * b
           /\ \A n \in Nat : Power(b, n) \in Nat \ {0}
  <1> DEFINE P(n) == Powers!Fold(<<>>, 1, [k \in 1..n |-> b])
  <1>1. \A n \in Nat : Power(b, n) = P(n)
    BY DEF Power, FoldLeft, MapThenFoldSet, Powers!Fold, Powers!Folds, Powers!Piece,
           Powers!Max, Max, Multiplying
  <1>2. P(0) = 1
    <2>1. DOMAIN [k \in 1..0 |-> b] = 1..0
      OBVIOUS
    <2> QED
      BY <2>1, Powers!FoldOfNone
  <1>3. ASSUME NEW n \in Nat PROVE P(n + 1) = P(n) * b
    <2> DEFINE s == [k \in 1..n |-> b]
               r == [k \in 1..(n + 1) |-> b]
    <2>1. /\ DOMAIN s = 1..n /\ DOMAIN r = 1..(n + 1) /\ \A k \in 1..n : s[k] = r[k]
          /\ r[n + 1] = b
      OBVIOUS
    <2> HIDE DEF s, r
    <2>2. Powers!Fold(<<>>, 1, r) = Multiplying(<<>>, Powers!Fold(<<>>, 1, s), r[n + 1])
      BY <2>1, Powers!FoldSteps
    <2> QED
      BY <2>1, <2>2 DEF Multiplying, s, r
  <1> HIDE DEF P
  <1>4. \A n \in Nat : P(n) \in Nat \ {0}
    <2> DEFINE S == {n \in Nat : P(n) \in Nat \ {0}}
    <2>1. 0 \in S
      BY <1>2
    <2>2. \A n \in Nat : n \in S => n + 1 \in S
      <3> SUFFICES ASSUME NEW n \in Nat, P(n) \in Nat \ {0} PROVE P(n + 1) \in Nat \ {0}
        OBVIOUS
      <3> DEFINE v == P(n)
      <3>1. v \in Nat /\ v # 0 /\ P(n + 1) = v * b
        BY <1>3
      <3> HIDE DEF v
      <3>2. v * b \in Nat /\ v * b # 0
        BY <3>1
      <3> QED
        BY <3>1, <3>2
    <2> HIDE DEF S
    <2>3. Nat \subseteq S
      BY <2>1, <2>2, NaturalInduction
    <2> QED
      BY <2>3 DEF S
  <1> QED
    BY <1>1, <1>2, <1>3, <1>4

(* The number the first k digits of d write.                               *)
Lead(d, k) == Numbers!Fold(<<>>, 0, [i \in 1..k |-> d[i]])

(* One digit more is written behind (the byte order of a target).          *)
LEMMA LeadIs ==
    ASSUME NEW d
    PROVE  /\ Lead(d, 0) = 0
           /\ \A n \in Nat : Lead(d, n + 1) = Lead(d, n) * Radix + d[n + 1]
           /\ \A n \in Nat : d = [i \in 1..n |-> d[i]] => Value(d) = Lead(d, n)
  <1>1. Lead(d, 0) = 0
    <2>1. DOMAIN [i \in 1..0 |-> d[i]] = 1..0
      OBVIOUS
    <2> QED
      BY <2>1, Numbers!FoldOfNone DEF Lead
  <1>2. ASSUME NEW n \in Nat PROVE Lead(d, n + 1) = Lead(d, n) * Radix + d[n + 1]
    <2> DEFINE s == [i \in 1..n |-> d[i]]
               r == [i \in 1..(n + 1) |-> d[i]]
    <2>1. /\ DOMAIN s = 1..n /\ DOMAIN r = 1..(n + 1) /\ \A k \in 1..n : s[k] = r[k]
          /\ r[n + 1] = d[n + 1]
      OBVIOUS
    <2> HIDE DEF s, r
    <2>2. Numbers!Fold(<<>>, 0, r) = Reading(<<>>, Numbers!Fold(<<>>, 0, s), r[n + 1])
      BY <2>1, Numbers!FoldSteps
    <2> QED
      BY <2>1, <2>2 DEF Reading, Lead, s, r
  <1>3. Value(d) = Numbers!Fold(<<>>, 0, d)
    BY DEF Value, FoldLeft, MapThenFoldSet, Numbers!Fold, Numbers!Folds, Numbers!Piece,
           Numbers!Max, Max, Reading
  <1>4. \A n \in Nat : d = [i \in 1..n |-> d[i]] => Value(d) = Lead(d, n)
    BY <1>3 DEF Lead
  <1> QED
    BY <1>1, <1>2, <1>4

(* The carry out of the last digits, one digit more at a time.             *)
LEMMA CarryIs ==
    ASSUME NEW t, NEW f
    PROVE  /\ Carry(t, f, Digits) = 0
           /\ \A i \in 1..Digits :
                 Carry(t, f, i - 1) = (t[i] * f + Carry(t, f, i)) \div Radix
  <1> DEFINE x(n) == [k \in 1..n |-> t[Digits + 1 - k] * f]
             C(n) == Carries!Fold(<<>>, 0, x(n))
  <1>1. \A i : Carry(t, f, i) = C(Digits - i)
    BY DEF Carry, FoldLeft, MapThenFoldSet, Carries!Fold, Carries!Folds, Carries!Piece,
           Carries!Max, Max, Carrying
  <1>2. C(0) = 0
    <2>1. DOMAIN x(0) = 1..0
      OBVIOUS
    <2> HIDE DEF x
    <2> QED
      BY <2>1, Carries!FoldOfNone
  <1>3. ASSUME NEW n \in Nat PROVE C(n + 1) = (t[Digits - n] * f + C(n)) \div Radix
    <2> DEFINE s == x(n)
               r == x(n + 1)
    <2>1. /\ DOMAIN s = 1..n /\ DOMAIN r = 1..(n + 1) /\ \A k \in 1..n : s[k] = r[k]
          /\ r[n + 1] = t[Digits + 1 - (n + 1)] * f
      OBVIOUS
    <2>2. Digits + 1 - (n + 1) = Digits - n
      BY TargetAssumption
    <2> HIDE DEF s, r, x
    <2>3. Carries!Fold(<<>>, 0, r) = Carrying(<<>>, Carries!Fold(<<>>, 0, s), r[n + 1])
      BY <2>1, Carries!FoldSteps
    <2>4. C(n + 1) = (r[n + 1] + C(n)) \div Radix
      BY <2>3 DEF Carrying, s, r
    <2> HIDE DEF C
    <2> QED
      BY <2>1, <2>2, <2>4
  <1> HIDE DEF C, x
  <1>4. Carry(t, f, Digits) = 0
    BY <1>1, <1>2, TargetAssumption
  <1>5. ASSUME NEW i \in 1..Digits
        PROVE  Carry(t, f, i - 1) = (t[i] * f + Carry(t, f, i)) \div Radix
    <2> DEFINE n == Digits - i
    <2>1. n \in Nat /\ Digits - (i - 1) = n + 1 /\ Digits - n = i
      BY TargetAssumption
    <2> HIDE DEF n
    <2>2. C(n + 1) = (t[i] * f + C(n)) \div Radix
      BY <1>3, <2>1
    <2> QED
      BY <1>1, <2>1, <2>2 DEF n
  <1> QED
    BY <1>4, <1>5

(* What remains after the first digits, one digit more at a time.          *)
LEMMA RestIs ==
    ASSUME NEW s
    PROVE  /\ Rest(s, 0) = 0
           /\ \A n \in Nat : Rest(s, n + 1) = (Rest(s, n) * Radix + s[n + 1]) % Expected
  <1> DEFINE R(n) == Rests!Fold(<<>>, 0, [k \in 1..n |-> s[k]])
  <1>1. \A n : Rest(s, n) = R(n)
    BY DEF Rest, FoldLeft, MapThenFoldSet, Rests!Fold, Rests!Folds, Rests!Piece,
           Rests!Max, Max, Remaining
  <1>2. R(0) = 0
    <2>1. DOMAIN [k \in 1..0 |-> s[k]] = 1..0
      OBVIOUS
    <2> QED
      BY <2>1, Rests!FoldOfNone
  <1>3. ASSUME NEW n \in Nat PROVE R(n + 1) = (R(n) * Radix + s[n + 1]) % Expected
    <2> DEFINE p == [k \in 1..n |-> s[k]]
               r == [k \in 1..(n + 1) |-> s[k]]
    <2>1. /\ DOMAIN p = 1..n /\ DOMAIN r = 1..(n + 1) /\ \A k \in 1..n : p[k] = r[k]
          /\ r[n + 1] = s[n + 1]
      OBVIOUS
    <2> HIDE DEF p, r
    <2>2. Rests!Fold(<<>>, 0, r) = Remaining(<<>>, Rests!Fold(<<>>, 0, p), r[n + 1])
      BY <2>1, Rests!FoldSteps
    <2> QED
      BY <2>1, <2>2 DEF Remaining, p, r
  <1> HIDE DEF R
  <1> QED
    BY <1>1, <1>2, <1>3

-----------------------------------------------------------------------------
Digit == 0..(Radix - 1)

(* Digits write a natural.                                                 *)
LEMMA LeadType ==
    ASSUME NEW d, NEW m \in Nat, \A i \in 1..m : d[i] \in Digit
    PROVE  \A k \in 0..m : Lead(d, k) \in Nat
  <1> DEFINE S == {k \in Nat : k <= m => Lead(d, k) \in Nat}
  <1>1. 0 \in S
    BY LeadIs
  <1>2. ASSUME NEW k \in Nat, k \in S PROVE k + 1 \in S
    <2> SUFFICES ASSUME k + 1 <= m PROVE Lead(d, k + 1) \in Nat
      OBVIOUS
    <2>1. k + 1 \in 1..m /\ k <= m
      BY <1>2
    <2>2. d[k + 1] \in Nat /\ Radix \in Nat
      BY <2>1, TargetAssumption DEF Digit
    <2>3. Lead(d, k) \in Nat /\ Lead(d, k + 1) = Lead(d, k) * Radix + d[k + 1]
      BY <1>2, <2>1, LeadIs
    <2> QED
      BY <2>2, <2>3
  <1> HIDE DEF S
  <1>3. Nat \subseteq S
    BY <1>1, <1>2, NaturalInduction
  <1> QED
    BY <1>3 DEF S

(* A carry stays below the factor: v <= 255 * 14400 + 14399.               *)
LEMMA CarryType ==
    ASSUME NEW t \in Numerals, NEW f \in Nat \ {0}
    PROVE  \A i \in 0..Digits : Carry(t, f, i) \in Nat /\ Carry(t, f, i) < f
  <1> DEFINE S == {n \in Nat : n <= Digits =>
                      Carry(t, f, Digits - n) \in Nat /\ Carry(t, f, Digits - n) < f}
  <1>0. Digits \in Nat /\ Radix \in Nat \ {0}
    BY TargetAssumption
  <1>1. 0 \in S
    <2>1. Digits - 0 = Digits
      BY <1>0
    <2> QED
      BY <2>1, CarryIs
  <1>2. ASSUME NEW n \in Nat, n \in S PROVE n + 1 \in S
    <2> SUFFICES ASSUME n + 1 <= Digits
                 PROVE  /\ Carry(t, f, Digits - (n + 1)) \in Nat
                        /\ Carry(t, f, Digits - (n + 1)) < f
      OBVIOUS
    <2> DEFINE i == Digits - n
               c == Carry(t, f, i)
               a == t[i] * f
    <2>1. i \in 1..Digits /\ Digits - (n + 1) = i - 1 /\ n <= Digits
      BY <1>0
    <2>2. c \in Nat /\ c < f
      BY <1>2, <2>1
    <2>3. t[i] \in Nat /\ t[i] <= Radix - 1
      BY <1>0, <2>1 DEF Numerals
    <2>4. Carry(t, f, i - 1) = (a + c) \div Radix
      BY <2>1, CarryIs
    <2>5. a \in Nat /\ a + c < Radix * f
      <3> DEFINE u == t[i]
      <3> HIDE DEF u
      <3>1. u \in Nat /\ u + 1 <= Radix
        BY <1>0, <2>3 DEF u
      <3>2. (u + 1) * f <= Radix * f
        BY <1>0, <3>1
      <3>3. (u + 1) * f = u * f + f /\ u * f \in Nat
        BY <3>1
      <3> HIDE DEF c
      <3>4. u * f + c < Radix * f
        BY <1>0, <2>2, <3>2, <3>3
      <3> QED
        BY <3>3, <3>4 DEF u
    <2> HIDE DEF a, c
    <2>6. a + c \in Nat
      BY <2>2, <2>5
    <2> DEFINE b == a + c
    <2> HIDE DEF b
    <2>7. b \div Radix \in Nat /\ b \div Radix < f
      BY <1>0, <2>5, <2>6, QuotientBelow, Division DEF b
    <2> QED
      BY <2>1, <2>4, <2>7 DEF b
  <1> HIDE DEF S
  <1>3. Nat \subseteq S
    BY <1>1, <1>2, NaturalInduction
  <1>4. ASSUME NEW i \in 0..Digits
        PROVE  Carry(t, f, i) \in Nat /\ Carry(t, f, i) < f
    <2>1. Digits - i \in Nat /\ Digits - i <= Digits /\ Digits - (Digits - i) = i
      BY <1>0
    <2>2. Digits - i \in S
      BY <1>3, <2>1
    <2> QED
      BY <2>1, <2>2 DEF S
  <1> QED
    BY <1>4

(* The product, in digits, is the product: 34 bytes hold all of it         *)
(* (stn_target_next).                                                      *)
LEMMA ScaledIs ==
    ASSUME NEW t \in Numerals, NEW f \in Nat \ {0}, f <= Radix * Radix
    PROVE  /\ Scaled(t, f) \in [1..(Digits + 2) -> Digit]
           /\ Lead(Scaled(t, f), Digits + 2) = Value(t) * f
  <1> DEFINE s == Scaled(t, f)
             C(i) == Carry(t, f, i)
  <1>0. Digits \in Nat /\ Radix \in Nat \ {0} /\ Digits # 0
    BY TargetAssumption
  <1>1. \A i \in 0..Digits : C(i) \in Nat /\ C(i) < f
    BY CarryType
  <1>2. \A i \in 1..Digits : t[i] \in Nat
    BY <1>0 DEF Numerals
  <1> HIDE DEF C
  <1>3. s = [i \in 1..(Digits + 2) |->
                CASE i = 1 -> (C(0) \div Radix) % Radix
                  [] i = 2 -> C(0) % Radix
                  [] OTHER -> (t[i - 2] * f + C(i - 2)) % Radix]
    BY DEF Scaled, C
  <1> HIDE DEF s
  <1>4. /\ s[1] = (C(0) \div Radix) % Radix
        /\ s[2] = C(0) % Radix
        /\ \A k \in 1..Digits : s[k + 2] = (t[k] * f + C(k)) % Radix
    <2>1. 1 \in 1..(Digits + 2) /\ 2 \in 1..(Digits + 2)
      BY <1>0
    <2>2. ASSUME NEW k \in 1..Digits PROVE s[k + 2] = (t[k] * f + C(k)) % Radix
      <3>1. /\ k + 2 \in 1..(Digits + 2) /\ k + 2 # 1 /\ k + 2 # 2 /\ (k + 2) - 2 = k
        BY <1>0
      <3> QED
        BY <1>3, <3>1
    <2> QED
      BY <1>3, <2>1, <2>2
  <1>5. \A k \in 1..Digits : t[k] * f + C(k) \in Nat
    <2> SUFFICES ASSUME NEW k \in 1..Digits PROVE t[k] * f + C(k) \in Nat
      OBVIOUS
    <2>1. t[k] \in Nat /\ C(k) \in Nat
      BY <1>0, <1>1, <1>2
    <2> QED
      BY <2>1
  <1>6. \A i \in 1..(Digits + 2) : s[i] \in Digit
    <2> SUFFICES ASSUME NEW i \in 1..(Digits + 2) PROVE s[i] \in Digit
      OBVIOUS
    <2>1. \A a \in Nat : a % Radix \in Digit
      BY <1>0, Division DEF Digit
    <2>2. C(0) \in Nat /\ C(0) \div Radix \in Nat
      BY <1>0, <1>1, Division
    <2>3. CASE i = 1
      BY <1>4, <2>1, <2>2, <2>3
    <2>4. CASE i = 2
      BY <1>4, <2>1, <2>2, <2>4
    <2>5. CASE i # 1 /\ i # 2
      <3> DEFINE k == i - 2
      <3>1. k \in 1..Digits /\ i = k + 2
        BY <1>0, <2>5
      <3> HIDE DEF k
      <3> QED
        BY <1>4, <1>5, <2>1, <3>1
    <2> QED
      BY <2>3, <2>4, <2>5
  <1>7. Lead(s, 2) = C(0)
    <2> DEFINE c == C(0)
               q == C(0) \div Radix
    <2>1. c \in Nat /\ c < Radix * Radix
      BY <1>0, <1>1
    <2>2. q \in Nat /\ c = Radix * q + (c % Radix) /\ q < Radix
      BY <1>0, <2>1, Division, QuotientBelow
    <2>3. q % Radix = q
      <3> HIDE DEF q
      <3>1. q = Radix * 0 + q
        BY <1>0, <2>2
      <3> QED
        BY <1>0, <2>2, <3>1, DivisionUnique
    <2>4. Lead(s, 1) = s[1] /\ Lead(s, 2) = Lead(s, 1) * Radix + s[2]
      <3>1. 0 + 1 = 1 /\ 1 + 1 = 2
        OBVIOUS
      <3>2. Lead(s, 0 + 1) = Lead(s, 0) * Radix + s[0 + 1] /\ Lead(s, 0) = 0
        BY LeadIs
      <3>3. Lead(s, 1 + 1) = Lead(s, 1) * Radix + s[1 + 1]
        BY LeadIs
      <3>4. s[1] \in Nat
        BY <1>0, <1>6 DEF Digit
      <3> QED
        BY <1>0, <3>1, <3>2, <3>3, <3>4
    <2>5. s[1] = q /\ s[2] = c % Radix
      BY <1>4, <2>3
    <2> HIDE DEF q, c
    <2>6. Lead(s, 2) = q * Radix + (c % Radix)
      BY <2>4, <2>5
    <2> QED
      BY <1>0, <2>2, <2>6 DEF c
  <1> DEFINE S == {k \in Nat : k <= Digits => Lead(s, k + 2) = Lead(t, k) * f + C(k)}
  <1>8. 0 \in S
    <2>1. 0 + 2 = 2 /\ Lead(t, 0) = 0
      BY LeadIs
    <2>2. 0 * f + C(0) = C(0)
      BY <1>0, <1>1
    <2> QED
      BY <1>7, <2>1, <2>2
  <1>9. ASSUME NEW k \in Nat, k \in S PROVE k + 1 \in S
    <2> SUFFICES ASSUME k + 1 <= Digits
                 PROVE  Lead(s, (k + 1) + 2) = Lead(t, k + 1) * f + C(k + 1)
      OBVIOUS
    <2> DEFINE v == Lead(t, k)
               u == t[k + 1]
               c == C(k)
               e == C(k + 1)
               x == u * f + e
    <2>1. k + 1 \in 1..Digits /\ k \in 0..Digits /\ k + 1 \in 0..Digits /\ k <= Digits
      BY <1>0
    <2>2. u \in Nat /\ c \in Nat /\ e \in Nat
      BY <1>1, <1>2, <2>1
    <2>3. v \in Nat
      <3>1. \A i \in 1..Digits : t[i] \in Digit
        BY DEF Numerals, Digit
      <3> QED
        BY <1>0, <2>1, <3>1, LeadType
    <2>4. c = x \div Radix
      <3>1. Carry(t, f, (k + 1) - 1) = (t[k + 1] * f + Carry(t, f, k + 1)) \div Radix
        BY <2>1, CarryIs
      <3>2. (k + 1) - 1 = k
        OBVIOUS
      <3> QED
        BY <3>1, <3>2 DEF C
    <2>5. Lead(s, (k + 1) + 2) = (v * f + c) * Radix + (x % Radix)
      <3>1. (k + 1) + 2 = (k + 2) + 1 /\ k + 2 \in Nat
        OBVIOUS
      <3>2. Lead(s, (k + 2) + 1) = Lead(s, k + 2) * Radix + s[(k + 2) + 1]
        BY <3>1, LeadIs
      <3>3. Lead(s, k + 2) = v * f + c
        BY <1>9, <2>1
      <3>4. s[(k + 1) + 2] = x % Radix
        BY <1>4, <2>1
      <3> QED
        BY <3>1, <3>2, <3>3, <3>4
    <2>6. Lead(t, k + 1) = v * Radix + u
      BY LeadIs
    <2> HIDE DEF v, u, c
    <2>7. x \in Nat
      <3> HIDE DEF e
      <3> QED
        BY <2>2
    <2>8. x = Radix * c + (x % Radix) /\ x % Radix \in Nat
      <3> HIDE DEF x
      <3> QED
        BY <1>0, <2>4, <2>7, Division
    <2> DEFINE r == x % Radix
    <2>9. r \in Nat /\ u * f + e = Radix * c + r
      BY <2>8
    <2> HIDE DEF e, r
    <2>10. (v * f + c) * Radix + r = (v * Radix + u) * f + e
      BY <1>0, <2>2, <2>3, <2>9
    <2> QED
      BY <2>5, <2>6, <2>10 DEF r, e
  <1>10. Digits \in S
    <2> HIDE DEF S
    <2> QED
      BY <1>0, <1>8, <1>9, NaturalInduction
  <1>11. Lead(s, Digits + 2) = Value(t) * f
    <2>1. Lead(s, Digits + 2) = Lead(t, Digits) * f + C(Digits)
      BY <1>0, <1>10
    <2>2. C(Digits) = 0
      BY CarryIs DEF C
    <2>3. t = [i \in 1..Digits |-> t[i]]
      BY DEF Numerals
    <2>4. Value(t) = Lead(t, Digits)
      BY <1>0, <2>3, LeadIs
    <2>5. Lead(t, Digits) \in Nat
      <3>1. \A i \in 1..Digits : t[i] \in Digit
        BY DEF Numerals, Digit
      <3> QED
        BY <1>0, <3>1, LeadType
    <2>6. \A v \in Nat : v * f + 0 = v * f
      OBVIOUS
    <2> QED
      BY <2>1, <2>2, <2>4, <2>5, <2>6
  <1>12. s \in [1..(Digits + 2) -> Digit]
    BY <1>3, <1>6
  <1> QED
    BY <1>11, <1>12 DEF s

(* What remains is less than the divisor.                                  *)
LEMMA RestType ==
    ASSUME NEW s, NEW m \in Nat, \A i \in 1..m : s[i] \in Digit
    PROVE  \A k \in 0..m : Rest(s, k) \in Nat /\ Rest(s, k) < Expected
  <1>0. Expected \in Nat \ {0} /\ Radix \in Nat
    BY TargetAssumption
  <1> DEFINE S == {k \in Nat : k <= m => Rest(s, k) \in Nat /\ Rest(s, k) < Expected}
  <1>1. 0 \in S
    BY <1>0, RestIs
  <1>2. ASSUME NEW k \in Nat, k \in S PROVE k + 1 \in S
    <2> SUFFICES ASSUME k + 1 <= m
                 PROVE  Rest(s, k + 1) \in Nat /\ Rest(s, k + 1) < Expected
      OBVIOUS
    <2> DEFINE y == Rest(s, k) * Radix + s[k + 1]
    <2>1. k + 1 \in 1..m /\ k <= m
      BY <1>2
    <2>2. s[k + 1] \in Nat /\ Rest(s, k) \in Nat
      BY <1>0, <1>2, <2>1 DEF Digit
    <2>3. y \in Nat
      BY <1>0, <2>2
    <2>4. Rest(s, k + 1) = y % Expected
      BY RestIs
    <2> HIDE DEF y
    <2> QED
      BY <1>0, <2>3, <2>4, Division
  <1> HIDE DEF S
  <1>3. Nat \subseteq S
    BY <1>1, <1>2, NaturalInduction
  <1> QED
    BY <1>3 DEF S

(* Long division, in digits, is division: the remainder discarded at the   *)
(* end is what the quotient does not hold (stn_target_next).               *)
LEMMA DividedIs ==
    ASSUME NEW s \in [1..(Digits + 2) -> Digit]
    PROVE  /\ Divided(s) \in [1..(Digits + 2) -> Digit]
           /\ Lead(Divided(s), Digits + 2) = Lead(s, Digits + 2) \div Expected
  <1> DEFINE q == Divided(s)
             R(k) == Rest(s, k)
             y(k) == R(k) * Radix + s[k + 1]
  <1>0. /\ Expected \in Nat \ {0} /\ Radix \in Nat \ {0} /\ Digits + 2 \in Nat
        /\ \A i \in 1..(Digits + 2) : s[i] \in Nat /\ s[i] <= Radix - 1 /\ s[i] \in Digit
    BY TargetAssumption DEF Digit
  <1>1. \A k \in 0..(Digits + 2) : R(k) \in Nat /\ R(k) < Expected
    BY <1>0, RestType
  <1>2. \A k \in Nat : R(k + 1) = y(k) % Expected
    BY RestIs
  <1>3. q = [i \in 1..(Digits + 2) |-> (R(i - 1) * Radix + s[i]) \div Expected]
    BY DEF Divided
  <1> HIDE DEF q, R
  <1>4. ASSUME NEW k \in Nat, k + 1 <= Digits + 2
        PROVE  /\ y(k) \in Nat /\ q[k + 1] = y(k) \div Expected
               /\ q[k + 1] \in Nat /\ q[k + 1] < Radix
               /\ y(k) = Expected * q[k + 1] + R(k + 1)
    <2>1. k + 1 \in 1..(Digits + 2) /\ k \in 0..(Digits + 2) /\ (k + 1) - 1 = k
      BY <1>0, <1>4
    <2> DEFINE r == R(k)
               x == s[k + 1]
    <2>2. r \in Nat /\ r < Expected /\ x \in Nat /\ x <= Radix - 1
      BY <1>0, <1>1, <2>1
    <2>3. q[k + 1] = y(k) \div Expected
      BY <1>3, <2>1
    <2>4. y(k) = r * Radix + x
      OBVIOUS
    <2> HIDE DEF r, x
    <2>5. r * Radix + x \in Nat /\ r * Radix + x < Expected * Radix
      <3>1. r + 1 <= Expected
        BY <1>0, <2>2
      <3>2. (r + 1) * Radix <= Expected * Radix
        BY <1>0, <2>2, <3>1
      <3>3. (r + 1) * Radix = r * Radix + Radix /\ r * Radix \in Nat
        BY <1>0, <2>2
      <3> QED
        BY <1>0, <2>2, <3>2, <3>3
    <2> DEFINE z == y(k)
    <2>6. z \in Nat /\ z < Expected * Radix /\ R(k + 1) = z % Expected
      BY <1>2, <2>4, <2>5
    <2> HIDE DEF z
    <2>7. /\ z \div Expected \in Nat /\ z \div Expected < Radix
          /\ z = Expected * (z \div Expected) + (z % Expected)
      BY <1>0, <2>6, Division, QuotientBelow
    <2> QED
      BY <2>3, <2>6, <2>7 DEF z
  <1>5. q \in [1..(Digits + 2) -> Digit]
    <2>1. ASSUME NEW i \in 1..(Digits + 2) PROVE q[i] \in Digit
      <3> DEFINE k == i - 1
      <3>1. k \in Nat /\ k + 1 = i /\ k + 1 <= Digits + 2
        BY <1>0
      <3> HIDE DEF k
      <3>2. q[k + 1] \in Nat /\ q[k + 1] < Radix
        BY <1>4, <3>1
      <3> QED
        BY <1>0, <3>1, <3>2 DEF Digit
    <2>2. q = [i \in 1..(Digits + 2) |-> q[i]]
      BY <1>3
    <2> QED
      BY <2>1, <2>2
  <1>6. \A k \in 0..(Digits + 2) : Lead(q, k) \in Nat /\ Lead(s, k) \in Nat
    BY <1>0, <1>5, LeadType
  <1> DEFINE S == {k \in Nat : k <= Digits + 2 => Lead(s, k) = Expected * Lead(q, k) + R(k)}
  <1>7. 0 \in S
    <2>1. Lead(s, 0) = 0 /\ Lead(q, 0) = 0 /\ R(0) = 0
      BY LeadIs, RestIs DEF R
    <2> QED
      BY <1>0, <2>1
  <1>8. ASSUME NEW k \in Nat, k \in S PROVE k + 1 \in S
    <2> SUFFICES ASSUME k + 1 <= Digits + 2
                 PROVE  Lead(s, k + 1) = Expected * Lead(q, k + 1) + R(k + 1)
      OBVIOUS
    <2> DEFINE a == Lead(s, k)
               b == Lead(q, k)
               r == R(k)
               x == s[k + 1]
               d == q[k + 1]
               z == R(k + 1)
    <2>1. k \in 0..(Digits + 2) /\ k + 1 \in 1..(Digits + 2) /\ k + 1 \in 0..(Digits + 2)
      BY <1>0
    <2>2. a \in Nat /\ b \in Nat /\ r \in Nat /\ z \in Nat
      BY <1>1, <1>6, <2>1
    <2>3. x \in Nat /\ d \in Nat /\ r * Radix + x = Expected * d + z
      BY <1>0, <1>4, <2>1
    <2>4. a = Expected * b + r
      BY <1>8, <2>1
    <2>5. Lead(s, k + 1) = a * Radix + x /\ Lead(q, k + 1) = b * Radix + d
      BY LeadIs
    <2> HIDE DEF a, b, r, x, d, z
    <2>6. a * Radix = (Expected * b) * Radix + r * Radix
      BY <1>0, <2>2, <2>4
    <2>7. Expected * (b * Radix + d) = (Expected * b) * Radix + Expected * d
      BY <1>0, <2>2, <2>3
    <2>8. a * Radix + x = Expected * (b * Radix + d) + z
      <3> DEFINE u == (Expected * b) * Radix
                 v == r * Radix
                 w == Expected * d
      <3>1. u \in Nat /\ v \in Nat /\ w \in Nat
        BY <1>0, <2>2, <2>3
      <3>2. a * Radix = u + v /\ Expected * (b * Radix + d) = u + w /\ v + x = w + z
        BY <2>3, <2>6, <2>7
      <3> HIDE DEF u, v, w
      <3> QED
        BY <2>2, <2>3, <3>1, <3>2
    <2> QED
      BY <2>5, <2>8 DEF z
  <1>9. Digits + 2 \in S
    <2> HIDE DEF S
    <2> QED
      BY <1>0, <1>7, <1>8, NaturalInduction
  <1>10. Lead(q, Digits + 2) = Lead(s, Digits + 2) \div Expected
    <2> DEFINE a == Lead(s, Digits + 2)
               b == Lead(q, Digits + 2)
               r == R(Digits + 2)
    <2>1. /\ Digits + 2 \in 0..(Digits + 2) /\ a \in Nat /\ b \in Nat
          /\ r \in Nat /\ r < Expected /\ a = Expected * b + r
      BY <1>0, <1>1, <1>6, <1>9
    <2> HIDE DEF a, b, r
    <2>2. a \div Expected = b
      BY <1>0, <2>1, DivisionUnique
    <2> QED
      BY <2>2 DEF a, b
  <1> QED
    BY <1>5, <1>10 DEF q

-----------------------------------------------------------------------------
(* A number that leads another stays above it, whatever digits follow      *)
(* (the comparisons of the bytes of a scaled target).                      *)
LEMMA LeadAbove ==
    ASSUME NEW d, NEW e, NEW a \in Nat, NEW b \in Nat, NEW m \in Nat,
           \A i \in 1..(a + m) : d[i] \in Digit, \A i \in 1..(b + m) : e[i] \in Digit,
           Lead(d, a) > Lead(e, b)
    PROVE  Lead(d, a + m) > Lead(e, b + m)
  <1>0. Radix \in Nat /\ \A x \in Digit : x \in Nat /\ x <= Radix - 1
    BY TargetAssumption DEF Digit
  <1> DEFINE S == {k \in Nat : k <= m => Lead(d, a + k) > Lead(e, b + k)}
  <1>1. 0 \in S
    <2>1. a + 0 = a /\ b + 0 = b
      OBVIOUS
    <2> QED
      BY <2>1
  <1>2. ASSUME NEW k \in Nat, k \in S PROVE k + 1 \in S
    <2> SUFFICES ASSUME k + 1 <= m PROVE Lead(d, a + (k + 1)) > Lead(e, b + (k + 1))
      OBVIOUS
    <2> DEFINE v == Lead(d, a + k)
               w == Lead(e, b + k)
               x == d[(a + k) + 1]
               y == e[(b + k) + 1]
    <2>1. /\ a + (k + 1) = (a + k) + 1 /\ b + (k + 1) = (b + k) + 1
          /\ a + k \in Nat /\ b + k \in Nat
          /\ (a + k) + 1 \in 1..(a + m) /\ (b + k) + 1 \in 1..(b + m)
          /\ a + k \in 0..(a + m) /\ b + k \in 0..(b + m) /\ k <= m
      OBVIOUS
    <2>2. x \in Nat /\ y \in Nat /\ y <= Radix - 1
      BY <1>0, <2>1
    <2>3. a + m \in Nat /\ b + m \in Nat
      OBVIOUS
    <2>4. v \in Nat /\ w \in Nat
      BY <2>1, <2>3, LeadType
    <2>5. v >= w + 1
      BY <1>2, <2>1, <2>4
    <2>6. /\ Lead(d, a + (k + 1)) = v * Radix + x
          /\ Lead(e, b + (k + 1)) = w * Radix + y
      BY <2>1, LeadIs
    <2> HIDE DEF v, w, x, y
    <2>7. v * Radix >= (w + 1) * Radix /\ (w + 1) * Radix = w * Radix + Radix
      BY <1>0, <2>4, <2>5
    <2>8. v * Radix \in Nat /\ w * Radix \in Nat
      BY <1>0, <2>4
    <2>9. v * Radix + x > w * Radix + y
      BY <1>0, <2>2, <2>7, <2>8
    <2> QED
      BY <2>6, <2>9
  <1> HIDE DEF S
  <1>3. Nat \subseteq S
    BY <1>1, <1>2, NaturalInduction
  <1> QED
    BY <1>3 DEF S

(* Zeros write zero, and nothing else does.                                *)
LEMMA LeadZero ==
    ASSUME NEW d, NEW m \in Nat, \A i \in 1..m : d[i] \in Digit
    PROVE  /\ (\A i \in 1..m : d[i] = 0) => Lead(d, m) = 0
           /\ (\E i \in 1..m : d[i] # 0) => Lead(d, m) >= 1
  <1>0. Radix \in Nat /\ 0 \in Digit /\ \A x \in Digit : x \in Nat
    BY TargetAssumption DEF Digit
  <1>1. ASSUME NEW c, \A i \in 1..m : c[i] = 0
        PROVE  \A k \in 0..m : Lead(c, k) = 0
    <2> DEFINE S == {k \in Nat : k <= m => Lead(c, k) = 0}
    <2>1. 0 \in S
      BY LeadIs
    <2>2. ASSUME NEW k \in Nat, k \in S PROVE k + 1 \in S
      <3> SUFFICES ASSUME k + 1 <= m PROVE Lead(c, k + 1) = 0
        OBVIOUS
      <3>1. k + 1 \in 1..m /\ k <= m
        OBVIOUS
      <3>2. Lead(c, k) = 0 /\ c[k + 1] = 0 /\ Lead(c, k + 1) = Lead(c, k) * Radix + c[k + 1]
        BY <1>1, <2>2, <3>1, LeadIs
      <3> QED
        BY <1>0, <3>2
    <2> HIDE DEF S
    <2>3. Nat \subseteq S
      BY <2>1, <2>2, NaturalInduction
    <2> QED
      BY <2>3 DEF S
  <1>2. ASSUME NEW i \in 1..m, d[i] # 0 PROVE Lead(d, m) >= 1
    <2> DEFINE c == [k \in 1..m |-> 0]
               j == i - 1
    <2>1. \A k \in 1..m : c[k] = 0 /\ c[k] \in Digit
      BY <1>0
    <2> HIDE DEF c
    <2>2. \A k \in 0..m : Lead(c, k) = 0
      BY <1>1, <2>1
    <2>3. /\ j \in Nat /\ j + 1 = i /\ j \in 0..m /\ i \in 0..m /\ i \in Nat
          /\ m - i \in Nat /\ i + (m - i) = m /\ m \in 0..m
      OBVIOUS
    <2> HIDE DEF j
    <2>4. Lead(d, i) > 0
      <3> DEFINE v == Lead(d, j)
                 x == d[i]
      <3>1. v \in Nat
        BY <2>3, LeadType
      <3>2. x \in Nat /\ x # 0
        BY <1>0, <1>2
      <3>3. Lead(d, i) = v * Radix + x
        BY <2>3, LeadIs
      <3> HIDE DEF v, x
      <3>4. v * Radix \in Nat
        BY <1>0, <3>1
      <3> QED
        BY <3>2, <3>3, <3>4
    <2>5. Lead(d, i) > Lead(c, i)
      BY <2>2, <2>3, <2>4
    <2>6. Lead(d, i + (m - i)) > Lead(c, i + (m - i))
      <3> DEFINE l == m - i
      <3>1. l \in Nat /\ i + l = m
        BY <2>3
      <3> HIDE DEF l
      <3>2. Lead(d, i + l) > Lead(c, i + l)
        BY <2>1, <2>3, <2>5, <3>1, LeadAbove
      <3> QED
        BY <3>2 DEF l
    <2>7. Lead(d, m) > 0
      BY <2>2, <2>3, <2>6
    <2>8. Lead(d, m) \in Nat
      BY <2>3, LeadType
    <2> QED
      BY <2>7, <2>8
  <1>3. (\A i \in 1..m : d[i] = 0) => Lead(d, m) = 0
    <2>1. m \in 0..m
      OBVIOUS
    <2> QED
      BY <1>1, <2>1
  <1> QED
    BY <1>2, <1>3

(* Half of the radix, and the digits of the largest target.                *)
LEMMA LargestDigits ==
    /\ Digits \in Nat /\ Digits # 0 /\ 1 \in 1..Digits /\ Radix \in Nat
    /\ Radix \div 2 \in Nat /\ Radix \div 2 >= 2 /\ Radix \div 2 <= Radix - 1
    /\ Largest \in Numerals /\ Largest[1] = Radix \div 2 - 1
    /\ \A i \in 1..Digits : i # 1 => Largest[i] = Radix - 1
    /\ TargetValid(Largest)
  <1>0. Digits \in Nat /\ Digits # 0 /\ Radix \in Nat /\ Radix >= 4 /\ Radix % 2 = 0
    BY TargetAssumption
  <1> DEFINE h == Radix \div 2
  <1>1. h \in Nat /\ Radix = 2 * h
    <2>1. h \in Nat /\ Radix = 2 * h + (Radix % 2)
      BY <1>0, Division
    <2> HIDE DEF h
    <2> QED
      BY <1>0, <2>1
  <1>2. Largest = [i \in 1..Digits |-> IF i = 1 THEN h - 1 ELSE Radix - 1]
    BY DEF Largest
  <1>3. TargetValid(Largest) <=> (\E i \in 1..Digits : Largest[i] # 0) /\ Largest[1] < h
    BY DEF TargetValid
  <1> HIDE DEF h
  <1>4. h >= 2 /\ h <= Radix - 1 /\ 1 \in 1..Digits
    BY <1>0, <1>1
  <1>5. Largest[1] = h - 1 /\ \A i \in 1..Digits : i # 1 => Largest[i] = Radix - 1
    BY <1>2, <1>4
  <1>6. Largest \in Numerals
    <2>1. \A i \in 1..Digits : Largest[i] \in 0..(Radix - 1)
      BY <1>0, <1>1, <1>4, <1>5
    <2>2. Largest = [i \in 1..Digits |-> Largest[i]]
      BY <1>2
    <2> QED
      BY <2>1, <2>2 DEF Numerals
  <1>7. Largest[1] # 0 /\ Largest[1] < h
    BY <1>1, <1>4, <1>5
  <1> QED
    BY <1>0, <1>1, <1>3, <1>4, <1>5, <1>6, <1>7 DEF h

(* The largest target is: a valid one is from one to it.                   *)
LEMMA LargestIs ==
    ASSUME NEW t \in Numerals
    PROVE  /\ Value(t) \in Nat /\ Value(t) = Lead(t, Digits)
           /\ TargetValid(t) => 1 <= Value(t) /\ Value(t) <= Value(Largest)
           /\ (\A i \in 1..Digits : t[i] = 0) => Value(t) = 0
           /\ t[1] >= Radix \div 2 => Value(t) > Value(Largest)
  <1> USE LargestDigits
  <1>1. ASSUME NEW d \in Numerals
        PROVE  /\ \A i \in 1..Digits : d[i] \in Digit /\ d[i] \in Nat /\ d[i] <= Radix - 1
               /\ d = [i \in 1..Digits |-> d[i]]
               /\ Value(d) = Lead(d, Digits) /\ \A k \in 0..Digits : Lead(d, k) \in Nat
               /\ Value(d) \in Nat /\ Lead(d, 1) = d[1]
    <2>1. /\ \A i \in 1..Digits : d[i] \in Digit /\ d[i] \in Nat /\ d[i] <= Radix - 1
          /\ d = [i \in 1..Digits |-> d[i]]
      BY DEF Numerals, Digit
    <2>2. \A k \in 0..Digits : Lead(d, k) \in Nat
      BY <2>1, LeadType
    <2>3. Value(d) = Lead(d, Digits)
      BY <2>1, LeadIs
    <2>4. Lead(d, 1) = d[1]
      <3>1. Lead(d, 0 + 1) = Lead(d, 0) * Radix + d[0 + 1] /\ Lead(d, 0) = 0 /\ 0 + 1 = 1
        BY LeadIs
      <3>2. d[1] \in Nat
        BY <2>1
      <3> QED
        BY <3>1, <3>2
    <2>5. Digits \in 0..Digits
      OBVIOUS
    <2> QED
      BY <2>1, <2>2, <2>3, <2>4, <2>5
  <1>2. ASSUME t[1] < Radix \div 2 PROVE Value(t) <= Value(Largest)
    <2> DEFINE S == {k \in Nat : k + 1 <= Digits => Lead(t, k + 1) <= Lead(Largest, k + 1)}
    <2>1. 0 \in S
      <3>1. Lead(t, 1) = t[1] /\ t[1] \in Nat
        BY <1>1
      <3>2. Lead(Largest, 1) = Radix \div 2 - 1
        BY <1>1
      <3>3. 0 + 1 = 1
        OBVIOUS
      <3> HIDE LargestDigits
      <3>4. Radix \div 2 \in Nat
        BY LargestDigits
      <3> QED
        BY <1>2, <3>1, <3>2, <3>3, <3>4
    <2>2. ASSUME NEW k \in Nat, k \in S PROVE k + 1 \in S
      <3> SUFFICES ASSUME (k + 1) + 1 <= Digits
                   PROVE  Lead(t, (k + 1) + 1) <= Lead(Largest, (k + 1) + 1)
        OBVIOUS
      <3> DEFINE i == k + 1
                 v == Lead(t, i)
                 w == Lead(Largest, i)
                 x == t[i + 1]
      <3>1. i \in Nat /\ i \in 0..Digits /\ i + 1 \in 1..Digits /\ i + 1 # 1 /\ i <= Digits
        OBVIOUS
      <3>2. v \in Nat /\ w \in Nat /\ x \in Nat /\ x <= Radix - 1 /\ v <= w
        BY <1>1, <2>2, <3>1
      <3>3. Lead(t, i + 1) = v * Radix + x /\ Lead(Largest, i + 1) = w * Radix + (Radix - 1)
        BY <3>1, LeadIs
      <3> HIDE DEF v, w, x
      <3>4. v * Radix <= w * Radix /\ v * Radix \in Nat /\ w * Radix \in Nat
        BY <3>2
      <3>5. v * Radix + x <= w * Radix + (Radix - 1)
        BY <3>2, <3>4
      <3> QED
        BY <3>3, <3>5
    <2>3. Digits - 1 \in S
      <3>1. Digits - 1 \in Nat
        OBVIOUS
      <3> HIDE DEF S
      <3> QED
        BY <2>1, <2>2, <3>1, NaturalInduction
    <2>4. (Digits - 1) + 1 = Digits
      OBVIOUS
    <2> QED
      BY <1>1, <2>3, <2>4
  <1>3. ASSUME t[1] >= Radix \div 2 PROVE Value(t) > Value(Largest)
    <2> DEFINE m == Digits - 1
    <2>1. m \in Nat /\ 1 + m = Digits
      OBVIOUS
    <2>2. Lead(t, 1) > Lead(Largest, 1)
      <3>1. Lead(t, 1) = t[1] /\ Lead(Largest, 1) = Radix \div 2 - 1 /\ t[1] \in Nat
        BY <1>1
      <3> QED
        BY <1>3, <3>1
    <2> HIDE DEF m
    <2>3. \A i \in 1..(1 + m) : t[i] \in Digit /\ Largest[i] \in Digit
      BY <1>1, <2>1
    <2>4. Lead(t, 1 + m) > Lead(Largest, 1 + m)
      BY <2>1, <2>2, <2>3, LeadAbove
    <2> QED
      BY <1>1, <2>1, <2>4
  <1>4. TargetValid(t) => (\E i \in 1..Digits : t[i] # 0) /\ t[1] < Radix \div 2
    BY DEF TargetValid
  <1>5. /\ (\A i \in 1..Digits : t[i] = 0) => Lead(t, Digits) = 0
        /\ (\E i \in 1..Digits : t[i] # 0) => Lead(t, Digits) >= 1
    BY <1>1, LeadZero
  <1> QED
    BY <1>1, <1>2, <1>3, <1>4, <1>5

(* The next target is the product with the span, divided by the expected   *)
(* span and clamped to the valid range: no byte is lost on the way         *)
(* (stn_target_next).                                                      *)
LEMMA AdjustedIs ==
    ASSUME NEW t \in Numerals, NEW f \in Nat \ {0}, f <= 4 * Expected
    PROVE  /\ Adjusted(t, f) \in Numerals /\ TargetValid(Adjusted(t, f))
           /\ Value(Adjusted(t, f)) = Clamp(1, Value(Largest), (Value(t) * f) \div Expected)
  <1> DEFINE q == Divided(Scaled(t, f))
             low == SubSeq(q, 3, Digits + 2)
             one == [low EXCEPT ![Digits] = 1]
             half == Radix \div 2
             v == (Value(t) * f) \div Expected
             top == Value(Largest)
  <1>0. /\ Digits \in Nat /\ Digits # 0 /\ Radix \in Nat /\ Radix >= 4
        /\ Expected \in Nat \ {0} /\ 4 * Expected <= Radix * Radix
    BY TargetAssumption
  <1>1. f <= Radix * Radix
    <2>1. 4 * Expected \in Nat /\ Radix * Radix \in Nat
      BY <1>0
    <2> QED
      BY <1>0, <2>1
  <1>2. /\ q \in [1..(Digits + 2) -> Digit]
        /\ Lead(q, Digits + 2) = v
    <2>1. /\ Scaled(t, f) \in [1..(Digits + 2) -> Digit]
          /\ Lead(Scaled(t, f), Digits + 2) = Value(t) * f
      BY <1>1, ScaledIs
    <2> QED
      BY <2>1, DividedIs
  <1>3. Adjusted(t, f) = IF q[1] # 0 \/ q[2] # 0 \/ low[1] >= half THEN Largest
                         ELSE IF TargetValid(low) THEN low ELSE one
    BY DEF Adjusted
  <1>4. Value(Largest) \in Nat /\ 1 <= Value(Largest)
    BY LargestDigits, LargestIs
  <1> HIDE DEF q, v
  <1>5. /\ \A i \in 1..(Digits + 2) : q[i] \in Digit /\ q[i] \in Nat
        /\ \A k \in 0..(Digits + 2) : Lead(q, k) \in Nat
        /\ v \in Nat
    <2>1. \A i \in 1..(Digits + 2) : q[i] \in Digit /\ q[i] \in Nat
      BY <1>0, <1>2 DEF Digit
    <2>2. Digits + 2 \in Nat /\ Digits + 2 \in 0..(Digits + 2)
      BY <1>0
    <2> QED
      BY <1>2, <2>1, <2>2, LeadType
  <1>6. low \in Numerals /\ \A i \in 1..Digits : low[i] = q[i + 2]
    <2>1. \A i \in 1..Digits : i + 2 \in 1..(Digits + 2)
      BY <1>0
    <2>2. q \in Seq(Digit) /\ Len(q) = Digits + 2
      <3>1. Digits + 2 \in Nat
        BY <1>0
      <3> QED
        BY <1>2, <3>1
    <2>3. low = [i \in 1..Digits |-> q[i + 2]]
      <3>1. /\ low = [i \in 1..((Digits + 2) - 3 + 1) |-> q[3 + i - 1]]
            /\ (Digits + 2) - 3 + 1 = Digits
        BY <1>0, <2>2 DEF SubSeq
      <3>2. \A i \in 1..Digits : 3 + i - 1 = i + 2
        BY <1>0
      <3> QED
        BY <3>1, <3>2
    <2>4. \A i \in 1..Digits : low[i] = q[i + 2] /\ q[i + 2] \in Digit
      BY <1>5, <2>1, <2>3
    <2> QED
      BY <2>3, <2>4 DEF Numerals, Digit
  <1> HIDE DEF low
  <1>7. ASSUME q[1] # 0 \/ q[2] # 0 PROVE v > top
    <2>1. Lead(q, 2) >= 1
      <3>1. \E i \in 1..2 : q[i] # 0
        BY <1>7
      <3>2. \A i \in 1..2 : q[i] \in Digit
        BY <1>0, <1>5
      <3> QED
        BY <3>1, <3>2, LeadZero
    <2>2. Lead(q, 2) > Lead(Largest, 0)
      <3>1. Lead(Largest, 0) = 0 /\ Lead(q, 2) \in Nat
        BY <1>0, <1>5, LeadIs
      <3> QED
        BY <2>1, <3>1
    <2>3. /\ 2 + Digits = Digits + 2 /\ 0 + Digits = Digits
          /\ \A i \in 1..(2 + Digits) : q[i] \in Digit
          /\ \A i \in 1..(0 + Digits) : Largest[i] \in Digit
      BY <1>0, <1>5, LargestDigits DEF Numerals, Digit
    <2>4. Lead(q, 2 + Digits) > Lead(Largest, 0 + Digits)
      BY <1>0, <2>2, <2>3, LeadAbove
    <2>5. Value(Largest) = Lead(Largest, Digits)
      BY LargestDigits, LargestIs
    <2> QED
      BY <1>2, <2>3, <2>4, <2>5
  <1>8. ASSUME q[1] = 0, q[2] = 0 PROVE v = Value(low)
    <2> DEFINE S == {k \in Nat : k <= Digits => Lead(q, k + 2) = Lead(low, k)}
    <2>1. 0 \in S
      <3>1. \A i \in 1..2 : q[i] = 0 /\ q[i] \in Digit
        BY <1>0, <1>5, <1>8
      <3>2. Lead(q, 2) = 0
        BY <3>1, LeadZero
      <3>3. Lead(low, 0) = 0
        BY LeadIs
      <3> QED
        BY <3>2, <3>3
    <2>2. ASSUME NEW k \in Nat, k \in S PROVE k + 1 \in S
      <3> SUFFICES ASSUME k + 1 <= Digits PROVE Lead(q, (k + 1) + 2) = Lead(low, k + 1)
        OBVIOUS
      <3>1. /\ k + 1 \in 1..Digits /\ k <= Digits /\ (k + 1) + 2 = (k + 2) + 1
            /\ k + 2 \in Nat
        BY <1>0
      <3>2. low[k + 1] = q[(k + 2) + 1]
        BY <1>6, <3>1
      <3>3. /\ Lead(q, (k + 2) + 1) = Lead(q, k + 2) * Radix + q[(k + 2) + 1]
            /\ Lead(low, k + 1) = Lead(low, k) * Radix + low[k + 1]
        BY <3>1, LeadIs
      <3> QED
        BY <2>2, <3>1, <3>2, <3>3
    <2>3. Digits \in S
      <3> HIDE DEF S
      <3> QED
        BY <1>0, <2>1, <2>2, NaturalInduction
    <2>4. Value(low) = Lead(low, Digits)
      BY <1>6, LargestIs
    <2> QED
      BY <1>0, <1>2, <2>3, <2>4
  <1> HIDE DEF top
  <1>9. ASSUME v > top
        PROVE  Clamp(1, top, v) = top
    BY <1>4, <1>5, <1>9 DEF Clamp, top
  <1>10. CASE q[1] # 0 \/ q[2] # 0 \/ low[1] >= half
    <2>1. v > top
      <3>1. CASE q[1] # 0 \/ q[2] # 0
        BY <1>7, <3>1
      <3>2. CASE q[1] = 0 /\ q[2] = 0
        <4>1. low[1] >= half
          BY <1>10, <3>2
        <4>2. Value(low) > Value(Largest)
          BY <1>6, <4>1, LargestIs
        <4> QED
          BY <1>8, <3>2, <4>2 DEF top
      <3> QED
        BY <3>1, <3>2
    <2>2. Adjusted(t, f) = Largest
      BY <1>3, <1>10
    <2> QED
      BY <1>9, <2>1, <2>2, LargestDigits DEF top, v
  <1>11. CASE ~(q[1] # 0 \/ q[2] # 0 \/ low[1] >= half) /\ TargetValid(low)
    <2>1. Adjusted(t, f) = low /\ v = Value(low)
      BY <1>3, <1>8, <1>11
    <2>2. 1 <= v /\ v <= top
      BY <1>6, <1>11, <2>1, LargestIs DEF top
    <2>3. Clamp(1, top, v) = v
      BY <1>4, <1>5, <2>2 DEF Clamp, top
    <2> QED
      BY <1>6, <1>11, <2>1, <2>3 DEF top, v
  <1>12. CASE ~(q[1] # 0 \/ q[2] # 0 \/ low[1] >= half) /\ ~TargetValid(low)
    <2>1. Adjusted(t, f) = one /\ v = Value(low)
      BY <1>3, <1>8, <1>12
    <2>2. low[1] < half
      <3>1. low[1] \in Nat /\ half \in Nat
        BY <1>6, LargestDigits DEF Numerals
      <3> HIDE DEF half
      <3> QED
        BY <1>12, <3>1
    <2>3. \A i \in 1..Digits : low[i] = 0
      BY <1>12, <2>2 DEF TargetValid
    <2>4. v = 0
      BY <1>6, <2>1, <2>3, LargestIs
    <2>5. Clamp(1, top, v) = 1
      BY <1>4, <2>4 DEF Clamp, top
    <2>6. /\ one \in Numerals /\ one[Digits] = 1
          /\ \A i \in 1..Digits : i # Digits => one[i] = 0
      BY <1>0, <1>6, <2>3 DEF Numerals
    <2> HIDE DEF one
    <2>7. TargetValid(one)
      <3>1. Digits \in 1..Digits /\ 1 \in 1..Digits
        BY <1>0
      <3>2. \E i \in 1..Digits : one[i] # 0
        BY <2>6, <3>1
      <3>3. one[1] \in {0, 1}
        BY <2>6, <3>1
      <3>4. one[1] < Radix \div 2
        BY <3>3, LargestDigits
      <3> QED
        BY <3>2, <3>4 DEF TargetValid
    <2>8. Value(one) = 1
      <3> DEFINE m == Digits - 1
      <3>1. m \in Nat /\ m + 1 = Digits /\ \A i \in 1..m : i \in 1..Digits /\ i # Digits
        BY <1>0
      <3> HIDE DEF m
      <3>2. \A i \in 1..m : one[i] = 0 /\ one[i] \in Digit
        BY <1>0, <2>6, <3>1 DEF Digit
      <3>3. Lead(one, m) = 0
        BY <3>1, <3>2, LeadZero
      <3>4. Lead(one, m + 1) = Lead(one, m) * Radix + one[m + 1]
        BY <3>1, LeadIs
      <3>5. Value(one) = Lead(one, Digits)
        BY <2>6, LargestIs
      <3> QED
        BY <1>0, <2>6, <3>1, <3>3, <3>4, <3>5
    <2> QED
      BY <2>1, <2>5, <2>6, <2>7, <2>8 DEF top, v
  <1> QED
    BY <1>10, <1>11, <1>12

-----------------------------------------------------------------------------
(* Twice one more than the largest target is one more than all digits hold.*)
LEMMA LargestIsHalf ==
    Power(Radix, Digits) = 2 * (Value(Largest) + 1)
  <1> USE LargestDigits
  <1>0. /\ Power(Radix, 0) = 1
        /\ \A n \in Nat : Power(Radix, n + 1) = Power(Radix, n) * Radix
        /\ \A n \in Nat : Power(Radix, n) \in Nat \ {0}
    <2> HIDE LargestDigits
    <2>1. Radix \in Nat \ {0}
      BY TargetAssumption
    <2> QED
      BY <2>1, PowerIs
  <1>1. \A k \in 0..Digits : Lead(Largest, k) \in Nat
    <2>1. \A i \in 1..Digits : Largest[i] \in Digit
      BY DEF Numerals, Digit
    <2> QED
      BY <2>1, LeadType
  <1> DEFINE S == {k \in Nat : k + 1 <= Digits =>
                      Power(Radix, k + 1) = 2 * (Lead(Largest, k + 1) + 1)}
  <1>2. 0 \in S
    <2>1. /\ Power(Radix, 0 + 1) = Power(Radix, 0) * Radix /\ Power(Radix, 0) = 1
          /\ Lead(Largest, 0 + 1) = Lead(Largest, 0) * Radix + Largest[0 + 1]
          /\ Lead(Largest, 0) = 0
      <3> HIDE LargestDigits
      <3> QED
        BY <1>0, LeadIs
    <2>2. Power(Radix, 1) = Radix
      BY <1>0, <2>1
    <2>3. Lead(Largest, 1) = Radix \div 2 - 1
      BY <2>1
    <2>4. Radix = 2 * (Radix \div 2)
      <3> DEFINE h == Radix \div 2
      <3>1. Radix % 2 = 0 /\ Radix = 2 * h + (Radix % 2) /\ h \in Nat
        BY TargetAssumption, Division
      <3> HIDE DEF h
      <3> QED
        BY <3>1 DEF h
    <2> QED
      BY <2>1, <2>2, <2>3, <2>4
  <1>3. ASSUME NEW k \in Nat, k \in S PROVE k + 1 \in S
    <2> SUFFICES ASSUME (k + 1) + 1 <= Digits
                 PROVE  Power(Radix, (k + 1) + 1) = 2 * (Lead(Largest, (k + 1) + 1) + 1)
      OBVIOUS
    <2> DEFINE i == k + 1
               v == Lead(Largest, i)
               p == Power(Radix, i)
    <2>1. i \in Nat /\ i \in 0..Digits /\ i + 1 \in 1..Digits /\ i + 1 # 1 /\ i <= Digits
      OBVIOUS
    <2>2. v \in Nat /\ p \in Nat /\ p = 2 * (v + 1)
      BY <1>0, <1>1, <1>3, <2>1
    <2>3. /\ Lead(Largest, i + 1) = v * Radix + (Radix - 1)
          /\ Power(Radix, i + 1) = p * Radix
      <3>1. Largest[i + 1] = Radix - 1
        BY <2>1
      <3> HIDE LargestDigits
      <3>2. Lead(Largest, i + 1) = v * Radix + Largest[i + 1]
        BY <2>1, LeadIs
      <3>3. Power(Radix, i + 1) = p * Radix
        BY <1>0, <2>1
      <3> QED
        BY <3>1, <3>2, <3>3
    <2> HIDE DEF v, p
    <2>4. p * Radix = 2 * (v * Radix + (Radix - 1) + 1)
      BY <2>2
    <2> QED
      BY <2>3, <2>4
  <1>4. Digits - 1 \in S
    <2>1. Digits - 1 \in Nat
      OBVIOUS
    <2> HIDE DEF S
    <2> QED
      BY <1>2, <1>3, <2>1, NaturalInduction
  <1>5. (Digits - 1) + 1 = Digits /\ Value(Largest) = Lead(Largest, Digits)
    BY LargestIs
  <1> QED
    BY <1>4, <1>5

Unit(t) == Power(Radix, Digits) \div (Value(t) + 1)

(* The division bit by bit is the division, and a block of any valid       *)
(* target earns at least two (stn_target_work).                            *)
LEMMA WorkIs ==
    ASSUME NEW t \in Numerals, TargetValid(t)
    PROVE  /\ TargetWork(t) = Unit(t) /\ Unit(t) \in Nat /\ Unit(t) >= 2
           /\ Unit(t) < WorkLimit
  <1> DEFINE x(n) == [k \in 1..n |-> k]
             G(n) == Quotients!Fold(t, [rest |-> 0, work |-> 0], x(n))
             by == Value(t) + 1
             P(n) == Power(2, n)
  <1>0. Bits \in Nat /\ WorkLimit \in Nat /\ P(Bits) = Power(Radix, Digits)
        /\ Power(Radix, Digits) <= WorkLimit /\ Power(Radix, Digits) \in Nat \ {0}
    BY TargetAssumption, PowerIs
  <1>1. /\ P(0) = 1 /\ \A n \in Nat : P(n + 1) = 2 * P(n) /\ P(n) \in Nat
    <2>1. /\ Power(2, 0) = 1 /\ 2 \in Nat \ {0}
          /\ \A n \in Nat : Power(2, n + 1) = Power(2, n) * 2
          /\ \A n \in Nat : Power(2, n) \in Nat \ {0}
      BY PowerIs
    <2> QED
      BY <2>1
  <1>2. Value(t) \in Nat /\ Value(t) >= 1 /\ Value(t) <= Value(Largest) /\ Value(Largest) \in Nat
    BY LargestIs, LargestDigits
  <1>3. by \in Nat /\ by >= 2 /\ by # 0
    BY <1>2
  <1>4. TargetWork(t) = G(Bits + 1).work
    BY DEF TargetWork, FoldLeft, MapThenFoldSet, Quotients!Fold, Quotients!Folds,
           Quotients!Piece, Quotients!Max, Max, Dividing
  <1>5. G(0) = [rest |-> 0, work |-> 0]
    <2>1. DOMAIN x(0) = 1..0
      OBVIOUS
    <2> HIDE DEF x
    <2> QED
      BY <2>1, Quotients!FoldOfNone
  <1>6. ASSUME NEW n \in Nat
        PROVE  LET u == Shifted(G(n), n + 1)
               IN  G(n + 1) = IF u >= by THEN [rest |-> u - by, work |-> 2 * G(n).work + 1]
                              ELSE [rest |-> u, work |-> 2 * G(n).work]
    <2> DEFINE s == x(n)
               r == x(n + 1)
    <2>1. /\ DOMAIN s = 1..n /\ DOMAIN r = 1..(n + 1) /\ \A k \in 1..n : s[k] = r[k]
          /\ r[n + 1] = n + 1
      OBVIOUS
    <2> HIDE DEF s, r, x
    <2>2. Quotients!Fold(t, [rest |-> 0, work |-> 0], r)
              = Dividing(t, Quotients!Fold(t, [rest |-> 0, work |-> 0], s), r[n + 1])
      BY <2>1, Quotients!FoldSteps
    <2>3. G(n + 1) = Dividing(t, G(n), n + 1)
      BY <2>1, <2>2 DEF s, r
    <2> HIDE DEF G
    <2> QED
      BY <2>3 DEF Dividing
  <1> HIDE DEF G, by, P
  <1>7. ASSUME NEW n \in Nat, NEW u \in Nat, NEW w \in Nat, NEW p \in Nat,
               u < 2 * by, p = by * (2 * w) + u, 2 * G(n).work = 2 * w,
               Shifted(G(n), n + 1) = u
        PROVE  /\ G(n + 1).rest \in Nat /\ G(n + 1).rest < by /\ G(n + 1).work \in Nat
               /\ p = by * G(n + 1).work + G(n + 1).rest
    <2>1. CASE u >= by
      <3>1. G(n + 1) = [rest |-> u - by, work |-> 2 * w + 1]
        BY <1>6, <1>7, <2>1
      <3>2. by * (2 * w + 1) = by * (2 * w) + by /\ by * (2 * w) \in Nat
        BY <1>3
      <3>3. p = by * (2 * w + 1) + (u - by)
        BY <1>3, <1>7, <3>2
      <3> QED
        BY <1>3, <1>7, <2>1, <3>1, <3>3
    <2>2. CASE ~(u >= by)
      <3>1. G(n + 1) = [rest |-> u, work |-> 2 * w]
        BY <1>6, <1>7, <2>2
      <3> QED
        BY <1>3, <1>7, <2>2, <3>1
    <2> QED
      BY <2>1, <2>2
  <1> DEFINE Good(n) == /\ G(n + 1).rest \in Nat /\ G(n + 1).rest < by
                        /\ G(n + 1).work \in Nat
                        /\ P(n) = by * G(n + 1).work + G(n + 1).rest
             S == {n \in Nat : Good(n)}
  <1>8. 0 \in S
    <2>1. Shifted(G(0), 0 + 1) = 1 /\ 2 * G(0).work = 2 * 0
      BY <1>5 DEF Shifted
    <2>2. P(0) = by * (2 * 0) + 1 /\ 1 < 2 * by /\ P(0) \in Nat
      BY <1>1, <1>3
    <2> QED
      BY <1>7, <2>1, <2>2
  <1>9. ASSUME NEW n \in Nat, n \in S PROVE n + 1 \in S
    <2> DEFINE r == G(n + 1).rest
               w == G(n + 1).work
    <2>1. r \in Nat /\ r < by /\ w \in Nat /\ P(n) = by * w + r
      BY <1>9
    <2>2. P(n + 1) = 2 * P(n) /\ P(n + 1) \in Nat
      BY <1>1
    <2>3. Shifted(G(n + 1), (n + 1) + 1) = 2 * r
      <3>1. (n + 1) + 1 # 1
        OBVIOUS
      <3>2. Shifted(G(n + 1), (n + 1) + 1) = 2 * r + 0
        BY <3>1 DEF Shifted
      <3> QED
        BY <2>1, <3>2
    <2>4. 2 * G(n + 1).work = 2 * w
      OBVIOUS
    <2> HIDE DEF r, w
    <2>5. P(n + 1) = by * (2 * w) + 2 * r
      <3>1. by * (2 * w) = 2 * (by * w) /\ by * w \in Nat
        BY <1>3, <2>1
      <3> QED
        BY <2>1, <2>2, <3>1
    <2>6. 2 * r \in Nat /\ 2 * r < 2 * by
      BY <1>3, <2>1
    <2>7. n + 1 \in Nat
      OBVIOUS
    <2>8. Good(n + 1)
      BY <1>7, <2>1, <2>2, <2>3, <2>4, <2>5, <2>6, <2>7
    <2> HIDE DEF Good
    <2> QED
      BY <2>7, <2>8
  <1>10. Good(Bits)
    <2> HIDE DEF S
    <2>1. Bits \in S
      BY <1>0, <1>8, <1>9, NaturalInduction
    <2> HIDE DEF Good
    <2> QED
      BY <2>1 DEF S
  <1>11. G(Bits + 1).work = Power(Radix, Digits) \div by
    <2> DEFINE r == G(Bits + 1).rest
               w == G(Bits + 1).work
               a == Power(Radix, Digits)
    <2>1. r \in Nat /\ r < by /\ w \in Nat /\ a \in Nat /\ a = by * w + r
      BY <1>0, <1>10
    <2> HIDE DEF r, w, a
    <2>2. a \div by = w
      BY <1>3, <2>1, DivisionUnique
    <2> QED
      BY <2>2 DEF a, w
  <1>12. TargetWork(t) = Unit(t) /\ Unit(t) \in Nat
    BY <1>4, <1>10, <1>11 DEF Unit, by
  <1>13. Unit(t) >= 2 /\ Unit(t) < WorkLimit
    <2> DEFINE a == Power(Radix, Digits)
               w == Unit(t)
               r == G(Bits + 1).rest
    <2>1. /\ w \in Nat /\ a \in Nat /\ a # 0 /\ r \in Nat /\ r < by /\ a = by * w + r
          /\ a <= WorkLimit
      BY <1>0, <1>4, <1>10, <1>12
    <2>2. a >= by * 2
      BY <1>2, LargestIsHalf DEF by
    <2> HIDE DEF a, w, r
    <2>3. ASSUME w < 2 PROVE FALSE
      <3>1. w = 0 \/ w = 1
        BY <2>1, <2>3
      <3> QED
        BY <1>3, <2>1, <2>2, <3>1
    <2>4. by * w >= 2 * w
      BY <1>3, <2>1
    <2>5. w >= 2 /\ w < WorkLimit
      <3>1. w >= 2
        BY <2>1, <2>3
      <3> DEFINE m == by * w
      <3>2. m \in Nat /\ m >= 2 * w /\ a = m + r
        BY <1>3, <2>1, <2>4
      <3> HIDE DEF m
      <3> QED
        BY <1>0, <2>1, <3>1, <3>2
    <2> QED
      BY <2>5 DEF w
  <1> QED
    BY <1>12, <1>13

(* Work that fits is a sum.                                                *)
LEMMA WorkAddIs ==
    ASSUME NEW a \in Nat, NEW b \in Nat, a + b < WorkLimit
    PROVE  WorkAdd(a, b) = a + b
  <1>1. Refused \notin Nat /\ WorkLimit \in Nat
    BY TargetAssumption
  <1> QED
    BY <1>1 DEF WorkAdd

(* The doubling adds up to a unit for each block, and nothing on the way   *)
(* is more than what it adds up to (stn_work_at_height).                   *)
LEMMA WorkAtHeightIs ==
    ASSUME NEW t \in Numerals, TargetValid(t), NEW h \in Nat,
           (h + 1) * Unit(t) < WorkLimit
    PROVE  WorkAtHeight(t, h) = (h + 1) * Unit(t)
  <1> DEFINE x(n) == [k \in 1..n |-> k]
             base == [height |-> h, power |-> TargetWork(t), sum |-> 0]
             G(n) == Rounds!Fold(<<>>, base, x(n))
             unit == Unit(t)
  <1>0. WorkLimit \in Nat /\ unit \in Nat /\ TargetWork(t) = unit /\ Refused \notin Nat
    BY TargetAssumption, WorkIs
  <1>1. WorkAtHeight(t, h) = WorkAdd(G(h).sum, TargetWork(t))
    BY DEF WorkAtHeight, FoldLeft, MapThenFoldSet, Rounds!Fold, Rounds!Folds,
           Rounds!Piece, Rounds!Max, Max, Halving
  <1>2. G(0) = [height |-> h, power |-> unit, sum |-> 0]
    <2>1. DOMAIN x(0) = 1..0
      OBVIOUS
    <2> HIDE DEF x, base
    <2>2. G(0) = base
      BY <2>1, Rounds!FoldOfNone
    <2> QED
      BY <1>0, <2>2 DEF base
  <1>3. ASSUME NEW n \in Nat PROVE G(n + 1) = Round(G(n))
    <2> DEFINE s == x(n)
               r == x(n + 1)
    <2>1. DOMAIN s = 1..n /\ DOMAIN r = 1..(n + 1) /\ \A k \in 1..n : s[k] = r[k]
      OBVIOUS
    <2> HIDE DEF s, r, x, base
    <2>2. Rounds!Fold(<<>>, base, r) = Halving(<<>>, Rounds!Fold(<<>>, base, s), r[n + 1])
      BY <2>1, Rounds!FoldSteps
    <2> QED
      BY <2>2 DEF Halving, s, r
  <1> DEFINE all == h * unit
  <1>4. all \in Nat /\ all + unit = (h + 1) * unit /\ all + unit < WorkLimit
    BY <1>0
  <1> HIDE DEF G, unit, all
  <1> DEFINE Good(n) ==
        /\ G(n).height \in Nat /\ G(n).power \in Nat /\ G(n).sum \in Nat
        /\ G(n).sum + G(n).power * G(n).height = all
        /\ G(n).height = 0 \/ G(n).height + n <= h
             S == {n \in Nat : Good(n)}
  <1>5. 0 \in S
    <2>1. 0 + unit * h = all
      BY <1>0 DEF all
    <2> QED
      BY <1>0, <1>2, <2>1
  <1>6. ASSUME NEW n \in Nat, n \in S PROVE n + 1 \in S
    <2> DEFINE a == G(n).height
               p == G(n).power
               u == G(n).sum
               q == a \div 2
               r == a % 2
    <2>1. /\ a \in Nat /\ p \in Nat /\ u \in Nat /\ u + p * a = all
          /\ a = 0 \/ a + n <= h
      BY <1>6
    <2>2. q \in Nat /\ r \in Nat /\ r < 2 /\ a = 2 * q + r
      <3> HIDE DEF a
      <3>1. a \in Nat /\ 2 \in Nat \ {0}
        BY <2>1
      <3>2. /\ a \div 2 \in Nat /\ a % 2 \in Nat /\ a % 2 < 2
            /\ a = 2 * (a \div 2) + (a % 2)
        BY <3>1, Division
      <3> QED
        BY <3>2
    <2>3. G(n + 1) = [height |-> q, power |-> IF q = 0 THEN p ELSE WorkAdd(p, p),
                      sum |-> IF r = 1 THEN WorkAdd(u, p) ELSE u]
      BY <1>3 DEF Round
    <2> HIDE DEF a, p, u, q, r
    <2>4. /\ p * a = (2 * p) * q + p * r /\ (2 * p) * q \in Nat /\ p * r \in Nat
          /\ p * a \in Nat
      BY <2>1, <2>2
    <2>5. /\ r = 1 => p * r = p
          /\ r # 1 => r = 0 /\ p * r = 0
      BY <2>1, <2>2
    <2>6. (IF r = 1 THEN WorkAdd(u, p) ELSE u) = u + p * r
      <3>1. ASSUME r = 1 PROVE u + p < WorkLimit
        BY <1>0, <1>4, <2>1, <2>4, <2>5, <3>1
      <3>2. ASSUME r = 1 PROVE WorkAdd(u, p) = u + p
        BY <2>1, <3>1, <3>2, WorkAddIs
      <3> QED
        BY <2>1, <2>5, <3>2
    <2>7. (IF q = 0 THEN p ELSE WorkAdd(p, p)) \in Nat
          /\ (IF q = 0 THEN p ELSE WorkAdd(p, p)) * q = (2 * p) * q
      <3>1. CASE q = 0
        BY <2>1, <3>1
      <3>2. CASE q # 0
        <4>1. (2 * p) * q >= 2 * p
          BY <2>1, <2>2, <3>2
        <4>2. p + p = 2 * p
          BY <2>1
        <4>3. p + p < WorkLimit
          BY <1>0, <1>4, <2>1, <2>4, <4>1, <4>2
        <4>4. WorkAdd(p, p) = 2 * p
          BY <2>1, <4>2, <4>3, WorkAddIs
        <4>5. 2 * p \in Nat
          BY <2>1
        <4> QED
          BY <3>2, <4>4, <4>5
      <3> QED
        BY <3>1, <3>2
    <2>8. q = 0 \/ q + (n + 1) <= h
      BY <2>1, <2>2
    <2> DEFINE pp == IF q = 0 THEN p ELSE WorkAdd(p, p)
               uu == u + p * r
    <2>9. /\ G(n + 1).height = q /\ G(n + 1).power = pp /\ G(n + 1).sum = uu
      BY <2>3, <2>6
    <2>10. pp \in Nat /\ pp * q = (2 * p) * q /\ uu \in Nat
      BY <2>1, <2>4, <2>7
    <2>11. uu + pp * q = all
      <3> DEFINE k == (2 * p) * q
                 m == p * r
      <3>1. k \in Nat /\ m \in Nat /\ u + (k + m) = all /\ pp * q = k /\ uu = u + m
        BY <2>1, <2>4, <2>10
      <3> HIDE DEF k, m, uu, pp
      <3> QED
        BY <2>1, <3>1
    <2> HIDE DEF pp, uu
    <2>12. Good(n + 1)
      BY <2>2, <2>8, <2>9, <2>10, <2>11
    <2> HIDE DEF Good
    <2> QED
      BY <2>12
  <1>7. h \in S
    <2> HIDE DEF S
    <2> QED
      BY <1>5, <1>6, NaturalInduction
  <1>8. G(h).sum = all
    <2>1. G(h).height = 0
      BY <1>7
    <2>2. G(h).power * 0 = 0
      BY <1>7
    <2> QED
      BY <1>7, <2>1, <2>2
  <1>9. WorkAdd(all, unit) = all + unit
    BY <1>0, <1>4, WorkAddIs
  <1> QED
    BY <1>0, <1>1, <1>4, <1>8, <1>9 DEF unit

Earned(c) == FoldLeft(LAMBDA w, h : w + Power(Radix, Digits) \div (Value(h.target) + 1), 0, c)

(* One header more earns its own unit more (stn_work_add).                 *)
LEMMA EarnedSteps ==
    ASSUME NEW c, NEW h, NEW n \in Nat, DOMAIN c = 1..n,
           NEW r, DOMAIN r = 1..(n + 1), r[n + 1] = h, \A i \in 1..n : c[i] = r[i]
    PROVE  Earned(r) = Earned(c) + Unit(h.target)
  <1>1. ASSUME NEW d PROVE Earned(d) = Works!Fold(<<>>, 0, d)
    BY DEF Earned, FoldLeft, MapThenFoldSet, Works!Fold, Works!Folds, Works!Piece,
           Works!Max, Max, Earning
  <1>2. Works!Fold(<<>>, 0, r) = Earning(<<>>, Works!Fold(<<>>, 0, c), h)
    BY Works!FoldSteps
  <1> QED
    BY <1>1, <1>2 DEF Earning, Unit

(* A chain of one block has its unit (stn_chain_genesis).                  *)
LEMMA EarnedFirst ==
    ASSUME NEW one, NEW h, DOMAIN one = 1..1, one[1] = h, Unit(h.target) \in Nat
    PROVE  Earned(one) = Unit(h.target)
  <1> DEFINE none == [i \in 1..0 |-> h]
  <1>1. Earned(none) = Works!Fold(<<>>, 0, none)
    <2>1. ASSUME NEW d PROVE Earned(d) = Works!Fold(<<>>, 0, d)
      BY DEF Earned, FoldLeft, MapThenFoldSet, Works!Fold, Works!Folds, Works!Piece,
             Works!Max, Max, Earning
    <2> QED
      BY <2>1
  <1>2. DOMAIN none = 1..0 /\ \A i \in 1..0 : none[i] = one[i]
    OBVIOUS
  <1> HIDE DEF none
  <1>3. Works!Fold(<<>>, 0, none) = 0
    BY <1>2, Works!FoldOfNone
  <1>4. 0 \in Nat /\ DOMAIN one = 1..(0 + 1) /\ one[0 + 1] = h
    OBVIOUS
  <1>5. Earned(one) = Earned(none) + Unit(h.target)
    BY <1>2, <1>4, EarnedSteps
  <1> QED
    BY <1>1, <1>3, <1>5

-----------------------------------------------------------------------------
Headers == [height : Nat, time : Nat, target : Numerals]

(* The tip is what its history says: the window is the end of the chain    *)
(* and carries one target, before the first boundary everything is the     *)
(* configured target's, and the work is what the blocks earned.            *)
TargetInv ==
    /\ bootstrap \in Numerals /\ TargetValid(bootstrap)
    /\ tip \in [height : Nat, time : Nat, target : Numerals, work : Nat, window : Seq(Headers)]
    /\ TargetValid(tip.target)
    /\ chain \in Seq(Headers) /\ Len(chain) = tip.height + 1
    /\ \A i \in 1..(tip.height + 1) : chain[i].height = i - 1
    /\ \A i, j \in 1..(tip.height + 1) : i <= j => chain[i].time <= chain[j].time
    /\ chain[tip.height + 1].time = tip.time
    /\ Len(tip.window) = (tip.height % Window) + 1
    /\ \A i \in 1..((tip.height % Window) + 1) :
          /\ tip.window[i] = chain[(tip.height - (tip.height % Window)) + i]
          /\ tip.window[i].target = tip.target
    /\ tip.height < Window =>
          tip.target = bootstrap /\ tip.work = (tip.height + 1) * Unit(bootstrap)
    /\ tip.work = Earned(chain) /\ 0 < tip.work /\ tip.work < WorkLimit

(* Heights modulo the window: the next one goes on or begins again.        *)
LEMMA NextInWindow ==
    ASSUME NEW w \in Nat \ {0}, NEW h \in Nat
    PROVE  /\ h % w \in Nat /\ h % w < w /\ h % w <= h
           /\ (h % w) + 1 = w => (h + 1) % w = 0 /\ h + 1 >= w
           /\ (h % w) + 1 # w => (h + 1) % w = (h % w) + 1
           /\ h < w => h % w = h
  <1> DEFINE q == h \div w
             r == h % w
  <1>1. q \in Nat /\ r \in Nat /\ r < w /\ h = w * q + r
    BY Division
  <1> HIDE DEF q, r
  <1>2. w * q \in Nat
    BY <1>1
  <1>3. ASSUME r + 1 = w PROVE (h + 1) % w = 0 /\ h + 1 >= w
    <2>1. w * (q + 1) = w * q + w /\ q + 1 \in Nat
      BY <1>1
    <2>2. h + 1 = w * (q + 1) + 0 /\ h + 1 \in Nat /\ 0 \in Nat /\ 0 < w
      BY <1>1, <1>2, <1>3, <2>1
    <2>3. (h + 1) % w = 0
      <3> DEFINE a == h + 1
                 p == q + 1
      <3>1. a \in Nat /\ p \in Nat /\ a = w * p + 0
        BY <2>1, <2>2
      <3> HIDE DEF a, p
      <3>2. a % w = 0
        BY <2>2, <3>1, DivisionUnique
      <3> QED
        BY <3>2 DEF a
    <2> QED
      BY <1>1, <1>2, <1>3, <2>3
  <1>4. ASSUME r + 1 # w PROVE (h + 1) % w = r + 1
    <2> DEFINE a == h + 1
               p == r + 1
    <2>1. a \in Nat /\ p \in Nat /\ p < w /\ a = w * q + p
      BY <1>1, <1>2, <1>4
    <2> HIDE DEF a, p
    <2>2. a % w = p
      BY <1>1, <2>1, DivisionUnique
    <2> QED
      BY <2>2 DEF a, p
  <1>5. ASSUME h < w PROVE h % w = h
    <2>1. h = w * 0 + h
      OBVIOUS
    <2> QED
      BY <1>5, <2>1, DivisionUnique
  <1>6. r <= h
    BY <1>1, <1>2
  <1> QED
    BY <1>1, <1>3, <1>4, <1>5, <1>6 DEF r

(* The span of a window, clamped, is a factor to adjust by.                *)
LEMMA FactorType ==
    ASSUME NEW v \in Nat
    PROVE  /\ Clamp(Expected \div 4, 4 * Expected, v) \in Nat \ {0}
           /\ Clamp(Expected \div 4, 4 * Expected, v) <= 4 * Expected
  <1> DEFINE e == Expected \div 4
  <1>1. Expected \in Nat /\ Expected # 0 /\ Expected % 4 = 0 /\ 4 \in Nat \ {0}
    BY TargetAssumption
  <1>2. e \in Nat /\ Expected = 4 * e + (Expected % 4)
    BY <1>1, Division
  <1> HIDE DEF e
  <1>3. e # 0 /\ e <= 4 * Expected
    BY <1>1, <1>2
  <1>4. /\ Clamp(e, 4 * Expected, v) \in Nat \ {0}
        /\ Clamp(e, 4 * Expected, v) <= 4 * Expected
    BY <1>1, <1>2, <1>3 DEF Clamp
  <1> QED
    BY <1>4 DEF e

(* Every accepted state names its next target, from its window alone, and  *)
(* the target is what the rule gives over the history (stn_target_next).   *)
LEMMA RequiredIs ==
    ASSUME TargetInv
    PROVE  /\ RequiredTarget(tip) \in Numerals /\ RequiredTarget(tip) # Refused
           /\ TargetValid(RequiredTarget(tip)) /\ Value(RequiredTarget(tip)) = Promised
           /\ (tip.height % Window) + 1 # Window => RequiredTarget(tip) = tip.target
  <1> DEFINE h == tip.height
             r == tip.height % Window
             win == tip.window
             t == tip.target
  <1>0. Window \in Nat \ {0} /\ Window # 1 /\ WorkLimit \in Nat
        /\ \A n \in Numerals : n # Refused
    BY TargetAssumption
  <1>1. /\ h \in Nat /\ t \in Numerals /\ TargetValid(t) /\ tip.work \in Nat
        /\ tip.time \in Nat /\ win \in Seq(Headers)
        /\ bootstrap \in Numerals /\ TargetValid(bootstrap)
        /\ chain \in Seq(Headers) /\ Len(chain) = h + 1
        /\ \A i \in 1..(h + 1) : chain[i].height = i - 1
        /\ \A i, j \in 1..(h + 1) : i <= j => chain[i].time <= chain[j].time
        /\ chain[h + 1].time = tip.time
        /\ Len(win) = r + 1
        /\ \A i \in 1..(r + 1) : win[i] = chain[(h - r) + i] /\ win[i].target = t
        /\ h < Window => t = bootstrap /\ tip.work = (h + 1) * Unit(bootstrap)
        /\ 0 < tip.work /\ tip.work < WorkLimit
    BY DEF TargetInv
  <1>2. /\ r \in Nat /\ r < Window /\ r <= h
        /\ r + 1 = Window => (h + 1) % Window = 0 /\ h + 1 >= Window
        /\ r + 1 # Window => (h + 1) % Window = r + 1
        /\ h < Window => r = h
    BY <1>0, <1>1, NextInWindow
  <1>3. Boundary(h + 1) <=> r + 1 = Window
    BY <1>2 DEF Boundary
  <1>4. PriorValid(tip)
    <2>1. ASSUME h < Window PROVE tip.work = WorkAtHeight(bootstrap, h)
      <3>1. (h + 1) * Unit(bootstrap) < WorkLimit
        BY <1>1, <2>1
      <3>2. WorkAtHeight(bootstrap, h) = (h + 1) * Unit(bootstrap)
        BY <1>1, <3>1, WorkAtHeightIs
      <3> QED
        BY <1>1, <2>1, <3>2
    <2> QED
      BY <1>1, <2>1 DEF PriorValid
  <1> HIDE DEF r, h, win, t
  <1>5. /\ DOMAIN win = 1..(r + 1) /\ win # <<>> /\ Last(win) = win[r + 1] /\ Head(win) = win[1]
        /\ \A i \in 1..(r + 1) : /\ (h - r) + i \in 1..(h + 1)
                                 /\ win[i].height = (h - r) + i - 1
                                 /\ win[i].time = chain[(h - r) + i].time
                                 /\ win[i].time \in Nat
    <2>1. DOMAIN win = 1..(r + 1) /\ win # <<>> /\ Last(win) = win[r + 1] /\ Head(win) = win[1]
      BY <1>1, <1>2 DEF Last
    <2>2. ASSUME NEW i \in 1..(r + 1)
          PROVE  /\ (h - r) + i \in 1..(h + 1) /\ win[i].height = (h - r) + i - 1
                 /\ win[i].time = chain[(h - r) + i].time /\ win[i].time \in Nat
      <3>1. (h - r) + i \in 1..(h + 1)
        BY <1>1, <1>2
      <3> DEFINE k == (h - r) + i
      <3>2. win[i] = chain[k] /\ win[i] \in Headers /\ k \in 1..(h + 1)
        BY <1>1, <2>1, <3>1
      <3> HIDE DEF k
      <3>3. chain[k].height = k - 1
        BY <1>1, <3>2
      <3>4. win[i].height = k - 1 /\ win[i].time = chain[k].time /\ win[i].time \in Nat
        BY <3>2, <3>3 DEF Headers
      <3>5. k = (h - r) + i
        BY DEF k
      <3>6. k - 1 = (h - r) + i - 1
        BY <1>1, <1>2, <3>5
      <3> QED
        BY <3>1, <3>4, <3>5, <3>6
    <2> QED
      BY <2>1, <2>2
  <1>6. Last(win).time = chain[h + 1].time /\ Last(win).target = t /\ Last(win).height = h
    <2>1. r + 1 \in 1..(r + 1) /\ (h - r) + (r + 1) = h + 1 /\ (h - r) + (r + 1) - 1 = h
      BY <1>1, <1>2
    <2> QED
      BY <1>1, <1>5, <2>1
  <1>7. WindowValid(tip)
    <2>1. ASSUME NEW i \in 1..(r + 1)
          PROVE  /\ win[i].height = h + i - (r + 1) /\ win[i].target = t
                 /\ i # 1 => win[i].time >= win[i - 1].time
      <3>1. win[i].height = h + i - (r + 1) /\ win[i].target = t
        BY <1>1, <1>2, <1>5
      <3>2. ASSUME i # 1 PROVE win[i].time >= win[i - 1].time
        <4> DEFINE a == (h - r) + i
                   b == (h - r) + (i - 1)
        <4>1. i - 1 \in 1..(r + 1) /\ b <= a
          BY <1>1, <1>2, <3>2
        <4>2. /\ a \in 1..(h + 1) /\ win[i].time = chain[a].time /\ win[i].time \in Nat
              /\ b \in 1..(h + 1) /\ win[i - 1].time = chain[b].time /\ win[i - 1].time \in Nat
          BY <1>5, <4>1
        <4> HIDE DEF a, b
        <4>3. chain[b].time <= chain[a].time
          BY <1>1, <4>1, <4>2
        <4> QED
          BY <4>2, <4>3
      <3> QED
        BY <3>1, <3>2
    <2>2. Last(win).time = tip.time
      BY <1>1, <1>6
    <2> QED
      BY <1>1, <1>5, <2>1, <2>2 DEF WindowValid, win, h, r, t
  <1>8. RequiredTarget(tip) =
            TargetNext(h + 1, IF Boundary(h + 1) THEN win ELSE <<Last(win)>>)
    BY <1>4, <1>7 DEF RequiredTarget, win, h
  <1>9. CASE r + 1 = Window
    <2> DEFINE span == chain[h + 1].time - chain[(h + 1) - Window + 1].time
               f == Clamp(Expected \div 4, 4 * Expected, span)
    <2>1. RequiredTarget(tip) = TargetNext(h + 1, win) /\ Boundary(h + 1)
      BY <1>3, <1>8, <1>9
    <2>2. /\ Len(win) = Window /\ h + 1 # 0
          /\ \A i \in 1..(r + 1) :
                /\ win[i].height = (h + 1) - Len(win) + i - 1
                /\ win[i].target = t
                /\ h + 1 <= Window => t = bootstrap
      <3>1. Len(win) = Window /\ h + 1 # 0 /\ (h + 1 <= Window => h < Window)
        BY <1>0, <1>1, <1>9
      <3>2. h + 1 <= Window => t = bootstrap
        BY <1>1, <3>1
      <3>3. ASSUME NEW i \in 1..(r + 1)
            PROVE  win[i].height = (h + 1) - Len(win) + i - 1 /\ win[i].target = t
        <4>1. win[i].height = (h - r) + i - 1 /\ win[i].target = t
          BY <1>1, <1>5
        <4>2. (h - r) + i - 1 = (h + 1) - Window + i - 1
          BY <1>0, <1>1, <1>2, <1>9
        <4> QED
          BY <3>1, <4>1, <4>2
      <3> QED
        BY <3>1, <3>2, <3>3
    <2>3. TargetNext(h + 1, win) = Adjusted(Last(win).target, Factor(win))
      BY <1>1, <1>5, <2>1, <2>2 DEF TargetNext
    <2>4. span \in Nat /\ Factor(win) = f
      <3>1. /\ 1 \in 1..(r + 1) /\ (h - r) + 1 = (h + 1) - Window + 1
            /\ (h + 1) - Window + 1 \in 1..(h + 1) /\ h + 1 \in 1..(h + 1)
            /\ (h + 1) - Window + 1 <= h + 1
        BY <1>0, <1>1, <1>2, <1>9
      <3> DEFINE a == chain[(h + 1) - Window + 1].time
                 b == chain[h + 1].time
      <3>2. Head(win).time = a /\ a \in Nat
        BY <1>5, <3>1
      <3>3. Last(win).time = b /\ b \in Nat
        BY <1>1, <1>6
      <3>4. a <= b
        BY <1>1, <3>1
      <3>5. span = b - a
        OBVIOUS
      <3> HIDE DEF a, b, span, f
      <3>6. span \in Nat
        BY <3>2, <3>3, <3>4, <3>5
      <3>7. (IF b <= a THEN 0 ELSE b - a) = span
        BY <3>2, <3>3, <3>4, <3>5
      <3>8. Factor(win) = Clamp(Expected \div 4, 4 * Expected, IF b <= a THEN 0 ELSE b - a)
        BY <3>2, <3>3 DEF Factor
      <3> QED
        BY <3>6, <3>7, <3>8 DEF f
    <2>5. Promised = Clamp(1, Value(Largest), (Value(t) * f) \div Expected)
      BY <2>1 DEF Promised, h, t
    <2> HIDE DEF span
    <2>6. f \in Nat \ {0} /\ f <= 4 * Expected
      BY <2>4, FactorType
    <2> HIDE DEF f
    <2>7. RequiredTarget(tip) = Adjusted(t, f)
      BY <1>6, <2>1, <2>3, <2>4
    <2>8. /\ Adjusted(t, f) \in Numerals /\ TargetValid(Adjusted(t, f))
          /\ Value(Adjusted(t, f)) = Clamp(1, Value(Largest), (Value(t) * f) \div Expected)
      BY <1>1, <2>6, AdjustedIs
    <2> QED
      BY <1>0, <1>9, <2>5, <2>7, <2>8 DEF r
  <1>10. CASE r + 1 # Window
    <2> DEFINE one == <<Last(win)>>
    <2>1. RequiredTarget(tip) = TargetNext(h + 1, one) /\ ~Boundary(h + 1)
      BY <1>3, <1>8, <1>10
    <2>2. h + 1 <= Window => h + 1 < Window
      BY <1>0, <1>1, <1>2, <1>10
    <2>3. Len(one) = 1 /\ DOMAIN one = {1} /\ one[1] = Last(win) /\ Last(one) = Last(win)
      BY DEF Last
    <2> HIDE DEF one
    <2>4. ~(\/ Len(one) # 1
            \/ \E i \in DOMAIN one :
                 \/ one[i].height # (h + 1) - Len(one) + i - 1
                 \/ ~TargetValid(one[i].target)
                 \/ h + 1 <= Window /\ one[i].target # bootstrap)
      BY <1>0, <1>1, <1>6, <2>2, <2>3
    <2>5. TargetNext(h + 1, one) = IF h + 1 < Window THEN bootstrap ELSE Last(one).target
      <3>1. h + 1 # 0
        BY <1>1
      <3> QED
        BY <2>1, <2>4, <3>1 DEF TargetNext
    <2>6. RequiredTarget(tip) = t
      BY <1>0, <1>1, <1>6, <2>1, <2>3, <2>5
    <2>7. Promised = Value(t)
      BY <2>1 DEF Promised, h, t
    <2> QED
      BY <1>0, <1>1, <2>6, <2>7 DEF t
  <1> QED
    BY <1>9, <1>10

(* The configured genesis has the configured target (stn_chain_genesis).   *)
LEMMA TargetInvInit ==
    ASSUME TargetInit
    PROVE  TargetInv
  <1> DEFINE b == bootstrap
             g == HeaderOf(0, 0, b)
             one == <<g>>
  <1>1. /\ b \in Numerals /\ TargetValid(b) /\ chain = one
        /\ tip = [height |-> 0, time |-> 0, target |-> b, work |-> TargetWork(b), window |-> one]
    BY DEF TargetInit
  <1>2. TargetWork(b) = Unit(b) /\ Unit(b) \in Nat /\ Unit(b) >= 2 /\ Unit(b) < WorkLimit
    BY <1>1, WorkIs
  <1>3. /\ g \in Headers /\ g.height = 0 /\ g.time = 0 /\ g.target = b
        /\ one \in Seq(Headers) /\ Len(one) = 1 /\ one[1] = g /\ DOMAIN one = 1..1
    <2>1. g \in Headers /\ g.height = 0 /\ g.time = 0 /\ g.target = b
      BY <1>1 DEF HeaderOf, Headers
    <2> HIDE DEF g
    <2> QED
      BY <2>1
  <1>4. 0 % Window = 0
    <2>1. Window \in Nat \ {0} /\ 0 = Window * 0 + 0 /\ 0 < Window
      BY TargetAssumption
    <2> QED
      BY <2>1, DivisionUnique
  <1>5. Earned(one) = Unit(b)
    <2> HIDE DEF one, g, b
    <2> QED
      BY <1>2, <1>3, EarnedFirst
  <1> HIDE DEF one, g, b
  <1>6. /\ tip.height = 0 /\ tip.time = 0 /\ tip.target = b /\ tip.work = Unit(b)
        /\ tip.window = one
        /\ tip \in [height : Nat, time : Nat, target : Numerals, work : Nat, window : Seq(Headers)]
    BY <1>1, <1>2, <1>3
  <1>7. \A i \in 1..(0 + 1) : i = 1
    OBVIOUS
  <1>8. /\ \A i \in 1..(0 + 1) : one[i].height = i - 1
        /\ \A i, j \in 1..(0 + 1) : i <= j => one[i].time <= one[j].time
        /\ \A i \in 1..(0 + 1) : one[i] = one[(0 - 0) + i] /\ one[i].target = b
    BY <1>3, <1>7
  <1>9. (0 + 1) * Unit(b) = Unit(b)
    BY <1>2
  <1> QED
    BY <1>1, <1>2, <1>3, <1>4, <1>5, <1>6, <1>8, <1>9 DEF TargetInv, b

(* A block accepted keeps it: the window goes on, or begins again at a     *)
(* boundary (stn_chain_validate_next).                                     *)
LEMMA TargetInvAccept ==
    ASSUME TargetInv, NEW gap \in Gaps, Accept(gap)
    PROVE  TargetInv'
  <1> DEFINE h == tip.height
             r == tip.height % Window
             t == tip.target
             c == chain
             n == RequiredTarget(tip)
             g == HeaderOf(h + 1, tip.time + gap, n)
             w == WorkAdd(tip.work, TargetWork(n))
             s == (h + 1) % Window
  <1>0. /\ Window \in Nat \ {0} /\ Window # 1 /\ WorkLimit \in Nat /\ gap \in Nat
        /\ Refused \notin Nat
    BY TargetAssumption
  <1>1. /\ h \in Nat /\ t \in Numerals /\ tip.work \in Nat /\ tip.time \in Nat
        /\ tip.window \in Seq(Headers) /\ bootstrap \in Numerals /\ TargetValid(bootstrap)
        /\ c \in Seq(Headers) /\ Len(c) = h + 1
        /\ \A i \in 1..(h + 1) : c[i].height = i - 1
        /\ \A i, j \in 1..(h + 1) : i <= j => c[i].time <= c[j].time
        /\ c[h + 1].time = tip.time
        /\ Len(tip.window) = r + 1
        /\ \A i \in 1..(r + 1) : tip.window[i] = c[(h - r) + i] /\ tip.window[i].target = t
        /\ h < Window => t = bootstrap /\ tip.work = (h + 1) * Unit(bootstrap)
        /\ tip.work = Earned(c) /\ 0 < tip.work
    BY DEF TargetInv
  <1>2. /\ n \in Numerals /\ TargetValid(n) /\ (r + 1 # Window => n = t)
    BY RequiredIs
  <1>3. /\ r \in Nat /\ r < Window /\ r <= h
        /\ r + 1 = Window => s = 0 /\ h + 1 >= Window
        /\ r + 1 # Window => s = r + 1
        /\ h < Window => r = h
    BY <1>0, <1>1, NextInWindow
  <1>4. /\ tip' = [height |-> h + 1, time |-> tip.time + gap, target |-> n, work |-> w,
                   window |-> Kept(tip, g)]
        /\ chain' = Append(c, g) /\ bootstrap' = bootstrap /\ w # Refused
    BY DEF Accept, HeaderOf
  <1>5. TargetWork(n) = Unit(n) /\ Unit(n) \in Nat /\ Unit(n) >= 2
    BY <1>2, WorkIs
  <1>6. w = tip.work + Unit(n) /\ w < WorkLimit /\ w \in Nat
    <2> DEFINE a == tip.work
               b == Unit(n)
    <2>1. a \in Nat /\ b \in Nat /\ w = WorkAdd(a, b) /\ w # Refused
      BY <1>1, <1>4, <1>5
    <2> HIDE DEF a, b, w
    <2>2. w = a + b /\ a + b < WorkLimit
      BY <1>0, <2>1 DEF WorkAdd
    <2> QED
      BY <2>1, <2>2 DEF a, b
  <1>7. g \in Headers /\ g.height = h + 1 /\ g.time = tip.time + gap /\ g.target = n
    BY <1>0, <1>1, <1>2 DEF HeaderOf, Headers
  <1> HIDE DEF r, t, c, n, g, w, s
  <1>8. Kept(tip, g) = IF s = 0 THEN <<g>> ELSE Append(tip.window, g)
    BY <1>7 DEF Kept, s
  <1> DEFINE d == Append(c, g)
             k == h + 1
             win == Kept(tip, g)
  <1>9. /\ d \in Seq(Headers) /\ Len(d) = k + 1 /\ d[k + 1] = g
        /\ \A i \in 1..k : d[i] = c[i]
        /\ DOMAIN d = 1..(k + 1) /\ DOMAIN c = 1..k
    <2>1. Len(c) = k /\ k \in Nat
      BY <1>1
    <2> HIDE DEF k
    <2> QED
      BY <1>1, <1>7, <2>1
  <1>10. k \in Nat /\ k = h + 1
    BY <1>1
  <1> HIDE DEF d, k, win
  <1>11. \A i \in 1..(k + 1) : d[i].height = i - 1
    <2>1. ASSUME NEW i \in 1..(k + 1) PROVE d[i].height = i - 1
      <3>1. CASE i = k + 1
        BY <1>7, <1>9, <1>10, <3>1
      <3>2. CASE i # k + 1
        <4>1. i \in 1..k
          BY <1>10, <3>2
        <4> QED
          BY <1>1, <1>9, <1>10, <4>1
      <3> QED
        BY <3>1, <3>2
    <2> QED
      BY <2>1
  <1>12. \A i, j \in 1..(k + 1) : i <= j => d[i].time <= d[j].time
    <2>1. ASSUME NEW i \in 1..(k + 1), NEW j \in 1..(k + 1), i <= j
          PROVE  d[i].time <= d[j].time
      <3>1. CASE j # k + 1
        <4>1. i \in 1..k /\ j \in 1..k
          BY <1>10, <2>1, <3>1
        <4> QED
          BY <1>1, <1>9, <1>10, <2>1, <4>1
      <3>2. CASE j = k + 1 /\ i = k + 1
        <4>1. d[i].time = tip.time + gap /\ d[j].time = tip.time + gap
          BY <1>7, <1>9, <3>2
        <4> DEFINE m == tip.time + gap
        <4>2. m \in Nat /\ d[i].time = m /\ d[j].time = m
          BY <1>0, <1>1, <4>1
        <4> HIDE DEF m
        <4> QED
          BY <4>2
      <3>3. CASE j = k + 1 /\ i # k + 1
        <4>1. i \in 1..k /\ k \in 1..k /\ i <= k
          BY <1>10, <3>3
        <4>2. d[i].time = c[i].time /\ c[i].time <= c[k].time /\ c[k].time = tip.time
          BY <1>1, <1>9, <1>10, <4>1
        <4>3. d[j].time = tip.time + gap
          BY <1>7, <1>9, <3>3
        <4>4. c[i].time \in Nat
          <5>1. c[i] \in Headers
            BY <1>1, <1>9, <4>1
          <5> QED
            BY <5>1 DEF Headers
        <4> DEFINE x == c[i].time
                   y == tip.time
        <4>5. /\ x \in Nat /\ y \in Nat /\ gap \in Nat /\ x <= y
              /\ d[i].time = x /\ d[j].time = y + gap
          BY <1>0, <1>1, <4>2, <4>3, <4>4
        <4> HIDE DEF x, y
        <4> QED
          BY <4>5
      <3> QED
        BY <3>1, <3>2, <3>3
    <2> QED
      BY <2>1
  <1>13. /\ win \in Seq(Headers) /\ Len(win) = s + 1
         /\ \A i \in 1..(s + 1) : win[i] = d[(k - s) + i] /\ win[i].target = n
    <2>1. CASE r + 1 = Window
      <3>1. s = 0 /\ win = <<g>>
        BY <1>3, <1>8, <2>1 DEF win
      <3>2. win \in Seq(Headers) /\ Len(win) = 1 /\ win[1] = g
        BY <1>7, <3>1
      <3>3. \A i \in 1..(0 + 1) : i = 1 /\ (k - 0) + i = k + 1
        BY <1>10
      <3> QED
        BY <1>7, <1>9, <3>1, <3>2, <3>3
    <2>2. CASE r + 1 # Window
      <3>1. s = r + 1 /\ s # 0 /\ win = Append(tip.window, g) /\ n = t
        BY <1>2, <1>3, <1>8, <2>2 DEF win
      <3>2. /\ win \in Seq(Headers) /\ Len(win) = s + 1 /\ win[s + 1] = g
            /\ \A i \in 1..s : win[i] = tip.window[i]
        <4> DEFINE v == tip.window
        <4>1. v \in Seq(Headers) /\ Len(v) = s /\ s \in Nat /\ win = Append(v, g)
          BY <1>1, <1>3, <3>1 DEF r
        <4> HIDE DEF v
        <4>2. /\ win \in Seq(Headers) /\ Len(win) = s + 1 /\ win[s + 1] = g
              /\ \A i \in 1..s : win[i] = v[i]
          BY <1>7, <4>1
        <4> QED
          BY <4>2 DEF v
      <3>3. ASSUME NEW i \in 1..(s + 1)
            PROVE  win[i] = d[(k - s) + i] /\ win[i].target = n
        <4>1. CASE i = s + 1
          <5>1. (k - s) + i = k + 1
            BY <1>3, <1>10, <3>1, <4>1
          <5> QED
            BY <1>7, <1>9, <3>2, <4>1, <5>1
        <4>2. CASE i # s + 1
          <5>1. i \in 1..s /\ i \in 1..(r + 1) /\ (k - s) + i = (h - r) + i
                /\ (h - r) + i \in 1..k
            <6>1. s = r + 1 /\ k = h + 1 /\ h \in Nat /\ r \in Nat /\ r <= h
              BY <1>1, <1>3, <1>10, <3>1
            <6> QED
              BY <4>2, <6>1
          <5>2. tip.window[i] = c[(h - r) + i] /\ tip.window[i].target = t
            BY <1>1, <5>1
          <5>3. d[(h - r) + i] = c[(h - r) + i]
            BY <1>9, <5>1
          <5> QED
            BY <3>1, <3>2, <5>1, <5>2, <5>3
        <4> QED
          BY <4>1, <4>2
      <3> QED
        BY <3>2, <3>3
    <2> QED
      BY <2>1, <2>2
  <1>14. k < Window => n = bootstrap /\ w = (k + 1) * Unit(bootstrap)
    <2> SUFFICES ASSUME k < Window PROVE n = bootstrap /\ w = (k + 1) * Unit(bootstrap)
      OBVIOUS
    <2>1. h < Window /\ r + 1 # Window
      BY <1>0, <1>1, <1>3, <1>10
    <2>2. n = bootstrap /\ tip.work = k * Unit(bootstrap)
      BY <1>1, <1>2, <1>10, <2>1
    <2>3. (k + 1) * Unit(bootstrap) = k * Unit(bootstrap) + Unit(bootstrap)
      <3> DEFINE u == Unit(bootstrap)
      <3>1. u \in Nat
        BY <1>5, <2>2
      <3> HIDE DEF u
      <3>2. (k + 1) * u = k * u + u
        BY <1>10, <3>1
      <3> QED
        BY <3>2 DEF u
    <2> QED
      BY <1>6, <2>2, <2>3
  <1>15. w = Earned(d)
    <2>1. Earned(d) = Earned(c) + Unit(g.target)
      BY <1>9, <1>10, EarnedSteps
    <2> QED
      BY <1>1, <1>6, <1>7, <2>1
  <1>16. /\ tip'.height = k /\ tip'.time = tip.time + gap /\ tip'.target = n /\ tip'.work = w
         /\ tip'.window = win /\ chain' = d /\ bootstrap' = bootstrap
         /\ tip' \in [height : Nat, time : Nat, target : Numerals, work : Nat,
                      window : Seq(Headers)]
    <2>1. tip' = [height |-> k, time |-> tip.time + gap, target |-> n, work |-> w, window |-> win]
      BY <1>4 DEF k, win
    <2>2. tip.time + gap \in Nat
      BY <1>0, <1>1
    <2> QED
      BY <1>2, <1>4, <1>6, <1>10, <1>13, <2>1, <2>2 DEF d
  <1>17. d[k + 1].time = tip.time + gap /\ 0 < w
    BY <1>1, <1>5, <1>6, <1>7, <1>9
  <1>18. tip'.height % Window = s
    BY <1>16 DEF s, k
  <1>19. bootstrap' \in Numerals /\ TargetValid(bootstrap')
    BY <1>1, <1>16
  <1>20. TargetValid(tip'.target) /\ tip'.work = Earned(chain') /\ tip'.work < WorkLimit
         /\ 0 < tip'.work
    BY <1>2, <1>6, <1>15, <1>16, <1>17
  <1>21. /\ chain' \in Seq(Headers) /\ Len(chain') = tip'.height + 1
         /\ chain'[tip'.height + 1].time = tip'.time
    BY <1>9, <1>16, <1>17
  <1>22. /\ \A i \in 1..(tip'.height + 1) : chain'[i].height = i - 1
         /\ \A i, j \in 1..(tip'.height + 1) : i <= j => chain'[i].time <= chain'[j].time
    BY <1>11, <1>12, <1>16
  <1>23. /\ Len(tip'.window) = (tip'.height % Window) + 1
         /\ \A i \in 1..((tip'.height % Window) + 1) :
               /\ tip'.window[i] = chain'[(tip'.height - (tip'.height % Window)) + i]
               /\ tip'.window[i].target = tip'.target
    BY <1>13, <1>16, <1>18
  <1>24. tip'.height < Window =>
            tip'.target = bootstrap' /\ tip'.work = (tip'.height + 1) * Unit(bootstrap')
    BY <1>14, <1>16
  <1> QED
    BY <1>16, <1>19, <1>20, <1>21, <1>22, <1>23, <1>24
       DEF TargetInv

(* It holds of every reachable state.                                      *)
LEMMA TargetInductive == TargetSpec => []TargetInv
  <1>1. TargetInit => TargetInv
    BY TargetInvInit
  <1>2. TargetInv /\ [TargetStep]_targetVars => TargetInv'
    <2>1. ASSUME TargetInv, TargetStep PROVE TargetInv'
      <3>1. PICK gap \in Gaps : Accept(gap)
        BY <2>1 DEF TargetStep
      <3> QED
        BY <2>1, <3>1, TargetInvAccept
    <2>2. ASSUME TargetInv, UNCHANGED targetVars PROVE TargetInv'
      BY <2>2 DEF TargetInv, targetVars
    <2> QED
      BY <2>1, <2>2
  <1> QED
    BY <1>1, <1>2, PTL DEF TargetSpec

(* An accepted state always names its next target, and names it from the   *)
(* window it kept as the rule would from the whole history: the product    *)
(* with the clamped span, divided and clamped to the valid targets, with   *)
(* no digit lost on the way (stn_target_next).                             *)
THEOREM TargetsFollow == TargetSpec => []TargetFollowsHistory
  <1>1. TargetInv => TargetFollowsHistory
    BY RequiredIs DEF TargetFollowsHistory
  <1> QED
    BY <1>1, TargetInductive, PTL

(* The work of an accepted state is the sum of the exact quotients of its  *)
(* blocks, at least two a block, so that an extension has strictly more    *)
(* (stn_target_work, stn_work_add).                                        *)
THEOREM WorksAreEarned == TargetSpec => []WorkIsEarned
  <1>1. ASSUME TargetInv PROVE WorkIsEarned
    <2>1. tip.work = Earned(chain) /\ tip.target \in Numerals /\ TargetValid(tip.target)
      BY <1>1 DEF TargetInv
    <2>2. TargetWork(tip.target) >= 2
      BY <2>1, WorkIs
    <2> QED
      BY <2>1, <2>2 DEF WorkIsEarned, Earned
  <1> QED
    BY <1>1, TargetInductive, PTL
=============================================================================
