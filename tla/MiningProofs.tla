---------------------------- MODULE MiningProofs ----------------------------
(***************************************************************************)
(* Theorems about the mining service over the pending pool (stn_mining.c,  *)
(* stn_pending.c, stn_share_pending.c, stn_internal_miner.c), for every    *)
(* value of the constants: what enters the pool and how much of it, what   *)
(* leaves it, and what a template pays.  Three parts: what the validator   *)
(* leaves in a view it accepted, the pool's room and pairs, and the pool   *)
(* and the template against the accepted chain.  The last two go handler   *)
(* by handler.                                                             *)
(***************************************************************************)
EXTENDS MiningProperties, FiniteSetTheorems, SequenceTheorems, TLAPS

-----------------------------------------------------------------------------
(* What a view of the accepted chain knows.                                *)

(* The two folds of the pool's model, one step each: a block onto a view,  *)
(* and a transaction of block b onto the projections of view v.            *)
Chains == <<>>
Body(v, b) == <<"body", v, b>>
Passing(c, s, x) == IF c = Chains THEN Extended(s, x) ELSE AppliedTx(c[2], c[3], s, x)

INSTANCE Inductions WITH Pass <- Passing

(* A projection with its table of rewards.                                 *)
Recorded(e) == "rewards" \in DOMAIN e

(* What an accepted transaction says of blocks and rewards: a share, or    *)
(* the issuance of one, names a block by its position; reward evidence,    *)
(* and the issuance for it, is recorded.                                   *)
Named(tx, rewards) ==
    /\ tx.type = "SHARE" => tx.parent \in Nat
    /\ IsShareIssuance(tx) => tx.evidence.parent \in Nat
    /\ tx.type = "REWARD" => tx \in rewards
    /\ IsBlockIssuance(tx) => tx.evidence \in rewards

(* An issuance for a share of the accepted chain.                          *)
PaysShare(v, tx) == \E u \in AcceptedTxs(v) : u.type = "SHARE" /\ tx.evidence = u

(* What validate_candidate checked of the identifiers in a transaction it  *)
(* let through: a share is by its height the child of the block it names.  *)
LEMMA ShareNames ==
    ASSUME NEW v, NEW b, NEW i, NEW e, NEW a, NEW tx, tx.type = "SHARE",
           Validator(v.history, b, i)!TxOK("history", tx, e, a)
    PROVE  tx.parent = tx.height - 1 /\ tx.height \in 1..(b.height - 1)
  BY DEF Validator!TxOK, Validator!ShareOK, Validator!ShareWellFormed

(* Reward evidence names a block of the chain and has its issuance next    *)
(* (validate_candidate).                                                   *)
LEMMA RewardNames ==
    ASSUME NEW v, NEW b, NEW i, NEW e, NEW a, NEW tx, tx.type = "REWARD",
           Validator(v.history, b, i)!TxOK("history", tx, e, a)
    PROVE  /\ tx.block \in 0..TipOf(v)
           /\ IsBlockIssuance(b.txs[i + 1]) /\ b.txs[i + 1].evidence = tx
  BY DEF Validator!TxOK, Validator!RewardPairOK, Validator!RewardPaired,
         Validator!RewardBlockKnown, Validator!RewardOK, Validator!TipId,
         Validator!IsBlockIssuance, Validator!IssuanceBound, TipOf, IsBlockIssuance

(* And any other issuance pays a share of an earlier block                 *)
(* (validate_candidate).                                                   *)
LEMMA IssuanceNames ==
    ASSUME NEW v, NEW b, NEW i, NEW e, NEW a, NEW tx, tx.type = "ISSUANCE",
           Validator(v.history, b, i)!TxOK("history", tx, e, a)
    PROVE  IsShareIssuance(tx) /\ PaysShare(v, tx)
  BY DEF Validator!TxOK, Validator!ShareIssuanceOK, Validator!IsShareIssuance,
         Validator!IssuanceBound, AcceptedTxs, ToSet, IsShareIssuance, PaysShare

(* After k transactions of block b over view v: rewards only grew, name    *)
(* blocks of the chain, and every transaction is Named; while a pair is    *)
(* open its issuance is.                                                   *)
BodyInv(v, b, k, s) ==
    /\ s = [ok |-> s.ok, paired |-> s.paired, e |-> s.e, a |-> s.a]
    /\ s.ok =>
          /\ Recorded(s.e) /\ v.economy.rewards \subseteq s.e.rewards
          /\ \A r \in s.e.rewards : r.block \in 0..TipOf(v)
          /\ \A i \in 1..k : Named(b.txs[i], s.e.rewards)
          /\ s.paired => Named(b.txs[k + 1], s.e.rewards)

(* Any sequence, whatever its elements.                                    *)
IsSeq(s) == \E S : s \in Seq(S)

(* A view as acceptance leaves it: rewards name blocks below the tip, and  *)
(* every accepted transaction is Named.                                    *)
ViewInv(v) ==
    /\ v = [history |-> v.history, economy |-> v.economy, authority |-> v.authority]
    /\ IsSeq(v.history)
    /\ Recorded(v.economy)
    /\ \A r \in v.economy.rewards : r.block \in 0..(TipOf(v) - 1)
    /\ \A tx \in AcceptedTxs(v) : Named(tx, v.economy.rewards)

(* A sequence has a length, and positions up to it.                        *)
LEMMA SeqIs ==
    ASSUME NEW s, IsSeq(s)
    PROVE  Len(s) \in Nat /\ DOMAIN s = 1..Len(s)
  BY DEF IsSeq

(* The table of rewards is the one before.                                 *)
Same(f, e) == Recorded(f) /\ f.rewards = e.rewards

(* Only applying reward evidence touches the table of rewards, and it adds *)
(* that evidence (stn_economic_state_apply).                               *)
LEMMA Accounts ==
    ASSUME NEW h, NEW b, NEW i, NEW e, Recorded(e), NEW tx, NEW u
    PROVE  /\ Same(Validator(h, b, i)!ConsumeShare(e, tx), e)
           /\ Same(Validator(h, b, i)!SetDestination(e, tx), e)
           /\ Same(Validator(h, b, i)!Credit(e, tx), e)
           /\ Same(Validator(h, b, i)!ApplyTransfer(e, tx), e)
           /\ Recorded(Validator(h, b, i)!ApplyReward(e, tx, u))
           /\ Validator(h, b, i)!ApplyReward(e, tx, u).rewards = e.rewards \cup {tx}
  <1>1. Same(Validator(h, b, i)!ConsumeShare(e, tx), e)
    BY DEF Same, Recorded, Validator!ConsumeShare
  <1>2. Same(Validator(h, b, i)!SetDestination(e, tx), e)
    BY DEF Same, Recorded, Validator!SetDestination
  <1>3. Same(Validator(h, b, i)!Credit(e, tx), e)
    BY DEF Same, Recorded, Validator!Credit
  <1>4. Same(Validator(h, b, i)!ApplyTransfer(e, tx), e)
    BY DEF Same, Recorded, Validator!ApplyTransfer
  <1>5. \A f : Recorded(f) => Same(Validator(h, b, i)!Credit(f, u), f)
    BY DEF Same, Recorded, Validator!Credit
  <1>6. /\ Recorded([e EXCEPT !.rewards = @ \cup {tx}])
        /\ [e EXCEPT !.rewards = @ \cup {tx}].rewards = e.rewards \cup {tx}
    BY DEF Recorded
  <1>7. /\ Recorded(Validator(h, b, i)!ApplyReward(e, tx, u))
        /\ Validator(h, b, i)!ApplyReward(e, tx, u).rewards = e.rewards \cup {tx}
    BY <1>5, <1>6 DEF Same, Validator!ApplyReward
  <1> QED
    BY <1>1, <1>2, <1>3, <1>4, <1>7

(* The pair of projections that the validator's loop carries.              *)
State(e, a) == [e |-> e, a |-> a]

(* One accepted transaction, on the table of rewards (the arms of          *)
(* validate_candidate).                                                    *)
LEMMA ReplayRewards ==
    ASSUME NEW v, NEW b, NEW i, NEW e, NEW a, Recorded(e),
           Validator(v.history, b, i)!TxOK("history", b.txs[i], e, a),
           NEW r, r = Validator(v.history, b, i)!ReplayTx(State(e, a), b, i)
    PROVE  /\ Recorded(r.e)
           /\ b.txs[i].type = "REWARD" => r.e.rewards = e.rewards \cup {b.txs[i]}
           /\ b.txs[i].type # "REWARD" => r.e.rewards = e.rewards
  <1> DEFINE tx == b.txs[i]
  <1>1. /\ tx.type \in {"SHARE", "DESTINATION", "REWARD", "TRANSFER", "GRANT", "REVOKE",
                        "ROTATE", "PUBLICATION", "ISSUANCE"}
        /\ tx.type = "ISSUANCE" => Validator(v.history, b, i)!IsShareIssuance(tx)
    BY DEF Validator!TxOK, Validator!ShareIssuanceOK
  <1>2. /\ Validator(v.history, b, i)!IsShareIssuance(tx) => tx.type = "ISSUANCE"
        /\ Validator(v.history, b, i)!IsBlockIssuance(tx) => tx.type = "ISSUANCE"
    BY DEF Validator!IsShareIssuance, Validator!IsBlockIssuance
  <1>3. /\ Same(e, e)
        /\ Same(Validator(v.history, b, i)!ConsumeShare(e, tx), e)
        /\ Same(Validator(v.history, b, i)!SetDestination(e, tx), e)
        /\ Same(Validator(v.history, b, i)!Credit(e, tx), e)
        /\ Same(Validator(v.history, b, i)!ApplyTransfer(e, tx), e)
    <2> HIDE DEF tx
    <2>1. Same(e, e)
      BY DEF Same
    <2> QED
      BY <2>1, Accounts
  <1>4. CASE tx.type = "REWARD"
    <2>1. r.e = Validator(v.history, b, i)!ApplyReward(e, tx, b.txs[i + 1])
      BY <1>2, <1>4 DEF Validator!ReplayTx, State
    <2> HIDE DEF tx
    <2> QED
      BY <1>4, <2>1, Accounts DEF tx
  <1>5. CASE tx.type # "REWARD"
    <2> SUFFICES Same(r.e, e)
      BY <1>5 DEF Same
    <2>1. CASE tx.type = "SHARE"
      <3>1. r.e = Validator(v.history, b, i)!ConsumeShare(e, tx)
        BY <1>2, <2>1 DEF Validator!ReplayTx, State
      <3> QED
        BY <1>3, <3>1
    <2>2. CASE tx.type = "DESTINATION"
      <3>1. r.e = Validator(v.history, b, i)!SetDestination(e, tx)
        BY <1>2, <2>2 DEF Validator!ReplayTx, State
      <3> QED
        BY <1>3, <3>1
    <2>3. CASE tx.type = "ISSUANCE"
      <3>1. r.e = Validator(v.history, b, i)!Credit(e, tx)
        <4>1. /\ tx.type \notin {"SHARE", "DESTINATION", "REWARD", "TRANSFER", "GRANT",
                                 "REVOKE", "ROTATE", "PUBLICATION"}
              /\ Validator(v.history, b, i)!IsShareIssuance(tx)
              /\ ~Validator(v.history, b, i)!IsBlockIssuance(tx)
          BY <1>1, <2>3 DEF Validator!IsShareIssuance, Validator!IsBlockIssuance
        <4>2. r = [State(e, a) EXCEPT !.e = Validator(v.history, b, i)!Credit(@, tx)]
          BY <4>1 DEF Validator!ReplayTx
        <4> QED
          BY <4>2 DEF State
      <3> QED
        BY <1>3, <3>1
    <2>4. CASE tx.type = "TRANSFER"
      <3>1. r.e = Validator(v.history, b, i)!ApplyTransfer(e, tx)
        BY <1>2, <2>4 DEF Validator!ReplayTx, State
      <3> QED
        BY <1>3, <3>1
    <2>5. CASE tx.type \in {"GRANT", "REVOKE", "ROTATE", "PUBLICATION"}
      <3>1. r.e = e
        BY <1>2, <2>5 DEF Validator!ReplayTx, State
      <3> QED
        BY <1>3, <3>1
    <2> HIDE DEF tx
    <2> QED
      BY <1>1, <1>5, <2>1, <2>2, <2>3, <2>4, <2>5
  <1> QED
    BY <1>4, <1>5

(* One pass of the transaction loop keeps what is known of the block so    *)
(* far (validate_candidate).                                               *)
LEMMA BodyStep ==
    ASSUME NEW v, ViewInv(v), NEW b, NEW k \in Nat, NEW s, BodyInv(v, b, k, s)
    PROVE  BodyInv(v, b, k + 1, AppliedTx(v, b, s, k + 1))
  <1> DEFINE i == k + 1
             tx == b.txs[i]
             t == AppliedTx(v, b, s, i)
             r == Validator(v.history, b, i)!ReplayTx([e |-> s.e, a |-> s.a], b, i)
             OK == Validator(v.history, b, i)!TxOK("history", tx, s.e, s.a)
  <1>1. s = [ok |-> s.ok, paired |-> s.paired, e |-> s.e, a |-> s.a]
    BY DEF BodyInv
  <1>2. CASE ~s.ok \/ s.paired
    <2>1. t = [s EXCEPT !.paired = FALSE]
      BY <1>2 DEF AppliedTx
    <2> HIDE DEF t
    <2>2. t = [ok |-> s.ok, paired |-> FALSE, e |-> s.e, a |-> s.a]
      BY <1>1, <2>1
    <2>3. /\ t = [ok |-> t.ok, paired |-> t.paired, e |-> t.e, a |-> t.a]
          /\ t.ok = s.ok /\ t.paired = FALSE /\ t.e = s.e
      BY <2>2
    <2>4. ASSUME s.ok
          PROVE  \A j \in 1..(k + 1) : Named(b.txs[j], s.e.rewards)
      <3>1. \A j \in 1..(k + 1) : j \in 1..k \/ j = k + 1
        OBVIOUS
      <3> QED
        BY <1>2, <2>4, <3>1 DEF BodyInv
    <2> QED
      BY <2>3, <2>4 DEF BodyInv, t
  <1>3. CASE ~(~s.ok \/ s.paired) /\ ~OK
    <2>1. t = [s EXCEPT !.ok = FALSE]
      BY <1>3 DEF AppliedTx
    <2> HIDE DEF t
    <2>2. t = [ok |-> FALSE, paired |-> s.paired, e |-> s.e, a |-> s.a]
      BY <1>1, <2>1
    <2> QED
      BY <2>2 DEF BodyInv, t
  <1>4. CASE s.ok /\ ~s.paired /\ OK
    <2>1. t = [s EXCEPT !.e = r.e, !.a = r.a, !.paired = tx.type = "REWARD"]
      BY <1>4 DEF AppliedTx
    <2> HIDE DEF t, r
    <2>2. t = [ok |-> s.ok, paired |-> tx.type = "REWARD", e |-> r.e, a |-> r.a]
      BY <1>1, <2>1
    <2>3. /\ Recorded(r.e)
          /\ tx.type = "REWARD" => r.e.rewards = s.e.rewards \cup {tx}
          /\ tx.type # "REWARD" => r.e.rewards = s.e.rewards
      <3>1. Recorded(s.e) /\ OK
        BY <1>4 DEF BodyInv
      <3>2. r = Validator(v.history, b, i)!ReplayTx([e |-> s.e, a |-> s.a], b, i)
        BY DEF r
      <3> DEFINE e == s.e
                 a == s.a
      <3>3. Recorded(e) /\ Validator(v.history, b, i)!TxOK("history", b.txs[i], e, a)
        BY <3>1
      <3>4. r = Validator(v.history, b, i)!ReplayTx(State(e, a), b, i)
        BY <3>2 DEF State
      <3> HIDE DEF i, e, a
      <3>5. Recorded(r.e)
        BY <3>3, <3>4, ReplayRewards
      <3>6. b.txs[i].type = "REWARD" => r.e.rewards = e.rewards \cup {b.txs[i]}
        BY <3>3, <3>4, ReplayRewards
      <3>7. b.txs[i].type # "REWARD" => r.e.rewards = e.rewards
        BY <3>3, <3>4, ReplayRewards
      <3> QED
        BY <3>5, <3>6, <3>7 DEF e
    <2>4. /\ tx.type = "SHARE" => tx.parent = tx.height - 1 /\ tx.height \in 1..(b.height - 1)
          /\ tx.type = "REWARD" => /\ tx.block \in 0..TipOf(v)
                                   /\ IsBlockIssuance(b.txs[i + 1])
                                   /\ b.txs[i + 1].evidence = tx
          /\ tx.type = "ISSUANCE" => IsShareIssuance(tx) /\ PaysShare(v, tx)
      <3> DEFINE e == s.e
                 a == s.a
      <3>1. Validator(v.history, b, i)!TxOK("history", tx, e, a)
        BY <1>4
      <3> HIDE DEF i, tx, e, a
      <3>2. tx.type = "SHARE" => tx.parent = tx.height - 1 /\ tx.height \in 1..(b.height - 1)
        BY <3>1, ShareNames
      <3>3. tx.type = "REWARD" => /\ tx.block \in 0..TipOf(v)
                                  /\ IsBlockIssuance(b.txs[i + 1])
                                  /\ b.txs[i + 1].evidence = tx
        BY <3>1, RewardNames
      <3>4. tx.type = "ISSUANCE" => IsShareIssuance(tx) /\ PaysShare(v, tx)
        BY <3>1, IssuanceNames
      <3> QED
        BY <3>2, <3>3, <3>4
    <2>5. Named(tx, r.e.rewards)
      <3>1. tx.type = "SHARE" => tx.parent \in Nat
        BY <2>4
      <3>2. tx.type = "ISSUANCE" => tx.evidence.parent \in Nat
        BY <2>4 DEF ViewInv, Named, PaysShare
      <3> HIDE DEF tx
      <3> QED
        BY <2>3, <2>4, <3>1, <3>2 DEF Named, IsShareIssuance, IsBlockIssuance
    <2>6. tx.type = "REWARD" => Named(b.txs[i + 1], r.e.rewards)
      <3> HIDE DEF tx, i
      <3> QED
        BY <2>3, <2>4 DEF Named, IsShareIssuance, IsBlockIssuance
    <2>7. \A j \in 1..(k + 1) : Named(b.txs[j], r.e.rewards)
      <3>1. \A j \in 1..(k + 1) : j \in 1..k \/ j = k + 1
        OBVIOUS
      <3>2. \A j \in 1..k : Named(b.txs[j], s.e.rewards)
        BY <1>4 DEF BodyInv
      <3>3. \A j \in 1..k : Named(b.txs[j], r.e.rewards)
        <4> HIDE DEF tx
        <4> QED
          BY <2>3, <3>2 DEF Named
      <3> QED
        BY <2>5, <3>1, <3>3
    <2>8. v.economy.rewards \subseteq r.e.rewards /\ \A q \in r.e.rewards : q.block \in 0..TipOf(v)
      <3> HIDE DEF tx
      <3> QED
        BY <1>4, <2>3, <2>4 DEF BodyInv
    <2>9. /\ t = [ok |-> t.ok, paired |-> t.paired, e |-> t.e, a |-> t.a]
          /\ t.paired => tx.type = "REWARD"
          /\ t.e = r.e
      BY <2>2
    <2> QED
      BY <2>3, <2>6, <2>7, <2>8, <2>9 DEF BodyInv, t
  <1> QED
    BY <1>2, <1>3, <1>4

(* Where the loop starts: the projections of the view.                     *)
Base(v) == [ok |-> TRUE, paired |-> FALSE, e |-> v.economy, a |-> v.authority]

(* The loop is a fold over the positions of the block's transactions.      *)
LEMMA AppliedFolds ==
    ASSUME NEW v, NEW b, IsSeq(b.txs)
    PROVE  Applied(v, b) = Fold(Body(v, b), Base(v), Counted(Len(b.txs)))
  <1>1. Applied(v, b) = Fold(Body(v, b), Base(v), [i \in DOMAIN b.txs |-> i])
    BY DEF Applied, FoldLeft, MapThenFoldSet, Fold, Folds, Piece, Passing, Chains, Body, Base
  <1> QED
    BY <1>1, SeqIs DEF Counted

(* What the loop knows after the last transaction, along the block         *)
(* (validate_candidate).                                                   *)
LEMMA BodyHolds ==
    ASSUME NEW v, ViewInv(v), NEW b, IsSeq(b.txs)
    PROVE  BodyInv(v, b, Len(b.txs), Applied(v, b))
  <1> DEFINE F(n) == Fold(Body(v, b), Base(v), Counted(n))
             G == {n \in Nat : BodyInv(v, b, n, F(n))}
  <1>1. 0 \in G
    <2>1. DOMAIN Counted(0) = 1..0
      BY DEF Counted
    <2>2. F(0) = Base(v)
      BY <2>1, FoldOfNone
    <2>3. \A q \in v.economy.rewards : q.block \in 0..TipOf(v)
      <3>1. TipOf(v) \in Int
        BY SeqIs DEF ViewInv, TipOf
      <3> QED
        BY <3>1 DEF ViewInv
    <2> HIDE DEF F
    <2>4. BodyInv(v, b, 0, F(0))
      BY <2>2, <2>3 DEF BodyInv, Base, ViewInv
    <2> QED
      BY <2>4
  <1>2. ASSUME NEW n \in Nat, n \in G
        PROVE  n + 1 \in G
    <2>1. F(n + 1) = Passing(Body(v, b), F(n), n + 1)
      BY CountedStep
    <2> HIDE DEF F
    <2>2. F(n + 1) = AppliedTx(v, b, F(n), n + 1)
      BY <2>1 DEF Passing, Chains, Body
    <2>3. BodyInv(v, b, n + 1, F(n + 1))
      BY <1>2, <2>2, BodyStep
    <2> QED
      BY <2>3
  <1> HIDE DEF G
  <1>3. Len(b.txs) \in G
    BY <1>1, <1>2, NaturalInduction, SeqIs
  <1> QED
    BY <1>3, AppliedFolds DEF G

(* Accepting a block leaves a view of the history with that block, all of  *)
(* whose names are still positions (stn_chain_validate_candidate).         *)
LEMMA ViewGrows ==
    ASSUME NEW v, ViewInv(v), NEW b, IsSeq(b.txs), Accepts(v, b)
    PROVE  /\ ViewInv(Extended(v, b))
           /\ Extended(v, b).history = Append(v.history, b)
           /\ Len(Extended(v, b).history) = Len(v.history) + 1
           /\ AcceptedTxs(Extended(v, b)) = AcceptedTxs(v) \cup ToSet(b.txs)
           /\ ToSet(Extended(v, b).history[Len(v.history) + 1].txs) = ToSet(b.txs)
  <1> DEFINE s == Applied(v, b)
             w == Extended(v, b)
             n == Len(v.history)
  <1>1. BodyInv(v, b, Len(b.txs), s) /\ s.ok
    BY BodyHolds DEF Accepts
  <1>2. w = [history |-> Append(v.history, b), economy |-> s.e, authority |-> s.a]
    BY DEF Extended
  <1> HIDE DEF s, w
  <1>3. /\ w = [history |-> w.history, economy |-> w.economy, authority |-> w.authority]
        /\ w.history = Append(v.history, b) /\ w.economy = s.e
    BY <1>2
  <1>4. /\ IsSeq(w.history) /\ n \in Nat
        /\ DOMAIN v.history = 1..n /\ DOMAIN w.history = 1..(n + 1) /\ Len(w.history) = n + 1
        /\ \A i \in 1..n : w.history[i] = v.history[i]
        /\ w.history[n + 1] = b
    <2>1. PICK S : v.history \in Seq(S)
      BY DEF ViewInv, IsSeq
    <2>2. v.history \in Seq(S \cup {b}) /\ b \in S \cup {b}
      BY <2>1
    <2>3. w.history \in Seq(S \cup {b})
      BY <1>3, <2>2, AppendProperties
    <2> QED
      BY <1>3, <2>2, <2>3, AppendProperties DEF IsSeq
  <1>5. TipOf(w) = TipOf(v) + 1 /\ TipOf(v) \in Int
    BY <1>4 DEF TipOf
  <1>6. AcceptedTxs(w) = AcceptedTxs(v) \cup ToSet(b.txs)
    <2>1. DOMAIN w.history = DOMAIN v.history \cup {n + 1}
      BY <1>4
    <2> QED
      BY <1>4, <2>1 DEF AcceptedTxs
  <1>7. \A tx \in AcceptedTxs(w) : Named(tx, w.economy.rewards)
    <2>1. \A tx \in AcceptedTxs(v) : Named(tx, w.economy.rewards)
      BY <1>1, <1>3 DEF BodyInv, ViewInv, Named
    <2>2. \A tx \in ToSet(b.txs) : Named(tx, w.economy.rewards)
      <3>1. \A tx \in ToSet(b.txs) : \E i \in 1..Len(b.txs) : tx = b.txs[i]
        BY SeqIs DEF ToSet
      <3> QED
        BY <1>1, <1>3, <3>1 DEF BodyInv
    <2> QED
      BY <1>6, <2>1, <2>2
  <1>8. \A r \in w.economy.rewards : r.block \in 0..(TipOf(w) - 1)
    BY <1>1, <1>3, <1>5 DEF BodyInv
  <1>9. Recorded(w.economy)
    BY <1>1, <1>3 DEF BodyInv
  <1>10. ViewInv(w)
    BY <1>3, <1>4, <1>7, <1>8, <1>9 DEF ViewInv
  <1> QED
    BY <1>3, <1>4, <1>6, <1>10 DEF w

(* No history, no rewards, no transactions                                 *)
(* (stn_economic_state_initialize).                                        *)
LEMMA EmptyViewInv == ViewInv(EmptyView) /\ EmptyView.history = <<>> /\ AcceptedTxs(EmptyView) = {}
  <1>1. IsSeq(<<>>) /\ DOMAIN <<>> = {} /\ Len(<<>>) = 0
    <2>1. <<>> \in Seq({})
      OBVIOUS
    <2> QED
      BY <2>1 DEF IsSeq
  <1>2. EmptyView.history = <<>> /\ EmptyView.economy = EmptyEconomy
        /\ EmptyView = [history |-> EmptyView.history, economy |-> EmptyView.economy,
                        authority |-> EmptyView.authority]
    BY DEF EmptyView
  <1>3. Recorded(EmptyEconomy) /\ EmptyEconomy.rewards = {}
    BY DEF Recorded, EmptyEconomy
  <1>4. AcceptedTxs(EmptyView) = {}
    BY <1>1, <1>2 DEF AcceptedTxs
  <1> QED
    BY <1>1, <1>2, <1>3, <1>4 DEF ViewInv

(* The body of a block is a sequence (stn_block_decode).                   *)
LEMMA BlockTxs == \A b \in Blocks : IsSeq(b.txs)
  BY DEF Blocks, IsSeq

(* Deriving a view is a fold over the blocks of a history.                 *)
LEMMA DerivedFolds == ASSUME NEW h PROVE Derived(h) = Fold(Chains, EmptyView, h)
  BY DEF Derived, FoldLeft, MapThenFoldSet, Fold, Folds, Piece, Passing, Chains, Body

(* A whole history that validates leaves such a view, along the history    *)
(* (stn_chain_validate_sequence).                                          *)
LEMMA DerivedHolds ==
    ASSUME NEW h \in Seq(Blocks), Derivable(h)
    PROVE  ViewInv(Derived(h)) /\ Derived(h).history = h
  <1> DEFINE F(n) == Derived(SubSeq(h, 1, n))
             G == {n \in Nat : n <= Len(h) => ViewInv(F(n)) /\ F(n).history = SubSeq(h, 1, n)}
  <1>1. 0 \in G
    <2>1. SubSeq(h, 1, 0) = <<>> /\ DOMAIN SubSeq(h, 1, 0) = 1..0
      OBVIOUS
    <2>2. F(0) = EmptyView
      BY <2>1, DerivedFolds, FoldOfNone
    <2> QED
      BY <2>1, <2>2, EmptyViewInv
  <1>2. ASSUME NEW n \in Nat, n \in G
        PROVE  n + 1 \in G
    <2> SUFFICES ASSUME n + 1 <= Len(h)
                 PROVE  ViewInv(F(n + 1)) /\ F(n + 1).history = SubSeq(h, 1, n + 1)
      OBVIOUS
    <2> DEFINE b == h[n + 1]
               p == SubSeq(h, 1, n)
               q == SubSeq(h, 1, n + 1)
    <2>1. /\ b \in Blocks /\ n + 1 \in DOMAIN h /\ (n + 1) - 1 = n
          /\ p \in Seq(Blocks) /\ q \in Seq(Blocks)
          /\ DOMAIN p = 1..n /\ DOMAIN q = 1..(n + 1)
          /\ \A i \in 1..n : p[i] = q[i]
          /\ q[n + 1] = b
      OBVIOUS
    <2>2. q = Append(p, b)
      BY <2>1
    <2>3. Accepts(Derived(p), b)
      BY <2>1 DEF Derivable
    <2>4. ViewInv(Derived(p)) /\ Derived(p).history = p
      BY <1>2
    <2> HIDE DEF b, p, q
    <2>5. Derived(q) = Extended(Derived(p), b)
      <3>1. Fold(Chains, EmptyView, q) = Passing(Chains, Fold(Chains, EmptyView, p), q[n + 1])
        BY <2>1, FoldSteps
      <3> QED
        BY <2>1, <3>1, DerivedFolds DEF Passing
    <2>6. ViewInv(Derived(q)) /\ Derived(q).history = q
      BY <2>1, <2>2, <2>3, <2>4, <2>5, ViewGrows, BlockTxs
    <2> QED
      BY <2>6 DEF q
  <1> HIDE DEF G
  <1>3. Len(h) \in G /\ Len(h) \in Nat
    BY <1>1, <1>2, NaturalInduction
  <1>4. SubSeq(h, 1, Len(h)) = h
    OBVIOUS
  <1>5. ViewInv(F(Len(h))) /\ F(Len(h)).history = SubSeq(h, 1, Len(h))
    <2> HIDE DEF F
    <2> QED
      BY <1>3 DEF G
  <1> QED
    BY <1>4, <1>5

-----------------------------------------------------------------------------
(* Room and pairs.                                                         *)

(* A pool within its capacity, and a service over such a pool.             *)
Bounded(p) == IsFiniteSet(p) /\ Cardinality(p) \in Nat /\ Cardinality(p) <= MaxEntries
Whole(s) ==
    /\ s = [view |-> s.view, pool |-> s.pool, work |-> s.work]
    /\ Bounded(s.pool)

(* What came into the pool between two states without being submitted as a *)
(* transaction.                                                            *)
Came(s, t, type) == {tx \in t.pool \ (s.pool \cup Submitted) : tx.type = type}

(* What a handler keeps, unless it replaces accepted blocks.               *)
Keeps(s, t) ==
    /\ Whole(t)
    /\ Came(s, t, "SHARE") # {} => Cardinality(t.pool) <= MaxEntries - 2
    /\ \A tx \in Came(s, t, "REWARD") \cup Came(s, t, "SHARE") : IssuedIn(t.pool, tx)

-----------------------------------------------------------------------------
(* A pool stays within its capacity when entries leave                     *)
(* (stn_pending_prune).                                       *)
LEMMA BoundedSubset ==
    ASSUME NEW p, Bounded(p), NEW q, q \subseteq p
    PROVE  Bounded(q)
  <1>1. IsFiniteSet(q) /\ Cardinality(q) <= Cardinality(p)
    BY FS_Subset DEF Bounded
  <1>2. Cardinality(q) \in Nat
    BY <1>1, FS_CardinalityType
  <1> QED
    BY <1>1, <1>2, PoolAssumption DEF Bounded

(* One more entry is at most one more.                                     *)
LEMMA OneMore ==
    ASSUME NEW p, Bounded(p), NEW tx
    PROVE  /\ IsFiniteSet(p \cup {tx}) /\ Cardinality(p \cup {tx}) \in Nat
           /\ Cardinality(p \cup {tx}) <= Cardinality(p) + 1
           /\ Cardinality(p) < MaxEntries => Bounded(p \cup {tx})
  <1>1. IsFiniteSet(p \cup {tx})
        /\ Cardinality(p \cup {tx}) \in {Cardinality(p), Cardinality(p) + 1}
    <2>1. CASE tx \in p
      <3>1. p \cup {tx} = p
        BY <2>1
      <3> QED
        BY <3>1 DEF Bounded
    <2>2. CASE tx \notin p
      BY <2>2, FS_AddElement DEF Bounded
    <2> QED
      BY <2>1, <2>2
  <1> QED
    BY <1>1, PoolAssumption DEF Bounded

(* Only room for an entry admits it (stn_pending_insert).                  *)
LEMMA StoredFits ==
    ASSUME NEW p, Bounded(p), NEW tx
    PROVE  /\ Stored(p, tx) = "ACCEPTED" => Cardinality(p) < MaxEntries
           /\ Stored(p, tx) = "DUPLICATE" => tx \in p
  <1>1. Cardinality(p) < MaxEntries <=> ~(Cardinality(p) >= MaxEntries)
    BY PoolAssumption DEF Bounded
  <1> QED
    BY <1>1 DEF Stored

(* Every way in goes through the room check                                *)
(* (stn_pending_admit_transaction and the arms of stn_share_pending.c).    *)
LEMMA AdmissionFits ==
    ASSUME NEW p, Bounded(p), NEW v, NEW tx \in Submitted, Admission(p, v, tx) = "ACCEPTED"
    PROVE  Cardinality(p) < MaxEntries
  <1> DEFINE Fits(a) == a = "ACCEPTED" => Cardinality(p) < MaxEntries
  <1>1. Fits(Stored(p, tx))
    BY StoredFits
  <1>2. Fits(AdmitShare(p, v, tx)) /\ Fits(AdmitReward(p, v, tx))
    BY <1>1 DEF AdmitShare, AdmitReward
  <1>3. Fits(AdmitBlockIssuance(p, v, tx)) /\ Fits(AdmitShareIssuance(p, v, tx))
    BY <1>1 DEF AdmitBlockIssuance, AdmitShareIssuance
  <1>4. Fits(AdmitDestination(p, v, tx)) /\ Fits(AdmitTransfer(p, v, tx))
    BY <1>1 DEF AdmitDestination, AdmitTransfer
  <1>5. Fits(AdmitPublication(p, v, tx))
    BY <1>1 DEF AdmitPublication
  <1>6. \/ tx.type \in {"SHARE", "REWARD", "DESTINATION", "TRANSFER", "PUBLICATION"}
        \/ IsBlockIssuance(tx) \/ IsShareIssuance(tx) \/ Statement(tx)
    <2>1. \/ tx \in ShareRecords \/ tx \in RewardRecords \/ tx \in DestinationRecords
          \/ tx \in IssuanceRecords \/ tx \in TransferRecords \/ tx \in LifecycleRecords
      BY MiningAssumption DEF Transactions
    <2>2. tx \in LifecycleRecords => Statement(tx) \/ tx.type = "PUBLICATION"
      BY DEF LifecycleRecords, GrantRecords, RevocationRecords, RotationRecords,
             PublicationRecords, Statement
    <2>3. tx \in IssuanceRecords => IsBlockIssuance(tx) \/ IsShareIssuance(tx)
      BY DEF IssuanceRecords, ShareRecords, RewardRecords, IsBlockIssuance, IsShareIssuance
    <2> QED
      BY <2>1, <2>2, <2>3 DEF ShareRecords, RewardRecords, DestinationRecords, TransferRecords
  <1>7. Fits(Admission(p, v, tx))
    <2> HIDE DEF Fits
    <2> QED
      BY <1>1, <1>2, <1>3, <1>4, <1>5, <1>6
         DEF Admission, IsBlockIssuance, IsShareIssuance, Statement
  <1> QED
    BY <1>7

(* A handler that leaves a pool of entries that were there or were         *)
(* submitted keeps everything.                                             *)
LEMMA KeepsOld ==
    ASSUME NEW s, NEW t, Whole(t), t.pool \subseteq s.pool \cup Submitted
    PROVE  Keeps(s, t)
  <1>1. \A type : Came(s, t, type) = {}
    BY DEF Came
  <1> QED
    BY <1>1 DEF Keeps

(* Pruning what was accepted (stn_mining_handle, stn_pending_prune).       *)
LEMMA MaintainedWhole ==
    ASSUME NEW s, Whole(s)
    PROVE  /\ Whole(Maintained(s)) /\ Maintained(s).pool \subseteq s.pool
           /\ Maintained(s).view = s.view
  <1>1. /\ Maintained(s).pool = Pruned(s.pool, s.view) /\ Maintained(s).view = s.view
        /\ Maintained(s) = [view |-> Maintained(s).view, pool |-> Maintained(s).pool,
                            work |-> Maintained(s).work]
    BY DEF Whole, Maintained
  <1>2. Pruned(s.pool, s.view) \subseteq s.pool
    BY DEF Pruned
  <1> QED
    BY <1>1, <1>2, BoundedSubset DEF Whole

(* Submitting a transaction adds that transaction or nothing               *)
(* (stn_mining_handle).                                                    *)
LEMMA EnteringKeeps ==
    ASSUME NEW s, Whole(s), NEW tx \in Submitted, NEW a,
           a = "ACCEPTED" => Cardinality(s.pool) < MaxEntries
    PROVE  LET t == [s EXCEPT !.pool = With(@, tx, a)]
           IN Whole(t) /\ t.pool \subseteq s.pool \cup Submitted
  <1> DEFINE t == [s EXCEPT !.pool = With(@, tx, a)]
  <1>1. t = [view |-> t.view, pool |-> t.pool, work |-> t.work] /\ t.pool = With(s.pool, tx, a)
    BY DEF Whole
  <1>2. Bounded(With(s.pool, tx, a)) /\ With(s.pool, tx, a) \subseteq s.pool \cup Submitted
    BY OneMore DEF With, Whole
  <1> QED
    BY <1>1, <1>2 DEF Whole

(* A submitted transaction meets the room check of its kind                *)
(* (stn_mining_handle, stn_pending_admit_transaction).                     *)
LEMMA TransactionsKeep ==
    ASSUME NEW s, Whole(s), NEW tx \in Submitted
    PROVE  Keeps(s, SubmitTransaction(s, tx).state)
  <1>1. Admission(s.pool, s.view, tx) = "ACCEPTED" => Cardinality(s.pool) < MaxEntries
    BY AdmissionFits DEF Whole
  <1> QED
    BY <1>1, EnteringKeeps, KeepsOld DEF SubmitTransaction, Reply

(* A submitted publication meets the same room check, after pruning        *)
(* (intelligence submission in stn_mining_handle).                         *)
LEMMA IntelligenceKeeps ==
    ASSUME NEW s, Whole(s), NEW tx \in Submitted
    PROVE  Keeps(s, SubmitIntelligence(s, tx).state)
  <1> DEFINE m == Maintained(s)
             a == AdmitPublication(m.pool, m.view, tx)
             t == [m EXCEPT !.pool = With(@, tx, a)]
  <1>1. Whole(m) /\ m.pool \subseteq s.pool
    BY MaintainedWhole
  <1>2. a = "ACCEPTED" => Cardinality(m.pool) < MaxEntries
    <2>1. Bounded(m.pool)
      BY <1>1 DEF Whole
    <2> QED
      BY <2>1, StoredFits DEF AdmitPublication
  <1>3. SubmitIntelligence(s, tx).state = t
    BY DEF SubmitIntelligence, Reply
  <1> HIDE DEF m, a
  <1>4. Whole(t) /\ t.pool \subseteq m.pool \cup Submitted
    BY <1>1, <1>2, EnteringKeeps
  <1> HIDE DEF t
  <1> QED
    BY <1>1, <1>3, <1>4, KeepsOld

(* A share and its issuance enter together, and leave room for the pair of *)
(* the next block (share submission in stn_mining_handle).                 *)
LEMMA SharesKeep ==
    ASSUME NEW s, Whole(s), NEW tx
    PROVE  Keeps(s, SubmitShare(s, tx).state)
  <1> DEFINE m == Maintained(s)
             wallet == CHOOSE w \in WalletsFor(m, tx.miner) : TRUE
             issuance == IssuanceFor(tx, wallet)
             t == [m EXCEPT !.pool = @ \cup {tx, issuance}]
  <1>1. Whole(m) /\ m.pool \subseteq s.pool
    BY MaintainedWhole
  <1>2. \/ SubmitShare(s, tx).state = m
        \/ SubmitShare(s, tx).state = t /\ AdmitShare(m.pool, m.view, tx) = "ACCEPTED"
    BY DEF SubmitShare, Reply
  <1>3. issuance.type = "ISSUANCE" /\ issuance.evidence = tx
    BY DEF IssuanceFor
  <1> HIDE DEF m, issuance
  <1>4. CASE SubmitShare(s, tx).state = m
    BY <1>1, <1>4, KeepsOld
  <1>5. CASE SubmitShare(s, tx).state = t /\ AdmitShare(m.pool, m.view, tx) = "ACCEPTED"
    <2>1. Bounded(m.pool) /\ Cardinality(m.pool) <= MaxEntries - 4
      BY <1>1, <1>5 DEF Whole, AdmitShare, ShareHasRoom
    <2>2. t = [view |-> t.view, pool |-> t.pool, work |-> t.work]
          /\ t.pool = (m.pool \cup {tx}) \cup {issuance}
      BY <1>1 DEF Whole
    <2>3. Cardinality(m.pool) < MaxEntries /\ Cardinality(m.pool) + 1 < MaxEntries
      BY <2>1, PoolAssumption DEF Bounded
    <2>4. /\ Bounded(m.pool \cup {tx})
          /\ Cardinality(m.pool \cup {tx}) <= Cardinality(m.pool) + 1
      BY <2>1, <2>3, OneMore
    <2>5. Cardinality(m.pool \cup {tx}) < MaxEntries
      BY <2>1, <2>3, <2>4, PoolAssumption DEF Bounded
    <2>6. /\ Bounded(t.pool)
          /\ Cardinality(t.pool) <= Cardinality(m.pool \cup {tx}) + 1
      BY <2>2, <2>4, <2>5, OneMore
    <2>7. Cardinality(t.pool) <= MaxEntries - 2
      BY <2>1, <2>4, <2>6, PoolAssumption DEF Bounded
    <2> HIDE DEF t
    <2>8. \A u \in Came(s, t, "REWARD") \cup Came(s, t, "SHARE") : IssuedIn(t.pool, u)
      <3>1. ASSUME NEW u \in Came(s, t, "REWARD") \cup Came(s, t, "SHARE")
            PROVE  u = tx
        <4>1. u \in t.pool /\ u \notin s.pool /\ u.type # "ISSUANCE"
          BY <3>1 DEF Came
        <4> QED
          BY <1>1, <1>3, <2>2, <4>1
      <3>2. IssuedIn(t.pool, tx)
        BY <1>3, <2>2 DEF IssuedIn
      <3> QED
        BY <3>1, <3>2
    <2>9. Whole(t)
      BY <2>2, <2>6 DEF Whole
    <2> QED
      BY <1>5, <2>7, <2>8, <2>9 DEF Keeps
  <1> QED
    BY <1>2, <1>4, <1>5

(* The pair of a solved block enters whole (submitted work in              *)
(* stn_mining_handle).                                                     *)
LEMMA RewardsKeep ==
    ASSUME NEW s, Whole(s), NEW miner
    PROVE  Keeps(s, QueueReward(s, miner).state)
  <1> DEFINE evidence == RewardFor(s, miner)
             issuance == IssuanceFor(evidence, s.view.economy.destination[miner])
             first == AdmitReward(s.pool, s.view, evidence)
             p == With(s.pool, evidence, first)
             second == AdmitBlockIssuance(p, s.view, issuance)
             q == With(p, issuance, second)
             t == [s EXCEPT !.pool = q]
  <1>1. \/ QueueReward(s, miner).state = s
        \/ QueueReward(s, miner).state = t /\ second \in {"ACCEPTED", "DUPLICATE"}
    BY DEF QueueReward, Reply
  <1>2. /\ issuance.type = "ISSUANCE" /\ issuance.evidence = evidence
        /\ evidence.type = "REWARD"
    BY DEF IssuanceFor, RewardFor
  <1> HIDE DEF evidence, issuance
  <1>3. Bounded(p) /\ p \subseteq s.pool \cup {evidence}
    <2>1. first = "ACCEPTED" => Cardinality(s.pool) < MaxEntries
      BY StoredFits DEF AdmitReward, Whole
    <2> QED
      BY <2>1, OneMore DEF With, Whole
  <1> HIDE DEF p
  <1>4. /\ second = "ACCEPTED" => Cardinality(p) < MaxEntries
        /\ second = "DUPLICATE" => issuance \in p
    BY <1>3, StoredFits DEF AdmitBlockIssuance
  <1> HIDE DEF second
  <1>5. Bounded(q) /\ q \subseteq p \cup {issuance}
    BY <1>3, <1>4, OneMore DEF With
  <1>6. CASE QueueReward(s, miner).state = s
    BY <1>6, KeepsOld
  <1>7. CASE QueueReward(s, miner).state = t /\ second \in {"ACCEPTED", "DUPLICATE"}
    <2>1. issuance \in q
      BY <1>4, <1>7 DEF With
    <2> HIDE DEF q
    <2>2. t = [view |-> t.view, pool |-> t.pool, work |-> t.work] /\ t.pool = q
      BY DEF Whole
    <2> HIDE DEF t
    <2>3. ASSUME NEW u, u \in Came(s, t, "REWARD") \/ u \in Came(s, t, "SHARE")
          PROVE  u = evidence /\ u.type = "REWARD"
      BY <1>2, <1>3, <1>5, <2>2, <2>3 DEF Came
    <2>4. IssuedIn(t.pool, evidence)
      BY <1>2, <2>1, <2>2 DEF IssuedIn
    <2>5. Came(s, t, "SHARE") = {}
      BY <2>3 DEF Came
    <2>6. Whole(t)
      BY <1>5, <2>2 DEF Whole
    <2> QED
      BY <1>7, <2>3, <2>4, <2>5, <2>6 DEF Keeps
  <1> QED
    BY <1>1, <1>6, <1>7

(* What is kept after some entries were dropped is kept.                   *)
LEMMA KeepsAfterDropping ==
    ASSUME NEW s, NEW m, NEW t, m.pool \subseteq s.pool, Keeps(m, t)
    PROVE  Keeps(s, t)
  <1>1. \A type : Came(s, t, type) \subseteq Came(m, t, type)
    BY DEF Came
  <1> QED
    BY <1>1 DEF Keeps

(* An accepted block takes its entries out, a refused one nothing; its     *)
(* reward pair is queued on what is left (block and work submission in     *)
(* stn_mining_handle).                                                     *)
LEMMA AdvancedWhole ==
    ASSUME NEW s, Whole(s), NEW b
    PROVE  Whole(Advanced(s, b)) /\ Advanced(s, b).pool \subseteq s.pool
  <1>1. /\ Advanced(s, b).pool = s.pool \ Inclusions(s.pool, ToSet(b.txs))
        /\ Advanced(s, b) = [view |-> Advanced(s, b).view, pool |-> Advanced(s, b).pool,
                             work |-> Advanced(s, b).work]
    BY DEF Advanced
  <1>2. Bounded(s.pool \ Inclusions(s.pool, ToSet(b.txs)))
    BY BoundedSubset DEF Whole
  <1> QED
    BY <1>1, <1>2 DEF Whole

(* A submitted block (block submission in stn_mining_handle).              *)
LEMMA BlocksKeep ==
    ASSUME NEW s, Whole(s), NEW b
    PROVE  Keeps(s, SubmitBlock(s, b).state)
  <1>1. SubmitBlock(s, b).state \in {s, Advanced(s, b)}
    BY DEF SubmitBlock, Reply
  <1> QED
    BY <1>1, AdvancedWhole, KeepsOld

(* Submitted work: the block, then its reward pair                        *)
(* (stn_mining_submit_work_local).                                         *)
LEMMA WorkKeeps ==
    ASSUME NEW s, Whole(s), NEW b, NEW miner
    PROVE  Keeps(s, SubmitWork(s, b, miner).state)
  <1> DEFINE m == Advanced(s, b)
  <1>1. SubmitWork(s, b, miner).state \in {s, QueueReward(m, miner).state}
    BY DEF SubmitWork, Reply
  <1>2. Whole(m) /\ m.pool \subseteq s.pool
    BY AdvancedWhole
  <1> HIDE DEF m
  <1>3. Keeps(s, QueueReward(m, miner).state)
    BY <1>2, RewardsKeep, KeepsAfterDropping
  <1>4. Keeps(s, s)
    BY KeepsOld
  <1> QED
    BY <1>1, <1>3, <1>4

(* A template leaves the pool alone (template_build).                      *)
LEMMA TemplatesKeep ==
    ASSUME NEW s, Whole(s), NEW now
    PROVE  LET t == Template(s, now).state IN Whole(t) /\ t.pool = s.pool
  BY DEF Template, Reply, Whole

(* A step of the internal miner is a template and what it found            *)
(* (stn_internal_miner_worker_step).                                       *)
LEMMA MinerKeeps ==
    ASSUME NEW s, Whole(s), NEW now, NEW miner, NEW nonce, NEW found
    PROVE  Keeps(s, MinerStep(s, now, miner, nonce, found).state)
  <1> DEFINE r == Template(s, now)
             share == MinedShare(s, miner, nonce)
  <1>1. /\ Whole(r.state) /\ r.state.pool = s.pool
    BY TemplatesKeep
  <1>2. MinerStep(s, now, miner, nonce, found).state
           \in {r.state, SubmitShare(r.state, share).state,
                SubmitWork(r.state, r.state.work, miner).state}
    BY DEF MinerStep
  <1> HIDE DEF r, share
  <1>3. Keeps(s, r.state)
    BY <1>1, KeepsOld
  <1>4. Keeps(s, SubmitShare(r.state, share).state)
    BY <1>1, SharesKeep, KeepsAfterDropping
  <1>5. Keeps(s, SubmitWork(r.state, r.state.work, miner).state)
    BY <1>1, WorkKeeps, KeepsAfterDropping
  <1> QED
    BY <1>2, <1>3, <1>4, <1>5

(* Submitted history that extends the accepted one only takes entries out. *)
(* One that replaces blocks renames entries, never more than there were    *)
(* (submitted history in stn_mining_handle).                               *)
LEMMA HistoriesKeep ==
    ASSUME NEW s, Whole(s), NEW h
    PROVE  LET t == SubmitHistory(s, h).state
           IN /\ Whole(t)
              /\ IsPrefix(s.view.history, t.view.history) => Keeps(s, t)
  <1> DEFINE v == Derived(h)
             k == CommonPrefix(h, s.view.history)
             renamed == {Detached(tx, k) : tx \in s.pool}
             p == IF IsPrefix(s.view.history, v.history) THEN s.pool ELSE renamed
             t == [view |-> v, pool |-> p \ Inclusions(p, AcceptedTxs(v)), work |-> NoWork]
  <1>1. SubmitHistory(s, h).state \in {s, t}
    BY DEF SubmitHistory, Reply
  <1>2. Bounded(renamed)
    <2> DEFINE f == [tx \in s.pool |-> Detached(tx, k)]
    <2>1. f \in Surjection(s.pool, renamed)
      BY DEF Surjection
    <2>2. IsFiniteSet(renamed) /\ Cardinality(renamed) <= Cardinality(s.pool)
      BY <2>1, FS_Surjection DEF Whole, Bounded
    <2> QED
      BY <2>2, FS_CardinalityType, PoolAssumption DEF Whole, Bounded
  <1> HIDE DEF renamed, v
  <1>3. Bounded(p)
    BY <1>2 DEF Whole
  <1>4. IsPrefix(s.view.history, v.history) => p = s.pool
    OBVIOUS
  <1> HIDE DEF p
  <1>5. Whole(t)
    BY <1>3, BoundedSubset DEF Whole
  <1>6. IsPrefix(s.view.history, t.view.history) => Keeps(s, t)
    <2>1. IsPrefix(s.view.history, t.view.history) => t.pool \subseteq s.pool
      BY <1>4
    <2> HIDE DEF t
    <2> QED
      BY <1>5, <2>1, KeepsOld
  <1>7. Keeps(s, s)
    BY KeepsOld
  <1> HIDE DEF t
  <1> QED
    BY <1>1, <1>5, <1>6, <1>7

-----------------------------------------------------------------------------
(* Every request keeps the pool, and nothing enters it unpaired or without *)
(* room unless accepted blocks are replaced (stn_mining_handle).           *)
LEMMA MiningNext ==
    Whole(service) /\ Next => Whole(service') /\ (~Reorganised => Keeps(service, service'))
  <1> SUFFICES ASSUME Whole(service), Next
               PROVE  Whole(service') /\ (~Reorganised => Keeps(service, service'))
    OBVIOUS
  <1>1. CASE \E tx \in Submitted : Handle(SubmitTransaction(service, tx))
    BY <1>1, TransactionsKeep DEF Handle, Keeps
  <1>2. CASE \E tx \in {u \in Submitted : u.type = "PUBLICATION"} :
                 Handle(SubmitIntelligence(service, tx))
    BY <1>2, IntelligenceKeeps DEF Handle, Keeps
  <1>3. CASE Handle(PendingStatus(service))
    <2>1. service' = Maintained(service)
      BY <1>3 DEF Handle, PendingStatus, Reply
    <2> QED
      BY <2>1, MaintainedWhole, KeepsOld
  <1>4. CASE \E tx \in Solutions : Handle(SubmitShare(service, tx))
    BY <1>4, SharesKeep DEF Handle, Keeps
  <1>5. CASE \E now \in Times : Handle(Template(service, now))
    BY <1>5, TemplatesKeep, KeepsOld DEF Handle
  <1>6. CASE \E b \in Offers : Growing /\ Handle(SubmitBlock(service, b))
    BY <1>6, BlocksKeep DEF Handle, Keeps
  <1>7. CASE \E b \in Offers \cup {service.work}, m \in Miners :
                 Growing /\ b # NoWork /\ Handle(SubmitWork(service, b, m))
    <2>1. PICK b \in Offers \cup {service.work}, m \in Miners :
              service' = SubmitWork(service, b, m).state
      BY <1>7 DEF Handle
    <2>2. Keeps(service, service')
      BY <2>1, WorkKeeps
    <2> QED
      BY <2>2 DEF Keeps
  <1>8. CASE \E h \in Branches : Handle(SubmitHistory(service, h))
    BY <1>8, HistoriesKeep DEF Handle, Reorganised, view
  <1>9. CASE \E now \in Times, m \in Miners, n \in Nonces, found \in {"IDLE", "SHARE", "BLOCK"} :
                 Growing /\ Handle(MinerStep(service, now, m, n, found))
    <2>1. PICK now \in Times, m \in Miners, n \in Nonces, found \in {"IDLE", "SHARE", "BLOCK"} :
              service' = MinerStep(service, now, m, n, found).state
      BY <1>9 DEF Handle
    <2>2. Keeps(service, service')
      BY <2>1, MinerKeeps
    <2> QED
      BY <2>2 DEF Keeps
  <1> QED
    BY <1>1, <1>2, <1>3, <1>4, <1>5, <1>6, <1>7, <1>8, <1>9 DEF Next

(* The pool starts empty (stn_pending_init).                               *)
LEMMA MiningInit == Init => Whole(service)
  <1>1. IsFiniteSet({}) /\ Cardinality({}) = 0
    BY FS_EmptySet
  <1> QED
    BY <1>1, PoolAssumption DEF Init, NoState, Whole, Bounded

(* What a step keeps is what the two properties say of it.                 *)
LEMMA MiningStep ==
    Whole(service) /\ [Next]_service =>
        /\ Whole(service')
        /\ service' # service =>
              /\ Cardinality(pool') <= MaxEntries
              /\ Entered("SHARE") # {} => Cardinality(pool') <= MaxEntries - 2
              /\ \A tx \in Entered("REWARD") \cup Entered("SHARE") : IssuedIn(pool', tx)
  <1> SUFFICES ASSUME Whole(service), [Next]_service
               PROVE  /\ Whole(service')
                      /\ service' # service =>
                            /\ Cardinality(pool') <= MaxEntries
                            /\ Entered("SHARE") # {} => Cardinality(pool') <= MaxEntries - 2
                            /\ \A tx \in Entered("REWARD") \cup Entered("SHARE") :
                                  IssuedIn(pool', tx)
    OBVIOUS
  <1>1. CASE service' = service
    BY <1>1
  <1>2. CASE Next
    <2>1. Whole(service') /\ (~Reorganised => Keeps(service, service'))
      BY <1>2, MiningNext
    <2>2. \A type : Entered(type) # {} => ~Reorganised
      BY DEF Entered
    <2>3. \A type : Entered(type) \subseteq Came(service, service', type)
      BY DEF Entered, Came, pool
    <2> QED
      BY <2>1, <2>2, <2>3 DEF Keeps, Whole, Bounded, pool
  <1> QED
    BY <1>1, <1>2

-----------------------------------------------------------------------------
(* The pool and the template against the accepted chain.                   *)

(* Entries enumerated before tx.                                           *)
Below(S, tx) == {u \in S : IdOf[u] < IdOf[tx]}

(* Identifiers are distinct numbers (stn_pending.c keeps entries in their  *)
(* order).                                                                 *)
LEMMA IdsAre ==
    /\ \A u \in DOMAIN IdOf : IdOf[u] \in Nat
    /\ \A u, w \in DOMAIN IdOf : IdOf[u] = IdOf[w] => u = w
  BY PoolAssumption DEF IsInjective

(* A finite set of entries has an n-th one: enumeration by rising          *)
(* identifier reaches every entry (stn_pending_enumerate).                 *)
LEMMA Ranked ==
    ASSUME NEW S, S \subseteq DOMAIN IdOf, IsFiniteSet(S), NEW n \in 1..Cardinality(S)
    PROVE  \E tx \in S : Cardinality(Below(S, tx)) = n - 1
  <1> DEFINE Good(T) == \A j \in 1..Cardinality(T) : \E tx \in T : Cardinality(Below(T, tx)) = j - 1
             G == {m \in Nat : \A T \in SUBSET (DOMAIN IdOf) :
                      IsFiniteSet(T) /\ Cardinality(T) = m => Good(T)}
  <1>1. 0 \in G
    OBVIOUS
  <1>2. ASSUME NEW m \in Nat, m \in G
        PROVE  m + 1 \in G
    <2> SUFFICES ASSUME NEW T \in SUBSET (DOMAIN IdOf), IsFiniteSet(T), Cardinality(T) = m + 1,
                        NEW j \in 1..(m + 1)
                 PROVE  \E tx \in T : Cardinality(Below(T, tx)) = j - 1
      OBVIOUS
    <2>1. T # {}
      BY FS_EmptySet
    <2>2. PICK x \in T : \A u \in T : IdOf[x] <= IdOf[u]
      <3> DEFINE I == {IdOf[u] : u \in T}
      <3>1. I \in SUBSET Nat /\ I # {}
        BY <2>1, IdsAre
      <3> HIDE DEF I
      <3>2. PICK a \in I : \A c \in I : a <= c
        BY <3>1, LeastNatural
      <3> QED
        BY <3>2 DEF I
    <2>3. \A u \in T : u # x => IdOf[x] < IdOf[u]
      BY <2>2, IdsAre
    <2>4. Below(T, x) = {}
      BY <2>2, IdsAre DEF Below
    <2>5. CASE j = 1
      <3>1. Cardinality(Below(T, x)) = 0
        BY <2>4, FS_EmptySet
      <3> QED
        BY <2>5, <3>1
    <2>6. CASE j # 1
      <3> DEFINE R == T \ {x}
      <3>1. IsFiniteSet(R) /\ Cardinality(R) = m /\ R \in SUBSET (DOMAIN IdOf)
        <4>1. IsFiniteSet(R) /\ Cardinality(R) = Cardinality(T) - 1
          BY FS_RemoveElement
        <4> QED
          BY <4>1
      <3>2. j - 1 \in 1..m
        BY <2>6
      <3> HIDE DEF R
      <3>3. PICK tx \in R : Cardinality(Below(R, tx)) = (j - 1) - 1
        BY <1>2, <3>1, <3>2
      <3>4. /\ Below(T, tx) = Below(R, tx) \cup {x} /\ x \notin Below(R, tx)
        BY <2>3, <3>3 DEF Below, R
      <3>5. IsFiniteSet(Below(R, tx))
        BY <3>1, FS_Subset DEF Below
      <3>6. Cardinality(Below(T, tx)) = Cardinality(Below(R, tx)) + 1
        BY <3>4, <3>5, FS_AddElement
      <3> QED
        BY <3>3, <3>6 DEF R
    <2> QED
      BY <2>5, <2>6
  <1> HIDE DEF G
  <1>3. Cardinality(S) \in G
    BY <1>1, <1>2, NaturalInduction, FS_CardinalityType
  <1> QED
    BY <1>3 DEF G

(* It enumerates entries of the set, each once.                            *)
LEMMA NthIs ==
    ASSUME NEW S, S \subseteq DOMAIN IdOf, IsFiniteSet(S)
    PROVE  /\ \A n \in 1..Cardinality(S) : Nth(S, n) \in S
           /\ \A n, m \in 1..Cardinality(S) : Nth(S, n) = Nth(S, m) => n = m
  <1>1. ASSUME NEW n \in 1..Cardinality(S)
        PROVE  Nth(S, n) \in S /\ Cardinality(Below(S, Nth(S, n))) = n - 1
    <2>1. \E tx \in S : Cardinality({u \in S : IdOf[u] < IdOf[tx]}) = n - 1
      BY Ranked DEF Below
    <2> QED
      BY <2>1 DEF Nth, Below
  <1>2. Cardinality(S) \in Nat
    BY FS_CardinalityType
  <1> QED
    BY <1>1, <1>2

(* What an issuance may pay, and transactions by their kind.               *)
Evidences == ShareRecords \cup RewardRecords
Shape(tx) ==
    /\ tx.type = "SHARE" => tx \in ShareRecords
    /\ tx.type = "REWARD" => tx \in RewardRecords
    /\ tx.type = "ISSUANCE" =>
          /\ tx = [type |-> "ISSUANCE", evidence |-> tx.evidence, miner |-> tx.miner,
                   wallet |-> tx.wallet]
          /\ tx.evidence \in Evidences
Shaped(p) == \A tx \in p : Shape(tx)

(* The type of a record tells its kind (stn_share_decode,                  *)
(* stn_block_compensation_decode).                                         *)
LEMMA EvidenceTypes ==
    \A e \in Evidences : /\ e.type = "SHARE" => e \in ShareRecords
                         /\ e.type = "REWARD" => e \in RewardRecords
                         /\ e.type \in {"SHARE", "REWARD"}
  BY DEF Evidences, ShareRecords, RewardRecords

(* A transaction that decoded has the shape of its kind (stn_mining_handle *)
(* decodes before it admits).                                              *)
LEMMA SubmittedShape == \A tx \in Transactions : Shape(tx)
  <1> SUFFICES ASSUME NEW tx \in Transactions PROVE Shape(tx)
    OBVIOUS
  <1>1. CASE tx \in ShareRecords
    BY <1>1 DEF Shape, ShareRecords
  <1>2. CASE tx \in RewardRecords
    BY <1>2 DEF Shape, RewardRecords
  <1>3. CASE tx \in DestinationRecords
    BY <1>3 DEF Shape, DestinationRecords
  <1>4. CASE tx \in IssuanceRecords
    BY <1>4 DEF Shape, IssuanceRecords, Evidences
  <1>5. CASE tx \in TransferRecords
    BY <1>5 DEF Shape, TransferRecords
  <1>6. CASE tx \in LifecycleRecords
    BY <1>6 DEF Shape, LifecycleRecords, GrantRecords, RevocationRecords, RotationRecords,
                PublicationRecords
  <1> QED
    BY <1>1, <1>2, <1>3, <1>4, <1>5, <1>6 DEF Transactions

(* So has an issuance the service builds itself (stn_mining.c, issuance    *)
(* for a share or a reward).                                               *)
LEMMA IssuanceShape ==
    ASSUME NEW e \in Evidences, NEW wallet
    PROVE  Shape(IssuanceFor(e, wallet))
  BY DEF Shape, IssuanceFor

(* The statement of TemplatePaysOnce, about any body over any view.        *)
PaysOnce(txs, v) ==
    \A i \in DOMAIN txs : txs[i].type = "ISSUANCE" =>
       /\ \A u \in AcceptedTxs(v) :
             u.type = "ISSUANCE" => u.evidence # txs[i].evidence
       /\ \A j \in DOMAIN txs :
             (txs[j].type = "ISSUANCE" /\ txs[j].evidence = txs[i].evidence) => i = j

(* The first part of a body holds selectable entries of the pool, each     *)
(* once (the selection in stn_pending_assemble).                           *)
LEMMA GenericIs ==
    ASSUME NEW p, IsFiniteSet(p), Shaped(p), NEW v
    PROVE  /\ Len(Generic(p, v)) \in Nat /\ DOMAIN Generic(p, v) = 1..Len(Generic(p, v))
           /\ IsSeq(Generic(p, v)) /\ Len(Generic(p, v)) <= MaxBody
           /\ \A i \in DOMAIN Generic(p, v) :
                 /\ Generic(p, v)[i] \in p
                 /\ Selectable(v, Generic(p, v)[i])
                 /\ \A j \in DOMAIN Generic(p, v) :
                        Generic(p, v)[i] = Generic(p, v)[j] => i = j
  <1> DEFINE C == {tx \in Enumerated(p) : Selectable(v, tx)}
             k == Least(Cardinality(C), MaxBody)
             g == Generic(p, v)
  <1>1. /\ C \subseteq DOMAIN IdOf /\ C \subseteq p /\ IsFiniteSet(C)
        /\ \A tx \in C : Selectable(v, tx)
    <2>1. C \subseteq p
      BY DEF Enumerated
    <2> QED
      BY <2>1, FS_Subset DEF Enumerated
  <1>2. g = [n \in 1..k |-> Nth(C, n)]
    BY DEF Generic
  <1> HIDE DEF C, g
  <1>3. Cardinality(C) \in Nat
    BY <1>1, FS_CardinalityType
  <1>4. k \in Nat /\ k <= Cardinality(C) /\ k <= MaxBody
    BY <1>3, PoolAssumption DEF Least
  <1> HIDE DEF k
  <1>5. \A i \in 1..k : i \in 1..Cardinality(C)
    BY <1>3, <1>4
  <1>6. /\ \A n \in 1..k : Nth(C, n) \in C
        /\ \A n, m \in 1..k : Nth(C, n) = Nth(C, m) => n = m
    BY <1>1, <1>5, NthIs
  <1>7. g \in Seq(C) /\ Len(g) = k
    BY <1>2, <1>4, <1>6
  <1> QED
    BY <1>1, <1>2, <1>4, <1>6, <1>7 DEF g, IsSeq

(* Positions of pairs: two to a pair, and the second of each pair once.    *)
LEMMA Halves ==
    ASSUME NEW n \in Nat, NEW k \in 1..(2 * n)
    PROVE  /\ (k + 1) \div 2 \in 1..n /\ k % 2 \in {0, 1}
           /\ \A j \in 1..(2 * n) :
                 (k % 2 = 0 /\ j % 2 = 0 /\ (k + 1) \div 2 = (j + 1) \div 2) => k = j
  BY SMTT(30)

(* A whole body: the first part, then pairs of evidence and an issuance    *)
(* bound to it, one pair for each evidence (the candidate in               *)
(* stn_block_compensation_candidate.c).                                    *)
LEMMA AssembledIs ==
    ASSUME NEW p, IsFiniteSet(p), Shaped(p), NEW v
    PROVE  LET g == Generic(p, v)
               a == Assembled(p, v)
               E(k) == Nth(Payable(p, v), (k + 1) \div 2)
           IN  /\ IsSeq(a)
               /\ \E n \in Nat :
                     /\ DOMAIN a = 1..(Len(g) + 2 * n)
                     /\ \A i \in 1..Len(g) : a[i] = g[i]
                     /\ \A k \in 1..(2 * n) :
                           /\ E(k) \in Payable(p, v)
                           /\ k % 2 # 0 => a[Len(g) + k] = E(k)
                           /\ k % 2 = 0 => a[Len(g) + k] \in IssuancesOf(p, v, E(k))
                     /\ \A k, j \in 1..(2 * n) :
                           (k % 2 = 0 /\ j % 2 = 0 /\ E(k) = E(j)) => k = j
  <1> DEFINE g == Generic(p, v)
             a == Assembled(p, v)
             P == Payable(p, v)
             E(k) == Nth(P, (k + 1) \div 2)
             n == Least(Cardinality(P), (MaxBody - Len(g)) \div 2)
             b == [k \in 1..(2 * n) |-> PairOf(p, v, E(k))[2 - (k % 2)]]
  <1>1. /\ Len(g) \in Nat /\ DOMAIN g = 1..Len(g) /\ IsSeq(g) /\ Len(g) <= MaxBody
    BY GenericIs
  <1>2. a = g \o b
    BY DEF Assembled
  <1>3. P \subseteq DOMAIN IdOf /\ IsFiniteSet(P)
        /\ \A tx \in P : IssuancesOf(p, v, tx) # {}
    <2>1. P \subseteq p
      BY DEF Payable, Enumerated
    <2> QED
      BY <2>1, FS_Subset DEF Payable, Enumerated
  <1> HIDE DEF g, a, P
  <1>4. n \in Nat /\ n <= Cardinality(P) /\ Cardinality(P) \in Nat
    <2>1. Cardinality(P) \in Nat
      BY <1>3, FS_CardinalityType
    <2>2. (MaxBody - Len(g)) \div 2 \in Nat
      BY <1>1, PoolAssumption
    <2> QED
      BY <2>1, <2>2 DEF Least
  <1> HIDE DEF n
  <1>5. ASSUME NEW k \in 1..(2 * n)
        PROVE  /\ E(k) \in P /\ (k + 1) \div 2 \in 1..Cardinality(P)
               /\ k % 2 # 0 => b[k] = E(k)
               /\ k % 2 = 0 => b[k] \in IssuancesOf(p, v, E(k))
    <2>1. (k + 1) \div 2 \in 1..n /\ k % 2 \in {0, 1}
      BY <1>4, Halves
    <2>2. (k + 1) \div 2 \in 1..Cardinality(P)
      BY <1>4, <2>1
    <2>3. E(k) \in P
      BY <1>3, <2>2, NthIs
    <2> HIDE DEF E
    <2>4. b[k] = PairOf(p, v, E(k))[2 - (k % 2)]
      OBVIOUS
    <2> HIDE DEF b
    <2>5. k % 2 # 0 => b[k] = E(k)
      BY <2>1, <2>4 DEF PairOf
    <2>6. k % 2 = 0 => b[k] \in IssuancesOf(p, v, E(k))
      BY <1>3, <2>3, <2>4 DEF PairOf
    <2> QED
      BY <2>2, <2>3, <2>5, <2>6
  <1>6. \E R : b \in Seq(R) /\ Len(b) = 2 * n
    <2> DEFINE m == 2 * n
               R == {b[k] : k \in 1..m}
    <2>1. m \in Nat
      BY <1>4
    <2>2. b \in [1..m -> R]
      OBVIOUS
    <2> HIDE DEF m, R, b
    <2>3. b \in Seq(R) /\ Len(b) = m
      BY <2>1, <2>2
    <2> QED
      BY <2>3 DEF m
  <1>8. ASSUME NEW k \in 1..(2 * n), NEW j \in 1..(2 * n),
               k % 2 = 0, j % 2 = 0, E(k) = E(j)
        PROVE  k = j
    <2>1. (k + 1) \div 2 = (j + 1) \div 2
      BY <1>3, <1>5, <1>8, NthIs
    <2> QED
      BY <1>4, <1>8, <2>1, Halves
  <1> HIDE DEF b
  <1>9. /\ IsSeq(a) /\ DOMAIN a = 1..(Len(g) + 2 * n)
        /\ \A i \in 1..Len(g) : a[i] = g[i]
        /\ \A k \in 1..(2 * n) : a[Len(g) + k] = b[k]
    <2>1. PICK S : g \in Seq(S)
      BY <1>1 DEF IsSeq
    <2>2. PICK R : b \in Seq(R) /\ Len(b) = 2 * n
      BY <1>6
    <2>3. g \in Seq(S \cup R) /\ b \in Seq(S \cup R)
      BY <2>1, <2>2
    <2>4. /\ a \in Seq(S \cup R) /\ Len(a) = Len(g) + Len(b)
          /\ \A i \in 1..(Len(g) + Len(b)) : a[i] = IF i <= Len(g) THEN g[i] ELSE b[i - Len(g)]
      BY <1>2, <2>3, ConcatProperties
    <2>5. \A k \in 1..(2 * n) : /\ Len(g) + k \in 1..(Len(g) + Len(b))
                               /\ ~(Len(g) + k <= Len(g)) /\ (Len(g) + k) - Len(g) = k
      BY <1>1, <1>4, <2>2
    <2>6. \A i \in 1..Len(g) : i \in 1..(Len(g) + Len(b)) /\ i <= Len(g)
      BY <1>1, <1>4, <2>2
    <2> QED
      <3>1. IsSeq(a)
        BY <2>4 DEF IsSeq
      <3>2. DOMAIN a = 1..(Len(g) + 2 * n)
        BY <2>2, <2>4
      <3>3. \A i \in 1..Len(g) : a[i] = g[i]
        BY <2>4, <2>6
      <3>4. \A k \in 1..(2 * n) : a[Len(g) + k] = b[k]
        BY <2>4, <2>5
      <3> QED
        BY <3>1, <3>2, <3>3, <3>4
  <1>10. /\ \A k \in 1..(2 * n) :
                 /\ E(k) \in P
                 /\ k % 2 # 0 => a[Len(g) + k] = E(k)
                 /\ k % 2 = 0 => a[Len(g) + k] \in IssuancesOf(p, v, E(k))
         /\ \A k, j \in 1..(2 * n) : (k % 2 = 0 /\ j % 2 = 0 /\ E(k) = E(j)) => k = j
    <2> HIDE DEF E
    <2> QED
      BY <1>5, <1>8, <1>9
  <1> QED
    BY <1>4, <1>9, <1>10 DEF g, a, P

(* A body assembled over an accepted view pays nothing that is paid and    *)
(* nothing twice. A first-part issuance pays an accepted share, and two    *)
(* that pay the same one are the same entry because miner and wallet       *)
(* follow from it; a paired one pays evidence that is not recorded, and    *)
(* every accepted issuance for a block pays recorded evidence              *)
(* (template_build).                                                       *)
LEMMA TemplatesPay ==
    ASSUME NEW p, IsFiniteSet(p), Shaped(p), NEW v, ViewInv(v)
    PROVE  IsSeq(Assembled(p, v)) /\ PaysOnce(Assembled(p, v), v)
  <1> DEFINE g == Generic(p, v)
             a == Assembled(p, v)
             E(k) == Nth(Payable(p, v), (k + 1) \div 2)
             Old(i) == i \in 1..Len(g)
             Paired(i, k) == i = Len(g) + k /\ k % 2 = 0
  <1>1. PICK n \in Nat :
           /\ DOMAIN a = 1..(Len(g) + 2 * n)
           /\ \A i \in 1..Len(g) : a[i] = g[i]
           /\ \A k \in 1..(2 * n) :
                 /\ E(k) \in Payable(p, v)
                 /\ k % 2 # 0 => a[Len(g) + k] = E(k)
                 /\ k % 2 = 0 => a[Len(g) + k] \in IssuancesOf(p, v, E(k))
           /\ \A k, j \in 1..(2 * n) : (k % 2 = 0 /\ j % 2 = 0 /\ E(k) = E(j)) => k = j
    BY AssembledIs
  <1>2. IsSeq(a)
    BY AssembledIs
  <1>3. /\ Len(g) \in Nat /\ DOMAIN g = 1..Len(g)
        /\ \A i \in DOMAIN g : /\ g[i] \in p /\ Selectable(v, g[i])
                              /\ \A j \in DOMAIN g : g[i] = g[j] => i = j
    BY GenericIs
  <1>4. \A k \in 1..(2 * n) : /\ E(k).type = "REWARD" /\ E(k) \notin v.economy.rewards
    BY <1>1 DEF Payable, RewardEligible
  <1> HIDE DEF a, g, E
  <1>5. ASSUME NEW i \in DOMAIN a, a[i].type = "ISSUANCE"
        PROVE  \/ Old(i)
               \/ \E k \in 1..(2 * n) : Paired(i, k)
    <2>1. i \in 1..Len(g) \/ \E k \in 1..(2 * n) : i = Len(g) + k
      <3>1. i \in Nat /\ i <= Len(g) + 2 * n /\ i >= 1
        BY <1>1, <1>3
      <3>2. i > Len(g) => i - Len(g) \in 1..(2 * n) /\ i = Len(g) + (i - Len(g))
        BY <1>3, <3>1
      <3> QED
        BY <1>3, <3>1, <3>2
    <2> QED
      BY <1>1, <1>4, <1>5, <2>1
  <1>6. ASSUME NEW i \in DOMAIN a, a[i].type = "ISSUANCE", Old(i)
        PROVE  /\ a[i] = [type |-> "ISSUANCE", evidence |-> a[i].evidence,
                          miner |-> a[i].evidence.miner,
                          wallet |-> v.economy.destination[a[i].evidence.miner]]
               /\ a[i].evidence.type = "SHARE"
               /\ \A u \in AcceptedTxs(v) : u.type = "ISSUANCE" => u.evidence # a[i].evidence
    <2> DEFINE tx == a[i]
    <2>1. tx \in p /\ Selectable(v, tx)
      BY <1>1, <1>3, <1>6
    <2> HIDE DEF tx
    <2>2. /\ tx = [type |-> "ISSUANCE", evidence |-> tx.evidence, miner |-> tx.miner,
                   wallet |-> tx.wallet]
          /\ tx.evidence \in Evidences /\ tx.type = "ISSUANCE"
      BY <1>6, <2>1 DEF Shaped, Shape, tx
    <2>3. IsShareIssuance(tx)
      BY <2>1, <2>2, EvidenceTypes DEF Selectable, IsShareIssuance, IsBlockIssuance
    <2>4. ~Issued(v, tx) /\ BoundIn(v, tx, AcceptedTxs(v), "SHARE")
      BY <2>1, <2>3 DEF Selectable, ShareIssuanceEligible
    <2>5. tx.miner = tx.evidence.miner /\ v.economy.destination[tx.miner] = tx.wallet
      BY <2>4 DEF BoundIn, IssuanceBound
    <2>6. \A u \in AcceptedTxs(v) : u.type = "ISSUANCE" => u.evidence # tx.evidence
      BY <2>4 DEF Issued
    <2> QED
      BY <2>2, <2>3, <2>5, <2>6 DEF IsShareIssuance, tx
  <1>7. ASSUME NEW i \in DOMAIN a, a[i].type = "ISSUANCE", NEW k \in 1..(2 * n), Paired(i, k)
        PROVE  /\ a[i].evidence = E(k) /\ a[i].evidence.type = "REWARD"
               /\ \A u \in AcceptedTxs(v) : u.type = "ISSUANCE" => u.evidence # a[i].evidence
    <2>1. a[i] \in IssuancesOf(p, v, E(k))
      BY <1>1, <1>7
    <2>2. a[i].evidence = E(k) /\ a[i].evidence.type = "REWARD"
      BY <1>4, <2>1 DEF IssuancesOf, IssuanceBound
    <2>3. ASSUME NEW u \in AcceptedTxs(v), u.type = "ISSUANCE", u.evidence = a[i].evidence
          PROVE  FALSE
      <3>1. IsBlockIssuance(u)
        BY <2>2, <2>3 DEF IsBlockIssuance
      <3>2. u.evidence \in v.economy.rewards
        BY <3>1 DEF ViewInv, Named
      <3> QED
        BY <1>4, <2>2, <2>3, <3>2
    <2> QED
      BY <2>2, <2>3
  <1>8. ASSUME NEW i \in DOMAIN a, a[i].type = "ISSUANCE"
        PROVE  \A u \in AcceptedTxs(v) : u.type = "ISSUANCE" => u.evidence # a[i].evidence
    <2> HIDE DEF Old, Paired
    <2> QED
      BY <1>5, <1>6, <1>7, <1>8
  <1>9. ASSUME NEW i \in DOMAIN a, a[i].type = "ISSUANCE",
               NEW j \in DOMAIN a, a[j].type = "ISSUANCE", a[j].evidence = a[i].evidence
        PROVE  i = j
    <2>1. CASE Old(i) /\ Old(j)
      <3>1. a[i] = a[j]
        BY <1>6, <1>9, <2>1
      <3> QED
        BY <1>1, <1>3, <2>1, <3>1
    <2>2. CASE ~(Old(i) /\ Old(j))
      <3>1. ~Old(i) /\ ~Old(j)
        <4> HIDE DEF Old, Paired
        <4> QED
          BY <1>5, <1>6, <1>7, <1>9, <2>2
      <3>2. PICK k \in 1..(2 * n) : Paired(i, k)
        BY <1>5, <1>9, <3>1
      <3>3. PICK m \in 1..(2 * n) : Paired(j, m)
        BY <1>5, <1>9, <3>1
      <3>4. E(k) = E(m)
        BY <1>7, <1>9, <3>2, <3>3
      <3>5. k = m
        BY <1>1, <3>2, <3>3, <3>4
      <3> QED
        BY <3>2, <3>3, <3>5
    <2> QED
      BY <2>1, <2>2
  <1> QED
    BY <1>2, <1>8, <1>9 DEF PaysOnce, a

(* The inductive invariant: a pool within its capacity whose entries have  *)
(* their shapes, a view as acceptance leaves it, with at least the         *)
(* genesis, and leased work that pays once over that very view.            *)
WorkOK(s) == s.work # NoWork => IsSeq(s.work.txs) /\ PaysOnce(s.work.txs, s.view)
Serves(s) ==
    /\ Whole(s)
    /\ ViewInv(s.view)
    /\ Len(s.view.history) \in Nat \ {0}
    /\ Shaped(s.pool)
    /\ WorkOK(s)

(* What a handler lets go of: accepted entries, or entries renamed by a    *)
(* replacement of blocks. What it accepts is not in the pool afterwards.   *)
Released(s, t) ==
    \A tx \in s.pool \ t.pool :
        \/ tx \in AcceptedTxs(t.view)
        \/ /\ ~IsPrefix(s.view.history, t.view.history)
           /\ \E k \in 0..Len(s.view.history) : Detached(tx, k) \in t.pool
Cleared(s, t) ==
    Len(t.view.history) > Len(s.view.history) =>
        t.pool \cap ToSet(t.view.history[Len(t.view.history)].txs) = {}
Follows(s, t) == Serves(t) /\ Released(s, t) /\ Cleared(s, t)

(* A handler that leaves the chain alone and drops accepted entries only.  *)
LEMMA StaysFollow ==
    ASSUME NEW s, Serves(s), NEW t, Whole(t), t.view = s.view, WorkOK(t), Shaped(t.pool),
           \A tx \in s.pool \ t.pool : tx \in AcceptedTxs(s.view)
    PROVE  Follows(s, t)
  <1>1. Cleared(s, t)
    BY DEF Cleared, Serves
  <1> QED
    BY <1>1 DEF Follows, Serves, Released

(* Pruning drops accepted entries only (stn_pending_prune).                *)
LEMMA MaintainedServes ==
    ASSUME NEW s, Serves(s)
    PROVE  LET m == Maintained(s)
           IN  /\ Serves(m) /\ m.view = s.view /\ m.work = s.work /\ m.pool \subseteq s.pool
               /\ \A tx \in s.pool \ m.pool : tx \in AcceptedTxs(s.view)
  <1> DEFINE m == Maintained(s)
  <1>1. Whole(m) /\ m.pool \subseteq s.pool /\ m.view = s.view
    BY MaintainedWhole DEF Serves
  <1>2. m.work = s.work /\ m.pool = Pruned(s.pool, s.view)
    BY DEF Maintained, Serves, Whole
  <1>3. \A tx \in s.pool \ m.pool : tx \in AcceptedTxs(s.view)
    BY <1>2 DEF Pruned, Inclusions
  <1> HIDE DEF m
  <1> QED
    BY <1>1, <1>2, <1>3 DEF Serves, Shaped, WorkOK, m

(* Adding entries of known shape lets go of nothing (stn_pending_insert).  *)
LEMMA AddedFollows ==
    ASSUME NEW s, Serves(s), NEW q, Shaped(q), s.pool \subseteq q,
           Whole([s EXCEPT !.pool = q])
    PROVE  LET t == [s EXCEPT !.pool = q]
           IN Follows(s, t) /\ t.view = s.view /\ t.pool = q
  <1> DEFINE t == [s EXCEPT !.pool = q]
  <1>1. t.view = s.view /\ t.work = s.work /\ t.pool = q
    BY DEF Serves, Whole
  <1> HIDE DEF t
  <1>2. WorkOK(t)
    BY <1>1 DEF Serves, WorkOK
  <1>3. Whole(t)
    BY DEF t
  <1>4. Follows(s, t)
    BY <1>1, <1>2, <1>3, StaysFollow
  <1> QED
    BY <1>1, <1>4 DEF t

(* An admitted entry has a shape too (stn_pending_insert).                 *)
LEMMA WithShaped ==
    ASSUME NEW p, Shaped(p), NEW tx, Shape(tx), NEW a
    PROVE  Shaped(With(p, tx, a)) /\ p \subseteq With(p, tx, a)
  BY DEF With, Shaped

(* A handler that prunes first lets go of what the pruning and the rest    *)
(* let go of (stn_mining_handle).                                          *)
LEMMA FollowsAfter ==
    ASSUME NEW s, NEW m, NEW t, m.view = s.view, t.view = s.view, Follows(m, t),
           \A tx \in s.pool \ m.pool : tx \in AcceptedTxs(s.view)
    PROVE  Follows(s, t)
  BY DEF Follows, Released, Cleared

(* A submitted transaction (stn_mining_handle).                            *)
LEMMA TransactionsFollow ==
    ASSUME NEW s, Serves(s), NEW tx \in Submitted
    PROVE  Follows(s, SubmitTransaction(s, tx).state)
  <1> DEFINE a == Admission(s.pool, s.view, tx)
             q == With(s.pool, tx, a)
  <1>1. SubmitTransaction(s, tx).state = [s EXCEPT !.pool = q]
    BY DEF SubmitTransaction, Reply
  <1>2. Shape(tx)
    BY SubmittedShape, MiningAssumption
  <1>3. Shaped(q) /\ s.pool \subseteq q
    BY <1>2, WithShaped DEF Serves
  <1>4. Whole(SubmitTransaction(s, tx).state)
    BY TransactionsKeep DEF Serves, Keeps
  <1> HIDE DEF q
  <1> QED
    BY <1>1, <1>3, <1>4, AddedFollows

(* A submitted publication, after pruning (stn_mining_handle).             *)
LEMMA IntelligenceFollows ==
    ASSUME NEW s, Serves(s), NEW tx \in Submitted
    PROVE  Follows(s, SubmitIntelligence(s, tx).state)
  <1> DEFINE m == Maintained(s)
             q == With(m.pool, tx, AdmitPublication(m.pool, m.view, tx))
             t == SubmitIntelligence(s, tx).state
  <1>1. t = [m EXCEPT !.pool = q]
    BY DEF SubmitIntelligence, Reply
  <1>2. /\ Serves(m) /\ m.view = s.view
        /\ \A u \in s.pool \ m.pool : u \in AcceptedTxs(s.view)
    BY MaintainedServes
  <1>3. Whole(t)
    BY IntelligenceKeeps DEF Serves, Keeps
  <1> HIDE DEF m, t
  <1>4. Shaped(q) /\ m.pool \subseteq q
    BY <1>2, WithShaped, SubmittedShape, MiningAssumption DEF Serves
  <1> HIDE DEF q
  <1>5. Follows(m, t) /\ t.view = m.view
    BY <1>1, <1>2, <1>3, <1>4, AddedFollows
  <1>6. Follows(s, t)
    BY <1>2, <1>5, FollowsAfter
  <1> QED
    BY <1>6 DEF t

(* A submitted share and the issuance built for it, after pruning (share   *)
(* submission in stn_mining_handle).                                       *)
LEMMA SharesFollow ==
    ASSUME NEW s, Serves(s), NEW tx \in ShareRecords
    PROVE  Follows(s, SubmitShare(s, tx).state)
  <1> DEFINE m == Maintained(s)
             wallet == CHOOSE w \in WalletsFor(m, tx.miner) : TRUE
             q == m.pool \cup {tx, IssuanceFor(tx, wallet)}
             t == SubmitShare(s, tx).state
  <1>1. t = m \/ t = [m EXCEPT !.pool = q]
    BY DEF SubmitShare, Reply
  <1>2. /\ Serves(m) /\ m.view = s.view
        /\ \A u \in s.pool \ m.pool : u \in AcceptedTxs(s.view)
    BY MaintainedServes
  <1>3. Whole(t)
    BY SharesKeep DEF Serves, Keeps
  <1> HIDE DEF m, t, wallet
  <1>4. Shaped(q) /\ m.pool \subseteq q
    <2>1. Shape(tx) /\ Shape(IssuanceFor(tx, wallet))
      BY IssuanceShape DEF Evidences, Shape, ShareRecords
    <2> QED
      BY <1>2, <2>1 DEF Serves, Shaped
  <1> HIDE DEF q
  <1>5. Follows(m, t) /\ t.view = m.view
    <2>1. CASE t = m
      BY <1>2, <2>1, StaysFollow DEF Serves
    <2>2. CASE t = [m EXCEPT !.pool = q]
      BY <1>2, <1>3, <1>4, <2>2, AddedFollows
    <2> QED
      BY <1>1, <2>1, <2>2
  <1>6. Follows(s, t)
    BY <1>2, <1>5, FollowsAfter
  <1> QED
    BY <1>6 DEF t

(* A template leaves pool and chain alone and leases work that pays once   *)
(* (template_build).                                                       *)
LEMMA TemplatesFollow ==
    ASSUME NEW s, Serves(s), NEW now
    PROVE  LET r == Template(s, now)
           IN  /\ Follows(s, r.state) /\ r.state.view = s.view /\ r.state.pool = s.pool
               /\ r.code = "OK" => IsSeq(r.state.work.txs)
  <1> DEFINE body == Assembled(s.pool, s.view)
             work == [height |-> Len(s.view.history), parent |-> TipOf(s.view),
                      time |-> TimeOf(s, body, now), sealed |-> TRUE, txs |-> body]
             r == Template(s, now)
             t == [s EXCEPT !.work = work]
  <1>1. \/ r.state = s /\ r.code # "OK"
        \/ r.state = t /\ r.code = "OK"
    BY DEF Template, Reply
  <1>2. IsSeq(body) /\ PaysOnce(body, s.view)
    BY TemplatesPay DEF Serves, Whole, Bounded
  <1>3. work.txs = body
    OBVIOUS
  <1> HIDE DEF body, work
  <1>4. t.view = s.view /\ t.pool = s.pool /\ t.work = work /\ Whole(t)
    BY DEF Serves, Whole
  <1> HIDE DEF r, t
  <1>5. WorkOK(t)
    BY <1>2, <1>3, <1>4 DEF WorkOK
  <1>6. Follows(s, t) /\ Follows(s, s)
    BY <1>4, <1>5, StaysFollow DEF Serves
  <1> QED
    BY <1>1, <1>2, <1>3, <1>4, <1>6 DEF r

(* An accepted block takes its own entries out of the pool, and the work   *)
(* leased over the old tip is dropped (stn_mining_handle, after storage    *)
(* committed).                                                             *)
LEMMA AdvancedFollows ==
    ASSUME NEW s, Serves(s), NEW b, IsSeq(b.txs), Accepts(s.view, b)
    PROVE  LET m == Advanced(s, b)
           IN  /\ Follows(s, m)
               /\ ToSet(m.view.history[Len(m.view.history)].txs) \subseteq AcceptedTxs(m.view)
  <1> DEFINE m == Advanced(s, b)
             v == Extended(s.view, b)
  <1>1. /\ ViewInv(v) /\ Len(v.history) = Len(s.view.history) + 1
        /\ AcceptedTxs(v) = AcceptedTxs(s.view) \cup ToSet(b.txs)
        /\ ToSet(v.history[Len(s.view.history) + 1].txs) = ToSet(b.txs)
    BY ViewGrows DEF Serves
  <1>2. /\ m.view = v /\ m.work = NoWork
        /\ m.pool = s.pool \ Inclusions(s.pool, ToSet(b.txs))
    BY DEF Advanced
  <1>3. Whole(m) /\ m.pool \subseteq s.pool
    BY AdvancedWhole DEF Serves
  <1> HIDE DEF m, v
  <1>4. WorkOK(m)
    BY <1>2 DEF WorkOK
  <1>5. Serves(m)
    BY <1>1, <1>2, <1>3, <1>4 DEF Serves, Shaped
  <1>6. Released(s, m)
    BY <1>1, <1>2 DEF Released, Inclusions
  <1>7. /\ m.view.history[Len(m.view.history)].txs = v.history[Len(s.view.history) + 1].txs
        /\ ToSet(m.view.history[Len(m.view.history)].txs) = ToSet(b.txs)
    BY <1>1, <1>2
  <1>8. Cleared(s, m)
    BY <1>2, <1>7 DEF Cleared, Inclusions
  <1> QED
    BY <1>1, <1>2, <1>5, <1>6, <1>7, <1>8 DEF Follows, m

(* The pair queued for a solved block names the new tip, so neither half   *)
(* of it is accepted yet (submitted work in stn_mining_handle).            *)
LEMMA RewardsFollow ==
    ASSUME NEW s, Serves(s), NEW miner \in Miners
    PROVE  LET t == QueueReward(s, miner).state
           IN  /\ Serves(t) /\ t.view = s.view /\ s.pool \subseteq t.pool
               /\ \A u \in t.pool \ s.pool : u \notin AcceptedTxs(s.view)
  <1> DEFINE evidence == RewardFor(s, miner)
             issuance == IssuanceFor(evidence, s.view.economy.destination[miner])
             first == AdmitReward(s.pool, s.view, evidence)
             p == With(s.pool, evidence, first)
             second == AdmitBlockIssuance(p, s.view, issuance)
             q == With(p, issuance, second)
             t == QueueReward(s, miner).state
  <1>1. t = s \/ t = [s EXCEPT !.pool = q]
    BY DEF QueueReward, Reply
  <1>2. Whole(t)
    BY RewardsKeep DEF Serves, Keeps
  <1>3. evidence \in RewardRecords
    <2>1. TipOf(s.view) \in Nat
      BY DEF Serves, TipOf
    <2> QED
      BY <2>1 DEF RewardFor, RewardRecords, BlockIds
  <1>4. evidence.type = "REWARD" /\ evidence.block = TipOf(s.view)
    BY DEF RewardFor
  <1>5. issuance.type = "ISSUANCE" /\ issuance.evidence = evidence
    BY DEF IssuanceFor
  <1>6. Shape(evidence) /\ Shape(issuance)
    BY <1>3, <1>4, IssuanceShape DEF Shape, Evidences
  <1>7. evidence \notin AcceptedTxs(s.view) /\ issuance \notin AcceptedTxs(s.view)
    <2>1. evidence \notin s.view.economy.rewards
      <3>1. TipOf(s.view) \in Int
        BY DEF Serves, TipOf
      <3> QED
        BY <1>4, <3>1 DEF Serves, ViewInv
    <2>2. Named(evidence, s.view.economy.rewards) => FALSE
      BY <1>4, <2>1 DEF Named
    <2>3. Named(issuance, s.view.economy.rewards) => FALSE
      BY <1>4, <1>5, <2>1 DEF Named, IsBlockIssuance
    <2> QED
      BY <2>2, <2>3 DEF Serves, ViewInv
  <1> HIDE DEF evidence, issuance, t
  <1>8. Shaped(p) /\ s.pool \subseteq p /\ p \subseteq s.pool \cup {evidence}
    BY <1>6, WithShaped DEF Serves, With
  <1> HIDE DEF p
  <1>9. Shaped(q) /\ s.pool \subseteq q /\ q \subseteq s.pool \cup {evidence, issuance}
    BY <1>6, <1>8, WithShaped DEF With
  <1> HIDE DEF q
  <1>10. CASE t = s
    BY <1>10 DEF t
  <1>11. CASE t = [s EXCEPT !.pool = q]
    <2>1. Serves(t) /\ t.view = s.view /\ t.pool = q
      BY <1>2, <1>9, <1>11, AddedFollows DEF Follows
    <2> QED
      BY <1>7, <1>9, <2>1 DEF t
  <1> QED
    BY <1>1, <1>10, <1>11

(* A submitted block (block submission in stn_mining_handle).              *)
LEMMA BlocksFollow ==
    ASSUME NEW s, Serves(s), NEW b, IsSeq(b.txs)
    PROVE  Follows(s, SubmitBlock(s, b).state)
  <1>1. \/ SubmitBlock(s, b).state = s
        \/ SubmitBlock(s, b).state = Advanced(s, b) /\ Accepts(s.view, b)
    BY DEF SubmitBlock, Reply
  <1>2. Follows(s, s)
    BY StaysFollow DEF Serves
  <1> QED
    BY <1>1, <1>2, AdvancedFollows

(* Submitted work: the block, then its reward pair                         *)
(* (stn_mining_submit_work_local).                                         *)
LEMMA WorkFollows ==
    ASSUME NEW s, Serves(s), NEW b, IsSeq(b.txs), NEW miner \in Miners
    PROVE  Follows(s, SubmitWork(s, b, miner).state)
  <1> DEFINE m == Advanced(s, b)
             t == QueueReward(m, miner).state
  <1>1. \/ SubmitWork(s, b, miner).state = s
        \/ SubmitWork(s, b, miner).state = t /\ Accepts(s.view, b)
    BY DEF SubmitWork, Reply
  <1>2. Follows(s, s)
    BY StaysFollow DEF Serves
  <1>3. ASSUME Accepts(s.view, b)
        PROVE  Follows(s, t)
    <2>1. /\ Follows(s, m)
          /\ ToSet(m.view.history[Len(m.view.history)].txs) \subseteq AcceptedTxs(m.view)
      BY <1>3, AdvancedFollows
    <2> HIDE DEF m
    <2>2. /\ Serves(t) /\ t.view = m.view /\ m.pool \subseteq t.pool
          /\ \A u \in t.pool \ m.pool : u \notin AcceptedTxs(m.view)
      BY <2>1, RewardsFollow DEF Follows
    <2> HIDE DEF t
    <2>3. Released(s, t)
      BY <2>1, <2>2 DEF Follows, Released
    <2>4. Cleared(s, t)
      BY <2>1, <2>2 DEF Follows, Cleared
    <2> QED
      BY <2>2, <2>3, <2>4 DEF Follows
  <1> QED
    BY <1>1, <1>2, <1>3

(* A step of the internal miner: the template, then the share or the block *)
(* it found (stn_internal_miner_worker_step).                              *)
LEMMA MinerFollows ==
    ASSUME NEW s, Serves(s), NEW now, NEW miner \in Miners, NEW nonce \in Nonces, NEW found
    PROVE  Follows(s, MinerStep(s, now, miner, nonce, found).state)
  <1> DEFINE r == Template(s, now)
             share == MinedShare(s, miner, nonce)
             t == MinerStep(s, now, miner, nonce, found).state
  <1>1. /\ Follows(s, r.state) /\ r.state.view = s.view /\ r.state.pool = s.pool
        /\ r.code = "OK" => IsSeq(r.state.work.txs)
    BY TemplatesFollow
  <1>2. share \in ShareRecords
    <2>1. Len(s.view.history) \in Nat /\ TipOf(s.view) \in Nat
      BY DEF Serves, TipOf
    <2> QED
      BY <2>1 DEF MinedShare, ShareRecords, BlockIds
  <1>3. \/ t = r.state
        \/ t = SubmitShare(r.state, share).state
        \/ t = SubmitWork(r.state, r.state.work, miner).state /\ r.code = "OK"
    BY DEF MinerStep
  <1> HIDE DEF r, share, t
  <1>4. Serves(r.state)
    BY <1>1 DEF Follows
  <1>5. \A u : Follows(r.state, u) => Follows(s, u)
    BY <1>1 DEF Follows, Released, Cleared
  <1>6. Follows(s, t)
    BY <1>1, <1>2, <1>3, <1>4, <1>5, SharesFollow, WorkFollows
  <1> QED
    BY <1>6 DEF t

(* An identifier that still names a position was not renamed.              *)
LEMMA RenamedIs ==
    ASSUME NEW id, NEW k, Renamed(id, k) \in Nat
    PROVE  Renamed(id, k) = id
  BY EconomyAssumption DEF Renamed

(* An entry whose renamed form is accepted was not renamed: accepted       *)
(* transactions name positions only (stn_pending_prune compares exact      *)
(* identifiers).                                                           *)
LEMMA DetachedNamed ==
    ASSUME NEW tx, Shape(tx), NEW k, NEW rewards, \A r \in rewards : r.block \in Nat,
           Named(Detached(tx, k), rewards)
    PROVE  Detached(tx, k) = tx
  <1> DEFINE d == Detached(tx, k)
  <1>1. CASE tx.type = "SHARE"
    <2>1. tx \in ShareRecords /\ d = [tx EXCEPT !.parent = Renamed(tx.parent, k)]
      BY <1>1 DEF Shape, Detached, IsShareIssuance, IsBlockIssuance
    <2> HIDE DEF d
    <2>2. d.type = "SHARE" /\ d.parent = Renamed(tx.parent, k)
      BY <1>1, <2>1 DEF ShareRecords
    <2>3. Renamed(tx.parent, k) = tx.parent
      BY <2>2, RenamedIs DEF Named, d
    <2>4. d = tx
      BY <2>1, <2>3 DEF ShareRecords
    <2> QED
      BY <2>4 DEF d
  <1>2. CASE tx.type = "REWARD"
    <2>1. tx \in RewardRecords /\ d = [tx EXCEPT !.block = Renamed(tx.block, k)]
      BY <1>2 DEF Shape, Detached, IsShareIssuance, IsBlockIssuance
    <2> HIDE DEF d
    <2>2. d.type = "REWARD" /\ d.block = Renamed(tx.block, k)
      BY <1>2, <2>1 DEF RewardRecords
    <2>3. Renamed(tx.block, k) = tx.block
      BY <2>2, RenamedIs DEF Named, d
    <2>4. d = tx
      BY <2>1, <2>3 DEF RewardRecords
    <2> QED
      BY <2>4 DEF d
  <1>3. CASE tx.type = "ISSUANCE"
    <2>1. /\ tx = [type |-> "ISSUANCE", evidence |-> tx.evidence, miner |-> tx.miner,
                   wallet |-> tx.wallet]
          /\ tx.evidence \in Evidences
      BY <1>3 DEF Shape
    <2>2. CASE tx.evidence.type = "SHARE"
      <3> DEFINE e == [tx.evidence EXCEPT !.parent = Renamed(tx.evidence.parent, k)]
      <3>1. d = [tx EXCEPT !.evidence = e]
        BY <1>3, <2>2 DEF Detached, IsShareIssuance, IsBlockIssuance
      <3>2. tx.evidence \in ShareRecords
        BY <2>1, <2>2, EvidenceTypes
      <3>3. e.type = "SHARE" /\ e.parent = Renamed(tx.evidence.parent, k)
        BY <2>2, <3>2 DEF ShareRecords
      <3>4. e.parent = tx.evidence.parent => e = tx.evidence
        BY <3>2, <3>3 DEF ShareRecords
      <3> HIDE DEF d, e
      <3>5. d = [type |-> "ISSUANCE", evidence |-> e, miner |-> tx.miner, wallet |-> tx.wallet]
        BY <2>1, <3>1
      <3>6. IsShareIssuance(d) /\ d.evidence = e
        BY <3>3, <3>5 DEF IsShareIssuance
      <3>7. e.parent = tx.evidence.parent
        BY <3>3, <3>6, RenamedIs DEF Named, d
      <3>8. d = tx
        BY <2>1, <3>4, <3>5, <3>7
      <3> QED
        BY <3>8 DEF d
    <2>3. CASE tx.evidence.type = "REWARD"
      <3> DEFINE e == [tx.evidence EXCEPT !.block = Renamed(tx.evidence.block, k)]
      <3>1. d = [tx EXCEPT !.evidence = e]
        BY <1>3, <2>3 DEF Detached, IsShareIssuance, IsBlockIssuance
      <3>2. tx.evidence \in RewardRecords
        BY <2>1, <2>3, EvidenceTypes
      <3>3. e.type = "REWARD" /\ e.block = Renamed(tx.evidence.block, k)
        BY <2>3, <3>2 DEF RewardRecords
      <3>4. e.block = tx.evidence.block => e = tx.evidence
        BY <3>2, <3>3 DEF RewardRecords
      <3> HIDE DEF d, e
      <3>5. d = [type |-> "ISSUANCE", evidence |-> e, miner |-> tx.miner, wallet |-> tx.wallet]
        BY <2>1, <3>1
      <3>6. IsBlockIssuance(d) /\ d.evidence = e
        BY <3>3, <3>5 DEF IsBlockIssuance
      <3>7. e.block \in Nat
        BY <3>6 DEF Named, d
      <3>8. e.block = tx.evidence.block
        BY <3>3, <3>7, RenamedIs
      <3>9. d = tx
        BY <2>1, <3>4, <3>5, <3>8
      <3> QED
        BY <3>9 DEF d
    <2> QED
      BY <2>1, <2>2, <2>3, EvidenceTypes
  <1>4. CASE tx.type \notin {"SHARE", "REWARD", "ISSUANCE"}
    BY <1>4 DEF Detached, IsShareIssuance, IsBlockIssuance
  <1> QED
    BY <1>1, <1>2, <1>3, <1>4

(* Renaming keeps the shape.                                               *)
LEMMA DetachedShape ==
    ASSUME NEW tx, Shape(tx), NEW k
    PROVE  Shape(Detached(tx, k))
  <1> DEFINE d == Detached(tx, k)
  <1>1. \A id \in BlockIds : Renamed(id, k) \in BlockIds
    BY DEF Renamed, BlockIds
  <1>2. CASE tx.type = "SHARE"
    <2>1. tx \in ShareRecords /\ d = [tx EXCEPT !.parent = Renamed(tx.parent, k)]
      BY <1>2 DEF Shape, Detached, IsShareIssuance, IsBlockIssuance
    <2> HIDE DEF d
    <2>2. d \in ShareRecords
      BY <1>1, <2>1 DEF ShareRecords
    <2>3. Shape(d)
      BY <2>2 DEF Shape, ShareRecords
    <2> QED
      BY <2>3 DEF d
  <1>3. CASE tx.type = "REWARD"
    <2>1. tx \in RewardRecords /\ d = [tx EXCEPT !.block = Renamed(tx.block, k)]
      BY <1>3 DEF Shape, Detached, IsShareIssuance, IsBlockIssuance
    <2> HIDE DEF d
    <2>2. d \in RewardRecords
      BY <1>1, <2>1 DEF RewardRecords
    <2>3. Shape(d)
      BY <2>2 DEF Shape, RewardRecords
    <2> QED
      BY <2>3 DEF d
  <1>4. CASE tx.type = "ISSUANCE"
    <2>1. /\ tx = [type |-> "ISSUANCE", evidence |-> tx.evidence, miner |-> tx.miner,
                   wallet |-> tx.wallet]
          /\ tx.evidence \in Evidences
      BY <1>4 DEF Shape
    <2>2. \E e \in Evidences : d = [tx EXCEPT !.evidence = e]
      <3>1. CASE tx.evidence.type = "SHARE"
        <4> DEFINE e == [tx.evidence EXCEPT !.parent = Renamed(tx.evidence.parent, k)]
        <4>1. d = [tx EXCEPT !.evidence = e]
          BY <1>4, <3>1 DEF Detached, IsShareIssuance, IsBlockIssuance
        <4>2. tx.evidence \in ShareRecords
          BY <2>1, <3>1, EvidenceTypes
        <4>3. e \in ShareRecords
          BY <1>1, <4>2 DEF ShareRecords
        <4> QED
          BY <4>1, <4>3 DEF Evidences
      <3>2. CASE tx.evidence.type = "REWARD"
        <4> DEFINE e == [tx.evidence EXCEPT !.block = Renamed(tx.evidence.block, k)]
        <4>1. d = [tx EXCEPT !.evidence = e]
          BY <1>4, <3>2 DEF Detached, IsShareIssuance, IsBlockIssuance
        <4>2. tx.evidence \in RewardRecords
          BY <2>1, <3>2, EvidenceTypes
        <4>3. e \in RewardRecords
          BY <1>1, <4>2 DEF RewardRecords
        <4> QED
          BY <4>1, <4>3 DEF Evidences
      <3> QED
        BY <2>1, <3>1, <3>2, EvidenceTypes
    <2> HIDE DEF d
    <2>3. PICK e \in Evidences : d = [tx EXCEPT !.evidence = e]
      BY <2>2
    <2>4. d = [type |-> "ISSUANCE", evidence |-> e, miner |-> tx.miner, wallet |-> tx.wallet]
      BY <2>1, <2>3
    <2>5. Shape(d)
      BY <2>4 DEF Shape
    <2> QED
      BY <2>5 DEF d
  <1>5. CASE tx.type \notin {"SHARE", "REWARD", "ISSUANCE"}
    <2>1. d = tx
      BY <1>5 DEF Detached, IsShareIssuance, IsBlockIssuance
    <2> QED
      BY <2>1
  <1> QED
    BY <1>2, <1>3, <1>4, <1>5

(* Two histories agree on at most the whole of one.                        *)
LEMMA PrefixBound ==
    ASSUME NEW h, NEW g, Len(g) \in Nat, DOMAIN g = 1..Len(g)
    PROVE  CommonPrefix(h, g) \in 0..Len(g)
  <1> DEFINE n == Len(g)
             R == 1..n
             I == {i \in DOMAIN h \cap DOMAIN g : SubSeq(h, 1, i) = SubSeq(g, 1, i)}
  <1>1. IsFiniteSet(R) /\ Cardinality(R) = n
    <2>1. 1 \in Int /\ n \in Int /\ (1 > n => n = 0)
      OBVIOUS
    <2> HIDE DEF n
    <2>2. /\ IsFiniteSet(1..n)
          /\ Cardinality(1..n) = IF 1 > n THEN 0 ELSE n - 1 + 1
      BY <2>1, FS_Interval
    <2> QED
      BY <2>1, <2>2
  <1>2. I \subseteq R
    OBVIOUS
  <1>3. CommonPrefix(h, g) = Cardinality(I)
    BY DEF CommonPrefix
  <1>4. n \in Nat
    OBVIOUS
  <1> HIDE DEF I, R, n
  <1>5. Cardinality(I) <= Cardinality(R) /\ IsFiniteSet(I)
    BY <1>1, <1>2, FS_Subset
  <1>6. Cardinality(I) \in Nat
    BY <1>5, FS_CardinalityType
  <1>7. CommonPrefix(h, g) \in 0..n
    BY <1>1, <1>3, <1>4, <1>5, <1>6
  <1> QED
    BY <1>7 DEF n

(* Submitted history: entries that are gone were accepted by the new       *)
(* history, or are there under the identifiers that replaced blocks have   *)
(* now (submitted history in stn_mining_handle).                           *)
LEMMA HistoriesFollow ==
    ASSUME NEW s, Serves(s), NEW h \in Branches
    PROVE  Follows(s, SubmitHistory(s, h).state)
  <1> DEFINE v == Derived(h)
             k == CommonPrefix(h, s.view.history)
             renamed == {Detached(tx, k) : tx \in s.pool}
             p == IF IsPrefix(s.view.history, v.history) THEN s.pool ELSE renamed
             t == [view |-> v, pool |-> p \ Inclusions(p, AcceptedTxs(v)), work |-> NoWork]
  <1>1. \/ SubmitHistory(s, h).state = s
        \/ /\ SubmitHistory(s, h).state = t
           /\ Len(h) > Len(s.view.history) /\ Derivable(h)
    <2>1. Len(h) \in Nat /\ Len(s.view.history) \in Nat
      BY MiningAssumption DEF Serves
    <2> QED
      BY <2>1 DEF SubmitHistory, Reply
  <1>2. Follows(s, s)
    BY StaysFollow DEF Serves
  <1>3. ASSUME SubmitHistory(s, h).state = t, Len(h) > Len(s.view.history), Derivable(h)
        PROVE  Follows(s, t)
    <2>1. h \in Seq(Blocks) /\ Len(h) \in Nat /\ Len(s.view.history) \in Nat
      BY MiningAssumption DEF Serves
    <2>2. ViewInv(v) /\ v.history = h
      BY <1>3, <2>1, DerivedHolds
    <2>3. Whole(t)
      BY <1>3, HistoriesKeep DEF Serves
    <2>4. Shaped(p)
      BY DetachedShape DEF Serves, Shaped
    <2>5. t.view = v /\ t.pool = p \ AcceptedTxs(v) /\ t.work = NoWork
      BY DEF Inclusions
    <2>6. k \in 0..Len(s.view.history)
      BY PrefixBound, SeqIs DEF Serves, ViewInv
    <2> HIDE DEF v, k, t
    <2>7. Serves(t)
      BY <1>3, <2>1, <2>2, <2>3, <2>4, <2>5 DEF Serves, Shaped, WorkOK
    <2>8. Cleared(s, t)
      <3>1. ToSet(v.history[Len(v.history)].txs) \subseteq AcceptedTxs(v)
        BY <1>3, <2>1, <2>2 DEF AcceptedTxs
      <3> HIDE DEF p
      <3> QED
        BY <2>5, <3>1 DEF Cleared
    <2>9. Released(s, t)
      <3> SUFFICES ASSUME NEW tx \in s.pool \ t.pool
                   PROVE  \/ tx \in AcceptedTxs(t.view)
                          \/ /\ ~IsPrefix(s.view.history, t.view.history)
                             /\ \E j \in 0..Len(s.view.history) : Detached(tx, j) \in t.pool
        BY DEF Released
      <3>1. CASE IsPrefix(s.view.history, v.history)
        BY <2>5, <3>1
      <3>2. CASE ~IsPrefix(s.view.history, v.history) /\ Detached(tx, k) \notin AcceptedTxs(v)
        <4>1. Detached(tx, k) \in p
          BY <3>2
        <4> HIDE DEF p
        <4> QED
          BY <2>5, <2>6, <3>2, <4>1
      <3>3. CASE Detached(tx, k) \in AcceptedTxs(v)
        <4>1. Named(Detached(tx, k), v.economy.rewards)
          BY <2>2, <3>3 DEF ViewInv
        <4>2. \A r \in v.economy.rewards : r.block \in Nat
          <5>1. TipOf(v) - 1 \in Int
            BY <2>1, <2>2 DEF TipOf
          <5>2. 0..(TipOf(v) - 1) \subseteq Nat
            BY <5>1
          <5> QED
            BY <2>2, <5>2 DEF ViewInv
        <4>3. Shape(tx)
          BY DEF Serves, Shaped
        <4>4. Detached(tx, k) = tx
          BY <4>1, <4>2, <4>3, DetachedNamed
        <4> QED
          BY <2>5, <3>3, <4>4
      <3> QED
        BY <3>1, <3>2, <3>3
    <2> QED
      BY <2>7, <2>8, <2>9 DEF Follows, t
  <1> HIDE DEF t
  <1> QED
    BY <1>1, <1>2, <1>3

(* Every request (stn_mining_handle).                                      *)
LEMMA FollowsNext == Serves(service) /\ Next => Follows(service, service')
  <1> SUFFICES ASSUME Serves(service), Next
               PROVE  Follows(service, service')
    OBVIOUS
  <1>1. CASE \E tx \in Submitted : Handle(SubmitTransaction(service, tx))
    BY <1>1, TransactionsFollow DEF Handle
  <1>2. CASE \E tx \in {u \in Submitted : u.type = "PUBLICATION"} :
                 Handle(SubmitIntelligence(service, tx))
    BY <1>2, IntelligenceFollows DEF Handle
  <1>3. CASE Handle(PendingStatus(service))
    <2>1. service' = Maintained(service)
      BY <1>3 DEF Handle, PendingStatus, Reply
    <2>2. /\ Serves(service') /\ service'.view = service.view
          /\ \A tx \in service.pool \ service'.pool : tx \in AcceptedTxs(service.view)
      BY <2>1, MaintainedServes
    <2> QED
      BY <2>2, StaysFollow DEF Serves
  <1>4. CASE \E tx \in Solutions : Handle(SubmitShare(service, tx))
    BY <1>4, SharesFollow, MiningAssumption DEF Handle
  <1>5. CASE \E now \in Times : Handle(Template(service, now))
    BY <1>5, TemplatesFollow DEF Handle
  <1>6. CASE \E b \in Offers : Growing /\ Handle(SubmitBlock(service, b))
    <2>1. PICK b \in Offers : service' = SubmitBlock(service, b).state
      BY <1>6 DEF Handle
    <2>2. IsSeq(b.txs)
      BY BlockTxs, PoolAssumption
    <2> QED
      BY <2>1, <2>2, BlocksFollow
  <1>7. CASE \E b \in Offers \cup {service.work}, m \in Miners :
                 Growing /\ b # NoWork /\ Handle(SubmitWork(service, b, m))
    <2>1. PICK b \in Offers \cup {service.work}, m \in Miners :
              b # NoWork /\ service' = SubmitWork(service, b, m).state
      BY <1>7 DEF Handle
    <2>2. IsSeq(b.txs)
      BY <2>1, BlockTxs, PoolAssumption DEF Serves, WorkOK
    <2> QED
      BY <2>1, <2>2, WorkFollows
  <1>8. CASE \E h \in Branches : Handle(SubmitHistory(service, h))
    BY <1>8, HistoriesFollow DEF Handle
  <1>9. CASE \E now \in Times, m \in Miners, n \in Nonces, found \in {"IDLE", "SHARE", "BLOCK"} :
                 Growing /\ Handle(MinerStep(service, now, m, n, found))
    BY <1>9, MinerFollows DEF Handle
  <1> QED
    BY <1>1, <1>2, <1>3, <1>4, <1>5, <1>6, <1>7, <1>8, <1>9 DEF Next

(* Storage becomes active with a validated genesis and an empty pool       *)
(* (stn_pending_init).                                                     *)
LEMMA FollowsInit == Init => Serves(service)
  <1> SUFFICES ASSUME Init PROVE Serves(service)
    OBVIOUS
  <1> DEFINE v == Extended(EmptyView, Genesis)
  <1>1. Accepts(EmptyView, Genesis) /\ service = [NoState EXCEPT !.view = v]
    BY DEF Init
  <1>2. IsSeq(Genesis.txs)
    BY BlockTxs, PoolAssumption
  <1>3. ViewInv(v) /\ Len(v.history) = Len(EmptyView.history) + 1
    BY <1>1, <1>2, EmptyViewInv, ViewGrows
  <1>4. Len(EmptyView.history) = 0
    BY EmptyViewInv
  <1> HIDE DEF v
  <1>5. service.view = v /\ service.pool = {} /\ service.work = NoWork
    BY <1>1 DEF NoState
  <1>6. Whole(service)
    BY MiningInit
  <1> QED
    BY <1>3, <1>4, <1>5, <1>6 DEF Serves, Shaped, WorkOK

(* The invariant holds (stn_mining_handle).                                *)
LEMMA Served == Spec => []Serves(service)
  <1>1. Serves(service) /\ [Next]_service => Serves(service)'
    <2> SUFFICES ASSUME Serves(service), [Next]_service PROVE Serves(service')
      OBVIOUS
    <2>1. CASE Next
      BY <2>1, FollowsNext DEF Follows
    <2>2. CASE service' = service
      BY <2>2
    <2> QED
      BY <2>1, <2>2
  <1> QED
    BY <1>1, FollowsInit, PTL DEF Spec

-----------------------------------------------------------------------------
(* However requests are interleaved, the pool never passes its capacity,   *)
(* and after a share has come in the two entries the pair of the next      *)
(* block needs are still free, for every capacity and every set of         *)
(* submitted records (stn_share_pending.c).                                *)
THEOREM RoomStays == Spec => RoomForReward
  <1>1. Whole(service) /\ [Next]_service => Whole(service)'
    BY MiningStep
  <1>2. Whole(service) /\ [Next]_service =>
       [/\ Cardinality(pool') <= MaxEntries
        /\ Entered("SHARE") # {} => Cardinality(pool') <= MaxEntries - 2]_service
    BY MiningStep
  <1> QED
    BY <1>1, <1>2, MiningInit, PTL DEF Spec, RoomForReward

(* Evidence that enters the pool by a solved block or a share has its      *)
(* issuance beside it in the same step, or does not enter (stn_mining.c,   *)
(* the removal when the second admission fails).                           *)
THEOREM PairsEnterWhole == Spec => PairsWhole
  <1>1. Whole(service) /\ [Next]_service => Whole(service)'
    BY MiningStep
  <1>2. Whole(service) /\ [Next]_service =>
       [\A tx \in Entered("REWARD") \cup Entered("SHARE") : IssuedIn(pool', tx)]_service
    BY MiningStep
  <1> QED
    BY <1>1, <1>2, MiningInit, PTL DEF Spec, PairsWhole

(* Whatever was accepted, pruned, replaced or left in the pool, the work   *)
(* that a template leases pays no evidence that the accepted chain has     *)
(* paid and none twice, for every order of identifiers and every set of    *)
(* offered blocks and histories (template_build over stn_pending.c and     *)
(* stn_block_compensation_candidate.c).                                    *)
THEOREM TemplatesPayOnce == Spec => []TemplatePaysOnce
  <1>1. Serves(service) => TemplatePaysOnce
    BY DEF Serves, WorkOK, PaysOnce, TemplatePaysOnce, view
  <1> QED
    BY <1>1, Served, PTL

(* An entry leaves the pool only when the accepted chain holds it or       *)
(* because blocks it names were replaced, and a block that was accepted    *)
(* leaves none of its entries behind, through every interleaving of        *)
(* requests (stn_mining_handle, stn_pending_prune).                        *)
THEOREM PoolFollows == Spec => PoolFollowsAccepted
  <1> DEFINE A == /\ \A tx \in pool \ pool' :
                        \/ tx \in AcceptedTxs(view')
                        \/ Reorganised /\ \E k \in 0..Len(view.history) : Detached(tx, k) \in pool'
                  /\ Len(view'.history) > Len(view.history) =>
                        pool' \cap ToSet(view'.history[Len(view'.history)].txs) = {}
  <1>1. Serves(service) /\ [Next]_service => [A]_service
    <2> SUFFICES ASSUME Serves(service), Next PROVE A
      OBVIOUS
    <2>1. Follows(service, service')
      BY FollowsNext
    <2> QED
      BY <2>1 DEF Follows, Released, Cleared, pool, view, Reorganised
  <1> HIDE DEF A
  <1>2. Spec => [][A]_service
    BY <1>1, Served, PTL DEF Spec
  <1> QED
    BY <1>2 DEF A, PoolFollowsAccepted
=============================================================================
