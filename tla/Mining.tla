------------------------------- MODULE Mining -------------------------------
(***************************************************************************)
(* The mining service over the pending pool (stn_mining.c,                 *)
(* stn_block_reward.c, stn_internal_miner.c).  The node's dispatch lock    *)
(* serialises requests, so a request is one step: a handler is a function  *)
(* from the state s of the service and the request to the state after it   *)
(* and the answer.                                                         *)
(*                                                                         *)
(* Abstractions.  Storage succeeds (module Store has its failures), every  *)
(* header carries the required target, and a solved block is a template or *)
(* an offer of somebody else.  A work identifier names the height, parent  *)
(* and target of a header, not its body.  Bounds: MaxHeight on histories.  *)
(* XxxFault is a faulty variant of Xxx that some property must notice.     *)
(***************************************************************************)
EXTENDS Pool

CONSTANTS
    Submitted,          \* transactions clients submit
    Solutions,          \* shares miners submit
    Branches,           \* whole histories a peer may show
    Times,              \* what the clock reads; 0 when it fails
    MaxHeight

ASSUME MiningAssumption ==
    /\ Submitted \subseteq Transactions
    /\ Solutions \subseteq ShareRecords
    /\ Branches \subseteq Seq(Blocks)

NoWork == [height |-> 0]
NoState == [view |-> EmptyView, pool |-> {}, work |-> NoWork]

VARIABLE service    \* accepted view, pool, and the last work handed out

Reply(s, code) == [state |-> s, code |-> code]

-----------------------------------------------------------------------------
(* Requests that read the pool first drop what has been accepted *)
Maintained(s) == [s EXCEPT !.pool = Pruned(@, s.view)]

SubmitTransaction(s, tx) ==
    LET a == Admission(s.pool, s.view, tx)
    IN Reply([s EXCEPT !.pool = With(@, tx, a)], a)

SubmitIntelligence(s, tx) ==
    LET t == Maintained(s)
        a == AdmitPublication(t.pool, t.view, tx)
    IN Reply([t EXCEPT !.pool = With(@, tx, a)], a)

PendingStatus(s) == Reply(Maintained(s), "OK")

-----------------------------------------------------------------------------
(* Share submission: evidence and its issuance enter together or not.  The *)
(* wallet is the accepted one or, before any is accepted, the only one the *)
(* pool holds for the miner.                                               *)
ShareAtTip(v, tx) ==
    v.history # <<>> /\ tx.height = Len(v.history) /\ tx.parent = TipOf(v)

PendingWallets(p, miner) ==
    {tx.wallet : tx \in {u \in p : u.type = "DESTINATION" /\ u.miner = miner}}
WalletsFor(s, miner) ==
    IF s.view.economy.destination[miner] # NoWallet
    THEN {s.view.economy.destination[miner]} ELSE PendingWallets(s.pool, miner)

IssuanceFor(evidence, wallet) ==
    [type |-> "ISSUANCE", evidence |-> evidence, miner |-> evidence.miner,
     wallet |-> wallet]

AdmitPaired(s, tx, wallet) ==
    LET issuance == IssuanceFor(tx, wallet)
    IN IF s.view.economy.destination[tx.miner] = NoWallet
       THEN Stored(s.pool \cup {tx}, issuance)
       ELSE AdmitShareIssuance(s.pool \cup {tx}, s.view, issuance)

SubmitShare(s, tx) ==
    LET t == Maintained(s)
        wallets == WalletsFor(t, tx.miner)
        a == AdmitShare(t.pool, t.view, tx)
        wallet == CHOOSE w \in wallets : TRUE
        code == AdmitPaired(t, tx, wallet)
    IN IF ~ShareAtTip(t.view, tx) THEN Reply(t, "STALE")
       ELSE IF ~tx.historical \/ ~tx.proof THEN Reply(t, "REJECTED")
       ELSE IF a \in {"DUPLICATE", "REFUSED"} THEN Reply(t, "REJECTED")
       ELSE IF a # "ACCEPTED" THEN Reply(t, a)
       ELSE IF wallets = {} THEN Reply(t, "UNAVAILABLE")
       ELSE IF Cardinality(wallets) > 1 THEN Reply(t, "REJECTED")
       ELSE IF code \in {"ACCEPTED", "DUPLICATE"}
       THEN Reply([t EXCEPT !.pool = @ \cup {tx, IssuanceFor(tx, wallet)}], "OK")
       ELSE Reply(t, IF code = "REFUSED" THEN "REJECTED" ELSE code)

-----------------------------------------------------------------------------
(* Templates.  A body with a share whose proof does not verify is refused  *)
(* whole.  The timestamp of a candidate is leased: it is chosen once and   *)
(* kept as long as base, height, target and body stay the same.            *)
Leased(s, body) ==
    s.work # NoWork /\ s.work.parent = TipOf(s.view) /\ s.work.txs = body
TimeOf(s, body, now) ==
    LET floor == s.view.history[Len(s.view.history)].time
    IN IF Leased(s, body) THEN s.work.time ELSE IF now > floor THEN now ELSE floor

Template(s, now) ==
    LET body == Assembled(s.pool, s.view)
        work == [height |-> Len(s.view.history), parent |-> TipOf(s.view),
                 time |-> TimeOf(s, body, now), sealed |-> TRUE, txs |-> body]
    IN IF \E i \in DOMAIN body : body[i].type = "SHARE" /\ ~body[i].proof
       THEN Reply(s, "REJECTED")
       ELSE IF now = 0 /\ ~Leased(s, body) THEN Reply(s, "UNAVAILABLE")
       ELSE Reply([s EXCEPT !.work = work], "OK")

-----------------------------------------------------------------------------
(* An accepted block replaces the view and takes what it includes.         *)
AdvancedFault(s, b) ==          \* the block's entries stay in the pool
    [view |-> Extended(s.view, b), pool |-> s.pool, work |-> NoWork]
Advanced(s, b) ==
    [view |-> Extended(s.view, b),
     pool |-> s.pool \ Inclusions(s.pool, ToSet(b.txs)),
     work |-> NoWork]

SubmitBlockFault(s, b) ==       \* a refused block takes its entries too
    IF Accepts(s.view, b) THEN Reply(Advanced(s, b), "OK")
    ELSE Reply([s EXCEPT !.pool = @ \ ToSet(b.txs)], "REJECTED")
SubmitBlock(s, b) ==
    IF Accepts(s.view, b) THEN Reply(Advanced(s, b), "OK") ELSE Reply(s, "REJECTED")

(* After its solved block is durable a miner's reward pair is queued.      *)
RewardFor(s, miner) == [type |-> "REWARD", block |-> TipOf(s.view), miner |-> miner]
QueueRewardFault(s, miner) ==   \* a pair that does not fit leaves its evidence
    LET wallet == s.view.economy.destination[miner]
        evidence == RewardFor(s, miner)
        issuance == IssuanceFor(evidence, wallet)
        first == AdmitReward(s.pool, s.view, evidence)
        p == With(s.pool, evidence, first)
        second == AdmitBlockIssuance(p, s.view, issuance)
    IN IF wallet = NoWallet THEN Reply(s, "UNAVAILABLE")
       ELSE IF first \notin {"ACCEPTED", "DUPLICATE"} THEN Reply(s, first)
       ELSE Reply([s EXCEPT !.pool = With(p, issuance, second)],
                  IF second \in {"ACCEPTED", "DUPLICATE"} THEN "OK" ELSE second)
QueueReward(s, miner) ==
    LET wallet == s.view.economy.destination[miner]
        evidence == RewardFor(s, miner)
        issuance == IssuanceFor(evidence, wallet)
        first == AdmitReward(s.pool, s.view, evidence)
        p == With(s.pool, evidence, first)
        second == AdmitBlockIssuance(p, s.view, issuance)
    IN IF wallet = NoWallet THEN Reply(s, "UNAVAILABLE")
       ELSE IF first \notin {"ACCEPTED", "DUPLICATE"} THEN Reply(s, first)
       ELSE IF second \in {"ACCEPTED", "DUPLICATE"}
       THEN Reply([s EXCEPT !.pool = With(p, issuance, second)], "OK")
       ELSE Reply(s, second)

SubmitWork(s, b, miner) ==
    IF b.parent # TipOf(s.view) THEN Reply(s, "STALE")
    ELSE IF ~Accepts(s.view, b) THEN Reply(s, "REJECTED")
    ELSE QueueReward(Advanced(s, b), miner)

(* Submitted history with more work replaces the accepted one.  Nothing    *)
(* that only the replaced branch held comes back to the pool.              *)
Derived(h) == FoldLeft(Extended, EmptyView, h)
Derivable(h) == \A i \in DOMAIN h : Accepts(Derived(SubSeq(h, 1, i - 1)), h[i])
CommonPrefix(h, g) ==
    Cardinality({i \in DOMAIN h \cap DOMAIN g : SubSeq(h, 1, i) = SubSeq(g, 1, i)})

SubmitHistory(s, h) ==
    IF Len(h) <= Len(s.view.history) \/ ~Derivable(h) THEN Reply(s, "REJECTED")
    ELSE LET v == Derived(h)
             k == CommonPrefix(h, s.view.history)
             p == IF IsPrefix(s.view.history, v.history) THEN s.pool
                  ELSE {Detached(tx, k) : tx \in s.pool}
         IN Reply([view |-> v, pool |-> p \ Inclusions(p, AcceptedTxs(v)),
                   work |-> NoWork], "OK")

-----------------------------------------------------------------------------
(* One bounded step of the internal miner under the dispatch lock: fetch a *)
(* template, search it, submit what was found.                             *)
MinedShare(s, miner, nonce) ==
    [type |-> "SHARE", miner |-> miner, height |-> Len(s.view.history),
     parent |-> TipOf(s.view), nonce |-> nonce, proof |-> TRUE, historical |-> TRUE]
MinerStep(s, now, miner, nonce, found) ==
    LET r == Template(s, now)
    IN IF r.code # "OK" \/ found = "IDLE" THEN r
       ELSE IF found = "SHARE" THEN SubmitShare(r.state, MinedShare(s, miner, nonce))
       ELSE SubmitWork(r.state, r.state.work, miner)

-----------------------------------------------------------------------------
\* Storage becomes active with a genesis that validates, and with no other.
Init ==
    /\ Accepts(EmptyView, Genesis)
    /\ service = [NoState EXCEPT !.view = Extended(EmptyView, Genesis)]

Growing == Len(service.view.history) <= MaxHeight

Handle(r) == service' = r.state

Next ==
    \/ \E tx \in Submitted : Handle(SubmitTransaction(service, tx))
    \/ \E tx \in {u \in Submitted : u.type = "PUBLICATION"} :
           Handle(SubmitIntelligence(service, tx))
    \/ Handle(PendingStatus(service))
    \/ \E tx \in Solutions : Handle(SubmitShare(service, tx))
    \/ \E now \in Times : Handle(Template(service, now))
    \/ \E b \in Offers : Growing /\ Handle(SubmitBlock(service, b))
    \/ \E b \in Offers \cup {service.work}, m \in Miners :
           Growing /\ b # NoWork /\ Handle(SubmitWork(service, b, m))
    \/ \E h \in Branches : Handle(SubmitHistory(service, h))
    \/ \E now \in Times, m \in Miners, n \in Nonces, found \in {"IDLE", "SHARE", "BLOCK"} :
           Growing /\ Handle(MinerStep(service, now, m, n, found))

Spec == Init /\ [][Next]_service
=============================================================================
