-------------------------- MODULE MiningProperties --------------------------
(***************************************************************************)
(* What the pending pool and the mining service promise each other, the    *)
(* miners and the validator.                                               *)
(***************************************************************************)
EXTENDS Mining

view == service.view
pool == service.pool
Reorganised == ~IsPrefix(view.history, view'.history)
Entered(type) == {tx \in pool' \ (pool \cup Submitted) : tx.type = type /\ ~Reorganised}
IssuedIn(p, tx) == \E u \in p : u.type = "ISSUANCE" /\ u.evidence = tx

(* Assembly re-checks evidence, issuances and publications against the     *)
(* accepted state (stn_pending_assemble, the pair assembly).  A body made  *)
(* of those alone is a block consensus accepts on the tip it was built     *)
(* for, until RewardCapacity pairs have been paid.                         *)
Rechecked == {"SHARE", "ISSUANCE", "REWARD", "PUBLICATION"}
TemplateConsensus ==
    LET b == service.work
    IN (/\ b # NoWork
        /\ \A i \in DOMAIN b.txs : b.txs[i].type \in Rechecked
        /\ Cardinality({i \in DOMAIN b.txs : b.txs[i].type = "REWARD"})
              + Cardinality(view.economy.rewards) <= RewardCapacity)
           => Accepts(view, b)

(* docs/MINING_WORK.md: a share issuance pays once.  Consensus does not    *)
(* look (ShareRewardOnce), so it is assembly that must never offer the     *)
(* issuance of evidence already paid, nor one evidence twice.              *)
TemplatePaysOnce ==
    service.work # NoWork =>
        LET txs == service.work.txs
        IN \A i \in DOMAIN txs : txs[i].type = "ISSUANCE" =>
               /\ \A u \in AcceptedTxs(view) :
                     u.type = "ISSUANCE" => u.evidence # txs[i].evidence
               /\ \A j \in DOMAIN txs :
                     (txs[j].type = "ISSUANCE" /\ txs[j].evidence = txs[i].evidence) => i = j

(* The reward pair of a solved block is queued whole: evidence that enters *)
(* the pool with submitted work has its issuance beside it, however full   *)
(* the pool is (stn_mining.c, the removal when the second admission fails).*)
(* So does a submitted share: one whose issuance is refused is taken out   *)
(* again, unless it was there before.                                      *)
PairsWhole ==
    [][\A tx \in Entered("REWARD") \cup Entered("SHARE") : IssuedIn(pool', tx)]_service

(* docs/MINING_WORK.md: "Failed validation, stale work, failed persistence,*)
(* and rejected activation must not incorrectly consume unrelated pending  *)
(* evidence", and "Accepted pending cleanup occurs only through the        *)
(* qualified accepted-state path".  An entry leaves the pool only into the *)
(* accepted history, or because the branch it named was replaced; and the  *)
(* block that is accepted takes what it includes out at once.              *)
PoolFollowsAccepted ==
    [][/\ \A tx \in pool \ pool' :
            \/ tx \in AcceptedTxs(view')
            \/ Reorganised /\ \E k \in 0..Len(view.history) : Detached(tx, k) \in pool'
       /\ Len(view'.history) > Len(view.history) =>
            pool' \cap ToSet(view'.history[Len(view'.history)].txs) = {}]_service

(* stn_share_pending.c: a share queue must not cause the durable           *)
(* acceptance of a block to return CAPACITY while its reward is built.     *)
(* However shares come in, the last two entries stay free after them, and  *)
(* no way in passes STN_PENDING_MAX_ENTRIES.                               *)
RoomForReward ==
    [][/\ Cardinality(pool') <= MaxEntries
       /\ Entered("SHARE") # {} => Cardinality(pool') <= MaxEntries - 2]_service
=============================================================================
