--------------------------- MODULE ChainProperties ---------------------------
(***************************************************************************)
(* What the consensus validator promises about an accepted history and the *)
(* projections derived from it.  A property relates transactions at        *)
(* several positions of the history, or the history to a projection.       *)
(***************************************************************************)
EXTENDS Chain, FiniteSetsExt, SequencesExt

(* Positions of accepted transactions: h indexes a block, i a transaction *)
Accepted(h, i) == h \in DOMAIN history /\ i \in DOMAIN history[h].txs
TxAt(h, i) == history[h].txs[i]
Before(h, i, k, j) == h < k \/ (h = k /\ i < j)
Positions == UNION {{h} \X DOMAIN history[h].txs : h \in DOMAIN history}

\* Publications below the activation height are outside the lifecycle rules.
Governed(h, i) ==
    /\ TxAt(h, i).type \in {"GRANT", "REVOKE", "ROTATE", "PUBLICATION"}
    /\ TxAt(h, i).type = "PUBLICATION" => h - 1 >= ActivationHeight

-----------------------------------------------------------------------------
(* Types of every variable of the validator (stn_chain_state and the       *)
(* locals of validate_candidate).                                          *)
TypeOK ==
    /\ history \in Seq(BlockRecords)
    /\ economy \in Economies
    /\ authority \in Lifecycles
    /\ block \in BlockRecords
    /\ mode \in Modes \cup {"idle"}
    /\ next \in Nat \ {0}
    /\ cloneE \in Economies
    /\ cloneA \in Lifecycles
    /\ verdict \in Acceptances

(* Supply is conserved: issuance is the only source and transfers move     *)
(* units without creating any, so balances always add up to the supply, on *)
(* the accepted state and on the clones (stn_economic_state_apply,         *)
(* stn_economic_state_apply_transfer), and the supply is exactly what the  *)
(* issuances of the accepted history create.                               *)
SupplyIsAccounted ==
    /\ \A e \in {economy, cloneE} :
           e.supply = MapThenSumSet(LAMBDA w : e.balance[w], Wallets)
    /\ economy.supply =
           MapThenSumSet(LAMBDA p : UnitsOf(TxAt(p[1], p[2])),
                         {p \in Positions : TxAt(p[1], p[2]).type = "ISSUANCE"})

(* No share evidence is accepted twice, whatever blocks carry it           *)
(* (stn_share_replay_consume: Work ID, miner and nonce).                   *)
ShareEvidenceOnce ==
    \A h, k \in DOMAIN history :
        \A i \in DOMAIN history[h].txs, j \in DOMAIN history[k].txs :
            (/\ TxAt(h, i).type = "SHARE"
             /\ TxAt(k, j).type = "SHARE"
             /\ ShareKey(TxAt(h, i)) = ShareKey(TxAt(k, j))) => h = k /\ i = j

(* No block-compensation evidence is accepted twice                        *)
(* (stn_block_compensation_replay_consume).                                *)
RewardEvidenceOnce ==
    \A h, k \in DOMAIN history :
        \A i \in DOMAIN history[h].txs, j \in DOMAIN history[k].txs :
            (TxAt(h, i).type = "REWARD" /\ TxAt(h, i) = TxAt(k, j)) => h = k /\ i = j

(* A controller's nonce authorises one accepted transfer for ever          *)
(* (stn_transfer_envelope_replay_consume).                                 *)
TransferNonceOnce ==
    \A h, k \in DOMAIN history :
        \A i \in DOMAIN history[h].txs, j \in DOMAIN history[k].txs :
            (/\ TxAt(h, i).type = "TRANSFER"
             /\ TxAt(k, j).type = "TRANSFER"
             /\ TransferKey(TxAt(h, i)) = TransferKey(TxAt(k, j))) => h = k /\ i = j

(* What authorises value acts once: share evidence, block evidence and a   *)
(* controller's nonce (the three consumed sets of the economic state).     *)
EvidenceActsOnce == ShareEvidenceOnce /\ RewardEvidenceOnce /\ TransferNonceOnce

(* Every accepted issuance has its evidence in the history: share evidence *)
(* in an earlier block, block evidence immediately before the issuance and *)
(* naming a block accepted earlier (stn_chain.c, issuance arms).           *)
IssuanceHasEvidence ==
    \A k \in DOMAIN history : \A j \in DOMAIN history[k].txs :
        /\ IsShareIssuance(TxAt(k, j)) =>
              \E h \in 1..(k - 1) : \E i \in DOMAIN history[h].txs :
                  TxAt(h, i) = TxAt(k, j).evidence
        /\ IsBlockIssuance(TxAt(k, j)) =>
              /\ j > 1
              /\ TxAt(k, j - 1) = TxAt(k, j).evidence
              /\ TxAt(k, j - 1).block \in 0..(k - 2)

(* Every unit ever issued went to the wallet its miner chose first; no     *)
(* later destination redirects earlier or later compensation               *)
(* (stn_compensation_state_apply: the first mapping wins).                 *)
PaidToFirstDestination ==
    \A k \in DOMAIN history : \A j \in DOMAIN history[k].txs :
        /\ TxAt(k, j).type = "ISSUANCE" =>
              economy.destination[TxAt(k, j).miner] = TxAt(k, j).wallet
        /\ TxAt(k, j).type = "DESTINATION" =>
              economy.destination[TxAt(k, j).miner] = TxAt(k, j).wallet

(* A consumed lifecycle identifier is never consumed again: the same grant,*)
(* revocation, rotation or publication nonce appears once among governed   *)
(* transactions, so a revoked grant cannot be reissued by its root         *)
(* (stn_lifecycle.c, consume).                                             *)
AuthorityActsOnce ==
    \A h, k \in DOMAIN history :
        \A i \in DOMAIN history[h].txs, j \in DOMAIN history[k].txs :
            (/\ Governed(h, i)
             /\ Governed(k, j)
             /\ ReplayKey(TxAt(h, i)) = ReplayKey(TxAt(k, j))) => h = k /\ i = j

(* At the moment a governed publication is accepted, some earlier grant    *)
(* covers its signer and scope and no revocation of that grant precedes    *)
(* the publication, in earlier blocks or earlier in its own block          *)
(* (stn_lifecycle_check_publication).                                      *)
PublicationAuthorized ==
    \A k \in DOMAIN history : \A j \in DOMAIN history[k].txs :
        (Governed(k, j) /\ TxAt(k, j).type = "PUBLICATION") =>
            \E h \in DOMAIN history : \E i \in DOMAIN history[h].txs :
                /\ Before(h, i, k, j)
                /\ TxAt(h, i).type = "GRANT"
                /\ TxAt(h, i).subject = TxAt(k, j).signer
                /\ TxAt(h, i).scope = TxAt(k, j).scope
                /\ ~\E g \in DOMAIN history : \E f \in DOMAIN history[g].txs :
                      /\ Before(g, f, k, j)
                      /\ TxAt(g, f).type = "REVOKE"
                      /\ TxAt(g, f).grant = TxAt(h, i)

(* An identity that was rotated away signs no later governed publication   *)
(* and is never rotated back to (stn_lifecycle_check_publication,          *)
(* stn_identity_rotation_validate).                                        *)
RetiredIdentitySilent ==
    \A h, k \in DOMAIN history :
        \A i \in DOMAIN history[h].txs, j \in DOMAIN history[k].txs :
            (TxAt(h, i).type = "ROTATE" /\ Before(h, i, k, j) /\ Governed(k, j)) =>
                /\ TxAt(k, j).type = "PUBLICATION" => TxAt(k, j).signer # TxAt(h, i).old
                /\ TxAt(k, j).type = "ROTATE" => TxAt(h, i).old \notin {TxAt(k, j).old, TxAt(k, j).new}

(* Replaying the accepted history from the empty state gives the accepted  *)
(* projections: nothing that was discarded left a trace                    *)
(* (docs/CHAIN_STATE.md, full sequence and atomic behavior).               *)
ReplayBlock(s, b) == FoldLeft(LAMBDA t, i : ReplayTx(t, b, i), s, [i \in DOMAIN b.txs |-> i])
AcceptedStateReplays ==
    [e |-> economy, a |-> authority] =
        FoldLeft(ReplayBlock, [e |-> EmptyEconomy, a |-> EmptyLifecycle], history)

(* The two entry points agree.  What state-only validation accepts,        *)
(* reconstruction with the whole prefix accepts too, and what it refuses   *)
(* without calling it unresolved, reconstruction refuses.  The exception   *)
(* is accepted share evidence, whose parent validation from state alone    *)
(* compares with the prior tip (validate_candidate with and without        *)
(* history).                                                               *)
EntryPointsAgree ==
    (Applying /\ mode = "state") =>
        LET byState   == TxOK("state", Tx, cloneE, cloneA)
            byHistory == TxOK("history", Tx, cloneE, cloneA)
        IN  /\ Tx.type # "SHARE" => (byState => byHistory)
            /\ (byHistory /\ ~byState) => TxUnresolved("state", Tx, cloneE)

-----------------------------------------------------------------------------
(* A statement of the documentation that the code does not meet.           *)

(* docs/ECONOMY.md 10: "A qualifying proof may create its share reward     *)
(* exactly once."  Consensus looks for the evidence of a share issuance in *)
(* the history but not for an earlier issuance of the same evidence.       *)
ShareRewardOnce ==
    \A h, k \in DOMAIN history :
        \A i \in DOMAIN history[h].txs, j \in DOMAIN history[k].txs :
            (/\ IsShareIssuance(TxAt(h, i))
             /\ IsShareIssuance(TxAt(k, j))
             /\ TxAt(h, i).evidence = TxAt(k, j).evidence) => h = k /\ i = j
=============================================================================
