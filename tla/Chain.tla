-------------------------------- MODULE Chain --------------------------------
(***************************************************************************)
(* The consensus validator (stn_chain.c).  A node extends its accepted     *)
(* history by validating one candidate block at a time against the state   *)
(* derived from that history.  The header rules come first; then the       *)
(* transactions are applied in order to candidate-local clones of the      *)
(* projections, and only a candidate whose every transaction applied is    *)
(* published.  Any failure discards the clones.                            *)
(*                                                                         *)
(* Two entry points share the code: reconstruction holds the accepted      *)
(* prefix (mode "history"), stn_chain_validate_candidate only the derived  *)
(* state (mode "state").  State-only validation feeds no stored history,   *)
(* so here it ends with its verdict.                                       *)
(*                                                                         *)
(* Abstractions.  Block identifiers are positions: the block accepted at   *)
(* height h has identifier h, and ForeignId names a block of no accepted   *)
(* history.  "sealed" stands for the checks that need only the header, the *)
(* body bytes and the required target: decoding, version, network, target, *)
(* body integrity, nonzero identifier and proof of work.  Contract actions *)
(* are not modelled in this module.  XxxFault is a faulty variant of Xxx   *)
(* that some property must notice; no behaviour uses it.                   *)
(***************************************************************************)
EXTENDS Economy, Lifecycle

CONSTANTS
    Genesis,            \* the configured anchor, height 0
    ActivationHeight,   \* publication rules apply from this height
    Offers              \* candidate blocks that may be submitted

TransactionRecords ==
    ShareRecords \cup RewardRecords \cup DestinationRecords \cup IssuanceRecords
    \cup TransferRecords \cup LifecycleRecords

BlockRecords ==
    [height : Nat, parent : BlockIds, time : Nat, sealed : BOOLEAN,
     txs : Seq(TransactionRecords)]

ASSUME ChainAssumption ==
    /\ ActivationHeight \in Nat
    /\ Genesis \in BlockRecords
    /\ Genesis.height = 0
    /\ Offers \subseteq BlockRecords

Modes == {"history", "state"}
Acceptances == {"none", "accepted", "rejected", "unresolved", "error"}

VARIABLES
    history,    \* accepted blocks, genesis first
    economy,    \* economic projection of history
    authority,  \* authority projection of history
    block,      \* block under validation
    mode,       \* how it is validated; "idle" between validations
    next,       \* position of the next transaction to apply
    cloneE,     \* candidate-local economic projection
    cloneA,     \* candidate-local authority projection
    verdict     \* acceptance of the last validation, "none" while one runs

accepted == <<history, economy, authority>>
candidate == <<block, mode, next, cloneE, cloneA>>
vars == <<accepted, candidate, verdict>>

Tip == history[Len(history)]
TipId == Len(history) - 1
Height == Len(history)          \* height of the block that would come next

Init ==
    /\ history = <<>>
    /\ economy = EmptyEconomy
    /\ authority = EmptyLifecycle
    /\ block = Genesis
    /\ mode = "idle"
    /\ next = 1
    /\ cloneE = EmptyEconomy
    /\ cloneA = EmptyLifecycle
    /\ verdict = "none"

-----------------------------------------------------------------------------
(* Header rules against the prior tip, and no transaction twice in a block *)
LinkOK(b) ==
    /\ b.sealed
    /\ \A i, j \in DOMAIN b.txs : b.txs[i] = b.txs[j] => i = j
    /\ IF history = <<>>
       THEN b = Genesis
       ELSE /\ b.height = Height
            /\ b.parent = TipId
            /\ b.time >= Tip.time

Begin(b, m) ==
    /\ mode = "idle"
    /\ LinkOK(b)
    /\ block' = b
    /\ mode' = m
    /\ next' = 1
    /\ cloneE' = economy
    /\ cloneA' = authority
    /\ verdict' = "none"
    /\ UNCHANGED accepted

RefuseLink(b) ==
    /\ mode = "idle"
    /\ ~LinkOK(b)
    /\ verdict' = "rejected"
    /\ UNCHANGED <<accepted, candidate>>

-----------------------------------------------------------------------------
(* Transaction rules.  Applying and Tx name the transaction at hand. *)
Applying == mode \in Modes /\ next <= Len(block.txs)
Tx == block.txs[next]

(* Share evidence belongs to work on a block below this one.  With the     *)
(* accepted prefix the work's parent must be the block accepted below its  *)
(* height.  From state alone only a parent equal to the prior tip can be   *)
(* checked; anything else is left unresolved.                              *)
ShareWellFormed(tx) ==
    /\ tx.proof
    /\ history # <<>>
    /\ tx.height \in 1..(block.height - 1)
ShareParentKnown(tx) == tx.height + 1 = block.height /\ tx.parent = TipId
ShareUnresolved(m, tx) ==
    m = "state" /\ ShareWellFormed(tx) /\ ~ShareParentKnown(tx)
ShareOK(m, tx, e) ==
    /\ ShareWellFormed(tx)
    /\ IF m = "history" THEN tx.parent = tx.height - 1 ELSE ShareParentKnown(tx)
    /\ ShareFresh(e, tx)

(* A stand-alone issuance pays for share evidence of an earlier block. *)
ShareIssuanceUnresolved(m, tx, e) ==
    m = "state" /\ IsShareIssuance(tx) /\ e.destination[tx.miner] = tx.wallet
ShareIssuanceOKFault(m, tx, e) ==           \* the evidence is not looked up
    /\ m = "history"
    /\ IsShareIssuance(tx)
    /\ IssuanceBound(e, tx, tx.evidence)
    /\ CreditFits(e, tx)
ShareIssuanceOK(m, tx, e) ==
    /\ m = "history"
    /\ IsShareIssuance(tx)
    /\ \E h \in DOMAIN history : \E i \in DOMAIN history[h].txs :
           /\ history[h].txs[i].type = "SHARE"
           /\ IssuanceBound(e, tx, history[h].txs[i])
    /\ CreditFits(e, tx)

(* Block evidence names an accepted block and is followed by its issuance. *)
RewardPaired == next < Len(block.txs)
RewardBlockKnownFault(m, tx) ==             \* state alone trusts the evidence
    IF m = "history" THEN tx.block \in 0..TipId ELSE history # <<>>
RewardBlockKnown(m, tx) ==
    IF m = "history" THEN tx.block \in 0..TipId
                     ELSE history # <<>> /\ tx.block = TipId
RewardUnresolved(m, tx) == m = "state" /\ RewardPaired /\ ~RewardBlockKnown(m, tx)
RewardPairOK(m, tx, e) ==
    /\ RewardPaired
    /\ RewardBlockKnown(m, tx)
    /\ RewardOK(e, tx, block.txs[next + 1])

(* Publications below the activation height carry no consensus meaning. *)
Dormant(tx) == tx.type = "PUBLICATION" /\ block.height < ActivationHeight

TxOK(m, tx, e, a) ==
    \/ tx.type = "SHARE" /\ ShareOK(m, tx, e)
    \/ tx.type = "REWARD" /\ RewardPairOK(m, tx, e)
    \/ tx.type = "DESTINATION" /\ DestinationOK(e, tx)
    \/ tx.type = "ISSUANCE" /\ ShareIssuanceOK(m, tx, e)
    \/ tx.type = "TRANSFER" /\ TransferOK(e, tx)
    \/ tx.type = "GRANT" /\ GrantOK(a, tx)
    \/ tx.type = "REVOKE" /\ RevocationOK(a, tx)
    \/ tx.type = "ROTATE" /\ RotationOK(a, tx)
    \/ tx.type = "PUBLICATION" /\ (Dormant(tx) \/ PublicationOK(a, tx))

TxUnresolved(m, tx, e) ==
    \/ tx.type = "SHARE" /\ ShareUnresolved(m, tx)
    \/ tx.type = "REWARD" /\ RewardUnresolved(m, tx)
    \/ tx.type = "ISSUANCE" /\ ShareIssuanceUnresolved(m, tx, e)

TxError(tx, a) ==
    \/ tx.type = "REVOKE" /\ RevocationError(a, tx)
    \/ tx.type = "ROTATE" /\ RotationError(a, tx)

-----------------------------------------------------------------------------
(* One pass of the transaction loop *)
Advance(count) ==
    /\ next' = next + count
    /\ UNCHANGED <<accepted, block, mode, verdict>>

ApplyEconomic(type, after) ==
    /\ Applying
    /\ Tx.type = type
    /\ TxOK(mode, Tx, cloneE, cloneA)
    /\ cloneE' = after
    /\ cloneA' = cloneA

ApplyAuthority(type, after) ==
    /\ Applying
    /\ Tx.type = type
    /\ TxOK(mode, Tx, cloneE, cloneA)
    /\ cloneA' = after
    /\ cloneE' = cloneE

AcceptShare == ApplyEconomic("SHARE", ConsumeShare(cloneE, Tx)) /\ Advance(1)
AcceptDestination == ApplyEconomic("DESTINATION", SetDestination(cloneE, Tx)) /\ Advance(1)
AcceptShareIssuance == ApplyEconomic("ISSUANCE", Credit(cloneE, Tx)) /\ Advance(1)
AcceptTransfer == ApplyEconomic("TRANSFER", ApplyTransfer(cloneE, Tx)) /\ Advance(1)
AcceptReward ==
    ApplyEconomic("REWARD", ApplyReward(cloneE, Tx, block.txs[next + 1])) /\ Advance(2)

AcceptGrant == ApplyAuthority("GRANT", ApplyGrant(cloneA, Tx)) /\ Advance(1)
AcceptRevocation == ApplyAuthority("REVOKE", ApplyRevocation(cloneA, Tx)) /\ Advance(1)
AcceptRotation == ApplyAuthority("ROTATE", ApplyRotation(cloneA, Tx)) /\ Advance(1)
AcceptPublication ==
    /\ ApplyAuthority("PUBLICATION", IF Dormant(Tx) THEN cloneA ELSE Consume(cloneA, Tx))
    /\ Advance(1)

(* What an accepted transaction leaves of the projections s.e and s.a, as  *)
(* a function: the same arms without the loop around them.                *)
ReplayTx(s, b, i) ==
    LET tx == b.txs[i] IN
    CASE tx.type = "SHARE"       -> [s EXCEPT !.e = ConsumeShare(@, tx)]
      [] tx.type = "DESTINATION" -> [s EXCEPT !.e = SetDestination(@, tx)]
      [] IsShareIssuance(tx)     -> [s EXCEPT !.e = Credit(@, tx)]
      [] IsBlockIssuance(tx)     -> s
      [] tx.type = "REWARD"      -> [s EXCEPT !.e = ApplyReward(@, tx, b.txs[i + 1])]
      [] tx.type = "TRANSFER"    -> [s EXCEPT !.e = ApplyTransfer(@, tx)]
      [] tx.type = "GRANT"       -> [s EXCEPT !.a = ApplyGrant(@, tx)]
      [] tx.type = "REVOKE"      -> [s EXCEPT !.a = ApplyRevocation(@, tx)]
      [] tx.type = "ROTATE"      -> [s EXCEPT !.a = ApplyRotation(@, tx)]
      [] tx.type = "PUBLICATION" ->
            IF b.height < ActivationHeight THEN s ELSE [s EXCEPT !.a = Consume(@, tx)]

(* The first transaction that fails ends the validation; the clones go.    *)
DiscardFault ==                             \* in-place changes survive
    /\ Applying
    /\ ~TxOK(mode, Tx, cloneE, cloneA)
    /\ verdict' = "rejected"
    /\ block' = Genesis
    /\ mode' = "idle"
    /\ next' = 1
    /\ economy' = cloneE
    /\ authority' = cloneA
    /\ UNCHANGED <<history, cloneE, cloneA>>
Discard ==
    /\ Applying
    /\ ~TxOK(mode, Tx, cloneE, cloneA)
    /\ verdict' = IF TxUnresolved(mode, Tx, cloneE) THEN "unresolved"
                  ELSE IF TxError(Tx, cloneA) THEN "error" ELSE "rejected"
    /\ block' = Genesis
    /\ mode' = "idle"
    /\ next' = 1
    /\ cloneE' = economy
    /\ cloneA' = authority
    /\ UNCHANGED accepted

(* Every transaction applied: the clones become the accepted projections. *)
Publish ==
    /\ mode \in Modes
    /\ next > Len(block.txs)
    /\ IF mode = "history"
       THEN /\ history' = Append(history, block)
            /\ economy' = cloneE
            /\ authority' = cloneA
       ELSE UNCHANGED accepted
    /\ verdict' = "accepted"
    /\ block' = Genesis
    /\ mode' = "idle"
    /\ next' = 1
    /\ cloneE' = economy'
    /\ cloneA' = authority'

Next ==
    \/ \E b \in Offers \cup {Genesis} : RefuseLink(b) \/ \E m \in Modes : Begin(b, m)
    \/ AcceptShare \/ AcceptDestination \/ AcceptShareIssuance
    \/ AcceptTransfer \/ AcceptReward
    \/ AcceptGrant \/ AcceptRevocation \/ AcceptRotation \/ AcceptPublication
    \/ Discard
    \/ Publish

Spec == Init /\ [][Next]_vars
=============================================================================
