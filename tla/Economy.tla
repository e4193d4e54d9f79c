------------------------------- MODULE Economy -------------------------------
(***************************************************************************)
(* The economic projection of accepted history: compensation destinations, *)
(* wallet balances and supply, and the three sets of consumed replay keys  *)
(* (share evidence, block-compensation evidence, transfer nonces).         *)
(*                                                                         *)
(* Constant-level operators over a record, one per operation of            *)
(* stn_compensation_state.c, stn_economic_state.c, stn_share_replay.c,     *)
(* stn_block_compensation_*.c and stn_transfer_envelope_*.c.  A predicate  *)
(* says when the operation returns OK, an operator what it then leaves.    *)
(*                                                                         *)
(* Abstractions.  A record is identified by its contents, so the canonical *)
(* identifier of a share (or of block evidence) is the record itself.      *)
(* "proof" stands for every stateless check of a share record (decoding,   *)
(* header version, zero template nonce, body commitment, network, Work ID, *)
(* the reproduced hash against the Share Target of the header the record   *)
(* retains), "historical" tells whether that header carries the target the *)
(* chain required at its height, and "signed" stands for the derivation of *)
(* the source wallet from the controller, the nonzero nonce and the        *)
(* signature of a transfer.  Row capacities cannot bind: a clone adds      *)
(* STN_BLOCK_MAX_TRANSACTIONS rows and a transaction adds one.             *)
(***************************************************************************)
EXTENDS Integers, Sequences, FiniteSets

CONSTANTS
    Miners,             \* stn0_ mining identities
    Wallets,            \* stnw0_ wallets
    NoWallet,           \* a miner without a compensation destination
    ForeignId,          \* a block identifier outside the accepted history
    Nonces,             \* share and transfer nonces
    ShareUnits,         \* STN_ISSUANCE_SHARE_UNITS
    BlockUnits,         \* STN_ISSUANCE_BLOCK_UNITS
    MaxUnits,           \* UINT64_MAX
    RewardCapacity      \* STN_BLOCK_COMPENSATION_REPLAY_CAPACITY

ASSUME EconomyAssumption ==
    /\ IsFiniteSet(Wallets) /\ NoWallet \notin Wallets
    /\ ForeignId \notin Nat
    /\ ShareUnits \in Nat \ {0}
    /\ BlockUnits \in Nat \ {0}
    /\ MaxUnits \in Nat
    /\ RewardCapacity \in Nat

-----------------------------------------------------------------------------
(* Block identifiers are positions in the accepted history, or foreign *)
BlockIds == Nat \cup {ForeignId}

(* Canonical records *)
ShareRecords ==
    [type : {"SHARE"}, miner : Miners, height : Nat, parent : BlockIds,
     nonce : Nonces, proof : BOOLEAN, historical : BOOLEAN]
RewardRecords == [type : {"REWARD"}, block : BlockIds, miner : Miners]
DestinationRecords == [type : {"DESTINATION"}, miner : Miners, wallet : Wallets]
IssuanceRecords ==
    [type : {"ISSUANCE"}, evidence : ShareRecords \cup RewardRecords,
     miner : Miners, wallet : Wallets]
TransferRecords ==
    [type : {"TRANSFER"}, source : Wallets, destination : Wallets,
     units : Nat, nonce : Nonces, signed : BOOLEAN]

\* The reason byte of an issuance follows its evidence, the units its reason.
IsShareIssuance(tx) == tx.type = "ISSUANCE" /\ tx.evidence.type = "SHARE"
IsBlockIssuance(tx) == tx.type = "ISSUANCE" /\ tx.evidence.type = "REWARD"
UnitsOf(tx) == IF IsShareIssuance(tx) THEN ShareUnits ELSE BlockUnits

\* A share's replay key binds the Work ID, the miner and the nonce.
WorkId(tx) == <<tx.height, tx.parent, tx.historical>>
ShareKey(tx) == <<WorkId(tx), tx.miner, tx.nonce>>
TransferKey(tx) == <<tx.source, tx.nonce>>

-----------------------------------------------------------------------------
(* The projection *)

Economies ==
    [destination : [Miners -> Wallets \cup {NoWallet}],
     balance     : [Wallets -> 0..MaxUnits],
     supply      : 0..MaxUnits,
     shares      : SUBSET ((Nat \X BlockIds \X BOOLEAN) \X Miners \X Nonces),
     rewards     : SUBSET RewardRecords,
     spent       : SUBSET (Wallets \X Nonces)]

EmptyEconomy ==
    [destination |-> [m \in Miners |-> NoWallet],
     balance     |-> [w \in Wallets |-> 0],
     supply      |-> 0,
     shares      |-> {},
     rewards     |-> {},
     spent       |-> {}]

-----------------------------------------------------------------------------
(* Compensation destinations: the first mapping of a miner wins for ever *)

DestinationOKFault(e, tx) == TRUE           \* a later mapping overwrites
DestinationOK(e, tx) == e.destination[tx.miner] \in {NoWallet, tx.wallet}
SetDestination(e, tx) == [e EXCEPT !.destination[tx.miner] = tx.wallet]

(* An issuance must pay the wallet its miner has chosen *)
IssuanceBound(e, tx, evidence) ==
    /\ tx.evidence = evidence
    /\ tx.miner = evidence.miner
    /\ e.destination[tx.miner] = tx.wallet

CreditFits(e, tx) ==
    /\ e.supply + UnitsOf(tx) <= MaxUnits
    /\ e.balance[tx.wallet] + UnitsOf(tx) <= MaxUnits

\* the supply is raised only when the wallet has no row yet
CreditFault(e, tx) ==
    [e EXCEPT !.balance[tx.wallet] = @ + UnitsOf(tx),
              !.supply = IF e.balance[tx.wallet] = 0 THEN @ + UnitsOf(tx) ELSE @]
Credit(e, tx) ==
    [e EXCEPT !.balance[tx.wallet] = @ + UnitsOf(tx),
              !.supply = @ + UnitsOf(tx)]

(* Share evidence is consumed once *)
ShareFresh(e, tx) == ShareKey(tx) \notin e.shares
ConsumeShare(e, tx) == [e EXCEPT !.shares = @ \cup {ShareKey(tx)}]

(* Block evidence and its issuance are accepted together or not at all *)
RewardOKFault(e, evidence, issuance) ==     \* no replay check
    /\ IsBlockIssuance(issuance)
    /\ IssuanceBound(e, issuance, evidence)
    /\ CreditFits(e, issuance)
RewardOK(e, evidence, issuance) ==
    /\ IsBlockIssuance(issuance)
    /\ IssuanceBound(e, issuance, evidence)
    /\ evidence \notin e.rewards
    /\ Cardinality(e.rewards) < RewardCapacity
    /\ CreditFits(e, issuance)
ApplyReward(e, evidence, issuance) ==
    Credit([e EXCEPT !.rewards = @ \cup {evidence}], issuance)

(* Transfers: authorised, fresh, funded, between two wallets *)
TransferOKFault(e, tx) ==                   \* funds are not checked
    /\ tx.signed
    /\ TransferKey(tx) \notin e.spent
    /\ tx.units # 0
    /\ tx.source # tx.destination
    /\ e.balance[tx.destination] + tx.units <= MaxUnits
TransferOK(e, tx) ==
    /\ tx.signed
    /\ TransferKey(tx) \notin e.spent
    /\ tx.units # 0
    /\ tx.source # tx.destination
    /\ tx.units <= e.balance[tx.source]
    /\ e.balance[tx.destination] + tx.units <= MaxUnits
ApplyTransfer(e, tx) ==
    [e EXCEPT !.balance[tx.source] = @ - tx.units,
              !.balance[tx.destination] = @ + tx.units,
              !.spent = @ \cup {TransferKey(tx)}]
=============================================================================
