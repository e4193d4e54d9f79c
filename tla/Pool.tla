-------------------------------- MODULE Pool --------------------------------
(***************************************************************************)
(* The in-memory pool of transactions waiting for a block: stn_pending.c,  *)
(* and the two layers the mining service puts over it,                     *)
(* stn_share_pending.c and stn_block_compensation_candidate.c              *)
(* (stn_mining.h redirects the plain names to them).  Operators over a     *)
(* pool p, a set of transactions, and a view v of the accepted chain.      *)
(*                                                                         *)
(* Abstractions.  A transaction is its own identifier.  Identifiers are    *)
(* hashes, so the order in which the pool enumerates is any order: IdOf    *)
(* gives the one of an instance, for the transactions that occur in it.    *)
(* The byte budget is left to the entry count.                             *)
(* "REFUSED" stands for INVALID, REPLAY, SIGNATURE, AUTHORITY, NETWORK and *)
(* TIME.  Contract actions are left out: they are inserted and selected    *)
(* like statements, with no check at all.  XxxFault is a faulty variant of *)
(* Xxx that some property must notice; no behaviour uses it.               *)
(***************************************************************************)
EXTENDS Economy, Lifecycle, SequencesExt

CONSTANTS
    Genesis,            \* the configured anchor
    ActivationHeight,   \* publication rules apply from this height
    Offers,             \* blocks other nodes and miners produce
    IdOf,               \* the identifier of every transaction, as a number
    MaxEntries,         \* STN_PENDING_MAX_ENTRIES
    MaxBody,            \* STN_BLOCK_MAX_TRANSACTIONS
    Endorsed            \* publications the operator's context accepts

Transactions ==
    ShareRecords \cup RewardRecords \cup DestinationRecords \cup IssuanceRecords
    \cup TransferRecords \cup LifecycleRecords
Blocks ==
    [height : Nat, parent : BlockIds, time : Nat, sealed : BOOLEAN, txs : Seq(Transactions)]

ASSUME PoolAssumption ==
    /\ Genesis \in Blocks
    /\ Offers \subseteq Blocks
    /\ IdOf \in [DOMAIN IdOf -> Nat] /\ IsInjective(IdOf)
    /\ MaxEntries \in Nat /\ MaxEntries >= 4
    /\ MaxBody \in Nat /\ MaxBody >= 2

\* The validator, applied to transaction i of block b over history h.
Validator(h, b, i) ==
    INSTANCE Chain WITH
        history <- h, block <- b, next <- i, mode <- "history", verdict <- "none",
        economy <- EmptyEconomy, authority <- EmptyLifecycle,
        cloneE <- EmptyEconomy, cloneA <- EmptyLifecycle

-----------------------------------------------------------------------------
(* A view of the chain is a history with the projections derived from it.  *)
EmptyView == [history |-> <<>>, economy |-> EmptyEconomy, authority |-> EmptyLifecycle]
TipOf(v) == Len(v.history) - 1

(* One pass of the transaction loop; paired marks the issuance that its    *)
(* evidence took with it.                                                  *)
AppliedTx(v, b, s, i) ==
    IF ~s.ok \/ s.paired THEN [s EXCEPT !.paired = FALSE]
    ELSE IF ~Validator(v.history, b, i)!TxOK("history", b.txs[i], s.e, s.a)
    THEN [s EXCEPT !.ok = FALSE]
    ELSE LET r == Validator(v.history, b, i)!ReplayTx([e |-> s.e, a |-> s.a], b, i)
         IN [s EXCEPT !.e = r.e, !.a = r.a, !.paired = b.txs[i].type = "REWARD"]

\* The projections after the transactions of b; ok tells whether all applied.
Applied(v, b) ==
    FoldLeft(LAMBDA s, i : AppliedTx(v, b, s, i),
             [ok |-> TRUE, paired |-> FALSE, e |-> v.economy, a |-> v.authority],
             [i \in DOMAIN b.txs |-> i])

Accepts(v, b) == Validator(v.history, b, 1)!LinkOK(b) /\ Applied(v, b).ok
Extended(v, b) ==
    LET s == Applied(v, b)
    IN [history |-> Append(v.history, b), economy |-> s.e, authority |-> s.a]

AcceptedTxs(v) == UNION {ToSet(v.history[h].txs) : h \in DOMAIN v.history}

-----------------------------------------------------------------------------
(* Signer and nonce of an entry; those of different types never coincide.  *)
SignerNonce(tx) ==
    CASE tx.type = "SHARE" -> <<tx.type, ShareKey(tx)>>
      [] tx.type = "REWARD" -> <<tx.type, tx>>
      [] tx.type = "DESTINATION" -> <<tx.type, <<tx.miner, tx.wallet>>>>
      [] tx.type = "ISSUANCE" -> <<tx.type, <<tx.miner, tx.evidence>>>>
      [] tx.type = "TRANSFER" -> <<tx.type, TransferKey(tx)>>
      [] OTHER -> <<tx.type, ReplayKey(tx)>>
SameNonce(tx, other) ==
    tx.type = other.type /\ SignerNonce(tx) = SignerNonce(other)

Statement(tx) == tx.type \in {"GRANT", "REVOKE", "ROTATE"}

(* What the scan of the history masks as replayed.  The comparison meant   *)
(* for statements starts at the length prefix of the accepted transaction, *)
(* four bytes early, and never matches.                                    *)
Replayed(v, tx) ==
    \E u \in AcceptedTxs(v) :
        ~Statement(u) /\ u.type # "REWARD" /\ SameNonce(u, tx)

(* With a hash provider the scan knows no block-compensation evidence and  *)
(* fails on a history that carries any.                                    *)
ScanFails(v) == \E u \in AcceptedTxs(v) : u.type = "REWARD"

Inclusions(p, txs) == p \cap txs            \* exact identifiers only
Pruned(p, v) == p \ Inclusions(p, AcceptedTxs(v))

-----------------------------------------------------------------------------
(* Admission *)
Stored(p, tx) ==
    IF tx \in p THEN "DUPLICATE"
    ELSE IF Cardinality(p) >= MaxEntries THEN "CAPACITY" ELSE "ACCEPTED"

\* A share leaves room for its issuance and for the pair of the next block.
ShareHasRoomFault(p) == Cardinality(p) <= MaxEntries - 3
ShareHasRoom(p) == Cardinality(p) <= MaxEntries - 4
AdmitShare(p, v, tx) ==
    IF ~ShareHasRoom(p) THEN "CAPACITY"
    ELSE IF ~ShareFresh(v.economy, tx) THEN "REFUSED" ELSE Stored(p, tx)

BoundIn(v, tx, txs, type) ==
    \E u \in txs : u.type = type /\ IssuanceBound(v.economy, tx, u)
Issued(v, tx) == \E u \in AcceptedTxs(v) : u.type = "ISSUANCE" /\ u.evidence = tx.evidence

AdmitShareIssuance(p, v, tx) ==
    IF BoundIn(v, tx, p, "SHARE") THEN Stored(p, tx)
    ELSE IF v.economy.destination[tx.miner] = NoWallet THEN "UNAVAILABLE"
    ELSE IF v.economy.destination[tx.miner] # tx.wallet \/ Issued(v, tx) THEN "REFUSED"
    ELSE IF BoundIn(v, tx, AcceptedTxs(v), "SHARE") THEN Stored(p, tx) ELSE "UNAVAILABLE"

AdmitBlockIssuance(p, v, tx) ==
    IF BoundIn(v, tx, p, "REWARD") THEN Stored(p, tx) ELSE "UNAVAILABLE"

AdmitReward(p, v, tx) == IF tx.block \in 0..TipOf(v) THEN Stored(p, tx) ELSE "REFUSED"

AdmitDestination(p, v, tx) ==
    IF DestinationOK(v.economy, tx) THEN Stored(p, tx) ELSE "REFUSED"

\* Against the accepted balance alone, whatever else the pool will spend.
AdmitTransfer(p, v, tx) ==
    IF ~tx.signed \/ tx.units > v.economy.balance[tx.source] THEN "REFUSED"
    ELSE IF tx \in p THEN "DUPLICATE"
    ELSE IF (\E u \in p : SameNonce(u, tx)) \/ TransferKey(tx) \in v.economy.spent
    THEN "REFUSED" ELSE Stored(p, tx)

Production(v) == Len(v.history) >= ActivationHeight
PublicationEligible(v, tx) ==
    IF Production(v) THEN PublicationOK(v.authority, tx) ELSE tx \in Endorsed
AdmitPublication(p, v, tx) ==
    IF ~PublicationEligible(v, tx) THEN "REFUSED"
    ELSE IF tx \in p THEN "DUPLICATE"
    ELSE IF \E u \in p : SameNonce(u, tx) THEN "REFUSED"
    ELSE IF ScanFails(v) THEN "PROVIDER"
    ELSE IF Replayed(v, tx) THEN "REFUSED" ELSE Stored(p, tx)

\* Statements are stored without a look at signature, state or history.
Admission(p, v, tx) ==
    CASE tx.type = "SHARE" -> AdmitShare(p, v, tx)
      [] tx.type = "REWARD" -> AdmitReward(p, v, tx)
      [] IsBlockIssuance(tx) -> AdmitBlockIssuance(p, v, tx)
      [] IsShareIssuance(tx) -> AdmitShareIssuance(p, v, tx)
      [] tx.type = "DESTINATION" -> AdmitDestination(p, v, tx)
      [] tx.type = "TRANSFER" -> AdmitTransfer(p, v, tx)
      [] tx.type = "PUBLICATION" -> AdmitPublication(p, v, tx)
      [] Statement(tx) -> Stored(p, tx)

\* The pool after an admission that answered a.
With(p, tx, a) == IF a = "ACCEPTED" THEN p \cup {tx} ELSE p

-----------------------------------------------------------------------------
(* Assembly of a body: entries in the order of their identifiers, as many  *)
(* as fit, then as many block-compensation pairs as still fit.             *)
Enumerated(p) == p \cap DOMAIN IdOf
Nth(S, n) == CHOOSE tx \in S : Cardinality({u \in S : IdOf[u] < IdOf[tx]}) = n - 1
Least(m, n) == IF m < n THEN m ELSE n

ShareEligibleFault(v, tx) == tx.parent = tx.height - 1     \* before its block
ShareEligible(v, tx) == tx.height \in 1..TipOf(v) /\ tx.parent = tx.height - 1
ShareIssuanceEligible(v, tx) ==
    ~Issued(v, tx) /\ BoundIn(v, tx, AcceptedTxs(v), "SHARE")

Selectable(v, tx) ==
    /\ ~Replayed(v, tx)
    /\ tx.type = "SHARE" => ShareEligible(v, tx)
    /\ IsShareIssuance(tx) => ShareIssuanceEligible(v, tx)
    /\ tx.type = "PUBLICATION" => PublicationEligible(v, tx)
    /\ ~IsBlockIssuance(tx)
    /\ tx.type # "REWARD"
Generic(p, v) ==
    LET chosen == {tx \in Enumerated(p) : Selectable(v, tx)}
    IN [n \in 1..Least(Cardinality(chosen), MaxBody) |-> Nth(chosen, n)]

RewardEligibleFault(v, tx) == tx.block \in 0..TipOf(v)
RewardEligible(v, tx) == tx.block \in 0..TipOf(v) /\ tx \notin v.economy.rewards
IssuancesOf(p, v, tx) == {u \in p : IsBlockIssuance(u) /\ IssuanceBound(v.economy, u, tx)}
PairOf(p, v, tx) == <<tx, CHOOSE u \in IssuancesOf(p, v, tx) : TRUE>>
Payable(p, v) ==         \* evidence whose pair may be offered
    {tx \in Enumerated(p) :
        tx.type = "REWARD" /\ RewardEligible(v, tx) /\ IssuancesOf(p, v, tx) # {}}
Assembled(p, v) ==
    LET body == Generic(p, v)
        pairs == Least(Cardinality(Payable(p, v)), (MaxBody - Len(body)) \div 2)
        Evidence(k) == Nth(Payable(p, v), (k + 1) \div 2)
    IN body \o [k \in 1..(2 * pairs) |-> PairOf(p, v, Evidence(k))[2 - (k % 2)]]

-----------------------------------------------------------------------------
(* Identifiers are positions in the accepted history: when all blocks from *)
(* position k on are replaced, what named one of them names a foreign one. *)
Renamed(id, k) == IF id = ForeignId \/ id < k THEN id ELSE ForeignId
Detached(tx, k) ==
    CASE tx.type = "SHARE" -> [tx EXCEPT !.parent = Renamed(@, k)]
      [] tx.type = "REWARD" -> [tx EXCEPT !.block = Renamed(@, k)]
      [] IsShareIssuance(tx) -> [tx EXCEPT !.evidence.parent = Renamed(@, k)]
      [] IsBlockIssuance(tx) -> [tx EXCEPT !.evidence.block = Renamed(@, k)]
      [] OTHER -> tx
=============================================================================
