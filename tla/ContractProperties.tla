------------------------- MODULE ContractProperties -------------------------
(***************************************************************************)
(* What the contract projection promises signers and readers.              *)
(***************************************************************************)
EXTENDS Contracts

CONSTANTS Limits        \* result limits of list queries

\* A query without room for a result is refused (stn_contract_query_identity).
ASSUME LimitsAssumption == Limits \subseteq Nat \ {0}

Entries == DOMAIN snapshot.entries
Acts(d, action) == {k \in DOMAIN log[d] : log[d][k].action = action}

(* Types of the store: capacities of entries and votes, sequence below the *)
(* top of its width.                                                       *)
TypeOK ==
    /\ Len(snapshot.entries) <= MaxContracts
    /\ Len(snapshot.slots) <= MaxVotes
    /\ \A i \in Entries :
          /\ snapshot.entries[i].state \in States
          /\ snapshot.entries[i].sequence \in 0..MaxSequence
          /\ snapshot.entries[i].count \in 0..snapshot.entries[i].eligible
    /\ lifecycle \in Lifecycles

(* docs/CONTRACTS.md: the threshold is strict majority and each eligible   *)
(* identity contributes one vote.  Whatever is attested, or was executed,  *)
(* was approved by more than half of the approvers of its draft.           *)
AttestedByMajority ==
    \A i \in Entries :
        LET d == snapshot.entries[i].draft
        IN (snapshot.entries[i].state = "ATTESTATION" \/ Acts(d, "EXECUTE") # {}) =>
               2 * Cardinality({log[d][k].actor : k \in Acts(d, "APPROVE")} \cap Approvers(d))
                   > Cardinality(Approvers(d))

(* Entries share one array of vote slots (stn_contract_state_register      *)
(* hands out ranges by participants, voting fills them by approvers): the  *)
(* slots of an entry hold exactly the approvals accepted for it.  They     *)
(* share one buffer of drafts too, which registration moves to a longer    *)
(* one and back when refused (stn_contract_snapshot_register): every entry *)
(* goes on reading the draft it was registered with.                       *)
EntriesKeepTheirOwn ==
    /\ \A i \in Entries :
          LET d == snapshot.entries[i].draft
          IN /\ Bytes(snapshot, i) = d
             /\ VotesOf(snapshot, i) = {<<d, log[d][k].actor>> : k \in Acts(d, "APPROVE")}
    /\ Cardinality({k \in DOMAIN snapshot.slots : snapshot.slots[k] # NoKey}) =
           Cardinality(UNION {{d} \X Acts(d, "APPROVE") : d \in Drafts})

(* A signed action is accepted at most once, whatever was accepted since,  *)
(* because it names the state and the sequence it was signed for.          *)
ActionActsOnce ==
    \A d \in Drafts : \A j, k \in DOMAIN log[d] : log[d][j] = log[d][k] => j = k

(* docs/CONTRACTS.md: accepted state is reconstructible from history. Two  *)
(* accounts of it must agree: votes on the store, and                      *)
(* stn_contract_rebuild_accepted_state over the plain lifecycle. They do   *)
(* when two approvals are required, the number the plain lifecycle has     *)
(* built in.                                                               *)
RebuildAgrees ==
    \A i \in Entries :
        LET d == snapshot.entries[i].draft
            r == Rebuild(DraftOf(d), log[d], Approvals(MaxSequence))
        IN snapshot.entries[i].required = 2 =>
               /\ r.ok
               /\ r.contract = Current(snapshot, i)
               /\ r.approvals.count = snapshot.entries[i].count

(* CONTRACT_LIST returns at most the limit and never a result while one    *)
(* that sorts before it is left out, in whatever order contracts were      *)
(* registered and settled (stn_contract_query_identity).                   *)
QueryListsFirst ==
    \A who \in Identities, limit \in Limits :
        LET q == Query(snapshot, who, limit)
            members == {i \in Entries : Member(snapshot, i, who)}
        IN /\ ToSet(q) \subseteq members
           /\ Len(q) = IF Cardinality(members) < limit THEN Cardinality(members) ELSE limit
           /\ \A j, k \in DOMAIN q : j < k => q[j] # q[k] /\ ~Before(snapshot, q[k], q[j])
           /\ \A i \in members \ ToSet(q), k \in DOMAIN q : ~Before(snapshot, i, q[k])

(* A later action needs a grant of that actor, action and draft that is in *)
(* force when its block is validated (contract_authorized): several roots  *)
(* may have granted the same, and one of them may have revoked.            *)
ActorInForce ==
    [][\A d \in Drafts : Len(log'[d]) > 1 /\ log'[d] # log[d] =>
          LET last == log'[d][Len(log'[d])]
          IN \E g \in lifecycle.grants :
                /\ g.subject = last.actor /\ g.scope = <<last.action, d>>
                /\ \A r \in lifecycle.revoked : r # g]_vars

=============================================================================
