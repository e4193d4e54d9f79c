------------------------------ MODULE Contracts ------------------------------
(***************************************************************************)
(* The contract projection of accepted history: the store of registered    *)
(* drafts and their votes (stn_contract_state.c, stn_contract_snapshot.c,  *)
(* stn_contract_consensus.c), the lifecycle of a contract (stn_contract.c),*)
(* the contract arm of the validator (stn_chain.c) and the list query.     *)
(*                                                                         *)
(* Abstractions.  A draft is its own identifier; the canonical bytes of a  *)
(* contract are the triple of draft, state and sequence, because lineage   *)
(* compares everything else.  "signed" stands for the signature over those *)
(* bytes, actor, action and sequence.  Authority is module Lifecycle, with *)
(* the pair of an action and a draft as scope.                             *)
(*                                                                         *)
(* The decoder allows a CREATE no evidence and the arm accepts nothing     *)
(* without, so through blocks no contract ever begins.                     *)
(* Registration is what callers of the library, the tests among them, do.  *)
(* XxxFault is a faulty variant of Xxx that some property must notice.     *)
(***************************************************************************)
EXTENDS Lifecycle, SequencesExt

CONSTANTS
    Participants,       \* the sequence of [identity, role] of every draft
    CreatedAt,          \* rank of every draft by time of creation, then identifier
    MaxContracts,       \* STN_CONTRACT_STATE_MAX_CONTRACTS
    MaxVotes,           \* STN_CONTRACT_STATE_MAX_VOTES
    MaxSequence,        \* stands for UINT64_MAX
    NoKey, NoEvidence

Drafts == DOMAIN Participants

States == {"DRAFT", "ISSUED", "REVIEW", "APPROVALS", "ATTESTATION",
           "EXECUTED", "REJECTED", "REVOKED", "CLOSED"}
Actions == {"CREATE", "AMEND", "APPROVE", "REJECT", "EXECUTE", "REVOKE", "CLOSE"}

VARIABLES
    snapshot,   \* drafts held, entries, vote slots
    lifecycle,  \* grants and revocations
    log         \* per draft, what was accepted (no code reads it)

vars == <<snapshot, lifecycle, log>>

-----------------------------------------------------------------------------
(* The lifecycle of one contract *)
Open == {"ISSUED", "REVIEW", "APPROVALS", "ATTESTATION"}
OtherMoves ==
    ({"CREATE"} \X {"DRAFT"} \X {"ISSUED"})
    \cup ({"AMEND"} \X {"ISSUED", "REVIEW"} \X {"REVIEW"})
    \cup ({"REJECT"} \X Open \X {"REJECTED"})
    \cup ({"EXECUTE"} \X {"ATTESTATION"} \X {"EXECUTED"})
    \cup ({"REVOKE"} \X (Open \cup {"EXECUTED"}) \X {"REVOKED"})
    \cup ({"CLOSE"} \X {"EXECUTED", "REJECTED", "REVOKED"} \X {"CLOSED"})
MovesFault ==                               \* one plain approval attests
    OtherMoves \cup ({"APPROVE"} \X {"REVIEW", "APPROVALS"} \X {"ATTESTATION"})
Moves ==
    OtherMoves \cup {<<"APPROVE", "REVIEW", "APPROVALS">>,
                     <<"APPROVE", "APPROVALS", "ATTESTATION">>}

\* A contract c is [draft, state, sequence].
DraftOf(d) == [draft |-> d, state |-> "DRAFT", sequence |-> 0]
NextInSequenceTopFault(c, sequence) == sequence = c.sequence + 1
NextInSequenceFault(c, sequence) == c.sequence # MaxSequence      \* any number
NextInSequence(c, sequence) == c.sequence # MaxSequence /\ sequence = c.sequence + 1
ApplyOK(c, action, sequence) ==
    NextInSequence(c, sequence) /\ \E s \in States : <<action, c.state, s>> \in Moves
ApplyAction(c, action, sequence) ==
    [c EXCEPT !.state = CHOOSE s \in States : <<action, c.state, s>> \in Moves,
              !.sequence = sequence]

-----------------------------------------------------------------------------
(* The store.  A snapshot keeps the bytes of its drafts in one buffer that *)
(* registration replaces by a longer one; an entry knows its place in it.  *)
(* As many vote slots are reserved as a draft has participants.            *)
Empty == [drafts |-> <<>>, entries |-> <<>>, slots |-> <<>>]

ApproversAt(d) == {i \in DOMAIN Participants[d] : Participants[d][i].role = "APPROVER"}
Approvers(d) == {Participants[d][i].identity : i \in ApproversAt(d)}
VotesInitialize(d) ==   \* some approver, and none twice
    ApproversAt(d) # {} /\ Cardinality(Approvers(d)) = Cardinality(ApproversAt(d))
Required(d) == Cardinality(Approvers(d)) \div 2 + 1

Registered(s) == {s.entries[i].draft : i \in DOMAIN s.entries}
RegisterOK(s, d) ==
    /\ d \notin Registered(s)
    /\ Len(s.entries) < MaxContracts
    /\ Len(Participants[d]) <= MaxVotes - Len(s.slots)
    /\ VotesInitialize(d)
Grown(s, d) ==
    [drafts  |-> Append(s.drafts, d),
     entries |-> Append(s.entries,
         [draft |-> d, at |-> Len(s.drafts) + 1, state |-> "DRAFT", sequence |-> 0,
          offset |-> Len(s.slots), eligible |-> Cardinality(Approvers(d)),
          required |-> Required(d), count |-> 0]),
     slots   |-> s.slots \o [i \in DOMAIN Participants[d] |-> NoKey]]
RegisterFault(s, d) ==          \* a refused draft stays in front in the buffer
    IF RegisterOK(s, d) THEN Grown(s, d) ELSE [s EXCEPT !.drafts = <<d>> \o @]
Register(s, d) == IF RegisterOK(s, d) THEN Grown(s, d) ELSE s

Bytes(s, i) == s.drafts[s.entries[i].at]            \* the draft an entry reads
Current(s, i) ==
    [draft |-> Bytes(s, i), state |-> s.entries[i].state,
     sequence |-> s.entries[i].sequence]
Stored(s, i, c) ==
    [s EXCEPT !.entries[i] = [@ EXCEPT !.state = c.state, !.sequence = c.sequence]]

(* A vote is keyed by contract and actor and counts once.                  *)
VoteKey(s, i, actor) == <<s.entries[i].draft, actor>>
VotesOf(s, i) ==
    {s.slots[k] : k \in s.entries[i].offset + 1 .. s.entries[i].offset + s.entries[i].count}
VoteOKFault(s, i, sequence, actor) ==               \* votes are not compared
    /\ s.entries[i].state \in {"REVIEW", "APPROVALS"}
    /\ NextInSequence(Current(s, i), sequence)
    /\ actor \in Approvers(Bytes(s, i))
    /\ s.entries[i].count < s.entries[i].eligible
VoteOK(s, i, sequence, actor) ==
    /\ s.entries[i].state \in {"REVIEW", "APPROVALS"}
    /\ NextInSequence(Current(s, i), sequence)
    /\ actor \in Approvers(Bytes(s, i))
    /\ VoteKey(s, i, actor) \notin VotesOf(s, i)
    /\ s.entries[i].count < s.entries[i].eligible
ApplyVoteFault(s, i, sequence, actor) ==            \* every entry's votes at the front
    LET e == s.entries[i]
        reached == e.count + 1 >= e.required
    IN [s EXCEPT !.slots[e.count + 1] = VoteKey(s, i, actor),
                 !.entries[i] = [e EXCEPT
                     !.count = @ + 1,
                     !.state = IF reached THEN "ATTESTATION" ELSE "APPROVALS",
                     !.sequence = sequence]]
ApplyVote(s, i, sequence, actor) ==
    LET e == s.entries[i]
        reached == e.count + 1 >= e.required
    IN [s EXCEPT !.slots[e.offset + e.count + 1] = VoteKey(s, i, actor),
                 !.entries[i] = [e EXCEPT
                     !.count = @ + 1,
                     !.state = IF reached THEN "ATTESTATION" ELSE "APPROVALS",
                     !.sequence = sequence]]

-----------------------------------------------------------------------------
(* The contract arm of the validator.  A transaction carries the bytes its *)
(* signer saw as current, the sequence it asks for and, unless it is a     *)
(* CREATE, authority evidence.                                             *)
Decodes(tx) == (tx.action = "CREATE") <=> (tx.evidence = NoEvidence)

\* The signature binds current bytes, sequence, action and actor; the scope
\* of evidence is the action and the identifier of the draft.
Authenticated(tx) == tx.signed
EvidenceFor(actor, action, d) == [actor |-> actor, scope |-> <<action, d>>]
Evidenced(tx) == tx.evidence = EvidenceFor(tx.actor, tx.action, tx.current.draft)

AuthorizedFault(l, tx) ==                           \* revocations are not consulted
    /\ Authenticated(tx)
    /\ Evidenced(tx)
    /\ \E g \in l.grants : tx.evidence = EvidenceFor(g.subject, g.scope[1], g.scope[2])
Authorized(l, tx) ==
    /\ Authenticated(tx)
    /\ Evidenced(tx)
    /\ \E g \in l.grants \ l.revoked :
          tx.evidence = EvidenceFor(g.subject, g.scope[1], g.scope[2])

\* The first entry of the lineage of the bytes in tx, 0 if there is none.
SameLineage(s, e, c) == s.drafts[e.at] = c.draft
EntryFor(s, tx) == SelectInSeq(s.entries, LAMBDA e : SameLineage(s, e, tx.current))

CreateOK(s, l, tx) ==
    /\ tx.current.state = "DRAFT" /\ tx.current.sequence = 0
    /\ Authorized(l, tx)
    /\ RegisterOK(s, tx.current.draft)
    /\ ApplyOK(tx.current, "CREATE", tx.sequence)
Created(s, d) ==        \* registration, then CREATE on the new entry
    LET t == Register(s, d)
    IN IF t.entries = s.entries THEN t
       ELSE Stored(t, Len(t.entries), ApplyAction(DraftOf(d), "CREATE", 1))

ActOK(s, l, tx) ==
    LET i == EntryFor(s, tx)
    IN /\ i # 0
       /\ tx.current = Current(s, i)
       /\ Authorized(l, tx)
       /\ IF tx.action = "APPROVE" THEN VoteOK(s, i, tx.sequence, tx.actor)
          ELSE ApplyOK(tx.current, tx.action, tx.sequence)
Acted(s, tx) ==
    LET i == EntryFor(s, tx)
    IN IF tx.action = "APPROVE" THEN ApplyVote(s, i, tx.sequence, tx.actor)
       ELSE Stored(s, i, ApplyAction(tx.current, tx.action, tx.sequence))

TransactionOK(s, l, tx) ==
    Decodes(tx) /\ IF tx.action = "CREATE" THEN CreateOK(s, l, tx) ELSE ActOK(s, l, tx)
Transacted(s, tx) ==
    IF tx.action = "CREATE" THEN Created(s, tx.current.draft) ELSE Acted(s, tx)

-----------------------------------------------------------------------------
(* The other account of the same history,                                  *)
(* stn_contract_rebuild_accepted_state: actions replayed by the plain      *)
(* lifecycle, approvals remembered by current bytes, sequence and actor in *)
(* a buffer of the caller.                                                 *)
ApprovalKey(tx) == <<tx.current, tx.sequence, tx.actor>>
KeysOf(a) == {a.buffer[k] : k \in 1..a.count}
Approvals(capacity) == [buffer |-> [k \in 1..capacity |-> NoKey], count |-> 0]

MatchesCanonical(c, tx) == c = tx.current
AcceptOK(c, a, tx) ==
    /\ MatchesCanonical(c, tx)
    /\ ApplyOK(c, tx.action, tx.sequence)
    /\ tx.action = "APPROVE" =>
           ApprovalKey(tx) \notin KeysOf(a) /\ a.count < Len(a.buffer)
Consumed(a, key) == [buffer |-> [a.buffer EXCEPT ![a.count + 1] = key], count |-> a.count + 1]
Rebuild(initial, history, approvals) ==
    LET Accept(r, tx) ==
            IF ~r.ok \/ ~AcceptOK(r.contract, r.approvals, tx) THEN [r EXCEPT !.ok = FALSE]
            ELSE [ok |-> TRUE,
                  contract |-> ApplyAction(r.contract, tx.action, tx.sequence),
                  approvals |-> IF tx.action # "APPROVE" THEN r.approvals
                                ELSE Consumed(r.approvals, ApprovalKey(tx))]
        r == FoldLeft(Accept, [ok |-> TRUE, contract |-> initial,
                               approvals |-> [approvals EXCEPT !.count = 0]], history)
    IN IF r.ok THEN r ELSE [r EXCEPT !.approvals.count = approvals.count]

-----------------------------------------------------------------------------
(* The list query: members' contracts, a bounded insertion sort.           *)
Settled(s, i) == s.entries[i].state \in {"EXECUTED", "REJECTED", "REVOKED", "CLOSED"}
Before(s, i, j) ==      \* open ones first, then the newest
    IF Settled(s, i) # Settled(s, j) THEN Settled(s, j)
    ELSE CreatedAt[s.entries[i].draft] > CreatedAt[s.entries[j].draft]
Member(s, i, who) ==
    \E k \in DOMAIN Participants[Bytes(s, i)] : Participants[Bytes(s, i)][k].identity = who
Behind(s, results, i) ==        \* the last result it does not sort before
    Max({0} \cup {k \in DOMAIN results : ~Before(s, i, results[k])})
Inserted(s, results, i) ==
    LET n == Behind(s, results, i)
    IN SubSeq(results, 1, n) \o <<i>> \o SubSeq(results, n + 1, Len(results))
QueryFault(s, who, limit) ==    \* a full list is left as it is
    FoldLeft(LAMBDA results, i :
                 IF ~Member(s, i, who) \/ Len(results) = limit THEN results
                 ELSE Inserted(s, results, i),
             <<>>, [i \in DOMAIN s.entries |-> i])
Listing(q, results, i) ==       \* q is the query: store, identity and limit
    IF ~Member(q.store, i, q.who) THEN results
    ELSE IF Len(results) < q.limit THEN Inserted(q.store, results, i)
    ELSE IF Before(q.store, i, results[q.limit])
    THEN Inserted(q.store, SubSeq(results, 1, q.limit - 1), i) ELSE results
Query(s, who, limit) ==
    LET q == [store |-> s, who |-> who, limit |-> limit]
    IN FoldLeft(LAMBDA results, i : Listing(q, results, i),
                <<>>, [i \in DOMAIN s.entries |-> i])

-----------------------------------------------------------------------------
CONSTANTS
    Founding,           \* grants accepted before the first contract
    Grants,             \* every grant
    Revocations

ASSUME ContractsAssumption ==
    /\ Participants \in [Drafts -> Seq([identity : Identities, role : STRING])]
    /\ CreatedAt \in [Drafts -> Nat]
    /\ MaxContracts \in Nat /\ MaxVotes \in Nat /\ MaxSequence \in Nat \ {0}
    /\ Founding \subseteq Grants /\ Grants \subseteq GrantRecords
    /\ Revocations \subseteq RevocationRecords
    /\ \A scope \in Scopes : scope = <<scope[1], scope[2]>>
    /\ \A a \in Identities, d \in Drafts :
          NoEvidence # EvidenceFor(a, "CREATE", d) /\ NoKey # <<d, a>>

Presented ==
    {NoEvidence} \cup {EvidenceFor(g.subject, g.scope[1], g.scope[2]) : g \in Grants}

\* What a signer may have seen of a draft: its bytes before every action.
Seen(d) ==
    {DraftOf(d)} \cup {log[d][k].current : k \in DOMAIN log[d]}
    \cup {Current(snapshot, i) :
              i \in {k \in DOMAIN snapshot.entries : Bytes(snapshot, k) = d}}

Init ==
    /\ snapshot = Empty
    /\ lifecycle = [EmptyLifecycle EXCEPT !.grants = Founding,
                                          !.consumed = {ReplayKey(g) : g \in Founding}]
    /\ log = [d \in Drafts |-> <<>>]

Registration(d) ==
    /\ snapshot' = Created(snapshot, d)
    /\ log' = IF RegisterOK(snapshot, d)
              THEN [log EXCEPT ![d] = <<[action |-> "CREATE", current |-> DraftOf(d),
                                         sequence |-> 1, actor |-> NoKey]>>]
              ELSE log
    /\ UNCHANGED lifecycle

Submission(tx) ==
    /\ TransactionOK(snapshot, lifecycle, tx)
    /\ snapshot' = Transacted(snapshot, tx)
    /\ log' = [log EXCEPT ![tx.current.draft] =
                  Append(@, [action |-> tx.action, current |-> tx.current,
                             sequence |-> tx.sequence, actor |-> tx.actor])]
    /\ UNCHANGED lifecycle

Granting(g) ==
    /\ GrantOK(lifecycle, g)
    /\ lifecycle' = ApplyGrant(lifecycle, g)
    /\ UNCHANGED <<snapshot, log>>

Revoking(r) ==
    /\ RevocationOK(lifecycle, r)
    /\ lifecycle' = ApplyRevocation(lifecycle, r)
    /\ UNCHANGED <<snapshot, log>>

Next ==
    \/ \E d \in Drafts : Registration(d)
    \/ \E d \in Drafts, actor \in Identities, evidence \in Presented, next \in {0, 1} :
           \E c \in Seen(d) :
               Submission(
                   [action |-> IF evidence = NoEvidence THEN "CREATE" ELSE evidence.scope[1],
                    actor |-> actor, current |-> c, sequence |-> c.sequence + next,
                    evidence |-> evidence, signed |-> TRUE])
    \/ \E g \in Grants : Granting(g)
    \/ \E r \in Revocations : Revoking(r)

Spec == Init /\ [][Next]_vars
=============================================================================
