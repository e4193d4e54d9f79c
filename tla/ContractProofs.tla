---------------------------- MODULE ContractProofs ----------------------------
(***************************************************************************)
(* Theorems about the contract projection, for any drafts, participants,   *)
(* grants and capacities.  The invariant says of every entry what its      *)
(* draft's accepted actions make of it: its sequence is their number, its  *)
(* votes are the actors that approved, and its slots hold those votes.     *)
(***************************************************************************)
EXTENDS ContractProperties, FiniteSetTheorems, SequenceTheorems

\* One action of the rebuilding fold (stn_contract_rebuild_accepted_state).
Accepting(c, r, tx) ==
    IF ~r.ok \/ ~AcceptOK(r.contract, r.approvals, tx) THEN [r EXCEPT !.ok = FALSE]
    ELSE [ok |-> TRUE,
          contract |-> ApplyAction(r.contract, tx.action, tx.sequence),
          approvals |-> IF tx.action # "APPROVE" THEN r.approvals
                        ELSE Consumed(r.approvals, ApprovalKey(tx))]

INSTANCE Inductions WITH Pass <- Accepting

Keys == Drafts \X Identities
ContractRecords == [draft : Drafts, state : States, sequence : Nat]
EntryRecords ==
    [draft : Drafts, at : Nat, state : States, sequence : 0..MaxSequence,
     offset : Nat, eligible : Nat, required : Nat, count : Nat]
ActionRecords ==
    [action : Actions, current : ContractRecords, sequence : Nat,
     actor : Identities \cup {NoKey}]
Snapshots ==
    [drafts : Seq(Drafts), entries : Seq(EntryRecords), slots : Seq(Keys \cup {NoKey})]
Logs == [Drafts -> Seq(ActionRecords)]

StoreTypes == snapshot \in Snapshots /\ log \in Logs

(* Of a log l of accepted actions: which are of one kind, who voted.       *)
ActsIn(l, action) == {k \in DOMAIN l : l[k].action = action}
VotersIn(l) == {l[k].actor : k \in ActsIn(l, "APPROVE")}
Width(d) == Len(Participants[d])

(* An entry reads its own draft.                                           *)
ReadsOwn(e, drafts) == e.at \in DOMAIN drafts /\ drafts[e.at] = e.draft

(* It counts the approvals of its draft, and a majority of them attests.   *)
Tallied(e, l) ==
    /\ e.eligible = Cardinality(Approvers(e.draft))
    /\ e.required = Required(e.draft)
    /\ e.sequence = Len(l) /\ e.sequence > 0
    /\ VotersIn(l) \subseteq Approvers(e.draft)
    /\ e.count = Cardinality(VotersIn(l))
    /\ (e.state = "ATTESTATION" \/ ActsIn(l, "EXECUTE") # {}) => e.count >= e.required

(* Its slots hold those approvals, first come first.                       *)
Placed(e, l, slots) ==
    /\ e.offset + Width(e.draft) <= Len(slots)
    /\ \A k \in 1..Width(e.draft) : slots[e.offset + k] # NoKey <=> k <= e.count
    /\ {slots[k] : k \in e.offset + 1 .. e.offset + e.count}
           = {<<e.draft, a>> : a \in VotersIn(l)}

EntryInv ==
    \A i \in Entries :
        LET e == snapshot.entries[i]
        IN /\ ReadsOwn(e, snapshot.drafts)
           /\ Tallied(e, log[e.draft])
           /\ Placed(e, log[e.draft], snapshot.slots)

(* No two entries share a draft or a slot.                                 *)
ApartInv ==
    \A i, j \in Entries : i < j =>
        /\ snapshot.entries[i].draft # snapshot.entries[j].draft
        /\ snapshot.entries[i].offset + Width(snapshot.entries[i].draft)
               <= snapshot.entries[j].offset

(* Every accepted action has the sequence of its place.                    *)
LogInv ==
    \A d \in Drafts :
        /\ \A k \in DOMAIN log[d] : log[d][k].sequence = k
        /\ d \notin Registered(snapshot) => log[d] = <<>>

CapacityInv ==
    Len(snapshot.entries) <= MaxContracts /\ Len(snapshot.slots) <= MaxVotes

(* The slots in use are as many as the approvals accepted.                 *)
Used == {k \in DOMAIN snapshot.slots : snapshot.slots[k] # NoKey}
Cast == UNION {{d} \X Acts(d, "APPROVE") : d \in Drafts}
SlotsInv == IsFiniteSet(Used) /\ IsFiniteSet(Cast) /\ Cardinality(Used) = Cardinality(Cast)

ContractInv ==
    /\ StoreTypes
    /\ lifecycle \in Lifecycles
    /\ EntryInv
    /\ ApartInv
    /\ LogInv
    /\ CapacityInv
    /\ SlotsInv

-----------------------------------------------------------------------------
(* Participants are counted.                                               *)
LEMMA ParticipantsType ==
    ASSUME NEW d \in Drafts
    PROVE  /\ Width(d) \in Nat /\ DOMAIN Participants[d] = 1..Width(d)
           /\ IsFiniteSet(ApproversAt(d)) /\ IsFiniteSet(Approvers(d))
           /\ Cardinality(Approvers(d)) \in Nat
           /\ Cardinality(Approvers(d)) <= Width(d)
           /\ Approvers(d) \subseteq Identities
  <1> DEFINE p == Participants[d]
             A == ApproversAt(d)
             B == Approvers(d)
             f == [i \in A |-> p[i].identity]
  <1>1. p \in Seq([identity : Identities, role : STRING])
    BY ContractsAssumption
  <1>2. Width(d) \in Nat /\ DOMAIN p = 1..Width(d)
    BY <1>1 DEF Width
  <1>3. \A i \in 1..Width(d) : p[i].identity \in Identities
    <2>1. \A i \in 1..Width(d) : p[i] \in [identity : Identities, role : STRING]
      BY <1>1, ElementOfSeq DEF Width
    <2> QED
      BY <2>1
  <1>4. A \in SUBSET (1..Width(d))
    BY <1>2 DEF ApproversAt
  <1>5. IsFiniteSet(1..Width(d)) /\ Cardinality(1..Width(d)) = Width(d)
    BY <1>2, FS_Interval
  <1>6. /\ IsFiniteSet(A) /\ Cardinality(A) <= Width(d)
        /\ Cardinality(A) \in Nat
    BY <1>4, <1>5, FS_Subset, FS_CardinalityType
  <1>7. f \in Surjection(A, B)
    BY DEF Approvers, Surjection
  <1>8. IsFiniteSet(B) /\ Cardinality(B) <= Cardinality(A)
    BY <1>6, <1>7, FS_Surjection
  <1>9. Cardinality(B) \in Nat
    BY <1>8, FS_CardinalityType
  <1>10. B \subseteq Identities
    BY <1>3, <1>4 DEF Approvers
  <1> QED
    BY <1>2, <1>6, <1>8, <1>9, <1>10

(* A log that grows: what its new action adds to the acts and the voters.  *)
LEMMA LogGrows ==
    ASSUME NEW l \in Seq(ActionRecords), NEW r \in ActionRecords, NEW action
    PROVE  /\ Append(l, r) \in Seq(ActionRecords)
           /\ Len(Append(l, r)) = Len(l) + 1 /\ Len(l) \in Nat
           /\ ActsIn(Append(l, r), action)
                = IF r.action = action THEN ActsIn(l, action) \cup {Len(l) + 1}
                  ELSE ActsIn(l, action)
           /\ VotersIn(Append(l, r))
                = IF r.action = "APPROVE" THEN VotersIn(l) \cup {r.actor} ELSE VotersIn(l)
  <1> DEFINE m == Append(l, r)
             n == Len(l) + 1
  <1>1. /\ m \in Seq(ActionRecords) /\ Len(m) = n /\ Len(l) \in Nat
        /\ m[n] = r /\ \A k \in 1..Len(l) : m[k] = l[k]
    OBVIOUS
  <1>2. DOMAIN m = (DOMAIN l) \cup {n} /\ n \notin DOMAIN l /\ DOMAIN l = 1..Len(l)
    BY <1>1
  <1> HIDE DEF m, n
  <1>3. \A k \in DOMAIN l : m[k] = l[k]
    BY <1>1, <1>2
  <1>4. ASSUME NEW x
        PROVE  ActsIn(m, x) = IF r.action = x THEN ActsIn(l, x) \cup {n} ELSE ActsIn(l, x)
    BY <1>1, <1>2, <1>3 DEF ActsIn
  <1>5. ActsIn(m, "APPROVE")
            = IF r.action = "APPROVE" THEN ActsIn(l, "APPROVE") \cup {n}
              ELSE ActsIn(l, "APPROVE")
    BY <1>4
  <1>6. ActsIn(l, "APPROVE") \subseteq DOMAIN l
    BY DEF ActsIn
  <1>7. VotersIn(m) = IF r.action = "APPROVE" THEN VotersIn(l) \cup {r.actor} ELSE VotersIn(l)
    <2>1. \A k \in ActsIn(l, "APPROVE") : m[k] = l[k]
      BY <1>3, <1>6
    <2>2. CASE r.action = "APPROVE"
      BY <1>1, <1>5, <2>1, <2>2 DEF VotersIn
    <2>3. CASE r.action # "APPROVE"
      BY <1>5, <2>1, <2>3 DEF VotersIn
    <2> QED
      BY <2>2, <2>3
  <1> QED
    BY <1>1, <1>4, <1>7 DEF m, n

(* The count of an entry is a number of approvers.                         *)
LEMMA CountBound ==
    ASSUME NEW e \in EntryRecords, NEW l, Tallied(e, l)
    PROVE  /\ IsFiniteSet(VotersIn(l)) /\ e.count <= e.eligible
           /\ e.eligible <= Width(e.draft) /\ e.count \in Nat /\ e.eligible \in Nat
  <1>1. e.draft \in Drafts /\ e.count \in Nat /\ e.eligible \in Nat
    BY DEF EntryRecords
  <1>2. VotersIn(l) \in SUBSET Approvers(e.draft) /\ IsFiniteSet(Approvers(e.draft))
    BY <1>1, ParticipantsType DEF Tallied
  <1>3. /\ IsFiniteSet(VotersIn(l))
        /\ Cardinality(VotersIn(l)) <= Cardinality(Approvers(e.draft))
    BY <1>2, FS_Subset
  <1> QED
    BY <1>1, <1>3, ParticipantsType DEF Tallied

-----------------------------------------------------------------------------
(* An entry whose own slots and draft stay is as it was: what other        *)
(* contracts do leaves it alone (the ranges stn_contract_state_register    *)
(* hands out).                                                             *)
LEMMA Undisturbed ==
    ASSUME NEW e \in EntryRecords, NEW l, Tallied(e, l),
           NEW a, NEW b, Placed(e, l, a), Len(a) \in Nat, Len(b) \in Nat, Len(a) <= Len(b),
           \A k \in 1..Width(e.draft) : b[e.offset + k] = a[e.offset + k]
    PROVE  Placed(e, l, b)
  <1>1. /\ e.offset \in Nat /\ e.count \in Nat /\ e.count <= Width(e.draft)
        /\ Width(e.draft) \in Nat
    BY CountBound, ParticipantsType DEF EntryRecords
  <1>2. \A k \in e.offset + 1 .. e.offset + e.count : b[k] = a[k]
    <2> SUFFICES ASSUME NEW k \in e.offset + 1 .. e.offset + e.count PROVE b[k] = a[k]
      OBVIOUS
    <2>1. k - e.offset \in 1..Width(e.draft) /\ e.offset + (k - e.offset) = k
      BY <1>1
    <2> QED
      BY <2>1
  <1>3. {b[k] : k \in e.offset + 1 .. e.offset + e.count}
            = {a[k] : k \in e.offset + 1 .. e.offset + e.count}
    BY <1>2
  <1>4. e.offset + Width(e.draft) <= Len(b)
    BY <1>1 DEF Placed
  <1> QED
    BY <1>3, <1>4 DEF Placed

(* A vote: the next slot of the entry, its count and its state             *)
(* (stn_contract_state_apply_vote).                                        *)
VotedEntry(e, sequence) ==
    [e EXCEPT !.count = @ + 1,
              !.state = IF e.count + 1 >= e.required THEN "ATTESTATION" ELSE "APPROVALS",
              !.sequence = sequence]

(* A log whose actions have the sequence of their place keeps it when the  *)
(* next one is added (stn_contract_apply_action).                          *)
LEMMA Numbered ==
    ASSUME NEW l \in Seq(ActionRecords), NEW r \in ActionRecords,
           r.sequence = Len(l) + 1, \A k \in DOMAIN l : l[k].sequence = k
    PROVE  \A k \in DOMAIN Append(l, r) : Append(l, r)[k].sequence = k
  <1>1. /\ DOMAIN Append(l, r) = 1..(Len(l) + 1) /\ Len(l) \in Nat
        /\ DOMAIN l = 1..Len(l) /\ Append(l, r)[Len(l) + 1] = r
        /\ \A k \in 1..Len(l) : Append(l, r)[k] = l[k]
    OBVIOUS
  <1>2. \A k \in 1..(Len(l) + 1) : k \in 1..Len(l) \/ k = Len(l) + 1
    BY <1>1
  <1> QED
    BY <1>1, <1>2

(* A place in a range of slots is one of the slots.                        *)
LEMMA Within ==
    ASSUME NEW a \in Nat, NEW w \in Nat, NEW n \in Nat, a + w <= n, NEW k \in 1..w
    PROVE  k \in Nat /\ a + k \in 1..n
  OBVIOUS

(* One place more at the end of a range.                                   *)
LEMMA OneMore ==
    ASSUME NEW a \in Nat, NEW c \in Nat
    PROVE  /\ a + 1 .. a + (c + 1) = (a + 1 .. a + c) \cup {a + c + 1}
           /\ a + c + 1 \notin a + 1 .. a + c
           /\ a + c + 1 = a + (c + 1)
  OBVIOUS

(* A vote keeps an entry's tally and its slots                             *)
(* (stn_contract_state_apply_vote).                                        *)
LEMMA Voted ==
    ASSUME NEW e \in EntryRecords, NEW l \in Seq(ActionRecords), Tallied(e, l),
           NEW slots \in Seq(Keys \cup {NoKey}), Placed(e, l, slots),
           NEW r \in ActionRecords, r.action = "APPROVE", r.sequence = e.sequence + 1,
           r.sequence \in 0..MaxSequence,
           r.actor \in Approvers(e.draft) \ VotersIn(l), e.count < e.eligible,
           e.state \notin {"ATTESTATION"}
    PROVE  LET f == VotedEntry(e, r.sequence)
               at == e.offset + e.count + 1
               s == [slots EXCEPT ![at] = <<e.draft, r.actor>>]
           IN /\ f \in EntryRecords
              /\ f.draft = e.draft /\ f.at = e.at /\ f.offset = e.offset
              /\ Tallied(f, Append(l, r))
              /\ at \in DOMAIN slots /\ slots[at] = NoKey
              /\ s \in Seq(Keys \cup {NoKey}) /\ Len(s) = Len(slots)
              /\ Placed(f, Append(l, r), s)
  <1> DEFINE d == e.draft
             f == VotedEntry(e, r.sequence)
             at == e.offset + e.count + 1
             key == <<d, r.actor>>
             s == [slots EXCEPT ![at] = key]
             m == Append(l, r)
  <1>1. /\ d \in Drafts /\ e.offset \in Nat /\ e.count \in Nat /\ e.eligible \in Nat
        /\ e.required \in Nat /\ e.state \in States
    BY DEF EntryRecords
  <1>2. /\ e.count < Width(d) /\ Width(d) \in Nat /\ IsFiniteSet(VotersIn(l))
        /\ e.offset + Width(d) <= Len(slots) /\ Len(slots) \in Nat
    BY <1>1, CountBound, ParticipantsType DEF Placed
  <1>3. f \in EntryRecords
    <2>1. e.count + 1 \in Nat /\ {"ATTESTATION", "APPROVALS"} \subseteq States
      BY <1>1 DEF States
    <2> QED
      BY <2>1 DEF VotedEntry, EntryRecords
  <1>4. /\ f.draft = d /\ f.at = e.at /\ f.offset = e.offset
        /\ f.eligible = e.eligible /\ f.required = e.required
        /\ f.count = e.count + 1 /\ f.sequence = r.sequence
        /\ f.state = IF e.count + 1 >= e.required THEN "ATTESTATION" ELSE "APPROVALS"
    BY DEF VotedEntry, EntryRecords
  <1>5. /\ VotersIn(m) = VotersIn(l) \cup {r.actor}
        /\ ActsIn(m, "EXECUTE") = ActsIn(l, "EXECUTE")
        /\ Len(m) = Len(l) + 1 /\ Len(l) \in Nat
    BY LogGrows
  <1> HIDE DEF f, m
  <1>6. Tallied(f, m)
    <2>1. Cardinality(VotersIn(m)) = e.count + 1
      <3>1. e.count = Cardinality(VotersIn(l)) /\ r.actor \notin VotersIn(l)
        BY DEF Tallied
      <3>2. Cardinality(VotersIn(l) \cup {r.actor}) = Cardinality(VotersIn(l)) + 1
        BY <1>2, <3>1, FS_AddElement
      <3> QED
        BY <1>5, <3>1, <3>2
    <2>2. f.sequence = Len(m) /\ f.sequence > 0
      BY <1>4, <1>5 DEF Tallied
    <2>3. (f.state = "ATTESTATION" \/ ActsIn(m, "EXECUTE") # {}) => f.count >= f.required
      <3>1. ActsIn(l, "EXECUTE") # {} => e.count >= e.required
        BY DEF Tallied
      <3>2. f.state = "ATTESTATION" => f.count >= f.required
        BY <1>4
      <3> QED
        BY <1>1, <1>4, <1>5, <3>1, <3>2
    <2> QED
      BY <1>4, <1>5, <2>1, <2>2, <2>3 DEF Tallied
  <1>7. at \in 1..Len(slots) /\ at = e.offset + (e.count + 1) /\ e.count + 1 \in 1..Width(d)
    BY SMTT(60), <1>1, <1>2
  <1>8. slots[at] = NoKey
    <2>1. ~(e.count + 1 <= e.count)
      BY <1>1
    <2> QED
      BY <1>7, <2>1 DEF Placed
  <1>9. key \in Keys /\ key # NoKey
    <2>1. r.actor \in Identities
      BY <1>1, ParticipantsType
    <2> QED
      BY <1>1, <2>1, ContractsAssumption DEF Keys
  <1>10. DOMAIN slots = 1..Len(slots)
    OBVIOUS
  <1>11. /\ s \in Seq(Keys \cup {NoKey}) /\ Len(s) = Len(slots)
         /\ s[at] = key /\ \A k \in 1..Len(slots) : k # at => s[k] = slots[k]
    BY <1>7, <1>9
  <1> HIDE DEF s, key, at
  <1>12. \A k \in 1..Width(d) : s[e.offset + k] # NoKey <=> k <= e.count + 1
    <2> SUFFICES ASSUME NEW k \in 1..Width(d)
                 PROVE  s[e.offset + k] # NoKey <=> k <= e.count + 1
      OBVIOUS
    <2>1. k \in Nat /\ e.offset + k \in 1..Len(slots)
      BY <1>1, <1>2, Within
    <2>2. CASE k = e.count + 1
      BY <1>7, <1>9, <1>11, <2>2
    <2>3. CASE k # e.count + 1
      <3>1. e.offset + k # at
        BY <1>1, <1>7, <2>1, <2>3
      <3>2. s[e.offset + k] = slots[e.offset + k]
        BY <1>11, <2>1, <3>1
      <3>3. k <= e.count <=> k <= e.count + 1
        BY <1>1, <2>1, <2>3
      <3> QED
        BY <3>2, <3>3 DEF Placed
    <2> QED
      BY <2>2, <2>3
  <1>13. {s[k] : k \in e.offset + 1 .. e.offset + (e.count + 1)}
             = {<<d, a>> : a \in VotersIn(m)}
    <2>1. /\ e.offset + 1 .. e.offset + (e.count + 1)
               = (e.offset + 1 .. e.offset + e.count) \cup {at}
          /\ at \notin e.offset + 1 .. e.offset + e.count
      BY <1>1, <1>7, OneMore
    <2>2. \A k \in e.offset + 1 .. e.offset + e.count : s[k] = slots[k]
      <3> SUFFICES ASSUME NEW k \in e.offset + 1 .. e.offset + e.count
                   PROVE  s[k] = slots[k]
        OBVIOUS
      <3>1. k \in 1..Len(slots)
        BY <1>1, <1>2
      <3>2. k # at
        BY <2>1
      <3> QED
        BY <1>11, <3>1, <3>2
    <2>3. {s[k] : k \in e.offset + 1 .. e.offset + (e.count + 1)}
              = {slots[k] : k \in e.offset + 1 .. e.offset + e.count} \cup {key}
      BY SMTT(60), <1>11, <2>1, <2>2
    <2> QED
      BY <1>5, <2>3 DEF Placed, key
  <1>14. Placed(f, m, s)
    BY <1>2, <1>4, <1>11, <1>12, <1>13 DEF Placed
  <1> QED
    BY <1>3, <1>4, <1>6, <1>7, <1>8, <1>10, <1>11, <1>14 DEF f, m, s, at, key

(* An action that is no vote: the state and the sequence                   *)
(* (stn_contract_apply_action).                                            *)
MovedEntry(e, state, sequence) == [e EXCEPT !.state = state, !.sequence = sequence]

(* Any other action leaves votes and slots alone                           *)
(* (stn_contract_apply_action).                                            *)
LEMMA Moved ==
    ASSUME NEW e \in EntryRecords, NEW l \in Seq(ActionRecords), Tallied(e, l),
           NEW slots, Placed(e, l, slots),
           NEW r \in ActionRecords, r.action # "APPROVE", r.sequence = e.sequence + 1,
           r.sequence \in 0..MaxSequence,
           NEW state \in States \ {"ATTESTATION"},
           r.action = "EXECUTE" => e.state = "ATTESTATION"
    PROVE  LET f == MovedEntry(e, state, r.sequence)
           IN /\ f \in EntryRecords
              /\ f.draft = e.draft /\ f.at = e.at /\ f.offset = e.offset
              /\ Tallied(f, Append(l, r))
              /\ Placed(f, Append(l, r), slots)
  <1> DEFINE f == MovedEntry(e, state, r.sequence)
             m == Append(l, r)
  <1>1. f \in EntryRecords
    BY DEF MovedEntry, EntryRecords
  <1>2. /\ f.draft = e.draft /\ f.at = e.at /\ f.offset = e.offset
        /\ f.eligible = e.eligible /\ f.required = e.required
        /\ f.count = e.count /\ f.sequence = r.sequence /\ f.state = state
    BY DEF MovedEntry, EntryRecords
  <1>3. /\ VotersIn(m) = VotersIn(l)
        /\ ActsIn(m, "EXECUTE") # {} => r.action = "EXECUTE" \/ ActsIn(l, "EXECUTE") # {}
        /\ Len(m) = Len(l) + 1 /\ Len(l) \in Nat
    BY LogGrows
  <1> HIDE DEF f, m
  <1>4. Tallied(f, m)
    BY <1>2, <1>3 DEF Tallied
  <1>5. Placed(f, m, slots)
    BY <1>2, <1>3 DEF Placed
  <1> QED
    BY <1>1, <1>2, <1>4, <1>5 DEF f, m

-----------------------------------------------------------------------------
(* What the lifecycle table allows (stn_contract_apply_action): only votes *)
(* lead to attestation, and only from there a contract is executed.        *)
LEMMA MovesType ==
    ASSUME NEW x, NEW s, NEW t, <<x, s, t>> \in Moves
    PROVE  /\ x \in Actions /\ s \in States /\ t \in States
           /\ x # "APPROVE" => t # "ATTESTATION"
           /\ x = "EXECUTE" => s = "ATTESTATION"
  BY DEF Moves, OtherMoves, Open, Actions, States

(* Two entries differ in their drafts and in their slots.                  *)
LEMMA Separate ==
    ASSUME ContractInv, NEW i \in Entries, NEW j \in Entries, i # j
    PROVE  /\ snapshot.entries[i].draft # snapshot.entries[j].draft
           /\ \/ snapshot.entries[i].offset + Width(snapshot.entries[i].draft)
                    <= snapshot.entries[j].offset
              \/ snapshot.entries[j].offset + Width(snapshot.entries[j].draft)
                    <= snapshot.entries[i].offset
  <1>1. snapshot.entries \in Seq(EntryRecords)
    BY DEF ContractInv, StoreTypes, Snapshots
  <1>2. i \in Int /\ j \in Int
    BY <1>1 DEF Entries
  <1>3. i < j \/ j < i
    BY <1>2
  <1> QED
    BY <1>3 DEF ContractInv, ApartInv

(* An entry of the store and the log of its draft have their types.        *)
LEMMA EntryType ==
    ASSUME ContractInv, NEW i \in Entries
    PROVE  LET e == snapshot.entries[i]
           IN /\ e \in EntryRecords /\ e.draft \in Drafts
              /\ e.offset \in Nat /\ Width(e.draft) \in Nat
              /\ log[e.draft] \in Seq(ActionRecords)
              /\ ReadsOwn(e, snapshot.drafts)
              /\ Tallied(e, log[e.draft])
              /\ Placed(e, log[e.draft], snapshot.slots)
  <1>1. snapshot.entries \in Seq(EntryRecords)
    BY DEF ContractInv, StoreTypes, Snapshots
  <1>2. snapshot.entries[i] \in EntryRecords
    BY <1>1, ElementOfSeq DEF Entries
  <1>3. /\ snapshot.entries[i].draft \in Drafts /\ snapshot.entries[i].offset \in Nat
    BY <1>2 DEF EntryRecords
  <1>4. log[snapshot.entries[i].draft] \in Seq(ActionRecords)
    BY <1>3 DEF ContractInv, StoreTypes, Logs
  <1> QED
    BY <1>2, <1>3, <1>4, ParticipantsType DEF ContractInv, EntryInv

(* A place in one range of slots is no place in a range beside it.         *)
LEMMA Elsewhere ==
    ASSUME NEW a \in Nat, NEW w \in Nat, NEW b \in Nat, NEW v \in Nat, NEW n \in Nat,
           NEW k \in 1..w, a + w <= n, b + v <= a \/ a + w <= b
    PROVE  a + k \in 1..n \ (b + 1 .. b + v)
  OBVIOUS

(* An accepted action changes its entry, the slots of that and the log of  *)
(* its draft, and so keeps everything else (contract_apply_transaction of  *)
(* the validator).                                                         *)
LEMMA ActKeeps ==
    ASSUME ContractInv, NEW i \in Entries, NEW r \in ActionRecords,
           NEW f \in EntryRecords, NEW s \in Seq(Keys \cup {NoKey}),
           r.sequence = snapshot.entries[i].sequence + 1,
           f.draft = snapshot.entries[i].draft, f.at = snapshot.entries[i].at,
           f.offset = snapshot.entries[i].offset,
           Tallied(f, Append(log[f.draft], r)),
           Placed(f, Append(log[f.draft], r), s),
           Len(s) = Len(snapshot.slots),
           \A k \in 1..Len(s) \ (f.offset + 1 .. f.offset + Width(f.draft)) :
               s[k] = snapshot.slots[k],
           snapshot'.drafts = snapshot.drafts,
           snapshot'.entries = [snapshot.entries EXCEPT ![i] = f],
           snapshot'.slots = s, snapshot' \in Snapshots,
           log' = [log EXCEPT ![f.draft] = Append(@, r)]
    PROVE  StoreTypes' /\ EntryInv' /\ ApartInv' /\ LogInv' /\ CapacityInv'
  <1> DEFINE E == snapshot.entries
             d == f.draft
  <1>1. /\ E \in Seq(EntryRecords) /\ snapshot.slots \in Seq(Keys \cup {NoKey})
        /\ DOMAIN E = 1..Len(E) /\ Entries = DOMAIN E
        /\ log \in Logs
    BY DEF ContractInv, StoreTypes, Snapshots, Entries
  <1>2. d \in Drafts /\ log[d] \in Seq(ActionRecords) /\ f.offset \in Nat /\ Width(d) \in Nat
    BY EntryType
  <1>3. log' \in Logs /\ log'[d] = Append(log[d], r) /\ \A c \in Drafts \ {d} : log'[c] = log[c]
    <2>1. Append(log[d], r) \in Seq(ActionRecords)
      BY <1>2
    <2> QED
      BY <1>1, <1>2, <2>1 DEF Logs
  <1>4. /\ Entries' = Entries /\ snapshot'.entries[i] = f
        /\ \A j \in Entries : j # i => snapshot'.entries[j] = E[j]
        /\ Len(snapshot'.entries) = Len(E)
    BY <1>1 DEF Entries
  <1>5. \A j \in Entries : /\ snapshot'.entries[j].draft = E[j].draft
                           /\ snapshot'.entries[j].offset = E[j].offset
    BY <1>4
  <1>6. StoreTypes'
    BY <1>3 DEF StoreTypes
  <1>7. EntryInv'
    <2> SUFFICES ASSUME NEW j \in Entries
                 PROVE  /\ ReadsOwn(snapshot'.entries[j], snapshot'.drafts)
                        /\ Tallied(snapshot'.entries[j], log'[snapshot'.entries[j].draft])
                        /\ Placed(snapshot'.entries[j], log'[snapshot'.entries[j].draft],
                                  snapshot'.slots)
      BY <1>4 DEF EntryInv
    <2>1. CASE j = i
      <3>1. ReadsOwn(f, snapshot.drafts)
        BY EntryType DEF ReadsOwn
      <3> QED
        BY <1>3, <1>4, <2>1, <3>1
    <2>2. CASE j # i
      <3>1. /\ E[j] \in EntryRecords /\ E[j].draft \in Drafts
            /\ E[j].offset \in Nat /\ Width(E[j].draft) \in Nat
            /\ ReadsOwn(E[j], snapshot.drafts)
            /\ Tallied(E[j], log[E[j].draft])
            /\ Placed(E[j], log[E[j].draft], snapshot.slots)
        BY EntryType
      <3>2. /\ E[j].draft # d
            /\ f.offset + Width(d) <= E[j].offset
               \/ E[j].offset + Width(E[j].draft) <= f.offset
        <4>1. snapshot.entries[j].draft # snapshot.entries[i].draft
          BY <2>2, Separate
        <4>2. \/ snapshot.entries[i].offset + Width(snapshot.entries[i].draft)
                    <= snapshot.entries[j].offset
              \/ snapshot.entries[j].offset + Width(snapshot.entries[j].draft)
                    <= snapshot.entries[i].offset
          BY <2>2, Separate
        <4> QED
          BY <4>1, <4>2
      <3>3. snapshot'.entries[j] = E[j] /\ log'[E[j].draft] = log[E[j].draft]
        BY <1>3, <1>4, <2>2, <3>1, <3>2
      <3>4. E[j].offset + Width(E[j].draft) <= Len(s) /\ Len(s) \in Nat
        <4>1. E[j].offset + Width(E[j].draft) <= Len(snapshot.slots)
          BY <3>1 DEF Placed
        <4>2. Len(snapshot.slots) \in Nat /\ Len(s) = Len(snapshot.slots)
          BY <1>1
        <4> QED
          BY <4>1, <4>2
      <3>5. \A k \in 1..Width(E[j].draft) :
                s[E[j].offset + k] = snapshot.slots[E[j].offset + k]
        <4> SUFFICES ASSUME NEW k \in 1..Width(E[j].draft)
                     PROVE  s[E[j].offset + k] = snapshot.slots[E[j].offset + k]
          OBVIOUS
        <4> QED
          BY <1>2, <3>1, <3>2, <3>4, Elsewhere
      <3>6. Placed(E[j], log[E[j].draft], s)
        <4> HIDE DEF E
        <4>1. Len(snapshot.slots) \in Nat /\ Len(snapshot.slots) <= Len(s)
          BY <1>1
        <4> QED
          BY <3>1, <3>4, <3>5, <4>1, Undisturbed
      <3> QED
        BY <3>1, <3>3, <3>6
    <2> QED
      BY <2>1, <2>2
  <1>8. ApartInv'
    <2> SUFFICES ASSUME NEW a \in Entries, NEW c \in Entries, a < c
                 PROVE  /\ snapshot'.entries[a].draft # snapshot'.entries[c].draft
                        /\ snapshot'.entries[a].offset + Width(snapshot'.entries[a].draft)
                               <= snapshot'.entries[c].offset
      BY <1>4 DEF ApartInv
    <2>1. /\ E[a].draft # E[c].draft
          /\ E[a].offset + Width(E[a].draft) <= E[c].offset
      BY DEF ContractInv, ApartInv
    <2> QED
      BY <1>5, <2>1
  <1>9. LogInv'
    <2>1. Registered(snapshot)' = Registered(snapshot)
      <3>1. Registered(snapshot) = {E[j].draft : j \in Entries}
        BY DEF Registered, Entries
      <3>2. Registered(snapshot)' = {snapshot'.entries[j].draft : j \in Entries'}
        BY DEF Registered, Entries
      <3>3. {snapshot'.entries[j].draft : j \in Entries} = {E[j].draft : j \in Entries}
        BY ONLY <1>5
      <3> QED
        BY <1>4, <3>1, <3>2, <3>3
    <2>2. \A c \in Drafts \ {d} : /\ \A k \in DOMAIN log'[c] : log'[c][k].sequence = k
                                  /\ c \notin Registered(snapshot)' => log'[c] = <<>>
      BY <1>3, <2>1 DEF ContractInv, LogInv
    <2>3. d \in Registered(snapshot)
      BY DEF Registered, Entries
    <2>4. \A k \in DOMAIN log'[d] : log'[d][k].sequence = k
      <3>1. r.sequence = Len(log[d]) + 1
        <4>1. Tallied(E[i], log[d])
          BY EntryType
        <4> QED
          BY <4>1 DEF Tallied
      <3>2. \A k \in DOMAIN log[d] : log[d][k].sequence = k
        BY <1>2 DEF ContractInv, LogInv
      <3>3. \A k \in DOMAIN Append(log[d], r) : Append(log[d], r)[k].sequence = k
        BY <1>2, <3>1, <3>2, Numbered
      <3> QED
        BY <1>3, <3>3
    <2> QED
      BY <2>1, <2>2, <2>3, <2>4 DEF LogInv
  <1>10. CapacityInv'
    BY <1>4 DEF ContractInv, CapacityInv
  <1> QED
    BY <1>6, <1>7, <1>8, <1>9, <1>10

-----------------------------------------------------------------------------
(* What is cast are the approvals in the logs.                             *)
LEMMA CastMembers ==
    ASSUME NEW p
    PROVE  p \in Cast <=> \E d \in Drafts : \E k \in ActsIn(log[d], "APPROVE") : p = <<d, k>>
  BY DEF Cast, Acts, ActsIn

(* A step that casts no vote and fills no slot.                            *)
LEMMA NothingCast ==
    ASSUME ContractInv, Used' = Used,
           \A d \in Drafts : ActsIn(log'[d], "APPROVE") = ActsIn(log[d], "APPROVE")
    PROVE  SlotsInv'
  <1>1. Cast' = Cast
    BY DEF Cast, Acts, ActsIn
  <1> QED
    BY <1>1 DEF ContractInv, SlotsInv

(* A step that casts one and fills one.                                    *)
LEMMA OneCast ==
    ASSUME ContractInv, NEW d \in Drafts, NEW at, NEW n,
           at \notin Used, Used' = Used \cup {at},
           n \notin DOMAIN log[d],
           \A c \in Drafts : ActsIn(log'[c], "APPROVE")
                = IF c = d THEN ActsIn(log[c], "APPROVE") \cup {n}
                  ELSE ActsIn(log[c], "APPROVE")
    PROVE  SlotsInv'
  <1>1. <<d, n>> \notin Cast
    BY CastMembers DEF ActsIn
  <1>2. ASSUME NEW p
        PROVE  p \in Cast' <=> p \in Cast \cup {<<d, n>>}
    <2>1. p \in Cast' <=> \E c \in Drafts : \E k \in ActsIn(log'[c], "APPROVE") : p = <<c, k>>
      BY DEF Cast, Acts, ActsIn
    <2>2. ASSUME NEW c \in Drafts, NEW k \in ActsIn(log'[c], "APPROVE"), p = <<c, k>>
          PROVE  p \in Cast \cup {<<d, n>>}
      <3>1. CASE c = d /\ k = n
        BY <2>2, <3>1
      <3>2. CASE ~(c = d /\ k = n)
        <4>1. k \in ActsIn(log[c], "APPROVE")
          BY <3>2
        <4> QED
          BY <2>2, <4>1, CastMembers
      <3> QED
        BY <3>1, <3>2
    <2>3. ASSUME p \in Cast
          PROVE  p \in Cast'
      BY <2>1, <2>3, CastMembers
    <2>4. ASSUME p = <<d, n>>
          PROVE  p \in Cast'
      <3>1. n \in ActsIn(log'[d], "APPROVE")
        OBVIOUS
      <3> QED
        BY <2>1, <2>4, <3>1
    <2> QED
      BY <2>1, <2>2, <2>3, <2>4
  <1>3. Cast' = Cast \cup {<<d, n>>}
    BY <1>2
  <1>4. IsFiniteSet(Used) /\ IsFiniteSet(Cast) /\ Cardinality(Used) = Cardinality(Cast)
    BY DEF ContractInv, SlotsInv
  <1>5. /\ IsFiniteSet(Used') /\ Cardinality(Used') = Cardinality(Used) + 1
        /\ IsFiniteSet(Cast') /\ Cardinality(Cast') = Cardinality(Cast) + 1
    BY <1>1, <1>3, <1>4, FS_AddElement
  <1> QED
    BY <1>4, <1>5 DEF SlotsInv

(* The entry a transaction is about exists (contract_apply_transaction's   *)
(* search).                                                                *)
LEMMA EntryFound ==
    ASSUME ContractInv, NEW tx, EntryFor(snapshot, tx) # 0
    PROVE  EntryFor(snapshot, tx) \in Entries
  <1> DEFINE I == {i \in 1..Len(snapshot.entries) :
                       SameLineage(snapshot, snapshot.entries[i], tx.current)}
  <1>1. EntryFor(snapshot, tx) = IF I # {} THEN Min(I) ELSE 0
    BY DEF EntryFor, SelectInSeq
  <1>2. I \in SUBSET Nat
    OBVIOUS
  <1>3. I # {}
    BY <1>1
  <1>4. \E x \in I : \A y \in I : x <= y
    BY <1>2, <1>3, LeastNatural
  <1> HIDE DEF I
  <1>5. Min(I) \in I
    BY <1>4 DEF Min
  <1>6. Entries = 1..Len(snapshot.entries)
    BY DEF ContractInv, StoreTypes, Snapshots, Entries
  <1> QED
    BY <1>1, <1>3, <1>5, <1>6 DEF I

(* No evidence a CREATE may carry is evidence for it, so a transaction     *)
(* that is accepted acts on an entry (contract_authorized in stn_chain.c). *)
LEMMA NothingBegins ==
    ASSUME NEW tx, tx.actor \in Identities, tx.current.draft \in Drafts,
           TransactionOK(snapshot, lifecycle, tx)
    PROVE  tx.action # "CREATE" /\ ActOK(snapshot, lifecycle, tx)
  <1>1. SUFFICES ASSUME tx.action = "CREATE" PROVE FALSE
    BY DEF TransactionOK
  <1>2. tx.evidence = NoEvidence /\ Evidenced(tx)
    BY <1>1 DEF TransactionOK, Decodes, CreateOK, Authorized
  <1> QED
    BY <1>1, <1>2, ContractsAssumption DEF Evidenced

(* What an accepted action found: its entry, at the sequence before it.    *)
LEMMA ActFound ==
    ASSUME ContractInv, NEW tx, ActOK(snapshot, lifecycle, tx)
    PROVE  LET i == EntryFor(snapshot, tx)
               e == snapshot.entries[i]
           IN /\ i \in Entries
              /\ tx.current = Current(snapshot, i)
              /\ tx.current \in ContractRecords
              /\ tx.current.draft = e.draft /\ tx.current.state = e.state
              /\ tx.current.sequence = e.sequence
              /\ tx.sequence = e.sequence + 1 /\ tx.sequence \in 0..MaxSequence
  <1> DEFINE i == EntryFor(snapshot, tx)
             e == snapshot.entries[i]
  <1>1. i \in Entries /\ tx.current = Current(snapshot, i)
    BY EntryFound DEF ActOK
  <1> HIDE DEF i
  <1>2. e \in EntryRecords /\ ReadsOwn(e, snapshot.drafts)
    BY <1>1, EntryType
  <1>3. /\ tx.current.draft = e.draft /\ tx.current.state = e.state
        /\ tx.current.sequence = e.sequence
    BY <1>1, <1>2 DEF Current, Bytes, ReadsOwn
  <1>4. NextInSequence(tx.current, tx.sequence)
    BY <1>1 DEF ActOK, VoteOK, ApplyOK, i
  <1>5. MaxSequence \in Nat /\ e.sequence \in 0..MaxSequence
    BY <1>2, ContractsAssumption DEF EntryRecords
  <1>6. tx.sequence = e.sequence + 1 /\ tx.sequence \in 0..MaxSequence
    BY <1>3, <1>4, <1>5 DEF NextInSequence
  <1>7. tx.current \in ContractRecords
    BY <1>1, <1>2, <1>3 DEF Current, ContractRecords, EntryRecords
  <1> QED
    BY <1>1, <1>3, <1>6, <1>7 DEF i

(* What a vote does to the store.                                          *)
LEMMA VoteApplied ==
    ASSUME NEW s \in Snapshots, NEW i \in DOMAIN s.entries, NEW sequence, NEW actor
    PROVE  LET e == s.entries[i]
               t == ApplyVote(s, i, sequence, actor)
           IN /\ t.drafts = s.drafts
              /\ t.entries = [s.entries EXCEPT ![i] = VotedEntry(e, sequence)]
              /\ t.slots = [s.slots EXCEPT ![e.offset + e.count + 1] = <<e.draft, actor>>]
              /\ t = [drafts |-> t.drafts, entries |-> t.entries, slots |-> t.slots]
  <1>1. s.entries \in Seq(EntryRecords) /\ s.entries[i] \in EntryRecords
    BY ElementOfSeq DEF Snapshots
  <1> DEFINE e == s.entries[i]
             t == ApplyVote(s, i, sequence, actor)
             E == [s.entries EXCEPT ![i] = VotedEntry(e, sequence)]
             S == [s.slots EXCEPT ![e.offset + e.count + 1] = <<e.draft, actor>>]
  <1>2. t = [s EXCEPT !.slots = S, !.entries = E]
    BY DEF ApplyVote, VoteKey, VotedEntry
  <1>3. s = [drafts |-> s.drafts, entries |-> s.entries, slots |-> s.slots]
    BY DEF Snapshots
  <1> HIDE DEF t, E, S
  <1>4. t = [drafts |-> s.drafts, entries |-> E, slots |-> S]
    BY <1>2, <1>3
  <1> QED
    BY <1>4 DEF t, E, S

(* What another action does to the store.                                  *)
LEMMA MoveStored ==
    ASSUME NEW s \in Snapshots, NEW i \in DOMAIN s.entries, NEW c
    PROVE  LET t == Stored(s, i, c)
           IN /\ t.drafts = s.drafts /\ t.slots = s.slots
              /\ t.entries
                   = [s.entries EXCEPT ![i] = MovedEntry(s.entries[i], c.state, c.sequence)]
              /\ t = [drafts |-> t.drafts, entries |-> t.entries, slots |-> t.slots]
  <1>1. s.entries \in Seq(EntryRecords) /\ s.entries[i] \in EntryRecords
    BY ElementOfSeq DEF Snapshots
  <1> DEFINE t == Stored(s, i, c)
             E == [s.entries EXCEPT ![i] = MovedEntry(s.entries[i], c.state, c.sequence)]
  <1>2. t = [s EXCEPT !.entries = E]
    BY DEF Stored, MovedEntry
  <1>3. s = [drafts |-> s.drafts, entries |-> s.entries, slots |-> s.slots]
    BY DEF Snapshots
  <1> HIDE DEF t, E
  <1>4. t = [drafts |-> s.drafts, entries |-> E, slots |-> s.slots]
    BY <1>2, <1>3
  <1> QED
    BY <1>4 DEF t, E

-----------------------------------------------------------------------------
(* An accepted transaction, for the log.                                   *)
Recorded(tx) ==
    [action |-> tx.action, current |-> tx.current, sequence |-> tx.sequence,
     actor |-> tx.actor]

(* What the log takes in has its type.                                     *)
LEMMA RecordedType ==
    ASSUME ContractInv, NEW tx, tx.actor \in Identities, tx.action \in Actions,
           ActOK(snapshot, lifecycle, tx)
    PROVE  /\ Recorded(tx) \in ActionRecords
           /\ Recorded(tx).action = tx.action /\ Recorded(tx).actor = tx.actor
           /\ Recorded(tx).sequence = tx.sequence
  <1>1. tx.current \in ContractRecords /\ tx.sequence \in Nat
    BY ActFound, ContractsAssumption
  <1> QED
    BY <1>1 DEF Recorded, ActionRecords

(* A vote keeps the invariant: the slot it takes is the next of its entry. *)
LEMMA VoteStep ==
    ASSUME ContractInv, NEW tx, tx.actor \in Identities, tx.action = "APPROVE",
           ActOK(snapshot, lifecycle, tx), Submission(tx)
    PROVE  ContractInv'
  <1> DEFINE i == EntryFor(snapshot, tx)
             e == snapshot.entries[i]
             l == log[e.draft]
             r == Recorded(tx)
             f == VotedEntry(e, r.sequence)
             at == e.offset + e.count + 1
             s == [snapshot.slots EXCEPT ![at] = <<e.draft, r.actor>>]
  <1>1. /\ i \in Entries /\ tx.current.draft = e.draft
        /\ tx.sequence = e.sequence + 1 /\ tx.sequence \in 0..MaxSequence
    BY ActFound
  <1>2. VoteOK(snapshot, i, tx.sequence, tx.actor)
    BY DEF ActOK
  <1>3. snapshot' = ApplyVote(snapshot, i, tx.sequence, tx.actor)
    BY DEF Submission, Transacted, Acted
  <1>4. log' = [log EXCEPT ![e.draft] = Append(@, r)] /\ lifecycle' = lifecycle
    BY <1>1 DEF Submission, Recorded
  <1> HIDE DEF i
  <1>5. snapshot \in Snapshots /\ i \in DOMAIN snapshot.entries /\ log \in Logs
    BY <1>1 DEF ContractInv, StoreTypes, Entries
  <1>6. /\ e \in EntryRecords /\ e.draft \in Drafts /\ l \in Seq(ActionRecords)
        /\ ReadsOwn(e, snapshot.drafts)
        /\ Tallied(e, l) /\ Placed(e, l, snapshot.slots)
        /\ e.offset \in Nat /\ Width(e.draft) \in Nat
    BY <1>1, EntryType
  <1>7. /\ r \in ActionRecords /\ r.action = "APPROVE" /\ r.actor = tx.actor
        /\ r.sequence = tx.sequence
    <2>1. tx.action \in Actions
      BY DEF Actions
    <2> QED
      BY <2>1, RecordedType
  <1>8. r.actor \in Approvers(e.draft) \ VotersIn(l)
    <2>1. r.actor \in Approvers(e.draft)
      BY <1>2, <1>6, <1>7 DEF VoteOK, Bytes, ReadsOwn
    <2>2. <<e.draft, r.actor>> \notin VotesOf(snapshot, i)
      BY <1>2, <1>7 DEF VoteOK, VoteKey
    <2>3. VotesOf(snapshot, i) = {<<e.draft, a>> : a \in VotersIn(l)}
      BY <1>6 DEF VotesOf, Placed
    <2> QED
      BY <2>1, <2>2, <2>3
  <1>9. e.count < e.eligible /\ e.state \notin {"ATTESTATION"}
    BY <1>2 DEF VoteOK
  <1>10. snapshot.slots \in Seq(Keys \cup {NoKey})
    BY <1>5 DEF Snapshots
  <1>11. /\ f \in EntryRecords
         /\ f.draft = e.draft /\ f.at = e.at /\ f.offset = e.offset
         /\ Tallied(f, Append(l, r))
         /\ at \in DOMAIN snapshot.slots /\ snapshot.slots[at] = NoKey
         /\ s \in Seq(Keys \cup {NoKey}) /\ Len(s) = Len(snapshot.slots)
         /\ Placed(f, Append(l, r), s)
    <2>1. r.sequence = e.sequence + 1 /\ r.sequence \in 0..MaxSequence
      BY <1>1, <1>7
    <2> HIDE DEF e, l, r
    <2> QED
      BY <1>6, <1>7, <1>8, <1>9, <1>10, <2>1, Voted
  <1>12. /\ snapshot'.drafts = snapshot.drafts
         /\ snapshot'.entries = [snapshot.entries EXCEPT ![i] = f]
         /\ snapshot'.slots = s
         /\ snapshot' = [drafts |-> snapshot'.drafts, entries |-> snapshot'.entries,
                         slots |-> snapshot'.slots]
    BY <1>3, <1>5, <1>7, VoteApplied
  <1>13. snapshot' \in Snapshots
    <2>1. [snapshot.entries EXCEPT ![i] = f] \in Seq(EntryRecords)
      BY <1>5, <1>11 DEF Snapshots
    <2> QED
      BY <1>5, <1>11, <1>12, <2>1 DEF Snapshots
  <1>14. /\ e.count \in Nat /\ e.count < Width(e.draft)
         /\ at \in f.offset + 1 .. f.offset + Width(f.draft)
    <2>1. e.count < Width(e.draft) /\ e.count \in Nat
      BY <1>6, <1>9, CountBound
    <2> HIDE DEF e
    <2> QED
      BY <1>6, <1>11, <2>1
  <1>15. \A k \in 1..Len(s) \ (f.offset + 1 .. f.offset + Width(f.draft)) :
             s[k] = snapshot.slots[k]
    <2>1. \A k \in 1..Len(s) : k # at => s[k] = snapshot.slots[k]
      BY <1>10, <1>11
    <2> QED
      BY <1>14, <2>1
  <1>16. SlotsInv'
    <2>1. s[at] = <<e.draft, r.actor>> /\ <<e.draft, r.actor>> # NoKey
      <3>1. r.actor \in Identities
        BY <1>7
      <3> QED
        BY <1>6, <1>10, <1>11, <3>1, ContractsAssumption
    <2>2. at \notin Used /\ Used' = Used \cup {at}
      <3>1. DOMAIN s = DOMAIN snapshot.slots
        OBVIOUS
      <3>2. \A k \in DOMAIN s : k # at => s[k] = snapshot.slots[k]
        OBVIOUS
      <3> HIDE DEF s, at
      <3> QED
        BY <1>11, <1>12, <2>1, <3>1, <3>2 DEF Used
    <2>3. Len(l) + 1 \notin DOMAIN l
      BY <1>6
    <2>4. \A c \in Drafts : ActsIn(log'[c], "APPROVE")
              = IF c = e.draft THEN ActsIn(log[c], "APPROVE") \cup {Len(l) + 1}
                ELSE ActsIn(log[c], "APPROVE")
      <3>1. log'[e.draft] = Append(l, r) /\ \A c \in Drafts : c # e.draft => log'[c] = log[c]
        BY <1>4, <1>5, <1>6 DEF Logs
      <3>2. ActsIn(Append(l, r), "APPROVE") = ActsIn(l, "APPROVE") \cup {Len(l) + 1}
        BY <1>6, <1>7, LogGrows
      <3> QED
        BY <3>1, <3>2
    <2> HIDE DEF at
    <2> QED
      BY <1>6, <2>2, <2>3, <2>4, OneCast
  <1> HIDE DEF f, s, r
  <1>17. /\ Tallied(f, Append(log[f.draft], r)) /\ Placed(f, Append(log[f.draft], r), s)
         /\ log' = [log EXCEPT ![f.draft] = Append(@, r)]
         /\ r.sequence = snapshot.entries[i].sequence + 1
    BY <1>1, <1>4, <1>7, <1>11
  <1>18. StoreTypes' /\ EntryInv' /\ ApartInv' /\ LogInv' /\ CapacityInv'
    BY <1>1, <1>7, <1>11, <1>12, <1>13, <1>15, <1>17, ActKeeps
  <1> QED
    BY <1>4, <1>16, <1>18 DEF ContractInv

(* Another action keeps the invariant: it moves its entry on.              *)
LEMMA MoveStep ==
    ASSUME ContractInv, NEW tx, tx.actor \in Identities,
           tx.action \notin {"APPROVE", "CREATE"},
           ActOK(snapshot, lifecycle, tx), Submission(tx)
    PROVE  ContractInv'
  <1> DEFINE i == EntryFor(snapshot, tx)
             e == snapshot.entries[i]
             l == log[e.draft]
             r == Recorded(tx)
             c == ApplyAction(tx.current, tx.action, tx.sequence)
             f == MovedEntry(e, c.state, r.sequence)
  <1>1. /\ i \in Entries /\ tx.current.draft = e.draft /\ tx.current.state = e.state
        /\ tx.sequence = e.sequence + 1 /\ tx.sequence \in 0..MaxSequence
        /\ tx.current \in ContractRecords
    BY ActFound
  <1>2. PICK t \in States : <<tx.action, tx.current.state, t>> \in Moves
    BY DEF ActOK, ApplyOK
  <1>3. /\ <<tx.action, tx.current.state, c.state>> \in Moves
        /\ c.sequence = tx.sequence
    BY <1>1, <1>2 DEF ApplyAction, ContractRecords
  <1>4. snapshot' = Stored(snapshot, i, c)
    BY DEF Submission, Transacted, Acted
  <1>5. log' = [log EXCEPT ![e.draft] = Append(@, r)] /\ lifecycle' = lifecycle
    BY <1>1 DEF Submission, Recorded
  <1> HIDE DEF i, c
  <1>6. snapshot \in Snapshots /\ i \in DOMAIN snapshot.entries /\ log \in Logs
    BY <1>1 DEF ContractInv, StoreTypes, Entries
  <1>7. /\ e \in EntryRecords /\ e.draft \in Drafts /\ l \in Seq(ActionRecords)
        /\ Tallied(e, l) /\ Placed(e, l, snapshot.slots)
    BY <1>1, EntryType
  <1>8. /\ tx.action \in Actions /\ c.state \in States \ {"ATTESTATION"}
        /\ tx.action = "EXECUTE" => e.state = "ATTESTATION"
    BY <1>1, <1>3, MovesType
  <1>9. /\ r \in ActionRecords /\ r.action = tx.action /\ r.sequence = tx.sequence
    BY <1>8, RecordedType
  <1>10. /\ f \in EntryRecords
         /\ f.draft = e.draft /\ f.at = e.at /\ f.offset = e.offset
         /\ Tallied(f, Append(l, r))
         /\ Placed(f, Append(l, r), snapshot.slots)
    BY <1>1, <1>7, <1>8, <1>9, Moved
  <1>11. /\ snapshot'.drafts = snapshot.drafts
         /\ snapshot'.entries = [snapshot.entries EXCEPT ![i] = f]
         /\ snapshot'.slots = snapshot.slots
         /\ snapshot' = [drafts |-> snapshot'.drafts, entries |-> snapshot'.entries,
                         slots |-> snapshot'.slots]
    BY <1>3, <1>4, <1>6, <1>9, MoveStored
  <1>12. snapshot' \in Snapshots
    <2>1. [snapshot.entries EXCEPT ![i] = f] \in Seq(EntryRecords)
      BY <1>6, <1>10 DEF Snapshots
    <2> QED
      BY <1>6, <1>11, <2>1 DEF Snapshots
  <1>13. SlotsInv'
    <2>1. Used' = Used
      BY <1>11 DEF Used
    <2>2. log'[e.draft] = Append(l, r) /\ \A x \in Drafts : x # e.draft => log'[x] = log[x]
      BY <1>5, <1>6, <1>7 DEF Logs
    <2>3. ActsIn(Append(l, r), "APPROVE") = ActsIn(l, "APPROVE")
      BY <1>7, <1>9, LogGrows
    <2>4. \A x \in Drafts : ActsIn(log'[x], "APPROVE") = ActsIn(log[x], "APPROVE")
      BY <2>2, <2>3
    <2> QED
      BY <2>1, <2>4, NothingCast
  <1> HIDE DEF f, r
  <1>14. /\ Tallied(f, Append(log[f.draft], r))
         /\ Placed(f, Append(log[f.draft], r), snapshot.slots)
         /\ log' = [log EXCEPT ![f.draft] = Append(@, r)]
         /\ r.sequence = snapshot.entries[i].sequence + 1
         /\ snapshot.slots \in Seq(Keys \cup {NoKey})
    BY <1>1, <1>5, <1>6, <1>9, <1>10 DEF Snapshots
  <1>15. StoreTypes' /\ EntryInv' /\ ApartInv' /\ LogInv' /\ CapacityInv'
    BY <1>1, <1>9, <1>10, <1>11, <1>12, <1>14, ActKeeps
  <1> QED
    BY <1>5, <1>13, <1>15 DEF ContractInv

-----------------------------------------------------------------------------
(* Registration appends an entry, its draft and its slots, or does nothing *)
(* (stn_contract_snapshot_register, stn_contract_state_register).          *)
NewEntry(d) ==
    [draft |-> d, at |-> Len(snapshot.drafts) + 1, state |-> "ISSUED", sequence |-> 1,
     offset |-> Len(snapshot.slots), eligible |-> Cardinality(Approvers(d)),
     required |-> Required(d), count |-> 0]

(* What registration adds to the store: a draft, an entry and its slots    *)
(* (stn_contract_state_register).                                          *)
LEMMA RegistrationCreates ==
    ASSUME snapshot \in Snapshots, NEW d \in Drafts, RegisterOK(snapshot, d)
    PROVE  Created(snapshot, d)
             = [drafts |-> Append(snapshot.drafts, d),
                entries |-> Append(snapshot.entries, NewEntry(d)),
                slots |-> snapshot.slots \o [k \in DOMAIN Participants[d] |-> NoKey]]
  <1> DEFINE E == snapshot.entries
             e == [draft |-> d, at |-> Len(snapshot.drafts) + 1, state |-> "DRAFT",
                   sequence |-> 0, offset |-> Len(snapshot.slots),
                   eligible |-> Cardinality(Approvers(d)), required |-> Required(d),
                   count |-> 0]
             D == Append(snapshot.drafts, d)
             S == snapshot.slots \o [k \in DOMAIN Participants[d] |-> NoKey]
             t == [drafts |-> D, entries |-> Append(E, e), slots |-> S]
             c == ApplyAction(DraftOf(d), "CREATE", 1)
  <1>1. Register(snapshot, d) = t
    BY DEF Register, Grown
  <1>2. E \in Seq(EntryRecords)
    BY DEF Snapshots
  <1>3. Append(E, e) # E
    <2>1. Len(Append(E, e)) = Len(E) + 1 /\ Len(E) \in Nat
      BY <1>2
    <2> QED
      BY <2>1
  <1>4. Created(snapshot, d) = Stored(t, Len(t.entries), c)
    BY <1>1, <1>3 DEF Created
  <1>5. c.state = "ISSUED" /\ c.sequence = 1
    <2>1. \A s \in States : <<"CREATE", "DRAFT", s>> \in Moves <=> s = "ISSUED"
      BY DEF Moves, OtherMoves, Open, States
    <2>2. "ISSUED" \in States
      BY DEF States
    <2>3. (CHOOSE s \in States : <<"CREATE", "DRAFT", s>> \in Moves) = "ISSUED"
      BY <2>1, <2>2
    <2> QED
      BY <2>3 DEF ApplyAction, DraftOf
  <1>6. Len(t.entries) = Len(E) + 1 /\ t.entries[Len(E) + 1] = e
    BY <1>2
  <1>7. [[e EXCEPT !.state = "ISSUED"] EXCEPT !.sequence = 1] = NewEntry(d)
    <2>1. [e EXCEPT !.state = "ISSUED"]
            = [draft |-> d, at |-> Len(snapshot.drafts) + 1, state |-> "ISSUED",
               sequence |-> 0, offset |-> Len(snapshot.slots),
               eligible |-> Cardinality(Approvers(d)), required |-> Required(d),
               count |-> 0]
      OBVIOUS
    <2>2. [[draft |-> d, at |-> Len(snapshot.drafts) + 1, state |-> "ISSUED",
            sequence |-> 0, offset |-> Len(snapshot.slots),
            eligible |-> Cardinality(Approvers(d)), required |-> Required(d),
            count |-> 0] EXCEPT !.sequence = 1] = NewEntry(d)
      BY DEF NewEntry
    <2> HIDE DEF e
    <2> QED
      BY <2>1, <2>2
  <1> HIDE DEF e, c, D, S
  <1>8. Stored(t, Len(t.entries), c)
          = [drafts |-> D, entries |-> [Append(E, e) EXCEPT ![Len(E) + 1] = NewEntry(d)],
             slots |-> S]
    <2>1. t.drafts = D /\ t.entries = Append(E, e) /\ t.slots = S
      OBVIOUS
    <2>2. [[t.entries[Len(E) + 1] EXCEPT !.state = c.state] EXCEPT !.sequence = c.sequence]
            = NewEntry(d)
      BY <1>5, <1>6, <1>7
    <2>3. Stored(t, Len(t.entries), c)
            = [t EXCEPT !.entries = [t.entries EXCEPT ![Len(E) + 1] = NewEntry(d)]]
      BY <1>6, <2>2 DEF Stored
    <2> QED
      BY <2>1, <2>3
  <1>9. [Append(E, e) EXCEPT ![Len(E) + 1] = NewEntry(d)] = Append(E, NewEntry(d))
    <2> DEFINE a == Append(E, e)
               b == Append(E, NewEntry(d))
               x == [a EXCEPT ![Len(E) + 1] = NewEntry(d)]
    <2>1. /\ DOMAIN a = 1..(Len(E) + 1) /\ DOMAIN b = 1..(Len(E) + 1)
          /\ b[Len(E) + 1] = NewEntry(d) /\ Len(E) \in Nat
          /\ \A k \in 1..Len(E) : a[k] = E[k] /\ b[k] = E[k]
          /\ a = [k \in 1..(Len(E) + 1) |-> a[k]]
          /\ b = [k \in 1..(Len(E) + 1) |-> b[k]]
      BY <1>2
    <2> HIDE DEF a, b
    <2>2. DOMAIN x = 1..(Len(E) + 1) /\ x = [k \in 1..(Len(E) + 1) |-> x[k]]
      BY <2>1
    <2>3. ASSUME NEW k \in 1..(Len(E) + 1)
          PROVE  x[k] = b[k]
      <3>1. CASE k = Len(E) + 1
        BY <2>1, <3>1
      <3>2. CASE k # Len(E) + 1
        <4>1. k \in 1..Len(E)
          BY <2>1, <3>2
        <4> QED
          BY <2>1, <3>2, <4>1
      <3> QED
        BY <3>1, <3>2
    <2>4. x = b
      BY <2>1, <2>2, <2>3
    <2> QED
      BY <2>4 DEF a, b
  <1> QED
    BY <1>4, <1>8, <1>9 DEF D, S

(* Registration keeps the invariant, whether it is refused or not.         *)
LEMMA RegistrationStep ==
    ASSUME ContractInv, NEW d \in Drafts, Registration(d)
    PROVE  ContractInv'
  <1>1. snapshot \in Snapshots /\ log \in Logs /\ lifecycle' = lifecycle
    BY DEF ContractInv, StoreTypes, Registration
  <1>2. CASE ~RegisterOK(snapshot, d)
    <2>1. snapshot' = snapshot /\ log' = log
      BY <1>2 DEF Registration, Created, Register
    <2> QED
      BY <1>1, <2>1 DEF ContractInv, StoreTypes, EntryInv, ApartInv, LogInv, CapacityInv,
                        SlotsInv, Used, Cast, Acts, Entries
  <1>3. CASE RegisterOK(snapshot, d)
    <2> DEFINE E == snapshot.entries
               n == Len(E) + 1
               f == NewEntry(d)
               free == [k \in DOMAIN Participants[d] |-> NoKey]
               s == snapshot.slots \o free
               r == [action |-> "CREATE", current |-> DraftOf(d), sequence |-> 1,
                     actor |-> NoKey]
    <2>1. /\ E \in Seq(EntryRecords) /\ Len(E) \in Nat
          /\ snapshot.drafts \in Seq(Drafts) /\ Len(snapshot.drafts) \in Nat
          /\ snapshot.slots \in Seq(Keys \cup {NoKey}) /\ Len(snapshot.slots) \in Nat
          /\ Entries = 1..Len(E)
      BY <1>1 DEF Snapshots, Entries
    <2>2. /\ Width(d) \in Nat /\ DOMAIN Participants[d] = 1..Width(d)
          /\ Cardinality(Approvers(d)) \in Nat
      BY ParticipantsType
    <2>3. /\ snapshot'.drafts = Append(snapshot.drafts, d)
          /\ snapshot'.entries = Append(E, f)
          /\ snapshot'.slots = s
          /\ snapshot' = [drafts |-> Append(snapshot.drafts, d),
                          entries |-> Append(E, f), slots |-> s]
      <3>1. snapshot' = [drafts |-> Append(snapshot.drafts, d),
                         entries |-> Append(E, f), slots |-> s]
        BY <1>1, <1>3, RegistrationCreates DEF Registration
      <3> HIDE DEF s, f
      <3> QED
        BY <3>1
    <2>4. log' = [log EXCEPT ![d] = <<r>>] /\ log'[d] = <<r>>
          /\ \A c \in Drafts \ {d} : log'[c] = log[c]
      BY <1>1, <1>3 DEF Registration, Logs
    <2>5. /\ free \in Seq(Keys \cup {NoKey}) /\ Len(free) = Width(d)
          /\ \A k \in 1..Width(d) : free[k] = NoKey
      BY <2>2
    <2>6. /\ s \in Seq(Keys \cup {NoKey})
          /\ Len(s) = Len(snapshot.slots) + Width(d)
          /\ \A k \in 1..Len(snapshot.slots) : s[k] = snapshot.slots[k]
          /\ \A k \in 1..Width(d) : s[Len(snapshot.slots) + k] = NoKey
      <3> HIDE DEF free
      <3>1. /\ s \in Seq(Keys \cup {NoKey})
            /\ Len(s) = Len(snapshot.slots) + Len(free)
            /\ \A k \in 1 .. Len(snapshot.slots) + Len(free) :
                  s[k] = IF k <= Len(snapshot.slots) THEN snapshot.slots[k]
                         ELSE free[k - Len(snapshot.slots)]
        BY <2>1, <2>5, ConcatProperties
      <3> HIDE DEF s
      <3>2. ASSUME NEW k \in 1..Width(d)
            PROVE  s[Len(snapshot.slots) + k] = NoKey
        <4>1. /\ Len(snapshot.slots) + k \in 1 .. Len(snapshot.slots) + Len(free)
              /\ ~(Len(snapshot.slots) + k <= Len(snapshot.slots))
              /\ (Len(snapshot.slots) + k) - Len(snapshot.slots) = k
          BY <2>1, <2>2, <2>5
        <4> QED
          BY <2>5, <3>1, <4>1
      <3>3. \A k \in 1..Len(snapshot.slots) : s[k] = snapshot.slots[k]
        <4>1. \A k \in 1..Len(snapshot.slots) :
                  k \in 1 .. Len(snapshot.slots) + Len(free) /\ k <= Len(snapshot.slots)
          BY <2>1, <2>2, <2>5
        <4> QED
          BY <3>1, <4>1
      <3> QED
        BY <2>5, <3>1, <3>2, <3>3
    <2> HIDE DEF s
    <2>7. /\ f \in EntryRecords /\ f.draft = d /\ f.at = Len(snapshot.drafts) + 1
          /\ f.state = "ISSUED" /\ f.sequence = 1 /\ f.offset = Len(snapshot.slots)
          /\ f.eligible = Cardinality(Approvers(d)) /\ f.required = Required(d)
          /\ f.count = 0
      <3>1. Required(d) \in Nat
        BY <2>2 DEF Required
      <3>2. 1 \in 0..MaxSequence /\ "ISSUED" \in States
        BY ContractsAssumption DEF States
      <3> QED
        BY <2>1, <2>2, <3>1, <3>2 DEF NewEntry, EntryRecords
    <2> HIDE DEF f
    <2>8. r \in ActionRecords
      <3>1. DraftOf(d) \in ContractRecords /\ "CREATE" \in Actions
        BY DEF DraftOf, ContractRecords, States, Actions
      <3> QED
        BY <3>1 DEF ActionRecords
    <2>9. /\ <<r>> \in Seq(ActionRecords) /\ Len(<<r>>) = 1 /\ DOMAIN <<r>> = {1}
          /\ <<r>>[1] = r /\ r.action = "CREATE" /\ r.sequence = 1
      BY <2>8
    <2>10. ActsIn(<<r>>, "APPROVE") = {} /\ ActsIn(<<r>>, "EXECUTE") = {} /\ VotersIn(<<r>>) = {}
      <3> HIDE DEF r
      <3> QED
        BY <2>9 DEF ActsIn, VotersIn
    <2> HIDE DEF r
    <2>11. d \notin Registered(snapshot) /\ Len(E) < MaxContracts
           /\ Width(d) <= MaxVotes - Len(snapshot.slots)
      BY <1>3 DEF RegisterOK, Width
    <2>12. log[d] = <<>>
      BY <2>11 DEF ContractInv, LogInv
    <2>13. /\ Entries' = Entries \cup {n} /\ n \notin Entries
           /\ snapshot'.entries[n] = f /\ Len(snapshot'.entries) = n
           /\ \A j \in Entries : snapshot'.entries[j] = E[j]
      <3>1. /\ Len(Append(E, f)) = n /\ Append(E, f)[n] = f
            /\ DOMAIN Append(E, f) = 1..n
            /\ \A j \in 1..Len(E) : Append(E, f)[j] = E[j]
        BY <2>1, <2>7
      <3>2. 1..n = (1..Len(E)) \cup {n} /\ n \notin 1..Len(E)
        BY <2>1
      <3> QED
        BY <2>1, <2>3, <3>1, <3>2 DEF Entries
    <2>14. StoreTypes'
      <3>1. log' \in Logs
        BY <1>1, <2>4, <2>9 DEF Logs
      <3>2. /\ Append(snapshot.drafts, d) \in Seq(Drafts)
            /\ Append(E, f) \in Seq(EntryRecords)
        BY <2>1, <2>7
      <3> QED
        BY <2>3, <2>6, <3>1, <3>2 DEF StoreTypes, Snapshots
    <2>15. EntryInv'
      <3> SUFFICES ASSUME NEW j \in Entries'
                   PROVE  /\ ReadsOwn(snapshot'.entries[j], snapshot'.drafts)
                          /\ Tallied(snapshot'.entries[j], log'[snapshot'.entries[j].draft])
                          /\ Placed(snapshot'.entries[j], log'[snapshot'.entries[j].draft],
                                    snapshot'.slots)
        BY DEF EntryInv
      <3>1. CASE j = n
        <4>1. ReadsOwn(f, snapshot'.drafts)
          BY <2>1, <2>3, <2>7 DEF ReadsOwn
        <4>2. Tallied(f, <<r>>)
          <5>1. Cardinality(VotersIn(<<r>>)) = 0 /\ VotersIn(<<r>>) \subseteq Approvers(d)
            BY <2>10, FS_EmptySet
          <5>2. f.state # "ATTESTATION" /\ f.sequence = Len(<<r>>) /\ f.sequence > 0
            BY <2>7, <2>9
          <5> QED
            BY <2>7, <2>10, <5>1, <5>2 DEF Tallied
        <4>3. Placed(f, <<r>>, s)
          <5>1. f.offset + 1 .. f.offset + f.count = {}
            BY <2>1, <2>7
          <5>2. {s[k] : k \in f.offset + 1 .. f.offset + f.count}
                    = {<<f.draft, a>> : a \in VotersIn(<<r>>)}
            BY <2>10, <5>1
          <5>3. \A k \in 1..Width(d) : s[f.offset + k] # NoKey <=> k <= f.count
            BY <2>6, <2>7
          <5> QED
            BY SMTT(60), <2>6, <2>7, <5>2, <5>3 DEF Placed
        <4> QED
          BY <2>3, <2>4, <2>7, <2>13, <3>1, <4>1, <4>2, <4>3
      <3>2. CASE j # n
        <4>1. j \in Entries /\ snapshot'.entries[j] = E[j]
          BY <2>13, <3>2
        <4>2. /\ E[j] \in EntryRecords /\ E[j].draft \in Drafts
              /\ E[j].offset \in Nat /\ Width(E[j].draft) \in Nat
              /\ ReadsOwn(E[j], snapshot.drafts)
              /\ Tallied(E[j], log[E[j].draft])
              /\ Placed(E[j], log[E[j].draft], snapshot.slots)
          BY <4>1, EntryType
        <4>3. E[j].draft # d
          BY <2>11, <4>1 DEF Registered, Entries
        <4>4. log'[E[j].draft] = log[E[j].draft]
          BY <2>4, <4>2, <4>3
        <4>5. ReadsOwn(E[j], snapshot'.drafts)
          BY SMTT(60), <2>1, <2>3, <4>2 DEF ReadsOwn
        <4>6. Len(snapshot.slots) <= Len(s) /\ Len(s) \in Nat
          BY <2>1, <2>2, <2>6
        <4>7. E[j].offset + Width(E[j].draft) <= Len(snapshot.slots)
          BY <4>2 DEF Placed
        <4>8. \A k \in 1..Width(E[j].draft) :
                  s[E[j].offset + k] = snapshot.slots[E[j].offset + k]
          <5> SUFFICES ASSUME NEW k \in 1..Width(E[j].draft)
                       PROVE  s[E[j].offset + k] = snapshot.slots[E[j].offset + k]
            OBVIOUS
          <5>1. E[j].offset + k \in 1..Len(snapshot.slots)
            <6> HIDE DEF E
            <6> QED
              BY <2>1, <4>2, <4>7
          <5> QED
            BY <2>6, <5>1
        <4>9. Placed(E[j], log[E[j].draft], s)
          <5> HIDE DEF E
          <5> QED
            BY <2>1, <4>2, <4>6, <4>8, Undisturbed
        <4> QED
          BY <2>3, <4>1, <4>4, <4>2, <4>5, <4>9
      <3> QED
        BY <3>1, <3>2
    <2>16. ApartInv'
      <3> SUFFICES ASSUME NEW i \in Entries', NEW j \in Entries', i < j
                   PROVE  /\ snapshot'.entries[i].draft # snapshot'.entries[j].draft
                          /\ snapshot'.entries[i].offset + Width(snapshot'.entries[i].draft)
                                 <= snapshot'.entries[j].offset
        BY DEF ApartInv
      <3>1. CASE j \in Entries
        <4>1. i \in Entries
          BY <2>1, <2>13, <3>1
        <4> QED
          BY <2>13, <3>1, <4>1 DEF ContractInv, ApartInv
      <3>2. CASE j = n
        <4>1. i \in Entries
          BY <2>1, <2>13, <3>2
        <4>2. E[i].draft # d
          BY <2>11, <4>1 DEF Registered, Entries
        <4>3. E[i].offset + Width(E[i].draft) <= Len(snapshot.slots)
          BY <4>1, EntryType DEF Placed
        <4> QED
          BY <2>7, <2>13, <3>2, <4>1, <4>2, <4>3
      <3> QED
        BY <2>13, <3>1, <3>2
    <2>17. LogInv'
      <3>1. Registered(snapshot)' = Registered(snapshot) \cup {d}
        <4>1. Registered(snapshot)' = {snapshot'.entries[j].draft : j \in Entries'}
          BY DEF Registered, Entries
        <4>2. Registered(snapshot) = {E[j].draft : j \in Entries}
          BY DEF Registered, Entries
        <4>3. \A j \in Entries : snapshot'.entries[j].draft = E[j].draft
          BY <2>13
        <4> QED
          BY <2>7, <2>13, <4>1, <4>2, <4>3
      <3>2. \A k \in DOMAIN log'[d] : log'[d][k].sequence = k
        BY <2>4, <2>9
      <3>3. \A c \in Drafts \ {d} : /\ \A k \in DOMAIN log'[c] : log'[c][k].sequence = k
                                    /\ c \notin Registered(snapshot)' => log'[c] = <<>>
        BY <2>4, <3>1 DEF ContractInv, LogInv
      <3> QED
        BY <3>1, <3>2, <3>3 DEF LogInv
    <2>18. CapacityInv'
      BY SMTT(60), <2>1, <2>2, <2>3, <2>6, <2>11, <2>13, ContractsAssumption DEF ContractInv, CapacityInv
    <2>19. SlotsInv'
      <3>1. Used' = Used
        <4>1. DOMAIN snapshot.slots = 1..Len(snapshot.slots) /\ DOMAIN s = 1..Len(s)
          BY <2>1, <2>6
        <4>2. ASSUME NEW k \in 1..Len(s), k \notin 1..Len(snapshot.slots)
              PROVE  s[k] = NoKey
          <5>1. /\ k - Len(snapshot.slots) \in 1..Width(d)
                /\ Len(snapshot.slots) + (k - Len(snapshot.slots)) = k
            BY SMTT(60), <2>1, <2>2, <2>6, <4>2
          <5> QED
            BY <2>6, <5>1
        <4>3. 1..Len(snapshot.slots) \subseteq 1..Len(s)
          BY <2>1, <2>2, <2>6
        <4> QED
          BY <2>3, <2>6, <4>1, <4>2, <4>3 DEF Used
      <3>2. \A c \in Drafts : ActsIn(log'[c], "APPROVE") = ActsIn(log[c], "APPROVE")
        <4>1. ActsIn(<<>>, "APPROVE") = {}
          BY DEF ActsIn
        <4> QED
          BY <2>4, <2>10, <2>12, <4>1
      <3> QED
        BY <3>1, <3>2, NothingCast
    <2> QED
      BY <1>1, <2>14, <2>15, <2>16, <2>17, <2>18, <2>19 DEF ContractInv
  <1> QED
    BY <1>2, <1>3

-----------------------------------------------------------------------------
(* Grants and revocations keep the lifecycle's type (stn_lifecycle.c).     *)
LEMMA LifecycleSteps ==
    ASSUME NEW l \in Lifecycles
    PROVE  /\ \A g \in GrantRecords : ApplyGrant(l, g) \in Lifecycles
           /\ \A r \in RevocationRecords : ApplyRevocation(l, r) \in Lifecycles
  <1>1. ASSUME NEW tx \in LifecycleRecords
        PROVE  Consume(l, tx) \in Lifecycles
    BY DEF Consume, Lifecycles, ReplayKeys
  <1>2. ASSUME NEW g \in GrantRecords
        PROVE  ApplyGrant(l, g) \in Lifecycles
    <2>1. Consume(l, g) \in Lifecycles
      BY <1>1 DEF LifecycleRecords
    <2> QED
      BY <2>1 DEF ApplyGrant, Lifecycles
  <1>3. ASSUME NEW r \in RevocationRecords
        PROVE  ApplyRevocation(l, r) \in Lifecycles
    <2>1. Consume(l, r) \in Lifecycles
      BY <1>1 DEF LifecycleRecords
    <2>2. r.grant \in GrantRecords
      BY DEF RevocationRecords
    <2> QED
      BY <2>1, <2>2 DEF ApplyRevocation, Lifecycles
  <1> QED
    BY <1>2, <1>3

(* At first nothing is held and the founding grants are in force.          *)
LEMMA ContractInit == Init => ContractInv
  <1> SUFFICES ASSUME Init PROVE ContractInv
    OBVIOUS
  <1>1. /\ snapshot = Empty /\ Entries = {} /\ Used = {}
        /\ \A d \in Drafts : log[d] = <<>>
        /\ snapshot.entries = <<>> /\ snapshot.slots = <<>> /\ snapshot.drafts = <<>>
    BY DEF Init, Empty, Entries, Used
  <1>2. StoreTypes
    BY <1>1 DEF Init, StoreTypes, Snapshots, Logs, Empty
  <1>3. lifecycle \in Lifecycles
    <2>1. Founding \subseteq GrantRecords
      BY ContractsAssumption
    <2>2. {ReplayKey(g) : g \in Founding} \subseteq ReplayKeys
      BY <2>1 DEF ReplayKeys, LifecycleRecords
    <2>3. EmptyLifecycle \in Lifecycles
      BY DEF EmptyLifecycle, Lifecycles
    <2> QED
      BY <2>1, <2>2, <2>3 DEF Init, Lifecycles
  <1>4. EntryInv /\ ApartInv
    BY <1>1 DEF EntryInv, ApartInv
  <1>5. LogInv
    BY <1>1 DEF LogInv
  <1>6. CapacityInv
    BY <1>1, ContractsAssumption DEF CapacityInv
  <1>7. SlotsInv
    <2>1. \A d \in Drafts : Acts(d, "APPROVE") = {}
      BY <1>1 DEF Acts
    <2>2. Cast = {}
      BY <2>1 DEF Cast
    <2> QED
      BY <1>1, <2>2, FS_EmptySet DEF SlotsInv
  <1> QED
    BY <1>2, <1>3, <1>4, <1>5, <1>6, <1>7 DEF ContractInv

(* What a signer has seen of a draft is bytes of that draft.               *)
LEMMA SeenDraft ==
    ASSUME ContractInv, NEW d \in Drafts, NEW c \in Seen(d)
    PROVE  c.draft \in Drafts
  <1>1. CASE c = DraftOf(d)
    BY <1>1 DEF DraftOf
  <1>2. CASE \E k \in DOMAIN log[d] : c = log[d][k].current
    <2>1. PICK k \in DOMAIN log[d] : c = log[d][k].current
      BY <1>2
    <2>2. log[d] \in Seq(ActionRecords)
      BY DEF ContractInv, StoreTypes, Logs
    <2>3. log[d][k] \in ActionRecords
      BY <2>2, ElementOfSeq
    <2> QED
      BY <2>1, <2>3 DEF ActionRecords, ContractRecords
  <1>3. CASE \E i \in Entries : c = Current(snapshot, i)
    <2>1. PICK i \in Entries : c = Current(snapshot, i)
      BY <1>3
    <2>2. Bytes(snapshot, i) \in Drafts
      BY EntryType DEF Bytes, ReadsOwn
    <2> QED
      BY <2>1, <2>2 DEF Current
  <1> QED
    BY <1>1, <1>2, <1>3 DEF Seen, Entries

(* A transaction as Next submits it.                                       *)
LEMMA SubmissionStep ==
    ASSUME ContractInv, NEW d \in Drafts, NEW tx, tx.actor \in Identities,
           tx.current \in Seen(d), Submission(tx)
    PROVE  /\ ContractInv'
           /\ \A x \in Drafts : log'[x] # log[x] =>
                 \E g \in lifecycle.grants \ lifecycle.revoked :
                     /\ g.subject = log'[x][Len(log'[x])].actor
                     /\ g.scope = <<log'[x][Len(log'[x])].action, x>>
           /\ \A x \in Drafts : log'[x] # log[x] => log[x] # <<>>
  <1>1. ActOK(snapshot, lifecycle, tx) /\ tx.action # "CREATE"
    <2>1. tx.current.draft \in Drafts
      BY SeenDraft
    <2> QED
      BY <2>1, NothingBegins DEF Submission
  <1>2. ContractInv'
    BY <1>1, VoteStep, MoveStep
  <1>3. PICK g \in lifecycle.grants \ lifecycle.revoked :
            tx.evidence = EvidenceFor(g.subject, g.scope[1], g.scope[2])
    BY <1>1 DEF ActOK, Authorized
  <1>4. tx.evidence = EvidenceFor(tx.actor, tx.action, tx.current.draft)
    BY <1>1 DEF ActOK, Authorized, Evidenced
  <1>5. g.subject = tx.actor /\ <<g.scope[1], g.scope[2]>> = <<tx.action, tx.current.draft>>
    BY <1>3, <1>4 DEF EvidenceFor
  <1>6. g.scope = <<tx.action, tx.current.draft>>
    <2>1. g.scope \in Scopes
      BY DEF ContractInv, Lifecycles, GrantRecords
    <2> QED
      BY <1>5, <2>1, ContractsAssumption
  <1>7. ASSUME NEW x \in Drafts, log'[x] # log[x]
        PROVE  /\ x = tx.current.draft
               /\ log'[x][Len(log'[x])] = Recorded(tx)
    <2>1. log' = [log EXCEPT ![tx.current.draft] = Append(@, Recorded(tx))]
      BY DEF Submission, Recorded
    <2>2. log \in Logs /\ log[x] \in Seq(ActionRecords)
      BY DEF ContractInv, StoreTypes, Logs
    <2>3. x = tx.current.draft /\ log'[x] = Append(log[x], Recorded(tx))
      BY <1>7, <2>1, <2>2 DEF Logs
    <2> QED
      BY <2>2, <2>3
  <1>8. log[tx.current.draft] # <<>>
    <2>1. PICK i \in Entries : tx.current.draft = snapshot.entries[i].draft
      BY <1>1, ActFound
    <2>2. Tallied(snapshot.entries[i], log[tx.current.draft])
      BY <2>1 DEF ContractInv, EntryInv
    <2> QED
      BY <2>2 DEF Tallied
  <1> QED
    BY <1>2, <1>5, <1>6, <1>7, <1>8 DEF Recorded

(* Every step keeps the invariant.                                         *)
LEMMA ContractStep ==
    ASSUME ContractInv, [Next]_vars
    PROVE  ContractInv'
  <1>1. ASSUME NEW d \in Drafts, Registration(d)
        PROVE  ContractInv'
    BY <1>1, RegistrationStep
  <1>2. ASSUME NEW d \in Drafts, NEW actor \in Identities, NEW evidence \in Presented,
               NEW n \in {0, 1}, NEW c \in Seen(d),
               Submission(
                   [action |-> IF evidence = NoEvidence THEN "CREATE" ELSE evidence.scope[1],
                    actor |-> actor, current |-> c, sequence |-> c.sequence + n,
                    evidence |-> evidence, signed |-> TRUE])
        PROVE  ContractInv'
    BY <1>2, SubmissionStep
  <1>3. ASSUME snapshot' = snapshot, log' = log, lifecycle' \in Lifecycles
        PROVE  ContractInv'
    BY <1>3 DEF ContractInv, StoreTypes, EntryInv, ApartInv, LogInv, CapacityInv, SlotsInv,
                Used, Cast, Acts, Entries
  <1>4. ASSUME NEW g \in Grants, Granting(g)
        PROVE  ContractInv'
    <2>1. lifecycle \in Lifecycles /\ g \in GrantRecords
      BY ContractsAssumption DEF ContractInv
    <2> QED
      BY <1>3, <1>4, <2>1, LifecycleSteps DEF Granting
  <1>5. ASSUME NEW r \in Revocations, Revoking(r)
        PROVE  ContractInv'
    <2>1. lifecycle \in Lifecycles /\ r \in RevocationRecords
      BY ContractsAssumption DEF ContractInv
    <2> QED
      BY <1>3, <1>5, <2>1, LifecycleSteps DEF Revoking
  <1>6. CASE UNCHANGED vars
    <2>1. lifecycle \in Lifecycles
      BY DEF ContractInv
    <2> QED
      BY <1>3, <1>6, <2>1 DEF vars
  <1> QED
    BY <1>1, <1>2, <1>4, <1>5, <1>6 DEF Next

(* The invariant of the store, its slots and its log.                      *)
LEMMA ContractCorrect == Spec => []ContractInv
  <1>1. ContractInv /\ [Next]_vars => ContractInv'
    BY ContractStep
  <1> QED
    BY <1>1, ContractInit, PTL DEF Spec

(* The store keeps within its capacities and every entry within its        *)
(* states, its sequences and its eligible votes                            *)
(* (stn_contract_state_register, stn_contract_state_apply_vote).           *)
THEOREM StoreTyped == Spec => []TypeOK
  <1>1. ContractInv => TypeOK
    <2> SUFFICES ASSUME ContractInv PROVE TypeOK
      OBVIOUS
    <2>1. ASSUME NEW i \in Entries
          PROVE  /\ snapshot.entries[i].state \in States
                 /\ snapshot.entries[i].sequence \in 0..MaxSequence
                 /\ snapshot.entries[i].count \in 0..snapshot.entries[i].eligible
      <3> DEFINE e == snapshot.entries[i]
      <3>1. e \in EntryRecords /\ Tallied(e, log[e.draft])
        BY EntryType
      <3> HIDE DEF e
      <3>2. e.count \in 0..e.eligible
        BY <3>1, CountBound
      <3> QED
        BY <3>1, <3>2 DEF EntryRecords, e
    <2> QED
      BY <2>1 DEF ContractInv, CapacityInv, TypeOK
  <1> QED
    BY <1>1, ContractCorrect, PTL

(* Whatever is attested or was executed, more than half of the approvers   *)
(* of its draft approved, each counted once                                *)
(* (stn_contract_state_apply_vote).                                        *)
THEOREM MajorityAttests == Spec => []AttestedByMajority
  <1>1. ContractInv => AttestedByMajority
    <2> SUFFICES ASSUME ContractInv, NEW i \in Entries,
                        \/ snapshot.entries[i].state = "ATTESTATION"
                        \/ Acts(snapshot.entries[i].draft, "EXECUTE") # {}
                 PROVE  2 * Cardinality(
                                {log[snapshot.entries[i].draft][k].actor :
                                    k \in Acts(snapshot.entries[i].draft, "APPROVE")}
                                \cap Approvers(snapshot.entries[i].draft))
                            > Cardinality(Approvers(snapshot.entries[i].draft))
      BY DEF AttestedByMajority
    <2> DEFINE e == snapshot.entries[i]
               l == log[e.draft]
    <2>1. e \in EntryRecords /\ e.draft \in Drafts /\ Tallied(e, l)
      BY EntryType
    <2>2. /\ Acts(e.draft, "EXECUTE") = ActsIn(l, "EXECUTE")
          /\ {l[k].actor : k \in Acts(e.draft, "APPROVE")} = VotersIn(l)
      BY DEF Acts, ActsIn, VotersIn
    <2>3. VotersIn(l) \cap Approvers(e.draft) = VotersIn(l)
      BY <2>1 DEF Tallied
    <2>4. e.count >= e.required /\ e.count = Cardinality(VotersIn(l))
      BY <2>1, <2>2 DEF Tallied
    <2>5. e.required = Cardinality(Approvers(e.draft)) \div 2 + 1
      BY <2>1 DEF Tallied, Required
    <2>6. Cardinality(Approvers(e.draft)) \in Nat /\ e.count \in Nat
      BY <2>1, ParticipantsType DEF EntryRecords
    <2>7. 2 * Cardinality(VotersIn(l)) > Cardinality(Approvers(e.draft))
      <3> HIDE DEF e, l
      <3> QED
        BY <2>4, <2>5, <2>6
    <2> QED
      BY <2>2, <2>3, <2>7
  <1> QED
    BY <1>1, ContractCorrect, PTL

(* Entries that share one buffer of drafts and one array of vote slots     *)
(* keep their own: each reads the draft it was registered with, its slots  *)
(* hold the approvals accepted for it, and no slot is taken twice          *)
(* (stn_contract_snapshot_register, stn_contract_state_apply_vote).        *)
THEOREM OwnDraftsAndVotes == Spec => []EntriesKeepTheirOwn
  <1>1. ContractInv => EntriesKeepTheirOwn
    <2> SUFFICES ASSUME ContractInv PROVE EntriesKeepTheirOwn
      OBVIOUS
    <2>1. ASSUME NEW i \in Entries
          PROVE  /\ Bytes(snapshot, i) = snapshot.entries[i].draft
                 /\ VotesOf(snapshot, i)
                      = {<<snapshot.entries[i].draft, log[snapshot.entries[i].draft][k].actor>> :
                            k \in Acts(snapshot.entries[i].draft, "APPROVE")}
      <3> DEFINE e == snapshot.entries[i]
                 l == log[e.draft]
      <3>1. ReadsOwn(e, snapshot.drafts) /\ Placed(e, l, snapshot.slots)
        BY EntryType
      <3>2. VotesOf(snapshot, i) = {<<e.draft, a>> : a \in VotersIn(l)}
        BY <3>1 DEF Placed, VotesOf
      <3>3. {<<e.draft, a>> : a \in VotersIn(l)}
              = {<<e.draft, l[k].actor>> : k \in Acts(e.draft, "APPROVE")}
        BY DEF VotersIn, ActsIn, Acts
      <3> QED
        BY <3>1, <3>2, <3>3 DEF ReadsOwn, Bytes
    <2>2. Cardinality({k \in DOMAIN snapshot.slots : snapshot.slots[k] # NoKey}) =
              Cardinality(UNION {{d} \X Acts(d, "APPROVE") : d \in Drafts})
      BY DEF ContractInv, SlotsInv, Used, Cast
    <2> QED
      BY <2>1, <2>2 DEF EntriesKeepTheirOwn
  <1> QED
    BY <1>1, ContractCorrect, PTL

(* A signed action is accepted at most once: it names a sequence, and the  *)
(* accepted actions of a draft are numbered without gaps                   *)
(* (stn_contract_apply_action).                                            *)
THEOREM ActsOnce == Spec => []ActionActsOnce
  <1>1. ContractInv => ActionActsOnce
    BY DEF ContractInv, LogInv, ActionActsOnce
  <1> QED
    BY <1>1, ContractCorrect, PTL

(* Who acts on a contract holds a grant for that action on that draft, not *)
(* revoked when the block is validated (contract_authorized).              *)
THEOREM ActorsInForce == Spec => ActorInForce
  <1>1. ContractInv /\ [Next]_vars
            => [\A d \in Drafts : Len(log'[d]) > 1 /\ log'[d] # log[d] =>
                   LET last == log'[d][Len(log'[d])]
                   IN \E g \in lifecycle.grants :
                         /\ g.subject = last.actor /\ g.scope = <<last.action, d>>
                         /\ \A r \in lifecycle.revoked : r # g]_vars
    <2> SUFFICES ASSUME ContractInv, Next, NEW x \in Drafts,
                        Len(log'[x]) > 1, log'[x] # log[x]
                 PROVE  \E g \in lifecycle.grants :
                            /\ g.subject = log'[x][Len(log'[x])].actor
                            /\ g.scope = <<log'[x][Len(log'[x])].action, x>>
                            /\ \A r \in lifecycle.revoked : r # g
      OBVIOUS
    <2>1. ASSUME NEW d \in Drafts, Registration(d)
          PROVE  FALSE
      <3>1. log \in Logs
        BY DEF ContractInv, StoreTypes
      <3>2. d = x /\ Len(log'[x]) = 1
        BY <2>1, <3>1 DEF Registration, Logs
      <3> QED
        BY <3>2
    <2>2. ASSUME NEW d \in Drafts, NEW actor \in Identities, NEW evidence \in Presented,
                 NEW n \in {0, 1}, NEW c \in Seen(d),
                 Submission(
                     [action |-> IF evidence = NoEvidence THEN "CREATE" ELSE evidence.scope[1],
                      actor |-> actor, current |-> c, sequence |-> c.sequence + n,
                      evidence |-> evidence, signed |-> TRUE])
          PROVE  \E g \in lifecycle.grants \ lifecycle.revoked :
                     /\ g.subject = log'[x][Len(log'[x])].actor
                     /\ g.scope = <<log'[x][Len(log'[x])].action, x>>
      BY <2>2, SubmissionStep
    <2>3. CASE (\E g \in Grants : Granting(g)) \/ (\E r \in Revocations : Revoking(r))
      BY <2>3 DEF Granting, Revoking
    <2> QED
      BY <2>1, <2>2, <2>3 DEF Next
  <1> QED
    BY <1>1, ContractCorrect, PTL DEF Spec, ActorInForce

(* Whatever is signed, granted and submitted, no contract begins through a *)
(* block: it begins where a caller of the library registers it             *)
(* (contract_authorized in stn_chain.c refuses every CREATE, section 8 of  *)
(* the README).                                                            *)
THEOREM NoneBeginsOnChain ==
    Spec => [][\A d \in Drafts : log[d] = <<>> /\ log'[d] # <<>> => Registration(d)]_vars
  <1>1. ContractInv /\ [Next]_vars
            => [\A d \in Drafts : log[d] = <<>> /\ log'[d] # <<>> => Registration(d)]_vars
    <2> SUFFICES ASSUME ContractInv, Next, NEW x \in Drafts, log[x] = <<>>, log'[x] # <<>>
                 PROVE  Registration(x)
      OBVIOUS
    <2>1. ASSUME NEW d \in Drafts, Registration(d)
          PROVE  Registration(x)
      <3>1. log \in Logs
        BY DEF ContractInv, StoreTypes
      <3>2. d = x
        BY <2>1, <3>1 DEF Registration, Logs
      <3> QED
        BY <2>1, <3>2
    <2>2. ASSUME NEW d \in Drafts, NEW actor \in Identities, NEW evidence \in Presented,
                 NEW n \in {0, 1}, NEW c \in Seen(d),
                 Submission(
                     [action |-> IF evidence = NoEvidence THEN "CREATE" ELSE evidence.scope[1],
                      actor |-> actor, current |-> c, sequence |-> c.sequence + n,
                      evidence |-> evidence, signed |-> TRUE])
          PROVE  FALSE
      BY <2>2, SubmissionStep
    <2>3. CASE (\E g \in Grants : Granting(g)) \/ (\E r \in Revocations : Revoking(r))
      BY <2>3 DEF Granting, Revoking
    <2> QED
      BY <2>1, <2>2, <2>3 DEF Next
  <1> QED
    BY <1>1, ContractCorrect, PTL DEF Spec

-----------------------------------------------------------------------------
(* Rebuilding.  What the plain lifecycle makes of the accepted actions l   *)
(* of draft d (stn_contract_rebuild_accepted_state).                       *)
Begun(d) == [ok |-> TRUE, contract |-> DraftOf(d), approvals |-> Approvals(MaxSequence)]
Rebuilt(d, l) == Fold(<<>>, Begun(d), l)

(* How many approvals a state implies when two are required.               *)
Phased(state, count) ==
    /\ state \in {"DRAFT", "ISSUED", "REVIEW"} => count = 0
    /\ state = "APPROVALS" => count = 1

ApprovalKeys == ContractRecords \X Nat \X (Identities \cup {NoKey})

(* A replay r has reached state, sequence and number of approvals, and     *)
(* every key it remembers has a sequence it has passed.                    *)
Reached(r, d, state, sequence, count) ==
    /\ r.ok
    /\ r.contract = [draft |-> d, state |-> state, sequence |-> sequence]
    /\ r.approvals.count = count
    /\ r.approvals.buffer \in Seq(ApprovalKeys \cup {NoKey})
    /\ Len(r.approvals.buffer) = MaxSequence
    /\ \A k \in 1..count : r.approvals.buffer[k][2] \in 0..sequence
    /\ count \in 0..sequence /\ sequence \in 0..MaxSequence
    /\ Phased(state, count)

Follows(e, l) ==
    e.required = 2 => Reached(Rebuilt(e.draft, l), e.draft, e.state, e.sequence, e.count)
RebuildInv == \A i \in Entries : Follows(snapshot.entries[i], log[snapshot.entries[i].draft])

(* A contract whose state and sequence are set.                            *)
LEMMA Set ==
    ASSUME NEW d, NEW s, NEW n, NEW t, NEW m
    PROVE  [[draft |-> d, state |-> s, sequence |-> n] EXCEPT !.state = t, !.sequence = m]
             = [draft |-> d, state |-> t, sequence |-> m]
  <1>1. [[draft |-> d, state |-> s, sequence |-> n] EXCEPT !.state = t]
          = [draft |-> d, state |-> t, sequence |-> n]
    OBVIOUS
  <1>2. [[draft |-> d, state |-> t, sequence |-> n] EXCEPT !.sequence = m]
          = [draft |-> d, state |-> t, sequence |-> m]
    OBVIOUS
  <1> QED
    BY <1>1, <1>2

(* A buffer nothing was remembered in has a count of 0.                    *)
LEMMA ApprovalsType ==
    /\ Approvals(MaxSequence) \in [buffer : Seq({NoKey}), count : Nat]
    /\ Approvals(MaxSequence).count = 0
    /\ Len(Approvals(MaxSequence).buffer) = MaxSequence
  <1> DEFINE b == [k \in 1..MaxSequence |-> NoKey]
  <1>1. b \in Seq({NoKey}) /\ Len(b) = MaxSequence
    BY ContractsAssumption
  <1> HIDE DEF b
  <1>2. Approvals(MaxSequence) = [buffer |-> b, count |-> 0]
    BY DEF Approvals, b
  <1> QED
    BY <1>1, <1>2

(* The account of the property is this fold.                               *)
LEMMA RebuildFolds ==
    ASSUME NEW d, NEW l, Rebuilt(d, l).ok
    PROVE  Rebuild(DraftOf(d), l, Approvals(MaxSequence)) = Rebuilt(d, l)
  <1>1. [Approvals(MaxSequence) EXCEPT !.count = 0] = Approvals(MaxSequence)
    BY ApprovalsType
  <1>2. FoldLeft(LAMBDA r, tx : Accepting(<<>>, r, tx), Begun(d), l) = Rebuilt(d, l)
    BY DEF FoldLeft, MapThenFoldSet, Rebuilt, Fold, Folds, Piece
  <1> QED
    BY <1>1, <1>2 DEF Rebuild, Accepting, Begun

(* A draft begins as it is.                                                *)
LEMMA RebuildBegins ==
    ASSUME NEW d
    PROVE  Reached(Rebuilt(d, <<>>), d, "DRAFT", 0, 0)
  <1>1. Rebuilt(d, <<>>) = Begun(d)
    <2>1. DOMAIN <<>> = 1..0
      OBVIOUS
    <2> QED
      BY <2>1, FoldOfNone DEF Rebuilt
  <1>2. /\ Begun(d).ok /\ Begun(d).approvals = Approvals(MaxSequence)
        /\ Begun(d).contract = [draft |-> d, state |-> "DRAFT", sequence |-> 0]
    BY DEF Begun, DraftOf
  <1>3. Approvals(MaxSequence).buffer \in Seq(ApprovalKeys \cup {NoKey})
    BY ApprovalsType, ContractsAssumption
  <1>4. Phased("DRAFT", 0) /\ 0 \in 0..MaxSequence /\ 0 \in 0..0 /\ 1..0 = {}
    BY ContractsAssumption DEF Phased
  <1> QED
    BY <1>1, <1>2, <1>3, <1>4, ApprovalsType DEF Reached

(* One action more is one step more.                                       *)
LEMMA RebuildSteps ==
    ASSUME NEW d, NEW l \in Seq(ActionRecords), NEW a \in ActionRecords
    PROVE  Rebuilt(d, Append(l, a)) = Accepting(<<>>, Rebuilt(d, l), a)
  <1> DEFINE m == Append(l, a)
             n == Len(l)
  <1>1. /\ n \in Nat /\ DOMAIN l = 1..n /\ DOMAIN m = 1..(n + 1)
        /\ \A k \in 1..n : l[k] = m[k]
        /\ m[n + 1] = a
    OBVIOUS
  <1> HIDE DEF m, n
  <1>2. Fold(<<>>, Begun(d), m) = Accepting(<<>>, Fold(<<>>, Begun(d), l), m[n + 1])
    BY <1>1, FoldSteps
  <1> QED
    BY <1>1, <1>2 DEF Rebuilt, m

(* An action other than APPROVE that names the current bytes and the next  *)
(* sequence moves the replay as it moves an entry.                         *)
LEMMA RebuildMoves ==
    ASSUME NEW r, NEW d, NEW state \in States, NEW sequence, NEW count,
           Reached(r, d, state, sequence, count), sequence # MaxSequence,
           NEW a, a.current = [draft |-> d, state |-> state, sequence |-> sequence],
           a.sequence = sequence + 1, a.action # "APPROVE",
           NEW t \in States, <<a.action, state, t>> \in Moves,
           ApplyAction(a.current, a.action, a.sequence).state = t
    PROVE  Reached(Accepting(<<>>, r, a), d, t, sequence + 1, count)
  <1> DEFINE q == Accepting(<<>>, r, a)
             c == ApplyAction(a.current, a.action, a.sequence)
  <1>0. /\ r.ok /\ r.contract = a.current
        /\ a.current.state = state /\ a.current.sequence = sequence
    BY DEF Reached
  <1>1. AcceptOK(r.contract, r.approvals, a) /\ r.ok
    <2>1. NextInSequence(r.contract, a.sequence)
      BY <1>0 DEF NextInSequence
    <2>2. ApplyOK(r.contract, a.action, a.sequence)
      BY <1>0, <2>1 DEF ApplyOK
    <2> QED
      BY <1>0, <2>2 DEF AcceptOK, MatchesCanonical
  <1>2. q = [ok |-> TRUE, contract |-> ApplyAction(r.contract, a.action, a.sequence),
             approvals |-> r.approvals]
    BY <1>1 DEF Accepting
  <1>3. c = [draft |-> d, state |-> t, sequence |-> sequence + 1]
    <2> DEFINE u == CHOOSE u \in States : <<a.action, state, u>> \in Moves
    <2>1. c = [[draft |-> d, state |-> state, sequence |-> sequence]
                   EXCEPT !.state = u, !.sequence = sequence + 1]
      BY <1>0 DEF ApplyAction
    <2> HIDE DEF u
    <2>2. c = [draft |-> d, state |-> u, sequence |-> sequence + 1]
      BY <2>1, Set
    <2>3. c.state = t
      OBVIOUS
    <2> HIDE DEF c
    <2>4. u = t
      BY <2>2, <2>3
    <2> QED
      BY <2>2, <2>4
  <1>4. q.contract = c /\ q.ok /\ q.approvals = r.approvals
    BY <1>0, <1>2
  <1>5. Phased(t, count)
    <2>1. /\ t # "APPROVALS"
          /\ t \in {"DRAFT", "ISSUED", "REVIEW"} => state \in {"DRAFT", "ISSUED", "REVIEW"}
      BY DEF Moves, OtherMoves, Open
    <2> QED
      BY <2>1 DEF Phased, Reached
  <1>6. /\ count \in 0..(sequence + 1) /\ sequence + 1 \in 0..MaxSequence
        /\ \A k \in 1..count : r.approvals.buffer[k][2] \in 0..(sequence + 1)
    BY ContractsAssumption DEF Reached
  <1> HIDE DEF q, c
  <1> QED
    BY <1>3, <1>4, <1>5, <1>6 DEF Reached, q

(* An approval moves the replay as it moves an entry that needs two: the   *)
(* first one opens, the second attests (stn_contract_apply_action,         *)
(* stn_contract_state_apply_vote).                                         *)
LEMMA RebuildApproves ==
    ASSUME NEW r, NEW d, NEW state \in {"REVIEW", "APPROVALS"}, NEW sequence, NEW count,
           Reached(r, d, state, sequence, count), sequence # MaxSequence,
           NEW a \in ActionRecords,
           a.current = [draft |-> d, state |-> state, sequence |-> sequence],
           a.sequence = sequence + 1, a.action = "APPROVE"
    PROVE  Reached(Accepting(<<>>, r, a), d,
                   IF count + 1 >= 2 THEN "ATTESTATION" ELSE "APPROVALS",
                   sequence + 1, count + 1)
  <1> DEFINE q == Accepting(<<>>, r, a)
             t == IF state = "REVIEW" THEN "APPROVALS" ELSE "ATTESTATION"
             key == ApprovalKey(a)
             buffer == r.approvals.buffer
             after == [buffer EXCEPT ![count + 1] = key]
  <1>1. \A s \in States : <<"APPROVE", state, s>> \in Moves <=> s = t
    BY DEF Moves, OtherMoves, Open, States
  <1>2. t \in States /\ (CHOOSE s \in States : <<"APPROVE", state, s>> \in Moves) = t
    <2>1. t \in States
      BY DEF States
    <2> HIDE DEF t
    <2> QED
      BY <1>1, <2>1
  <1>3. /\ sequence \in Nat /\ count \in Nat /\ count <= sequence /\ sequence < MaxSequence
        /\ MaxSequence \in Nat
    BY ContractsAssumption DEF Reached
  <1>4. /\ buffer \in Seq(ApprovalKeys \cup {NoKey}) /\ Len(buffer) = MaxSequence
        /\ r.approvals.count = count /\ r.contract = a.current /\ r.ok
    BY DEF Reached
  <1>5. key = <<a.current, sequence + 1, a.actor>> /\ key \in ApprovalKeys
    BY DEF ApprovalKey, ActionRecords, ApprovalKeys
  <1>6. key \notin KeysOf(r.approvals)
    <2>1. \A k \in 1..count : buffer[k] # key
      <3>1. key[2] = sequence + 1
        BY <1>5
      <3>2. \A k \in 1..count : buffer[k][2] \in 0..sequence
        BY DEF Reached
      <3> HIDE DEF key, buffer
      <3> QED
        BY <1>3, <3>1, <3>2
    <2> QED
      BY <1>4, <2>1 DEF KeysOf
  <1>7. AcceptOK(r.contract, r.approvals, a)
    <2>1. ApplyOK(r.contract, "APPROVE", sequence + 1)
      BY <1>1, <1>2, <1>4 DEF ApplyOK, NextInSequence
    <2> QED
      BY <1>3, <1>4, <1>6, <2>1 DEF AcceptOK, MatchesCanonical
  <1>8. q = [ok |-> TRUE, contract |-> ApplyAction(r.contract, a.action, a.sequence),
             approvals |-> Consumed(r.approvals, key)]
    BY <1>4, <1>7 DEF Accepting
  <1>9. ApplyAction(r.contract, a.action, a.sequence)
           = [draft |-> d, state |-> t, sequence |-> sequence + 1]
    <2> HIDE DEF t
    <2>1. ApplyAction(r.contract, a.action, a.sequence)
            = [[draft |-> d, state |-> state, sequence |-> sequence]
                   EXCEPT !.state = t, !.sequence = sequence + 1]
      <3>1. /\ r.contract = [draft |-> d, state |-> state, sequence |-> sequence]
            /\ r.contract.state = state /\ a.sequence = sequence + 1 /\ a.action = "APPROVE"
        BY <1>4
      <3> QED
        BY ONLY <1>2, <3>1 DEF ApplyAction
    <2> QED
      BY <2>1, Set
  <1>10. q.approvals.buffer = after /\ q.approvals.count = count + 1
    BY <1>4, <1>8 DEF Consumed
  <1>11. /\ after \in Seq(ApprovalKeys \cup {NoKey}) /\ Len(after) = MaxSequence
         /\ after[count + 1] = key /\ \A k \in 1..count : after[k] = buffer[k]
    <2> HIDE DEF buffer, key
    <2>1. count + 1 \in 1..Len(buffer)
      BY <1>3, <1>4
    <2>2. DOMAIN buffer = 1..Len(buffer)
      BY <1>4
    <2>3. \A k \in 1..count : k # count + 1 /\ k \in 1..Len(buffer)
      BY <1>3, <1>4
    <2> QED
      BY <1>4, <1>5, <2>1, <2>2, <2>3
  <1>12. \A k \in 1..(count + 1) : after[k][2] \in 0..(sequence + 1)
    <2>1. key[2] = sequence + 1
      BY <1>5
    <2>2. \A k \in 1..count : buffer[k][2] \in 0..sequence
      BY DEF Reached
    <2>3. \A k \in 1..(count + 1) : k = count + 1 \/ k \in 1..count
      BY <1>3
    <2>4. 0..sequence \subseteq 0..(sequence + 1) /\ sequence + 1 \in 0..(sequence + 1)
      BY <1>3
    <2> HIDE DEF key, buffer, after
    <2> QED
      BY <1>11, <2>1, <2>2, <2>3, <2>4
  <1>13. t = (IF count + 1 >= 2 THEN "ATTESTATION" ELSE "APPROVALS") /\ Phased(t, count + 1)
    BY DEF Reached, Phased
  <1> HIDE DEF q, t, after, key, buffer
  <1>14. Reached(q, d, t, sequence + 1, count + 1)
    BY <1>3, <1>8, <1>9, <1>10, <1>11, <1>12, <1>13 DEF Reached
  <1> QED
    BY <1>13, <1>14 DEF q

(* An accepted action concerns the replay of its own draft only.           *)
LEMMA OthersFollow ==
    ASSUME ContractInv, RebuildInv, NEW i \in Entries, NEW a \in ActionRecords, NEW f,
           f.draft = snapshot.entries[i].draft,
           snapshot'.entries = [snapshot.entries EXCEPT ![i] = f],
           log' = [log EXCEPT ![f.draft] = Append(@, a)],
           Follows(f, Append(log[f.draft], a))
    PROVE  RebuildInv'
  <1>1. /\ snapshot.entries \in Seq(EntryRecords) /\ log \in Logs
        /\ Entries = DOMAIN snapshot.entries
    BY DEF ContractInv, StoreTypes, Snapshots, Entries
  <1>2. Entries' = Entries /\ snapshot'.entries[i] = f
    BY <1>1 DEF Entries
  <1>3. f.draft \in Drafts
    BY EntryType
  <1>4. log'[f.draft] = Append(log[f.draft], a)
    BY <1>1, <1>3 DEF Logs
  <1>5. ASSUME NEW j \in Entries, j # i
        PROVE  /\ snapshot'.entries[j] = snapshot.entries[j]
               /\ log'[snapshot.entries[j].draft] = log[snapshot.entries[j].draft]
    <2>1. snapshot.entries[j].draft # f.draft /\ snapshot.entries[j].draft \in Drafts
      BY <1>5, Separate, EntryType
    <2> QED
      BY <1>1, <1>5, <2>1 DEF Logs
  <1>6. ASSUME NEW j \in Entries
        PROVE  Follows(snapshot'.entries[j], log'[snapshot'.entries[j].draft])
    <2>1. CASE j = i
      BY <1>2, <1>4, <2>1
    <2>2. CASE j # i
      BY <1>5, <2>2 DEF RebuildInv
    <2> QED
      BY <2>1, <2>2
  <1> QED
    BY <1>2, <1>6 DEF RebuildInv

(* A vote changes its entry (stn_contract_state_apply_vote).               *)
LEMMA EntryVoted ==
    ASSUME NEW s \in Snapshots, NEW i \in DOMAIN s.entries, NEW sequence, NEW actor
    PROVE  ApplyVote(s, i, sequence, actor).entries
             = [s.entries EXCEPT ![i] = VotedEntry(s.entries[i], sequence)]
  <1> DEFINE E == [s.entries EXCEPT ![i] = VotedEntry(s.entries[i], sequence)]
             S == [s.slots EXCEPT ![s.entries[i].offset + s.entries[i].count + 1]
                       = <<s.entries[i].draft, actor>>]
             t == ApplyVote(s, i, sequence, actor)
  <1>1. t = [s EXCEPT !.slots = S, !.entries = E]
    BY DEF ApplyVote, VoteKey, VotedEntry
  <1>2. s = [drafts |-> s.drafts, entries |-> s.entries, slots |-> s.slots]
    BY DEF Snapshots
  <1> HIDE DEF t, E, S
  <1>3. t.entries = E
    BY <1>1, <1>2
  <1> QED
    BY <1>3 DEF t, E

(* An accepted action moves store and replay alike: its entry by the vote  *)
(* or the move, the replay by the plain lifecycle.                         *)
LEMMA ActFollows ==
    ASSUME ContractInv, RebuildInv, NEW tx, tx.actor \in Identities, tx.action # "CREATE",
           ActOK(snapshot, lifecycle, tx), Submission(tx)
    PROVE  RebuildInv'
  <1> DEFINE i == EntryFor(snapshot, tx)
             e == snapshot.entries[i]
             l == log[e.draft]
             a == Recorded(tx)
             c == ApplyAction(tx.current, tx.action, tx.sequence)
             old == Rebuilt(e.draft, l)
  <1>0. /\ i \in Entries /\ tx.current \in ContractRecords
        /\ tx.current.draft = e.draft /\ tx.current.state = e.state
        /\ tx.current.sequence = e.sequence
        /\ tx.sequence = e.sequence + 1 /\ tx.sequence \in 0..MaxSequence
    BY ActFound
  <1>1. /\ i \in Entries
        /\ tx.current = [draft |-> e.draft, state |-> e.state, sequence |-> e.sequence]
        /\ tx.current.draft = e.draft /\ tx.current.state = e.state
        /\ tx.sequence = e.sequence + 1 /\ tx.sequence \in 0..MaxSequence
    <2> HIDE DEF e
    <2> QED
      BY <1>0 DEF ContractRecords
  <1>2. log' = [log EXCEPT ![e.draft] = Append(@, a)]
    BY <1>1 DEF Submission, Recorded
  <1>3. snapshot' = Acted(snapshot, tx)
    BY DEF Submission, Transacted
  <1>4. /\ tx.action = "APPROVE" => VoteOK(snapshot, i, tx.sequence, tx.actor)
        /\ tx.action # "APPROVE" => ApplyOK(tx.current, tx.action, tx.sequence)
    BY DEF ActOK
  <1>5. snapshot' = IF tx.action = "APPROVE"
                    THEN ApplyVote(snapshot, i, tx.sequence, tx.actor)
                    ELSE Stored(snapshot, i, c)
    BY <1>3 DEF Acted
  <1> HIDE DEF i, c
  <1>6. /\ snapshot \in Snapshots /\ i \in DOMAIN snapshot.entries
        /\ e \in EntryRecords /\ e.draft \in Drafts /\ l \in Seq(ActionRecords)
        /\ e.state \in States /\ e.sequence \in 0..MaxSequence /\ MaxSequence \in Nat
    BY <1>1, EntryType, ContractsAssumption
       DEF ContractInv, StoreTypes, Entries, EntryRecords
  <1>7. e.sequence # MaxSequence
    BY <1>1, <1>6
  <1>8. Follows(e, l)
    BY <1>1 DEF RebuildInv
  <1>9. CASE tx.action = "APPROVE"
    <2> DEFINE f == VotedEntry(e, tx.sequence)
    <2>1. /\ a \in ActionRecords /\ a.action = "APPROVE" /\ a.sequence = e.sequence + 1
          /\ a.current = tx.current
      BY <1>1, <1>9, RecordedType DEF Actions, Recorded
    <2>2. snapshot'.entries = [snapshot.entries EXCEPT ![i] = f]
      <3>1. snapshot' = ApplyVote(snapshot, i, tx.sequence, tx.actor)
        BY <1>5, <1>9
      <3>2. ApplyVote(snapshot, i, tx.sequence, tx.actor).entries
              = [snapshot.entries EXCEPT ![i] = f]
        BY <1>6, EntryVoted DEF f
      <3> HIDE DEF f
      <3> QED
        BY <3>1, <3>2
    <2>3. /\ f.draft = e.draft /\ f.required = e.required /\ f.count = e.count + 1
          /\ f.sequence = e.sequence + 1
          /\ f.state = IF e.count + 1 >= e.required THEN "ATTESTATION" ELSE "APPROVALS"
      BY <1>1, <1>6 DEF VotedEntry, EntryRecords
    <2>4. e.state \in {"REVIEW", "APPROVALS"}
      BY <1>4, <1>9 DEF VoteOK
    <2> HIDE DEF f
    <2>5. ASSUME e.required = 2
          PROVE  Reached(Rebuilt(e.draft, Append(l, a)), e.draft, f.state, f.sequence, f.count)
      <3>1. Reached(old, e.draft, e.state, e.sequence, e.count)
        BY <1>8, <2>5 DEF Follows
      <3>2. Rebuilt(e.draft, Append(l, a)) = Accepting(<<>>, old, a)
        BY <1>6, <2>1, RebuildSteps
      <3> HIDE DEF a, old, l
      <3>3. Reached(Accepting(<<>>, old, a), e.draft,
                    IF e.count + 1 >= 2 THEN "ATTESTATION" ELSE "APPROVALS",
                    e.sequence + 1, e.count + 1)
        BY <1>1, <1>7, <2>1, <2>4, <3>1, RebuildApproves
      <3> QED
        BY <2>3, <2>5, <3>2, <3>3
    <2>6. Follows(f, Append(log[f.draft], a))
      BY <2>3, <2>5 DEF Follows
    <2> QED
      BY <1>1, <1>2, <2>1, <2>2, <2>3, <2>6, OthersFollow
  <1>10. CASE tx.action # "APPROVE"
    <2> DEFINE f == MovedEntry(e, c.state, c.sequence)
    <2>1. PICK t \in States : <<tx.action, e.state, t>> \in Moves
      BY <1>1, <1>4, <1>10 DEF ApplyOK
    <2>2. /\ <<tx.action, e.state, c.state>> \in Moves /\ c.state \in States
          /\ c.sequence = tx.sequence
      BY <1>1, <2>1 DEF ApplyAction, c
    <2>3. /\ a \in ActionRecords /\ a.action = tx.action /\ a.sequence = tx.sequence
          /\ a.current = tx.current
      BY <2>1, MovesType, RecordedType DEF Recorded
    <2>4. snapshot'.entries = [snapshot.entries EXCEPT ![i] = f]
      BY <1>5, <1>6, <1>10, MoveStored
    <2>5. /\ f.draft = e.draft /\ f.required = e.required /\ f.count = e.count
          /\ f.sequence = e.sequence + 1 /\ f.state = c.state
      BY <1>1, <1>6, <2>2 DEF MovedEntry, EntryRecords
    <2>6. ApplyAction(a.current, a.action, a.sequence).state = c.state
      BY <2>3 DEF c
    <2> HIDE DEF f
    <2>7. ASSUME e.required = 2
          PROVE  Reached(Rebuilt(e.draft, Append(l, a)), e.draft, f.state, f.sequence, f.count)
      <3>1. Reached(old, e.draft, e.state, e.sequence, e.count)
        BY <1>8, <2>7 DEF Follows
      <3>2. Rebuilt(e.draft, Append(l, a)) = Accepting(<<>>, old, a)
        BY <1>6, <2>3, RebuildSteps
      <3> HIDE DEF a, old, l
      <3>3. Reached(Accepting(<<>>, old, a), e.draft, c.state, e.sequence + 1, e.count)
        BY <1>1, <1>6, <1>7, <1>10, <2>2, <2>3, <2>6, <3>1, RebuildMoves
      <3> QED
        BY <2>5, <3>2, <3>3
    <2>8. Follows(f, Append(log[f.draft], a))
      BY <2>5, <2>7 DEF Follows
    <2> QED
      BY <1>1, <1>2, <2>3, <2>4, <2>5, <2>8, OthersFollow
  <1> QED
    BY <1>9, <1>10

(* Registration begins a replay and leaves the others alone.               *)
LEMMA RegistrationFollows ==
    ASSUME ContractInv, RebuildInv, NEW d \in Drafts, Registration(d)
    PROVE  RebuildInv'
  <1>1. CASE ~RegisterOK(snapshot, d)
    <2>1. snapshot' = snapshot /\ log' = log
      BY <1>1 DEF Registration, Created, Register
    <2> QED
      BY <2>1 DEF RebuildInv, Entries
  <1>2. CASE RegisterOK(snapshot, d)
    <2> DEFINE f == NewEntry(d)
               n == Len(snapshot.entries) + 1
               a == [action |-> "CREATE", current |-> DraftOf(d), sequence |-> 1,
                     actor |-> NoKey]
    <2>1. /\ snapshot \in Snapshots /\ log \in Logs
          /\ snapshot.entries \in Seq(EntryRecords) /\ Entries = 1..Len(snapshot.entries)
          /\ Len(snapshot.entries) \in Nat
      BY DEF ContractInv, StoreTypes, Snapshots, Entries
    <2>2. snapshot'.entries = Append(snapshot.entries, f)
      <3>1. Created(snapshot, d)
              = [drafts |-> Append(snapshot.drafts, d), entries |-> Append(snapshot.entries, f),
                 slots |-> snapshot.slots \o [k \in DOMAIN Participants[d] |-> NoKey]]
        BY <1>2, <2>1, RegistrationCreates
      <3>2. Created(snapshot, d).entries = Append(snapshot.entries, f)
        <4> HIDE DEF f
        <4> QED
          BY <3>1
      <3> QED
        BY <3>2 DEF Registration
    <2>3. log'[d] = <<a>> /\ \A x \in Drafts : x # d => log'[x] = log[x]
      BY <1>2, <2>1 DEF Registration, Logs
    <2>4. /\ f.draft = d /\ f.state = "ISSUED" /\ f.sequence = 1 /\ f.count = 0
      BY DEF NewEntry
    <2> HIDE DEF f
    <2>5. /\ Entries' = Entries \cup {n} /\ snapshot'.entries[n] = f
          /\ \A j \in Entries : snapshot'.entries[j] = snapshot.entries[j]
      BY <2>1, <2>2 DEF Entries
    <2>6. \A j \in Entries : /\ snapshot.entries[j].draft # d
                             /\ snapshot.entries[j].draft \in Drafts
      BY <1>2, EntryType DEF RegisterOK, Registered, Entries
    <2>7. Reached(Rebuilt(d, <<a>>), d, "ISSUED", 1, 0)
      <3>1. /\ a \in ActionRecords /\ a.action = "CREATE" /\ a.sequence = 0 + 1
            /\ a.current = [draft |-> d, state |-> "DRAFT", sequence |-> 0]
        BY DEF ActionRecords, Actions, ContractRecords, DraftOf, States
      <3>2. <<a>> = Append(<<>>, a) /\ <<>> \in Seq(ActionRecords)
        OBVIOUS
      <3>3. Rebuilt(d, <<a>>) = Accepting(<<>>, Rebuilt(d, <<>>), a)
        BY <3>1, <3>2, RebuildSteps
      <3>4. Reached(Rebuilt(d, <<>>), d, "DRAFT", 0, 0)
        BY RebuildBegins
      <3>5. /\ <<"CREATE", "DRAFT", "ISSUED">> \in Moves /\ "DRAFT" \in States
            /\ "ISSUED" \in States /\ 0 # MaxSequence
        BY ContractsAssumption DEF Moves, OtherMoves, States
      <3>6. ApplyAction(a.current, a.action, a.sequence).state = "ISSUED"
        <4>1. \A s \in States : <<"CREATE", "DRAFT", s>> \in Moves <=> s = "ISSUED"
          BY DEF Moves, OtherMoves, Open, States
        <4>2. (CHOOSE s \in States : <<"CREATE", "DRAFT", s>> \in Moves) = "ISSUED"
          BY <3>5, <4>1
        <4> QED
          BY <3>1, <4>2 DEF ApplyAction
      <3> HIDE DEF a
      <3>7. Reached(Accepting(<<>>, Rebuilt(d, <<>>), a), d, "ISSUED", 0 + 1, 0)
        BY <3>1, <3>4, <3>5, <3>6, RebuildMoves
      <3> QED
        BY <3>3, <3>7
    <2>8. Follows(f, log'[f.draft])
      BY <2>3, <2>4, <2>7 DEF Follows
    <2>9. \A j \in Entries : Follows(snapshot'.entries[j], log'[snapshot'.entries[j].draft])
      BY <2>3, <2>5, <2>6 DEF RebuildInv
    <2> QED
      BY <2>5, <2>8, <2>9 DEF RebuildInv
  <1> QED
    BY <1>1, <1>2

(* Every step keeps store and replays together.                            *)
LEMMA RebuildStep ==
    ASSUME ContractInv, RebuildInv, [Next]_vars
    PROVE  RebuildInv'
  <1>1. ASSUME NEW d \in Drafts, Registration(d)
        PROVE  RebuildInv'
    BY <1>1, RegistrationFollows
  <1>2. ASSUME NEW d \in Drafts, NEW tx, tx.actor \in Identities, tx.current \in Seen(d),
               Submission(tx)
        PROVE  RebuildInv'
    <2>1. tx.current.draft \in Drafts
      BY <1>2, SeenDraft
    <2>2. tx.action # "CREATE" /\ ActOK(snapshot, lifecycle, tx)
      BY <1>2, <2>1, NothingBegins DEF Submission
    <2> QED
      BY <1>2, <2>2, ActFollows
  <1>3. ASSUME snapshot' = snapshot, log' = log
        PROVE  RebuildInv'
    BY <1>3 DEF RebuildInv, Entries
  <1>4. CASE \E d \in Drafts, actor \in Identities, evidence \in Presented, n \in {0, 1} :
                 \E c \in Seen(d) :
                     Submission(
                         [action |-> IF evidence = NoEvidence THEN "CREATE"
                                     ELSE evidence.scope[1],
                          actor |-> actor, current |-> c, sequence |-> c.sequence + n,
                          evidence |-> evidence, signed |-> TRUE])
    BY <1>2, <1>4
  <1>5. CASE (\E g \in Grants : Granting(g)) \/ (\E r \in Revocations : Revoking(r))
    BY <1>3, <1>5 DEF Granting, Revoking
  <1> QED
    BY <1>1, <1>3, <1>4, <1>5 DEF Next, vars

(* When two approvals are required, replaying the accepted actions of a    *)
(* draft by the plain lifecycle ends in the contract the store holds, with *)
(* as many approvals (stn_contract_rebuild_accepted_state against          *)
(* stn_contract_state_apply_vote).                                         *)
THEOREM RebuildingAgrees == Spec => []RebuildAgrees
  <1>1. Init => RebuildInv
    BY DEF Init, Empty, RebuildInv, Entries
  <1>2. ContractInv /\ RebuildInv => RebuildAgrees
    <2> SUFFICES ASSUME ContractInv, RebuildInv, NEW i \in Entries,
                        snapshot.entries[i].required = 2
                 PROVE  LET d == snapshot.entries[i].draft
                            r == Rebuild(DraftOf(d), log[d], Approvals(MaxSequence))
                        IN /\ r.ok
                           /\ r.contract = Current(snapshot, i)
                           /\ r.approvals.count = snapshot.entries[i].count
      BY DEF RebuildAgrees
    <2> DEFINE e == snapshot.entries[i]
               r == Rebuilt(e.draft, log[e.draft])
    <2>1. Reached(r, e.draft, e.state, e.sequence, e.count)
      BY DEF RebuildInv, Follows
    <2>2. /\ r.ok /\ r.approvals.count = e.count
          /\ r.contract = [draft |-> e.draft, state |-> e.state, sequence |-> e.sequence]
      BY <2>1 DEF Reached
    <2>3. Current(snapshot, i) = r.contract
      BY <2>2, EntryType DEF Current, Bytes, ReadsOwn
    <2>4. Rebuild(DraftOf(e.draft), log[e.draft], Approvals(MaxSequence)) = r
      BY <2>2, RebuildFolds
    <2> QED
      BY <2>2, <2>3, <2>4
  <1> QED
    BY <1>1, <1>2, RebuildStep, ContractCorrect, PTL DEF Spec

-----------------------------------------------------------------------------
(* Listing (stn_contract_query_identity): a fold over the entries.         *)
Lists == INSTANCE Inductions WITH Pass <- Listing

(* What the loop has made of the first n entries.                          *)
Asked(s, who, limit) == [store |-> s, who |-> who, limit |-> limit]
Listed(s, who, limit, n) == Lists!Fold(Asked(s, who, limit), <<>>, Lists!Counted(n))
MembersTo(s, who, n) == {i \in 1..n : Member(s, i, who)}

(* No result is listed behind one it sorts before, and none twice.         *)
Ordered(s, q) == \A j, k \in DOMAIN q : j < k => q[j] # q[k] /\ ~Before(s, q[k], q[j])

(* A list q of the first of the contracts M: it is short only when it      *)
(* holds them all, and what is left out sorts before nothing listed.       *)
Foremost(s, limit, q, M) ==
    /\ q \in Seq(M) /\ IsFiniteSet(M)
    /\ Len(q) = IF Cardinality(M) < limit THEN Cardinality(M) ELSE limit
    /\ Len(q) < limit => M \subseteq ToSet(q)
    /\ Ordered(s, q)
    /\ \A i \in M \ ToSet(q), k \in DOMAIN q : ~Before(s, i, q[k])

(* Stores whose entries have a time of creation.                           *)
Dated(s) == \A i \in DOMAIN s.entries : CreatedAt[s.entries[i].draft] \in Nat

(* Sorting before is a strict weak order (before of stn_contract_query.c). *)
LEMMA BeforeOrders ==
    ASSUME NEW s, Dated(s)
    PROVE  \A x, y, z \in DOMAIN s.entries :
              /\ Before(s, x, y) => ~Before(s, y, x)
              /\ Before(s, x, y) /\ Before(s, y, z) => Before(s, x, z)
              /\ ~Before(s, x, y) /\ ~Before(s, y, z) => ~Before(s, x, z)
  <1> SUFFICES ASSUME NEW x \in DOMAIN s.entries, NEW y \in DOMAIN s.entries,
                      NEW z \in DOMAIN s.entries
               PROVE  /\ Before(s, x, y) => ~Before(s, y, x)
                      /\ Before(s, x, y) /\ Before(s, y, z) => Before(s, x, z)
                      /\ ~Before(s, x, y) /\ ~Before(s, y, z) => ~Before(s, x, z)
    OBVIOUS
  <1>1. /\ CreatedAt[s.entries[x].draft] \in Nat
        /\ CreatedAt[s.entries[y].draft] \in Nat
        /\ CreatedAt[s.entries[z].draft] \in Nat
    BY DEF Dated
  <1>2. \A i : Settled(s, i) \in BOOLEAN
    BY DEF Settled
  <1> QED
    BY <1>1, <1>2 DEF Before

(* The place of a new result is behind the last one it does not precede    *)
(* (the swaps of stn_contract_query_identity).                             *)
LEMMA PlaceIs ==
    ASSUME NEW n \in Nat, NEW S \in SUBSET (1..n)
    PROVE  LET p == Max({0} \cup S)
           IN p \in 0..n /\ (p # 0 => p \in S) /\ \A k \in 1..n : k > p => k \notin S
  <1> DEFINE p == Max({0} \cup S)
  <1>1. \A k \in S : k \in 1..n
    OBVIOUS
  <1>2. \E x \in {0} \cup S : \A y \in {0} \cup S : x >= y
    <2>1. CASE S = {}
      BY <2>1
    <2>2. CASE S # {}
      <3>1. Max(S) \in S /\ S \ {Max(S)} \in SUBSET (1..(Max(S) - 1))
        BY <2>2, MaxOf
      <3> DEFINE m == Max(S)
      <3> HIDE DEF m
      <3>2. m \in 1..n /\ m \in S /\ \A y \in S : y # m => y \in 1..(m - 1)
        BY <3>1, <1>1 DEF m
      <3>3. \A y \in {0} \cup S : m >= y
        BY <3>2
      <3> QED
        BY <3>2, <3>3
    <2> QED
      BY <2>1, <2>2
  <1>3. p \in {0} \cup S /\ \A y \in {0} \cup S : p >= y
    BY <1>2 DEF Max
  <1> HIDE DEF p
  <1>4. p \in 0..n /\ (p # 0 => p \in S)
    BY <1>1, <1>3
  <1>5. \A k \in 1..n : k > p => k \notin S
    BY <1>3, <1>4
  <1> QED
    BY <1>4, <1>5 DEF p

(* Results r are q with i put in behind position p, and p is the last one  *)
(* whose result i does not sort before.                                    *)
PutIn(s, q, i, p, r) ==
    /\ p \in 0..Len(q)
    /\ p # 0 => ~Before(s, i, q[p])
    /\ \A k \in 1..Len(q) : k > p => Before(s, i, q[k])
    /\ \A k \in 1..p : r[k] = q[k]
    /\ r[p + 1] = i
    /\ \A k \in (p + 2)..(Len(q) + 1) : r[k] = q[k - 1]

(* Where the results are after an insertion.                               *)
LEMMA InsertedIs ==
    ASSUME NEW s, NEW M, NEW q \in Seq(M), NEW i
    PROVE  /\ Inserted(s, q, i) \in Seq(M \cup {i})
           /\ Len(Inserted(s, q, i)) = Len(q) + 1
           /\ PutIn(s, q, i, Behind(s, q, i), Inserted(s, q, i))
  <1> DEFINE n == Len(q)
             S == {k \in DOMAIN q : ~Before(s, i, q[k])}
             p == Max({0} \cup S)
             a == SubSeq(q, 1, p)
             b == SubSeq(q, p + 1, Len(q))
             r == a \o <<i>> \o b
  <1>1. n \in Nat /\ DOMAIN q = 1..n /\ S \in SUBSET (1..n)
    OBVIOUS
  <1>2. p \in 0..n /\ (p # 0 => p \in S) /\ \A k \in 1..n : k > p => k \notin S
    <2> HIDE DEF S, n
    <2> QED
      BY <1>1, PlaceIs
  <1>3. Inserted(s, q, i) = r /\ Behind(s, q, i) = p
    BY DEF Inserted, Behind
  <1>4. /\ p # 0 => ~Before(s, i, q[p])
        /\ \A k \in 1..n : k > p => Before(s, i, q[k])
    <2> HIDE DEF p, n
    <2> QED
      BY <1>1, <1>2
  <1> HIDE DEF p, S
  <1>5. /\ a \in Seq(M) /\ Len(a) = p /\ \A k \in 1..p : a[k] = q[k]
        /\ b \in Seq(M) /\ Len(b) = n - p /\ \A k \in 1..(n - p) : b[k] = q[p + k]
    <2>1. \A k \in 1..n : q[k] \in M
      BY <1>1
    <2>2. /\ p \in Int /\ p + 1 \in Int /\ n \in Int
          /\ 1..p \subseteq 1..n /\ (p + 1)..n \subseteq 1..n
      BY <1>1, <1>2
    <2> HIDE DEF n
    <2>3. /\ a \in Seq(M) /\ Len(a) = IF 1 <= p THEN p - 1 + 1 ELSE 0
          /\ \A k \in 1..(p - 1 + 1) : a[k] = q[1 + k - 1]
      BY <2>1, <2>2, SubSeqProperties
    <2> DEFINE m == p + 1
    <2>0. m \in Int /\ \A k \in m..n : q[k] \in M
      BY <2>1, <2>2
    <2> HIDE DEF m
    <2>4. /\ SubSeq(q, m, n) \in Seq(M)
          /\ Len(SubSeq(q, m, n)) = IF m <= n THEN n - m + 1 ELSE 0
          /\ \A k \in 1..(n - m + 1) : SubSeq(q, m, n)[k] = q[m + k - 1]
      BY <2>0, <2>2, SubSeqProperties
    <2>5. b = SubSeq(q, m, n)
      BY DEF n, m
    <2> HIDE DEF a, b
    <2>6. Len(a) = p /\ \A k \in 1..p : a[k] = q[k]
      BY <1>1, <1>2, <2>3
    <2>7. Len(b) = n - p /\ \A k \in 1..(n - p) : b[k] = q[p + k]
      <3>1. n - m + 1 = n - p /\ \A k \in 1..(n - p) : m + k - 1 = p + k
        BY <1>1, <1>2 DEF m
      <3>2. ~(m <= n) => n - p = 0
        BY <1>1, <1>2 DEF m
      <3> QED
        BY <2>4, <2>5, <3>1, <3>2
    <2> QED
      BY <2>3, <2>4, <2>5, <2>6, <2>7
  <1> HIDE DEF a, b, n
  <1>6. /\ r \in Seq(M \cup {i}) /\ Len(r) = n + 1
        /\ \A k \in 1..p : r[k] = q[k]
        /\ r[p + 1] = i
        /\ \A k \in (p + 2)..(n + 1) : r[k] = b[k - (p + 1)]
    <2> DEFINE c == a \o <<i>>
    <2>1. /\ a \in Seq(M \cup {i}) /\ b \in Seq(M \cup {i}) /\ <<i>> \in Seq(M \cup {i})
      BY <1>5
    <2>2. /\ c \in Seq(M \cup {i}) /\ Len(c) = p + 1 /\ c[p + 1] = i
          /\ \A k \in 1..p : c[k] = a[k]
      BY <1>2, <1>5, <2>1
    <2> HIDE DEF c
    <2>3. /\ c \o b \in Seq(M \cup {i}) /\ Len(c \o b) = Len(c) + Len(b)
          /\ \A k \in 1..(Len(c) + Len(b)) :
                (c \o b)[k] = IF k <= Len(c) THEN c[k] ELSE b[k - Len(c)]
      BY <2>1, <2>2, ConcatProperties
    <2> DEFINE t == c \o b
    <2> HIDE DEF t
    <2>4. /\ t \in Seq(M \cup {i}) /\ Len(t) = n + 1
          /\ \A k \in 1..(n + 1) : t[k] = IF k <= p + 1 THEN c[k] ELSE b[k - (p + 1)]
      <3>1. Len(c) + Len(b) = n + 1 /\ Len(c) = p + 1
        BY <1>1, <1>2, <1>5, <2>2
      <3> QED
        BY <2>3, <3>1 DEF t
    <2>5. /\ \A k \in 1..(p + 1) : t[k] = c[k]
          /\ \A k \in (p + 2)..(n + 1) : t[k] = b[k - (p + 1)]
      BY <1>1, <1>2, <2>4
    <2>6. r = t
      BY DEF c, t
    <2> HIDE DEF r
    <2>7. \A k \in 1..p : k \in 1..(p + 1) /\ p + 1 \in 1..(p + 1)
      BY <1>2
    <2>8. p + 1 \in 1..(p + 1)
      BY <1>2
    <2> QED
      BY <1>5, <2>2, <2>4, <2>5, <2>6, <2>7, <2>8
  <1>7. \A k \in (p + 2)..(n + 1) : r[k] = q[k - 1]
    <2> SUFFICES ASSUME NEW k \in (p + 2)..(n + 1) PROVE r[k] = q[k - 1]
      OBVIOUS
    <2>1. k - (p + 1) \in 1..(n - p) /\ p + (k - (p + 1)) = k - 1
      BY <1>1, <1>2
    <2> QED
      BY <1>5, <1>6, <2>1
  <1> HIDE DEF r
  <1>8. PutIn(s, q, i, p, r)
    BY <1>2, <1>4, <1>6, <1>7 DEF PutIn, n
  <1> QED
    BY <1>3, <1>6, <1>8 DEF n

(* An insertion adds the new result and keeps the list in order.           *)
LEMMA InsertedOrdered ==
    ASSUME NEW s, Dated(s), NEW M \in SUBSET DOMAIN s.entries, NEW q \in Seq(M),
           Ordered(s, q), NEW i \in DOMAIN s.entries, i \notin ToSet(q)
    PROVE  LET r == Inserted(s, q, i)
           IN /\ r \in Seq(M \cup {i}) /\ Len(r) = Len(q) + 1
              /\ ToSet(r) = ToSet(q) \cup {i}
              /\ Ordered(s, r)
  <1> DEFINE r == Inserted(s, q, i)
             n == Len(q)
             E == DOMAIN s.entries
  <1>0. n \in Nat /\ DOMAIN q = 1..n /\ \A k \in 1..n : q[k] \in M /\ q[k] \in E /\ q[k] # i
    BY DEF ToSet
  <1> DEFINE p == Behind(s, q, i)
  <1>1. r \in Seq(M \cup {i}) /\ Len(r) = n + 1 /\ PutIn(s, q, i, p, r)
    BY InsertedIs
  <1> HIDE DEF r, p
  <1>2. /\ p \in 0..n
        /\ p # 0 => ~Before(s, i, q[p])
        /\ \A k \in 1..n : k > p => Before(s, i, q[k])
        /\ \A k \in 1..p : r[k] = q[k]
        /\ r[p + 1] = i
        /\ \A k \in (p + 2)..(n + 1) : r[k] = q[k - 1]
    BY <1>1 DEF PutIn
  <1> HIDE DEF n
  <1>3. DOMAIN r = 1..(n + 1)
    BY <1>0, <1>1
  <1>4. ToSet(r) = ToSet(q) \cup {i}
    <2>1. \A k \in 1..(n + 1) : r[k] = i \/ \E j \in 1..n : r[k] = q[j]
      <3> SUFFICES ASSUME NEW k \in 1..(n + 1)
                   PROVE  r[k] = i \/ \E j \in 1..n : r[k] = q[j]
        OBVIOUS
      <3>1. k \in 1..p \/ k = p + 1 \/ k \in (p + 2)..(n + 1)
        BY <1>0, <1>2
      <3>2. k \in (p + 2)..(n + 1) => k - 1 \in 1..n
        BY <1>0, <1>2
      <3>3. k \in 1..p => k \in 1..n
        BY <1>0, <1>2
      <3> QED
        BY <1>2, <3>1, <3>2, <3>3
    <2>2. \A j \in 1..n : \E k \in 1..(n + 1) : r[k] = q[j]
      <3> SUFFICES ASSUME NEW j \in 1..n PROVE \E k \in 1..(n + 1) : r[k] = q[j]
        OBVIOUS
      <3>1. CASE j <= p
        <4>1. j \in 1..p /\ j \in 1..(n + 1)
          BY <1>0, <1>2, <3>1
        <4> QED
          BY <1>2, <4>1
      <3>2. CASE j > p
        <4>1. j + 1 \in (p + 2)..(n + 1) /\ j + 1 \in 1..(n + 1) /\ (j + 1) - 1 = j
          BY <1>0, <1>2, <3>2
        <4> QED
          BY <1>2, <4>1
      <3> QED
        BY <1>0, <1>2, <3>1, <3>2
    <2>3. p + 1 \in 1..(n + 1)
      BY <1>0, <1>2
    <2>4. \A x : (x \in ToSet(r) <=> \E k \in 1..(n + 1) : x = r[k])
                /\ (x \in ToSet(q) <=> \E k \in 1..n : x = q[k])
      BY <1>0, <1>3 DEF ToSet
    <2>5. r[p + 1] = i
      BY <1>2
    <2>6. ASSUME NEW x PROVE x \in ToSet(r) <=> x \in ToSet(q) \cup {i}
      BY <2>1, <2>2, <2>3, <2>4, <2>5
    <2> QED
      BY <2>6
  <1>5. \A k \in 1..p : ~Before(s, i, q[k])
    <2> SUFFICES ASSUME NEW k \in 1..p PROVE ~Before(s, i, q[k])
      OBVIOUS
    <2>1. p # 0 /\ p \in 1..n /\ k \in 1..n /\ (k < p \/ k = p)
      BY <1>0, <1>2
    <2>2. CASE k = p
      BY <1>2, <2>1, <2>2
    <2>3. CASE k < p
      <3>1. ~Before(s, q[p], q[k])
        BY <1>0, <2>1, <2>3 DEF Ordered
      <3> QED
        BY <1>0, <1>2, <2>1, <3>1, BeforeOrders
    <2> QED
      BY <2>1, <2>2, <2>3
  <1>6. \A k \in 1..n : k > p => ~Before(s, q[k], i)
    BY <1>0, <1>2, BeforeOrders
  <1>7. ASSUME NEW j \in 1..(n + 1), NEW k \in 1..(n + 1), j < k
        PROVE  r[j] # r[k] /\ ~Before(s, r[k], r[j])
    <2>1. CASE k <= p
      <3>1. j \in 1..p /\ k \in 1..p /\ j \in 1..n /\ k \in 1..n
        BY <1>0, <1>2, <1>7, <2>1
      <3> QED
        BY <1>0, <1>2, <1>7, <3>1 DEF Ordered
    <2>2. CASE k = p + 1
      <3>1. j \in 1..p /\ j \in 1..n
        BY <1>0, <1>2, <1>7, <2>2
      <3> QED
        BY <1>0, <1>2, <1>5, <2>2, <3>1
    <2>3. CASE k >= p + 2
      <3>1. k \in (p + 2)..(n + 1) /\ k - 1 \in 1..n /\ k - 1 > p
        BY <1>0, <1>2, <2>3
      <3>2. r[k] = q[k - 1]
        BY <1>2, <3>1
      <3>3. CASE j <= p
        <4>1. j \in 1..p /\ j \in 1..n /\ j < k - 1
          BY <1>0, <1>2, <1>7, <2>3, <3>3
        <4> QED
          BY <1>0, <1>2, <3>1, <3>2, <4>1 DEF Ordered
      <3>4. CASE j = p + 1
        BY <1>0, <1>2, <1>6, <3>1, <3>2, <3>4
      <3>5. CASE j >= p + 2
        <4>1. j \in (p + 2)..(n + 1) /\ j - 1 \in 1..n /\ j - 1 < k - 1
          BY <1>0, <1>2, <1>7, <3>5
        <4>2. r[j] = q[j - 1]
          BY <1>2, <4>1
        <4> QED
          BY <1>0, <3>1, <3>2, <4>1, <4>2 DEF Ordered
      <3> QED
        BY <1>2, <3>3, <3>4, <3>5
    <2> QED
      BY <1>2, <2>1, <2>2, <2>3
  <1>8. Ordered(s, r)
    BY <1>3, <1>7 DEF Ordered
  <1> QED
    BY <1>1, <1>4, <1>8 DEF r, n

(* One entry more: the loop body of stn_contract_query_identity.           *)
LEMMA ListingStep ==
    ASSUME NEW s, Dated(s), NEW who, NEW limit \in Nat \ {0},
           NEW M \in SUBSET DOMAIN s.entries, NEW i \in DOMAIN s.entries, i \notin M,
           NEW q, Foremost(s, limit, q, M)
    PROVE  Foremost(s, limit, Listing(Asked(s, who, limit), q, i),
                    IF Member(s, i, who) THEN M \cup {i} ELSE M)
  <1> DEFINE N == M \cup {i}
             r == Listing(Asked(s, who, limit), q, i)
             n == Len(q)
  <1>0. /\ q \in Seq(M) /\ n \in Nat /\ DOMAIN q = 1..n /\ n <= limit
        /\ \A k \in 1..n : q[k] \in M /\ q[k] \in DOMAIN s.entries
        /\ ToSet(q) \subseteq M /\ i \notin ToSet(q)
        /\ Ordered(s, q)
    <2>1. q \in Seq(M) /\ n \in Nat /\ DOMAIN q = 1..n
      BY DEF Foremost
    <2>2. \A k \in 1..n : q[k] \in M
      BY <2>1
    <2>3. Cardinality(M) \in Nat
      BY FS_CardinalityType DEF Foremost
    <2>4. n <= limit
      BY <2>3 DEF Foremost
    <2> QED
      BY <2>1, <2>2, <2>4 DEF Foremost, ToSet
  <1>1. /\ IsFiniteSet(M) /\ IsFiniteSet(N)
        /\ Cardinality(M) \in Nat /\ Cardinality(N) = Cardinality(M) + 1
    BY FS_CardinalityType, FS_AddElement DEF Foremost
  <1> HIDE DEF n
  <1>2. CASE ~Member(s, i, who)
    <2>1. r = q
      BY <1>2 DEF Listing, Asked
    <2> QED
      BY <1>2, <2>1
  <1>3. ASSUME Member(s, i, who), n < limit
        PROVE  Foremost(s, limit, r, N)
    <2>1. r = Inserted(s, q, i)
      BY <1>3 DEF Listing, Asked, n
    <2>2. r \in Seq(N) /\ Len(r) = n + 1 /\ ToSet(r) = ToSet(q) \cup {i} /\ Ordered(s, r)
      <3>1. q \in Seq(M) /\ Ordered(s, q) /\ i \notin ToSet(q)
        BY <1>0
      <3> DEFINE t == Inserted(s, q, i)
      <3>2. /\ t \in Seq(M \cup {i}) /\ Len(t) = Len(q) + 1
            /\ ToSet(t) = ToSet(q) \cup {i} /\ Ordered(s, t)
        BY <3>1, InsertedOrdered
      <3> HIDE DEF t
      <3> QED
        BY <2>1, <3>2 DEF n, t
    <2>3. M \subseteq ToSet(q) /\ n = Cardinality(M)
      BY <1>1, <1>3 DEF Foremost, n
    <2>4. Len(r) = IF Cardinality(N) < limit THEN Cardinality(N) ELSE limit
      BY <1>0, <1>1, <1>3, <2>2, <2>3
    <2> HIDE DEF r
    <2> QED
      BY <1>1, <2>2, <2>3, <2>4 DEF Foremost
  <1>4. ASSUME n = limit
        PROVE  /\ n \in 1..n /\ q[n] \in M /\ q[n] \in DOMAIN s.entries
               /\ \A k \in 1..n : ~Before(s, q[n], q[k])
               /\ ~(Cardinality(N) < limit)
    <2>1. n \in 1..n
      BY <1>0, <1>4
    <2>2. \A k \in 1..n : k < n => ~Before(s, q[n], q[k])
      BY <1>0, <2>1 DEF Ordered
    <2>3. ~Before(s, q[n], q[n])
      BY <1>0, <2>1, BeforeOrders
    <2>4. \A k \in 1..n : k < n \/ k = n
      BY <1>0
    <2>5. ~(Cardinality(M) < limit)
      BY <1>1, <1>4 DEF Foremost, n
    <2> QED
      BY <1>0, <1>1, <2>1, <2>2, <2>3, <2>4, <2>5
  <1>5. n < limit => M \subseteq ToSet(q)
    BY DEF Foremost, n
  <1>6. \A x \in M \ ToSet(q), k \in 1..n : ~Before(s, x, q[k])
    BY <1>0 DEF Foremost
  <1>7. ASSUME Member(s, i, who), n = limit, ~Before(s, i, q[limit])
        PROVE  Foremost(s, limit, r, N)
    <2>1. r = q
      BY <1>7 DEF Listing, Asked, n
    <2>2. \A k \in 1..n : ~Before(s, i, q[k])
      BY <1>0, <1>4, <1>7, BeforeOrders
    <2>3. q \in Seq(N)
      BY <1>0
    <2>4. \A x \in N \ ToSet(q), k \in DOMAIN q : ~Before(s, x, q[k])
      BY <1>0, <1>6, <2>2
    <2>5. Len(q) = IF Cardinality(N) < limit THEN Cardinality(N) ELSE limit
      BY <1>0, <1>4, <1>7 DEF n
    <2>6. ~(Len(q) < limit) /\ Ordered(s, q)
      BY <1>0, <1>7 DEF n
    <2> HIDE DEF r, N
    <2> QED
      BY <1>1, <2>1, <2>3, <2>4, <2>5, <2>6 DEF Foremost
  <1>8. ASSUME Member(s, i, who), n = limit, Before(s, i, q[limit])
        PROVE  Foremost(s, limit, r, N)
    <2> DEFINE o == SubSeq(q, 1, limit - 1)
    <2>1. r = Inserted(s, o, i)
      BY <1>8 DEF Listing, Asked, n
    <2>2. /\ o \in Seq(M) /\ Len(o) = limit - 1
          /\ DOMAIN o = 1..(limit - 1) /\ \A k \in 1..(limit - 1) : o[k] = q[k]
      BY <1>0, <1>8 DEF n
    <2> HIDE DEF o, r
    <2>3. \A k \in 1..(limit - 1) : k \in 1..n /\ k < n
      BY <1>0, <1>8
    <2>4. ToSet(q) = ToSet(o) \cup {q[limit]}
      <3>1. \A k \in 1..n : k = limit \/ k \in 1..(limit - 1)
        BY <1>0, <1>8
      <3>2. limit \in 1..n
        BY <1>4, <1>8
      <3> QED
        BY <1>0, <2>2, <2>3, <3>1, <3>2 DEF ToSet
    <2>5. Ordered(s, o)
      BY <1>0, <2>2, <2>3 DEF Ordered
    <2>6. i \notin ToSet(o)
      BY <1>0, <2>4
    <2>7. r \in Seq(N) /\ Len(r) = limit /\ ToSet(r) = ToSet(o) \cup {i} /\ Ordered(s, r)
      <3>1. o \in Seq(M)
        BY <2>2
      <3> DEFINE t == Inserted(s, o, i)
      <3>2. /\ t \in Seq(M \cup {i}) /\ Len(t) = Len(o) + 1
            /\ ToSet(t) = ToSet(o) \cup {i} /\ Ordered(s, t)
        BY <2>5, <2>6, <3>1, InsertedOrdered
      <3> HIDE DEF t
      <3>3. Len(t) = limit
        BY <2>2, <3>2
      <3> QED
        BY <2>1, <3>2, <3>3 DEF t
    <2>8. \A x \in N \ ToSet(r), k \in DOMAIN r : ~Before(s, x, r[k])
      <3> SUFFICES ASSUME NEW x \in N \ ToSet(r), NEW y \in ToSet(r)
                   PROVE  ~Before(s, x, y)
        BY DEF ToSet
      <3>1. x \in M /\ x # i /\ x \notin ToSet(o) /\ x \in DOMAIN s.entries
        BY <2>7
      <3>2. ~Before(s, x, q[limit])
        <4>1. CASE x = q[limit]
          BY <1>4, <1>8, <4>1
        <4>2. CASE x # q[limit]
          BY <1>4, <1>6, <1>8, <2>4, <3>1, <4>2
        <4> QED
          BY <4>1, <4>2
      <3>3. CASE y = i
        BY <1>4, <1>8, <3>1, <3>2, <3>3, BeforeOrders
      <3>4. CASE y # i
        <4>1. PICK k \in 1..(limit - 1) : y = q[k]
          BY <2>2, <2>7, <3>4 DEF ToSet
        <4>2. k \in 1..n
          BY <2>3
        <4>3. CASE x = q[limit]
          BY <1>4, <1>8, <4>1, <4>2, <4>3
        <4>4. CASE x # q[limit]
          BY <1>6, <2>4, <3>1, <4>1, <4>2, <4>4
        <4> QED
          BY <4>3, <4>4
      <3> QED
        BY <3>3, <3>4
    <2>9. Len(r) = IF Cardinality(N) < limit THEN Cardinality(N) ELSE limit
      BY <1>4, <1>8, <2>7
    <2> QED
      BY <1>1, <2>7, <2>8, <2>9 DEF Foremost
  <1>9. n < limit \/ n = limit
    BY <1>0
  <1>10. n = limit => Before(s, i, q[limit]) \/ ~Before(s, i, q[limit])
    OBVIOUS
  <1> HIDE DEF r, N
  <1> QED
    BY <1>2, <1>3, <1>7, <1>8, <1>9 DEF r, N

(* The list after n entries holds the first of the members among them.     *)
LEMMA ListedFirst ==
    ASSUME NEW s, Dated(s), NEW who, NEW limit \in Nat \ {0},
           NEW m \in Nat, DOMAIN s.entries = 1..m
    PROVE  \A n \in 0..m : Foremost(s, limit, Listed(s, who, limit, n), MembersTo(s, who, n))
  <1> DEFINE Right(n) == Foremost(s, limit, Listed(s, who, limit, n), MembersTo(s, who, n))
             S == {n \in Nat : n <= m => Right(n)}
  <1>1. 0 \in S
    <2>1. 1..0 = {} /\ DOMAIN Lists!Counted(0) = 1..0
      BY DEF Lists!Counted
    <2>2. Listed(s, who, limit, 0) = <<>>
      BY <2>1, Lists!FoldOfNone DEF Listed
    <2>3. MembersTo(s, who, 0) = {}
      BY <2>1 DEF MembersTo
    <2>4. Foremost(s, limit, <<>>, {})
      BY FS_EmptySet DEF Foremost, Ordered, ToSet
    <2> QED
      BY <2>2, <2>3, <2>4
  <1>2. ASSUME NEW n \in Nat, n \in S, n + 1 <= m
        PROVE  Right(n + 1)
    <2> DEFINE q == Listed(s, who, limit, n)
               M == MembersTo(s, who, n)
               i == n + 1
    <2>1. Foremost(s, limit, q, M)
      BY <1>2
    <2>2. Listed(s, who, limit, i) = Listing(Asked(s, who, limit), q, i)
      BY Lists!CountedStep DEF Listed
    <2>3. MembersTo(s, who, i) = IF Member(s, i, who) THEN M \cup {i} ELSE M
      <3>1. 1..i = (1..n) \cup {i}
        OBVIOUS
      <3> QED
        BY <3>1 DEF MembersTo
    <2>4. M \in SUBSET DOMAIN s.entries /\ i \in DOMAIN s.entries /\ i \notin M
      BY <1>2 DEF MembersTo
    <2> HIDE DEF q, M, i
    <2>5. Foremost(s, limit, Listing(Asked(s, who, limit), q, i),
                   IF Member(s, i, who) THEN M \cup {i} ELSE M)
      BY <2>1, <2>4, ListingStep
    <2> QED
      BY <2>2, <2>3, <2>5 DEF i
  <1>3. \A n \in Nat : n \in S => n + 1 \in S
    <2> HIDE DEF Right
    <2> QED
      BY <1>2
  <1>4. Nat \subseteq S
    <2> HIDE DEF S
    <2> QED
      BY <1>1, <1>3, Lists!NaturalInduction
  <1> QED
    BY <1>4

(* The query is this loop over every entry.                                *)
LEMMA QueryLists ==
    ASSUME NEW s, NEW m \in Nat, DOMAIN s.entries = 1..m, NEW who, NEW limit
    PROVE  Query(s, who, limit) = Listed(s, who, limit, m)
  <1> DEFINE c == Asked(s, who, limit)
  <1>1. [i \in DOMAIN s.entries |-> i] = Lists!Counted(m)
    BY DEF Lists!Counted
  <1>2. Query(s, who, limit)
          = FoldLeft(LAMBDA r, i : Listing(c, r, i), <<>>, [i \in DOMAIN s.entries |-> i])
    BY DEF Query, Asked
  <1>3. FoldLeft(LAMBDA r, i : Listing(c, r, i), <<>>, [i \in DOMAIN s.entries |-> i])
          = Lists!Fold(c, <<>>, [i \in DOMAIN s.entries |-> i])
    BY DEF FoldLeft, MapThenFoldSet, Lists!Fold, Lists!Folds, Lists!Piece, Lists!Max, Max
  <1> QED
    BY <1>1, <1>2, <1>3 DEF Listed

(* A list query shows as many contracts of the identity as fit, and none   *)
(* while another of its contracts that sorts before is left out            *)
(* (stn_contract_query_identity), whatever was registered, settled and     *)
(* rejected before.                                                        *)
THEOREM FirstAreListed == Spec => []QueryListsFirst
  <1>1. ContractInv => QueryListsFirst
    <2> SUFFICES ASSUME ContractInv, NEW who \in Identities, NEW limit \in Limits
                 PROVE  LET q == Query(snapshot, who, limit)
                            members == {i \in Entries : Member(snapshot, i, who)}
                        IN /\ ToSet(q) \subseteq members
                           /\ Len(q) = IF Cardinality(members) < limit
                                       THEN Cardinality(members) ELSE limit
                           /\ \A j, k \in DOMAIN q :
                                 j < k => q[j] # q[k] /\ ~Before(snapshot, q[k], q[j])
                           /\ \A i \in members \ ToSet(q), k \in DOMAIN q :
                                 ~Before(snapshot, i, q[k])
      BY DEF QueryListsFirst
    <2> DEFINE m == Len(snapshot.entries)
               q == Query(snapshot, who, limit)
               M == MembersTo(snapshot, who, m)
    <2>1. snapshot.entries \in Seq(EntryRecords)
      BY DEF ContractInv, StoreTypes, Snapshots
    <2>2. m \in Nat /\ Entries = 1..m /\ DOMAIN snapshot.entries = 1..m
      BY <2>1 DEF Entries
    <2>3. Dated(snapshot)
      <3> SUFFICES ASSUME NEW i \in DOMAIN snapshot.entries
                   PROVE  CreatedAt[snapshot.entries[i].draft] \in Nat
        BY DEF Dated
      <3>1. snapshot.entries[i] \in EntryRecords
        BY <2>1
      <3>2. snapshot.entries[i].draft \in Drafts
        BY <3>1 DEF EntryRecords
      <3> QED
        BY <3>2, ContractsAssumption
    <2>4. limit \in Nat \ {0}
      BY LimitsAssumption
    <2>5. M = {i \in Entries : Member(snapshot, i, who)}
      BY <2>2 DEF MembersTo
    <2> HIDE DEF m, M
    <2>6. Foremost(snapshot, limit, q, M)
      BY <2>2, <2>3, <2>4, ListedFirst, QueryLists DEF M
    <2> HIDE DEF q
    <2>7. ToSet(q) \subseteq M
      <3>1. q \in Seq(M)
        BY <2>6 DEF Foremost
      <3> QED
        BY <3>1 DEF ToSet
    <2> QED
      BY <2>5, <2>6, <2>7 DEF Foremost, Ordered, q
  <1> QED
    BY <1>1, ContractCorrect, PTL DEF Spec
=============================================================================
