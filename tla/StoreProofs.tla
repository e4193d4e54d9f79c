----------------------------- MODULE StoreProofs -----------------------------
(***************************************************************************)
(* Theorems about storage coordination, for any set of nodes and any       *)
(* prefix-closed set of valid histories whose work grows with every block. *)
(* Everything follows from the inductive invariant IInv: it ties the lock  *)
(* to the node that is replacing, the staging file to the step that node   *)
(* has reached, and the proposal to what is on disk.                       *)
(***************************************************************************)
EXTENDS StoreProperties, TLAPS

(* The lock is held by the node that is replacing, and only then           *)
(* (acquire and release of the provider).                                  *)
LockInv == \A n \in Nodes : pc[n] \in Locked <=> owner = n

(* What the staging file is at each step of a replacement                  *)
(* (replace_snapshot).                                                     *)
StageInv ==
    /\ owner = NoNode => stage \in {"absent", "left"}
    /\ \A n \in Nodes :
        /\ pc[n] = "staging" => stage \in {"absent", "left"}
        /\ pc[n] = "writing" => stage = "partial"
        /\ pc[n] = "renaming" => stage = "complete"
        /\ pc[n] = "moving" => stage = "absent"

(* A proposal outweighs what the call read, or writes it back where the    *)
(* medium lost something (stn_storage_apply, _extend, _adopt).             *)
ProposalInv ==
    \A n \in Nodes :
        /\ pc[n] \in {"planned"} \cup Locked => proposal[n] \in Valid
        /\ pc[n] \in Replacing =>
            \/ Prefers(proposal[n], view[n])
            \/ proposal[n] = view[n] /\ file.kind = "damaged"

(* Between the rename and the move of the state the file is the proposal.  *)
MovingInv ==
    \A n \in Nodes : pc[n] = "moving" =>
        /\ file.kind # "missing"
        /\ file.kind = "good" => file.blocks = proposal[n]
        /\ \E k \in 0..Len(proposal[n]) : file.blocks = Prefix(proposal[n], k)

IInv ==
    /\ TypeOK
    /\ LockInv
    /\ StageInv
    /\ ReadIsStillCurrent
    /\ ProposalInv
    /\ MovingInv

-----------------------------------------------------------------------------
(* A history is a sequence of blocks, and nonempty if it is valid.         *)
LEMMA ValidSeq ==
    ASSUME NEW h \in Valid
    PROVE  h \in Seq(Blocks) /\ h # <<>>
  <1>1. Valid \subseteq Seq(Blocks) \ {<<>>}
    BY HistoriesAssumption
  <1> QED
    BY <1>1

(* The same for a history that may be absent.                              *)
LEMMA StoredSeq ==
    ASSUME NEW h \in Stored
    PROVE  h \in Seq(Blocks) /\ Len(h) \in Nat
  <1>1. CASE h \in Valid
    BY <1>1, ValidSeq
  <1>2. CASE h = <<>>
    BY <1>2
  <1> QED
    BY <1>1, <1>2 DEF Stored

(* A prefix of a stored history is a stored history.                       *)
LEMMA PrefixStored ==
    ASSUME NEW h \in Stored, NEW k \in 0..Len(h)
    PROVE  Prefix(h, k) \in Stored
  <1>1. h \in Seq(Blocks)
    BY StoredSeq
  <1>2. CASE k = 0
    BY <1>1, <1>2 DEF Prefix, Stored
  <1>3. CASE k = Len(h)
    <2>1. Prefix(h, k) = h
      BY <1>1, <1>3 DEF Prefix
    <2> QED
      BY <2>1
  <1>4. CASE k # 0 /\ k # Len(h)
    <2>1. h \in Valid
      BY <1>1, <1>4 DEF Stored
    <2>2. k \in 1..(Len(h) - 1)
      BY <1>1, <1>4
    <2> QED
      BY <2>1, <2>2, HistoriesAssumption DEF Stored
  <1> QED
    BY <1>2, <1>3, <1>4

(* A history is a prefix of itself.                                        *)
LEMMA PrefixSelf ==
    ASSUME NEW h \in Stored
    PROVE  Len(h) \in 0..Len(h) /\ Prefix(h, Len(h)) = h
  <1>1. h \in Seq(Blocks)
    BY StoredSeq
  <1> QED
    BY <1>1 DEF Prefix

(* A prefix of a prefix is a prefix.                                       *)
LEMMA PrefixOfPrefix ==
    ASSUME NEW h \in Stored, NEW k \in 0..Len(h), NEW j \in 0..Len(Prefix(h, k))
    PROVE  j \in 0..Len(h) /\ Prefix(Prefix(h, k), j) = Prefix(h, j)
  <1>1. h \in Seq(Blocks)
    BY StoredSeq
  <1>2. Prefix(h, k) \in Seq(Blocks) /\ Len(Prefix(h, k)) = k
    BY <1>1 DEF Prefix
  <1> QED
    BY <1>1, <1>2 DEF Prefix

(* What outweighs a history outweighs its prefixes                         *)
(* (stn_work_order over cumulative work).                                  *)
LEMMA PrefersPrefix ==
    ASSUME NEW g \in Valid, NEW h \in Stored, Prefers(g, h), NEW k \in 0..Len(h)
    PROVE  Prefers(g, Prefix(h, k))
  <1>1. h \in Seq(Blocks)
    BY StoredSeq
  <1>2. CASE k = 0
    <2>1. Prefix(h, k) = <<>>
      BY <1>1, <1>2 DEF Prefix
    <2> QED
      BY <2>1 DEF Prefers
  <1>3. CASE k = Len(h)
    BY <1>3, PrefixSelf
  <1>4. CASE k # 0 /\ k # Len(h)
    <2>1. h \in Valid /\ h # <<>>
      BY <1>1, <1>4 DEF Stored
    <2>2. k \in 1..(Len(h) - 1)
      BY <1>1, <1>4
    <2>3. Prefix(h, k) \in Valid /\ Work[Prefix(h, k)] < Work[h]
      BY <2>1, <2>2, HistoriesAssumption
    <2>4. Work[g] \in Nat /\ Work[h] \in Nat /\ Work[Prefix(h, k)] \in Nat
      BY <2>1, <2>3, HistoriesAssumption
    <2> QED
      BY <2>1, <2>3, <2>4 DEF Prefers
  <1> QED
    BY <1>2, <1>3, <1>4

(* Writing a history back over one of its prefixes loses nothing.          *)
LEMMA RestorePrefix ==
    ASSUME NEW h \in Valid, NEW k \in 0..Len(h)
    PROVE  Prefix(h, k) = h \/ Prefers(h, Prefix(h, k))
  <1>1. h \in Seq(Blocks) /\ h \in Stored
    BY ValidSeq DEF Stored
  <1>2. CASE k = 0
    <2>1. Prefix(h, k) = <<>>
      BY <1>1, <1>2 DEF Prefix
    <2> QED
      BY <2>1 DEF Prefers
  <1>3. CASE k = Len(h)
    BY <1>1, <1>3, PrefixSelf
  <1>4. CASE k # 0 /\ k # Len(h)
    <2>1. k \in 1..(Len(h) - 1)
      BY <1>1, <1>4
    <2>2. Prefix(h, k) \in Valid /\ Work[Prefix(h, k)] < Work[h]
      BY <2>1, HistoriesAssumption
    <2>3. Work[h] \in Nat /\ Work[Prefix(h, k)] \in Nat
      BY <2>2, HistoriesAssumption
    <2> QED
      BY <2>2, <2>3 DEF Prefers
  <1> QED
    BY <1>2, <1>3, <1>4

(* An extension outweighs what it extends (stn_storage_extend runs no fork *)
(* choice).                                                                *)
LEMMA ExtensionPrefers ==
    ASSUME NEW h \in Valid, NEW b \in Blocks, Append(h, b) \in Valid
    PROVE  Prefers(Append(h, b), h)
  <1>1. h \in Seq(Blocks) /\ h # <<>>
    BY ValidSeq
  <1>2. Len(Append(h, b)) = Len(h) + 1 /\ Prefix(Append(h, b), Len(h)) = h
    BY <1>1 DEF Prefix
  <1>3. Len(h) \in 1..(Len(Append(h, b)) - 1)
    BY <1>1, <1>2
  <1>4. Work[h] < Work[Append(h, b)]
    BY <1>2, <1>3, HistoriesAssumption
  <1>5. Work[h] \in Nat /\ Work[Append(h, b)] \in Nat
    BY HistoriesAssumption
  <1> QED
    BY <1>4, <1>5 DEF Prefers

(* A snapshot is empty exactly when its history is.                        *)
LEMMA FileStored ==
    ASSUME TypeOK
    PROVE  /\ file.blocks \in Stored
           /\ file.kind \in {"missing", "good", "damaged"}
           /\ file.kind = "good" => file.blocks \in Valid
  BY DEF TypeOK, Files, Stored

-----------------------------------------------------------------------------
(* Nothing is on disk, locked or running before the first start.           *)
LEMMA InitIInv == Init => IInv
  <1> SUFFICES ASSUME Init PROVE IInv
    OBVIOUS
  <1>1. <<>> \in Stored
    BY DEF Stored
  <1>2. TypeOK
    BY <1>1 DEF Init, TypeOK, Files, Missing, Stages, Shown, PCs
  <1>3. LockInv /\ StageInv /\ ReadIsStillCurrent /\ ProposalInv /\ MovingInv
    BY NodesAssumption DEF Init, LockInv, StageInv, ReadIsStillCurrent,
       ProposalInv, MovingInv, Locked, Replacing
  <1> QED
    BY <1>2, <1>3 DEF IInv

(* A step of one node between places where it holds no lock, leaving the   *)
(* disk alone, preserves the invariant (the reading part of every storage  *)
(* call, and every refusal).                                               *)
LEMMA ReadingStep ==
    ASSUME IInv, NEW n \in Nodes, NEW at \in PCs \ Locked,
           NEW h \in Stored, NEW q \in Stored,
           pc[n] \notin Locked,
           at = "planned" => q \in Valid,
           pc' = [pc EXCEPT ![n] = at],
           view' = [view EXCEPT ![n] = h],
           proposal' = [proposal EXCEPT ![n] = q],
           active' \in Shown,
           report' \in [Nodes -> {"none", "unresolved"}],
           UNCHANGED <<disk, owner>>
    PROVE  IInv'
  <1>1. TypeOK'
    BY DEF IInv, TypeOK, Shown, disk
  <1>2. \A m \in Nodes : m # n =>
            pc'[m] = pc[m] /\ view'[m] = view[m] /\ proposal'[m] = proposal[m]
    BY DEF IInv, TypeOK, Shown
  <1>3. pc'[n] = at /\ proposal'[n] = q
    BY DEF IInv, TypeOK, Shown
  <1>4. at \notin Replacing /\ at # "moving" /\ at # "staging"
        /\ at # "writing" /\ at # "renaming"
    BY DEF Locked, Replacing
  <1>5. LockInv'
    BY <1>2, <1>3 DEF IInv, LockInv
  <1>6. StageInv'
    BY <1>2, <1>3, <1>4 DEF IInv, StageInv, disk
  <1>7. ReadIsStillCurrent'
    BY <1>2, <1>3, <1>4 DEF IInv, ReadIsStillCurrent, disk
  <1>8. ProposalInv'
    BY <1>2, <1>3, <1>4 DEF IInv, ProposalInv, disk
  <1>9. MovingInv'
    BY <1>2, <1>3, <1>4 DEF IInv, MovingInv, disk
  <1> QED
    BY <1>1, <1>5, <1>6, <1>7, <1>8, <1>9 DEF IInv

(* While the lock is free no node is in a replacement.                     *)
LEMMA FreeUnlocked ==
    ASSUME IInv, Free, NEW n \in Nodes
    PROVE  pc[n] \notin Locked
  BY NodesAssumption DEF IInv, LockInv, Free

(* A proposal made under a fresh lock, over what is on disk, establishes   *)
(* what the replacement relies on.                                         *)
LEMMA ProposeStep ==
    ASSUME IInv, NEW n \in Nodes, NEW h \in Valid,
           Propose(n, file.blocks, h),
           Prefers(h, file.blocks) \/ (h = file.blocks /\ file.kind = "damaged")
    PROVE  IInv'
  <1>1. file.blocks \in Stored /\ h \in Stored
    BY FileStored DEF IInv, Stored
  <1>2. Free /\ \A m \in Nodes : pc[m] \notin Locked
    BY FreeUnlocked DEF Propose
  <1>3. "staging" \in PCs /\ "staging" \in Locked /\ "staging" \in Replacing
        /\ "moving" \notin Replacing /\ "staging" # "moving"
    BY DEF PCs, Locked, Replacing
  <1>4. TypeOK'
    BY <1>1, <1>3 DEF IInv, TypeOK, Shown, Propose, disk
  <1>5. \A m \in Nodes : m # n => pc'[m] = pc[m] /\ proposal'[m] = proposal[m]
    BY DEF IInv, TypeOK, Shown, Propose
  <1>6. pc'[n] = "staging" /\ view'[n] = file.blocks /\ proposal'[n] = h
    BY DEF IInv, TypeOK, Shown, Propose
  <1>7. owner' = n /\ file' = file /\ stage' = stage
    BY DEF Propose, disk
  <1>8. \A m \in Nodes : pc'[m] \in Locked <=> m = n
    BY <1>2, <1>3, <1>5, <1>6
  <1>9. \A m \in Nodes : pc'[m] \in Replacing \cup {"moving"} => m = n
    BY <1>8 DEF Locked
  <1>10. LockInv'
    BY <1>7, <1>8 DEF LockInv
  <1>11. StageInv'
    <2>1. stage \in {"absent", "left"}
      BY <1>2 DEF IInv, StageInv, Free
    <2>2. \A m \in Nodes : pc'[m] \in {"writing", "renaming", "moving"} => FALSE
      BY <1>6, <1>9 DEF Replacing
    <2> QED
      BY <1>7, <2>1, <2>2, NodesAssumption DEF StageInv
  <1>12. ReadIsStillCurrent'
    <2>1. Len(file.blocks) \in 0..Len(file.blocks)
          /\ file.blocks = Prefix(file.blocks, Len(file.blocks))
      BY <1>1, PrefixSelf
    <2>2. file.kind = "missing" => file.blocks = <<>>
      BY DEF IInv, TypeOK
    <2> QED
      BY <1>6, <1>7, <1>9, <2>1, <2>2 DEF ReadIsStillCurrent
  <1>13. ProposalInv'
    <2>1. \A m \in Nodes : m # n =>
            (pc'[m] \in {"planned"} \cup Locked => proposal'[m] \in Valid)
      BY <1>5 DEF IInv, ProposalInv
    <2> QED
      BY <1>6, <1>7, <1>9, <2>1 DEF ProposalInv
  <1>14. MovingInv'
    BY <1>6, <1>9, <1>3 DEF MovingInv
  <1> QED
    BY <1>4, <1>10, <1>11, <1>12, <1>13, <1>14 DEF IInv

-----------------------------------------------------------------------------
(* The steps of a replacement.  In each of them only node n is in a locked *)
(* place, before and after.                                                *)
LEMMA OnlyHolder ==
    ASSUME IInv, NEW n \in Nodes, pc[n] \in Locked, NEW m \in Nodes, m # n
    PROVE  owner = n /\ pc[m] \notin Locked
  BY DEF IInv, LockInv

(* Creating the staging file (open with O_EXCL).                           *)
LEMMA CreateStageStep ==
    ASSUME IInv, NEW n \in Nodes, CreateStage(n)
    PROVE  IInv'
  <1>1. pc[n] \in Locked /\ pc[n] \in Replacing
    BY DEF CreateStage, Locked, Replacing
  <1>2. pc'[n] = "writing" /\ \A m \in Nodes : m # n => pc'[m] = pc[m]
    BY DEF IInv, TypeOK, CreateStage
  <1>3. \A m \in Nodes : m # n => pc'[m] \notin Locked
    BY <1>1, <1>2, OnlyHolder
  <1>4. owner = n /\ owner # NoNode
    BY <1>1, NodesAssumption DEF IInv, LockInv
  <1>5. TypeOK'
    BY DEF IInv, TypeOK, Shown, CreateStage, PCs, Locked, Replacing, Stages
  <1>6. LockInv'
    BY <1>2, <1>3, <1>4 DEF LockInv, CreateStage, Locked, Replacing
  <1>7. StageInv'
    BY <1>2, <1>3, <1>4 DEF StageInv, CreateStage, Locked, Replacing
  <1>8. ReadIsStillCurrent'
    BY <1>1, <1>2, <1>3 DEF IInv, ReadIsStillCurrent, CreateStage, Locked
  <1>9. ProposalInv'
    BY <1>1, <1>2, <1>3 DEF IInv, ProposalInv, CreateStage, Locked
  <1>10. MovingInv'
    BY <1>2, <1>3 DEF MovingInv, Locked
  <1> QED
    BY <1>5, <1>6, <1>7, <1>8, <1>9, <1>10 DEF IInv

(* Writing and flushing it.                                                *)
LEMMA WriteStageStep ==
    ASSUME IInv, NEW n \in Nodes, WriteStage(n)
    PROVE  IInv'
  <1>1. pc[n] \in Locked /\ pc[n] \in Replacing
    BY DEF WriteStage, Locked, Replacing
  <1>2. pc'[n] = "renaming" /\ \A m \in Nodes : m # n => pc'[m] = pc[m]
    BY DEF IInv, TypeOK, WriteStage
  <1>3. \A m \in Nodes : m # n => pc'[m] \notin Locked
    BY <1>1, <1>2, OnlyHolder
  <1>4. owner = n /\ owner # NoNode
    BY <1>1, NodesAssumption DEF IInv, LockInv
  <1>5. TypeOK'
    BY DEF IInv, TypeOK, Shown, WriteStage, PCs, Locked, Replacing, Stages
  <1>6. LockInv'
    BY <1>2, <1>3, <1>4 DEF LockInv, WriteStage, Locked, Replacing
  <1>7. StageInv'
    BY <1>2, <1>3, <1>4 DEF StageInv, WriteStage, Locked, Replacing
  <1>8. ReadIsStillCurrent'
    BY <1>1, <1>2, <1>3 DEF IInv, ReadIsStillCurrent, WriteStage, Locked
  <1>9. ProposalInv'
    BY <1>1, <1>2, <1>3 DEF IInv, ProposalInv, WriteStage, Locked
  <1>10. MovingInv'
    BY <1>2, <1>3 DEF MovingInv, Locked
  <1> QED
    BY <1>5, <1>6, <1>7, <1>8, <1>9, <1>10 DEF IInv

(* The rename, the publication point.                                      *)
LEMMA RenameStep ==
    ASSUME IInv, NEW n \in Nodes, Rename(n)
    PROVE  IInv'
  <1>1. pc[n] \in Locked
    BY DEF Rename, Locked, Replacing
  <1>2. pc'[n] = "moving" /\ \A m \in Nodes : m # n => pc'[m] = pc[m]
    BY DEF IInv, TypeOK, Rename
  <1>3. \A m \in Nodes : m # n => pc'[m] \notin Locked
    BY <1>1, <1>2, OnlyHolder
  <1>4. owner = n /\ owner # NoNode
    BY <1>1, NodesAssumption DEF IInv, LockInv
  <1>5. proposal[n] \in Valid /\ proposal[n] \in Stored /\ proposal[n] # <<>>
    BY <1>1, ValidSeq DEF IInv, ProposalInv, Stored
  <1>6. TypeOK'
    BY <1>5 DEF IInv, TypeOK, Shown, Rename, Good, Files, PCs, Locked, Stages
  <1>7. LockInv'
    BY <1>2, <1>3, <1>4 DEF LockInv, Rename, Locked
  <1>8. StageInv'
    BY <1>2, <1>3, <1>4 DEF StageInv, Rename, Locked, Replacing
  <1>9. ReadIsStillCurrent'
    BY <1>2, <1>3 DEF ReadIsStillCurrent, Locked, Replacing
  <1>10. ProposalInv'
    BY <1>1, <1>2, <1>3 DEF IInv, ProposalInv, Rename, Locked, Replacing
  <1>11. MovingInv'
    <2>1. Len(proposal[n]) \in 0..Len(proposal[n])
          /\ proposal[n] = Prefix(proposal[n], Len(proposal[n]))
      BY <1>5, PrefixSelf
    <2> QED
      BY <1>2, <1>3, <2>1 DEF MovingInv, Rename, Good, Locked
  <1> QED
    BY <1>6, <1>7, <1>8, <1>9, <1>10, <1>11 DEF IInv

(* A node that leaves its replacement gives the lock back; what remains of *)
(* the staging file is nobody's.                                           *)
LEMMA LeaveStep ==
    ASSUME IInv, NEW n \in Nodes, pc[n] \in Locked,
           NEW at \in {"idle", "down"}, Return(n, at),
           owner' = NoNode, stage' \in {"absent", "left"},
           active' \in Shown, UNCHANGED file
    PROVE  IInv'
  <1>1. pc'[n] = at /\ \A m \in Nodes : m # n =>
            pc'[m] = pc[m] /\ view'[m] = view[m] /\ proposal'[m] = proposal[m]
    BY DEF IInv, TypeOK, Shown, Return
  <1>2. \A m \in Nodes : m # n => pc'[m] \notin Locked
    BY <1>1, OnlyHolder
  <1>3. pc'[n] \notin Locked /\ pc'[n] # "planned"
    BY <1>1 DEF Locked, Replacing
  <1>4. TypeOK'
    <2>1. <<>> \in Stored
      BY DEF Stored
    <2> QED
      BY <2>1 DEF IInv, TypeOK, Shown, Return, PCs, Stages
  <1>5. \A m \in Nodes : pc'[m] \notin Locked
    BY <1>2, <1>3
  <1>6. LockInv' /\ StageInv' /\ ReadIsStillCurrent' /\ MovingInv'
    BY <1>5, NodesAssumption DEF LockInv, StageInv, ReadIsStillCurrent,
       MovingInv, Locked, Replacing
  <1>7. ProposalInv'
    BY <1>1, <1>3, <1>5 DEF IInv, ProposalInv, Locked
  <1> QED
    BY <1>4, <1>6, <1>7 DEF IInv

(* A process that stops outside a replacement changes nothing on disk.     *)
LEMMA StopStep ==
    ASSUME IInv, NEW n \in Nodes, Stop(n)
    PROVE  IInv'
  <1>1. <<>> \in Stored
    BY DEF Stored
  <1>2. active' \in Shown
    BY <1>1 DEF IInv, TypeOK, Shown, Stop
  <1>3. CASE pc[n] \in Locked
    <2>1. owner' = NoNode
      BY <1>3 DEF IInv, LockInv, Stop
    <2>2. stage' \in {"absent", "left"}
      BY <1>3 DEF IInv, StageInv, Stop, Locked, Replacing
    <2> QED
      BY <1>2, <1>3, <2>1, <2>2, LeaveStep DEF Stop
  <1>4. CASE pc[n] \notin Locked
    <2>1. owner # n
      BY <1>4 DEF IInv, LockInv
    <2>2. UNCHANGED <<disk, owner>>
      BY <1>4, <2>1 DEF Stop, disk, Locked, Replacing
    <2>3. "down" \in PCs \ Locked
      BY DEF PCs, Locked, Replacing
    <2>4. report' \in [Nodes -> {"none", "unresolved"}]
      BY DEF IInv, TypeOK, Stop, Return
    <2> QED
      BY <1>1, <1>2, <1>4, <2>2, <2>3, <2>4, ReadingStep DEF Stop, Return
  <1> QED
    BY <1>3, <1>4

(* A failed replacement, and one that ends by moving the active state.     *)
LEMMA EndStep ==
    ASSUME IInv, NEW n \in Nodes, Fail(n) \/ MoveActive(n)
    PROVE  IInv'
  <1>1. CASE Fail(n)
    <2>1. pc[n] \in Locked
      BY <1>1 DEF Fail, Locked
    <2>2. Rest(n) \in {"idle", "down"}
      BY DEF Rest
    <2>3. stage' \in {"absent", "left"}
      BY <1>1 DEF IInv, StageInv, Fail, Cleaned
    <2>4. active' \in Shown
      BY <1>1 DEF IInv, TypeOK, Fail
    <2> QED
      BY <1>1, <2>1, <2>2, <2>3, <2>4, LeaveStep DEF Fail
  <1>2. CASE MoveActive(n)
    <2>1. pc[n] \in Locked
      BY <1>2 DEF MoveActive, Locked
    <2>2. stage' \in {"absent", "left"}
      BY <1>2 DEF IInv, StageInv, MoveActive, disk
    <2>3. active' \in Shown
      BY <1>2 DEF IInv, TypeOK, Shown, MoveActive
    <2> QED
      BY <1>2, <2>1, <2>2, <2>3, LeaveStep DEF MoveActive, disk
  <1> QED
    BY <1>1, <1>2

-----------------------------------------------------------------------------
(* The medium may lose the end of the file at any time.                    *)
LEMMA DamageStep ==
    ASSUME IInv, Damage
    PROVE  IInv'
  <1>1. PICK k \in 0..Len(file.blocks) :
            file' = [kind |-> "damaged", blocks |-> Prefix(file.blocks, k)]
    BY DEF Damage
  <1>2. /\ file.blocks \in Stored
        /\ file'.kind = "damaged"
        /\ file'.blocks = Prefix(file.blocks, k)
    BY <1>1, FileStored DEF IInv
  <1>3. file'.blocks \in Stored
    BY <1>2, PrefixStored
  <1>4. \A h \in Stored : (\E j \in 0..Len(h) : file.blocks = Prefix(h, j))
            => \E j \in 0..Len(h) : file'.blocks = Prefix(h, j)
    <2>1. SUFFICES ASSUME NEW h \in Stored, NEW j \in 0..Len(h),
                          file.blocks = Prefix(h, j)
                   PROVE  \E i \in 0..Len(h) : file'.blocks = Prefix(h, i)
      OBVIOUS
    <2>2. k \in 0..Len(Prefix(h, j))
      BY <2>1
    <2>3. k \in 0..Len(h) /\ file'.blocks = Prefix(h, k)
      BY <1>2, <2>1, <2>2, PrefixOfPrefix
    <2> QED
      BY <2>3
  <1>5. TypeOK'
    BY <1>1, <1>3 DEF IInv, TypeOK, Shown, Files, Damage, calls
  <1>6. LockInv' /\ StageInv'
    BY DEF IInv, LockInv, StageInv, Damage, calls
  <1>7. \A n \in Nodes : view[n] \in Stored /\ proposal[n] \in Stored
    BY DEF IInv, TypeOK, Shown
  <1>8. ReadIsStillCurrent'
    BY <1>2, <1>4, <1>7 DEF IInv, ReadIsStillCurrent, Damage, calls
  <1>9. ProposalInv'
    BY <1>2 DEF IInv, ProposalInv, Damage, calls
  <1>10. MovingInv'
    BY <1>2, <1>4, <1>7 DEF IInv, MovingInv, Damage, calls
  <1> QED
    BY <1>5, <1>6, <1>8, <1>9, <1>10 DEF IInv

(* The operator removes what a stopped call left.                          *)
LEMMA RemoveStagingStep ==
    ASSUME IInv, RemoveStaging
    PROVE  IInv'
  <1>1. \A n \in Nodes : pc[n] \notin Locked
    BY FreeUnlocked DEF RemoveStaging
  <1>2. TypeOK'
    BY DEF IInv, TypeOK, Shown, RemoveStaging, calls, Stages
  <1>3. LockInv' /\ ReadIsStillCurrent' /\ ProposalInv' /\ MovingInv'
    BY DEF IInv, LockInv, ReadIsStillCurrent, ProposalInv, MovingInv,
       RemoveStaging, calls
  <1>4. StageInv'
    BY <1>1 DEF StageInv, RemoveStaging, calls, Locked, Replacing
  <1> QED
    BY <1>2, <1>3, <1>4 DEF IInv

(* The reading steps of a call are reading steps of the lemma above.       *)
LEMMA CallReadingStep ==
    ASSUME IInv, NEW n \in Nodes,
           \/ Start(n) \/ StartMissing(n) \/ Load(n) \/ Refuse(n)
           \/ RecoveryRead(n) \/ \E h \in Valid : Plan(n, h)
    PROVE  IInv'
  <1>1. <<>> \in Stored /\ file.blocks \in Stored
    BY FileStored DEF IInv, Stored
  <1>2. /\ view[n] \in Stored /\ proposal[n] \in Stored
        /\ active \in Shown
        /\ report \in [Nodes -> {"none", "unresolved"}]
    BY DEF IInv, TypeOK, Shown
  <1>3. {"creating", "viewed", "planned", "syncing", "idle", "down"}
            \subseteq PCs \ Locked
    BY DEF PCs, Locked, Replacing, Reading
  <1>4. /\ pc = [pc EXCEPT ![n] = pc[n]]
        /\ view = [view EXCEPT ![n] = view[n]]
        /\ proposal = [proposal EXCEPT ![n] = proposal[n]]
    BY DEF IInv, TypeOK, Shown
  <1>5. CASE Start(n)
    <2>1. pc[n] \notin Locked
      BY <1>5 DEF Start, Locked, Replacing
    <2>2. active' \in Shown /\ report' \in [Nodes -> {"none", "unresolved"}]
      BY <1>1, <1>2, <1>5 DEF Start, Return, Shown
    <2> QED
      BY <1>1, <1>3, <1>5, <2>1, <2>2, ReadingStep DEF Start, Return
  <1>6. CASE StartMissing(n)
    <2>1. pc[n] \notin Locked
      BY <1>6 DEF StartMissing, Locked, Replacing
    <2> QED
      BY <1>1, <1>2, <1>3, <1>4, <1>6, <2>1, ReadingStep DEF StartMissing, Reads
  <1>7. CASE Load(n)
    <2>1. pc[n] \notin Locked
      BY <1>7 DEF Load, Locked, Replacing
    <2> QED
      BY <1>1, <1>2, <1>3, <1>4, <1>7, <2>1, ReadingStep DEF Load, Reads
  <1>8. CASE Refuse(n)
    <2>1. pc[n] \notin Locked
      BY <1>8 DEF Refuse, Reading, Locked, Replacing
    <2>2. Rest(n) \in {"idle", "down"}
      BY DEF Rest
    <2>3. report' \in [Nodes -> {"none", "unresolved"}]
      BY <1>2, <1>8 DEF Refuse, Return
    <2> QED
      BY <1>1, <1>2, <1>3, <1>8, <2>1, <2>2, <2>3, ReadingStep
         DEF Refuse, Return
  <1>9. CASE RecoveryRead(n)
    <2>1. pc[n] \in {"down", "idle"} /\ pc[n] \notin Locked
      BY <1>9 DEF RecoveryRead, Locked, Replacing
    <2>2. CASE Undecided
      <3>1. report' \in [Nodes -> {"none", "unresolved"}]
        BY <1>2, <1>9, <2>2 DEF RecoveryRead
      <3> QED
        BY <1>2, <1>3, <1>4, <1>9, <2>1, <2>2, <3>1, ReadingStep
           DEF RecoveryRead, calls
    <2>3. CASE ~Undecided
      <3>1. report' \in [Nodes -> {"none", "unresolved"}]
        BY <1>2, <1>9, <2>3 DEF RecoveryRead, Return
      <3> QED
        BY <1>1, <1>2, <1>3, <1>9, <2>1, <2>3, <3>1, ReadingStep
           DEF RecoveryRead, Return
    <2> QED
      BY <2>2, <2>3
  <1>10. CASE \E h \in Valid : Plan(n, h)
    <2>1. PICK h \in Valid : Plan(n, h)
      BY <1>10
    <2>2. h \in Stored /\ pc[n] \notin Locked
      BY <2>1 DEF Plan, Stored, Locked, Replacing
    <2> QED
      BY <1>2, <1>3, <1>4, <2>1, <2>2, ReadingStep DEF Plan
  <1> QED
    BY <1>5, <1>6, <1>7, <1>8, <1>9, <1>10

(* The proposing steps of a call satisfy what ProposeStep asks.            *)
LEMMA CallProposeStep ==
    ASSUME IInv, NEW n \in Nodes,
           \/ Create(n) \/ Apply(n) \/ \E b \in Blocks : Extend(n, b)
           \/ \E h \in Valid : Adopt(n, h)
    PROVE  IInv'
  <1>1. CASE Create(n)
    <2>1. file.blocks = <<>> /\ <<Genesis>> \in Valid
      BY <1>1, HistoriesAssumption DEF Create, CreateOK, IInv, TypeOK
    <2>2. Prefers(<<Genesis>>, file.blocks)
      BY <2>1 DEF Prefers
    <2> QED
      BY <1>1, <2>1, <2>2, ProposeStep DEF Create
  <1>2. CASE Apply(n)
    <2>1. proposal[n] \in Valid
      BY <1>2 DEF Apply, IInv, ProposalInv
    <2> QED
      BY <1>2, <2>1, ProposeStep DEF Apply
  <1>3. CASE \E b \in Blocks : Extend(n, b)
    <2>1. PICK b \in Blocks : Extend(n, b)
      BY <1>3
    <2>2. file.blocks \in Valid /\ Append(file.blocks, b) \in Valid
      BY <2>1, FileStored DEF Extend, Current, IInv
    <2>3. Prefers(Append(file.blocks, b), file.blocks)
      BY <2>2, ExtensionPrefers
    <2> QED
      BY <2>1, <2>2, <2>3, ProposeStep DEF Extend
  <1>4. CASE \E h \in Valid : Adopt(n, h)
    <2>1. PICK h \in Valid : Adopt(n, h)
      BY <1>4
    <2>2. CASE Prefers(h, file.blocks)
      BY <2>1, <2>2, ProposeStep DEF Adopt
    <2>3. CASE file.kind = "damaged" /\ SameTip(h, file.blocks)
      <3>1. file.blocks \in Valid
        BY <2>3, FileStored DEF IInv, Stored, SameTip
      <3>2. h = file.blocks
        BY <2>3, <3>1, HistoriesAssumption DEF SameTip
      <3> QED
        BY <2>1, <2>3, <3>2, ProposeStep DEF Adopt
    <2> QED
      BY <2>1, <2>2, <2>3 DEF Adopt, AdoptOK
  <1> QED
    BY <1>1, <1>2, <1>3, <1>4

(* The invariant is inductive.                                             *)
LEMMA Inductive == IInv /\ [Next]_vars => IInv'
  <1> SUFFICES ASSUME IInv, [Next]_vars PROVE IInv'
    OBVIOUS
  <1>1. CASE UNCHANGED vars
    BY <1>1 DEF vars, disk, calls, IInv, TypeOK, Shown, LockInv, StageInv,
       ReadIsStillCurrent, ProposalInv, MovingInv
  <1>2. CASE Damage
    BY <1>2, DamageStep
  <1>3. CASE RemoveStaging
    BY <1>3, RemoveStagingStep
  <1>4. CASE \E n \in Nodes : Step(n)
    <2>1. PICK n \in Nodes : Step(n)
      BY <1>4
    <2>2. CASE \/ Start(n) \/ StartMissing(n) \/ Load(n) \/ Refuse(n)
               \/ RecoveryRead(n) \/ \E h \in Valid : Plan(n, h)
      BY <2>2, CallReadingStep
    <2>3. CASE \/ Create(n) \/ Apply(n) \/ \E b \in Blocks : Extend(n, b)
               \/ \E h \in Valid : Adopt(n, h)
      BY <2>3, CallProposeStep
    <2>4. CASE Replacement(n)
      BY <2>4, CreateStageStep, WriteStageStep, RenameStep, EndStep
         DEF Replacement
    <2>5. CASE Stop(n)
      BY <2>5, StopStep
    <2> QED
      BY <2>1, <2>2, <2>3, <2>4, <2>5 DEF Step
  <1> QED
    BY <1>1, <1>2, <1>3, <1>4 DEF Next

(* The invariant holds in every reachable state.                           *)
THEOREM InvariantHolds == Spec => []IInv
  BY InitIInv, Inductive, PTL DEF Spec

(* Every snapshot and every state shown derives from a valid history.      *)
THEOREM TypeCorrect == Spec => []TypeOK
  <1>1. IInv => TypeOK
    BY DEF IInv
  <1> QED
    BY <1>1, InvariantHolds, PTL

(* Exclusion covers read, validation and publication together.             *)
THEOREM ExclusionCovers == Spec => []ReadIsStillCurrent
  <1>1. IInv => ReadIsStillCurrent
    BY DEF IInv
  <1> QED
    BY <1>1, InvariantHolds, PTL

-----------------------------------------------------------------------------
(* Only a rename and damage change the file.                               *)
LEMMA FileFrame ==
    ASSUME [Next]_vars, ~Damage, \A n \in Nodes : ~Rename(n)
    PROVE  file' = file
  <1>1. CASE UNCHANGED vars
    BY <1>1 DEF vars, disk
  <1>2. CASE RemoveStaging
    BY <1>2 DEF RemoveStaging
  <1>3. CASE \E n \in Nodes : Step(n)
    BY <1>3 DEF Step, Start, StartMissing, Create, Load, Extend, Plan, Apply,
       RecoveryRead, Adopt, Refuse, Replacement, CreateStage, WriteStage,
       MoveActive, Fail, Stop, Reads, Propose, disk
  <1> QED
    BY <1>1, <1>2, <1>3 DEF Next

(* Each step is a step of the accepted history or leaves it alone: only    *)
(* the rename publishes, and only the medium takes away.                   *)
LEMMA LedgerStep ==
    ASSUME IInv, [Next]_vars
    PROVE  [Ledger!Next]_(Ledger!vars)
  <1>1. CASE Damage
    <2>1. Ledger!Erode
      BY <1>1 DEF Damage, Ledger!Erode, Ledger!Prefix, Prefix
    <2> QED
      BY <2>1 DEF Ledger!Next
  <1>2. CASE \E n \in Nodes : Rename(n)
    <2>1. PICK n \in Nodes : Rename(n)
      BY <1>2
    <2>2. pc[n] \in Replacing /\ pc[n] \in Locked
      BY <2>1 DEF Rename, Replacing, Locked
    <2>3. /\ file'.kind = "good" /\ file'.blocks = proposal[n]
          /\ proposal[n] \in Valid
      BY <2>1, <2>2 DEF Rename, Good, IInv, ProposalInv
    <2>4. PICK k \in 0..Len(view[n]) : file.blocks = Prefix(view[n], k)
      BY <2>2 DEF IInv, ReadIsStillCurrent
    <2>5. view[n] \in Stored
      BY DEF IInv, TypeOK, Shown
    <2>6. CASE Prefers(proposal[n], view[n])
      <3>1. Prefers(proposal[n], file.blocks)
        BY <2>3, <2>4, <2>5, <2>6, PrefersPrefix
      <3>2. Ledger!Replace(proposal[n])
        BY <2>3, <3>1 DEF Ledger!Replace, Ledger!Prefers, Prefers
      <3> QED
        BY <2>3, <3>2 DEF Ledger!Next
    <2>7. CASE proposal[n] = view[n] /\ file.kind = "damaged"
      <3>1. file.blocks = proposal[n] \/ Prefers(proposal[n], file.blocks)
        BY <2>3, <2>4, <2>7, RestorePrefix
      <3>2. CASE file.blocks = proposal[n]
        BY <2>3, <2>7, <3>2 DEF Ledger!Next, Ledger!Restore
      <3>3. CASE Prefers(proposal[n], file.blocks)
        <4>1. Ledger!Replace(proposal[n])
          BY <2>3, <3>3 DEF Ledger!Replace, Ledger!Prefers, Prefers
        <4> QED
          BY <2>3, <4>1 DEF Ledger!Next
      <3> QED
        BY <3>1, <3>2, <3>3
    <2> QED
      BY <2>2, <2>6, <2>7 DEF IInv, ProposalInv
  <1>3. CASE ~Damage /\ \A n \in Nodes : ~Rename(n)
    BY <1>3, FileFrame DEF Ledger!vars
  <1> QED
    BY <1>1, <1>2, <1>3

(* Storage implements the accepted history that only grows in work.        *)
THEOREM Refinement == Spec => HistoryOnlyGrows
  <1>1. Init => Ledger!Init
    BY DEF Init, Missing, Ledger!Init
  <1>2. IInv /\ [Next]_vars => [Ledger!Next]_(Ledger!vars)
    BY LedgerStep
  <1> QED
    BY <1>1, <1>2, InvariantHolds, PTL DEF Spec, HistoryOnlyGrows, Ledger!Spec

-----------------------------------------------------------------------------
(* What a node comes to show is on disk, up to damage.                     *)
THEOREM Durable == Spec => DurableBeforeVisible
  <1> DEFINE OnDisk(h) ==
        /\ file.kind = "good" => file.blocks = h
        /\ \E k \in 0..Len(h) : file.blocks = Prefix(h, k)
  <1>1. ASSUME IInv, [Next]_vars, NEW n \in Nodes,
               active'[n] \notin {active[n], <<>>}
        PROVE  OnDisk(active'[n])
    <2>1. CASE \E m \in Nodes : Start(m)
      <3>1. PICK m \in Nodes : Start(m)
        BY <2>1
      <3>2. active'[n] = file.blocks /\ file.blocks \in Stored
        BY <1>1, <3>1, FileStored DEF Start, IInv, TypeOK, Shown
      <3> QED
        BY <3>2, PrefixSelf
    <2>2. CASE \E m \in Nodes : MoveActive(m)
      <3>1. PICK m \in Nodes : MoveActive(m)
        BY <2>2
      <3>2. active'[n] = proposal[m]
        BY <1>1, <3>1 DEF MoveActive, IInv, TypeOK, Shown
      <3>3. OnDisk(proposal[m])
        BY <1>1, <3>1 DEF MoveActive, IInv, MovingInv
      <3> QED
        BY <3>2, <3>3
    <2>3. CASE \E m \in Nodes : Stop(m)
      BY <1>1, <2>3 DEF Stop, IInv, TypeOK, Shown
    <2>4. CASE UNCHANGED active
      BY <1>1, <2>4
    <2>5. \/ \E m \in Nodes : Start(m) \/ MoveActive(m) \/ Stop(m)
          \/ UNCHANGED active
      BY <1>1 DEF Next, vars, Damage, RemoveStaging, Step, StartMissing,
         Create, Load, Extend, Plan, Apply, RecoveryRead, Adopt, Refuse,
         Replacement, CreateStage, WriteStage, Rename, Fail, Reads, Propose
    <2> QED
      BY <2>1, <2>2, <2>3, <2>4, <2>5
  <1>2. IInv /\ [Next]_vars =>
          [\A n \in Nodes : active'[n] \notin {active[n], <<>>} =>
             OnDisk(active'[n])]_vars
    BY <1>1
  <1> QED
    BY <1>2, InvariantHolds, PTL DEF Spec, DurableBeforeVisible

(* A staging file left behind stops every later publication and stays.     *)
THEOREM FailsClosed == Spec => LeftStagingFailsClosed
  <1>1. ASSUME IInv, Next, stage = "left", ~RemoveStaging
        PROVE  stage' = "left" /\ (file'.kind = "good" => file' = file)
    <2>1. CASE Damage
      BY <1>1, <2>1 DEF Damage
    <2>2. CASE \E n \in Nodes : Step(n)
      <3>1. PICK n \in Nodes : Step(n)
        BY <2>2
      <3>2. pc[n] \notin {"writing", "renaming"}
        BY <1>1 DEF IInv, StageInv
      <3>3. file' = file
        BY <1>1, <3>1, <3>2 DEF Step, Start, StartMissing, Create, Load,
           Extend, Plan, Apply, RecoveryRead, Adopt, Refuse, Replacement,
           CreateStage, WriteStage, Rename, MoveActive, Fail, Stop, Reads,
           Propose, disk
      <3>4. stage' = stage
        BY <1>1, <3>1, <3>2 DEF Step, Start, StartMissing, Create, Load,
           Extend, Plan, Apply, RecoveryRead, Adopt, Refuse, Replacement,
           CreateStage, WriteStage, Rename, MoveActive, Fail, Cleaned, Stop,
           Reads, Propose, disk, Replacing
      <3> QED
        BY <1>1, <3>3, <3>4
    <2> QED
      BY <1>1, <2>1, <2>2 DEF Next
  <1>2. IInv /\ [Next]_vars =>
          [stage = "left" /\ ~RemoveStaging =>
             stage' = "left" /\ (file'.kind = "good" => file' = file)]_vars
    BY <1>1
  <1> QED
    BY <1>2, InvariantHolds, PTL DEF Spec, LeftStagingFailsClosed
==============================================================================
