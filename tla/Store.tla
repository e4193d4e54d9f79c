-------------------------------- MODULE Store --------------------------------
(***************************************************************************)
(* Storage coordination (stn_storage.c) over a provider that keeps one     *)
(* snapshot file, a staging file beside it and an exclusive lock           *)
(* (stn_linux_storage.c).  A node is a process on the data directory: the  *)
(* service itself and, through the same lock, any cooperating process.     *)
(* Within a node calls are serialised, as the provider's contract asks.    *)
(*                                                                         *)
(* A call that only reads holds the lock for one step here: nothing it     *)
(* reads can change while it holds it.  A call that writes reads, compares *)
(* and proposes in one step, and then stages, writes, renames and moves    *)
(* the state in steps of its own, because a stop between any two of them   *)
(* leaves a different disk.  Every provider call may fail, and every       *)
(* refused check ends the call in the same way; Refuse and Fail are those  *)
(* ends.  Damage is the medium; RemoveStaging is the operator.  XxxFault   *)
(* is a faulty variant of Xxx that some property must notice; no behaviour *)
(* uses it.                                                                *)
(***************************************************************************)
EXTENDS Histories

CONSTANTS Nodes, NoNode
ASSUME NodesAssumption == NoNode \notin Nodes

VARIABLES
    file,       \* the authoritative snapshot
    stage,      \* the staging file
    owner,      \* the node holding the lock
    pc,         \* where each node is
    active,     \* the state each node shows, as the history it derives from
    view,       \* the history each node's call has read
    proposal,   \* the history it is about to publish
    report      \* "unresolved" after a recovery read that gave up

disk == <<file, stage>>
calls == <<pc, view, proposal>>
vars == <<disk, owner, calls, active, report>>

(* blocks: everything a scan from the start can use.  A damaged file keeps *)
(* a prefix of what was written, down to nothing when its framing is gone. *)
Files == [kind : {"missing", "good", "damaged"}, blocks : Stored]
Missing == [kind |-> "missing", blocks |-> <<>>]
Good(h) == [kind |-> "good", blocks |-> h]

(* "left" is a staging file that no running call created. *)
Stages == {"absent", "partial", "complete", "left"}
Reading == {"creating", "viewed", "planned", "syncing"}
Replacing == {"staging", "writing", "renaming"}
Locked == Replacing \cup {"moving"}
PCs == {"down", "idle"} \cup Reading \cup Locked

Init ==
    /\ file = Missing
    /\ stage = "absent"
    /\ owner = NoNode
    /\ pc = [n \in Nodes |-> "down"]
    /\ active = [n \in Nodes |-> <<>>]
    /\ view = [n \in Nodes |-> <<>>]
    /\ proposal = [n \in Nodes |-> <<>>]
    /\ report = [n \in Nodes |-> "none"]

-----------------------------------------------------------------------------
FreeFault == TRUE
Free == owner = NoNode

(* A node that never activated a state exits; a running one stays. *)
Rest(n) == IF active[n] = <<>> THEN "down" ELSE "idle"

(* The call is over and its locals are gone. *)
Return(n, at) ==
    /\ pc' = [pc EXCEPT ![n] = at]
    /\ view' = [view EXCEPT ![n] = <<>>]
    /\ proposal' = [proposal EXCEPT ![n] = <<>>]
    /\ report' = [report EXCEPT ![n] = "none"]

Reads(n, h, at) ==
    /\ Free
    /\ pc' = [pc EXCEPT ![n] = at]
    /\ view' = [view EXCEPT ![n] = h]
    /\ UNCHANGED <<disk, owner, active, proposal, report>>

(* Fault: the caller's state moves before the snapshot is published. *)
ProposeFault(n, current, h) ==
    /\ Free
    /\ owner' = n
    /\ pc' = [pc EXCEPT ![n] = "staging"]
    /\ view' = [view EXCEPT ![n] = current]
    /\ proposal' = [proposal EXCEPT ![n] = h]
    /\ active' = [active EXCEPT ![n] = h]
    /\ UNCHANGED <<disk, report>>

(* The lock is taken, current was read and found in order, h is to be      *)
(* published over it.                                                      *)
Propose(n, current, h) ==
    /\ Free
    /\ owner' = n
    /\ pc' = [pc EXCEPT ![n] = "staging"]
    /\ view' = [view EXCEPT ![n] = current]
    /\ proposal' = [proposal EXCEPT ![n] = h]
    /\ UNCHANGED <<disk, active, report>>

Refuse(n) ==
    /\ pc[n] \in Reading
    /\ Return(n, Rest(n))
    /\ UNCHANGED <<disk, owner, active>>

-----------------------------------------------------------------------------
(* Startup: a strict load, or the genesis where no file exists. *)
Start(n) ==
    /\ pc[n] = "down"
    /\ Free
    /\ file.kind = "good"
    /\ active' = [active EXCEPT ![n] = file.blocks]
    /\ Return(n, "idle")
    /\ UNCHANGED <<disk, owner>>

StartMissing(n) ==
    /\ pc[n] = "down"
    /\ file.kind = "missing"
    /\ Reads(n, <<>>, "creating")

CreateOK == file.kind = "missing"
Create(n) ==
    /\ pc[n] = "creating"
    /\ CreateOK
    /\ Propose(n, <<>>, <<Genesis>>)

(* Every request of the mining service begins with a strict load. *)
Load(n) ==
    /\ pc[n] = "idle"
    /\ file.kind = "good"
    /\ Reads(n, file.blocks, "viewed")

(* The caller's state must still be the one on disk. *)
Current(n) == file.kind = "good" /\ file.blocks = view[n]

ExtendFault(n, b) ==
    /\ pc[n] = "viewed"
    /\ Current(n)
    /\ Propose(n, file.blocks, Append(file.blocks, b))

Extend(n, b) ==
    /\ pc[n] = "viewed"
    /\ Current(n)
    /\ Append(file.blocks, b) \in Valid
    /\ Propose(n, file.blocks, Append(file.blocks, b))

(* The caller evaluates a competing history against its view, and the      *)
(* evaluation is repeated under the lock.                                  *)
Plan(n, h) ==
    /\ pc[n] = "viewed"
    /\ Prefers(h, view[n])
    /\ pc' = [pc EXCEPT ![n] = "planned"]
    /\ proposal' = [proposal EXCEPT ![n] = h]
    /\ UNCHANGED <<disk, owner, active, view, report>>

Apply(n) ==
    /\ pc[n] = "planned"
    /\ Current(n)
    /\ Prefers(proposal[n], file.blocks)
    /\ Propose(n, file.blocks, proposal[n])

(* The recovery scan of a file strict decoding refuses validates block by  *)
(* block from state alone; a block it cannot decide ends the read.  A      *)
(* caller that never activated a state may recover too.                    *)
Undecided ==
    /\ file.kind = "damaged"
    /\ \E i \in DOMAIN file.blocks : file.blocks[i] \in Deferred

RecoveryRead(n) ==
    /\ pc[n] \in {"down", "idle"}
    /\ Free
    /\ IF Undecided
       THEN /\ report' = [report EXCEPT ![n] = "unresolved"]
            /\ UNCHANGED calls
       ELSE Return(n, "syncing")
    /\ UNCHANGED <<disk, owner, active>>

(* A complete history from a peer, measured against the evidence read      *)
(* again under the lock.                                                   *)
AdoptOKFault(h) == file.kind = "damaged" \/ Prefers(h, file.blocks)
AdoptOK(h) ==
    \/ Prefers(h, file.blocks)
    \/ file.kind = "damaged" /\ SameTip(h, file.blocks)

Adopt(n, h) ==
    /\ pc[n] = "syncing"
    /\ ~Undecided
    /\ AdoptOK(h)
    /\ Propose(n, file.blocks, h)

-----------------------------------------------------------------------------
(* Replacement.  Staging is created exclusively, never reused. *)
CreateStageFault(n) ==
    /\ pc[n] = "staging"
    /\ stage' = "partial"
    /\ pc' = [pc EXCEPT ![n] = "writing"]
    /\ UNCHANGED <<file, owner, active, view, proposal, report>>

CreateStage(n) ==
    /\ pc[n] = "staging"
    /\ stage = "absent"
    /\ stage' = "partial"
    /\ pc' = [pc EXCEPT ![n] = "writing"]
    /\ UNCHANGED <<file, owner, active, view, proposal, report>>

WriteStage(n) ==
    /\ pc[n] = "writing"
    /\ stage' = "complete"
    /\ pc' = [pc EXCEPT ![n] = "renaming"]
    /\ UNCHANGED <<file, owner, active, view, proposal, report>>

Rename(n) ==
    /\ pc[n] = "renaming"
    /\ file' = Good(proposal[n])
    /\ stage' = "absent"
    /\ pc' = [pc EXCEPT ![n] = "moving"]
    /\ UNCHANGED <<owner, active, view, proposal, report>>

MoveActiveFault(n) ==
    /\ pc[n] = "moving"
    /\ active' = [active EXCEPT ![n] = proposal[n]]
    /\ Return(n, "idle")
    /\ UNCHANGED <<disk, owner>>

MoveActive(n) ==
    /\ pc[n] = "moving"
    /\ active' = [active EXCEPT ![n] = proposal[n]]
    /\ owner' = NoNode
    /\ Return(n, "idle")
    /\ UNCHANGED disk

(* A failed replacement removes the staging file it created, if it can. *)
Cleaned(n) == IF pc[n] = "staging" THEN {stage} ELSE {"absent", "left"}

Fail(n) ==
    /\ pc[n] \in Replacing
    /\ stage' \in Cleaned(n)
    /\ owner' = NoNode
    /\ Return(n, Rest(n))
    /\ UNCHANGED <<file, active>>

(* The process stops; the system drops its lock. *)
Stop(n) ==
    /\ pc[n] # "down"
    /\ stage' = IF pc[n] \in {"writing", "renaming"} THEN "left" ELSE stage
    /\ owner' = IF owner = n THEN NoNode ELSE owner
    /\ active' = [active EXCEPT ![n] = <<>>]
    /\ Return(n, "down")
    /\ UNCHANGED file

-----------------------------------------------------------------------------
Damage ==
    /\ file.kind # "missing"
    /\ \E k \in 0..Len(file.blocks) :
        file' = [kind |-> "damaged", blocks |-> Prefix(file.blocks, k)]
    /\ UNCHANGED <<stage, owner, calls, active, report>>

RemoveStaging ==
    /\ stage = "left"
    /\ Free
    /\ stage' = "absent"
    /\ UNCHANGED <<file, owner, calls, active, report>>

Replacement(n) ==
    CreateStage(n) \/ WriteStage(n) \/ Rename(n) \/ MoveActive(n) \/ Fail(n)

Step(n) ==
    \/ Start(n) \/ StartMissing(n) \/ Create(n)
    \/ Load(n) \/ (\E b \in Blocks : Extend(n, b))
    \/ (\E h \in Valid : Plan(n, h)) \/ Apply(n)
    \/ RecoveryRead(n) \/ (\E h \in Valid : Adopt(n, h))
    \/ Refuse(n) \/ Replacement(n) \/ Stop(n)

Next == (\E n \in Nodes : Step(n)) \/ Damage \/ RemoveStaging

(* A call that has begun to write runs on: its thread is scheduled and     *)
(* every provider call returns.                                            *)
Fairness == \A n \in Nodes : WF_vars(Replacement(n))

Spec == Init /\ [][Next]_vars /\ Fairness
==============================================================================
