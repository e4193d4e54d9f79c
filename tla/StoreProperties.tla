--------------------------- MODULE StoreProperties ---------------------------
(***************************************************************************)
(* What storage coordination promises, over module Store.                  *)
(***************************************************************************)
EXTENDS Store

Shown == [Nodes -> Stored]

(* Every variable keeps its type; in particular the snapshot and every     *)
(* state a node shows derive from a history reconstruction accepts         *)
(* (stn_storage_view and stn_chain_state in stn_storage.h).                *)
TypeOK ==
    /\ file \in Files
    /\ file.kind = "missing" => file.blocks = <<>>
    /\ file.kind = "good" => file.blocks # <<>>
    /\ stage \in Stages
    /\ owner \in Nodes \cup {NoNode}
    /\ pc \in [Nodes -> PCs]
    /\ active \in Shown
    /\ view \in Shown
    /\ proposal \in Shown
    /\ report \in [Nodes -> {"none", "unresolved"}]

(* "Exclusion covers read, validation and publication together": from the  *)
(* comparison to the rename, the file is the one the call compared with,   *)
(* up to damage of the medium.                                             *)
ReadIsStillCurrent ==
    \A n \in Nodes : pc[n] \in Replacing =>
        /\ file.kind = "missing" => view[n] = <<>>
        /\ file.kind = "good" => file.blocks = view[n]
        /\ \E k \in 0..Len(view[n]) : file.blocks = Prefix(view[n], k)

(* The accepted history on disk is replaced only as a whole and by         *)
(* strictly more work, whatever nodes, failures and stops interleave       *)
(* (stn_storage_create, _extend, _apply and _adopt over one provider).     *)
Ledger == INSTANCE Accepted
    WITH ledger <- file.blocks, intact <- file.kind # "damaged"
HistoryOnlyGrows == Ledger!Spec

(* Memory changes only after replacement succeeded: when a node's state    *)
(* becomes one that shows a history, that history is the one on disk, or   *)
(* what the medium has left of it (the stn_chain_state_move that ends each *)
(* storage call).                                                          *)
DurableBeforeVisible ==
    [][\A n \in Nodes : active'[n] \notin {active[n], <<>>} =>
        /\ file.kind = "good" => file.blocks = active'[n]
        /\ \E k \in 0..Len(active'[n]) : file.blocks = Prefix(active'[n], k)]_vars

(* A staging file that a stopped or failed call left behind is neither     *)
(* written, promoted nor removed by any later call, and no call publishes  *)
(* while it stands; only the operator removes it (replace_snapshot opens   *)
(* staging exclusively and cleans up only what it created).                *)
LeftStagingFailsClosed ==
    [][stage = "left" /\ ~RemoveStaging =>
        /\ stage' = "left"
        /\ file'.kind = "good" => file' = file]_vars

(* A call that has taken the lock to write gives it back, whichever        *)
(* provider call fails (p->release at the end of every storage call).      *)
LockReturns == \A n \in Nodes : owner = n ~> owner # n
==============================================================================
