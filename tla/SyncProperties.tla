---------------------------- MODULE SyncProperties ----------------------------
(***************************************************************************)
(* What synchronisation and suffix staging promise, over module Sync.      *)
(***************************************************************************)
EXTENDS Sync

Steps == [at : Asking \cup {"adopt"}, fresh : BOOLEAN, part : BOOLEAN,
          count : 0..MaxBlocks, headers : Seq(Blocks), got : Valid \cup {<<>>}]
Connections == [open : {TRUE}, peer : Endpoints, view : Valid, greeted : BOOLEAN,
                told : BOOLEAN, deadline : BOOLEAN]
StagedBlocks == [prefix : Nat, expected : 1..MaxStage, blocks : Seq(Blocks)]

(* Every variable keeps its type; the candidates stay within their bound,  *)
(* and while a connection is open the selected index names the endpoint it *)
(* was opened to (out->next in stn_peer_outbound_step).                    *)
TypeOK ==
    /\ local \in Valid
    /\ candidates \subseteq Endpoints /\ Cardinality(candidates) <= CandidateMax
    /\ next \in 0..(Cardinality(candidates) - 1)
    /\ conn = Closed \/ conn \in Connections
    /\ conn.open => conn.peer = Selected
    /\ lane = Idle \/ lane \in Steps
    /\ stage \in [Clients -> StagedBlocks \cup {NoStage}]
    /\ meant \in [Clients -> Targets \cup {NoStage}]

(* Whatever the lane, the sessions and the miner interleave, the accepted  *)
(* history is replaced only as a whole and by strictly more work           *)
(* (stn_storage_adopt, _apply and _extend behind all of them).             *)
Ledger == INSTANCE Accepted WITH ledger <- local, intact <- TRUE
HistoryOnlyGrows == [][Ledger!Next]_local

(* A lane that rests on a connection to a peer with a stable snapshot has  *)
(* nothing better to take from it: a session is kept only after a history  *)
(* was adopted or found no better (STN_PEER_OK and STN_PEER_RETAINED in    *)
(* stn_peer_outbound_step).                                                *)
SettledMeansNoBetter ==
    lane.at = "idle" /\ conn.open /\ conn.peer \notin Unstable =>
        ~Prefers(conn.view, local)

(* What a commit publishes is the history its client chose: not blocks of  *)
(* another session, and not its suffix on a prefix that was exchanged      *)
(* since it began (SUFFIX_STAGE_COMMIT and the swap in                     *)
(* stn_mining_session_handle).                                             *)
CommitsItsOwn ==
    [][\A c \in Clients : meant[c] # NoStage /\ meant'[c] = NoStage =>
        local' \in {local, meant[c]}]_vars

(* The wait of a step that only its peer can end: see StepReturns. *)
Stuck == lane.at # "idle" /\ lane.part /\ ~conn.deadline

(* Candidates cannot starve one another: every one is selected again and   *)
(* again, unless the lane stays on one connection whose steps keep ending  *)
(* (SettledMeansNoBetter says what such a step leaves).  A failure         *)
(* advances out->next, and discovery never removes or skips an endpoint.   *)
(* The one candidate that can hold the lane is a peer that breaks off      *)
(* within a frame of a fresh connection, whose step never ends.            *)
LaneMovesOn ==
    \/ \A e \in Endpoints : []<>(e \in candidates => Selected = e)
    \/ <>[](conn.open) /\ []<>(lane.at = "idle")
    \/ <>[]Stuck

(* docs/PEER_PROTOCOL.md: "An optional operation deadline bounds automatic *)
(* outbound I/O, including partial frames".  On Linux the setup of a new   *)
(* socket clears it, and a step that has received part of a frame waits    *)
(* without end, holding the dispatch lock.                                 *)
StepReturns == lane.at # "idle" ~> lane.at = "idle"

(* docs/PEER_PROTOCOL.md: "Only locally validated canonical blocks and     *)
(* calculated cumulative work determine preference."  With a pool attached *)
(* stn_peer.c refuses every history that contains a block reward.          *)
PreferredAdopted == [][Adopt /\ Better(lane.got) => local' = lane.got]_vars
==============================================================================
