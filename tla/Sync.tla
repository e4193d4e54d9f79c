--------------------------------- MODULE Sync ---------------------------------
(***************************************************************************)
(* How one node's accepted history meets other histories: the outbound     *)
(* lane that fetches a peer's history (stn_peer.c over stn_linux_peer.c)   *)
(* and the suffixes that RPC sessions stage and commit (stn_mining.c).     *)
(*                                                                         *)
(* A lane step holds the dispatch lock from connection to adoption, so RPC *)
(* requests and the miner run only while the lane is idle.  Peers run the  *)
(* same server: a session answers from the snapshot it loaded at connect.  *)
(* An unstable peer answers each request from another history.  One action *)
(* is one exchange; Stall is the part of an answer that arrives alone.     *)
(* Storage is the accepted history itself here (module Store), and a step  *)
(* it fails ends like any other failed step.                               *)
(***************************************************************************)
EXTENDS Histories, FiniteSets

CONSTANTS
    Rewarded,     \* blocks that carry block-compensation evidence
    Endpoints,    \* numbers, in the order of address and port
    Configured,   \* the candidates of the command line
    Own,          \* the endpoint that reaches this node itself
    Self,         \* endpoints the lane was told are its own
    Known,        \* what the peers that answer discovery have configured
    Foreign,      \* peers of another network
    Unstable,     \* peers whose answers do not come from one snapshot
    CandidateMax, PageSize, MaxBlocks,
    Clients, Targets, NoStage, MaxStage

ASSUME SyncAssumption ==
    /\ Endpoints \subseteq Nat /\ IsFiniteSet(Endpoints)
    /\ CandidateMax \in Nat /\ PageSize \in Nat /\ MaxBlocks \in Nat /\ MaxStage \in Nat
    /\ Configured \subseteq Endpoints /\ Own \in Endpoints /\ Self \subseteq Endpoints
    /\ Configured # {} /\ Cardinality(Configured) <= CandidateMax
    /\ \A p \in DOMAIN Known : Known[p] \subseteq Endpoints
    /\ Rewarded \subseteq Blocks /\ Targets \subseteq Valid

VARIABLES
    local,        \* the accepted history
    candidates,   \* endpoints the lane may try
    next,         \* how many of them precede the selected one
    conn,         \* the connection, with the server's side of it
    lane,         \* the running step
    stage,        \* what each RPC session has staged
    meant         \* the history each session's client is staging

sessions == <<stage, meant>>
vars == <<local, candidates, next, conn, lane, sessions>>

Closed == [open |-> FALSE]
Idle == [at |-> "idle"]
Asking == {"hello", "state", "headers", "block", "peers"}

Init ==
    /\ local = <<Genesis>>
    /\ candidates = Configured
    /\ next = 0
    /\ conn = Closed
    /\ lane = Idle
    /\ stage = [c \in Clients |-> NoStage]
    /\ meant = [c \in Clients |-> NoStage]

-----------------------------------------------------------------------------
(* Candidates are kept in order, so an index is a number of smaller ones. *)
Rank(e, set) == Cardinality({x \in set : x < e})
Selected == CHOOSE e \in candidates : Rank(e, candidates) = next

(* The whole answer or nothing; an endpoint already there takes no room. *)
Admit(set, told) ==
    LET merged == set \cup (told \ Self) IN
    IF Cardinality(merged) <= CandidateMax THEN merged ELSE set

(* The server's answer exists; otherwise it refuses and closes. *)
Serves(q) ==
    \/ q.type = "hello" /\ ~conn.greeted /\ conn.peer \notin Foreign
    \/ /\ conn.greeted
       /\ \/ q.type = "state"
          \/ q.type = "peers" /\ conn.peer \in DOMAIN Known /\ ~conn.told
          \/ q.type = "headers" /\ q.start < Len(conn.view)
             /\ q.num \in 1..PageSize /\ q.num <= Len(conn.view) - q.start
          \/ q.type = "block" /\ q.start < Len(conn.view)

(* Histories the peer may answer this request from. *)
Sources == IF conn.peer \in Unstable THEN Valid ELSE {conn.view}

(* The blocks got so far are local ones, whose bytes need not be fetched. *)
Matching == Len(lane.got) <= Len(local) /\ lane.got = Prefix(local, Len(lane.got))

Reusable ==
    LET i == Len(lane.got) + 1 IN
    Matching /\ i <= Len(local) /\ lane.headers[i] = local[i]

(* An answer is outstanding: a block of the local history is not asked for. *)
Waiting == lane.at \in Asking /\ ~(lane.at = "block" /\ Reusable)

-----------------------------------------------------------------------------
(* Every failure closes the connection and selects the next candidate. *)
FailFault ==
    /\ conn' = Closed
    /\ lane' = Idle
    /\ UNCHANGED <<local, candidates, next, sessions>>

Fail ==
    /\ conn' = Closed
    /\ lane' = Idle
    /\ next' = (next + 1) % Cardinality(candidates)
    /\ UNCHANGED <<local, candidates, sessions>>

OpenFails == lane.at = "idle" /\ ~conn.open /\ Fail

Step(at, fresh) ==
    [at |-> at, fresh |-> fresh, part |-> FALSE, count |-> 0,
     headers |-> <<>>, got |-> <<>>]

(* Setting up the new socket clears the deadline the worker has just set. *)
Connect(h) ==
    /\ lane.at = "idle"
    /\ ~conn.open
    /\ Selected = Own => h = local
    /\ conn' = [open |-> TRUE, peer |-> Selected, view |-> h, greeted |-> FALSE,
                told |-> FALSE, deadline |-> FALSE]
    /\ lane' = Step("hello", TRUE)
    /\ UNCHANGED <<local, candidates, next, sessions>>

Refresh ==
    /\ lane.at = "idle"
    /\ conn.open
    /\ conn' = [conn EXCEPT !.deadline = TRUE]
    /\ lane' = Step("state", FALSE)
    /\ UNCHANGED <<local, candidates, next, sessions>>

Stall ==
    /\ Waiting
    /\ ~lane.part
    /\ lane' = [lane EXCEPT !.part = TRUE]
    /\ UNCHANGED <<local, candidates, next, conn, sessions>>

(* Nothing arrives in time.  Once part of a frame has, only the deadline   *)
(* of the step ends the wait.                                              *)
Expire ==
    /\ Waiting
    /\ lane.part => conn.deadline
    /\ Fail

(* The peer breaks the connection or its server refuses. *)
Disconnect == Waiting /\ Fail

Goes(at) == lane' = [lane EXCEPT !.at = at, !.part = FALSE]

Hello ==
    /\ lane.at = "hello"
    /\ Serves([type |-> "hello"])
    /\ conn' = [conn EXCEPT !.greeted = TRUE]
    /\ Goes("state")
    /\ UNCHANGED <<local, candidates, next, sessions>>

(* The count bounds the span table; more than fits ends the step. *)
State(h) ==
    /\ lane.at = "state"
    /\ Serves([type |-> "state"])
    /\ h \in Sources
    /\ IF Len(h) > MaxBlocks THEN Fail
       ELSE /\ lane' = [lane EXCEPT !.at = "headers", !.part = FALSE, !.count = Len(h)]
            /\ UNCHANGED <<local, candidates, next, conn, sessions>>

Headers(h) ==
    LET start == Len(lane.headers)
        rest == lane.count - start
        num == IF rest > PageSize THEN PageSize ELSE rest
    IN /\ lane.at = "headers"
       /\ Serves([type |-> "headers", start |-> start, num |-> num])
       /\ h \in Sources
       /\ start + num <= Len(h)
       /\ lane' = [lane EXCEPT !.at = "block", !.part = FALSE,
                               !.headers = @ \o SubSeq(h, start + 1, start + num)]
       /\ UNCHANGED <<local, candidates, next, conn, sessions>>

-----------------------------------------------------------------------------
(* The block must be the one its header named, and the blocks so far a     *)
(* history reconstruction accepts.                                         *)
Take(b) ==
    LET got == Append(lane.got, b) IN
    IF b # lane.headers[Len(got)] \/ got \notin Valid
    THEN Fail
    ELSE /\ lane' = [lane EXCEPT !.got = got, !.part = FALSE,
                     !.at = IF Len(got) < Len(lane.headers) THEN "block"
                            ELSE IF Len(got) < lane.count THEN "headers"
                            ELSE "adopt"]
         /\ UNCHANGED <<local, candidates, next, conn, sessions>>

Reuse ==
    /\ lane.at = "block"
    /\ Reusable
    /\ Take(local[Len(lane.got) + 1])

Block(h) ==
    LET i == Len(lane.got) + 1 IN
    /\ lane.at = "block"
    /\ ~Reusable
    /\ Serves([type |-> "block", start |-> i - 1])
    /\ h \in Sources
    /\ i <= Len(h)
    /\ Take(h[i])

(* The pending pool is always attached here, and its inclusion scan is the *)
(* plain one: it refuses any block with block-compensation evidence.       *)
Scanned == \A i \in DOMAIN lane.got : lane.got[i] \notin Rewarded

BetterFault(h) == Len(h) > Len(local)
Better(h) == Prefers(h, local)

(* The step succeeded, whether or not the history was preferred. *)
Succeeds ==
    IF lane.fresh /\ conn.peer \in DOMAIN Known THEN Goes("peers") ELSE lane' = Idle

Adopt ==
    /\ lane.at = "adopt"
    /\ IF ~Scanned THEN Fail
       ELSE /\ local' = IF Better(lane.got) THEN lane.got ELSE local
            /\ Succeeds
            /\ UNCHANGED <<candidates, next, conn, sessions>>

(* Storage refuses: the provider is busy or fails. *)
StorageFails == lane.at = "adopt" /\ Fail

Told(told) == conn.peer \notin Unstable => told = Known[conn.peer]

(* Insertion may shift the selected endpoint: it is looked up again. *)
PeersFault(told) ==
    /\ lane.at = "peers"
    /\ Serves([type |-> "peers"])
    /\ Told(told)
    /\ candidates' = Admit(candidates, told)
    /\ conn' = [conn EXCEPT !.told = TRUE]
    /\ lane' = Idle
    /\ UNCHANGED <<local, next, sessions>>

Peers(told) ==
    /\ lane.at = "peers"
    /\ Serves([type |-> "peers"])
    /\ Told(told)
    /\ candidates' = Admit(candidates, told)
    /\ next' = Rank(conn.peer, candidates')
    /\ conn' = [conn EXCEPT !.told = TRUE]
    /\ lane' = Idle
    /\ UNCHANGED <<local, sessions>>

-----------------------------------------------------------------------------
(* RPC requests and the miner, between lane steps.  A session's stage is   *)
(* swapped into the service for the request and back after it.             *)
Requests == lane.at = "idle" /\ UNCHANGED <<candidates, next, conn, lane>>

(* Fault: the service's one stage is used, as before sessions had theirs.  *)
SlotFault(c) == CHOOSE d \in Clients : TRUE
Slot(c) == c

Staged(c) == stage[Slot(c)]

(* The client chooses a history and where its own view of the accepted one *)
(* leaves it, which may be out of date.                                    *)
Begin(c, h, k) ==
    /\ Requests
    /\ k \in 1..Len(local)
    /\ k < Len(h) /\ Len(h) - k <= MaxStage
    /\ meant[c] = NoStage
    /\ meant' = [meant EXCEPT ![c] = h]
    /\ stage' = [stage EXCEPT ![Slot(c)] =
        [prefix |-> k, expected |-> Len(h) - k, blocks |-> <<>>]]
    /\ UNCHANGED local

(* The next n blocks: in order, and whole or not at all. *)
StageBlocks(c, n) ==
    LET from == Staged(c).prefix + Len(Staged(c).blocks)
    IN /\ Requests
       /\ meant[c] # NoStage /\ Staged(c) # NoStage
       /\ n \in 1..(Staged(c).expected - Len(Staged(c).blocks))
       /\ from + n <= Len(meant[c])
       /\ stage' = [stage EXCEPT ![Slot(c)].blocks =
            @ \o SubSeq(meant[c], from + 1, from + n)]
       /\ UNCHANGED <<local, meant>>

(* The suffix is validated from state alone, which cannot decide evidence  *)
(* about older blocks.                                                     *)
SuffixOK(k, h) ==
    k <= Len(local) /\ h \in Valid /\ \A i \in (k + 1)..Len(h) : h[i] \notin Deferred

DisplacesFault(k, h) == SuffixOK(k, h)
Displaces(k, h) == SuffixOK(k, h) /\ Prefers(h, local)

Clears(c) ==
    /\ stage' = [stage EXCEPT ![Slot(c)] = NoStage]
    /\ meant' = [meant EXCEPT ![c] = NoStage]

(* The staged blocks on the prefix of what is accepted now.  Before the    *)
(* last block the request is refused and the stage stays; any outcome      *)
(* after it clears the stage, and storage may refuse too.                  *)
Commit(c) ==
    LET s == Staged(c)
        h == Prefix(local, s.prefix) \o s.blocks
    IN /\ Requests
       /\ s # NoStage
       /\ Len(s.blocks) = s.expected
       /\ \/ Displaces(s.prefix, h) /\ local' = h
          \/ UNCHANGED local
       /\ Clears(c)

(* Abort, or the end of the session. *)
Abort(c) ==
    /\ Requests
    /\ Staged(c) # NoStage
    /\ Clears(c)
    /\ UNCHANGED local

(* SUBMIT_SUFFIX_EVIDENCE and SUBMIT_HISTORY_EVIDENCE: at once. *)
SubmitSuffix(h, k) ==
    /\ Requests
    /\ k < Len(h) /\ k <= Len(local) /\ Prefix(h, k) = Prefix(local, k)
    /\ Displaces(k, h)
    /\ local' = h
    /\ UNCHANGED sessions

SubmitHistory(h) ==
    /\ Requests
    /\ Prefers(h, local)
    /\ local' = h
    /\ UNCHANGED sessions

Extend(b) ==
    /\ Requests
    /\ Append(local, b) \in Valid
    /\ local' = Append(local, b)
    /\ UNCHANGED sessions

-----------------------------------------------------------------------------
(* What the worker does whatever the peer sends. *)
Worker == OpenFails \/ (\E h \in Valid : Connect(h)) \/ Refresh \/ Expire \/ Reuse \/ Adopt

(* What it does when an answer arrives. *)
Answered ==
    \/ Hello
    \/ \E h \in Valid : State(h) \/ Headers(h) \/ Block(h)
    \/ \E told \in SUBSET Endpoints : Peers(told)

Session(c) ==
    \/ \E h \in Targets : \E k \in 1..Len(h) : Begin(c, h, k)
    \/ \E n \in 1..MaxStage : StageBlocks(c, n)
    \/ Commit(c)
    \/ Abort(c)

Evidence(h) == SubmitHistory(h) \/ \E k \in 1..Len(h) : SubmitSuffix(h, k)

Next ==
    \/ Worker \/ Answered \/ Stall \/ Disconnect \/ StorageFails
    \/ \E c \in Clients : Session(c)
    \/ \E h \in Valid : Evidence(h)
    \/ \E b \in Blocks : Extend(b)

(* The worker steps again and again, polls end, and local work is done. *)
Spec == Init /\ [][Next]_vars /\ WF_vars(Worker)
==============================================================================
