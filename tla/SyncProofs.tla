------------------------------ MODULE SyncProofs ------------------------------
(***************************************************************************)
(* Theorems about synchronisation and suffix staging, for any endpoints,   *)
(* peers, histories and sessions.  The invariant ties what the lane has    *)
(* fetched to the history its peer shows, and what a session has staged to *)
(* the history its client chose.                                           *)
(***************************************************************************)
EXTENDS SyncProperties, FiniteSetTheorems, SequenceTheorems, TLAPS

(* A running step has a connection; what it has of headers and blocks      *)
(* agrees, and from a peer with one snapshot it is a part of that.         *)
Fetching == {"headers", "block", "adopt"}
Steady == conn.peer \notin Unstable
LaneInv ==
    lane # Idle =>
        /\ conn \in Connections
        /\ lane.at \in {"hello", "state"} => lane.headers = <<>> /\ lane.got = <<>>
        /\ lane.at \in Fetching => Len(lane.headers) <= lane.count
        /\ lane.at = "headers" => Len(lane.got) = Len(lane.headers)
        /\ lane.at = "block" => Len(lane.got) < Len(lane.headers)
        /\ lane.at = "adopt" => lane.got \in Valid /\ Len(lane.got) = lane.count
        /\ Steady /\ lane.at \in Fetching =>
              /\ lane.count = Len(conn.view)
              /\ lane.headers = Prefix(conn.view, Len(lane.headers))
              /\ lane.got = Prefix(conn.view, Len(lane.got))
        /\ Steady /\ lane.at = "peers" => ~Prefers(conn.view, local)

(* What a session has staged is the part of its client's history that      *)
(* follows the prefix, up to what is still expected.                       *)
StageInv ==
    \A c \in Clients : (stage[c] # NoStage /\ meant[c] # NoStage) =>
        /\ stage[c].prefix + stage[c].expected = Len(meant[c])
        /\ Len(stage[c].blocks) <= stage[c].expected
        /\ stage[c].blocks = SubSeq(meant[c], stage[c].prefix + 1,
                                    stage[c].prefix + Len(stage[c].blocks))

SyncInv == TypeOK /\ LaneInv /\ SettledMeansNoBetter /\ StageInv

-----------------------------------------------------------------------------
(* A valid history is a nonempty sequence of blocks with a weight.         *)
LEMMA ValidSeq ==
    ASSUME NEW h \in Valid
    PROVE  h \in Seq(Blocks) /\ h # <<>> /\ Len(h) \in Nat /\ Len(h) > 0 /\ Work[h] \in Nat
  <1>1. h \in Seq(Blocks) /\ h # <<>>
    BY HistoriesAssumption
  <1>2. Work[h] \in Nat
    BY HistoriesAssumption
  <1> QED
    BY <1>1, <1>2

(* An extension outweighs what it extends (stn_storage_extend runs no fork *)
(* choice).                                                                *)
LEMMA ExtensionPrefers ==
    ASSUME NEW h \in Valid, NEW b \in Blocks, Append(h, b) \in Valid
    PROVE  Prefers(Append(h, b), h)
  <1>1. h \in Seq(Blocks) /\ h # <<>> /\ Len(h) > 0
    BY ValidSeq
  <1>2. Len(h) \in 1..(Len(Append(h, b)) - 1) /\ Prefix(Append(h, b), Len(h)) = h
    BY <1>1 DEF Prefix
  <1>3. Work[Prefix(Append(h, b), Len(h))] < Work[Append(h, b)]
    BY <1>2, HistoriesAssumption
  <1> QED
    BY <1>2, <1>3, ValidSeq DEF Prefers

(* Fork choice is transitive: what does not beat a history does not beat   *)
(* one that outweighs it (stn_work_order).                                 *)
LEMMA StaysBeaten ==
    ASSUME NEW h \in Valid, NEW old \in Valid, NEW new \in Valid,
           ~Prefers(h, old), new = old \/ Prefers(new, old)
    PROVE  ~Prefers(h, new)
  BY ValidSeq DEF Prefers

-----------------------------------------------------------------------------
(* The candidates are kept in order: an index and the endpoint it names.   *)

(* A later endpoint has a higher index (the comparison of                  *)
(* stn_peer_candidate_add).                                                *)
LEMMA RankOrder ==
    ASSUME NEW S \in SUBSET Nat, IsFiniteSet(S), NEW e \in S, NEW f \in S, e < f
    PROVE  Rank(e, S) < Rank(f, S)
  <1> DEFINE B(x) == {y \in S : y < x}
  <1>1. IsFiniteSet(B(f)) /\ B(e) \in SUBSET B(f)
    <2>1. B(f) \in SUBSET S
      OBVIOUS
    <2>2. \A y \in S : y < e => y < f
      OBVIOUS
    <2>3. B(e) \in SUBSET B(f)
      BY <2>2
    <2> QED
      BY <2>1, <2>3, FS_Subset
  <1>2. e \in B(f) /\ e \notin B(e)
    OBVIOUS
  <1>3. /\ IsFiniteSet(B(e))
        /\ Cardinality(B(e)) <= Cardinality(B(f))
        /\ Cardinality(B(f)) # Cardinality(B(e))
    BY <1>1, <1>2, FS_Subset
  <1>4. Cardinality(B(e)) \in Nat /\ Cardinality(B(f)) \in Nat
    BY <1>1, <1>3, FS_CardinalityType
  <1> QED
    BY <1>3, <1>4 DEF Rank

(* An index is below the number of candidates (out->next < out->count).    *)
LEMMA RankBound ==
    ASSUME NEW S \in SUBSET Nat, IsFiniteSet(S), NEW e \in S
    PROVE  Cardinality(S) \in Nat /\ Rank(e, S) \in 0..(Cardinality(S) - 1)
  <1> DEFINE B == {y \in S : y < e}
  <1>1. B \in SUBSET S /\ e \notin B
    OBVIOUS
  <1>2. /\ IsFiniteSet(B)
        /\ Cardinality(B) <= Cardinality(S)
        /\ Cardinality(S) # Cardinality(B)
    BY <1>1, FS_Subset
  <1>3. Cardinality(B) \in Nat /\ Cardinality(S) \in Nat
    BY <1>2, FS_CardinalityType
  <1> QED
    BY <1>2, <1>3 DEF Rank

(* Two candidates have different indices.                                  *)
LEMMA RankInjective ==
    ASSUME NEW S \in SUBSET Nat, IsFiniteSet(S), NEW e \in S, NEW f \in S,
           Rank(e, S) = Rank(f, S)
    PROVE  e = f
  <1>1. Rank(e, S) \in Int
    BY RankBound
  <1>2. ~(e < f) /\ ~(f < e)
    BY <1>1, RankOrder
  <1> QED
    BY <1>2

(* Every index below the number of candidates names one.                   *)
LEMMA RankOnto ==
    ASSUME NEW S \in SUBSET Nat, IsFiniteSet(S), NEW n \in 0..(Cardinality(S) - 1)
    PROVE  \E e \in S : Rank(e, S) = n
  <1> DEFINE m == Cardinality(S)
             T == 0..(m - 1)
             r == [e \in S |-> Rank(e, S)]
  <1>1. m \in Nat
    BY FS_CardinalityType
  <1>2. IsFiniteSet(T) /\ Cardinality(T) = m
    BY <1>1, FS_Interval
  <1>3. r \in Injection(S, T)
    <2>1. r \in [S -> T]
      BY RankBound
    <2>2. \A a, b \in S : r[a] = r[b] => a = b
      BY RankInjective
    <2> QED
      BY <2>1, <2>2 DEF Injection, IsInjective
  <1>4. r \in Surjection(S, T)
    BY <1>2, <1>3, FS_Injection
  <1>5. PICK e \in S : r[e] = n
    BY <1>4 DEF Surjection
  <1> QED
    BY <1>5

(* The endpoint that an index names (out->next in stn_peer_outbound_step). *)
At(S, n) == CHOOSE e \in S : Rank(e, S) = n

(* That endpoint is a candidate, and the only one with the index.          *)
LEMMA AtIndex ==
    ASSUME NEW S \in SUBSET Nat, IsFiniteSet(S), NEW n \in 0..(Cardinality(S) - 1)
    PROVE  /\ At(S, n) \in S
           /\ \A e \in S : Rank(e, S) = n => e = At(S, n)
  <1>1. At(S, n) \in S /\ Rank(At(S, n), S) = n
    BY RankOnto DEF At
  <1> QED
    BY <1>1, RankInjective

-----------------------------------------------------------------------------
(* The selected endpoint exists, and the candidates can be counted.        *)
LEMMA SelectedOne ==
    ASSUME TypeOK
    PROVE  /\ candidates \in SUBSET Nat /\ IsFiniteSet(candidates)
           /\ Cardinality(candidates) \in Nat /\ Cardinality(candidates) > 0
           /\ Selected = At(candidates, next)
           /\ Selected \in candidates /\ Selected \in Endpoints
  <1>1. candidates \in SUBSET Endpoints /\ next \in 0..(Cardinality(candidates) - 1)
    BY DEF TypeOK
  <1>2. candidates \in SUBSET Nat /\ IsFiniteSet(candidates)
    BY <1>1, SyncAssumption, FS_Subset
  <1>3. Cardinality(candidates) \in Nat
    BY <1>2, FS_CardinalityType
  <1>4. Selected = At(candidates, next)
    BY DEF Selected, At
  <1>5. At(candidates, next) \in candidates
    BY <1>1, <1>2, AtIndex
  <1>6. Cardinality(candidates) > 0
    BY <1>1, <1>3
  <1> QED
    BY <1>1, <1>2, <1>3, <1>4, <1>5, <1>6

(* A step that is not idle has the shape of a running one.                 *)
LEMMA Running ==
    ASSUME TypeOK, lane.at # "idle"
    PROVE  lane \in Steps /\ lane # Idle
  BY DEF TypeOK, Idle

(* An idle lane is not a running step.                                     *)
LEMMA Resting ==
    ASSUME TypeOK, lane.at = "idle"
    PROVE  lane = Idle
  <1>1. \A s \in Steps : s.at # "idle"
    BY DEF Steps, Asking
  <1> QED
    BY <1>1 DEF TypeOK

(* A lane that moves on within its connection keeps everything but what is *)
(* said of the lane itself.                                                *)
LEMMA LaneMoves ==
    ASSUME SyncInv, lane' \in Steps, LaneInv',
           UNCHANGED <<local, candidates, next, conn, sessions>>
    PROVE  SyncInv'
  <1>1. lane'.at # "idle"
    BY DEF Steps, Asking
  <1>2. TypeOK'
    BY DEF SyncInv, TypeOK, Selected, sessions
  <1>3. SettledMeansNoBetter'
    BY <1>1 DEF SettledMeansNoBetter
  <1>4. StageInv'
    BY DEF SyncInv, StageInv, sessions
  <1> QED
    BY <1>2, <1>3, <1>4 DEF SyncInv

(* A step that fails closes the connection and selects the next candidate  *)
(* (stn_linux_peer_close, and out->next in stn_peer_outbound_step).        *)
LEMMA FailStep ==
    ASSUME SyncInv, Fail
    PROVE  SyncInv'
  <1>1. /\ Cardinality(candidates) \in Nat /\ Cardinality(candidates) > 0
        /\ next \in Nat
    BY SelectedOne DEF SyncInv, TypeOK
  <1>2. next' \in 0..(Cardinality(candidates') - 1)
    BY <1>1 DEF Fail
  <1>3. TypeOK'
    BY <1>2 DEF SyncInv, TypeOK, Fail, Closed, sessions
  <1>4. LaneInv'
    BY DEF LaneInv, Fail
  <1>5. SettledMeansNoBetter'
    BY DEF SettledMeansNoBetter, Fail, Closed
  <1>6. StageInv'
    BY DEF SyncInv, StageInv, Fail, sessions
  <1> QED
    BY <1>3, <1>4, <1>5, <1>6 DEF SyncInv

(* A new connection is to the selected candidate (stn_peer_outbound_step,  *)
(* provider.connect).                                                      *)
LEMMA ConnectStep ==
    ASSUME SyncInv, NEW h \in Valid, Connect(h)
    PROVE  SyncInv'
  <1>1. Selected \in Endpoints
    BY SelectedOne DEF SyncInv
  <1>2. conn' \in Connections /\ conn'.peer = Selected /\ conn'.open
    BY <1>1 DEF Connect, Connections
  <1>3. lane' \in Steps /\ lane'.at = "hello" /\ lane'.headers = <<>> /\ lane'.got = <<>>
    <2>1. <<>> \in Seq(Blocks) /\ 0 \in 0..MaxBlocks
      BY SyncAssumption
    <2> QED
      BY <2>1 DEF Connect, Step, Steps, Asking
  <1>4. Selected' = Selected
    BY DEF Connect, Selected
  <1>5. TypeOK'
    BY <1>2, <1>3, <1>4 DEF SyncInv, TypeOK, Connect, sessions
  <1>6. LaneInv'
    BY <1>2, <1>3 DEF LaneInv, Fetching
  <1>7. SettledMeansNoBetter'
    BY <1>3 DEF SettledMeansNoBetter
  <1>8. StageInv'
    BY DEF SyncInv, StageInv, Connect, sessions
  <1> QED
    BY <1>5, <1>6, <1>7, <1>8 DEF SyncInv

(* A connection that is kept asks again from the start                     *)
(* (stn_peer_outbound_step with an open socket).                           *)
LEMMA RefreshStep ==
    ASSUME SyncInv, Refresh
    PROVE  SyncInv'
  <1>1. conn \in Connections
    BY DEF SyncInv, TypeOK, Refresh, Closed
  <1>2. conn' \in Connections /\ conn'.peer = conn.peer
    BY <1>1 DEF Refresh, Connections
  <1>3. lane' \in Steps /\ lane'.at = "state" /\ lane'.headers = <<>> /\ lane'.got = <<>>
    <2>1. <<>> \in Seq(Blocks) /\ 0 \in 0..MaxBlocks
      BY SyncAssumption
    <2> QED
      BY <2>1 DEF Refresh, Step, Steps, Asking
  <1>4. Selected' = Selected /\ conn.open
    BY DEF Refresh, Selected
  <1>5. TypeOK'
    BY <1>2, <1>3, <1>4 DEF SyncInv, TypeOK, Refresh, sessions
  <1>6. LaneInv'
    BY <1>2, <1>3 DEF LaneInv, Fetching
  <1>7. SettledMeansNoBetter'
    BY <1>3 DEF SettledMeansNoBetter
  <1>8. StageInv'
    BY DEF SyncInv, StageInv, Refresh, sessions
  <1> QED
    BY <1>5, <1>6, <1>7, <1>8 DEF SyncInv

(* Part of a frame changes nothing of what was fetched.                    *)
LEMMA StallStep ==
    ASSUME SyncInv, Stall
    PROVE  SyncInv'
  <1>1. lane \in Steps /\ lane # Idle
    BY Running DEF SyncInv, Stall, Waiting, Asking
  <1>2. /\ lane' \in Steps
        /\ lane'.at = lane.at /\ lane'.count = lane.count
        /\ lane'.headers = lane.headers /\ lane'.got = lane.got
    BY <1>1 DEF Stall, Steps
  <1>3. LaneInv'
    BY <1>1, <1>2 DEF SyncInv, LaneInv, Stall, Steady
  <1> QED
    BY <1>2, <1>3, LaneMoves DEF Stall

(* The greeting is answered (hello, sync_session).                         *)
LEMMA HelloStep ==
    ASSUME SyncInv, Hello
    PROVE  SyncInv'
  <1>1. lane \in Steps /\ lane # Idle
    BY Running DEF SyncInv, Hello
  <1>2. conn \in Connections /\ lane.headers = <<>> /\ lane.got = <<>>
    BY <1>1 DEF SyncInv, LaneInv, Hello
  <1>3. conn' \in Connections /\ conn'.peer = conn.peer /\ conn'.view = conn.view
    BY <1>2 DEF Hello, Connections
  <1>4. /\ lane' \in Steps /\ lane'.at = "state"
        /\ lane'.headers = <<>> /\ lane'.got = <<>>
    BY <1>1, <1>2 DEF Hello, Goes, Steps, Asking
  <1>5. Selected' = Selected /\ conn.open
    BY <1>2 DEF Hello, Selected, Connections
  <1>6. TypeOK'
    BY <1>3, <1>4, <1>5 DEF SyncInv, TypeOK, Hello, sessions
  <1>7. LaneInv'
    BY <1>3, <1>4 DEF LaneInv, Fetching
  <1>8. SettledMeansNoBetter'
    BY <1>4 DEF SettledMeansNoBetter
  <1>9. StageInv'
    BY DEF SyncInv, StageInv, Hello, sessions
  <1> QED
    BY <1>6, <1>7, <1>8, <1>9 DEF SyncInv

(* The count of a state answer bounds what is asked for (sync_session, its *)
(* state).                                                                 *)
LEMMA StateStep ==
    ASSUME SyncInv, NEW h \in Valid, State(h)
    PROVE  SyncInv'
  <1>1. CASE Len(h) > MaxBlocks
    BY <1>1, FailStep DEF State
  <1>2. CASE ~(Len(h) > MaxBlocks)
    <2>1. lane \in Steps /\ lane # Idle
      BY Running DEF SyncInv, State
    <2>2. conn \in Connections /\ lane.headers = <<>> /\ lane.got = <<>>
      BY <2>1 DEF SyncInv, LaneInv, State
    <2>3. Len(h) \in 0..MaxBlocks /\ Len(h) \in Nat
      BY <1>2, ValidSeq, SyncAssumption
    <2>4. /\ lane' = [lane EXCEPT !.at = "headers", !.part = FALSE, !.count = Len(h)]
          /\ UNCHANGED <<local, candidates, next, conn, sessions>>
      BY <1>2 DEF State
    <2>5. /\ lane' \in Steps /\ lane'.at = "headers" /\ lane'.count = Len(h)
          /\ lane'.headers = <<>> /\ lane'.got = <<>>
      BY <2>1, <2>2, <2>3, <2>4 DEF Steps, Asking
    <2>6. Steady => h = conn.view
      BY DEF State, Sources, Steady
    <2>7. conn.view \in Seq(Blocks)
      BY <2>2, ValidSeq DEF Connections
    <2>8. <<>> = Prefix(conn.view, Len(<<>>)) /\ Len(<<>>) = 0
      BY <2>7 DEF Prefix
    <2>9. LaneInv'
      <3>1. conn' = conn
        BY <2>4
      <3>2. conn' \in Connections /\ (Steady' <=> Steady)
        BY <2>2, <3>1 DEF Steady
      <3>3. Len(lane'.headers) <= lane'.count /\ Len(lane'.got) = Len(lane'.headers)
        BY <2>3, <2>5, <2>8
      <3>4. Steady => /\ lane'.count = Len(conn'.view)
                      /\ lane'.headers = Prefix(conn'.view, Len(lane'.headers))
                      /\ lane'.got = Prefix(conn'.view, Len(lane'.got))
        BY <2>5, <2>6, <2>8, <3>1
      <3> QED
        BY <2>5, <3>2, <3>3, <3>4 DEF LaneInv, Fetching
    <2> QED
      BY <2>4, <2>5, <2>9, LaneMoves
  <1> QED
    BY <1>1, <1>2

(* The part of a history after one place up to another, and how adjacent   *)
(* parts join (pages of headers, blocks of a suffix).                      *)
LEMMA Part ==
    ASSUME NEW h \in Seq(Blocks), NEW j \in 0..Len(h), NEW k \in j..Len(h)
    PROVE  /\ SubSeq(h, j + 1, k) \in Seq(Blocks)
           /\ Len(SubSeq(h, j + 1, k)) = k - j
           /\ \A i \in 1..(k - j) : SubSeq(h, j + 1, k)[i] = h[j + i]
  <1>1. j + 1 \in Int /\ k \in Int /\ \A i \in (j + 1)..k : h[i] \in Blocks
    BY ElementOfSeq
  <1>2. /\ SubSeq(h, j + 1, k) \in Seq(Blocks)
        /\ Len(SubSeq(h, j + 1, k)) = IF j + 1 <= k THEN k - (j + 1) + 1 ELSE 0
        /\ \A i \in 1..(k - (j + 1) + 1) : SubSeq(h, j + 1, k)[i] = h[j + 1 + i - 1]
    BY <1>1, SubSeqProperties
  <1> QED
    BY <1>2

(* Two adjacent parts of a history are one part (suffix pages in stn_peer.c). *)
LEMMA Join ==
    ASSUME NEW h \in Seq(Blocks), NEW i \in 0..Len(h), NEW j \in i..Len(h),
           NEW k \in j..Len(h)
    PROVE  SubSeq(h, i + 1, j) \o SubSeq(h, j + 1, k) = SubSeq(h, i + 1, k)
  <1>1. i + 1 \in 1..(Len(h) + 1) /\ j \in ((i + 1) - 1)..Len(h)
    OBVIOUS
  <1> QED
    BY <1>1, ConcatAdjacentSubSeq

(* A part, longer by the elements that follow it (SUFFIX_STAGE_BLOCKS).    *)
LEMMA Grown ==
    ASSUME NEW m \in Seq(Blocks), NEW p \in Nat, NEW s \in Seq(Blocks), NEW n \in Nat,
           s = SubSeq(m, p + 1, p + Len(s)), p + Len(s) + n <= Len(m)
    PROVE  LET more == s \o SubSeq(m, p + Len(s) + 1, p + Len(s) + n) IN
           /\ more \in Seq(Blocks) /\ Len(more) = Len(s) + n
           /\ more = SubSeq(m, p + 1, p + Len(s) + n)
  <1>1. Len(s) \in Nat /\ Len(m) \in Nat
    OBVIOUS
  <1>2. PICK k \in Nat : k = Len(s)
    BY <1>1
  <1>3. /\ p \in 0..Len(m) /\ p + k \in p..Len(m)
        /\ p + k \in 0..Len(m) /\ p + k + n \in (p + k)..Len(m)
        /\ p + k + n \in p..Len(m) /\ p + k + n - p = k + n
    BY <1>1, <1>2
  <1>4. SubSeq(m, p + 1, p + k) \o SubSeq(m, p + k + 1, p + k + n)
            = SubSeq(m, p + 1, p + k + n)
    BY <1>3, Join
  <1>5. /\ SubSeq(m, p + 1, p + k + n) \in Seq(Blocks)
        /\ Len(SubSeq(m, p + 1, p + k + n)) = p + k + n - p
    BY <1>3, Part
  <1> QED
    BY <1>2, <1>3, <1>4, <1>5

(* What a joined sequence ends with (the tip of a staged suffix).          *)
LEMMA LastJoined ==
    ASSUME NEW s \in Seq(Blocks), NEW t \in Seq(Blocks), Len(t) >= 1
    PROVE  Len(s \o t) = Len(s) + Len(t) /\ (s \o t)[Len(s) + Len(t)] = t[Len(t)]
  OBVIOUS

(* A page of headers continues those before it (sync_session, its          *)
(* headers).                                                               *)
LEMMA HeadersStep ==
    ASSUME SyncInv, NEW h \in Valid, Headers(h)
    PROVE  SyncInv'
  <1> DEFINE start == Len(lane.headers)
             rest == lane.count - start
             num == IF rest > PageSize THEN PageSize ELSE rest
             page == SubSeq(h, start + 1, start + num)
  <1>1. lane \in Steps /\ lane # Idle
    BY Running DEF SyncInv, Headers
  <1>2. /\ conn \in Connections /\ start <= lane.count
        /\ Len(lane.got) = start
        /\ Steady => /\ lane.count = Len(conn.view)
                     /\ lane.headers = Prefix(conn.view, start)
                     /\ lane.got = Prefix(conn.view, start)
    BY <1>1 DEF SyncInv, LaneInv, Headers, Fetching
  <1>3. /\ lane.headers \in Seq(Blocks) /\ start \in Nat /\ lane.count \in Nat
        /\ PageSize \in Nat
    BY <1>1, SyncAssumption DEF Steps
  <1>4. /\ Serves([type |-> "headers", start |-> start, num |-> num])
        /\ h \in Sources /\ start + num <= Len(h)
        /\ lane' = [lane EXCEPT !.at = "block", !.part = FALSE,
                                !.headers = @ \o page]
        /\ UNCHANGED <<local, candidates, next, conn, sessions>>
    BY DEF Headers
  <1>5. num \in 1..PageSize
    BY <1>4 DEF Serves
  <1>6. num \in Nat /\ num >= 1 /\ num <= rest
    BY <1>3, <1>5
  <1> HIDE DEF num
  <1>7. h \in Seq(Blocks) /\ conn.view \in Seq(Blocks)
    BY <1>2, ValidSeq DEF Connections
  <1>8. page \in Seq(Blocks) /\ Len(page) = num
    <2>1. start \in 0..Len(h) /\ start + num \in start..Len(h)
      BY <1>3, <1>4, <1>6, <1>7
    <2> QED
      BY <2>1, <1>3, <1>6, <1>7, Part
  <1>9. lane.headers \o page \in Seq(Blocks) /\ Len(lane.headers \o page) = start + num
    BY <1>3, <1>8, ConcatProperties
  <1>10. /\ lane' \in Steps /\ lane'.at = "block" /\ lane'.count = lane.count
         /\ lane'.headers = lane.headers \o page /\ lane'.got = lane.got
    BY <1>1, <1>4, <1>9 DEF Steps, Asking
  <1>11. ASSUME Steady
         PROVE  lane.headers \o page = Prefix(conn.view, start + num)
    <2>1. h = conn.view
      BY <1>4, <1>11 DEF Sources, Steady
    <2>2. 0 \in 0..Len(h) /\ start \in 0..Len(h) /\ start + num \in start..Len(h)
      BY <1>3, <1>4, <1>6, <1>7
    <2>3. SubSeq(h, 0 + 1, start) \o page = SubSeq(h, 0 + 1, start + num)
      BY <2>2, <1>7, Join
    <2>4. 0 + 1 = 1
      OBVIOUS
    <2>5. Prefix(h, start) \o page = Prefix(h, start + num)
      BY <2>3, <2>4, Zenon DEF Prefix
    <2>6. lane.headers = Prefix(h, start)
      BY <1>2, <1>11, <2>1
    <2> QED
      BY <2>1, <2>5, <2>6
  <1>12. LaneInv'
    <2>1. conn' = conn /\ (Steady' <=> Steady)
      BY <1>4 DEF Steady
    <2>2. Len(lane'.headers) <= lane'.count /\ Len(lane'.got) < Len(lane'.headers)
      BY <1>2, <1>3, <1>6, <1>9, <1>10
    <2>3. Steady => /\ lane'.count = Len(conn'.view)
                    /\ lane'.headers = Prefix(conn'.view, Len(lane'.headers))
                    /\ lane'.got = Prefix(conn'.view, Len(lane'.got))
      BY <1>2, <1>9, <1>10, <1>11, <2>1
    <2> QED
      BY <1>2, <1>10, <2>1, <2>2, <2>3 DEF LaneInv, Fetching
  <1> QED
    BY <1>4, <1>10, <1>12, LaneMoves

(* A block is kept when it is the one its header named and the history     *)
(* still reconstructs (sync_session).                                      *)
LEMMA TakeStep ==
    ASSUME SyncInv, lane.at = "block", NEW b, Take(b)
    PROVE  SyncInv'
  <1> DEFINE got == Append(lane.got, b)
  <1>1. CASE b # lane.headers[Len(got)] \/ got \notin Valid
    BY <1>1, FailStep DEF Take
  <1>2. CASE ~(b # lane.headers[Len(got)] \/ got \notin Valid)
    <2>1. lane \in Steps /\ lane # Idle
      BY Running DEF SyncInv
    <2>2. /\ conn \in Connections
          /\ Len(lane.headers) <= lane.count
          /\ Len(lane.got) < Len(lane.headers)
          /\ Steady => /\ lane.count = Len(conn.view)
                       /\ lane.headers = Prefix(conn.view, Len(lane.headers))
                       /\ lane.got = Prefix(conn.view, Len(lane.got))
      BY <2>1 DEF SyncInv, LaneInv, Fetching
    <2>3. /\ lane' = [lane EXCEPT !.got = got, !.part = FALSE,
                        !.at = IF Len(got) < Len(lane.headers) THEN "block"
                               ELSE IF Len(got) < lane.count THEN "headers"
                               ELSE "adopt"]
          /\ UNCHANGED <<local, candidates, next, conn, sessions>>
      BY <1>2 DEF Take
    <2>4. /\ lane.got \in Seq(Blocks) /\ Len(lane.got) \in Nat
          /\ lane.headers \in Seq(Blocks) /\ Len(lane.headers) \in Nat
          /\ lane.count \in Nat
      <3>1. lane.got = <<>> \/ lane.got \in Valid
        BY <2>1 DEF Steps
      <3>2. lane.got \in Valid => lane.got \in Seq(Blocks)
        BY ValidSeq
      <3>3. <<>> \in Seq(Blocks)
        OBVIOUS
      <3>4. lane.got \in Seq(Blocks)
        BY <3>1, <3>2, <3>3
      <3> QED
        BY <2>1, <3>4, SyncAssumption DEF Steps
    <2>5. Len(got) = Len(lane.got) + 1 /\ got \in Valid /\ b = lane.headers[Len(got)]
      BY <1>2, <2>4
    <2> HIDE DEF got
    <2>6. /\ lane' \in Steps
          /\ lane'.headers = lane.headers /\ lane'.got = got /\ lane'.count = lane.count
          /\ lane'.at = IF Len(got) < Len(lane.headers) THEN "block"
                        ELSE IF Len(got) < lane.count THEN "headers" ELSE "adopt"
      BY <2>1, <2>3, <2>5 DEF Steps, Asking
    <2>7. ASSUME Steady
          PROVE  got = Prefix(conn.view, Len(got))
      <3> DEFINE v == conn.view
                 n == Len(lane.got)
      <3>1. v \in Seq(Blocks) /\ n \in Nat /\ n + 1 <= Len(v)
        BY <2>2, <2>4, <2>7, ValidSeq DEF Connections
      <3>2. n + 1 \in 1..Len(lane.headers) /\ Len(lane.headers) <= Len(v)
        BY <2>2, <2>4, <2>7
      <3>3. lane.headers = SubSeq(v, 0 + 1, Len(lane.headers)) /\ 0 \in 0..Len(v)
            /\ Len(lane.headers) \in 0..Len(v)
        BY <2>2, <2>4, <2>7, <3>1, <3>2 DEF Prefix
      <3>4. lane.headers[n + 1] = v[n + 1]
        BY <3>1, <3>2, <3>3, Part
      <3>5. b = v[n + 1]
        BY <2>5, <3>4
      <3>6. lane.got = SubSeq(v, 1, n)
        BY <2>2, <2>7 DEF Prefix
      <3>7. Append(SubSeq(v, 1, n), v[n + 1]) = SubSeq(v, 1, n + 1)
        BY <3>1
      <3> QED
        BY <2>5, <3>5, <3>6, <3>7 DEF Prefix, got
    <2>8. LaneInv'
      <3>1. conn' = conn /\ (Steady' <=> Steady)
        BY <2>3 DEF Steady
      <3>2. /\ lane'.at \in Fetching
            /\ Len(lane'.headers) <= lane'.count
            /\ lane'.at = "headers" => Len(lane'.got) = Len(lane'.headers)
            /\ lane'.at = "block" => Len(lane'.got) < Len(lane'.headers)
            /\ lane'.at = "adopt" => lane'.got \in Valid /\ Len(lane'.got) = lane'.count
        BY <2>2, <2>4, <2>5, <2>6 DEF Fetching
      <3>3. Steady => /\ lane'.count = Len(conn'.view)
                      /\ lane'.headers = Prefix(conn'.view, Len(lane'.headers))
                      /\ lane'.got = Prefix(conn'.view, Len(lane'.got))
        BY <2>2, <2>6, <2>7, <3>1
      <3> QED
        BY <2>2, <3>1, <3>2, <3>3 DEF LaneInv, Fetching
    <2> QED
      BY <2>3, <2>6, <2>8, LaneMoves
  <1> QED
    BY <1>1, <1>2

(* The lane keeps or replaces the accepted history, and rests on its       *)
(* connection or asks for peers (the commit in sync_session).              *)
LEMMA AdoptStep ==
    ASSUME SyncInv, Adopt
    PROVE  SyncInv'
  <1>1. CASE ~Scanned
    BY <1>1, FailStep DEF Adopt
  <1>2. CASE Scanned
    <2>1. lane \in Steps /\ lane # Idle
      BY Running DEF SyncInv, Adopt
    <2>2. /\ conn \in Connections /\ lane.got \in Valid
          /\ Steady => lane.got = conn.view
      <3>1. /\ conn \in Connections /\ lane.got \in Valid /\ Len(lane.got) = lane.count
            /\ Steady => /\ lane.count = Len(conn.view)
                         /\ lane.got = Prefix(conn.view, Len(lane.got))
        BY <2>1 DEF SyncInv, LaneInv, Adopt, Fetching
      <3>2. conn.view \in Seq(Blocks)
        BY <3>1, ValidSeq DEF Connections
      <3>3. Prefix(conn.view, Len(conn.view)) = conn.view
        BY <3>2, SubSeqFull DEF Prefix
      <3> QED
        BY <3>1, <3>3
    <2>3. /\ local' = IF Better(lane.got) THEN lane.got ELSE local
          /\ Succeeds
          /\ UNCHANGED <<candidates, next, conn, sessions>>
      BY <1>2 DEF Adopt
    <2>4. local \in Valid /\ local' \in Valid
      BY <2>2, <2>3 DEF SyncInv, TypeOK
    <2>5. Steady => ~Prefers(conn.view, local')
      <3>1. CASE Better(lane.got)
        BY <3>1, <2>2, <2>3, <2>4, ValidSeq DEF Prefers
      <3>2. CASE ~Better(lane.got)
        BY <3>2, <2>2, <2>3 DEF Better
      <3> QED
        BY <3>1, <3>2
    <2>6. lane' = Idle \/ (lane' \in Steps /\ lane'.at = "peers")
      BY <2>1, <2>3 DEF Succeeds, Goes, Steps, Asking
    <2>7. TypeOK'
      BY <2>3, <2>4, <2>6 DEF SyncInv, TypeOK, Selected, sessions
    <2>8. LaneInv'
      BY <2>2, <2>3, <2>5, <2>6 DEF LaneInv, Fetching, Steady
    <2>9. SettledMeansNoBetter'
      BY <2>3, <2>5, <2>6 DEF SettledMeansNoBetter, Steady
    <2>10. StageInv'
      BY <2>3 DEF SyncInv, StageInv, sessions
    <2> QED
      BY <2>7, <2>8, <2>9, <2>10 DEF SyncInv
  <1> QED
    BY <1>1, <1>2

(* Discovery adds endpoints, and the index follows the one selected        *)
(* (stn_peer_candidate_add).                                               *)
LEMMA PeersStep ==
    ASSUME SyncInv, NEW told \in SUBSET Endpoints, Peers(told)
    PROVE  SyncInv'
  <1>1. lane \in Steps /\ lane # Idle
    BY Running DEF SyncInv, Peers
  <1>2. conn \in Connections /\ (Steady => ~Prefers(conn.view, local))
    BY <1>1 DEF SyncInv, LaneInv, Peers
  <1>3. conn' \in Connections /\ conn'.peer = conn.peer /\ conn'.view = conn.view
    BY <1>2 DEF Peers, Connections
  <1>4. /\ candidates' = Admit(candidates, told)
        /\ next' = Rank(conn.peer, candidates')
        /\ lane' = Idle
        /\ UNCHANGED <<local, sessions>>
    BY DEF Peers
  <1>5. /\ candidates' \subseteq Endpoints /\ candidates \subseteq candidates'
        /\ Cardinality(candidates') <= CandidateMax
    BY <1>4 DEF Admit, SyncInv, TypeOK
  <1>6. candidates' \in SUBSET Nat /\ IsFiniteSet(candidates')
    BY <1>5, SyncAssumption, FS_Subset
  <1>7. conn.peer \in candidates'
    <2>1. conn.open /\ conn.peer = Selected
      BY <1>2 DEF SyncInv, TypeOK, Connections
    <2> QED
      BY <2>1, <1>5, SelectedOne DEF SyncInv
  <1>8. next' \in 0..(Cardinality(candidates') - 1)
    BY <1>4, <1>6, <1>7, RankBound
  <1>9. conn.peer = At(candidates', next')
    BY <1>4, <1>6, <1>7, <1>8, AtIndex
  <1>10. Selected' = At(candidates', next')
    BY DEF Selected, At
  <1>11. TypeOK'
    BY <1>3, <1>4, <1>5, <1>8, <1>9, <1>10 DEF SyncInv, TypeOK, sessions
  <1>12. LaneInv'
    BY <1>4 DEF LaneInv
  <1>13. SettledMeansNoBetter'
    BY <1>2, <1>3, <1>4 DEF SettledMeansNoBetter, Steady
  <1>14. StageInv'
    BY <1>4 DEF SyncInv, StageInv, sessions
  <1> QED
    BY <1>11, <1>12, <1>13, <1>14 DEF SyncInv

-----------------------------------------------------------------------------
(* RPC sessions and the miner, while the lane is idle.                     *)

(* The accepted history stays or is outweighed.                            *)
Grows == local' = local \/ (local' \in Valid /\ Prefers(local', local))

(* A request that keeps or raises the work leaves a settled lane settled,  *)
(* whatever it stages.                                                     *)
LEMMA RequestStep ==
    ASSUME SyncInv, Requests, Grows,
           stage' \in [Clients -> StagedBlocks \cup {NoStage}],
           meant' \in [Clients -> Targets \cup {NoStage}],
           StageInv'
    PROVE  SyncInv'
  <1>1. lane = Idle /\ UNCHANGED <<candidates, next, conn, lane>>
    BY Resting DEF SyncInv, Requests
  <1>2. TypeOK'
    BY <1>1 DEF SyncInv, TypeOK, Selected, Grows
  <1>3. LaneInv'
    BY <1>1 DEF LaneInv
  <1>4. SettledMeansNoBetter'
    <2>1. SUFFICES ASSUME conn.open, conn.peer \notin Unstable
                   PROVE  ~Prefers(conn.view, local')
      BY <1>1 DEF SettledMeansNoBetter
    <2>2. ~Prefers(conn.view, local)
      BY <1>1, <2>1 DEF SyncInv, SettledMeansNoBetter, Idle
    <2>3. conn \in Connections
      BY <2>1 DEF SyncInv, TypeOK, Closed
    <2>4. conn.view \in Valid
      BY <2>3 DEF Connections
    <2>5. local \in Valid /\ local' \in Valid
      BY DEF SyncInv, TypeOK, Grows
    <2> QED
      BY <2>2, <2>4, <2>5, StaysBeaten DEF Grows
  <1> QED
    BY <1>2, <1>3, <1>4 DEF SyncInv

(* A request that stages nothing.                                          *)
LEMMA DirectStep ==
    ASSUME SyncInv, Requests, Grows, UNCHANGED sessions
    PROVE  SyncInv'
  <1>1. /\ stage' \in [Clients -> StagedBlocks \cup {NoStage}]
        /\ meant' \in [Clients -> Targets \cup {NoStage}]
    BY DEF SyncInv, TypeOK, sessions
  <1>2. StageInv'
    BY DEF SyncInv, StageInv, sessions
  <1> QED
    BY <1>1, <1>2, RequestStep

(* A stage begins empty, on the client's view of a prefix                  *)
(* (SUFFIX_STAGE_BEGIN).                                                   *)
LEMMA BeginStep ==
    ASSUME SyncInv, NEW c \in Clients, NEW h \in Targets, NEW k \in 1..Len(h),
           Begin(c, h, k)
    PROVE  SyncInv'
  <1> DEFINE s == [prefix |-> k, expected |-> Len(h) - k, blocks |-> <<>>]
  <1>1. h \in Valid /\ Len(h) \in Nat
    BY ValidSeq, SyncAssumption
  <1>2. Requests /\ k < Len(h) /\ Len(h) - k <= MaxStage
    BY DEF Begin
  <1>3. s \in StagedBlocks
    <2>1. k \in Nat /\ Len(h) - k \in 1..MaxStage
      BY <1>1, <1>2, SyncAssumption
    <2>2. <<>> \in Seq(Blocks)
      OBVIOUS
    <2> QED
      BY <2>1, <2>2 DEF StagedBlocks
  <1>4. /\ meant' = [meant EXCEPT ![c] = h] /\ stage' = [stage EXCEPT ![c] = s]
        /\ local' = local
    BY DEF Begin, Slot
  <1>5. /\ stage \in [Clients -> StagedBlocks \cup {NoStage}]
        /\ meant \in [Clients -> Targets \cup {NoStage}]
    BY DEF SyncInv, TypeOK
  <1>6. s.prefix = k /\ s.expected = Len(h) - k /\ s.blocks = <<>>
    OBVIOUS
  <1> HIDE DEF s
  <1>7. /\ stage' \in [Clients -> StagedBlocks \cup {NoStage}]
        /\ meant' \in [Clients -> Targets \cup {NoStage}]
    BY <1>3, <1>4, <1>5
  <1>8. StageInv'
    <2> SUFFICES ASSUME NEW d \in Clients, stage'[d] # NoStage, meant'[d] # NoStage
                 PROVE  /\ stage'[d].prefix + stage'[d].expected = Len(meant'[d])
                        /\ Len(stage'[d].blocks) <= stage'[d].expected
                        /\ stage'[d].blocks
                             = SubSeq(meant'[d], stage'[d].prefix + 1,
                                      stage'[d].prefix + Len(stage'[d].blocks))
      BY DEF StageInv
    <2>1. CASE d # c
      <3>1. stage'[d] = stage[d] /\ meant'[d] = meant[d]
        BY <1>4, <1>5, <2>1
      <3> QED
        BY <3>1 DEF SyncInv, StageInv
    <2>2. CASE d = c
      <3>1. stage'[d] = s /\ meant'[d] = h
        BY <1>4, <1>5, <2>2
      <3>2. Len(<<>>) = 0
        OBVIOUS
      <3>3. s.prefix + s.expected = Len(h) /\ 0 <= s.expected
        BY <1>1, <1>2, <1>6
      <3>4. SubSeq(h, k + 1, k + 0) = <<>>
        <4>1. k + 1 \in Int /\ k + 0 \in Int /\ k + 0 < k + 1
          OBVIOUS
        <4> QED
          BY <4>1, SubSeqEmpty
      <3> QED
        BY <1>6, <3>1, <3>2, <3>3, <3>4
    <2> QED
      BY <2>1, <2>2
  <1> QED
    BY <1>2, <1>4, <1>7, <1>8, RequestStep DEF Grows

(* What is staged grows by the next blocks of the client's history         *)
(* (SUFFIX_STAGE_BLOCKS).                                                  *)
LEMMA StageBlocksStep ==
    ASSUME SyncInv, NEW c \in Clients, NEW n \in 1..MaxStage, StageBlocks(c, n)
    PROVE  SyncInv'
  <1> DEFINE s == stage[c]
             m == meant[c]
             from == s.prefix + Len(s.blocks)
             more == s.blocks \o SubSeq(m, from + 1, from + n)
  <1>1. /\ stage \in [Clients -> StagedBlocks \cup {NoStage}]
        /\ meant \in [Clients -> Targets \cup {NoStage}]
    BY DEF SyncInv, TypeOK
  <1>2. /\ Requests /\ m # NoStage /\ s # NoStage
        /\ n \in 1..(s.expected - Len(s.blocks)) /\ from + n <= Len(m)
        /\ stage' = [stage EXCEPT ![c].blocks = @ \o SubSeq(m, from + 1, from + n)]
        /\ UNCHANGED <<local, meant>>
    BY DEF StageBlocks, Staged, Slot
  <1>3. s \in StagedBlocks /\ m \in Seq(Blocks)
    <2>1. s \in StagedBlocks /\ m \in Targets
      BY <1>1, <1>2
    <2>2. m \in Valid
      BY <2>1, SyncAssumption
    <2> QED
      BY <2>1, <2>2, ValidSeq
  <1>4. /\ s.prefix \in Nat /\ s.expected \in Nat /\ s.blocks \in Seq(Blocks)
        /\ Len(s.blocks) \in Nat /\ Len(m) \in Nat /\ n \in Nat
    BY <1>3, SyncAssumption DEF StagedBlocks
  <1>5. /\ s.prefix + s.expected = Len(m)
        /\ s.blocks = SubSeq(m, s.prefix + 1, from)
    BY <1>2 DEF SyncInv, StageInv
  <1>6. from + n <= Len(m) /\ n >= 1 /\ Len(s.blocks) + n <= s.expected
    <2>1. n \in 1..(s.expected - Len(s.blocks)) /\ from + n <= Len(m)
      BY <1>2
    <2> HIDE DEF m
    <2> QED
      BY <2>1, <1>4
  <1>7. /\ more \in Seq(Blocks) /\ Len(more) = Len(s.blocks) + n
        /\ more = SubSeq(m, s.prefix + 1, from + n)
    <2> DEFINE p == s.prefix
               t == s.blocks
    <2>1. /\ m \in Seq(Blocks) /\ p \in Nat /\ t \in Seq(Blocks) /\ n \in Nat
          /\ t = SubSeq(m, p + 1, p + Len(t)) /\ p + Len(t) + n <= Len(m)
      BY <1>3, <1>4, <1>5, <1>6
    <2> HIDE DEF p, t, m
    <2>2. LET more2 == t \o SubSeq(m, p + Len(t) + 1, p + Len(t) + n) IN
            /\ more2 \in Seq(Blocks) /\ Len(more2) = Len(t) + n
            /\ more2 = SubSeq(m, p + 1, p + Len(t) + n)
      BY <2>1, Grown
    <2> QED
      BY <2>2 DEF p, t, m
  <1>8. more \in Seq(Blocks) /\ Len(more) = Len(s.blocks) + n
    BY <1>7
  <1>9. stage'[c] = [s EXCEPT !.blocks = more]
    BY <1>1, <1>2
  <1>10. \A d \in Clients \ {c} : stage'[d] = stage[d]
    BY <1>1, <1>2
  <1>11. stage' = [stage EXCEPT ![c] = [s EXCEPT !.blocks = more]]
    BY <1>2
  <1> HIDE DEF more
  <1>12. /\ stage'[c] \in StagedBlocks /\ stage'[c].blocks = more
         /\ stage'[c].prefix = s.prefix /\ stage'[c].expected = s.expected
    BY <1>3, <1>8, <1>9 DEF StagedBlocks
  <1>13. stage' \in [Clients -> StagedBlocks \cup {NoStage}]
    BY <1>1, <1>9, <1>11, <1>12
  <1>14. StageInv'
    <2> SUFFICES ASSUME NEW d \in Clients, stage'[d] # NoStage, meant'[d] # NoStage
                 PROVE  /\ stage'[d].prefix + stage'[d].expected = Len(meant'[d])
                        /\ Len(stage'[d].blocks) <= stage'[d].expected
                        /\ stage'[d].blocks
                             = SubSeq(meant'[d], stage'[d].prefix + 1,
                                      stage'[d].prefix + Len(stage'[d].blocks))
      BY DEF StageInv
    <2>1. CASE d # c
      BY <1>2, <1>10, <2>1 DEF SyncInv, StageInv
    <2>2. CASE d = c
      <3>1. Len(more) <= s.expected /\ s.prefix + Len(more) = from + n
        BY <1>4, <1>6, <1>8
      <3> QED
        BY <1>2, <1>5, <1>7, <1>12, <2>2, <3>1
    <2> QED
      BY <2>1, <2>2
  <1> QED
    BY <1>1, <1>2, <1>13, <1>14, RequestStep DEF Grows

(* The blocks a complete stage adds to any prefix of its length end where  *)
(* the client's history ends, and a tip determines its history: what such  *)
(* a commit can publish is the history its client chose                    *)
(* (SUFFIX_STAGE_COMMIT).                                                  *)
LEMMA CommitIsMeant ==
    ASSUME SyncInv, NEW c \in Clients, stage[c] # NoStage, meant[c] # NoStage,
           Len(stage[c].blocks) = stage[c].expected,
           stage[c].prefix <= Len(local),
           Prefix(local, stage[c].prefix) \o stage[c].blocks \in Valid
    PROVE  Prefix(local, stage[c].prefix) \o stage[c].blocks = meant[c]
  <1> DEFINE s == stage[c]
             m == meant[c]
             h == Prefix(local, s.prefix) \o s.blocks
  <1>1. s \in StagedBlocks /\ m \in Targets /\ local \in Valid
    BY DEF SyncInv, TypeOK
  <1>2. m \in Valid /\ local \in Seq(Blocks) /\ Len(local) \in Nat
    BY <1>1, ValidSeq, SyncAssumption
  <1>3. m \in Seq(Blocks) /\ Len(m) \in Nat
    BY <1>2, ValidSeq
  <1>4. /\ s.prefix \in Nat /\ s.expected \in 1..MaxStage /\ s.expected \in Nat
        /\ s.expected >= 1 /\ s.blocks \in Seq(Blocks) /\ Len(s.blocks) = s.expected
    BY <1>1, SyncAssumption DEF StagedBlocks
  <1>5. /\ s.prefix + s.expected = Len(m)
        /\ s.blocks = SubSeq(m, s.prefix + 1, s.prefix + s.expected)
    BY DEF SyncInv, StageInv
  <1>6. /\ 0 \in 0..Len(local) /\ s.prefix \in 0..Len(local)
        /\ s.prefix \in 0..Len(m) /\ Len(m) \in s.prefix..Len(m)
        /\ Len(m) - s.prefix = s.expected
    BY SMTT(60), <1>2, <1>3, <1>4, <1>5
  <1>7. Prefix(local, s.prefix) \in Seq(Blocks) /\ Len(Prefix(local, s.prefix)) = s.prefix
    <2>1. /\ SubSeq(local, 0 + 1, s.prefix) \in Seq(Blocks)
          /\ Len(SubSeq(local, 0 + 1, s.prefix)) = s.prefix - 0
      BY <1>2, <1>6, Part
    <2> QED
      BY <2>1, <1>4 DEF Prefix
  <1>8. /\ Len(h) = s.prefix + s.expected
        /\ h[s.prefix + s.expected] = s.blocks[s.expected]
    BY <1>4, <1>7, LastJoined
  <1>9. s.blocks[s.expected] = m[s.prefix + s.expected]
    <2>1. \A i \in 1..(Len(m) - s.prefix) :
              SubSeq(m, s.prefix + 1, Len(m))[i] = m[s.prefix + i]
      BY <1>3, <1>6, Part
    <2>2. s.expected \in 1..(Len(m) - s.prefix)
      BY <1>4, <1>6
    <2> QED
      BY <1>5, <2>1, <2>2
  <1>10. h[Len(h)] = m[Len(m)]
    BY <1>5, <1>8, <1>9
  <1> HIDE DEF h, m
  <1>11. h \in Valid
    BY DEF h
  <1>12. h = m
    BY <1>2, <1>10, <1>11, HistoriesAssumption
  <1> QED
    BY <1>12 DEF h, m

(* A commit publishes or leaves the accepted history, and clears the stage *)
(* (SUFFIX_STAGE_COMMIT).                                                  *)
LEMMA ClearsStep ==
    ASSUME SyncInv, NEW c \in Clients, Requests, Grows, Clears(c)
    PROVE  SyncInv'
  <1>1. /\ stage \in [Clients -> StagedBlocks \cup {NoStage}]
        /\ meant \in [Clients -> Targets \cup {NoStage}]
    BY DEF SyncInv, TypeOK
  <1>2. /\ stage' = [stage EXCEPT ![c] = NoStage]
        /\ meant' = [meant EXCEPT ![c] = NoStage]
    BY DEF Clears, Slot
  <1>3. /\ stage' \in [Clients -> StagedBlocks \cup {NoStage}]
        /\ meant' \in [Clients -> Targets \cup {NoStage}]
    BY <1>1, <1>2
  <1>4. \A d \in Clients : stage'[d] # NoStage =>
            stage'[d] = stage[d] /\ meant'[d] = meant[d]
    BY <1>1, <1>2
  <1>5. StageInv'
    BY <1>4 DEF SyncInv, StageInv
  <1> QED
    BY <1>3, <1>5, RequestStep

(* A commit replaces the history by more work or not at all                *)
(* (COMMIT_SUFFIX).                                                        *)
LEMMA CommitGrows ==
    ASSUME SyncInv, NEW c \in Clients, Commit(c)
    PROVE  Requests /\ Grows /\ Clears(c)
  BY DEF Commit, Displaces, SuffixOK, Grows, Staged

(* Evidence and extensions replace the history by more work or not at all  *)
(* (SUBMIT_SUFFIX_EVIDENCE, SUBMIT_HISTORY_EVIDENCE, stn_storage_extend).  *)
LEMMA SubmitGrows ==
    ASSUME SyncInv, NEW h \in Valid, Evidence(h)
    PROVE  Requests /\ Grows /\ UNCHANGED sessions
  BY DEF Evidence, SubmitHistory, SubmitSuffix, Displaces, SuffixOK, Grows

(* A block on the tip is more work (stn_storage_extend).                   *)
LEMMA ExtendGrows ==
    ASSUME SyncInv, NEW b \in Blocks, Extend(b)
    PROVE  Requests /\ Grows /\ UNCHANGED sessions
  <1>1. local \in Valid
    BY DEF SyncInv, TypeOK
  <1> QED
    BY <1>1, ExtensionPrefers DEF Extend, Grows

-----------------------------------------------------------------------------
(* The steps by their effect: on the accepted history, on what a client    *)
(* means, and on the invariant.                                            *)
OwnCommits ==
    \A c \in Clients : meant[c] # NoStage /\ meant'[c] = NoStage =>
        local' \in {local, meant[c]}

(* One lane step (stn_peer_outbound_step).                                 *)
LEMMA LaneSteps ==
    ASSUME SyncInv, Worker \/ Answered \/ Stall \/ Disconnect \/ StorageFails
    PROVE  SyncInv' /\ Grows /\ OwnCommits
  <1>1. ASSUME NEW b, lane.at = "block", Take(b)
        PROVE  SyncInv' /\ UNCHANGED <<local, sessions>>
    BY <1>1, TakeStep DEF Take, Fail
  <1>2. ASSUME Adopt
        PROVE  SyncInv' /\ Grows /\ UNCHANGED sessions
    <2>1. lane.got \in Valid
      BY <1>2, Running DEF SyncInv, LaneInv, Adopt, Fetching
    <2> QED
      BY <1>2, <2>1, AdoptStep DEF Adopt, Fail, Grows, Better
  <1>3. ASSUME NEW h \in Valid, State(h) \/ Headers(h) \/ Block(h)
        PROVE  SyncInv' /\ UNCHANGED <<local, sessions>>
    <2>1. CASE State(h)
      BY <2>1, StateStep DEF State, Fail
    <2>2. CASE Headers(h)
      BY <2>2, HeadersStep DEF Headers
    <2>3. CASE Block(h)
      BY <2>3, <1>1 DEF Block
    <2> QED
      BY <1>3, <2>1, <2>2, <2>3
  <1>4. SyncInv' /\ (Adopt \/ UNCHANGED <<local, sessions>>)
    <2>1. CASE Worker
      <3>1. CASE OpenFails
        BY <3>1, FailStep DEF OpenFails, Fail
      <3>2. CASE \E h \in Valid : Connect(h)
        BY <3>2, ConnectStep DEF Connect
      <3>3. CASE Refresh
        BY <3>3, RefreshStep DEF Refresh
      <3>4. CASE Expire
        BY <3>4, FailStep DEF Expire, Fail
      <3>5. CASE Reuse
        BY <3>5, <1>1 DEF Reuse
      <3>6. CASE Adopt
        BY <3>6, <1>2
      <3> QED
        BY <2>1, <3>1, <3>2, <3>3, <3>4, <3>5, <3>6 DEF Worker
    <2>2. CASE Answered
      <3>1. CASE Hello
        BY <3>1, HelloStep DEF Hello
      <3>2. CASE \E h \in Valid : State(h) \/ Headers(h) \/ Block(h)
        BY <3>2, <1>3
      <3>3. CASE \E told \in SUBSET Endpoints : Peers(told)
        BY <3>3, PeersStep DEF Peers
      <3> QED
        BY <2>2, <3>1, <3>2, <3>3 DEF Answered
    <2>3. CASE Stall
      BY <2>3, StallStep DEF Stall
    <2>4. CASE Disconnect \/ StorageFails
      BY <2>4, FailStep DEF Disconnect, StorageFails, Fail
    <2> QED
      BY <2>1, <2>2, <2>3, <2>4
  <1> QED
    BY <1>2, <1>4 DEF Grows, OwnCommits, sessions

(* One request, or a block of the miner.                                   *)
LEMMA RequestSteps ==
    ASSUME SyncInv,
           \/ \E c \in Clients : Session(c)
           \/ \E h \in Valid : Evidence(h)
           \/ \E b \in Blocks : Extend(b)
    PROVE  SyncInv' /\ Grows /\ OwnCommits
  <1> USE DEF OwnCommits
  <1>1. meant \in [Clients -> Targets \cup {NoStage}]
    BY DEF SyncInv, TypeOK
  <1>2. ASSUME NEW c \in Clients, NEW h \in Targets, NEW k \in 1..Len(h), Begin(c, h, k)
        PROVE  SyncInv' /\ Grows /\ OwnCommits
    <2>1. local' = local
      BY <1>2 DEF Begin
    <2> QED
      BY <1>2, <2>1, BeginStep DEF Grows
  <1>3. ASSUME NEW c \in Clients, NEW n \in 1..MaxStage, StageBlocks(c, n)
        PROVE  SyncInv' /\ Grows /\ OwnCommits
    <2>1. local' = local
      BY <1>3 DEF StageBlocks
    <2> QED
      BY <1>3, <2>1, StageBlocksStep DEF Grows
  <1>4. ASSUME NEW c \in Clients, Commit(c)
        PROVE  SyncInv' /\ Grows /\ OwnCommits
    <2>1. Requests /\ Grows /\ Clears(c)
      BY <1>4, CommitGrows
    <2>2. SyncInv'
      BY <2>1, ClearsStep
    <2>3. meant' = [meant EXCEPT ![c] = NoStage]
      BY <2>1 DEF Clears
    <2>4. meant[c] # NoStage => local' \in {local, meant[c]}
      <3>1. SUFFICES ASSUME meant[c] # NoStage, local' # local
                     PROVE  local' = meant[c]
        OBVIOUS
      <3>2. /\ stage[c] # NoStage
            /\ Len(stage[c].blocks) = stage[c].expected
            /\ local' = Prefix(local, stage[c].prefix) \o stage[c].blocks
            /\ stage[c].prefix <= Len(local)
            /\ Prefix(local, stage[c].prefix) \o stage[c].blocks \in Valid
        BY <1>4, <3>1 DEF Commit, Displaces, SuffixOK, Staged, Slot
      <3> QED
        BY <3>1, <3>2, CommitIsMeant
    <2> QED
      BY <1>1, <2>1, <2>2, <2>3, <2>4
  <1>5. ASSUME NEW c \in Clients, Abort(c)
        PROVE  SyncInv' /\ Grows /\ OwnCommits
    <2>1. Requests /\ Grows /\ Clears(c) /\ local' = local
      BY <1>5 DEF Abort, Grows
    <2> QED
      BY <2>1, ClearsStep
  <1>6. ASSUME NEW h \in Valid, Evidence(h)
        PROVE  SyncInv' /\ Grows /\ OwnCommits
    BY <1>6, SubmitGrows, DirectStep DEF sessions
  <1>7. ASSUME NEW b \in Blocks, Extend(b)
        PROVE  SyncInv' /\ Grows /\ OwnCommits
    BY <1>7, ExtendGrows, DirectStep DEF sessions
  <1> QED
    BY <1>2, <1>3, <1>4, <1>5, <1>6, <1>7 DEF Session

(* Every step of the lane and of a request together.                       *)
LEMMA NextStep ==
    ASSUME SyncInv, Next
    PROVE  SyncInv' /\ Grows /\ OwnCommits
  BY LaneSteps, RequestSteps DEF Next

-----------------------------------------------------------------------------
(* The first state: the genesis, the configured candidates, nothing open.  *)
LEMMA InitInv == Init => SyncInv
  <1> SUFFICES ASSUME Init PROVE SyncInv
    OBVIOUS
  <1>1. IsFiniteSet(Configured) /\ Configured \subseteq Endpoints
    BY SyncAssumption, FS_Subset
  <1>2. Cardinality(Configured) \in Nat /\ Cardinality(Configured) # 0
    BY <1>1, SyncAssumption, FS_CardinalityType, FS_EmptySet
  <1>3. next \in 0..(Cardinality(candidates) - 1)
    BY <1>2 DEF Init
  <1>4. TypeOK
    BY <1>1, <1>3, SyncAssumption, HistoriesAssumption DEF Init, TypeOK, Closed
  <1>5. LaneInv /\ SettledMeansNoBetter /\ StageInv
    BY DEF Init, LaneInv, SettledMeansNoBetter, StageInv, Closed
  <1> QED
    BY <1>4, <1>5 DEF SyncInv

(* A step of the specification, stuttering included.                       *)
LEMMA BoxStep ==
    ASSUME SyncInv, [Next]_vars
    PROVE  SyncInv' /\ Grows /\ OwnCommits
  <1>1. CASE Next
    BY <1>1, NextStep
  <1>2. CASE UNCHANGED vars
    <2>1. SyncInv'
      BY <1>2 DEF SyncInv, TypeOK, LaneInv, SettledMeansNoBetter, StageInv, Steady,
                  Selected, vars, sessions
    <2> QED
      BY <1>2, <2>1 DEF Grows, OwnCommits, vars, sessions
  <1> QED
    BY <1>1, <1>2

(* The invariant of the lane, the stages and the candidates.               *)
LEMMA SyncCorrect == Spec => []SyncInv
  <1>1. SyncInv /\ [Next]_vars => SyncInv'
    BY BoxStep
  <1> QED
    BY <1>1, InitInv, PTL DEF Spec

(* Whatever the peers send and the sessions stage, every variable keeps    *)
(* its type: the candidates stay within their table, and the selected      *)
(* index names the endpoint the open connection was made to                *)
(* (stn_peer_candidate_add, out->next in stn_peer_outbound_step).          *)
THEOREM TypeCorrect == Spec => []TypeOK
  <1>1. SyncInv => TypeOK
    BY DEF SyncInv
  <1> QED
    BY <1>1, SyncCorrect, PTL

(* A connection is kept only to a peer whose history is no better than the *)
(* accepted one, and stays so while requests replace that                  *)
(* (stn_peer_outbound_step).                                               *)
THEOREM SettledIsBest == Spec => []SettledMeansNoBetter
  <1>1. SyncInv => SettledMeansNoBetter
    BY DEF SyncInv
  <1> QED
    BY <1>1, SyncCorrect, PTL

(* Every step of the lane, the sessions and the miner replaces the         *)
(* accepted history by one of more work or not at all: synchronisation     *)
(* implements the ledger of module Accepted (stn_storage_adopt, _apply and *)
(* _extend).                                                               *)
THEOREM GrowsOnly == Spec => HistoryOnlyGrows
  <1>1. SyncInv /\ [Next]_vars => [Ledger!Next]_local
    <2>1. SUFFICES ASSUME SyncInv, [Next]_vars PROVE [Ledger!Next]_local
      OBVIOUS
    <2>2. Grows
      BY <2>1, BoxStep
    <2>3. ASSUME local' \in Valid, Prefers(local', local)
          PROVE  Ledger!Replace(local')
      BY <2>3 DEF Ledger!Replace, Ledger!Prefers, Prefers
    <2> QED
      BY <2>2, <2>3 DEF Grows, Ledger!Next
  <1> QED
    BY <1>1, SyncCorrect, PTL DEF Spec, HistoryOnlyGrows

(* A commit publishes the history its own client chose or nothing,         *)
(* whatever other sessions staged and the lane adopted in between          *)
(* (SUFFIX_STAGE_COMMIT, stn_mining_session_handle).                       *)
THEOREM CommitsAreOwn == Spec => CommitsItsOwn
  <1>1. SyncInv /\ [Next]_vars
            => [\A c \in Clients : meant[c] # NoStage /\ meant'[c] = NoStage =>
                    local' \in {local, meant[c]}]_vars
    BY BoxStep DEF OwnCommits
  <1> QED
    BY <1>1, SyncCorrect, PTL DEF Spec, CommitsItsOwn
==============================================================================
