----------------------------- MODULE ReadersProofs -----------------------------
(***************************************************************************)
(* Theorems about the readers of the accepted history (module Readers),    *)
(* for every value of the constants.  What a search shows of a history is  *)
(* a fold over the places of its records, and those a fold over its        *)
(* blocks; both grow with the history.  A cursor names a place in a block, *)
(* a block identifier determines the history up to it, and so a cursor     *)
(* found in two histories has the same records before it in both.          *)
(***************************************************************************)
EXTENDS Readers, FiniteSetTheorems, SequenceTheorems, TLAPS

\* The steps of the two folds: placing a block's records, reading one record.
Places == "places"
Reads == "reads"
Taking(c, s, x) == IF c = Places THEN s \o x ELSE Observe(s, x)

INSTANCE Inductions WITH Pass <- Taking

-----------------------------------------------------------------------------
\* A transaction with its place, and the place it must have in history h.
Transactions == LifecycleRecords \cup Others
Spots == [height : Nat, block : Blocks, position : Nat]
Entries == [at : Spots, record : Transactions]
On(h, e) ==
    /\ e.at.height \in 1..Len(h)
    /\ h[e.at.height] = e.at.block
    /\ e.at.position \in 1..Len(Content[e.at.block])

\* In the order of the places, no place twice.
InOrder(s) == \A i, j \in DOMAIN s : i < j => After(s[j].at, s[i].at)
Lays(h, s) ==
    /\ s \in Seq(Entries)
    /\ \A i \in DOMAIN s : On(h, s[i])
    /\ InOrder(s)

\* t begins with s; and beyond it every record lies above height k.
Begins(s, t) == Len(s) <= Len(t) /\ \A i \in 1..Len(s) : s[i] = t[i]
Beyond(s, t, k) == \A i \in DOMAIN t : i > Len(s) => t[i].at.height > k

-----------------------------------------------------------------------------
(* A history is a sequence of blocks, not empty, and so is each of its     *)
(* prefixes, which reconstruction accepts too (stn_chain_validate_sequence).*)
LEMMA ValidPrefix ==
    ASSUME NEW h \in Valid
    PROVE  /\ h \in Seq(Blocks) /\ Len(h) \in Nat /\ Len(h) >= 1
           /\ \A k \in 1..Len(h) : /\ Prefix(h, k) \in Valid /\ Len(Prefix(h, k)) = k
                                   /\ \A i \in 1..k : Prefix(h, k)[i] = h[i]
  <1>1. h \in Seq(Blocks) /\ h # <<>> /\ Len(h) \in Nat /\ Len(h) >= 1
    BY HistoriesAssumption
  <1>2. ASSUME NEW k \in 1..Len(h)
        PROVE  /\ Prefix(h, k) \in Valid /\ Len(Prefix(h, k)) = k
               /\ \A i \in 1..k : Prefix(h, k)[i] = h[i]
    <2>1. /\ Len(Prefix(h, k)) = k
          /\ \A i \in 1..k : Prefix(h, k)[i] = h[i]
      BY <1>1 DEF Prefix
    <2>2. CASE k = Len(h)
      <3>1. Prefix(h, k) = h
        BY <1>1, <2>2 DEF Prefix
      <3> QED BY <3>1, <2>1
    <2>3. CASE k # Len(h)
      <3>1. k \in 1..(Len(h) - 1)
        BY <1>1, <2>3
      <3>2. Prefix(h, k) \in Valid
        BY <3>1, HistoriesAssumption
      <3> QED BY <3>2, <2>1
    <2> QED BY <2>2, <2>3
  <1> QED BY <1>1, <1>2

(* Two histories that have the same block at one height agree up to it:    *)
(* a block names its predecessor.                                          *)
LEMMA SameBlockSameHistory ==
    ASSUME NEW g \in Valid, NEW h \in Valid, NEW k \in Nat,
           1 <= k, k <= Len(g), k <= Len(h), g[k] = h[k]
    PROVE  Prefix(g, k) = Prefix(h, k)
  <1>1. /\ Prefix(g, k) \in Valid /\ Len(Prefix(g, k)) = k /\ Prefix(g, k)[k] = g[k]
        /\ Prefix(h, k) \in Valid /\ Len(Prefix(h, k)) = k /\ Prefix(h, k)[k] = h[k]
    BY ValidPrefix
  <1> QED BY <1>1, HistoriesAssumption

(* The records of the next block follow those placed so far                *)
(* (record_search).                                                        *)
LEMMA PlacedGrows ==
    ASSUME NEW h \in Seq(Blocks), NEW n \in Nat, Len(h) = n + 1
    PROVE  Placed(h) = Placed(Prefix(h, n)) \o PlacedIn(h, n + 1)
  <1> DEFINE p == Prefix(h, n)
             req == [i \in DOMAIN h |-> PlacedIn(h, i)]
             seq == [i \in DOMAIN p |-> PlacedIn(p, i)]
  <1>1. DOMAIN h = 1..(n + 1) /\ DOMAIN p = 1..n /\ \A i \in 1..n : p[i] = h[i]
    BY DEF Prefix
  <1>2. DOMAIN req = 1..(n + 1) /\ DOMAIN seq = 1..n /\ req[n + 1] = PlacedIn(h, n + 1)
    BY <1>1
  <1>3. \A i \in 1..n : seq[i] = req[i]
    BY <1>1, <1>2 DEF PlacedIn
  <1>4. Placed(h) = Fold(Places, <<>>, req) /\ Placed(p) = Fold(Places, <<>>, seq)
    BY DEF Placed, FoldLeft, MapThenFoldSet, Fold, Folds, Piece, Taking, Places
  <1> HIDE DEF seq, req
  <1>5. Fold(Places, <<>>, req) = Taking(Places, Fold(Places, <<>>, seq), req[n + 1])
    BY <1>2, <1>3, FoldSteps
  <1> QED BY <1>2, <1>4, <1>5 DEF Taking

(* Nothing is placed in no block.                                          *)
LEMMA PlacedInNone ==
    ASSUME NEW h \in Seq(Blocks), Len(h) = 0
    PROVE  Placed(h) = <<>>
  <1> DEFINE req == [i \in DOMAIN h |-> PlacedIn(h, i)]
  <1>1. DOMAIN req = 1..0
    OBVIOUS
  <1>2. Placed(h) = Fold(Places, <<>>, req)
    BY DEF Placed, FoldLeft, MapThenFoldSet, Fold, Folds, Piece, Taking, Places
  <1> HIDE DEF req
  <1> QED BY <1>1, <1>2, FoldOfNone

(* The records of one block, with their places.                            *)
LEMMA PlacedInLays ==
    ASSUME NEW h \in Seq(Blocks), NEW i \in 1..Len(h)
    PROVE  /\ PlacedIn(h, i) \in Seq(Entries)
           /\ \A j \in DOMAIN PlacedIn(h, i) :
                /\ On(h, PlacedIn(h, i)[j])
                /\ PlacedIn(h, i)[j].at.height = i
                /\ PlacedIn(h, i)[j].at.position = j
  <1> DEFINE C == Content[h[i]]
             s == PlacedIn(h, i)
  <1>1. h[i] \in Blocks /\ C \in Seq(Transactions) /\ i \in Nat
    BY ReadersAssumption DEF Transactions
  <1>2. DOMAIN s = 1..Len(C) /\ Len(C) \in Nat
    BY <1>1 DEF PlacedIn
  <1>3. ASSUME NEW j \in 1..Len(C)
        PROVE  /\ s[j] = [at |-> [height |-> i, block |-> h[i], position |-> j],
                          record |-> C[j]]
               /\ s[j] \in Entries /\ On(h, s[j])
               /\ s[j].at.height = i /\ s[j].at.position = j
    <2>1. s[j] = [at |-> [height |-> i, block |-> h[i], position |-> j], record |-> C[j]]
      BY <1>2 DEF PlacedIn
    <2>2. C[j] \in Transactions /\ j \in Nat
      BY <1>1
    <2> QED BY <2>1, <2>2, <1>1 DEF Entries, Spots, On
  <1> HIDE DEF C
  <1>4. s \in [1..Len(C) -> Entries]
    BY <1>2, <1>3 DEF PlacedIn
  <1>5. s \in Seq(Entries)
    BY <1>2, <1>4
  <1> QED BY <1>2, <1>3, <1>5

(* The records of a history stand at their places, in the order of blocks  *)
(* and within a block in its order (record_search).                        *)
LEMMA PlacedLays ==
    ASSUME NEW h \in Seq(Blocks)
    PROVE  Lays(h, Placed(h))
  <1> DEFINE G == {n \in Nat : \A g \in Seq(Blocks) : Len(g) = n => Lays(g, Placed(g))}
  <1>1. 0 \in G
    <2> SUFFICES ASSUME NEW g \in Seq(Blocks), Len(g) = 0
                 PROVE  Lays(g, Placed(g))
      OBVIOUS
    <2> DEFINE e == Placed(g)
    <2>1. e = <<>>
      BY PlacedInNone
    <2> HIDE DEF e
    <2>2. e \in Seq(Entries) /\ DOMAIN e = {}
      BY <2>1
    <2>3. Lays(g, e)
      BY <2>2 DEF Lays, InOrder
    <2> QED BY <2>3 DEF e
  <1>2. ASSUME NEW n \in Nat, n \in G
        PROVE  n + 1 \in G
    <2> SUFFICES ASSUME NEW g \in Seq(Blocks), Len(g) = n + 1
                 PROVE  Lays(g, Placed(g))
      OBVIOUS
    <2> DEFINE p == Prefix(g, n)
               s == Placed(p)
               t == PlacedIn(g, n + 1)
               u == Placed(g)
    <2>1. p \in Seq(Blocks) /\ Len(p) = n /\ \A i \in 1..n : p[i] = g[i]
      BY DEF Prefix
    <2>2. Lays(p, s)
      BY <2>1, <1>2
    <2>3. u = s \o t
      BY PlacedGrows
    <2>4. /\ t \in Seq(Entries)
          /\ \A j \in DOMAIN t : On(g, t[j]) /\ t[j].at.height = n + 1 /\ t[j].at.position = j
      BY PlacedInLays
    <2> HIDE DEF t, s, u
    <2>5. s \in Seq(Entries) /\ Len(s) \in Nat /\ Len(t) \in Nat
      BY <2>2, <2>4 DEF Lays
    <2>6. /\ u \in Seq(Entries) /\ Len(u) = Len(s) + Len(t)
          /\ \A i \in 1..Len(s) : u[i] = s[i]
          /\ \A i \in 1..Len(t) : u[Len(s) + i] = t[i]
      BY <2>3, <2>4, <2>5, ConcatProperties
    <2>7. ASSUME NEW i \in 1..Len(s)
          PROVE  u[i] = s[i] /\ On(g, s[i]) /\ s[i].at.height \in 1..n
      <3>1. On(p, s[i])
        BY <2>2, <2>5 DEF Lays
      <3>2. s[i].at.height \in 1..n
        BY <3>1, <2>1 DEF On
      <3> HIDE DEF p
      <3> QED BY <3>1, <3>2, <2>1, <2>6 DEF On
    <2>8. ASSUME NEW i \in DOMAIN u, i > Len(s)
          PROVE  /\ i - Len(s) \in DOMAIN t /\ u[i] = t[i - Len(s)]
                 /\ On(g, u[i]) /\ u[i].at.height = n + 1 /\ u[i].at.position = i - Len(s)
      <3>1. i - Len(s) \in 1..Len(t) /\ DOMAIN t = 1..Len(t)
        BY <2>4, <2>5, <2>6, <2>8
      <3>2. u[i] = t[i - Len(s)]
        BY <3>1, <2>5, <2>6
      <3> QED BY <3>1, <3>2, <2>4
    <2>9. \A i \in DOMAIN u : On(g, u[i])
      BY <2>5, <2>6, <2>7, <2>8
    <2>10. InOrder(u)
      <3> SUFFICES ASSUME NEW i \in DOMAIN u, NEW j \in DOMAIN u, i < j
                   PROVE  After(u[j].at, u[i].at)
        BY DEF InOrder
      <3>1. CASE j <= Len(s)
        <4>1. i \in DOMAIN s /\ j \in DOMAIN s /\ i \in 1..Len(s) /\ j \in 1..Len(s)
          BY <3>1, <2>5, <2>6
        <4>2. After(s[j].at, s[i].at)
          BY <4>1, <2>2 DEF Lays, InOrder
        <4> QED BY <4>1, <4>2, <2>6
      <3>2. CASE j > Len(s) /\ i <= Len(s)
        <4>1. i \in 1..Len(s)
          BY <3>2, <2>5, <2>6
        <4>2. u[i].at.height \in 1..n /\ u[j].at.height = n + 1
          BY <4>1, <3>2, <2>7, <2>8
        <4> QED BY <4>2 DEF After
      <3>3. CASE j > Len(s) /\ i > Len(s)
        <4>1. /\ u[i].at.height = n + 1 /\ u[j].at.height = n + 1
              /\ u[i].at.position = i - Len(s) /\ u[j].at.position = j - Len(s)
          BY <3>3, <2>8
        <4>2. j - Len(s) > i - Len(s)
          BY <2>5, <2>6
        <4> QED BY <4>1, <4>2 DEF After
      <3> QED BY <3>1, <3>2, <3>3, <2>5, <2>6
    <2>11. Lays(g, u)
      BY <2>6, <2>9, <2>10 DEF Lays
    <2> QED BY <2>11 DEF u
  <1> HIDE DEF G
  <1>3. Len(h) \in G
    BY <1>1, <1>2, NaturalInduction
  <1> QED BY <1>3 DEF G

(* The records of a prefix come first, and those after them stand above    *)
(* it.                                                                     *)
LEMMA PlacedBegins ==
    ASSUME NEW h \in Seq(Blocks), NEW k \in 0..Len(h)
    PROVE  Begins(Placed(Prefix(h, k)), Placed(h)) /\ Beyond(Placed(Prefix(h, k)), Placed(h), k)
  <1> DEFINE Good(g, m) == /\ Begins(Placed(Prefix(g, m)), Placed(g))
                           /\ Beyond(Placed(Prefix(g, m)), Placed(g), m)
             G == {n \in Nat : \A g \in Seq(Blocks) : Len(g) = n => \A m \in 0..n : Good(g, m)}
  <1>1. ASSUME NEW g \in Seq(Blocks)
        PROVE  Good(g, Len(g))
    <2>1. Prefix(g, Len(g)) = g
      BY DEF Prefix
    <2>2. Placed(g) \in Seq(Entries)
      BY PlacedLays DEF Lays
    <2> QED BY <2>1, <2>2 DEF Begins, Beyond
  <1>2. 0 \in G
    BY <1>1
  <1>3. ASSUME NEW n \in Nat, n \in G
        PROVE  n + 1 \in G
    <2> SUFFICES ASSUME NEW g \in Seq(Blocks), Len(g) = n + 1, NEW m \in 0..(n + 1)
                 PROVE  Good(g, m)
      OBVIOUS
    <2>1. CASE m = n + 1
      BY <2>1, <1>1
    <2>2. CASE m # n + 1
      <3> DEFINE p == Prefix(g, n)
                 r == Placed(Prefix(g, m))
                 s == Placed(p)
                 t == PlacedIn(g, n + 1)
                 u == Placed(g)
      <3>1. p \in Seq(Blocks) /\ Len(p) = n /\ m \in 0..n /\ Prefix(p, m) = Prefix(g, m)
        BY <2>2 DEF Prefix
      <3>2. Good(p, m)
        BY <3>1, <1>3
      <3>3. Begins(r, s) /\ Beyond(r, s, m)
        BY <3>1, <3>2
      <3>4. u = s \o t
        BY PlacedGrows
      <3>5. t \in Seq(Entries) /\ \A j \in DOMAIN t : t[j].at.height = n + 1
        BY PlacedInLays
      <3>6. s \in Seq(Entries) /\ r \in Seq(Entries)
        <4>1. Prefix(g, m) \in Seq(Blocks)
          BY DEF Prefix
        <4> HIDE DEF p
        <4> QED BY <3>1, <4>1, PlacedLays DEF Lays
      <3> HIDE DEF p, r, s, t, u
      <3>7. /\ u \in Seq(Entries) /\ Len(u) = Len(s) + Len(t)
            /\ \A i \in 1..Len(s) : u[i] = s[i]
            /\ \A i \in 1..Len(t) : u[Len(s) + i] = t[i]
        BY <3>4, <3>5, <3>6, ConcatProperties
      <3>8. Len(r) \in Nat /\ Len(s) \in Nat /\ Len(t) \in Nat /\ Len(r) <= Len(s)
        BY <3>3, <3>5, <3>6 DEF Begins
      <3>9. Begins(r, u)
        BY <3>3, <3>7, <3>8 DEF Begins
      <3>10. ASSUME NEW i \in DOMAIN u, i > Len(r)
             PROVE  u[i].at.height > m
        <4>1. CASE i <= Len(s)
          <5>1. i \in DOMAIN s /\ i \in 1..Len(s)
            BY <4>1, <3>6, <3>7
          <5> QED BY <5>1, <3>3, <3>7, <3>10 DEF Beyond
        <4>2. CASE i > Len(s)
          <5>1. i - Len(s) \in 1..Len(t) /\ DOMAIN t = 1..Len(t)
            BY <4>2, <3>5, <3>7, <3>8
          <5>2. u[i] = t[i - Len(s)]
            BY <5>1, <3>7, <3>8
          <5> QED BY <5>1, <5>2, <3>1, <3>5
        <4> QED BY <4>1, <4>2, <3>7, <3>8
      <3>11. Begins(r, u) /\ Beyond(r, u, m)
        BY <3>9, <3>10 DEF Beyond
      <3> QED BY <3>11 DEF r, u
    <2> QED BY <2>1, <2>2
  <1> HIDE DEF G
  <1>4. Len(h) \in G
    BY <1>2, <1>3, NaturalInduction
  <1> QED BY <1>4 DEF G

-----------------------------------------------------------------------------
\* What a search holds while it reads: the projection, the identifiers used
\* up, the publications shown, and whether it has failed.
Searches == [l : Lifecycles, eligible : SUBSET ReplayKeys, found : Seq(Entries),
             failed : BOOLEAN]
Looked(s, n) == Fold(Reads, Unread, SubSeq(s, 1, n))

\* What a search has shown of the first n records: some of them, in their
\* order, and no identifier twice.
Shows(s, n, r) ==
    /\ r \in Searches
    /\ \A i \in DOMAIN r.found : \E m \in 1..n : r.found[i] = s[m]
    /\ InOrder(r.found)
    /\ \A i \in DOMAIN r.found : ReplayKey(r.found[i].record) \in r.eligible
    /\ \A i, j \in DOMAIN r.found :
          i # j => ReplayKey(r.found[i].record) # ReplayKey(r.found[j].record)

(* A record is of one of the four types, each with its own fields          *)
(* (stn_transaction_decode).                                               *)
LEMMA RecordTypes ==
    ASSUME NEW tx \in LifecycleRecords
    PROVE  /\ tx.type \in {"GRANT", "REVOKE", "ROTATE", "PUBLICATION"}
           /\ tx.type = "GRANT" => tx \in GrantRecords
           /\ tx.type = "REVOKE" => tx \in RevocationRecords /\ tx.grant \in GrantRecords
           /\ tx.type = "ROTATE" => tx \in RotationRecords
           /\ tx.type = "PUBLICATION" => tx \in PublicationRecords
           /\ ReplayKey(tx) \in ReplayKeys
  BY DEF LifecycleRecords, GrantRecords, RevocationRecords, RotationRecords,
         PublicationRecords, ReplayKeys

(* A record leaves a projection behind, its identifier consumed            *)
(* (stn_lifecycle_apply_transaction).                                      *)
LEMMA AppliedIsLifecycle ==
    ASSUME NEW l \in Lifecycles, NEW tx \in LifecycleRecords
    PROVE  Applied(l, tx) \in Lifecycles
  <1> DEFINE m == Consume(l, tx)
  <1>1. m \in Lifecycles
    BY RecordTypes DEF Consume, Lifecycles
  <1> HIDE DEF m
  <1>2. CASE tx.type = "GRANT"
    <2>1. Applied(l, tx) = [m EXCEPT !.grants = @ \cup {tx}]
      BY <1>2 DEF Applied, ApplyGrant, m
    <2>2. tx \in GrantRecords
      BY <1>2, RecordTypes
    <2> QED BY <1>1, <2>1, <2>2 DEF Lifecycles
  <1>3. CASE tx.type = "REVOKE"
    <2>1. Applied(l, tx) = [m EXCEPT !.revoked = @ \cup {tx.grant}]
      BY <1>3 DEF Applied, ApplyRevocation, m
    <2>2. tx.grant \in GrantRecords
      BY <1>3, RecordTypes
    <2> QED BY <1>1, <2>1, <2>2 DEF Lifecycles
  <1>4. CASE tx.type = "ROTATE"
    <2>1. Applied(l, tx) = [m EXCEPT !.rotations = Append(@, tx)]
      BY <1>4 DEF Applied, ApplyRotation, m
    <2>2. tx \in RotationRecords
      BY <1>4, RecordTypes
    <2>3. Append(m.rotations, tx) \in Seq(RotationRecords)
      BY <1>1, <2>2 DEF Lifecycles
    <2> QED BY <1>1, <2>1, <2>3 DEF Lifecycles
  <1>5. CASE tx.type = "PUBLICATION"
    <2>1. Applied(l, tx) = m
      BY <1>5 DEF Applied, m
    <2> QED BY <1>1, <2>1
  <1>6. tx.type \in {"GRANT", "REVOKE", "ROTATE", "PUBLICATION"}
    BY RecordTypes
  <1> QED BY <1>2, <1>3, <1>4, <1>5, <1>6

(* One record more: it is shown or not, and shown only under an identifier *)
(* that none shown before it has (record_search).                          *)
LEMMA ObserveShows ==
    ASSUME NEW r \in Searches, NEW e \in Entries
    PROVE  /\ Observe(r, e) \in Searches
           /\ r.eligible \subseteq Observe(r, e).eligible
           /\ \/ Observe(r, e).found = r.found
              \/ /\ Observe(r, e).found = Append(r.found, e)
                 /\ ReplayKey(e.record) \notin r.eligible
                 /\ ReplayKey(e.record) \in Observe(r, e).eligible
  <1> DEFINE key == ReplayKey(e.record)
             look == [r.l EXCEPT !.consumed = r.eligible]
             shown == /\ ~r.failed /\ e.record.type = "PUBLICATION"
                      /\ PublicationOK(look, e.record)
             here == IF shown THEN [r EXCEPT !.eligible = @ \cup {key}, !.found = Append(@, e)]
                     ELSE r
  <1>1. Applies(e.record) => e.record \in LifecycleRecords /\ key \in ReplayKeys
    <2>1. e.record \in LifecycleRecords \cup Others
      BY DEF Entries, Transactions
    <2>2. Applies(e.record) => e.record \in LifecycleRecords
      BY <2>1, ReadersAssumption
    <2> QED BY <2>2, RecordTypes
  <1>2. shown => key \notin r.eligible /\ Applies(e.record)
    <2>1. look.consumed = r.eligible
      BY DEF Searches, Lifecycles
    <2> QED BY <2>1 DEF PublicationOK, Fresh, Applies
  <1>3. Observe(r, e) =
            IF r.failed \/ Dormant(e.at.height, e.record) THEN here
            ELSE IF ~Applies(e.record) THEN [r EXCEPT !.failed = TRUE]
            ELSE [here EXCEPT !.l = Applied(@, e.record), !.eligible = @ \cup {key}]
    BY DEF Observe
  <1> HIDE DEF key, shown
  <1>4. /\ here \in Searches /\ r.eligible \subseteq here.eligible
        /\ shown => here.found = Append(r.found, e) /\ key \in here.eligible
        /\ ~shown => here.found = r.found
    <2>1. CASE shown
      <3> DEFINE mid == [r EXCEPT !.eligible = @ \cup {key}]
      <3>1. mid \in Searches /\ mid.eligible = r.eligible \cup {key} /\ mid.found = r.found
        BY <1>1, <1>2, <2>1 DEF Searches
      <3>2. here = [mid EXCEPT !.found = Append(@, e)]
        BY <2>1
      <3> HIDE DEF mid, here
      <3>3. Append(mid.found, e) \in Seq(Entries)
        BY <3>1 DEF Searches
      <3>4. here \in Searches /\ here.eligible = mid.eligible /\ here.found = Append(mid.found, e)
        BY <3>1, <3>2, <3>3 DEF Searches
      <3> QED BY <2>1, <3>1, <3>4
    <2>2. CASE ~shown
      BY <2>2
    <2> QED BY <2>1, <2>2
  <1>5. ~shown => here = r
    OBVIOUS
  <1> HIDE DEF here
  <1>6. /\ Observe(r, e) \in Searches /\ here.eligible \subseteq Observe(r, e).eligible
        /\ Observe(r, e).found = here.found
    <2>1. CASE r.failed \/ Dormant(e.at.height, e.record)
      BY <2>1, <1>3, <1>4
    <2>2. CASE ~(r.failed \/ Dormant(e.at.height, e.record)) /\ ~Applies(e.record)
      <3>1. Observe(r, e) = [r EXCEPT !.failed = TRUE]
        BY <2>2, <1>3
      <3>2. here = r
        BY <2>2, <1>2, <1>5
      <3> QED BY <3>1, <3>2 DEF Searches
    <2>3. CASE ~(r.failed \/ Dormant(e.at.height, e.record)) /\ Applies(e.record)
      <3>1. Observe(r, e) = [here EXCEPT !.l = Applied(@, e.record), !.eligible = @ \cup {key}]
        BY <2>3, <1>3
      <3> DEFINE mid == [here EXCEPT !.l = Applied(@, e.record)]
                 all == here.eligible \cup {key}
      <3>2. Applied(here.l, e.record) \in Lifecycles
        BY <2>3, <1>1, <1>4, AppliedIsLifecycle DEF Searches
      <3>3. mid \in Searches /\ mid.eligible = here.eligible /\ mid.found = here.found
        BY <1>4, <3>2 DEF Searches
      <3>4. Observe(r, e) = [mid EXCEPT !.eligible = all]
        BY <3>1, <1>4 DEF Searches
      <3>5. all \in SUBSET ReplayKeys /\ here.eligible \subseteq all
        BY <2>3, <1>1, <1>4 DEF Searches
      <3> HIDE DEF mid, all
      <3>6. /\ Observe(r, e) \in Searches /\ Observe(r, e).eligible = all
            /\ Observe(r, e).found = mid.found
        BY <3>3, <3>4, <3>5 DEF Searches
      <3> QED BY <3>3, <3>5, <3>6
    <2> QED BY <2>1, <2>2, <2>3
  <1> QED BY <1>2, <1>4, <1>6 DEF key

(* A search reads one record after another from the empty projection       *)
(* (record_search).                                                        *)
LEMMA LookedSteps ==
    ASSUME NEW s \in Seq(Entries)
    PROVE  /\ Looked(s, 0) = Unread
           /\ \A n \in Nat : n + 1 <= Len(s) =>
                Looked(s, n + 1) = Observe(Looked(s, n), s[n + 1])
  <1>1. Looked(s, 0) = Unread
    <2> DEFINE e == SubSeq(s, 1, 0)
    <2>1. DOMAIN e = 1..0
      OBVIOUS
    <2> HIDE DEF e
    <2>2. Fold(Reads, Unread, e) = Unread
      BY <2>1, FoldOfNone
    <2> QED BY <2>2 DEF Looked, e
  <1>2. ASSUME NEW n \in Nat, n + 1 <= Len(s)
        PROVE  Looked(s, n + 1) = Observe(Looked(s, n), s[n + 1])
    <2> DEFINE p == SubSeq(s, 1, n)
               q == SubSeq(s, 1, n + 1)
    <2>1. /\ DOMAIN p = 1..n /\ DOMAIN q = 1..(n + 1)
          /\ (\A i \in 1..n : p[i] = q[i]) /\ q[n + 1] = s[n + 1]
      BY <1>2
    <2> HIDE DEF p, q
    <2>2. Fold(Reads, Unread, q) = Taking(Reads, Fold(Reads, Unread, p), q[n + 1])
      BY <2>1, FoldSteps
    <2>3. Reads # Places
      BY DEF Reads, Places
    <2> QED BY <2>1, <2>2, <2>3 DEF Looked, Taking, p, q
  <1> QED BY <1>1, <1>2

(* What a search has shown so far, however far it has read                 *)
(* (record_search).                                                        *)
LEMMA LookedShows ==
    ASSUME NEW s \in Seq(Entries), InOrder(s), NEW k \in 0..Len(s)
    PROVE  Shows(s, k, Looked(s, k))
  <1> DEFINE G == {n \in Nat : n <= Len(s) => Shows(s, n, Looked(s, n))}
  <1>1. 0 \in G
    <2>1. Looked(s, 0) = Unread
      BY LookedSteps
    <2>2. Unread \in Searches /\ DOMAIN Unread.found = {}
      <3>1. EmptyLifecycle \in Lifecycles
        BY DEF EmptyLifecycle, Lifecycles
      <3> QED BY <3>1 DEF Unread, Searches
    <2> HIDE DEF G
    <2>3. Shows(s, 0, Unread)
      BY <2>2 DEF Shows, InOrder
    <2> QED BY <2>1, <2>3 DEF G
  <1>2. ASSUME NEW n \in Nat, n \in G
        PROVE  n + 1 \in G
    <2> SUFFICES ASSUME n + 1 <= Len(s)
                 PROVE  Shows(s, n + 1, Looked(s, n + 1))
      OBVIOUS
    <2> DEFINE r == Looked(s, n)
               q == Looked(s, n + 1)
               e == s[n + 1]
               f == r.found
    <2>1. Shows(s, n, r)
      BY <1>2
    <2>2. q = Observe(r, e)
      BY LookedSteps
    <2>3. e \in Entries /\ n + 1 \in DOMAIN s
      OBVIOUS
    <2> HIDE DEF r, q, e, G
    <2>4. r \in Searches /\ f \in Seq(Entries) /\ Len(f) \in Nat
      BY <2>1 DEF Shows, Searches
    <2> HIDE DEF f
    <2>5. /\ q \in Searches /\ r.eligible \subseteq q.eligible
          /\ \/ q.found = f
             \/ /\ q.found = Append(f, e)
                /\ ReplayKey(e.record) \notin r.eligible
                /\ ReplayKey(e.record) \in q.eligible
      BY <2>2, <2>3, <2>4, ObserveShows DEF f
    <2>6. /\ \A i \in DOMAIN f : \E m \in 1..n : f[i] = s[m]
          /\ InOrder(f)
          /\ \A i \in DOMAIN f : ReplayKey(f[i].record) \in r.eligible
          /\ \A i, j \in DOMAIN f :
                i # j => ReplayKey(f[i].record) # ReplayKey(f[j].record)
      BY <2>1 DEF Shows, f
    <2>7. \A m \in 1..n : m \in 1..(n + 1)
      OBVIOUS
    <2>8. ASSUME q.found = f
          PROVE  Shows(s, n + 1, q)
      BY <2>5, <2>6, <2>7, <2>8 DEF Shows
    <2>9. ASSUME q.found # f
          PROVE  Shows(s, n + 1, q)
      <3> DEFINE g == Append(f, e)
                 z == Len(f) + 1
      <3>1. /\ q.found = g /\ ReplayKey(e.record) \notin r.eligible
            /\ ReplayKey(e.record) \in q.eligible
        BY <2>5, <2>9
      <3>2. /\ DOMAIN g = 1..z /\ g[z] = e
            /\ \A i \in 1..z : i # z => i \in DOMAIN f /\ g[i] = f[i]
        BY <2>3, <2>4, AppendProperties
      <3> HIDE DEF g, z
      <3>3. \A i \in DOMAIN g : \E m \in 1..(n + 1) : g[i] = s[m]
        <4>1. e = s[n + 1] /\ n + 1 \in 1..(n + 1)
          BY DEF e
        <4> QED BY <4>1, <3>2, <2>6, <2>7
      <3>4. InOrder(g)
        <4> SUFFICES ASSUME NEW i \in DOMAIN g, NEW j \in DOMAIN g, i < j
                     PROVE  After(g[j].at, g[i].at)
          BY DEF InOrder
        <4>1. i # z /\ i \in DOMAIN f /\ g[i] = f[i]
          BY <3>2, <2>4 DEF z
        <4>2. CASE j = z
          <5>1. PICK m \in 1..n : f[i] = s[m]
            BY <4>1, <2>6
          <5>2. m \in DOMAIN s /\ m < n + 1
            OBVIOUS
          <5>3. After(s[n + 1].at, s[m].at)
            BY <5>2, <2>3 DEF InOrder
          <5> QED BY <4>1, <4>2, <5>1, <5>3, <3>2 DEF e
        <4>3. CASE j # z
          <5>1. j \in DOMAIN f /\ g[j] = f[j]
            BY <4>3, <3>2
          <5> QED BY <4>1, <5>1, <2>6 DEF InOrder
        <4> QED BY <4>2, <4>3
      <3>5. \A i \in DOMAIN g : ReplayKey(g[i].record) \in q.eligible
        BY <3>1, <3>2, <2>5, <2>6
      <3>6. \A i, j \in DOMAIN g :
               i # j => ReplayKey(g[i].record) # ReplayKey(g[j].record)
        <4>1. \A i \in DOMAIN g : i # z => ReplayKey(g[i].record) # ReplayKey(e.record)
          BY <3>1, <3>2, <2>6
        <4> QED BY <4>1, <3>2, <2>6
      <3> QED BY <2>5, <3>1, <3>3, <3>4, <3>5, <3>6 DEF Shows
    <2>10. Shows(s, n + 1, q)
      BY <2>8, <2>9
    <2> QED BY <2>10 DEF q
  <1> HIDE DEF G
  <1>3. k \in G /\ k <= Len(s)
    BY <1>1, <1>2, NaturalInduction
  <1> QED BY <1>3 DEF G

(* Reading on keeps what was shown and adds records that come later        *)
(* (record_search).                                                        *)
LEMMA LookedGrows ==
    ASSUME NEW s \in Seq(Entries), InOrder(s), NEW k \in 0..Len(s), NEW m \in 0..k
    PROVE  /\ Begins(Looked(s, m).found, Looked(s, k).found)
           /\ \A i \in DOMAIN Looked(s, k).found :
                i > Len(Looked(s, m).found) =>
                    \E x \in (m + 1)..k : Looked(s, k).found[i] = s[x]
  <1> DEFINE d == Looked(s, m).found
             Good(n) == LET f == Looked(s, n).found
                        IN /\ Begins(d, f)
                           /\ \A i \in DOMAIN f :
                                i > Len(d) => \E x \in (m + 1)..n : f[i] = s[x]
             G == {j \in Nat : m + j <= Len(s) => Good(m + j)}
  <1>0. m \in Nat /\ \A n \in 0..Len(s) : /\ Looked(s, n) \in Searches
                                          /\ Looked(s, n).found \in Seq(Entries)
                                          /\ Len(Looked(s, n).found) \in Nat
    BY LookedShows DEF Shows, Searches
  <1>a. d \in Seq(Entries) /\ Len(d) \in Nat /\ DOMAIN d = 1..Len(d)
    BY <1>0
  <1> HIDE DEF Good
  <1>1. 0 \in G
    <2>1. m + 0 = m
      BY <1>0
    <2>2. Begins(d, d) /\ \A i \in DOMAIN d : ~(i > Len(d))
      BY <1>a DEF Begins
    <2>3. Good(m)
      BY <2>2 DEF Good
    <2> QED BY <2>1, <2>3
  <1>2. ASSUME NEW j \in Nat, j \in G
        PROVE  j + 1 \in G
    <2> SUFFICES ASSUME m + (j + 1) <= Len(s)
                 PROVE  Good(m + (j + 1))
      OBVIOUS
    <2> DEFINE n == m + j
               r == Looked(s, n)
               q == Looked(s, n + 1)
               f == r.found
    <2>1. n \in Nat /\ m + (j + 1) = n + 1 /\ n + 1 <= Len(s) /\ n \in 0..Len(s)
      BY <1>0
    <2>2. Good(n)
      BY <1>2, <2>1
    <2>3. q = Observe(r, s[n + 1]) /\ s[n + 1] \in Entries
      BY <2>1, LookedSteps
    <2>4. r \in Searches /\ f \in Seq(Entries) /\ Len(f) \in Nat
      BY <1>0, <2>1
    <2>5. /\ Begins(d, f)
          /\ \A i \in DOMAIN f : i > Len(d) => \E x \in (m + 1)..n : f[i] = s[x]
      BY <2>2 DEF Good
    <2> HIDE DEF n, r, q, d, G
    <2>6. q.found = f \/ q.found = Append(f, s[n + 1])
      BY <2>3, <2>4, ObserveShows
    <2> HIDE DEF f
    <2>7. \A x \in (m + 1)..n : x \in (m + 1)..(n + 1)
      BY <2>1
    <2>8. CASE q.found = f
      <3>1. /\ Begins(d, q.found)
            /\ \A i \in DOMAIN q.found :
                 i > Len(d) => \E x \in (m + 1)..(n + 1) : q.found[i] = s[x]
        BY <2>5, <2>7, <2>8
      <3> QED BY <3>1, <2>1 DEF q, Good
    <2>9. CASE q.found = Append(f, s[n + 1])
      <3> DEFINE g == Append(f, s[n + 1])
                 z == Len(f) + 1
      <3>2. /\ DOMAIN g = 1..z /\ Len(g) = z /\ g[z] = s[n + 1]
            /\ \A i \in 1..Len(f) : g[i] = f[i]
            /\ \A i \in 1..z : i # z => i \in DOMAIN f /\ g[i] = f[i]
        BY <2>3, <2>4, AppendProperties
      <3>3. Len(d) <= Len(f) /\ \A i \in 1..Len(d) : i \in 1..Len(f) /\ f[i] = d[i]
        BY <1>a, <2>4, <2>5 DEF Begins
      <3>4. n + 1 \in (m + 1)..(n + 1)
        BY <1>0, <2>1 DEF n
      <3> HIDE DEF g
      <3>5. Begins(d, g)
        BY <3>2, <3>3, <1>a, <2>4 DEF Begins
      <3>6. \A i \in DOMAIN g : i > Len(d) => \E x \in (m + 1)..(n + 1) : g[i] = s[x]
        BY <3>2, <3>4, <2>5, <2>7
      <3>7. q.found = g
        BY <2>9 DEF g
      <3>8. /\ Begins(d, q.found)
            /\ \A i \in DOMAIN q.found :
                 i > Len(d) => \E x \in (m + 1)..(n + 1) : q.found[i] = s[x]
        BY <3>5, <3>6, <3>7
      <3> QED BY <3>8, <2>1 DEF q, Good
    <2> QED BY <2>6, <2>8, <2>9
  <1> HIDE DEF G
  <1>3. k - m \in G /\ m + (k - m) = k /\ k <= Len(s)
    BY <1>0, <1>1, <1>2, NaturalInduction
  <1> QED BY <1>3 DEF G, Good

-----------------------------------------------------------------------------
(* What is found in a history is what the search shows of all its places.  *)
LEMMA FoundIs ==
    ASSUME NEW h \in Valid
    PROVE  /\ Placed(h) \in Seq(Entries) /\ InOrder(Placed(h)) /\ Len(Placed(h)) \in Nat
           /\ Found[h] = Looked(Placed(h), Len(Placed(h))).found
  <1> DEFINE s == Placed(h)
  <1>1. s \in Seq(Entries) /\ InOrder(s)
    BY ValidPrefix, PlacedLays DEF Lays
  <1>2. Found[h] = FoldLeft(Observe, Unread, s).found
    BY DEF Found, Searched
  <1>3. FoldLeft(Observe, Unread, s) = Fold(Reads, Unread, s)
    BY DEF FoldLeft, MapThenFoldSet, Fold, Folds, Piece, Taking, Reads, Places
  <1> HIDE DEF s
  <1>4. SubSeq(s, 1, Len(s)) = s /\ Len(s) \in Nat
    BY <1>1
  <1>5. Looked(s, Len(s)) = Fold(Reads, Unread, s)
    BY <1>4 DEF Looked
  <1> QED BY <1>1, <1>2, <1>3, <1>4, <1>5 DEF s

\* What a history shows: records at places of its own, in order, and no
\* identifier twice.
Displays(h, s) ==
    /\ Lays(h, s)
    /\ \A i \in DOMAIN s : \E m \in DOMAIN Placed(h) : s[i] = Placed(h)[m]
    /\ \A i, j \in DOMAIN s :
          i # j => ReplayKey(s[i].record) # ReplayKey(s[j].record)

(* That is what the search shows (record_search).                          *)
LEMMA FoundDisplays ==
    ASSUME NEW h \in Valid
    PROVE  Displays(h, Found[h])
  <1> DEFINE s == Placed(h)
             r == Looked(s, Len(s))
             f == Found[h]
  <1>1. s \in Seq(Entries) /\ InOrder(s) /\ Len(s) \in Nat /\ f = r.found
    BY FoundIs
  <1>2. Lays(h, s)
    BY ValidPrefix, PlacedLays
  <1> HIDE DEF s, f
  <1>3. Shows(s, Len(s), r)
    BY <1>1, LookedShows
  <1> HIDE DEF r
  <1>4. f \in Seq(Entries)
    BY <1>1, <1>3 DEF Shows, Searches
  <1>5. \A i \in DOMAIN f : \E m \in DOMAIN s : f[i] = s[m]
    BY <1>1, <1>3 DEF Shows
  <1>6. \A i \in DOMAIN f : On(h, f[i])
    BY <1>2, <1>5 DEF Lays
  <1>7. InOrder(f) /\ \A i, j \in DOMAIN f :
                          i # j => ReplayKey(f[i].record) # ReplayKey(f[j].record)
    BY <1>1, <1>3 DEF Shows
  <1> QED BY <1>4, <1>5, <1>6, <1>7 DEF Displays, Lays, s, f

(* A history shows first what its prefix shows, and then records above it: *)
(* what stood before a branch stays in front of every branch               *)
(* (record_search).                                                        *)
LEMMA FoundBegins ==
    ASSUME NEW h \in Valid, NEW k \in 1..Len(h)
    PROVE  /\ Begins(Found[Prefix(h, k)], Found[h])
           /\ Beyond(Found[Prefix(h, k)], Found[h], k)
           /\ \A i \in DOMAIN Found[Prefix(h, k)] : Found[Prefix(h, k)][i].at.height <= k
  <1> DEFINE p == Prefix(h, k)
             s == Placed(p)
             t == Placed(h)
             n == Len(s)
  <1>1. p \in Valid /\ Len(p) = k /\ h \in Seq(Blocks)
    BY ValidPrefix
  <1>2. Begins(s, t) /\ Beyond(s, t, k)
    BY <1>1, PlacedBegins
  <1> HIDE DEF p
  <1>3. /\ s \in Seq(Entries) /\ n \in Nat /\ Found[p] = Looked(s, n).found
        /\ t \in Seq(Entries) /\ InOrder(t) /\ Len(t) \in Nat
        /\ Found[h] = Looked(t, Len(t)).found
    BY <1>1, FoundIs
  <1>4. Displays(p, Found[p])
    BY <1>1, FoundDisplays
  <1> HIDE DEF s, t
  <1>5. n \in 0..Len(t) /\ SubSeq(t, 1, n) = SubSeq(s, 1, n)
    BY <1>2, <1>3 DEF Begins
  <1>6. Looked(t, n) = Looked(s, n)
    BY <1>5 DEF Looked
  <1>7. /\ Begins(Looked(t, n).found, Looked(t, Len(t)).found)
        /\ \A i \in DOMAIN Looked(t, Len(t)).found :
             i > Len(Looked(t, n).found) =>
                 \E x \in (n + 1)..Len(t) : Looked(t, Len(t)).found[i] = t[x]
    BY <1>3, <1>5, LookedGrows
  <1>8. Begins(Found[p], Found[h])
    BY <1>3, <1>6, <1>7
  <1>9. \A x \in (n + 1)..Len(t) : t[x].at.height > k
    <2>1. \A x \in (n + 1)..Len(t) : x \in DOMAIN t /\ x > Len(s)
      BY <1>3
    <2> QED BY <2>1, <1>2 DEF Beyond
  <1>10. \A i \in DOMAIN Found[h] : i > Len(Found[p]) => \E x \in (n + 1)..Len(t) : Found[h][i] = t[x]
    BY <1>3, <1>6, <1>7
  <1>11. Beyond(Found[p], Found[h], k)
    BY <1>9, <1>10 DEF Beyond
  <1>12. \A i \in DOMAIN Found[p] : Found[p][i].at.height <= k
    BY <1>1, <1>4 DEF Displays, Lays, On
  <1> QED BY <1>8, <1>11, <1>12 DEF p

-----------------------------------------------------------------------------
\* What a consumer has taken in, behind a cursor, of history g.
TakenFrom(s, at, g) ==
    /\ s \in Seq(Entries) /\ Len(s) \in 1..Len(Found[g])
    /\ \A i \in 1..Len(s) : s[i] = Found[g][i]
    /\ at = Found[g][Len(s)].at

(* A history that holds the cursor has the same records up to it as the    *)
(* one they were read from (stn_chain_cursor_validate).                    *)
LEMMA CursorCarries ==
    ASSUME NEW g \in Valid, NEW h \in Valid, NEW s, NEW at,
           TakenFrom(s, at, g), Holds(h, at)
    PROVE  TakenFrom(s, at, h)
  <1> DEFINE k == at.height
             p == Prefix(g, k)
             n == Len(s)
             f == Found[g]
             d == Found[p]
             e == Found[h]
  <1>1. Displays(g, f) /\ f \in Seq(Entries) /\ n \in 1..Len(f) /\ at = f[n].at /\ Len(f) \in Nat
    BY FoundDisplays DEF Displays, Lays, TakenFrom
  <1>2. On(g, f[n])
    BY <1>1 DEF Displays, Lays
  <1>3. k \in 1..Len(g) /\ g[k] = at.block /\ k <= Len(h) /\ h[k] = at.block
    BY <1>1, <1>2 DEF On, Holds
  <1>4. Len(g) \in Nat /\ Len(h) \in Nat
    BY ValidPrefix
  <1>5. Prefix(h, k) = p
    BY <1>3, <1>4, SameBlockSameHistory
  <1>6. k \in 1..Len(h)
    BY <1>3, <1>4
  <1>7. p \in Valid
    BY <1>3, ValidPrefix
  <1> HIDE DEF p
  <1>8. Begins(d, f) /\ Beyond(d, f, k)
    BY <1>3, FoundBegins DEF p
  <1>9. Begins(d, e)
    BY <1>5, <1>6, FoundBegins
  <1>10. d \in Seq(Entries) /\ e \in Seq(Entries)
    BY <1>7, FoundDisplays DEF Displays, Lays
  <1> HIDE DEF d, e, f
  <1>11. n <= Len(d)
    <2> SUFFICES ASSUME ~(n <= Len(d))
                 PROVE  FALSE
      OBVIOUS
    <2>1. n \in DOMAIN f /\ n > Len(d)
      BY <1>1, <1>10
    <2>2. f[n].at.height > k
      BY <2>1, <1>8 DEF Beyond
    <2> QED BY <2>2, <1>1, <1>3, <1>4
  <1>12. Len(d) <= Len(e) /\ Len(d) \in Nat /\ Len(e) \in Nat /\ n \in 1..Len(e) /\ n \in Nat
    BY <1>1, <1>9, <1>10, <1>11 DEF Begins
  <1>13. \A i \in 1..n : i \in 1..Len(d) /\ f[i] = d[i] /\ e[i] = d[i]
    BY <1>8, <1>9, <1>11, <1>12 DEF Begins
  <1>14. n \in 1..n
    BY <1>1, <1>12
  <1>15. at = e[n].at
    BY <1>1, <1>13, <1>14
  <1>16. s \in Seq(Entries) /\ \A i \in 1..n : s[i] = f[i]
    BY DEF TakenFrom, f
  <1>17. \A i \in 1..n : s[i] = e[i]
    BY <1>13, <1>16
  <1> QED BY <1>12, <1>15, <1>16, <1>17 DEF TakenFrom, e

(* What is taken in up to a common block is a beginning of it: places come *)
(* in order (stn_chain_build_consumer_recovery_plan).                      *)
LEMMA BelowIs ==
    ASSUME NEW s \in Seq(Entries), NEW m \in 0..Len(s), NEW k \in Nat,
           \A i \in 1..m : s[i].at.height <= k,
           \A i \in DOMAIN s : i > m => s[i].at.height > k
    PROVE  Below(s, k) = SubSeq(s, 1, m)
  <1> DEFINE I == {i \in DOMAIN s : s[i].at.height <= k}
             S == {0} \cup I
  <1>0. m \in Nat /\ Len(s) \in Nat /\ DOMAIN s = 1..Len(s)
    OBVIOUS
  <1>1. m \in S
    <2>1. CASE m = 0
      BY <2>1
    <2>2. CASE m # 0
      <3>1. m \in 1..m /\ m \in DOMAIN s
        BY <2>2, <1>0
      <3> QED BY <3>1
    <2> QED BY <2>1, <2>2
  <1>2. ASSUME NEW i \in S
        PROVE  i \in Nat /\ m >= i
    <2>1. CASE i = 0
      BY <2>1, <1>0
    <2>2. CASE i # 0
      <3>1. i \in DOMAIN s /\ s[i].at.height <= k
        BY <2>2
      <3>2. s[i].at.height \in Nat
        <4>1. s[i] \in Entries
          BY <3>1
        <4> QED BY <4>1 DEF Entries, Spots
      <3>3. ~(s[i].at.height > k)
        BY <3>1, <3>2
      <3>4. ~(i > m)
        BY <3>1, <3>3
      <3> QED BY <3>1, <3>4, <1>0
    <2> QED BY <2>1, <2>2
  <1> HIDE DEF S
  <1>3. \A x \in S : (\A y \in S : x >= y) => x = m
    BY <1>0, <1>1, <1>2
  <1>4. Max(S) = m
    BY <1>1, <1>2, <1>3 DEF Max
  <1> QED BY <1>4 DEF Below, Prefix, S

(* The evaluation of two histories finds the last block they have in       *)
(* common (stn_fork_evaluate_history).                                     *)
LEMMA AncestorIs ==
    ASSUME NEW h \in Seq(Blocks), NEW r \in Seq(Blocks)
    PROVE  /\ Ancestor(h, r) \in Nat
           /\ Ancestor(h, r) <= Len(h) /\ Ancestor(h, r) <= Len(r)
           /\ Prefix(h, Ancestor(h, r)) = Prefix(r, Ancestor(h, r))
           /\ \A k \in Nat : k <= Len(h) /\ k <= Len(r) /\ Prefix(h, k) = Prefix(r, k)
                                => k <= Ancestor(h, r)
  <1> DEFINE C == CommonPrefixes({h, r})
             D == {Len(h) - Len(x) : x \in C}
  <1>1. ASSUME NEW x \in C
        PROVE  /\ x \in Seq(Blocks) /\ Len(x) \in Nat /\ Len(x) <= Len(h) /\ Len(x) <= Len(r)
               /\ Prefix(h, Len(x)) = Prefix(r, Len(x))
    <2>1. IsPrefix(x, h) /\ IsPrefix(x, r)
      BY DEF CommonPrefixes
    <2>2. x \in Prefixes(h) \cup Prefixes(r)
      BY DEF CommonPrefixes
    <2>3. x \in Seq(Blocks)
      BY <2>2 DEF Prefixes
    <2> QED BY <2>1, <2>3 DEF IsPrefix, Prefix
  <1>2. ASSUME NEW k \in Nat, k <= Len(h), k <= Len(r), Prefix(h, k) = Prefix(r, k)
        PROVE  Prefix(h, k) \in C /\ Len(Prefix(h, k)) = k
    <2> DEFINE x == Prefix(h, k)
    <2>1. x = SubSeq(h, 1, k) /\ x \in Seq(Blocks) /\ Len(x) = k /\ k \in 0..Len(h)
      BY <1>2 DEF Prefix
    <2>2. x \in Prefixes(h)
      BY <2>1 DEF Prefixes
    <2>3. x = SubSeq(r, 1, k)
      BY <1>2 DEF Prefix
    <2>4. SubSeq(x, 1, k) = x
      BY <2>1
    <2> HIDE DEF x
    <2>5. IsPrefix(x, h) /\ IsPrefix(x, r)
      BY <1>2, <2>1, <2>3, <2>4 DEF IsPrefix
    <2>6. x \in C
      BY <2>2, <2>5 DEF CommonPrefixes
    <2> QED BY <2>1, <2>6 DEF x
  <1>3. Prefix(h, 0) \in C
    <2>1. Prefix(h, 0) = Prefix(r, 0) /\ 0 <= Len(h) /\ 0 <= Len(r)
      BY DEF Prefix
    <2> QED BY <2>1, <1>2
  <1> HIDE DEF C
  <1>4. D # {} /\ D \in SUBSET Nat
    BY <1>1, <1>3
  <1>5. PICK d \in D : \A e \in D : d <= e
    BY <1>4, LeastNatural
  <1>6. PICK x \in C : d = Len(h) - Len(x)
    BY <1>5
  <1>7. ASSUME NEW y \in C
        PROVE  Len(y) <= Len(x)
    <2>1. Len(h) - Len(y) \in D
      OBVIOUS
    <2>2. Len(h) - Len(x) <= Len(h) - Len(y)
      BY <1>5, <1>6, <2>1
    <2> QED BY <2>2, <1>1
  <1> DEFINE l == CHOOSE z \in C : \A y \in C : Len(y) <= Len(z)
  <1>8. LongestCommonPrefix({h, r}) = l
    BY DEF LongestCommonPrefix, C
  <1>9. l \in C /\ \A y \in C : Len(y) <= Len(l)
    BY <1>7
  <1> HIDE DEF l
  <1>10. Ancestor(h, r) = Len(l)
    BY <1>8 DEF Ancestor
  <1> QED BY <1>1, <1>2, <1>9, <1>10

-----------------------------------------------------------------------------
(* The inductive invariant: every consumer has taken in a beginning of     *)
(* what some valid history shows, up to its cursor.                        *)
Follows(s, at) ==
    IF at = NoCursor THEN s = <<>> ELSE \E g \in Valid : TakenFrom(s, at, g)

ReadersInv ==
    /\ local \in Valid /\ info \in Valid
    /\ holder \in {"free", "ok", "failed"}
    /\ kept \in [Consumers -> Stored]
    /\ seen \in [Consumers -> Seq(Entries)]
    /\ cursor \in [Consumers -> Spots \cup {NoCursor}]
    /\ \A c \in Consumers : Follows(seen[c], cursor[c])
    /\ \A c \in detached : cursor[c] # NoCursor
    /\ InfoIsAccepted

(* The least of a set of positions.                                        *)
LEMMA MinIs ==
    ASSUME NEW I \in SUBSET Nat, NEW m \in I, \A i \in I : m <= i
    PROVE  Min(I) = m
  <1>1. \A x \in I : (\A y \in I : x =< y) => x = m
    OBVIOUS
  <1> QED BY <1>1 DEF Min

(* Of two places of a history only the later one is after the other.       *)
LEMMA AfterOrders ==
    ASSUME NEW h \in Valid, NEW i \in DOMAIN Found[h], NEW n \in DOMAIN Found[h]
    PROVE  After(Found[h][i].at, Found[h][n].at) <=> i > n
  <1> DEFINE f == Found[h]
  <1>1. f \in Seq(Entries) /\ InOrder(f)
    BY FoundDisplays DEF Displays, Lays
  <1>2. f[i] \in Entries /\ f[n] \in Entries /\ i \in Nat /\ n \in Nat
    BY <1>1
  <1> HIDE DEF f
  <1>3. f[i].at \in Spots /\ f[n].at \in Spots
    BY <1>2 DEF Entries
  <1>4. CASE i > n
    BY <1>1, <1>2, <1>4 DEF InOrder, f
  <1>5. CASE i = n
    BY <1>2, <1>3, <1>5 DEF After, Spots, f
  <1>6. CASE i < n
    <2>1. After(f[n].at, f[i].at)
      BY <1>1, <1>6 DEF InOrder, f
    <2>2. ~After(f[i].at, f[n].at)
      BY <2>1, <1>3 DEF After, Spots
    <2> QED BY <2>2, <1>2, <1>6 DEF f
  <1> QED BY <1>2, <1>4, <1>5, <1>6

Answered(h, at) == IF at = NoCursor THEN FirstRecord(h) ELSE NextRecord(h, at)

(* FIRST answers the first record of the history and NEXT the one after    *)
(* the cursor, so what the consumer has taken in stays a beginning of what *)
(* the history shows (stn_chain_first_record, stn_chain_next_record).      *)
LEMMA ReadTakes ==
    ASSUME NEW h \in Valid, NEW s \in Seq(Entries), NEW at, Follows(s, at),
           Answered(h, at).result = "RECORD"
    PROVE  LET m == Answered(h, at).match
           IN m \in Entries /\ TakenFrom(Append(s, m), m.at, h)
  <1> DEFINE f == Found[h]
             n == Len(s)
  <1>1. f \in Seq(Entries) /\ Len(f) \in Nat /\ n \in Nat /\ DOMAIN f = 1..Len(f)
    BY FoundDisplays DEF Displays, Lays
  <1>2. ASSUME NEW I \in SUBSET DOMAIN f, Earliest(h, I).result = "RECORD"
        PROVE  I # {} /\ Earliest(h, I).match = f[Min(I)]
    <2>1. ~Undecided(h) /\ I # {}
      BY <1>2 DEF Earliest
    <2> QED BY <2>1 DEF Earliest
  <1> HIDE DEF f
  <1>3. /\ n + 1 \in 1..Len(f) /\ Answered(h, at).match = f[n + 1]
        /\ \A i \in 1..n : s[i] = f[i]
    <2>1. CASE at = NoCursor
      <3>1. s = <<>> /\ n = 0
        BY <2>1 DEF Follows
      <3>2. Answered(h, at) = Earliest(h, DOMAIN f)
        BY <2>1 DEF Answered, FirstRecord, f
      <3>3. DOMAIN f # {} /\ Answered(h, at).match = f[Min(DOMAIN f)]
        BY <3>2, <1>2
      <3>4. 1 \in DOMAIN f /\ \A i \in DOMAIN f : i \in Nat /\ 1 <= i
        BY <3>3, <1>1
      <3>5. Min(DOMAIN f) = 1
        BY <3>4, MinIs
      <3> QED BY <3>1, <3>3, <3>4, <3>5, <1>1
    <2>2. CASE at # NoCursor
      <3>1. Answered(h, at) = NextRecord(h, at)
        BY <2>2 DEF Answered
      <3>2. CursorStatus(h, at) = "VALID"
        <4> SUFFICES ASSUME CursorStatus(h, at) # "VALID" PROVE FALSE
          OBVIOUS
        <4>1. Answered(h, at).result = CursorStatus(h, at)
          BY <3>1 DEF NextRecord
        <4>2. CursorStatus(h, at) \in {"UNAVAILABLE", "VALID", "DETACHED"}
          BY DEF CursorStatus
        <4> QED BY <4>1, <4>2
      <3>3. Holds(h, at)
        BY <3>2 DEF CursorStatus
      <3>4. PICK g \in Valid : TakenFrom(s, at, g)
        BY <2>2 DEF Follows
      <3>5. TakenFrom(s, at, h)
        BY <3>3, <3>4, CursorCarries
      <3>6. n \in 1..Len(f) /\ (\A i \in 1..n : s[i] = f[i]) /\ at = f[n].at
        BY <3>5 DEF TakenFrom, f
      <3> DEFINE I == Later(h, at)
      <3>7. Answered(h, at) = Earliest(h, I)
        BY <3>1, <3>2 DEF NextRecord
      <3>8. \A i \in DOMAIN f : After(f[i].at, at) <=> i > n
        BY <3>6, <1>1, AfterOrders DEF f
      <3>9. I = {i \in DOMAIN f : i > n}
        BY <3>8 DEF Later, f
      <3>10. I # {} /\ Answered(h, at).match = f[Min(I)]
        BY <3>7, <3>9, <1>2
      <3> HIDE DEF I
      <3>11. n + 1 \in I /\ I \in SUBSET Nat /\ (\A i \in I : n + 1 <= i) /\ n + 1 \in 1..Len(f)
        BY <3>9, <3>10, <1>1
      <3>12. Min(I) = n + 1
        BY <3>11, MinIs
      <3> QED BY <3>6, <3>10, <3>11, <3>12
    <2> QED BY <2>1, <2>2
  <1> DEFINE m == Answered(h, at).match
             t == Append(s, m)
  <1>4. m \in Entries /\ m = f[n + 1]
    BY <1>1, <1>3
  <1> HIDE DEF m
  <1>5. /\ t \in Seq(Entries) /\ Len(t) = n + 1 /\ t[n + 1] = m
        /\ \A i \in 1..n : t[i] = s[i]
    BY <1>4, AppendProperties
  <1> HIDE DEF t
  <1>6. \A i \in 1..(n + 1) : t[i] = f[i]
    BY <1>1, <1>3, <1>4, <1>5
  <1>7. TakenFrom(t, m.at, h)
    BY <1>3, <1>4, <1>5, <1>6 DEF TakenFrom, f
  <1> QED BY <1>4, <1>7 DEF m, t

(* The plan after a reorganization: what was taken in up to the common     *)
(* block is all the new history shows up to it, and the consumer resumes   *)
(* behind its last record (stn_chain_build_consumer_recovery_plan).        *)
LEMMA RecoverTakes ==
    ASSUME NEW h \in Valid, NEW r \in Stored, NEW s \in Seq(Entries), NEW at,
           at # NoCursor, Follows(s, at),
           ReorgStatus(h, r, at).result = "COMMON_ANCESTOR"
    PROVE  LET k == ReorgStatus(h, r, at).height
           IN /\ Below(s, k) \in Seq(Entries)
              /\ Resume(h, k) \in Spots \cup {NoCursor}
              /\ Follows(Below(s, k), Resume(h, k))
  <1> DEFINE a == Ancestor(h, r)
             f == Found[r]
             e == Found[h]
             n == Len(s)
  <1>1. /\ r # <<>> /\ CursorStatus(h, at) = "DETACHED" /\ CursorStatus(r, at) = "VALID"
        /\ ReorgStatus(h, r, at).height = a
    <2>1. CursorStatus(h, at) # "VALID" /\ CursorStatus(h, at) # "UNAVAILABLE"
      BY DEF ReorgStatus
    <2>2. r # <<>> /\ CursorStatus(h, at) = "DETACHED" /\ CursorStatus(r, at) = "VALID"
      BY <2>1 DEF ReorgStatus
    <2> QED BY <2>1, <2>2 DEF ReorgStatus
  <1>2. ~Holds(h, at) /\ Holds(r, at) /\ r \in Valid
    <2>1. r \in Valid
      BY <1>1 DEF Stored
    <2>2. ~Holds(h, at) /\ Holds(r, at)
      BY <1>1 DEF CursorStatus
    <2> QED BY <2>1, <2>2
  <1>3. PICK g \in Valid : TakenFrom(s, at, g)
    BY DEF Follows
  <1>4. TakenFrom(s, at, r)
    BY <1>2, <1>3, CursorCarries
  <1>5. /\ f \in Seq(Entries) /\ Len(f) \in Nat /\ e \in Seq(Entries) /\ Len(e) \in Nat
        /\ \A i \in DOMAIN f : On(r, f[i]) /\ f[i].at.height >= 1
        /\ \A i \in DOMAIN e : On(h, e[i]) /\ e[i].at.height >= 1
    <2>1. ASSUME NEW x \in Valid
          PROVE  /\ Found[x] \in Seq(Entries) /\ Len(Found[x]) \in Nat
                 /\ \A i \in DOMAIN Found[x] : On(x, Found[x][i]) /\ Found[x][i].at.height >= 1
      <3>1. Lays(x, Found[x]) /\ Len(x) \in Nat
        BY FoundDisplays, ValidPrefix DEF Displays
      <3>2. Found[x] \in Seq(Entries) /\ \A i \in DOMAIN Found[x] : On(x, Found[x][i])
        BY <3>1 DEF Lays
      <3> QED BY <3>1, <3>2 DEF On
    <2> QED BY <1>2, <2>1
  <1>6. n \in 1..Len(f) /\ (\A i \in 1..n : s[i] = f[i]) /\ at = f[n].at /\ n \in Nat
    BY <1>4 DEF TakenFrom
  <1>7. /\ a \in Nat /\ a <= Len(h) /\ a <= Len(r) /\ Prefix(h, a) = Prefix(r, a)
        /\ h \in Seq(Blocks) /\ r \in Seq(Blocks) /\ Len(h) \in Nat /\ Len(r) \in Nat
    BY <1>2, AncestorIs, ValidPrefix
  <1> HIDE DEF a, f, e
  <1>8. On(r, f[n])
    BY <1>5, <1>6
  <1>9. at.height > a
    <2> SUFFICES ASSUME ~(at.height > a)
                 PROVE  FALSE
      OBVIOUS
    <2>1. /\ at.height \in 1..Len(r) /\ r[at.height] = at.block
          /\ at.position \in 1..Len(Content[at.block])
      BY <1>6, <1>8 DEF On
    <2>2. at.height \in 1..a
      BY <2>1, <1>7
    <2>3. Prefix(h, a)[at.height] = h[at.height] /\ Prefix(r, a)[at.height] = r[at.height]
      BY <2>2, <1>7 DEF Prefix
    <2>4. h[at.height] = at.block /\ at.height <= Len(h)
      BY <2>1, <2>2, <2>3, <1>7
    <2>5. Len(Content[at.block]) \in Nat
      BY <2>1, <1>7, ReadersAssumption
    <2>6. at.position <= Len(Content[at.block])
      BY <2>1, <2>5
    <2> QED BY <2>4, <2>6, <1>2 DEF Holds
  <1>10. \E m \in 0..n : /\ m <= Len(e)
                         /\ \A i \in 1..m : s[i] = e[i]
                         /\ Below(s, a) = SubSeq(s, 1, m)
                         /\ Below(e, a) = SubSeq(e, 1, m)
    <2>1. CASE a = 0
      <3>1. /\ \A i \in DOMAIN s : i > 0 => s[i].at.height > a
            /\ \A i \in DOMAIN e : i > 0 => e[i].at.height > a
            /\ \A i \in 1..0 : s[i].at.height <= a /\ e[i].at.height <= a
        <4>1. ASSUME NEW i \in DOMAIN s
              PROVE  s[i].at.height > a
          <5>1. i \in 1..n /\ i \in DOMAIN f /\ s[i] = f[i]
            BY <1>5, <1>6
          <5>2. f[i].at.height \in Nat
            BY <5>1, <1>5, <1>7 DEF On
          <5> QED BY <5>1, <5>2, <1>5, <2>1
        <4>2. ASSUME NEW i \in DOMAIN e
              PROVE  e[i].at.height > a
          <5>1. e[i].at.height \in Nat
            BY <1>5, <1>7 DEF On
          <5> QED BY <5>1, <1>5, <2>1
        <4> QED BY <4>1, <4>2
      <3>2. 0 \in 0..n /\ 0 \in 0..Len(e)
        BY <1>5, <1>6
      <3>3. Below(s, a) = SubSeq(s, 1, 0)
        BY <3>1, <3>2, <1>7, BelowIs
      <3>4. Below(e, a) = SubSeq(e, 1, 0)
        BY <3>1, <3>2, <1>5, <1>7, BelowIs
      <3> QED BY <3>2, <3>3, <3>4, <1>5
    <2>2. CASE a # 0
      <3> DEFINE p == Prefix(h, a)
                 d == Found[p]
                 m == Len(d)
      <3>1. a \in 1..Len(h) /\ a \in 1..Len(r) /\ p \in Valid
        BY <2>2, <1>7, ValidPrefix
      <3>2. /\ Begins(d, e) /\ Beyond(d, e, a)
            /\ \A i \in DOMAIN d : d[i].at.height <= a
        BY <3>1, FoundBegins DEF e
      <3>3. Begins(d, f) /\ Beyond(d, f, a)
        BY <3>1, <1>2, <1>7, FoundBegins DEF f
      <3>4. d \in Seq(Entries) /\ m \in Nat
        BY <3>1, FoundDisplays DEF Displays, Lays
      <3> HIDE DEF d
      <3>5. /\ m <= Len(e) /\ m <= Len(f)
            /\ \A i \in 1..m : i \in DOMAIN d /\ e[i] = d[i] /\ f[i] = d[i]
        BY <3>2, <3>3, <3>4 DEF Begins
      <3>6. m < n
        <4> SUFFICES ASSUME ~(m < n)
                     PROVE  FALSE
          OBVIOUS
        <4>1. n \in 1..m
          BY <3>4, <1>6
        <4>2. at.height <= a
          BY <4>1, <3>2, <3>5, <1>6
        <4>3. at.height \in Nat
          BY <1>6, <1>7, <1>8 DEF On
        <4> QED BY <4>2, <4>3, <1>7, <1>9
      <3>7. \A i \in 1..m : i \in 1..n /\ s[i] = f[i] /\ s[i] = e[i] /\ s[i].at.height <= a
                            /\ e[i].at.height <= a
        BY <3>2, <3>4, <3>5, <3>6, <1>6
      <3>8. \A i \in DOMAIN s : i > m => s[i].at.height > a
        <4>1. \A i \in DOMAIN s : i \in DOMAIN f /\ s[i] = f[i]
          BY <1>5, <1>6
        <4> QED BY <4>1, <3>3 DEF Beyond
      <3>9. \A i \in DOMAIN e : i > m => e[i].at.height > a
        BY <3>2 DEF Beyond
      <3>10. m \in 0..n /\ m \in 0..Len(e)
        BY <3>4, <3>5, <3>6, <1>5, <1>6
      <3> HIDE DEF m
      <3>11. Below(s, a) = SubSeq(s, 1, m)
        BY <3>7, <3>8, <3>10, <1>7, BelowIs
      <3>12. Below(e, a) = SubSeq(e, 1, m)
        BY <3>7, <3>9, <3>10, <1>5, <1>7, BelowIs
      <3> QED BY <3>5, <3>7, <3>10, <3>11, <3>12
    <2> QED BY <2>1, <2>2
  <1>11. PICK m \in 0..n : /\ m <= Len(e)
                           /\ \A i \in 1..m : s[i] = e[i]
                           /\ Below(s, a) = SubSeq(s, 1, m)
                           /\ Below(e, a) = SubSeq(e, 1, m)
    BY <1>10
  <1> DEFINE b == Below(s, a)
             c == Below(e, a)
  <1>12. /\ b \in Seq(Entries) /\ Len(b) = m /\ (\A i \in 1..m : b[i] = s[i])
         /\ c \in Seq(Entries) /\ Len(c) = m /\ (\A i \in 1..m : c[i] = e[i])
         /\ m \in Nat
    BY <1>5, <1>6, <1>11
  <1>13. Resume(h, a) = IF c = <<>> THEN NoCursor ELSE Last(c).at
    BY DEF Resume, e
  <1> HIDE DEF b, c
  <1>14. Resume(h, a) \in Spots \cup {NoCursor} /\ Follows(b, Resume(h, a))
    <2>1. CASE m = 0
      <3>1. b = <<>> /\ c = <<>>
        BY <2>1, <1>12
      <3> QED BY <3>1, <1>13 DEF Follows
    <2>2. CASE m # 0
      <3>1. c # <<>> /\ m \in 1..m /\ Last(c) = e[m]
        BY <2>2, <1>12 DEF Last
      <3>2. Resume(h, a) = e[m].at /\ e[m] \in Entries
        BY <3>1, <1>5, <1>11, <1>12, <1>13
      <3>3. Resume(h, a) \in Spots
        BY <3>2 DEF Entries
      <3>4. Resume(h, a) # NoCursor
        BY <3>3, ReadersAssumption DEF Spots
      <3>5. m \in 1..Len(e)
        BY <2>2, <1>5, <1>11, <1>12
      <3>6. TakenFrom(b, e[m].at, h)
        BY <3>5, <1>11, <1>12 DEF TakenFrom, e
      <3> QED BY <3>2, <3>3, <3>4, <3>6 DEF Follows
    <2> QED BY <2>1, <2>2
  <1> QED BY <1>1, <1>12, <1>14 DEF b

-----------------------------------------------------------------------------
(* Nothing has been read of the first history.                             *)
LEMMA ReadersInit == Init => ReadersInv
  <1> SUFFICES ASSUME Init PROVE ReadersInv
    OBVIOUS
  <1>1. local \in Valid /\ info = local /\ holder = "free"
    BY HistoriesAssumption DEF Init
  <1>2. IsPrefix(local, local)
    BY <1>1, ValidPrefix DEF IsPrefix
  <1>3. \A c \in Consumers : seen[c] = <<>> /\ cursor[c] = NoCursor
    BY DEF Init
  <1>4. kept \in [Consumers -> Stored] /\ seen \in [Consumers -> Seq(Entries)]
        /\ cursor \in [Consumers -> Spots \cup {NoCursor}] /\ detached = {}
    BY DEF Init, Stored
  <1> QED BY <1>1, <1>2, <1>3, <1>4 DEF ReadersInv, Follows, InfoIsAccepted

(* A history that is extended begins with what it was                      *)
(* (internal_miner_thread).                                                *)
LEMMA PrefixOfAppend ==
    ASSUME NEW h \in Seq(Blocks), NEW g \in Seq(Blocks), NEW b \in Blocks, IsPrefix(g, h)
    PROVE  IsPrefix(g, Append(h, b))
  <1>1. /\ Append(h, b) \in Seq(Blocks) /\ Len(Append(h, b)) = Len(h) + 1
        /\ \A i \in 1..Len(h) : Append(h, b)[i] = h[i]
    BY AppendProperties
  <1>2. Len(g) \in Nat /\ Len(h) \in Nat /\ Len(g) <= Len(h)
        /\ SubSeq(g, 1, Len(g)) = SubSeq(h, 1, Len(g))
    BY DEF IsPrefix
  <1>3. SubSeq(Append(h, b), 1, Len(g)) = SubSeq(h, 1, Len(g))
    BY <1>1, <1>2
  <1> QED BY <1>1, <1>2, <1>3 DEF IsPrefix

(* A request leaves the published copy as it must be: it is made anew, or  *)
(* another host asked (publish_info).                                      *)
LEMMA AnswersKeepInfo ==
    ASSUME ReadersInv, NEW c \in Consumers, Answers(c)
    PROVE  /\ local' \in Valid /\ local' = local /\ info' \in Valid
           /\ holder' \in {"free", "ok", "failed"} /\ InfoIsAccepted'
  <1>1. IsPrefix(local, local)
    BY ValidPrefix DEF IsPrefix, ReadersInv
  <1> QED BY <1>1 DEF ReadersInv, Answers, InfoIsAccepted

(* What one consumer takes in concerns no other.                           *)
LEMMA MovesFollow ==
    ASSUME ReadersInv, NEW c \in Consumers, NEW s \in Seq(Entries),
           NEW at \in Spots \cup {NoCursor}, Follows(s, at), Moves(c, s, at),
           \A d \in detached' : d \in detached /\ d # c
    PROVE  /\ kept' \in [Consumers -> Stored]
           /\ seen' \in [Consumers -> Seq(Entries)]
           /\ cursor' \in [Consumers -> Spots \cup {NoCursor}]
           /\ \A d \in Consumers : Follows(seen'[d], cursor'[d])
           /\ \A d \in detached' : cursor'[d] # NoCursor
  <1>1. /\ kept \in [Consumers -> Stored] /\ local \in Stored
        /\ seen \in [Consumers -> Seq(Entries)]
        /\ cursor \in [Consumers -> Spots \cup {NoCursor}]
        /\ \A d \in Consumers : Follows(seen[d], cursor[d])
        /\ \A d \in detached : cursor[d] # NoCursor
    BY DEF ReadersInv, Stored
  <1>2. kept' \in [Consumers -> Stored]
    BY <1>1 DEF Moves
  <1>3. /\ seen' \in [Consumers -> Seq(Entries)]
        /\ cursor' \in [Consumers -> Spots \cup {NoCursor}]
        /\ seen'[c] = s /\ cursor'[c] = at
        /\ \A d \in Consumers : d # c => seen'[d] = seen[d] /\ cursor'[d] = cursor[d]
    BY <1>1 DEF Moves
  <1>4. \A d \in detached' : cursor'[d] = cursor[d]
    BY <1>1 DEF Moves
  <1> QED BY <1>1, <1>2, <1>3, <1>4

(* A consumer reads: the accepted history answers from where its cursor    *)
(* stands (stn_node_service_handle).                                       *)
LEMMA ReadKeepsInv ==
    ASSUME ReadersInv, NEW c \in Consumers, Read(c)
    PROVE  ReadersInv'
  <1> DEFINE answer == Answered(local, cursor[c])
             m == answer.match
  <1>1. /\ local' \in Valid /\ local' = local /\ info' \in Valid
        /\ holder' \in {"free", "ok", "failed"} /\ InfoIsAccepted'
    BY AnswersKeepInfo DEF Read
  <1>2. local \in Valid /\ seen[c] \in Seq(Entries) /\ Follows(seen[c], cursor[c])
    BY DEF ReadersInv
  <1>3. /\ IF answer.result = "RECORD"
           THEN Moves(c, Append(seen[c], m), m.at)
           ELSE UNCHANGED <<seen, cursor, kept>>
        /\ detached' = IF answer.result = "DETACHED" THEN detached \cup {c}
                       ELSE detached \ {c}
    BY DEF Read, Answered
  <1>4. answer.result = "RECORD" => m \in Entries /\ TakenFrom(Append(seen[c], m), m.at, local)
    BY <1>2, ReadTakes
  <1>5. answer.result = "DETACHED" => cursor[c] # NoCursor
    <2> SUFFICES ASSUME cursor[c] = NoCursor
                 PROVE  answer.result # "DETACHED"
      OBVIOUS
    <2>1. answer = Earliest(local, DOMAIN Found[local])
      BY DEF Answered, FirstRecord
    <2> HIDE DEF answer
    <2>2. answer.result \in {"UNAVAILABLE", "END", "PROVIDER", "RECORD"}
      BY <2>1 DEF Earliest
    <2> QED BY <2>2
  <1> HIDE DEF answer, m
  <1>6. CASE answer.result = "RECORD"
    <2> DEFINE t == Append(seen[c], m)
    <2>1. Moves(c, t, m.at) /\ detached' = detached \ {c}
      BY <1>3, <1>6
    <2>2. m \in Entries /\ TakenFrom(t, m.at, local)
      BY <1>4, <1>6
    <2>3. m.at \in Spots /\ m.at # NoCursor
      BY <2>2, ReadersAssumption DEF Entries, Spots
    <2>4. t \in Seq(Entries)
      BY <2>2 DEF TakenFrom
    <2> HIDE DEF t
    <2>5. Follows(t, m.at)
      BY <1>2, <2>2, <2>3 DEF Follows
    <2>6. \A d \in detached' : d \in detached /\ d # c
      BY <2>1
    <2>7. /\ kept' \in [Consumers -> Stored]
          /\ seen' \in [Consumers -> Seq(Entries)]
          /\ cursor' \in [Consumers -> Spots \cup {NoCursor}]
          /\ \A d \in Consumers : Follows(seen'[d], cursor'[d])
          /\ \A d \in detached' : cursor'[d] # NoCursor
      BY <2>1, <2>3, <2>4, <2>5, <2>6, MovesFollow
    <2> QED BY <1>1, <2>7 DEF ReadersInv
  <1>7. CASE answer.result # "RECORD"
    <2>1. seen' = seen /\ cursor' = cursor /\ kept' = kept
      BY <1>3, <1>7
    <2>2. \A d \in detached' : cursor[d] # NoCursor
      BY <1>3, <1>5 DEF ReadersInv
    <2> QED BY <1>1, <2>1, <2>2 DEF ReadersInv
  <1> QED BY <1>6, <1>7

(* A detached consumer follows the plan, starts again or asks again        *)
(* (stn_chain_resolve_cursor_reorg).                                       *)
LEMMA RecoverKeepsInv ==
    ASSUME ReadersInv, NEW c \in Consumers, Recover(c)
    PROVE  ReadersInv'
  <1> DEFINE status == ReorgStatus(local, kept[c], cursor[c])
             k == status.height
             s == Below(seen[c], k)
             at == Resume(local, k)
  <1>1. /\ local' \in Valid /\ local' = local /\ info' \in Valid
        /\ holder' \in {"free", "ok", "failed"} /\ InfoIsAccepted'
    BY AnswersKeepInfo DEF Recover
  <1>2. /\ local \in Valid /\ kept[c] \in Stored /\ seen[c] \in Seq(Entries)
        /\ Follows(seen[c], cursor[c]) /\ cursor[c] # NoCursor
    BY DEF ReadersInv, Recover
  <1>3. status.result = "COMMON_ANCESTOR" =>
            s \in Seq(Entries) /\ at \in Spots \cup {NoCursor} /\ Follows(s, at)
    BY <1>2, RecoverTakes
  <1>4. /\ detached' = detached \ {c}
        /\ CASE status.result = "COMMON_ANCESTOR" /\ ~PlanFails(local, k) -> Moves(c, s, at)
             [] status.result = "NO_COMMON_ANCESTOR" -> Moves(c, <<>>, NoCursor)
             [] OTHER -> UNCHANGED <<seen, cursor, kept>>
    BY DEF Recover
  <1>5. \A d \in detached' : d \in detached /\ d # c
    BY <1>4
  <1>6. <<>> \in Seq(Entries) /\ Follows(<<>>, NoCursor)
    BY DEF Follows
  <1> HIDE DEF status, s, at
  <1> DEFINE Followed ==
        /\ kept' \in [Consumers -> Stored]
        /\ seen' \in [Consumers -> Seq(Entries)]
        /\ cursor' \in [Consumers -> Spots \cup {NoCursor}]
        /\ \A d \in Consumers : Follows(seen'[d], cursor'[d])
        /\ \A d \in detached' : cursor'[d] # NoCursor
  <1>7. CASE status.result = "COMMON_ANCESTOR" /\ ~PlanFails(local, k)
    <2>1. Moves(c, s, at)
      BY <1>4, <1>7
    <2>2. Followed
      BY <1>3, <1>5, <1>7, <2>1, MovesFollow
    <2> QED BY <1>1, <2>2 DEF ReadersInv
  <1>8. CASE status.result = "NO_COMMON_ANCESTOR"
    <2>1. Moves(c, <<>>, NoCursor)
      BY <1>4, <1>8
    <2>2. Followed
      BY <1>5, <1>6, <2>1, MovesFollow
    <2> QED BY <1>1, <2>2 DEF ReadersInv
  <1>9. CASE /\ ~(status.result = "COMMON_ANCESTOR" /\ ~PlanFails(local, k))
            /\ status.result # "NO_COMMON_ANCESTOR"
    <2>1. seen' = seen /\ cursor' = cursor /\ kept' = kept
      BY <1>4, <1>9
    <2> QED BY <1>1, <1>5, <2>1 DEF ReadersInv
  <1> QED BY <1>7, <1>8, <1>9

(* No step loses it.                                                       *)
LEMMA ReadersStep == ReadersInv /\ [Next]_vars => ReadersInv'
  <1> SUFFICES ASSUME ReadersInv, [Next]_vars PROVE ReadersInv'
    OBVIOUS
  <1>1. ASSUME NEW h \in Valid, NEW result \in {"ok", "failed"}, Operation(h, result)
        PROVE  ReadersInv'
    BY <1>1 DEF ReadersInv, Operation, consumers, InfoIsAccepted
  <1>2. CASE Publish
    <2>1. IsPrefix(local, local)
      BY ValidPrefix DEF IsPrefix, ReadersInv
    <2> QED BY <1>2, <2>1 DEF ReadersInv, Publish, consumers, InfoIsAccepted
  <1>3. ASSUME NEW b \in Blocks, Mine(b)
        PROVE  ReadersInv'
    <2>1. local \in Seq(Blocks) /\ info \in Seq(Blocks) /\ IsPrefix(info, local)
      BY <1>3, ValidPrefix DEF ReadersInv, Mine, InfoIsAccepted
    <2>2. local' = Append(local, b) /\ local' \in Valid
      BY <1>3 DEF Mine
    <2>3. IsPrefix(info, local')
      BY <2>1, <2>2, PrefixOfAppend
    <2> QED BY <1>3, <2>2, <2>3 DEF ReadersInv, Mine, consumers, InfoIsAccepted
  <1>4. ASSUME NEW c \in Consumers, Consumes(c)
        PROVE  ReadersInv'
    BY <1>4, ReadKeepsInv, RecoverKeepsInv DEF Consumes
  <1>5. CASE UNCHANGED vars
    BY <1>5 DEF ReadersInv, vars, consumers, InfoIsAccepted
  <1> QED BY <1>1, <1>2, <1>3, <1>4, <1>5 DEF Next

(* What was taken in is what the accepted history shows wherever it holds  *)
(* the cursor.                                                             *)
LEMMA ReadersSound == ReadersInv => SeenIsAccepted
  <1> SUFFICES ASSUME ReadersInv, NEW c \in Consumers, cursor[c] # NoCursor,
                      Holds(local, cursor[c])
               PROVE  LET s == seen[c]
                      IN /\ IsPrefix(s, Found[local]) /\ Last(s).at = cursor[c]
                         /\ \A i, j \in DOMAIN s :
                               i # j => ReplayKey(s[i].record) # ReplayKey(s[j].record)
                         /\ \A i \in DOMAIN s :
                               /\ ~After(TransactionStatus(local, s[i].record), s[i].at)
                               /\ ~Undecided(local) =>
                                     LookupRecord(local, s[i].record).match = s[i]
    BY DEF ReadersInv, Follows, SeenIsAccepted
  <1> DEFINE s == seen[c]
             f == Found[local]
             n == Len(s)
             P == Placed(local)
  <1>1. local \in Valid /\ Displays(local, f)
    BY FoundDisplays DEF ReadersInv
  <1>2. PICK g \in Valid : TakenFrom(s, cursor[c], g)
    BY DEF ReadersInv, Follows
  <1>3. TakenFrom(s, cursor[c], local)
    BY <1>1, <1>2, CursorCarries
  <1>4. /\ s \in Seq(Entries) /\ n \in 1..Len(f) /\ f \in Seq(Entries) /\ n \in Nat
        /\ \A i \in 1..n : s[i] = f[i]
        /\ cursor[c] = f[n].at
    BY <1>1, <1>3 DEF TakenFrom, Displays, Lays
  <1>5. /\ \A i \in DOMAIN f : \E m \in DOMAIN P : f[i] = P[m]
        /\ \A i, j \in DOMAIN f :
              i # j => ReplayKey(f[i].record) # ReplayKey(f[j].record)
    BY <1>1 DEF Displays
  <1>6. Lays(local, P)
    BY <1>1, ValidPrefix, PlacedLays
  <1> HIDE DEF s, f, P
  <1>7. \A i \in DOMAIN s : i \in DOMAIN f /\ s[i] = f[i]
    BY <1>4
  <1>8. IsPrefix(s, f)
    BY <1>4 DEF IsPrefix
  <1>9. Last(s).at = cursor[c]
    BY <1>4 DEF Last
  <1>10. \A i, j \in DOMAIN s : i # j => ReplayKey(s[i].record) # ReplayKey(s[j].record)
    BY <1>5, <1>7
  <1>11. ASSUME NEW i \in DOMAIN s
         PROVE  ~After(TransactionStatus(local, s[i].record), s[i].at)
    <2> DEFINE I == {m \in DOMAIN P : P[m].record = s[i].record}
    <2>1. PICK x \in DOMAIN P : f[i] = P[x]
      BY <1>5, <1>7
    <2>2. x \in I /\ s[i] = P[x] /\ I \in SUBSET Nat
      BY <2>1, <1>6, <1>7 DEF Lays
    <2>3. TransactionStatus(local, s[i].record) = P[Min(I)].at
      BY DEF TransactionStatus, P
    <2>4. PICK y \in I : \A z \in I : y <= z
      BY <2>2, LeastNatural
    <2>5. Min(I) = y
      BY <2>2, <2>4, MinIs
    <2>6. y \in DOMAIN P /\ y <= x /\ x \in Nat /\ y \in Nat
      BY <2>2, <2>4
    <2>7. P[x].at \in Spots /\ P[y].at \in Spots
      <3>1. P[x] \in Entries /\ P[y] \in Entries
        BY <2>1, <2>6, <1>6 DEF Lays
      <3> QED BY <3>1 DEF Entries
    <2> HIDE DEF I
    <2>8. ~After(P[y].at, P[x].at)
      <3>1. CASE y = x
        BY <3>1, <2>7 DEF After, Spots
      <3>2. CASE y # x
        <4>1. After(P[x].at, P[y].at)
          BY <3>2, <2>6, <1>6 DEF Lays, InOrder
        <4> QED BY <4>1, <2>7 DEF After, Spots
      <3> QED BY <3>1, <3>2
    <2> QED BY <2>2, <2>3, <2>5, <2>8
  <1>12. ASSUME NEW i \in DOMAIN s, ~Undecided(local)
         PROVE  LookupRecord(local, s[i].record).match = s[i]
    <2> DEFINE I == {j \in DOMAIN f : f[j].record = s[i].record}
    <2>1. i \in DOMAIN f /\ s[i] = f[i] /\ i \in I
      BY <1>7
    <2>2. \A j \in I : j = i
      BY <2>1, <1>5
    <2>3. LookupRecord(local, s[i].record) = Earliest(local, I)
      BY DEF LookupRecord, f
    <2>4. i \in Nat /\ I \in SUBSET Nat /\ \A j \in I : i <= j
      BY <2>1, <2>2, <1>4
    <2> HIDE DEF I
    <2>5. Min(I) = i
      BY <2>1, <2>4, MinIs
    <2>6. Earliest(local, I) = [result |-> "RECORD", match |-> f[Min(I)]]
      BY <2>1, <1>12 DEF Earliest, f
    <2> QED BY <2>1, <2>3, <2>5, <2>6
  <1> QED BY <1>8, <1>9, <1>10, <1>11, <1>12 DEF s, f

(* A consumer whose cursor stands in the accepted history has taken in     *)
(* exactly the records that history shows up to it, each once, whatever    *)
(* was detached and attached between its requests and whatever plan it     *)
(* recovered by (stn_chain_next_record,                                    *)
(* stn_chain_build_consumer_recovery_plan).                                *)
THEOREM ConsumersFollow == Spec => []SeenIsAccepted
  <1>1. Spec => []ReadersInv
    BY ReadersInit, ReadersStep, PTL DEF Spec
  <1> QED BY <1>1, ReadersSound, PTL

(* Outside an operation INFO shows a beginning of the accepted history, at *)
(* any number of operations, failures and mined blocks (publish_info).     *)
THEOREM InfoFollows == Spec => []InfoIsAccepted
  <1>1. Spec => []ReadersInv
    BY ReadersInit, ReadersStep, PTL DEF Spec
  <1>2. ReadersInv => InfoIsAccepted
    BY DEF ReadersInv
  <1> QED BY <1>1, <1>2, PTL
===============================================================================
