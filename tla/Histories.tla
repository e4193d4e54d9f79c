------------------------------ MODULE Histories ------------------------------
(***************************************************************************)
(* Histories as storage and fork choice see them.  A history is a sequence *)
(* of blocks; Valid holds those that reconstruction from EMPTY accepts     *)
(* (module Chain says which) and Work is the cumulative work it derives.   *)
(* Block identifiers are injective, so a tip determines its history.       *)
(***************************************************************************)
EXTENDS Integers, Sequences

CONSTANTS
    Blocks,     \* blocks that exist
    Genesis,    \* the configured anchor
    Valid,      \* the histories reconstruction accepts
    Work,       \* their cumulative work
    Deferred    \* blocks whose evidence state-only validation cannot decide

Prefix(h, k) == SubSeq(h, 1, k)

ASSUME HistoriesAssumption ==
    /\ Genesis \in Blocks
    /\ Deferred \subseteq Blocks
    /\ Valid \subseteq Seq(Blocks) \ {<<>>}
    /\ <<Genesis>> \in Valid
    /\ Work \in [Valid -> Nat]
    /\ \A h \in Valid : \A k \in 1..(Len(h) - 1) :
        Prefix(h, k) \in Valid /\ Work[Prefix(h, k)] < Work[h]
    /\ \A g, h \in Valid : g[Len(g)] = h[Len(h)] => g = h

(* A history that may be absent: <<>> is "no block survives". *)
Stored == Valid \cup {<<>>}

(* Fork choice: strictly more work, and nothing to beat where nothing is. *)
Prefers(h, current) == current # <<>> => Work[h] > Work[current]

SameTip(g, h) == g # <<>> /\ h # <<>> /\ g[Len(g)] = h[Len(h)]
==============================================================================
