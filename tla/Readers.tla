-------------------------------- MODULE Readers --------------------------------
(***************************************************************************)
(* Who reads the accepted history while it changes: consumers that take    *)
(* its records one by one behind a cursor (stn_chain.c, stn_fork.c,        *)
(* stn_node_service.c) and INFO, answered from a published copy without    *)
(* the dispatch lock (stn_app_linux.c).                                    *)
(*                                                                         *)
(* A block is the sequence of its transactions, the index of a block is    *)
(* its height plus one.  Others are the transactions that are neither      *)
(* authority records nor publications: transfers, destinations, shares,    *)
(* issuances, compensation evidence, contract actions.  The executable     *)
(* keeps no detached history; Keepers are hosts of the library that retain *)
(* the history they last read.  What a consumer does with an answer is not *)
(* in the repository and follows docs/ARCHITECTURE.md, 4A to 4C.           *)
(***************************************************************************)
EXTENDS Histories, Lifecycle, SequencesExt

CONSTANTS
    Others,       \* transactions the authority lifecycle knows nothing of
    Content,      \* the transactions of each block
    Activation,   \* blocks up to this index may hold any publication
    Consumers, Keepers,
    NoCursor

VARIABLES
    local,        \* the accepted history
    holder,       \* an operation that changed it and still holds the lock
    info,         \* the history whose tip INFO shows
    seen,         \* what each consumer has taken in
    cursor,       \* and where its last record stands
    kept,         \* the history a keeper retains
    detached      \* consumers whose last NEXT answered DETACHED

consumers == <<seen, cursor, kept, detached>>
vars == <<local, holder, info, consumers>>

-----------------------------------------------------------------------------
(* Publications below the activation height carry no consensus meaning. *)
Dormant(i, tx) == tx.type = "PUBLICATION" /\ i <= Activation

(* Any other type is malformed to the lifecycle. *)
Applies(tx) == tx.type \in {"GRANT", "REVOKE", "ROTATE", "PUBLICATION"}

TxOK(l, tx) ==
    \/ tx.type = "GRANT" /\ GrantOK(l, tx)
    \/ tx.type = "REVOKE" /\ RevocationOK(l, tx)
    \/ tx.type = "ROTATE" /\ RotationOK(l, tx)
    \/ tx.type = "PUBLICATION" /\ PublicationOK(l, tx)

Applied(l, tx) ==
    CASE tx.type = "GRANT"       -> ApplyGrant(l, tx)
      [] tx.type = "REVOKE"      -> ApplyRevocation(l, tx)
      [] tx.type = "ROTATE"      -> ApplyRotation(l, tx)
      [] tx.type = "PUBLICATION" -> Consume(l, tx)

(* Every transaction of a history with its place. *)
PlacedIn(h, i) ==
    [j \in DOMAIN Content[h[i]] |->
        [at |-> [height |-> i, block |-> h[i], position |-> j],
         record |-> Content[h[i]][j]]]
Placed(h) == FoldLeft(LAMBDA s, e : s \o e, <<>>, [i \in DOMAIN h |-> PlacedIn(h, i)])

(* Consensus keeps the other transactions away from the lifecycle. *)
Accepted(h) ==
    FoldLeft(LAMBDA s, e :
        IF Dormant(e.at.height, e.record) \/ ~Applies(e.record) THEN s
        ELSE [ok |-> s.ok /\ TxOK(s.l, e.record), l |-> Applied(s.l, e.record)],
        [ok |-> TRUE, l |-> EmptyLifecycle], Placed(h)).ok

ASSUME ReadersAssumption ==
    /\ \A tx \in Others : ~Applies(tx)
    /\ Content \in [Blocks -> Seq(LifecycleRecords \cup Others)]
    /\ Activation \in Nat /\ Keepers \subseteq Consumers
    /\ NoCursor \notin [height : Nat, block : Blocks, position : Nat]
    /\ \A h \in Valid : Accepted(h)

(* A publication is shown when history up to it authorises it and no       *)
(* earlier one with its identifier was shown.  The identifiers decide      *)
(* differently from consensus: a dormant publication that was shown uses   *)
(* its own up, one that was not shown does not.  So do the other           *)
(* transactions: the search gives all but dormant publications to the      *)
(* lifecycle, and fails at the first that does not apply.                  *)
ObserveFault(s, e) ==
    LET here == [s EXCEPT !.found = IF e.record.type = "PUBLICATION"
                                       /\ ~s.failed /\ PublicationOK(s.l, e.record)
                                    THEN Append(@, e) ELSE @]
    IN IF s.failed \/ Dormant(e.at.height, e.record) THEN here
       ELSE IF ~Applies(e.record) THEN [s EXCEPT !.failed = TRUE]
       ELSE [here EXCEPT !.l = Applied(@, e.record)]

Observe(s, e) ==
    LET key == ReplayKey(e.record)
        shown == /\ ~s.failed /\ e.record.type = "PUBLICATION"
                 /\ PublicationOK([s.l EXCEPT !.consumed = s.eligible], e.record)
        here == IF shown THEN [s EXCEPT !.eligible = @ \cup {key}, !.found = Append(@, e)]
                ELSE s
    IN IF s.failed \/ Dormant(e.at.height, e.record) THEN here
       ELSE IF ~Applies(e.record) THEN [s EXCEPT !.failed = TRUE]
       ELSE [here EXCEPT !.l = Applied(@, e.record), !.eligible = @ \cup {key}]

Unread == [l |-> EmptyLifecycle, eligible |-> {}, found |-> <<>>, failed |-> FALSE]
Searched == [h \in Valid |-> FoldLeft(Observe, Unread, Placed(h))]
Found == [h \in Valid |-> Searched[h].found]

-----------------------------------------------------------------------------
(* Searches and cursors validate the whole history from state alone first, *)
(* which one block with evidence about older blocks leaves undecided.      *)
Undecided(h) == \E i \in DOMAIN h : h[i] \in Deferred

After(c, d) ==
    c.height > d.height \/ (c.height = d.height /\ c.position > d.position)

Holds(h, c) ==
    /\ c.height <= Len(h)
    /\ h[c.height] = c.block
    /\ c.position <= Len(Content[c.block])

CursorStatus(h, c) ==
    IF Undecided(h) THEN "UNAVAILABLE" ELSE IF Holds(h, c) THEN "VALID" ELSE "DETACHED"

(* The earliest of the records shown at the positions I: it ends the       *)
(* search, and without one the search goes on to the end or fails.         *)
Earliest(h, I) ==
    CASE Undecided(h) -> [result |-> "UNAVAILABLE"]
      [] ~Undecided(h) /\ I # {} -> [result |-> "RECORD", match |-> Found[h][Min(I)]]
      [] ~Undecided(h) /\ I = {} ->
            [result |-> IF Searched[h].failed THEN "PROVIDER" ELSE "END"]

FirstRecord(h) == Earliest(h, DOMAIN Found[h])
LookupRecord(h, r) == Earliest(h, {i \in DOMAIN Found[h] : Found[h][i].record = r})
Later(h, c) == {i \in DOMAIN Found[h] : After(Found[h][i].at, c)}
(* Fault: no later record, where the place itself is gone. *)
NextRecordFault(h, c) ==
    IF CursorStatus(h, c) # "VALID" THEN [result |-> "END"]
    ELSE Earliest(h, Later(h, c))
NextRecord(h, c) ==
    IF CursorStatus(h, c) # "VALID" THEN [result |-> CursorStatus(h, c)]
    ELSE Earliest(h, Later(h, c))

(* The first place a transaction stands at, whether it was shown or not;   *)
(* this query reconstructs and decides evidence.                           *)
TransactionStatus(h, r) ==
    LET placed == Placed(h)
    IN placed[Min({i \in DOMAIN placed : placed[i].record = r})].at

(* Fork evaluation of the two histories gives their last common block. *)
Ancestor(h, r) == Len(LongestCommonPrefix({h, r}))

ReorgStatus(h, r, c) ==
    CASE CursorStatus(h, c) = "VALID" -> [result |-> "CURRENT"]
      [] CursorStatus(h, c) = "UNAVAILABLE" -> [result |-> "UNAVAILABLE"]
      [] r # <<>> /\ CursorStatus(h, c) = "DETACHED" /\ CursorStatus(r, c) = "VALID" ->
            [result |-> "COMMON_ANCESTOR", height |-> Ancestor(h, r)]
      [] OTHER -> [result |-> "NO_COMMON_ANCESTOR"]

(* Records come in the order of their places.  The last one up to the      *)
(* common block, if there is one, is where the consumer resumes after      *)
(* dropping what it took in beyond that block.                             *)
Below(s, height) ==
    Prefix(s, Max({0} \cup {i \in DOMAIN s : s[i].at.height <= height}))

(* The plan walks the records with FIRST and NEXT until one stands beyond  *)
(* the common block.  If the search fails before, so does the plan.        *)
PlanFails(h, height) == Searched[h].failed /\ Below(Found[h], height) = Found[h]

Resume(h, height) ==
    LET below == Below(Found[h], height)
    IN IF below = <<>> THEN NoCursor ELSE Last(below).at

-----------------------------------------------------------------------------
Init ==
    /\ local = <<Genesis>>
    /\ holder = "free"
    /\ info = local
    /\ seen = [c \in Consumers |-> <<>>]
    /\ cursor = [c \in Consumers |-> NoCursor]
    /\ kept = [c \in Consumers |-> <<>>]
    /\ detached = {}

(* A request or a lane step replaces the accepted history under the lock;  *)
(* its own result may still be a failure.                                  *)
Operation(h, result) ==
    /\ holder = "free"
    /\ Prefers(h, local)
    /\ local' = h
    /\ holder' = result
    /\ UNCHANGED <<info, consumers>>

(* The copy is made before the lock is released, whatever the result. *)
PublishFault ==
    /\ holder # "free"
    /\ info' = IF holder = "failed" THEN info ELSE local
    /\ holder' = "free"
    /\ UNCHANGED <<local, consumers>>

Publish ==
    /\ holder # "free"
    /\ info' = local
    /\ holder' = "free"
    /\ UNCHANGED <<local, consumers>>

(* The internal miner takes the lock too, and publishes nothing. *)
Mine(b) ==
    /\ holder = "free"
    /\ Append(local, b) \in Valid
    /\ local' = Append(local, b)
    /\ UNCHANGED <<holder, info, consumers>>

(* Requests of a consumer, under the lock and published like any other; a  *)
(* keeper asks its own host.                                               *)
Answers(c) ==
    /\ holder = "free"
    /\ info' = IF c \in Keepers THEN info ELSE local
    /\ UNCHANGED <<local, holder>>

Moves(c, s, at) ==
    /\ seen' = [seen EXCEPT ![c] = s]
    /\ cursor' = [cursor EXCEPT ![c] = at]
    /\ kept' = [kept EXCEPT ![c] = IF c \in Keepers THEN local ELSE @]

Read(c) ==
    LET answer == IF cursor[c] = NoCursor THEN FirstRecord(local)
                  ELSE NextRecord(local, cursor[c])
    IN /\ Answers(c)
       /\ IF answer.result = "RECORD"
          THEN Moves(c, Append(seen[c], answer.match), answer.match.at)
          ELSE UNCHANGED <<seen, cursor, kept>>
       /\ detached' = IF answer.result = "DETACHED" THEN detached \cup {c}
                      ELSE detached \ {c}

(* After DETACHED the consumer asks for the common block and the plan; the *)
(* history may have changed again.  Without a plan it keeps what it has.   *)
Recover(c) ==
    LET status == ReorgStatus(local, kept[c], cursor[c])
    IN /\ c \in detached
       /\ Answers(c)
       /\ detached' = detached \ {c}
       /\ CASE status.result = "COMMON_ANCESTOR" /\ ~PlanFails(local, status.height) ->
                 Moves(c, Below(seen[c], status.height), Resume(local, status.height))
            [] status.result = "NO_COMMON_ANCESTOR" -> Moves(c, <<>>, NoCursor)
            [] OTHER -> UNCHANGED <<seen, cursor, kept>>

Consumes(c) == Read(c) \/ Recover(c)

Next ==
    \/ \E h \in Valid, result \in {"ok", "failed"} : Operation(h, result)
    \/ Publish
    \/ \E b \in Blocks : Mine(b)
    \/ \E c \in Consumers : Consumes(c)

(* Operations end, and consumers ask again and again. *)
Fairness ==
    /\ WF_vars(Publish)
    /\ \A c \in Consumers : WF_vars(Read(c)) /\ WF_vars(Recover(c))

Spec == Init /\ [][Next]_vars /\ Fairness

-----------------------------------------------------------------------------
(* Whatever was detached and attached between its requests, a consumer     *)
(* whose cursor stands in the accepted history has taken in exactly the    *)
(* records that history shows up to it, each once, and every query agrees  *)
(* on where they stand (stn_chain_next_record, stn_chain_lookup_record,    *)
(* stn_transaction_status_find).                                           *)
SeenIsAccepted ==
    \A c \in Consumers :
        LET s == seen[c]
        IN IF cursor[c] = NoCursor THEN s = <<>>
           ELSE Holds(local, cursor[c]) =>
               /\ IsPrefix(s, Found[local]) /\ Last(s).at = cursor[c]
               /\ \A i, j \in DOMAIN s :
                     i # j => ReplayKey(s[i].record) # ReplayKey(s[j].record)
               /\ \A i \in DOMAIN s :
                     /\ ~After(TransactionStatus(local, s[i].record), s[i].at)
                     /\ ~Undecided(local) => LookupRecord(local, s[i].record).match = s[i]

(* A retaining host whose records are detached and whose plan fails. *)
Stranded(c) ==
    /\ cursor[c] # NoCursor
    /\ LET status == ReorgStatus(local, kept[c], cursor[c])
       IN status.result = "COMMON_ANCESTOR" /\ PlanFails(local, status.height)

(* Once the history rests, every consumer comes to hold what a search of   *)
(* it shows and nothing else, by recovery plan or from the start: all its  *)
(* publications up to the first transaction of another kind, where every   *)
(* search answers PROVIDER for good (record_search).  Two exceptions: the  *)
(* history has evidence that state-only validation cannot decide, then     *)
(* FIRST and NEXT answer UNAVAILABLE for good; and a host is left with     *)
(* detached records whose recovery plan fails at such a transaction        *)
(* (stn_chain_build_consumer_recovery_plan).                               *)
ConsumersCatchUp ==
    \A c \in Consumers :
        <>[](Undecided(local) \/ Stranded(c) \/ seen[c] = Found[local])

(* Outside an operation INFO shows the accepted history or one the         *)
(* internal miner has only extended, never a branch that was left          *)
(* (publish_info in dispatch_request and outbound_thread).                 *)
InfoIsAccepted == holder = "free" => IsPrefix(info, local)
==============================================================================
