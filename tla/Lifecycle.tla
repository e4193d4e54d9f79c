------------------------------ MODULE Lifecycle ------------------------------
(***************************************************************************)
(* The authority projection of accepted history (stn_lifecycle.c,          *)
(* stn_authority.c): grants issued by genesis roots, revocations by the    *)
(* root that issued the grant, one chain of identity rotations, and the    *)
(* set of consumed (signer, nonce) replay identifiers shared by all of     *)
(* them and by publications.                                               *)
(*                                                                         *)
(* The 32-byte nonce of a grant, revocation or rotation is the hash of its *)
(* statement, so a statement consumes the pair of its signer and itself.   *)
(* "signed" stands for canonical encoding and the signature.  A scope is   *)
(* the pair of an authority action and context.  XxxFault is a faulty      *)
(* variant of Xxx that some property must notice; no behaviour uses it.    *)
(***************************************************************************)
EXTENDS Integers, Sequences, FiniteSets

CONSTANTS
    Roots,              \* genesis authority roots
    Identities,         \* subjects of grants, signers of publications
    InitialIdentities,  \* genesis initial identities
    Scopes,             \* authority action and context
    PublicationNonces,  \* record nonces
    MaxRevoked,         \* STN_AUTHORITY_MAX_REVOKED
    MaxRotations        \* STN_AUTHORITY_MAX_ROTATIONS

ASSUME LifecycleAssumption ==
    /\ InitialIdentities \subseteq Identities
    /\ MaxRevoked \in Nat
    /\ MaxRotations \in Nat

GrantRecords ==
    [type : {"GRANT"}, issuer : Roots \cup Identities, subject : Identities,
     scope : Scopes, signed : BOOLEAN]
RevocationRecords ==
    [type : {"REVOKE"}, issuer : Roots \cup Identities, grant : GrantRecords,
     signed : BOOLEAN]
RotationRecords ==
    [type : {"ROTATE"}, old : Roots \cup Identities, new : Roots \cup Identities,
     signed : BOOLEAN]
PublicationRecords ==
    [type : {"PUBLICATION"}, signer : Identities, scope : Scopes,
     nonce : PublicationNonces, signed : BOOLEAN]

(* The signer of a record and what its replay nonce stands for *)
ReplayKey(tx) ==
    CASE tx.type = "GRANT"       -> <<tx.issuer, "GRANT", <<tx.subject, tx.scope>>>>
      [] tx.type = "REVOKE"      -> <<tx.issuer, "REVOKE", tx.grant>>
      [] tx.type = "ROTATE"      -> <<tx.old, "ROTATE", tx.new>>
      [] tx.type = "PUBLICATION" -> <<tx.signer, "PUBLICATION", tx.nonce>>

-----------------------------------------------------------------------------
LifecycleRecords ==
    GrantRecords \cup RevocationRecords \cup RotationRecords \cup PublicationRecords

ReplayKeys == {ReplayKey(tx) : tx \in LifecycleRecords}

Lifecycles ==
    [grants    : SUBSET GrantRecords,
     revoked   : SUBSET GrantRecords,
     rotations : Seq(RotationRecords),
     consumed  : SUBSET ReplayKeys]

EmptyLifecycle ==
    [grants |-> {}, revoked |-> {}, rotations |-> <<>>, consumed |-> {}]

(* Identities that have been rotated away *)
Retired(l) == {l.rotations[i].old : i \in DOMAIN l.rotations}

(* Fresh is checked, and the identifier consumed, by every accepted record *)
Fresh(l, tx) == ReplayKey(tx) \notin l.consumed
Consume(l, tx) == [l EXCEPT !.consumed = @ \cup {ReplayKey(tx)}]

-----------------------------------------------------------------------------
GrantOKFault(l, tx) ==                      \* a statement may be replayed
    tx.signed /\ tx.issuer \in Roots
GrantOK(l, tx) ==
    /\ tx.signed
    /\ tx.issuer \in Roots
    /\ Fresh(l, tx)
ApplyGrant(l, tx) == [Consume(l, tx) EXCEPT !.grants = @ \cup {tx}]

(* Only the root that issued a known grant may revoke it.  A full revoked  *)
(* set is an internal error, found before the revocation is verified.      *)
RevocationError(l, tx) ==
    /\ tx.grant \in l.grants
    /\ Cardinality(l.revoked) >= MaxRevoked
RevocationOK(l, tx) ==
    /\ tx.grant \in l.grants
    /\ ~RevocationError(l, tx)
    /\ tx.signed
    /\ tx.issuer = tx.grant.issuer
    /\ Fresh(l, tx)
ApplyRevocation(l, tx) == [Consume(l, tx) EXCEPT !.revoked = @ \cup {tx.grant}]

(* The first rotation leaves a genesis initial identity, every later one   *)
(* the identity the previous one introduced, and none returns to an        *)
(* identity already left.  A rotation the chain already holds counts as    *)
(* valid whatever its signature, and only its replay identifier refuses    *)
(* it.  A full chain is an internal error.                                 *)
RotationHeld(l, tx) ==
    \E i \in DOMAIN l.rotations :
        l.rotations[i].old = tx.old /\ l.rotations[i].new = tx.new
RotationExtendsFault(l, tx) ==              \* may return to a retired identity
    /\ tx.signed
    /\ tx.old # tx.new
    /\ {tx.old, tx.new} \cap Roots = {}
    /\ IF l.rotations = <<>>
       THEN tx.old \in InitialIdentities
       ELSE tx.old = l.rotations[Len(l.rotations)].new
RotationExtends(l, tx) ==
    /\ tx.signed
    /\ tx.old # tx.new
    /\ {tx.old, tx.new} \cap Roots = {}
    /\ IF l.rotations = <<>>
       THEN tx.old \in InitialIdentities
       ELSE tx.old = l.rotations[Len(l.rotations)].new
    /\ tx.new \notin Retired(l)
RotationValid(l, tx) == RotationHeld(l, tx) \/ RotationExtends(l, tx)
RotationError(l, tx) == RotationValid(l, tx) /\ Len(l.rotations) >= MaxRotations
RotationOK(l, tx) ==
    /\ RotationValid(l, tx)
    /\ ~RotationError(l, tx)
    /\ Fresh(l, tx)
ApplyRotation(l, tx) == [Consume(l, tx) EXCEPT !.rotations = Append(@, tx)]

PublicationOKFault(l, tx) ==                \* revocations are not consulted
    /\ tx.signed
    /\ tx.signer \notin Retired(l)
    /\ \E g \in l.grants : g.subject = tx.signer /\ g.scope = tx.scope
    /\ Fresh(l, tx)
PublicationOK(l, tx) ==
    /\ tx.signed
    /\ tx.signer \notin Retired(l)
    /\ \E g \in l.grants \ l.revoked : g.subject = tx.signer /\ g.scope = tx.scope
    /\ Fresh(l, tx)
=============================================================================
