----------------------------- MODULE MCContracts -----------------------------
(***************************************************************************)
(* Bounded instance of contracts: one draft of three approvers, one of a   *)
(* single approver, one that can never be registered, two roots.           *)
(***************************************************************************)
EXTENDS ContractProperties

CONSTANTS root, root2, a, b, c, d1, d2, d3

P(who, role) == [identity |-> who, role |-> role]
MCParticipants ==
    d1 :> <<P(a, "APPROVER"), P(b, "APPROVER"), P(c, "APPROVER")>>
    @@ d2 :> <<P(a, "ISSUER"), P(c, "APPROVER")>>
    @@ d3 :> <<P(b, "APPROVER"), P(b, "APPROVER")>>
MCCreatedAt == d1 :> 1 @@ d2 :> 2 @@ d3 :> 3

Grant(r, who, action, d) ==
    [type |-> "GRANT", issuer |-> r, subject |-> who, scope |-> <<action, d>>, signed |-> TRUE]
Twice == Grant(root2, a, "APPROVE", d1)
MCFounding ==
    {Grant(root, a, action, d1) : action \in {"AMEND", "APPROVE", "EXECUTE", "CLOSE"}}
    \cup {Grant(root, b, "APPROVE", d1), Grant(root, c, "APPROVE", d1),
          Grant(root, a, "AMEND", d2), Grant(root, c, "APPROVE", d2),
          Grant(root, c, "REJECT", d2), Grant(root, b, "REVOKE", d1)}
MCGrants == MCFounding \cup {Twice}
CreateGrants == MCGrants \cup {Grant(root, a, "CREATE", d1)}
MCRevocations ==
    {[type |-> "REVOKE", issuer |-> g.issuer, grant |-> g, signed |-> TRUE] :
        g \in {Twice, Grant(root, a, "APPROVE", d1)}}
MCScopes == {g.scope : g \in CreateGrants}
=============================================================================
