---------------------------- MODULE MCInternalApi ----------------------------
(***************************************************************************)
(* A TLC instance of InternalApi: one problem of business b1, two scripts  *)
(* that race on it, and two requests that ask anything of the list below.  *)
(***************************************************************************)
EXTENDS InternalApi, TLC

OneBusiness == [key \in Keys |-> "b1"]

Types == [key \in Keys |-> "stockout_risk"]

Kinds == [key \in Keys |-> "product"]

Payloads ==
    [r \in Runs \cup {None} |->
       [severity |-> "critical", priority |-> 80,
        snapshots |-> {[source |-> 1, state |-> "stale"]}]]

Clock == <<0>>

AgeBuckets == <<[name |-> "any", below |-> 0]>>

\* An operator's usable request for the case of its own business.
Usual(route, key) ==
    [token |-> "valid", role |-> None, grant |-> AnyGrant, business |-> "b1",
     route |-> route, case |-> 1, key |-> key, wellFormed |-> TRUE, usable |-> TRUE]

Everything ==
    {Usual("action", "dismiss_case"), Usual("action", "assign_owner"),
     Usual("action", "add_comment"),
     [Usual("action", "dismiss_case") EXCEPT !.usable = FALSE],
     [Usual("action", "unknown") EXCEPT !.role = "admin"],
     [Usual("action", "add_comment") EXCEPT !.role = "viewer"],
     [Usual("action", "add_comment") EXCEPT !.business = "b2", !.grant = {"b2"}],
     [Usual("action", "resolve_case") EXCEPT !.grant = {"b2"}],
     [Usual("action", "resolve_case") EXCEPT !.token = "wrong"],
     [Usual("brief", None) EXCEPT !.role = "viewer", !.grant = {"*"}],
     Usual("audit", None),
     [Usual("audit", None) EXCEPT !.role = "admin"]}

Symmetry == Permutations(Requests) \cup Permutations(Scripts)
=============================================================================
