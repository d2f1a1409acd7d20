------------------------------- MODULE MCAccess -------------------------------
(* The tenants a and b, with two gateways and one call or with one gateway and
   two calls at a time.  The file holds root, an administrator; under the name
   k, which the interface issues and revokes, it may hold an administrator
   whose secret lies in the open; or it cannot be read. *)
EXTENDS AccessKeys, TLC

MCWants ==
  {[op |-> "issue", key |-> "k", tenant |-> "a", patch |-> Nothing],
   [op |-> "revoke", key |-> "k", tenant |-> "", patch |-> Nothing],
   [op |-> "policy", key |-> "", tenant |-> "a", patch |-> ("limit" :> 1)],
   [op |-> "trust", key |-> "", tenant |-> "", patch |-> Nothing],
   [op |-> "trust", key |-> "", tenant |-> "b", patch |-> Nothing],
   [op |-> "distrust", key |-> "", tenant |-> "a", patch |-> Nothing],
   [op |-> "list", key |-> "", tenant |-> "", patch |-> Nothing]}

MCCasts == {{"g1", "g2", "c1"}, {"g1", "c1", "c2"}}
OneGateway == {{"g1", "c1", "c2"}}

Root == Key("b", TRUE, FALSE, "r1")
SiteAdmin == Key("a", TRUE, TRUE, "open")
MCFiles ==
  {[readable |-> TRUE, keys |-> ("root" :> Root)],
   [readable |-> TRUE, keys |-> ("root" :> Root) @@ ("k" :> SiteAdmin)],
   [readable |-> FALSE, keys |-> Nothing]}
MCPolicies == "a" :> (("limit" :> 2) @@ ("mode" :> 1))
=============================================================================
