---------------------------- MODULE MCIntercept ----------------------------
(***************************************************************************)
(* Instances of Intercept for TLC: two connections at once, or one and a    *)
(* report of another fuse.                                                  *)
(***************************************************************************)
EXTENDS Intercept

CONSTANTS c1, k1, k2

MCTokens == {c1}
MCCredentialIds == <<c1>>
\* One rule; what it lists, the same host on another path, and no request line.
MCNetworkRules == {[hosts |-> {"registry"}, port |-> 443, paths |-> {"/packages"}]}
MCRequests == {RequestOf("registry", 443, p) : p \in {"/packages", "/admin", NoPath}}

MCConnSets == {{k1, k2}, {k1}}
=============================================================================
