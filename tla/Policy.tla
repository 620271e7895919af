------------------------------- MODULE Policy -------------------------------
(***************************************************************************)
(* The closed allowlist of a run (halt/policy.py) and the fuse that applies *)
(* it to the network (halt/fuses/network.py).                               *)
(*                                                                         *)
(* A rule's host pattern is the set of hosts it matches and its path prefix *)
(* the set of paths that start with it.  A request names a host, a port and *)
(* a path, NoPath if no request line could be read.                         *)
(***************************************************************************)
CONSTANTS NetworkRules, Requests, NoPath

RequestOf(h, p, path) == [host |-> h, port |-> p, path |-> path]

ASSUME PolicyAssumption ==
  /\ \A q \in Requests : q = RequestOf(q.host, q.port, q.path)
  /\ \A r \in NetworkRules : NoPath \notin r.paths

\* Mutant of Matches: the host alone decides.
MatchesHost(r, q) == q.host \in r.hosts

\* NetworkRule.matches
Matches(r, q) == q.host \in r.hosts /\ q.port = r.port /\ q.path \in r.paths

\* network_allowed: some rule matches, whichever comes first.
NetworkAllowed(q) == \E r \in NetworkRules : Matches(r, q)

\* What a rule lists, as the set of requests it stands for: NetworkAllowed is to
\* allow these and no others.
Listed(q) == \E r \in NetworkRules : q \in [host : r.hosts, port : {r.port}, path : r.paths]
=============================================================================
