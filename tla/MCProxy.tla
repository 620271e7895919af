------------------------------ MODULE MCProxy ------------------------------
(* Values for the constants of Proxy.                                       *)
EXTENDS Proxy

\* Host names with files of their own, and host names that share them.
MCFileMaps == {[n \in Names |-> n], [n \in Names |-> CHOOSE m \in Names : TRUE]}

\* A new workdir, and one whose process died between a key and its certificate.
MCLeftovers == {[key |-> None, crt |-> None], [key |-> Earlier, crt |-> None]}

\* Descriptors for one of two connections, or for both; started once or again;
\* names are asked for where both are handled at once.
MCLimits ==
  {[fds |-> f, starts |-> 2, names |-> {}] : f \in {1, 2}}
    \cup {[fds |-> 2, starts |-> 1, names |-> Names]}
=============================================================================
