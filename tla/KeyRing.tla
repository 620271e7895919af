------------------------------ MODULE KeyRing -------------------------------
(***************************************************************************)
(* What CertAuthority.leaf_for promises the handshakes (certs.py:54-66): a  *)
(* name gets its pair once, from one mint, and every handshake that asks    *)
(* for that name is given that pair.  No lock, no cache, no files: minting  *)
(* a pair and giving it out are one step each.                              *)
(***************************************************************************)
CONSTANTS Conns,  \* the handlers that ask
          Names,  \* the host names they ask for
          None

VARIABLES asked,  \* the name each handler asked for
          pair,   \* the pair of each name, by the mints it is from
          given   \* the pair each handler was given

vars == <<asked, pair, given>>

Init ==
  /\ asked = [c \in Conns |-> None]
  /\ pair = [n \in Names |-> None]
  /\ given = [c \in Conns |-> None]

Ask(c, n) ==
  /\ asked[c] = None
  /\ asked' = [asked EXCEPT ![c] = n]
  /\ UNCHANGED <<pair, given>>

\* The pair of a name is made by a handler that asked for it, whole and for good.
Mint(c, n) ==
  /\ asked[c] = n /\ pair[n] = None
  /\ pair' = [pair EXCEPT ![n] = [crt |-> c, key |-> c]]
  /\ UNCHANGED <<asked, given>>

\* A handler whose name has no pair, its mint having failed, is given nothing.
Give(c, n) ==
  /\ asked[c] = n /\ pair[n] # None /\ given[c] = None
  /\ given' = [given EXCEPT ![c] = pair[n]]
  /\ UNCHANGED <<asked, pair>>

Next == \E c \in Conns, n \in Names : Ask(c, n) \/ Mint(c, n) \/ Give(c, n)

Spec == Init /\ [][Next]_vars
=============================================================================
