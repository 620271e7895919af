------------------------------- MODULE Certs -------------------------------
(***************************************************************************)
(* CertAuthority (halt/intercept/certs.py): one certificate per host name,  *)
(* minted on first use with the lock held, cached in memory, kept in files  *)
(* that are read again, without the lock, by the handler that asked.        *)
(*                                                                         *)
(* A mint is known by the handler that ran it: a file holds the key or the  *)
(* certificate of one mint, None if it was never written, or Earlier if a   *)
(* process that used the same workdir before left it there.                 *)
(***************************************************************************)
CONSTANTS Conns,     \* the connections, and so the handlers that ask
          Names,     \* the host names they ask for
          FileMaps,  \* the ways host names may map to file names
          Leftovers, \* what a workdir may hold: the mints in each .key and .crt
          None, Earlier

ASSUME CertsAssumption ==
  /\ FileMaps # {} /\ \A m \in FileMaps : DOMAIN m = Names
  /\ Leftovers \subseteq [key : {None, Earlier}, crt : {None, Earlier}]
  /\ None \notin Conns \cup Names \cup {Earlier} /\ Earlier \notin Conns
  /\ None \notin [crt : Conns, key : Conns]

VARIABLES stem,      \* host name -> file name ("safe" in _mint_leaf)
          certLock,  \* CertAuthority._lock: the handler that holds it
          leaves,    \* CertAuthority._leaves: the names with a cached pair
          keys, crts \* file name -> the mint its .key and .crt are from

certVars == <<stem, certLock, leaves, keys, crts>>

Stems == UNION {{m[n] : n \in Names} : m \in FileMaps}
Mints == Conns \cup {None, Earlier}

CertsTypeOK ==
  /\ stem \in FileMaps
  /\ certLock \in Conns \cup {None}
  /\ leaves \subseteq Names
  /\ keys \in [Stems -> Mints] /\ crts \in [Stems -> Mints]

\* A workdir is new, or an earlier process left complete pairs in it, or it
\* died between a key and its certificate.  The cache starts empty either way.
CertsInit ==
  /\ stem \in FileMaps
  /\ certLock = None /\ leaves = {}
  /\ \E l \in Leftovers :
       keys = [f \in Stems |-> l.key] /\ crts = [f \in Stems |-> l.crt]

-----------------------------------------------------------------------------
\* leaf_for finds the pair cached, and lets go of the lock.
Cached(n) == certLock = None /\ n \in leaves /\ UNCHANGED certVars

\* Mutant of LockToMint: leaf_for does not take the lock.
LockToMintFreely(c, n) == n \notin leaves /\ UNCHANGED certVars

\* leaf_for does not find it: _mint_leaf runs with the lock held.
LockToMint(c, n) ==
  /\ certLock = None /\ n \notin leaves
  /\ certLock' = c
  /\ UNCHANGED <<stem, leaves, keys, crts>>

\* Mutant of WriteKey: the cache is filled before the pair is made.
WriteKeyCached(c, n) ==
  /\ keys' = [keys EXCEPT ![stem[n]] = c]
  /\ leaves' = leaves \cup {n} /\ certLock' = None
  /\ UNCHANGED <<stem, crts>>

\* openssl req: a new key, and a request for it.
WriteKey(c, n) ==
  /\ keys' = [keys EXCEPT ![stem[n]] = c]
  /\ UNCHANGED <<stem, certLock, leaves, crts>>

\* openssl x509: the certificate.  The pair is cached and the lock released.
WriteCrt(c, n) ==
  /\ crts' = [crts EXCEPT ![stem[n]] = c]
  /\ leaves' = leaves \cup {n} /\ certLock' = None
  /\ UNCHANGED <<stem, keys>>

\* Mutant of MintFails: no `with`, so the lock stays held.
MintFailsLocked(c, n) ==
  /\ keys' \in {keys, [keys EXCEPT ![stem[n]] = c]}
  /\ UNCHANGED <<stem, certLock, leaves, crts>>

\* Either openssl exits with an error, having written the key or not: nothing is
\* cached, and the RuntimeError leaves through the lock.
MintFails(c, n) ==
  /\ keys' \in {keys, [keys EXCEPT ![stem[n]] = c]}
  /\ certLock' = None
  /\ UNCHANGED <<stem, leaves, crts>>

\* load_cert_chain(leaf.cert_path, leaf.key_path), without the lock.
OnFile(n) == [crt |-> crts[stem[n]], key |-> keys[stem[n]]]
=============================================================================
