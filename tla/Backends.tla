----------------------------- MODULE Backends ------------------------------
(***************************************************************************)
(* The KillBackend implementations: LocalProcessBackend (halt/kill.py),     *)
(* GvisorBackend and FirecrackerBackend (halt/backends), with HttpRevoker   *)
(* (halt/credentials.py) behind the latter two's revoke_credential_fn.      *)
(*                                                                         *)
(* A call is an operator Call(..., ret) that holds of a step when the call  *)
(* may have that effect on the world and end with ret: "true", "false" or   *)
(* "raise".  The world is the token issuer, the run's network link and its  *)
(* process; a killed process takes time to exit ("dying").                  *)
(***************************************************************************)
EXTENDS Naturals

CONSTANTS Tokens,        \* credential ids
          BackendKinds,  \* subset of {"local", "gvisor", "firecracker"}
          RevokerKinds,  \* subset of {"http", "badurl", "none"}: what is behind
                         \* revoke_credential_fn
          HostKinds      \* subset of BOOLEAN: the values of hostOk

ASSUME BackendAssumption ==
  /\ BackendKinds \subseteq {"local", "gvisor", "firecracker"}
  /\ RevokerKinds \subseteq {"http", "badurl", "none"}
  /\ HostKinds \subseteq BOOLEAN

VARIABLES backend, revoker,
          hostOk,      \* FALSE: ip or runsc may be missing, os.kill forbidden
          registered,  \* the run's process, container or VM is registered
          revoked,     \* tokens the issuer no longer honours
          link,        \* the run's network link: "up", "down" or "gone"
          proc         \* the run's process: "running", "dying" or "gone"

wiring == <<backend, revoker, hostOk>>
world == <<registered, revoked, link, proc>>

Returns == {"true", "false", "raise"}

BackendTypeOK ==
  /\ backend \in {"local", "gvisor", "firecracker"}
  /\ revoker \in {"http", "badurl", "none"}
  /\ hostOk \in BOOLEAN
  /\ registered \in BOOLEAN
  /\ revoked \subseteq Tokens
  /\ link \in {"up", "down", "gone"}
  /\ proc \in {"running", "dying", "gone"}

BackendInit ==
  /\ backend \in BackendKinds /\ revoker \in RevokerKinds /\ hostOk \in HostKinds
  /\ registered \in BOOLEAN
  /\ revoked = {} /\ link = "up" /\ proc = "running"

\* Mutant of canSeverFirst: one order taken to work for every backend.
canAlwaysSeverFirst == TRUE

\* KillBackend.can_sever_network_before_terminate
canSeverFirst == backend # "firecracker"

\* A host command, or os.kill, that cannot even be run.
HostRaises(ret) == ret = "raise" /\ ~hostOk

\* HttpRevoker.revoke is false for any failure of the POST, a lost answer to a
\* revocation that took effect included.  What comes before the POST is outside its
\* try: a request that cannot be made ("badurl", a URL without a scheme) raises.
HttpRevoke(c, ret) ==
  \/ ret = "true" /\ revoker = "http" /\ revoked' = revoked \cup {c}
  \/ ret = "false" /\ revoker = "http" /\ revoked' \in {revoked, revoked \cup {c}}
  \/ ret = "raise" /\ revoker = "badurl" /\ UNCHANGED revoked

LocalRevoke(c, ret) == ret = "true" /\ revoked' = revoked \cup {c}

\* revoke_credential.  GvisorBackend and FirecrackerBackend raise
\* NotImplementedError when they were built without a revoke_credential_fn.
RevokeCredential(c, ret) ==
  /\ CASE backend = "local" -> LocalRevoke(c, ret)
       [] backend # "local" /\ revoker # "none" -> HttpRevoke(c, ret)
       [] OTHER -> ret = "raise" /\ UNCHANGED revoked
  /\ UNCHANGED <<registered, link, proc>>

LocalSever(ret) == ret = "true" /\ link' = "gone"

\* `ip link delete` fails on a link that is gone, and may on one that is not.
GvisorSever(ret) ==
  \/ ret = "true" /\ registered /\ link # "gone" /\ link' = "gone"
  \/ ret = "false" /\ UNCHANGED link
  \/ HostRaises(ret) /\ registered /\ UNCHANGED link

\* sever_network of the backends that can sever first.
SeverLink(ret) ==
  /\ IF backend = "local" THEN LocalSever(ret) ELSE GvisorSever(ret)
  /\ UNCHANGED <<registered, revoked, proc>>

\* FirecrackerBackend.sever_network, `ip link set <tap> down`: its return code
\* is not looked at ("true" here means: go on to the deletion).
DropTap(ret) ==
  /\ \/ /\ ret = "true" /\ registered
        /\ link' \in {link, IF link = "up" THEN "down" ELSE link}
     \/ /\ ret = "false" /\ ~registered
        /\ UNCHANGED link
     \/ /\ HostRaises(ret) /\ registered
        /\ UNCHANGED link
  /\ UNCHANGED <<registered, revoked, proc>>

\* FirecrackerBackend.sever_network, `ip tuntap del`: the tap is busy for as
\* long as the VM's process has it open.
DeleteTap(ret) ==
  /\ \/ /\ ret = "true" /\ proc = "gone" /\ link # "gone"
        /\ link' = "gone"
     \/ /\ ret = "false" \/ HostRaises(ret)
        /\ UNCHANGED link
  /\ UNCHANGED <<registered, revoked, proc>>

\* Mutant of Signalled: a state of its own for a process that took the signal.
SignalledZombie == IF proc = "running" THEN "zombie" ELSE proc

Signalled == IF proc = "running" THEN "dying" ELSE proc

\* Popen.kill, of a process that was registered.
LocalTerminate(ret) ==
  \/ ret = "true" /\ registered /\ proc' = Signalled
  \/ ret = "false" /\ ~registered /\ UNCHANGED proc

\* `runsc kill <id> SIGKILL` fails on a container that is gone, and may fail.
GvisorTerminate(ret) ==
  \/ ret = "true" /\ registered /\ proc # "gone" /\ proc' = Signalled
  \/ ret = "false" /\ UNCHANGED proc

\* os.kill(pid, SIGKILL): a VM that exited takes the signal until it is reaped,
\* and is ProcessLookupError after that.
FirecrackerTerminate(ret) ==
  \/ ret = "true" /\ registered /\ proc' = Signalled
  \/ ret = "false" /\ (~registered \/ proc = "gone") /\ UNCHANGED proc

\* terminate.  The signal is sent when the call returns; the exit comes later.
Terminate(ret) ==
  /\ \/ backend = "local" /\ LocalTerminate(ret)
     \/ backend = "gvisor" /\ GvisorTerminate(ret)
     \/ backend = "firecracker" /\ FirecrackerTerminate(ret)
     \/ HostRaises(ret) /\ registered /\ UNCHANGED proc
  /\ UNCHANGED <<registered, revoked, link>>

-----------------------------------------------------------------------------
\* register_process, register_container, register_vm: at any time.
Register ==
  /\ ~registered
  /\ registered' = TRUE
  /\ UNCHANGED <<revoked, link, proc>>

\* The process exits: on its own, or from the signal.
Exit ==
  /\ proc # "gone"
  /\ proc' = "gone"
  /\ UNCHANGED <<registered, revoked, link>>

\* NetnsEgress.destroy removes the veth a gVisor run is cut off by.
DestroyEgress ==
  /\ backend = "gvisor" /\ link # "gone"
  /\ link' = "gone"
  /\ UNCHANGED <<registered, revoked, proc>>

WorldStep == Register \/ Exit \/ DestroyEgress
=============================================================================
