# HALT in TLA+

HALT (`halt/`) is a kill switch for agent runs: fuses watch a sandbox, report
what they see to a supervisor, and the first report of severity KILL revokes
the run's credentials, cuts its network and ends its process. These modules
model that program from its source; TLC checks them on small instances, and
TLAPS proves the safety of each part for every instance.

    tlc -workers 2 -config <run>.cfg <module>.tla      e.g. relay.cfg Relay.tla
    tlapm SupervisorProofs.tla

## The system

| Part | State | Operations | Hard because |
|---|---|---|---|
| Supervisor (`supervisor.py`), `execute_kill` (`kill.py`) | `_lock`, `_killed`, `_cause`, `_kill_result` | `report`, from any thread; three unlocked properties | concurrent reports, exceptions with the lock held, readers without it |
| Kill backends (`kill.py`, `backends/`), `HttpRevoker` (`credentials.py`) | the registered process, container or VM | `revoke_credential`, `sever_network`, `terminate`, `register_*` | calls that fail, raise, lose their answer, or return before their effect; an order that depends on the backend |
| Sinks (`sinks.py`) | the JSONL file; `TeeSink.failures`; `delivered` and `failures` | `emit` | one of two sinks failing; a lost answer |
| TerminatingProxy (`terminate.py`), PolicyGate (`gate.py`) | `_seen`, `_callback_errors`, sockets | a handler thread per connection: peek, handshake, head, notify, decide, forward | every step can time out or raise; several handlers report at once |
| Relay (`terminate.py`, `_relay`) | two pumps, two sockets | recv, sendall, shutdown | half-closes, timeouts, a TLS object shared by two threads |
| Accept loop (`proxy.py`, `terminate.py`) | `_sock`, `_stop`, `_thread`, `_handlers` | `start`, `stop`, `_serve`, `_dispatch` | stop racing with accepts and handlers; joins that time out; no descriptor or thread left; a second start |
| NetnsEgress (`netns.py`), NonTcpEgressFuse (`nontcp.py`) | namespace, veth pair, `_rules`, packet counters | `create`, `redirect_tcp_to`, `drop_non_tcp`, `count_non_tcp`, `destroy`, a poll | commands whose failure is not looked at; names used again |
| CertAuthority (`certs.py`) | `_lock`, `_leaves`, the `.key` and `.crt` files | `leaf_for`, on handler threads | minting that fails half way; pairs read without the lock; files an earlier process left; names that share files |
| WatchdogFuse (`watchdog.py`) | `_last_beat` | `heartbeat`, `observe` | clock readings stored late and out of order, without a lock |
| Policy (`policy.py`), NetworkFuse, CredentialFuse | none | matching | - |

A fuse, or the gate on a proxy's handler thread, makes a `TripEvent` and calls
`Supervisor.report`. `report` emits it to the sink on the caller's thread, takes
the lock if it is a KILL, and calls `execute_kill` with the lock held, which
calls the backend. NetnsEgress makes the proxy the sandbox's only way out and
counts what the proxy cannot see; the polled fuse reads that count. `destroy`
removes the veth a gVisor backend severs.

What makes each part correct is stated in the modules, above each property,
with the lines it is about. The list of what is hard to test, and which
property covers it, is in PROJECT.json ("hazards").

## Modules

| Module | Models | Uses |
|---|---|---|
| `Sinks` | one `emit(e)`: local write, broadcast, and how each fails | |
| `Backends` | each call of the three backends as the pairs (effect, answer) it may have, and the world: issuer, link, process | |
| `KillSwitch` | the promise: one kill, one cause, credentials first, the backend's order, dead or aborted for good | |
| `Supervisor` | `report` on every thread, the lock, `execute_kill` step by step; the properties | extends `Sinks`, `Backends`; implements `KillSwitch` |
| `SupervisorProofs` | the theorems | extends `Supervisor` |
| `Enforcement` | the promise of the interception: what is passed on is listed and on record, a denial is answered by a kill begun or a failure kept | |
| `Policy` | the network rules and NetworkFuse's verdict on a request | |
| `Intercept` | a connection from accept to end, through the gate into `report` | extends `Supervisor`, `Policy`; implements `Enforcement` |
| `InterceptProofs` | its theorems | extends `Intercept`, `SupervisorProofs` |
| `KeyRing` | the promise of `leaf_for`: one pair per name, made whole and once, the same for everyone who asks | |
| `Certs` | CertAuthority: `leaf_for`, a mint command by command, the files | |
| `Proxy` | `start`, `stop`, `_serve`, `_dispatch` of both postures, and the TLS handshake of each handler | extends `Certs`; implements `KeyRing` |
| `ProxyProofs` | its theorems | extends `Proxy` |
| `Channel` | the promise of one direction of a relay: in order, without a gap, and an end that comes after everything sent | |
| `Relay`, `RelayProofs` | both pumps, the TLS layer, the handler leaving; the theorems | implements two `Channel`s |
| `Netns`, `NetnsProofs` | NetnsEgress command by command, the counter and its fuse; the theorems | |
| `Watchdog`, `WatchdogProofs` | heartbeats of several threads against the poll, on a clock; the theorems | |
| `MCSupervisor`, `MCIntercept`, `MCProxy` | the constants' values | |

How state and actions correspond:

- **Supervisor.** `lock`, `killed`, `cause`, `kill_result` are the object's
  fields; `pc[e]` is where the thread reporting `e` is; `kstep`, `result` and
  `revokeAt` are the locals of `execute_kill`. A step is what no other thread
  can see the middle of, so `self._killed = True`, `self._cause = event`, each
  backend call and `self._kill_result = ...` are steps of their own. Events are
  identities with a severity and a time of creation. `acted` is history: the
  calls that have returned. Firecracker's `sever_network` is two commands, so
  two steps. `delivered += 1` is two as well, a read (`tally[e]`) and a write:
  no lock is held in `emit`.
- **Wirings.** Which sink, backend and revoker, and whether the host can run
  its commands, are variables chosen in Init: one run covers them all. A revoker
  is "badurl" if no request can be made for its URL: `HttpRevoker` then raises
  before its `try`, into `execute_kill`.
- **Backends.** `Call(..., ret)` holds of a step if the call may have that
  effect and return `ret`. A killed process is "dying" before it is "gone". The
  world moves by itself: the process exits, something is registered late, or
  `NetnsEgress.destroy` takes the link.
- **Intercept.** The event of connection `c` is the event `c` of `Supervisor`;
  `report`'s body is `ThreadStep(c)`, so a handler waits inside `report` while
  others run. `request[c]` is what the gate is asked about, a host, a port and a
  path or `NoPath`, and `Policy` answers. An exception anywhere in a handler is a
  disjunct of its own. `sandbox[c]` is "held" while a kept exception, or a pump
  of the relay that outlived the join, still refers to the SSLSocket.
- **Proxy.** `serve[g]` is where the accept thread of the g-th `start` is (a
  thread that outlived its join may still be there when the next one begins),
  `place[c]` where a connection is and its handler with it, `owner` where the
  caller of `stop` is. `fds` and the refusals of `Thread.start` are the host's
  limits. What a handler does after its handshake is one place, "serving": it is
  `Intercept` that takes it apart. A handler that is over may leave its
  connection "pumping", with the second pump of its relay, or "held", with an
  exception that was kept.
- **Certs.** A file holds the key or the certificate of one mint, named by the
  handler that ran it; two host names may map to one file name. `chain[c]` is
  what `load_cert_chain` found in the two files.
- **Watchdog.** A clock in units; between a reading and its use another thread
  may run, for up to `Hold`. `newest`, `stored` and `overlapped` are history.
- **Relay.** `pump[d]` is where a direction's thread is, `layer[s]` whether the
  SSLSocket of an end still decrypts, `via[d]` whether it did when the current
  `recv` began. `sent` and `fin` belong to the two ends, and so does `alert`, a
  close_notify that a `recv` past the dropped layer reads as data. Chunks are
  numbered from the first that the destination has not yet taken (`Take`), so
  the ends may stream for ever through finitely many states.
- **Netns.** `built` is the set of `create()`'s commands whose effect is on the
  host; `rules[k]` the host's rules of a kind, each its counter; `mine` is
  `_rules`. A fault is a command that fails although it has what it needs. Every
  command is a step, so `drop_non_tcp` is two (`AddRules`, `DropForwarded`).

## Runs

| Run | Checks | States |
|---|---|---|
| `kill_all_wirings` | `Supervisor`'s safety: types, lock, order, truth of the result, publication, record before decision and before network, every broadcast accounted for, what may raise, once, and that it implements `KillSwitch` | 3.1 M |
| `kill_liveness` | every report returns; with the tee, a host whose commands can be run and a revoker whose request can be made, every KILL report ends in a finished kill | 0.9 M |
| `intercept` | the upstream is opened only for what the policy lists and after its report came back with its record; that it implements `Enforcement`; nothing a handler saw or raised is lost; sockets; every denial ends in the kill; handlers end | 0.2 M |
| `proxy` | what `stop` leaves behind; nothing accepted after it; every connection served; `stop` returns; certificates are given out as by a `KeyRing`; waiting for a mint ends | 0.4 M |
| `relay` | each direction is a `Channel` (order, half-close); the relay ends once the sandbox has stopped sending | 0.3 M |
| `netns` | create's order, destroy in every half-built state, rules accounted for, the fuse trips for, and only for, its own run's packets | 0.4 M |
| `watchdog` | silence is bounded, whatever the order of the stores; no early trip | 18 K |

Bounds. *Supervisor*: two events and two credentials. Two threads are enough for
everything the lock is about (one inside, one waiting, in either order, with
different outcomes), and two credentials for a revocation loop that fails in
the middle; the proofs drop both bounds. Events are symmetric in the safety run;
no symmetry is used where liveness is checked. *kill_liveness* keeps one
credential and the Firecracker backend, the one with the most steps.
*Intercept*: two connections at once, or one and a report of another fuse, with
the local backend and a bare local sink, so that `report` may raise into a
handler; one rule, a request it lists, one on another path and one without a
path. *Proxy*: two connections, descriptors for one or both, two starts; names
are asked for in the instance with one start, where two handlers meet in
`leaf_for`, with names that share their files or not and a workdir that is new
or holds half a pair. *Watchdog*: two threads (one overtaking the other is all
there is to the order of stores), and a clock that runs to 10 with a longest
silence of 7, so that a run may beat, fall silent and be tripped; the proof drops
the bound. *Relay*: room for three chunks between the ends each way, one in hand,
one on the way and one arrived; how many are sent in all is not bounded. *Netns*: two sandboxes in turn, four rules, two packets and two faults: a
fault in a create and one in its destroy, seen by the next sandbox.
`CHECK_DEADLOCK FALSE` throughout: all threads done, the run torn down or the
relay over is a proper end.

Fairness, and why the code justifies it. A thread inside `report` keeps running
(`WF` of `ThreadStep(e)`): its HTTP calls have a timeout, file writes return, and
host commands are taken to return, which is an assumption, since they run
without a timeout. Weak fairness is enough for waiting on the lock because it is
taken for more than an instant only once. A handler keeps going because every
recv, connect and send has a 15 s timeout; how long a relay lasts is not
assumed in `Intercept`. In `Relay` the timeouts are the fairness of the pumps, and
that the sandbox stops sending is a condition of `RelayEnds`: the code lets a
relay live for as long as the agent's connection does. `Proxy` assumes of the accept thread, of `stop` and of handshakes that they go on: accept and the
joins have timeouts, an observer called on the accept thread (DenyAllProxy)
comes back, and openssl exits, the last two being assumptions, since the code
sets no timeout there. How long a handler serves is open, so `stop` may give up
on it (`late`). `Watchdog` has no fairness: that the fuse is polled every
`PollEvery` and that a thread uses its reading within `Hold` are the time
bounds, conditions on its clock. `Netns` assumes that the fuse is polled on and that not
every listing fails: the poll loop is the caller's, not in the repository.
Nothing is assumed of the sandbox, the upstream, the issuer, the registry or the
process's exit.

### Where the code differs from what it says

Five more runs each end in a violation of something the repository states:

| Run | Statement | What happens |
|---|---|---|
| `first_kill_wins` | supervisor.py:10-12, the first kill by event_id/ts | the first to take the lock |
| `tap_still_busy` | kill.py:36-41, terminate first so that the tap is free | SIGKILL is not awaited: the tap may still be busy |
| `observation_unreported` | README.md:65, every observation is logged | a silent connection is not, nor one whose head makes `_parse_head` raise (`int("²")`) |
| `accept_error` | proxy.py:206, an OSError of accept is the shutdown | it is also a connection that found no descriptor: the accept loop ends for good, in silence, the listener stays bound |
| `relay_raw_records` | terminate.py:297, bytes are copied | after one direction's shutdown the other relays undecrypted TLS records |

Noticed while modelling, without a run of its own:

- A host command that cannot be run raises inside `execute_kill` (README.md:60
  says nothing on the kill path may): the kill stops half way, for good.
  `Supervisor` has these steps; `LockInv` and `EveryReportReturns` show that the
  other reports still get through.
- So does `HttpRevoker.revoke` for a URL without a scheme, "never raises"
  (credentials.py:16-19) notwithstanding: the request is built before the `try`
  (credentials.py:59-63). `NothingRaises` and `KillCompletes` are for the others.
- `ExternalBroadcastSink.emit` raises before its `try` too (sinks.py:99, 103).
  `TeeSink` keeps that, but neither of the sink's own tallies has the event; and
  `delivered += 1` (sinks.py:114) may lose increments of concurrent reports.
- A VM registered after `terminate` was called loses its tap and runs on: the
  kill is not retried, and its result says so (`SeverOrder`, `ResultTruthful`).
- A TLS connection whose handler or observer raised stays open at the sandbox's
  side: the kept exception holds the SSLSocket (proxy.py:212 says it ends).
- The second pump of a relay may outlive its handler, by the join's timeout, and
  `stop`, which has no list of pumps; a TLS connection stays open until it ends
  (`CleanStop`, `SocketsClosed`).
- A relay lives for as long as the sandbox sends (terminate.py:104 says so); it
  is cut when the sandbox was quiet for 15 s and the server still delivers
  15 s later (terminate.py:297 says until either side closes).
- An allowed request is forwarded, and a relay goes on, after the run was
  killed: the gate does not look at `killed`. Packets counted between the last
  poll and `destroy` are never reported.
- `_stop` is never cleared, so a proxy started again after `stop` binds, listens
  and never accepts (`NoneAcceptedAfterStop`).
- `Thread.start` refused: the accept thread dies with the handler on the list,
  and every later `stop` raises on joining it.
- Host names that differ in a character `_mint_leaf` replaces share their files
  and break each other's certificate; `CertificateFits` and `KeyRing` are for the others.
- Heartbeats that overlap may store an older reading last: the trip then comes
  early, by no more than the reading was held.
- Of two CredentialRules for one token only the first is looked at.

## Proofs

`SupervisorProofs` proves, for any finite set of events, any tokens and
credentials and any set of wirings:

| Theorem | Statement |
|---|---|
| `TypeCorrect` | `Spec => []TypeOK` |
| `LockDiscipline` | `Spec => []LockInv` |
| `CredentialsAreFirst` | `Spec => []CredentialsFirst` |
| `KillOrder` | `Spec => []SeverOrder` |
| `ResultClaims` | `Spec => []ResultTruthful` |
| `Publication` | `Spec => []PublicationOrder` |
| `RecordFirst` | `Spec => []ForensicRecord` |
| `LocalFirst` | `Spec => []LocalBeforeNetwork` |
| `BroadcastsAddUp` | `Spec => []BroadcastAccounting` |
| `OneKill` | `Spec => KilledOnce` |
| `Implements` | `Spec => ImplementsKillSwitch` |
| `NothingOnTheKillPathRaises` | `Spec => []NothingRaises` |
| `AnswersAreTrue` | `Spec => []ReturnsTell` |
| `ReportsRunOut` | `Spec => ReportsAdvance` |

The assumptions are the named ASSUMEs of `Sinks`, `Backends` and `Supervisor`:
the set of events is finite, the credentials are tokens, and `None` is neither
an event nor a result.

The argument is one inductive invariant,
`IInv == TypeOK /\ LockInv /\ EmitInv /\ ProgressInv /\ CredentialsFirst /\
SeverOrder /\ ResultTruthful`. None of the properties is inductive alone:
`CredentialsFirst` needs to know that whoever is past the loop has gone through
all credentials (`ProgressInv`), that needs one thread at a time in
`execute_kill` (`LockInv`), and `ForensicRecord` needs what each place in `emit`
says of the record (`EmitInv`). `SeverOrder` says what the order is for only as
far as the code gives it: the tap after `terminate` has returned, and the VM then
no longer running if `terminate` said so. `BroadcastAccounting` has an invariant
of its own, `BroadcastInv`: each broadcast that ended is in one of three sets, and
what a thread has read `delivered` to be is no more than was delivered by then, so
an increment may be lost but none is made up. The proof has a lemma for each
part: the thread steps that leave the kill alone, the kill's steps, and what the
world does by itself. The refinement maps `armed`, `firing`, `dead` and `aborted` from `cause`
and `kstep`; each step is one of `KillSwitch` or a stutter.

Three theorems are the safety behind the liveness that TLC checks. `NothingRaises`
says where a report may raise and where a kill may be left half done (`RaiseInv`
with `IInv`), so `KillCompletes` cannot fail for an exception; `ReturnsTell` says
what a report that is over stands for, by `OutcomeInv`; and `ReportsAdvance` is a
measure, `ReportLeft(e)`, that every step of a thread brings down and no other
thread brings up, so a report that does not come back is one whose thread stopped
taking steps.

`InterceptProofs` proves, for any set of connections and any other reports:

| Theorem | Statement |
|---|---|
| `InterceptIsSupervised` | `InterceptSpec => Spec` |
| `InterceptTypeCorrect` | `InterceptSpec => []InterceptTypeOK` |
| `ForwardedAfterRecord` | `InterceptSpec => []ForwardedOnRecord` |
| `Enforced` | `InterceptSpec => ImplementsEnforcement` |
| `DenialsAreAnswered` | `InterceptSpec => []DenialsAnswered` |
| `HandlersRunOut` | `InterceptSpec => HandlersAdvance` |
| `NothingLost` | `InterceptSpec => []NothingLostSilently` |
| `NothingLeftOpen` | `InterceptSpec => []SocketsClosed` |

Every step of `Intercept` is a step of `Supervisor` or leaves it alone, so `IInv`
holds there too; `HandlerInv` says, for each connection, what its handler knows
before the gate, at it and at its end. `ForwardedOnRecord` needs both: that the
report has returned is the handler's, that a returned report has its record is
the supervisor's. A step of one handler, or of a thread inside `report`, leaves
the other connections as they were (`Untouched`, `ThreadKeeps`).

The refinement of `Enforcement` maps a connection to how far it is and to what
became of it; every step of a handler, of a thread inside `report` and of the host
is one of its steps or a stutter. `DenialsAnswered`, the safety of `DenialKills`,
joins what the handler knows at its end to `OutcomeInv` and `RaiseInv`: a denial
that is through was answered by a kill that is over, or its report raised and the
error was kept. The `intercept` run's wiring reaches both of these but no kill that
aborts; the theorem is for every wiring, and `kill_all_wirings` has such kills.
`HandlersAdvance` extends `ReportLeft` to a handler's own steps: `HandlerEnds`
without the fairness.

`ProxyProofs`, for any connections, names, file maps, workdirs, number of starts
and limits:

| Theorem | Statement |
|---|---|
| `TypeCorrect` | `Spec => []TypeOK` |
| `StopsClean` | `Spec => []CleanStop` |
| `StoppedForGood` | `Spec => NoneAcceptedAfterStop` |
| `NothingOrphaned` | `Spec => []NoneOrphaned` |
| `PairsFit` | `Spec => []CertificateFits` |
| `CertsAreKeyRing` | `Spec => ImplementsKeyRing` |
| `HandshakesGoForward` | `Spec => HandshakesAdvance` |
| `StopsGoForward` | `Spec => StopAdvances` |

`PInv` has a part for each party: `ThreadInv`, that until a join times out at
most the latest accept thread is alive and none gets to accept once `stop` has
joined it; `QueueInv` and `HandInv`, that a connection is in one place; and
`HandlersInv`, that what is under way is in an accept thread's hand or on the
list `stop` goes through, which is why joining the accept thread first and the
handlers after leaves no handler; `LeftInv` is what a handler may leave behind.
`CertInv` says that a name is cached once its pair is whole, and that nobody mints over the pair of a cached name, which is
what lets a handler read the files without the lock. `LoopInv` adds that the
accept loop lives until `stop` or a shortage, and so `NoneOrphaned`: what waits is
in the queue of a listener with a live thread, the safety of `Served`. `RingInv` adds
that a pair once given out is what the files go on saying. The refinement of
`KeyRing` shows it the names with files of their own: a pair appears in the ring
when its name is cached, and never changes. The assumption it needs beyond the
types is that `None` is not a pair. `HandshakesAdvance` and `StopAdvances` are the
measures behind `HandshakeGoesOn` and `StopReturns`: neither is ever set back, and
the lock a handshake may wait for is held by a handler that is minting.

`RelayProofs` (any room between the ends, and ends that stream for ever) proves `TypeOK`, `DeliveredInOrder`,
`NothingDroppedAtEof` and `ImplementsChannels` from `RInv`: what a pump holds is
the next chunk, and what it read through the TLS layer is decrypted. In the
refinement each direction is a `Channel` of its own: the steps of the other
pump, with which it shares two sockets, are stutters or take the encryption
away. `DeliveredInOrder` and `NothingDroppedAtEof` are what the refinement says
at any moment, and no run checks them apart from it. `PumpsAdvance` is the
measure behind `RelayEnds`: what is on its way and where the pump is, brought down
by the pump's own steps and raised only by what its own source still sends.

`NetnsProofs` (any number of sandboxes, rules, packets and faults) proves
`TypeOK`, `CreateInOrder`, `RulesAccounted`, `DestroyUndoes`, `NoFalseTrip` and
`CountKept` (behind `NonTcpNoticed`: a count stays until the teardown) from
`NInv`; the argument is a count: while `destroy` goes backwards through its
list, the host's rules of a kind are no more than the entries it has not come to
plus the deletions that failed. `WatchdogProofs` (any threads, limit, polling
interval and hold) proves `TypeOK`, `BoundedSilence` and `NoEarlyTrip` from
`WInv`: a reading is of the past and used within `Hold`, and the stored beat is
behind the newest stored reading only if heartbeats overlapped. The bound on the
clock is a constant like the others.

Every invariant and action property of the passing runs is proved. Only
model-checked: all liveness (`EveryReportReturns`, `KillCompletes`,
`DenialKills`, `HandlerEnds`, `Served`, `StopReturns`, `HandshakeGoesOn`,
`RelayEnds`, `NonTcpNoticed`), which needs fairness and ENABLED, out of the
prover's reach. What they rest on that is safety (`NothingRaises`,
`ReportsAdvance`, `DenialsAnswered`, `HandlersAdvance`, `NoneOrphaned`,
`HandshakesAdvance`, `StopAdvances`, `PumpsAdvance`, `CountKept`) is proved,
from invariants and without fairness: nothing that has begun is set back, and
what it waits for is alive. No module uses recursion or induction over data.

## Not modelled

- `read_all` and a line torn by a crash in the middle of a write.
- The bytes of a request head, of SO_ORIGINAL_DST and of an iptables listing:
  only what they are parsed to.
- What a host command does when it never returns; the reuse of a pid.
- The network filters' own semantics: what `REDIRECT` and `DROP` do to a packet
  is the kernel's, and TCP is not in `Netns`.
- `FirecrackerBackend._call_api`: nothing calls it. Examples and live scenarios.
- CredentialFuse: it keeps no state, and its report is any fuse's `Report`. What
  `fnmatch` and `startswith` accept; a rule is the sets it matches.
- What openssl signs, and the CA pair itself.
- `TripEvent.to_dict`, ids and timestamps beyond the order of creation.
- A handler as `Proxy` and as `Intercept` see it are two modules with the place
  "serving" in common, and `Relay` is a third. They are not composed: no property
  above spans them, and the states of the three would multiply.

## What could come next

- A refinement between `Proxy`'s "serving" and `Intercept`'s handler, so that
  `HandlerEnds` and `Served` speak of one state machine.
- `read_all` against a torn last line, with a crash of the process between any
  two steps of `report`.
- The reuse of a pid between `register_*` and the kill.
