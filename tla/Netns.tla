------------------------------- MODULE Netns -------------------------------
(***************************************************************************)
(* NetnsEgress (halt/intercept/netns.py) and the fuse that polls its        *)
(* counter, NonTcpEgressFuse (halt/fuses/nontcp.py).                        *)
(*                                                                         *)
(* Sandboxes are run one after another with the same NetnsConfig, so with   *)
(* the same names.  Every call shells out to ip and iptables, one command a *)
(* step; a command may fail, for want of what it needs or of itself (a      *)
(* fault), and no call but redirect_tcp_to, drop_non_tcp and count_non_tcp  *)
(* tells.  The fuse polls, on a thread of its own, at any time.             *)
(*                                                                         *)
(* A command that cannot be run at all raises; that is left out here.       *)
(* _created is what `created` is; no code reads it.                         *)
(***************************************************************************)
EXTENDS Naturals, Sequences, FiniteSets

CONSTANTS Runs,      \* bound: sandboxes
          MaxRules,  \* bound: rules a sandbox asks for
          MaxSent,   \* bound: non-TCP packets a sandbox sends
          MaxFaults  \* bound: commands that fail of themselves, over all runs

ASSUME NetnsAssumption == {Runs, MaxRules, MaxSent, MaxFaults} \subseteq Nat

VARIABLES run,       \* sandboxes so far
          call,      \* the call under way: "none", "create", "drop" (drop_non_tcp after
                     \* its first command), "destroy" or "links"
          next,      \* how far it is
          created,   \* NetnsEgress._created
          built,     \* the commands of create() whose effect is there
          mine,      \* NetnsEgress._rules
          rules,     \* the host's rules by kind, each its packet counter
          sent,      \* non-TCP packets of this sandbox that reached the host
          tripped,   \* the fuse returned a KILL for this sandbox
          cut,       \* history: the kill took this sandbox's link away
          faults, undoFaults \* history: faults so far, those of destroy()

vars == <<run, call, next, created, built, mine, rules, sent, tripped, cut,
          faults, undoFaults>>

\* Mutant of CreateOrder: the peer is addressed before it is moved.
CreateOrderAddrFirst ==
  <<"netns", "veth", "hostAddr", "hostUp", "lo", "addr", "move", "up", "route">>

\* create(): its commands, in order, and what each needs of the ones before.
CreateOrder == <<"netns", "veth", "move", "hostAddr", "hostUp", "lo", "addr", "up", "route">>
Commands == {CreateOrder[i] : i \in 1..Len(CreateOrder)}
Needs == [c \in Commands |->
            CASE c \in {"hostAddr", "hostUp"} -> {"veth"}
              [] c = "lo" -> {"netns"}
              [] c = "move" -> {"netns", "veth"}
              [] c \in {"addr", "up"} -> {"move"}
              [] c = "route" -> {"addr", "up"}
              [] OTHER -> {}]
\* What goes when the veth pair goes.
OfLink == {"veth", "move", "hostAddr", "hostUp", "addr", "up", "route"}

Kinds == {"redirect", "input", "forward", "count"}
TypeOK ==
  /\ run \in 0..Runs
  /\ call \in {"none", "create", "drop", "destroy", "links"}
  /\ next \in Nat
  /\ created \in BOOLEAN /\ built \subseteq Commands
  /\ mine \in Seq(Kinds) /\ rules \in [Kinds -> Seq(Nat)]
  /\ sent \in 0..MaxSent /\ tripped \in BOOLEAN /\ cut \in BOOLEAN
  /\ faults \in 0..MaxFaults /\ undoFaults \in 0..MaxFaults

Init ==
  /\ run = 0 /\ call = "none" /\ next = 0
  /\ created = FALSE /\ built = {}
  /\ mine = <<>> /\ rules = [k \in Kinds |-> <<>>]
  /\ sent = 0 /\ tripped = FALSE /\ cut = FALSE
  /\ faults = 0 /\ undoFaults = 0

-----------------------------------------------------------------------------
\* A command fails of itself.
Fault == faults < MaxFaults /\ faults' = faults + 1

\* A NetnsEgress is made and create() is called.
Create ==
  /\ call = "none" /\ ~created /\ run < Runs
  /\ run' = run + 1
  /\ call' = "create" /\ next' = 1
  /\ mine' = <<>>
  /\ sent' = 0 /\ tripped' = FALSE /\ cut' = FALSE
  /\ UNCHANGED <<created, built, rules, faults, undoFaults>>

\* One command of create(): its return code is not looked at.
CreateCommand ==
  /\ call = "create" /\ next <= Len(CreateOrder)
  /\ LET c == CreateOrder[next]
         works == Needs[c] \subseteq built /\ c \notin built
     IN \/ works /\ built' = built \cup {c} /\ UNCHANGED faults
        \/ ~works /\ UNCHANGED <<built, faults>>
        \/ works /\ Fault /\ UNCHANGED built
  /\ next' = next + 1
  /\ UNCHANGED <<run, call, created, mine, rules, sent, tripped, cut, undoFaults>>

Created ==
  /\ call = "create" /\ next > Len(CreateOrder)
  /\ created' = TRUE /\ call' = "none" /\ next' = 0
  /\ UNCHANGED <<run, built, mine, rules, sent, tripped, cut, faults, undoFaults>>

Appended(k) == [rules EXCEPT ![k] = Append(@, 0)]

\* _iptables_add records a rule, then tries to add it.
AddRule(k) ==
  /\ mine' = Append(mine, k)
  /\ \/ rules' = Appended(k) /\ UNCHANGED faults
     \/ Fault /\ UNCHANGED rules
  /\ UNCHANGED <<run, next, created, built, sent, tripped, cut, undoFaults>>

\* redirect_tcp_to, count_non_tcp, or the first command of drop_non_tcp.
AddRules ==
  /\ call = "none" /\ created
  /\ \E k \in Kinds \ {"forward"} :
       /\ Len(mine) + (IF k = "input" THEN 2 ELSE 1) <= MaxRules
       /\ AddRule(k)
       /\ call' = IF k = "input" THEN "drop" ELSE "none"

\* Mutant of DropForwarded: the second rule bypasses _iptables_add.
DropForwardedUnrecorded ==
  /\ call = "drop"
  /\ rules' = Appended("forward")
  /\ call' = "none"
  /\ UNCHANGED <<run, next, created, built, mine, sent, tripped, cut, faults, undoFaults>>

\* The second command of drop_non_tcp, whether or not the first one worked.
DropForwarded ==
  /\ call = "drop"
  /\ AddRule("forward")
  /\ call' = "none"

-----------------------------------------------------------------------------
\* Mutant of Destroy: _rules is cleared before it is gone through.
DestroyClearsFirst ==
  /\ call = "none" /\ created
  /\ call' = "destroy" /\ next' = 0 /\ mine' = <<>>
  /\ UNCHANGED <<run, created, built, rules, sent, tripped, cut, faults, undoFaults>>

\* destroy() is called: the rules go first, the last one added before the rest.
Destroy ==
  /\ call = "none" /\ created
  /\ call' = "destroy" /\ next' = Len(mine)
  /\ UNCHANGED <<run, created, built, mine, rules, sent, tripped, cut, faults, undoFaults>>

UndoFault == Fault /\ undoFaults' = undoFaults + 1

\* `iptables ... -D` takes away the first rule that reads the same.
DeleteRule ==
  /\ call = "destroy" /\ next > 0
  /\ LET k == mine[next] IN
       \/ /\ rules[k] # <<>>
          /\ rules' = [rules EXCEPT ![k] = Tail(@)]
          /\ UNCHANGED <<faults, undoFaults>>
       \/ rules[k] = <<>> /\ UNCHANGED <<rules, faults, undoFaults>>
       \/ rules[k] # <<>> /\ UndoFault /\ UNCHANGED rules
  /\ next' = next - 1
  /\ UNCHANGED <<run, call, created, built, mine, sent, tripped, cut>>

\* `_rules.clear()`, then `ip netns del`, which takes the pair with it unless the
\* move had failed: no process of the sandbox is left in the namespace by now.
DeleteNetns ==
  /\ call = "destroy" /\ next = 0
  /\ mine' = <<>>
  /\ \/ /\ built' = built \ ({"netns", "lo"} \cup IF "move" \in built THEN OfLink ELSE {})
        /\ UNCHANGED <<faults, undoFaults>>
     \/ "netns" \in built /\ UndoFault /\ UNCHANGED built
  /\ call' = "links"
  /\ UNCHANGED <<run, next, created, rules, sent, tripped, cut>>

\* Mutant of DeleteLink: the call is never over.
DeleteLinkTwice ==
  /\ call = "links"
  /\ created' = FALSE /\ call' = "link"
  /\ UNCHANGED <<run, next, built, mine, rules, sent, tripped, cut, faults, undoFaults>>

\* Mutant of DeleteLink: the deletion the namespace is taken to make needless.
DeleteLinkSkipped ==
  /\ call = "links"
  /\ created' = FALSE /\ call' = "none"
  /\ UNCHANGED <<run, next, built, mine, rules, sent, tripped, cut, faults, undoFaults>>

\* `ip link del` of the host's end, and _created is FALSE again.
DeleteLink ==
  /\ call = "links"
  /\ \/ built' = built \ OfLink /\ UNCHANGED <<faults, undoFaults>>
     \/ "veth" \in built /\ UndoFault /\ UNCHANGED built
  /\ created' = FALSE /\ call' = "none"
  /\ UNCHANGED <<run, next, mine, rules, sent, tripped, cut>>

-----------------------------------------------------------------------------
\* A kill severs the run's network: the link goes, the rules stay.
Sever ==
  /\ created /\ "veth" \in built
  /\ built' = built \ OfLink /\ cut' = TRUE
  /\ UNCHANGED <<run, call, next, created, mine, rules, sent, tripped, faults, undoFaults>>

\* The sandbox's way to the host.
Path == Commands \ {"lo"}

\* A UDP or ICMP packet reaches the host's interface: mangle PREROUTING counts it.
SendNonTcp ==
  /\ created /\ Path \subseteq built /\ sent < MaxSent
  /\ sent' = sent + 1
  /\ rules' = [rules EXCEPT !["count"] = [i \in DOMAIN @ |-> @[i] + 1]]
  /\ UNCHANGED <<run, call, next, created, built, mine, tripped, cut, faults, undoFaults>>

\* Mutant of Counted: `n <= 1` for `n <= 0`.
CountedTwo == \E i \in DOMAIN rules["count"] : rules["count"][i] > 1

\* non_tcp_packets() is above zero: some row of our interface's is.
Counted == \E i \in DOMAIN rules["count"] : rules["count"][i] > 0

\* NonTcpEgressFuse.observe, when iptables lists the chain.  A listing that
\* fails reads as no packet at all and changes nothing.
Poll ==
  /\ created
  /\ tripped' = (tripped \/ Counted)
  /\ UNCHANGED <<run, call, next, created, built, mine, rules, sent, cut, faults, undoFaults>>

Next ==
  \/ Create \/ CreateCommand \/ Created \/ AddRules \/ DropForwarded
  \/ Destroy \/ DeleteRule \/ DeleteNetns \/ DeleteLink
  \/ Sever \/ SendNonTcp \/ Poll

Spec == Init /\ [][Next]_vars

\* The fuse's owner goes on polling (nontcp.py:19-23), and not every listing fails.
FairSpec == Spec /\ WF_vars(Poll)

-----------------------------------------------------------------------------
\* The run is on: neither create() nor destroy() is under way.
Running == created /\ call \in {"none", "drop"}

\* "Ordering matters" (netns.py:130-132): with no fault, every command of
\* create() finds what it needs, also on a host where a sandbox of the same
\* name ran, was killed and was torn down before.
CreateInOrder ==
  Running /\ faults = 0 /\ ~cut => built = Commands

\* destroy() leaves neither a rule nor an interface for a future sandbox of the
\* same name (netns.py:209-213, 108-111), whichever commands of create() and of
\* the rule calls had failed, and whether or not a kill took the link first.
DestroyUndoes ==
  ~created /\ call = "none" /\ undoFaults = 0 =>
    built = {} /\ \A k \in Kinds : rules[k] = <<>>

Recorded(k) == Cardinality({i \in DOMAIN mine : mine[i] = k})

\* At any time each rule on the host is one destroy() still has on its list, or
\* the trace of a deletion that failed: at most one stays for each that did
\* (netns.py:121-123, 215-219).
RulesAccounted == \A k \in Kinds : Len(rules[k]) <= Recorded(k) + undoFaults

\* The fuse trips for packets of its own run (nontcp.py:32-43): a counter that
\* is summed by interface name does not show it what an earlier sandbox sent,
\* unless one of that sandbox's rules could not be deleted.
NoFalseTrip == tripped /\ undoFaults = 0 => sent > 0

\* A non-TCP packet that was counted trips the fuse, unless the teardown begins
\* before the next poll (netns.py:185-196, nontcp.py:19-23): the kill cutting the
\* link, or rules being added, does not lose it.
NonTcpNoticed ==
  (/\ Running
   /\ \E i \in DOMAIN rules["count"] : rules["count"][i] # 0)
    ~> (tripped \/ call = "destroy")

\* Until the teardown begins a count that is above zero stays so, whatever rules
\* are added and whether or not the link is cut, and a trip is for good: a packet is
\* there to be noticed for as long as the run is (netns.py:185-196, nontcp.py:32-43).
CountKept ==
  [][/\ Running /\ Counted => Counted' \/ call' = "destroy"
     /\ tripped => tripped' \/ Create]_vars

-----------------------------------------------------------------------------
(* The inductive invariant: the safety properties above follow from it, see  *)
(* NetnsProofs.                                                             *)

\* The entries for k among the first n recorded rules.
Entries(n, k) == {i \in 1..n : mine[i] = k}

\* Which call is under way, and how far it is.
CallInv ==
  /\ undoFaults <= faults
  /\ call \in {"drop", "destroy", "links"} => created
  /\ call = "create" => ~created /\ next \in 1..(Len(CreateOrder) + 1)
  /\ call = "destroy" => next <= Len(mine)
  /\ ~created \/ call = "links" => mine = <<>>

\* Each rule on the host has an entry that destroy() has not gone past, or is
\* the trace of a deletion that failed.
RulesInv ==
  \A k \in Kinds :
    Len(rules[k]) <= Cardinality(Entries(IF call = "destroy" THEN next ELSE Len(mine), k))
                       + undoFaults

\* A counter above zero, or a trip, is of packets of this sandbox.
CountInv == undoFaults = 0 /\ (Counted \/ tripped) => sent > 0

\* What is built at each stage, if nothing fails.
BuiltInv ==
  /\ undoFaults = 0 /\ call = "links" => built \subseteq OfLink
  /\ undoFaults = 0 /\ ~created /\ call = "none" => built = {}
  /\ faults = 0 /\ call = "create" => built = {CreateOrder[i] : i \in 1..(next - 1)}
  /\ CreateInOrder

NInv == TypeOK /\ CallInv /\ RulesInv /\ CountInv /\ BuiltInv
=============================================================================
