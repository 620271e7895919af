---------------------------- MODULE Enforcement -----------------------------
(***************************************************************************)
(* What the gated path promises of a run, whatever its handlers, its sinks  *)
(* and its backend do: an answer is given only to what was put on record;   *)
(* what the allowlist names is let through; anything else is refused, and   *)
(* only once the run's kill is over; the kill itself is for something the   *)
(* record holds and the allowlist does not; and a connection that gets no   *)
(* answer leaves its error behind.  Intercept implements it.                *)
(***************************************************************************)
CONSTANTS Events,     \* connections, and what else is reported
          Requests, Allowlist, None

VARIABLES conns,    \* the events that are connections of this run
          stage,    \* how far each connection is
          asked,    \* the request a connection made, None before
          record,   \* events on record, or whose failed write is
          kept,     \* connections an error is kept of
          kill,     \* "armed", "firing", "dead" or "aborted"
          cause     \* the event the kill is for

vars == <<conns, stage, asked, record, kept, kill, cause>>

Init ==
  /\ conns \subseteq Events
  /\ stage = [c \in conns |-> "open"]
  /\ asked = [c \in conns |-> None]
  /\ record = {} /\ kept = {}
  /\ kill = "armed" /\ cause = None

Over == kill \in {"dead", "aborted"}

Move(c, from, to) == stage[c] = from /\ stage' = [stage EXCEPT ![c] = to]

\* A handler may keep an error of its connection, and none is ever dropped.
MayKeep(c) == kept' \in {kept, kept \cup {c}}

Ask(c) ==
  /\ Move(c, "open", "asked")
  /\ \E q \in Requests : asked' = [asked EXCEPT ![c] = q]
  /\ MayKeep(c)
  /\ UNCHANGED <<conns, record, kill, cause>>

\* The connection ended before it made a request.
Drop(c) ==
  /\ Move(c, "open", "dropped")
  /\ MayKeep(c)
  /\ UNCHANGED <<conns, asked, record, kill, cause>>

\* A connection is reported once it has asked.
Record(e) ==
  /\ e \in conns => stage[e] = "asked"
  /\ record' = record \cup {e}
  /\ UNCHANGED <<conns, stage, asked, kept, kill, cause>>

\* The one kill of the run: an allowed request is never the cause.
Trip(e) ==
  /\ kill = "armed" /\ e \in record
  /\ e \in conns => stage[e] = "asked" /\ asked[e] \notin Allowlist
  /\ kill' = "firing" /\ cause' = e
  /\ UNCHANGED <<conns, stage, asked, record, kept>>

EndKill ==
  /\ kill = "firing"
  /\ kill' \in {"dead", "aborted"}
  /\ UNCHANGED <<conns, stage, asked, record, kept, cause>>

Pass(c) ==
  /\ Move(c, "asked", "passed")
  /\ asked[c] \in Allowlist /\ c \in record
  /\ UNCHANGED <<conns, asked, record, kept, kill, cause>>

Refuse(c) ==
  /\ Move(c, "asked", "refused")
  /\ asked[c] \notin Allowlist /\ c \in record
  /\ Over
  /\ UNCHANGED <<conns, asked, record, kept, kill, cause>>

\* No answer: the record could not be made, or the kill was for this connection
\* and a call of it raised.
Fail(c) ==
  /\ Move(c, "asked", "failed")
  /\ c \notin record \/ (cause = c /\ kill = "aborted")
  /\ kept' = kept \cup {c}
  /\ UNCHANGED <<conns, asked, record, kill, cause>>

\* The upstream is open from here to the end of the connection.
Flow(c) ==
  /\ Move(c, "passed", "flowing")
  /\ UNCHANGED <<conns, asked, record, kept, kill, cause>>

End(c) ==
  /\ Move(c, "passed", "served") \/ Move(c, "flowing", "served")
  /\ MayKeep(c)
  /\ UNCHANGED <<conns, asked, record, kill, cause>>

Next ==
  \/ \E c \in conns : Ask(c) \/ Drop(c) \/ Pass(c) \/ Refuse(c) \/ Fail(c)
                        \/ Flow(c) \/ End(c)
  \/ \E e \in Events : Record(e) \/ Trip(e)
  \/ EndKill

Spec == Init /\ [][Next]_vars
=============================================================================
