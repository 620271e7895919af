------------------------------- MODULE Sinks -------------------------------
(***************************************************************************)
(* halt/sinks.py: what one emit(event) does, on its reporter's thread.      *)
(*                                                                         *)
(* Two wirings are modelled.  "local": the supervisor writes straight to a  *)
(* LocalJsonlSink.  "tee": TeeSink(LocalJsonlSink, ExternalBroadcastSink),  *)
(* the wiring the module's docstring prescribes (lines 11-12).  Which one a *)
(* behaviour uses is chosen in SinkInit and never changes.                  *)
(*                                                                         *)
(* An event is its identity: what to_dict() writes is abstracted.           *)
(***************************************************************************)
EXTENDS Naturals, FiniteSets

CONSTANTS Events,     \* the TripEvents that may be reported
          SinkKinds   \* the sink wirings to consider, a subset of {"tee", "local"}

ASSUME SinkAssumption ==
  /\ IsFiniteSet(Events)
  /\ SinkKinds \subseteq {"tee", "local"}

VARIABLES sink,         \* the wiring
          emitPc,       \* where emit(e) is
          logged,       \* events with a line in the JSONL file
          teeFailures,  \* TeeSink.failures of the local sink: the write raised
          teeRaised,    \* TeeSink.failures of the broadcast sink: it raised
          received,     \* events the remote registry has taken in (external)
          delivered,    \* ExternalBroadcastSink.delivered
          tally,        \* what the thread in emit(e) has read delivered to be
          undelivered   \* ExternalBroadcastSink.failures, by event_id

sinkVars == <<emitPc, logged, teeFailures, teeRaised, received, delivered, tally,
              undelivered>>
recordVars == <<logged, teeFailures>>
broadcastVars == <<teeRaised, received, delivered, tally, undelivered>>

EmitPcs == {"idle", "local", "broadcast", "counting", "emitted", "raised"}

SinkTypeOK ==
  /\ sink \in {"tee", "local"}
  /\ emitPc \in [Events -> EmitPcs]
  /\ logged \subseteq Events
  /\ teeFailures \subseteq Events
  /\ teeRaised \subseteq Events
  /\ received \subseteq Events
  /\ delivered \in Nat
  /\ tally \in [Events -> Nat]
  /\ undelivered \subseteq Events

SinkInit ==
  /\ sink \in SinkKinds
  /\ emitPc = [e \in Events |-> "idle"]
  /\ logged = {} /\ teeFailures = {} /\ teeRaised = {} /\ received = {}
  /\ delivered = 0 /\ tally = [e \in Events |-> 0] /\ undelivered = {}

EmitAt(e, l) == emitPc' = [emitPc EXCEPT ![e] = l]

\* Mutant of StartEmit: TeeSink built in the wrong order, the local write lost.
StartEmitBroadcastFirst(e) ==
  /\ emitPc[e] = "idle"
  /\ EmitAt(e, "broadcast")
  /\ UNCHANGED <<recordVars, broadcastVars>>

\* sink.emit(e) is called: the local sink comes first.
StartEmit(e) ==
  /\ emitPc[e] = "idle"
  /\ EmitAt(e, "local")
  /\ UNCHANGED <<recordVars, broadcastVars>>

\* What follows the local sink: TeeSink's loop goes on to the broadcast.
AfterLocal == IF sink = "tee" THEN "broadcast" ELSE "emitted"

\* LocalJsonlSink.emit: open, write one line, flush.
WriteLocal(e) ==
  /\ emitPc[e] = "local"
  /\ logged' = logged \cup {e}
  /\ EmitAt(e, AfterLocal)
  /\ UNCHANGED <<teeFailures, broadcastVars>>

\* Mutant of WriteFails: TeeSink's handler passes instead of recording.
WriteFailsSilently(e) ==
  /\ emitPc[e] = "local"
  /\ EmitAt(e, IF sink = "tee" THEN "broadcast" ELSE "raised")
  /\ UNCHANGED <<recordVars, broadcastVars>>

\* Mutant of WriteFails: TeeSink lets a sink's exception through.
WriteFailsRaises(e) ==
  /\ emitPc[e] = "local"
  /\ EmitAt(e, "raised")
  /\ UNCHANGED <<recordVars, broadcastVars>>

\* open, json.dumps, write or flush raises.  TeeSink records it and goes on; with
\* a bare LocalJsonlSink nothing catches it and emit itself raises.
WriteFails(e) ==
  /\ emitPc[e] = "local"
  /\ IF sink = "tee"
     THEN teeFailures' = teeFailures \cup {e} /\ EmitAt(e, "broadcast")
     ELSE EmitAt(e, "raised") /\ UNCHANGED teeFailures
  /\ UNCHANGED <<logged, broadcastVars>>

\* json.dumps or Request raises, outside ExternalBroadcastSink's try: evidence
\* that JSON cannot write, a URL without a scheme.  Nothing is sent, neither tally
\* moves, and the exception is the tee's to record.
BroadcastRaises(e) ==
  /\ emitPc[e] = "broadcast"
  /\ teeRaised' = teeRaised \cup {e}
  /\ EmitAt(e, "emitted")
  /\ UNCHANGED <<recordVars, received, delivered, tally, undelivered>>

\* ExternalBroadcastSink.emit saw a 2xx status, and reads `delivered` ...
BroadcastOk(e) ==
  /\ emitPc[e] = "broadcast"
  /\ received' = received \cup {e}
  /\ tally' = [tally EXCEPT ![e] = delivered]
  /\ EmitAt(e, "counting")
  /\ UNCHANGED <<recordVars, teeRaised, delivered, undelivered>>

\* ... and writes it back, one more.  No lock is held in between.
CountDelivered(e) ==
  /\ emitPc[e] = "counting"
  /\ delivered' = tally[e] + 1
  /\ tally' = [tally EXCEPT ![e] = 0]
  /\ EmitAt(e, "emitted")
  /\ UNCHANGED <<recordVars, teeRaised, received, undelivered>>

\* Mutant of BroadcastFails: counted as delivered before the status is known.
BroadcastFailsCounted(e) ==
  /\ emitPc[e] = "broadcast"
  /\ received' \in {received, received \cup {e}}
  /\ delivered' = delivered + 1
  /\ undelivered' = undelivered \cup {e}
  /\ EmitAt(e, "emitted")
  /\ UNCHANGED <<recordVars, teeRaised, tally>>

\* An HTTP error, a refused connection or a timeout, swallowed into failures.
\* When only the answer was lost the registry does have the event.
BroadcastFails(e) ==
  /\ emitPc[e] = "broadcast"
  /\ received' \in {received, received \cup {e}}
  /\ undelivered' = undelivered \cup {e}
  /\ EmitAt(e, "emitted")
  /\ UNCHANGED <<recordVars, teeRaised, delivered, tally>>

EmitStep(e) ==
  \/ WriteLocal(e) \/ WriteFails(e)
  \/ BroadcastRaises(e) \/ BroadcastOk(e) \/ CountDelivered(e) \/ BroadcastFails(e)

-----------------------------------------------------------------------------
\* The durable record is made before any network I/O (sinks.py:11-12, 60-62;
\* README:63-64): an event the registry holds, or that is counted as delivered
\* or as failed there, was first written locally or its write failure recorded.
LocalBeforeNetwork == received \cup undelivered \subseteq logged \cup teeFailures

\* The events whose broadcast has ended, and those of them that were delivered.
Ended == {e \in Events : sink = "tee" /\ emitPc[e] = "emitted"}
Counted == Ended \ (undelivered \cup teeRaised)

\* Every broadcast that ended is accounted for once, by the registry's answer, a
\* recorded failure or an exception TeeSink kept (sinks.py:69-74, 98-116).
\* `delivered` never says more than was delivered, and nothing only if nothing
\* was: reports that count at once may lose some of the increments between them,
\* since line 114 reads and writes it without a lock, but not all.
BroadcastAccounting ==
  /\ Counted \subseteq received /\ undelivered \cup teeRaised \subseteq Ended
  /\ undelivered \cap teeRaised = {}
  /\ delivered <= Cardinality(Counted)
  /\ Counted # {} => delivered > 0

\* What is behind it, inductive: a tally in flight was not too high when it was
\* read, and the number of delivered events only grows.
BroadcastInv ==
  /\ BroadcastAccounting
  /\ \A e \in Events : emitPc[e] = "counting" => /\ e \in received
                                                 /\ tally[e] <= Cardinality(Counted)
  /\ sink # "tee" => \A e \in Events : emitPc[e] \notin {"broadcast", "counting"}
=============================================================================
