------------------------------- MODULE Relay -------------------------------
(***************************************************************************)
(* _relay (halt/intercept/terminate.py:296-319): two threads copy bytes     *)
(* between the sandbox's connection and the upstream.                       *)
(*                                                                         *)
(* Direction "up" runs on the handler's thread and copies from the client   *)
(* to the server; "down" runs on a thread of its own and copies back.  When *)
(* "up" is done the handler waits for "down" for one more I/O timeout, then *)
(* leaves and closes.  A chunk is known by its number, counted from the      *)
(* first one its destination has not yet taken, so that the two ends may    *)
(* stream for as long as they like; Cipher is a record never decrypted.     *)
(***************************************************************************)
EXTENDS Naturals, Sequences

CONSTANTS Chunks,    \* how many chunks have room between a source and its destination
          TlsKinds,  \* subset of BOOLEAN: may the connection be TLS, or plain
          Cipher

ASSUME RelayAssumption ==
  Chunks \in Nat /\ TlsKinds \subseteq BOOLEAN /\ Cipher \notin Nat

VARIABLES tls,     \* both legs are TLS
          sent,    \* chunks the source of a direction has sent
          fin,     \* the source of a direction has closed
          alert,   \* ... with a close_notify that is not read yet
          read,    \* chunks its pump has received
          hand,    \* the chunk its pump holds, 0 for none
          got,     \* what arrived at its destination and it has not taken
          pump,    \* where its pump is
          why,     \* history: why its pump stopped
          layer,   \* the TLS layer of an end's SSLSocket is in place
          via,     \* it was when the pump's current recv began
          over     \* _relay returned and _forward closed the upstream

vars == <<tls, sent, fin, alert, read, hand, got, pump, why, layer, via, over>>

Dirs == {"up", "down"}
Ends == {"client", "server"}
Src(d) == IF d = "up" THEN "client" ELSE "server"
Dst(d) == IF d = "up" THEN "server" ELSE "client"

TypeOK ==
  /\ tls \in BOOLEAN
  /\ sent \in [Dirs -> Nat] /\ read \in [Dirs -> Nat]
  /\ fin \in [Dirs -> BOOLEAN] /\ alert \in [Dirs -> BOOLEAN]
  /\ hand \in [Dirs -> Nat \cup {Cipher}]
  /\ got \in [Dirs -> Seq(Nat \cup {Cipher})]
  /\ pump \in [Dirs -> {"recv", "send", "shut", "done"}]
  /\ why \in [Dirs -> {"running", "eof", "timeout", "error"}]
  /\ layer \in [Ends -> BOOLEAN]
  /\ via \in [Dirs -> BOOLEAN]
  /\ over \in BOOLEAN

Init ==
  /\ tls \in TlsKinds
  /\ sent = [d \in Dirs |-> 0] /\ read = [d \in Dirs |-> 0]
  /\ fin = [d \in Dirs |-> FALSE] /\ alert = [d \in Dirs |-> FALSE]
  /\ hand = [d \in Dirs |-> 0]
  /\ got = [d \in Dirs |-> <<>>]
  /\ pump = [d \in Dirs |-> "recv"]
  /\ why = [d \in Dirs |-> "running"]
  /\ layer = [s \in Ends |-> tls]
  /\ via = [d \in Dirs |-> tls]
  /\ over = FALSE

-----------------------------------------------------------------------------
(* The two ends.                                                           *)

Send(d) ==
  /\ ~fin[d] /\ sent[d] < Chunks
  /\ sent' = [sent EXCEPT ![d] = @ + 1]
  /\ UNCHANGED <<tls, fin, alert, read, hand, got, pump, why, layer, via, over>>

\* A TLS end says that it closes, or just goes.
Close(d) ==
  /\ ~fin[d]
  /\ fin' = [fin EXCEPT ![d] = TRUE]
  /\ \E notify \in {FALSE, tls} : alert' = [alert EXCEPT ![d] = notify]
  /\ UNCHANGED <<tls, sent, read, hand, got, pump, why, layer, via, over>>

\* A number after the first chunk was taken.
Renumber(x) == IF x \in {0, Cipher} THEN x ELSE x - 1

\* The destination takes the first chunk it has; there is room for one more.
Take(d) ==
  /\ got[d] # <<>>
  /\ got' = [got EXCEPT ![d] = [i \in 1..Len(got[d]) - 1 |-> Renumber(got[d][i + 1])]]
  /\ hand' = [hand EXCEPT ![d] = Renumber(hand[d])]
  /\ sent' = [sent EXCEPT ![d] = @ - 1]
  /\ read' = [read EXCEPT ![d] = @ - 1]
  /\ UNCHANGED <<tls, fin, alert, pump, why, layer, via, over>>

-----------------------------------------------------------------------------
(* A pump.                                                                 *)

\* Mutant of Stop: the reason is kept where a pump's place should be.
StopUnnamed(d, reason) ==
  /\ pump' = [pump EXCEPT ![d] = reason]
  /\ UNCHANGED why

Stop(d, reason) ==
  /\ pump' = [pump EXCEPT ![d] = "shut"]
  /\ why' = [why EXCEPT ![d] = reason]

\* `data = src.recv(65536)`.  A recv that began after the SSLSocket's layer was
\* dropped reads the raw records of the connection.
Recv(d) ==
  /\ pump[d] = "recv" /\ ~over /\ read[d] < sent[d]
  /\ read' = [read EXCEPT ![d] = @ + 1]
  /\ hand' = [hand EXCEPT ![d] = IF tls /\ ~via[d] THEN Cipher ELSE read[d] + 1]
  /\ pump' = [pump EXCEPT ![d] = "send"]
  /\ UNCHANGED <<tls, sent, fin, alert, got, why, layer, via, over>>

\* ... a close_notify among them, which the source never sent as data.
RecvAlert(d) ==
  /\ pump[d] = "recv" /\ ~over /\ read[d] = sent[d] /\ alert[d] /\ ~via[d]
  /\ alert' = [alert EXCEPT ![d] = FALSE]
  /\ sent' = [sent EXCEPT ![d] = @ + 1]
  /\ read' = [read EXCEPT ![d] = @ + 1]
  /\ hand' = [hand EXCEPT ![d] = Cipher]
  /\ pump' = [pump EXCEPT ![d] = "send"]
  /\ UNCHANGED <<tls, fin, got, why, layer, via, over>>

\* Mutant of RecvEof: a close is acted on before what came before it is read.
RecvEofEarly(d) ==
  /\ pump[d] = "recv" /\ ~over /\ fin[d]
  /\ Stop(d, "eof")
  /\ UNCHANGED <<tls, sent, fin, alert, read, hand, got, layer, via, over>>

RecvEof(d) ==
  /\ pump[d] = "recv" /\ ~over /\ read[d] = sent[d] /\ fin[d] /\ (alert[d] => via[d])
  /\ Stop(d, "eof")
  /\ UNCHANGED <<tls, sent, fin, alert, read, hand, got, layer, via, over>>

\* Mutant of RecvTimeout: the sockets were left blocking.
RecvTimeoutNever(d) == FALSE /\ pump[d] = "recv" /\ UNCHANGED vars

\* 15 s went by with nothing to read in this direction.
RecvTimeout(d) ==
  /\ pump[d] = "recv" /\ ~over /\ read[d] = sent[d] /\ ~fin[d]
  /\ Stop(d, "timeout")
  /\ UNCHANGED <<tls, sent, fin, alert, read, hand, got, layer, via, over>>

\* `dst.sendall(data)`.  The client's side is closed a little after the
\* handler left, so "down" may still get a chunk through.
SendAll(d) ==
  /\ pump[d] = "send" /\ (over => d = "down")
  /\ got' = [got EXCEPT ![d] = Append(@, hand[d])]
  /\ hand' = [hand EXCEPT ![d] = 0]
  /\ pump' = [pump EXCEPT ![d] = "recv"]
  /\ via' = [via EXCEPT ![d] = layer[Src(d)]]
  /\ UNCHANGED <<tls, sent, fin, alert, read, why, layer, over>>

\* recv or sendall raises: the end it is for has reset the connection, whatever
\* was on its way ...
Resets(d) ==
  /\ pump[d] \in {"recv", "send"} /\ ~over
  /\ Stop(d, "error")
  /\ UNCHANGED <<tls, sent, fin, alert, read, hand, got, layer, via, over>>

\* ... or the handler has closed the sockets under this pump ...
Fails(d) ==
  /\ pump[d] \in {"recv", "send"} /\ over
  /\ Stop(d, "error")
  /\ UNCHANGED <<tls, sent, fin, alert, read, hand, got, layer, via, over>>

\* ... or the destination takes nothing for 15 s.
DrainTimeout(d) ==
  /\ pump[d] = "send" /\ ~over
  /\ Stop(d, "timeout")
  /\ UNCHANGED <<tls, sent, fin, alert, read, hand, got, layer, via, over>>

\* `finally: dst.shutdown(SHUT_WR)`.  SSLSocket.shutdown also drops the TLS
\* layer, for reads as well.
Shut(d) ==
  /\ pump[d] = "shut"
  /\ pump' = [pump EXCEPT ![d] = "done"]
  /\ layer' = [layer EXCEPT ![Dst(d)] = FALSE]
  /\ UNCHANGED <<tls, sent, fin, alert, read, hand, got, why, via, over>>

Pump(d) ==
  Recv(d) \/ RecvAlert(d) \/ RecvEof(d) \/ RecvTimeout(d) \/ SendAll(d)
  \/ Fails(d) \/ DrainTimeout(d) \/ Shut(d)

\* `t.join(timeout=_IO_TIMEOUT)` comes back because "down" is done, or because
\* the timeout went by; _forward closes the upstream either way.
Leave ==
  /\ pump["up"] = "done" /\ ~over
  /\ over' = TRUE
  /\ UNCHANGED <<tls, sent, fin, alert, read, hand, got, pump, why, layer, via>>

Next ==
  (\E d \in Dirs : Send(d) \/ Close(d) \/ Take(d) \/ Resets(d) \/ Pump(d)) \/ Leave

Spec == Init /\ [][Next]_vars

\* The timeouts keep a pump going, and the handler leaves.
FairSpec == Spec /\ (\A d \in Dirs : WF_vars(Pump(d))) /\ WF_vars(Leave)

-----------------------------------------------------------------------------
\* Bytes are copied in order, none twice and none skipped, and as they were
\* sent, for as long as neither pump has shut its destination (terminate.py:302-307).
DeliveredInOrder ==
  \A d \in Dirs : \A i \in 1..Len(got[d]) :
    got[d][i] = i \/ (got[d][i] = Cipher /\ tls /\ ~layer[Src(d)])

\* A pump that stopped because its source closed has passed on every chunk that
\* was sent before (terminate.py:304-306): half-closing loses nothing, whatever
\* the other direction is doing.
NothingDroppedAtEof ==
  \A d \in Dirs : why[d] = "eof" => Len(got[d]) = sent[d]

\* The relay comes to an end once the sandbox's end has nothing more to send,
\* however long the server goes on streaming and whether or not anyone closes:
\* both pumps stop and the handler goes on to close (terminate.py:308-319).  While
\* the sandbox sends, the relay lives on ("Relays block for as long as the agent's
\* connection lives", terminate.py:104).
RelayEnds ==
  <>[][~Send("up")]_vars => <>(over /\ \A d \in Dirs : pump[d] = "done")

\* The most steps the pump of d has left if its source sends nothing more.
PumpLeft(d) ==
  2 * (sent[d] - read[d] + IF alert[d] THEN 1 ELSE 0) +
    CASE pump[d] = "recv" -> 2 [] pump[d] = "send" -> 3
      [] pump[d] = "shut" -> 1 [] OTHER -> 0

\* Every step of a pump brings it nearer to its end, and only its own source's next
\* chunk or close may set it back: not the other pump, nor the other end, nor the
\* leaving handler, though they share its sockets (terminate.py:302-319).
PumpsAdvance ==
  [][\A d \in Dirs : /\ Pump(d) => PumpLeft(d)' < PumpLeft(d)
                     /\ Send(d) \/ Close(d) \/ PumpLeft(d)' <= PumpLeft(d)]_vars

-----------------------------------------------------------------------------
(* What each direction promises its two ends.                              *)

End(d) == CASE why[d] = "running" -> "none" [] why[d] = "eof" -> "clean" [] OTHER -> "cut"

Secure(d) == ~tls \/ layer[Src(d)]

UpChannel == INSTANCE Channel WITH sent <- sent["up"], fin <- fin["up"], got <- got["up"],
                                   end <- End("up"), secure <- Secure("up")
DownChannel == INSTANCE Channel WITH sent <- sent["down"], fin <- fin["down"],
                                     got <- got["down"], end <- End("down"),
                                     secure <- Secure("down")

\* Each direction is a channel, whatever the other one does, and though they share
\* their sockets: nothing is lost before a half-close nor sent after it
\* (terminate.py:302-319).
ImplementsChannels == UpChannel!Spec /\ DownChannel!Spec

-----------------------------------------------------------------------------
(* The inductive invariant, see RelayProofs.                                *)

\* A pump has passed on every chunk it received, but the one it holds, and it
\* holds one unless it waits for the next.
Holding(d) ==
  /\ read[d] <= sent[d]
  /\ Len(got[d]) = IF hand[d] = 0 THEN read[d] ELSE read[d] - 1
  /\ hand[d] # 0 => read[d] > 0
  /\ pump[d] = "recv" => hand[d] = 0
  /\ pump[d] = "send" => hand[d] # 0
  /\ why[d] = "running" <=> pump[d] \in {"recv", "send"}
  /\ why[d] = "eof" => fin[d] /\ hand[d] = 0 /\ read[d] = sent[d] /\ pump[d] \in {"shut", "done"}

\* A chunk is what was sent unless it was read past a layer that is gone.
Decrypted(d) ==
  /\ tls /\ ~via[d] => ~layer[Src(d)]
  /\ alert[d] => tls /\ fin[d]
  /\ hand[d] # 0 => hand[d] = read[d] \/ (hand[d] = Cipher /\ tls /\ ~layer[Src(d)])

RInv == TypeOK /\ DeliveredInOrder /\ \A d \in Dirs : Holding(d) /\ Decrypted(d)

-----------------------------------------------------------------------------
(* What the repository says that the code does not do.                     *)

\* terminate.py:297: bytes are copied.  What an end receives is what the other
\* end sent.
CopiesBytes == \A d \in Dirs : \A i \in 1..Len(got[d]) : got[d][i] = i
=============================================================================
