---------------------------- MODULE ProxyProofs ----------------------------
(***************************************************************************)
(* Theorems about Proxy, for any connections, names, file maps, workdirs,   *)
(* starts and limits.                                                       *)
(***************************************************************************)
EXTENDS Proxy, SequenceTheorems, TLAPS

USE CertsAssumption, ProxyAssumption

\* The steps of an accept thread and of a handshake, one by one.
ServeKeeps == <<certVars, posture, limit, stopFlag, listening, starts, thread,
                owner, joined, late, tls, sni, chain>>
Loop(g) ==
  \/ CheckStop(g) \/ Accept(g) \/ AcceptTimesOut(g) \/ AcceptRaises(g)
  \/ Dispatch(g) \/ InlineEnds(g) \/ BeginHandler(g) \/ BeginRefused(g)
StopKeeps == <<certVars, posture, limit, short, stopFlag, starts>>

\* What a step may be.
LEMMA NextCases ==
  ASSUME [Next]_pvars
  PROVE  \/ Start \/ StartRefused \/ CallStop
         \/ (JoinAccept /\ UNCHANGED StopKeeps)
         \/ (CloseListener /\ UNCHANGED StopKeeps)
         \/ (ForgetHandlers /\ UNCHANGED StopKeeps)
         \/ \E c \in Conns : JoinHandler(c) /\ UNCHANGED StopKeeps
         \/ \E c \in Conns : Connect(c) \/ HandshakeStep(c) \/ HandlerEnds(c) \/ PumpEnds(c)
         \/ \E g \in Starts : Loop(g) /\ UNCHANGED ServeKeeps
         \/ UNCHANGED pvars
  BY DEF Next, StopStep, ServeStep, StopKeeps, ServeKeeps, Loop

-----------------------------------------------------------------------------
(* The invariant holds at the start.                                       *)

LEMMA PInit == Init => PInv
  <1> SUFFICES ASSUME Init PROVE PInv
    OBVIOUS
  <1>1. CertsTypeOK
    BY DEF Init, CertsInit, CertsTypeOK, Mints
  <1>2. starts \in 0 .. MaxStarts /\ thread \in 0 .. starts
    BY DEF Init
  <1>3. backlog \in Seq(Conns)
    BY DEF Init
  <1>4. TypeOK
    BY <1>1, <1>2, <1>3 DEF Init, TypeOK, Handling, HandlerOver, InHandshake
  <1>5. ThreadInv
    BY DEF Init, ThreadInv
  <1>6. QueueInv
    BY DEF Init, QueueInv
  <1>7. HandInv /\ HandlersInv /\ LeftInv
    BY DEF Init, HandInv, HandlersInv, LeftInv, Handling, InHandshake
  <1>8. CertInv
    BY DEF Init, CertsInit, CertInv, CertificateFits, InHandshake
  <1>9. QED
    BY <1>4, <1>5, <1>6, <1>7, <1>8 DEF PInv

-----------------------------------------------------------------------------
(* The types.                                                              *)

LEMMA TypeStep ==
  ASSUME TypeOK, ThreadInv, QueueInv, HandInv, CertInv, [Next]_pvars
  PROVE  TypeOK'
  <1> USE DEF HandlerOver, Handling, InHandshake
  <1>0. /\ starts \in Nat /\ thread \in Nat /\ thread <= starts /\ starts <= MaxStarts
        /\ MaxStarts \in Nat /\ limit.starts \in 0 .. MaxStarts
    BY DEF TypeOK
  <1>1. CASE Start
    <2>1. starts' \in 0 .. MaxStarts /\ thread' \in 0 .. starts' /\ starts' \in Starts
      BY <1>0, <1>1 DEF Start, Starts
    <2>2. QED
      BY <1>1, <2>1 DEF Start, Go, TypeOK, certVars, connVars, CertsTypeOK
  <1>2. CASE StartRefused
    <2>1. starts' \in 0 .. MaxStarts /\ thread' \in 0 .. starts'
      BY <1>0, <1>2 DEF StartRefused
    <2>2. QED
      BY <1>2, <2>1 DEF StartRefused, TypeOK, certVars, connVars, loopVars, CertsTypeOK
  <1>3. CASE CallStop
    BY <1>3 DEF CallStop, TypeOK, certVars, connVars, loopVars, CertsTypeOK
  <1>4. CASE JoinAccept /\ UNCHANGED StopKeeps
    <2>1. thread' \in 0 .. starts'
      BY <1>0, <1>4 DEF JoinAccept, StopKeeps
    <2>2. QED
      BY <1>4, <2>1 DEF JoinAccept, StopKeeps, TypeOK, certVars, connVars, loopVars, CertsTypeOK
  <1>5. CASE CloseListener /\ UNCHANGED StopKeeps
    <2>1. backlog' \in Seq(Conns)
      BY <1>5 DEF CloseListener
    <2>2. place' \in [Conns -> {"away", "backlog", "reset", "taken"} \cup Handling \cup HandlerOver]
      BY <1>5 DEF CloseListener, TypeOK
    <2>3. QED
      BY <1>5, <2>1, <2>2 DEF CloseListener, StopKeeps, TypeOK, certVars, CertsTypeOK
  <1>6. CASE ForgetHandlers /\ UNCHANGED StopKeeps
    BY <1>6 DEF ForgetHandlers, StopKeeps, TypeOK, certVars, connVars, CertsTypeOK
  <1>7. ASSUME NEW c \in Conns, JoinHandler(c), UNCHANGED StopKeeps
        PROVE  TypeOK'
    <2>1. /\ joined' \subseteq handlers' /\ handlers' = handlers
          /\ owner' \in {owner, "raised"} /\ UNCHANGED thread
      BY <1>7 DEF JoinHandler, TypeOK, loopVars
    <2>2. late' \in BOOLEAN
      <3>1. late \in BOOLEAN
        BY DEF TypeOK
      <3>2. late' = late \/ late' = (late \/ place[c] \in Handling)
        BY <1>7 DEF JoinHandler
      <3>3. QED
        BY <3>1, <3>2
    <2>3. UNCHANGED <<certVars, connVars, loopVars, listening, posture, limit, short,
                      stopFlag, starts>>
      BY <1>7 DEF JoinHandler, StopKeeps
    <2>4. QED
      BY <2>1, <2>2, <2>3 DEF TypeOK, certVars, connVars, loopVars, CertsTypeOK
  <1>8. ASSUME NEW c \in Conns, Connect(c)
        PROVE  TypeOK'
    <2>1. backlog' \in Seq(Conns)
      BY <1>8, AppendProperties DEF Connect, TypeOK
    <2>2. QED
      BY <1>8, <2>1 DEF Connect, Put, TypeOK, certVars, lifeVars, CertsTypeOK
  <1>9. ASSUME NEW c \in Conns, HandshakeStep(c)
        PROVE  TypeOK'
    <2>1. UNCHANGED <<lifeVars, loopVars>>
      BY <1>9 DEF HandshakeStep
    <2>2. CASE Peek(c)
      <3>1. limit.names \subseteq Names
        BY DEF TypeOK
      <3>2. place' \in [Conns -> {"away", "backlog", "reset", "taken"} \cup Handling \cup HandlerOver]
        <4>1. \E l \in {"serving", "lock"} : place' = [place EXCEPT ![c] = l]
          BY <2>2 DEF Peek, Put
        <4>2. QED
          BY <4>1 DEF TypeOK
      <3>3. tls' \in [Conns -> BOOLEAN]
        <4>1. tls' = tls \/ tls' = [tls EXCEPT ![c] = TRUE]
          BY <2>2 DEF Peek
        <4>2. QED
          BY <4>1 DEF TypeOK
      <3>4. sni' \in [Conns -> Names \cup {None}]
        <4>1. sni' = sni \/ \E n \in Names : sni' = [sni EXCEPT ![c] = n]
          BY <2>2, <3>1 DEF Peek
        <4>2. QED
          BY <4>1 DEF TypeOK
      <3>5. UNCHANGED <<certVars, chain>>
        BY <2>2 DEF Peek
      <3>6. QED
        BY <2>1, <3>2, <3>5, <3>3, <3>4 DEF TypeOK, certVars, lifeVars, loopVars, CertsTypeOK
    <2>3. CASE LeafFor(c)
      <3>1. place[c] \in {"lock", "request", "sign"}
        BY <2>3 DEF LeafFor
      <3>2. sni[c] \in Names
        BY <3>1 DEF CertInv
      <3>3. CertsTypeOK'
        BY <2>3, <3>2 DEF LeafFor, TypeOK, CertsTypeOK, certVars, Cached, LockToMint,
                         WriteKey, WriteCrt, MintFails, Mints
      <3>4. /\ place' \in [Conns -> {"away", "backlog", "reset", "taken"} \cup Handling \cup HandlerOver]
            /\ UNCHANGED <<tls, sni, chain>>
        BY <2>3 DEF LeafFor, Put, TypeOK
      <3>5. QED
        BY <2>1, <3>3, <3>4 DEF TypeOK, lifeVars, loopVars
    <2>4. CASE LoadChain(c)
      <3>1. sni[c] \in Names /\ stem[sni[c]] \in Stems
        BY <2>4 DEF LoadChain, CertInv, TypeOK, CertsTypeOK, Stems
      <3>2. OnFile(sni[c]) \in [crt : Mints, key : Mints]
        BY <3>1 DEF OnFile, TypeOK, CertsTypeOK
      <3>3. QED
        BY <2>1, <2>4, <3>2 DEF LoadChain, Put, TypeOK, certVars, lifeVars, loopVars, CertsTypeOK
    <2>5. QED
      BY <1>9, <2>2, <2>3, <2>4 DEF HandshakeStep
  <1>10. ASSUME NEW c \in Conns, HandlerEnds(c) \/ PumpEnds(c)
         PROVE  TypeOK'
    BY <1>10 DEF HandlerEnds, PumpEnds, Put, TypeOK, certVars, lifeVars, loopVars, CertsTypeOK
  <1>11. ASSUME NEW g \in Starts, Loop(g), UNCHANGED ServeKeeps
         PROVE  TypeOK'
    <2>1. CertsTypeOK'
      BY <1>11 DEF ServeKeeps, certVars, CertsTypeOK, TypeOK
    <2>2. UNCHANGED <<posture, limit, stopFlag, listening, starts, thread,
                      owner, joined, late, tls, sni, chain>>
      BY <1>11 DEF ServeKeeps
    <2>3. CASE Accept(g)
      <3>1. Head(backlog) \in Conns /\ Tail(backlog) \in Seq(Conns)
        BY <2>3, HeadTailProperties DEF Accept, TypeOK
      <3>2. QED
        BY <2>1, <2>2, <2>3, <3>1 DEF Accept, Go, Put, TypeOK
    <2>4. CASE Dispatch(g)
      <3>1. hand[g] \in Conns
        BY <2>4 DEF Dispatch, HandInv
      <3>2. QED
        BY <2>1, <2>2, <2>4, <3>1 DEF Dispatch, Go, Put, TypeOK
    <2>5. CASE CheckStop(g) \/ AcceptTimesOut(g)
      BY <2>1, <2>2, <2>5 DEF CheckStop, AcceptTimesOut, Go, TypeOK
    <2>6. CASE AcceptRaises(g)
      BY <2>1, <2>2, <2>6 DEF AcceptRaises, Go, TypeOK
    <2>7. CASE InlineEnds(g)
      BY <2>1, <2>2, <2>7 DEF InlineEnds, Go, Put, TypeOK
    <2>8. CASE BeginHandler(g)
      BY <2>1, <2>2, <2>8 DEF BeginHandler, Go, Put, TypeOK
    <2>9. CASE BeginRefused(g)
      BY <2>1, <2>2, <2>9 DEF BeginRefused, Go, TypeOK
    <2>10. QED
      BY <1>11, <2>3, <2>4, <2>5, <2>6, <2>7, <2>8, <2>9 DEF Loop
  <1>12. CASE UNCHANGED pvars
    BY <1>12 DEF pvars, TypeOK, certVars, lifeVars, loopVars, connVars, CertsTypeOK
  <1>13. QED
    BY <1>1, <1>2, <1>3, <1>4, <1>5, <1>6, <1>7, <1>8, <1>9, <1>10, <1>11, <1>12, NextCases

-----------------------------------------------------------------------------
(* The accept threads.                                                     *)

LEMMA ThreadInvStep ==
  ASSUME TypeOK, ThreadInv, [Next]_pvars
  PROVE  ThreadInv'
  <1>0. /\ starts \in Nat /\ thread \in Nat /\ thread <= starts /\ starts <= MaxStarts
        /\ MaxStarts \in Nat /\ limit.starts \in 0 .. MaxStarts
        /\ \A g \in Starts : g \in Nat /\ g # 0
    BY DEF TypeOK, Starts
  <1>1. CASE Start
    <2>1. thread = 0 /\ starts + 1 \in Starts
      BY <1>0, <1>1 DEF Start, ThreadInv, Starts
    <2>2. /\ serve' = [serve EXCEPT ![starts + 1] = "check"]
          /\ starts' = starts + 1 /\ thread' = starts + 1 /\ owner' = "free"
          /\ listening' /\ UNCHANGED <<late, stopFlag>> /\ owner # "join"
      BY <1>1 DEF Start, Go
    <2>3. \A g \in Starts : g # starts + 1 => serve'[g] = serve[g]
      BY <2>2 DEF TypeOK
    <2>4. serve'[starts + 1] = "check"
      BY <2>1, <2>2 DEF TypeOK
    <2>5. \A g \in Starts : g > starts' => serve'[g] = "none"
      BY <1>0, <2>2, <2>3 DEF ThreadInv
    <2>6. QED
      BY <1>0, <2>1, <2>2, <2>3, <2>4, <2>5 DEF ThreadInv
  <1>2. CASE StartRefused
    <2>1. thread = 0 /\ starts + 1 \in Starts /\ serve[starts + 1] = "none"
      BY <1>0, <1>2 DEF StartRefused, ThreadInv, Starts
    <2>2. /\ starts' = starts + 1 /\ thread' = starts + 1 /\ owner' = "free"
          /\ listening' /\ UNCHANGED <<late, stopFlag, serve>> /\ owner # "join"
      BY <1>2 DEF StartRefused, loopVars
    <2>3. \A g \in Starts : g > starts' => serve'[g] = "none"
      BY <1>0, <2>2 DEF ThreadInv
    <2>4. QED
      BY <1>0, <2>1, <2>2, <2>3 DEF ThreadInv
  <1>3. CASE CallStop
    BY <1>3 DEF CallStop, ThreadInv, loopVars
  <1>4. CASE JoinAccept /\ UNCHANGED StopKeeps
    <2>1. thread # 0 => thread \in Starts
      BY <1>0 DEF Starts
    <2>2. QED
      BY <1>0, <1>4, <2>1 DEF JoinAccept, StopKeeps, NeverBegan, AcceptThreadOver, ThreadInv, loopVars
  <1>5. CASE CloseListener /\ UNCHANGED StopKeeps
    BY <1>5 DEF CloseListener, StopKeeps, ThreadInv
  <1>6. CASE ForgetHandlers /\ UNCHANGED StopKeeps
    BY <1>6 DEF ForgetHandlers, StopKeeps, ThreadInv
  <1>7. ASSUME NEW c \in Conns, JoinHandler(c), UNCHANGED StopKeeps
        PROVE  ThreadInv'
    BY <1>7 DEF JoinHandler, StopKeeps, ThreadInv, loopVars
  <1>8. ASSUME NEW c \in Conns, Connect(c) \/ HandshakeStep(c) \/ HandlerEnds(c) \/ PumpEnds(c)
        PROVE  ThreadInv'
    BY <1>8 DEF Connect, HandshakeStep, HandlerEnds, PumpEnds, ThreadInv, lifeVars, loopVars
  <1>9. ASSUME NEW g \in Starts, Loop(g), UNCHANGED ServeKeeps
        PROVE  ThreadInv'
    <2>1. UNCHANGED <<stopFlag, listening, starts, thread, owner, late>>
      BY <1>9 DEF ServeKeeps
    <2>2. /\ serve[g] \notin {"none", "ended"}
          /\ \A h \in Starts : h # g => serve'[h] = serve[h]
          /\ serve'[g] \in {"check", "accept", "dispatch", "inline", "begin", "ended"}
      BY <1>9 DEF Loop, CheckStop, Accept, AcceptTimesOut, AcceptRaises, Dispatch,
                  InlineEnds, BeginHandler, BeginRefused, Go, TypeOK
    <2>3. stopFlag /\ serve[g] = "check" => serve'[g] = "ended"
      BY <1>9 DEF Loop, CheckStop, Accept, AcceptTimesOut, AcceptRaises, Dispatch,
                  InlineEnds, BeginHandler, BeginRefused, Go, TypeOK
    <2>4. g <= starts
      BY <1>0, <2>2 DEF ThreadInv
    <2>5. \A h \in Starts : h > starts => serve'[h] = "none"
      BY <1>0, <2>2, <2>4 DEF ThreadInv
    <2>6. QED
      BY <2>1, <2>2, <2>3, <2>5 DEF ThreadInv
  <1>10. CASE UNCHANGED pvars
    BY <1>10 DEF pvars, ThreadInv, lifeVars, loopVars
  <1>11. QED
    BY <1>1, <1>2, <1>3, <1>4, <1>5, <1>6, <1>7, <1>8, <1>9, <1>10, NextCases

-----------------------------------------------------------------------------
(* The kernel's queue.                                                     *)

\* A step that leaves the queue and the listener alone, and where it changes a
\* connection, one that does not wait in it and does not get to.
LEMMA QueueKept ==
  ASSUME TypeOK, QueueInv, UNCHANGED <<backlog, listening>>,
         \A c \in Conns : place'[c] = place[c]
                            \/ (place[c] # "backlog" /\ place'[c] # "backlog")
  PROVE  QueueInv'
  <1>1. \A i \in 1..Len(backlog) : backlog[i] \in Conns
    BY DEF TypeOK
  <1>2. QED
    BY <1>1 DEF QueueInv

LEMMA QueueInvStep ==
  ASSUME TypeOK, ThreadInv, QueueInv, HandInv, [Next]_pvars
  PROVE  QueueInv'
  <1>0. \A i \in 1..Len(backlog) : backlog[i] \in Conns
    BY DEF TypeOK
  <1>1. CASE Start \/ StartRefused
    BY <1>1 DEF Start, StartRefused, connVars, loopVars, QueueInv
  <1>2. CASE CallStop \/ (JoinAccept /\ UNCHANGED StopKeeps)
              \/ (ForgetHandlers /\ UNCHANGED StopKeeps)
    BY <1>2, QueueKept DEF CallStop, JoinAccept, ForgetHandlers, connVars, loopVars
  <1>3. CASE CloseListener /\ UNCHANGED StopKeeps
    BY <1>3 DEF CloseListener, QueueInv, TypeOK
  <1>4. ASSUME NEW c \in Conns, JoinHandler(c)
        PROVE  QueueInv'
    BY <1>4, QueueKept DEF JoinHandler, connVars, loopVars
  <1>5. ASSUME NEW c \in Conns, Connect(c)
        PROVE  QueueInv'
    <2>1. /\ backlog' = Append(backlog, c) /\ listening' = listening /\ listening
          /\ place[c] = "away"
      BY <1>5 DEF Connect, lifeVars
    <2>2. /\ Len(backlog') = Len(backlog) + 1 /\ Len(backlog) \in Nat
          /\ backlog'[Len(backlog) + 1] = c
          /\ \A i \in 1..Len(backlog) : backlog'[i] = backlog[i]
      BY <2>1, AppendProperties DEF TypeOK
    <2>3. place'[c] = "backlog" /\ \A d \in Conns : d # c => place'[d] = place[d]
      BY <1>5 DEF Connect, Put, TypeOK
    <2>4. \A i \in 1..Len(backlog) : backlog[i] # c /\ place'[backlog[i]] = "backlog"
      BY <1>0, <2>1, <2>3 DEF QueueInv
    <2>5. 1..Len(backlog') = 1..Len(backlog) \cup {Len(backlog) + 1}
      BY <2>2
    <2>6. \A i \in 1..Len(backlog') : place'[backlog'[i]] = "backlog"
      BY <2>2, <2>3, <2>4, <2>5
    <2>7. \A i, j \in 1..Len(backlog') : backlog'[i] = backlog'[j] => i = j
      BY <2>2, <2>4, <2>5 DEF QueueInv
    <2>8. QED
      BY <2>1, <2>6, <2>7 DEF QueueInv
  <1>6. ASSUME NEW c \in Conns, HandshakeStep(c) \/ HandlerEnds(c) \/ PumpEnds(c)
        PROVE  QueueInv'
    BY <1>6, QueueKept DEF HandshakeStep, Peek, LeafFor, LoadChain, HandlerEnds, PumpEnds, Put,
                           lifeVars, loopVars, TypeOK
  <1>7. ASSUME NEW g \in Starts, Loop(g), UNCHANGED ServeKeeps
        PROVE  QueueInv'
    <2>1. listening' = listening
      BY <1>7 DEF ServeKeeps
    <2>2. CASE Accept(g)
      <3>1. listening /\ backlog # <<>> /\ backlog' = Tail(backlog)
        BY <2>2 DEF Accept
      <3>2. /\ Len(backlog) \in Nat /\ Len(backlog) # 0 /\ Len(backlog') = Len(backlog) - 1
            /\ Head(backlog) = backlog[1]
            /\ \A i \in 1..Len(backlog') : backlog'[i] = backlog[i + 1]
        BY <3>1, HeadTailProperties, EmptySeq DEF TypeOK
      <3>3. \A d \in Conns : d # backlog[1] => place'[d] = place[d]
        BY <2>2, <3>2 DEF Accept, Put, TypeOK
      <3>4. \A i \in 1..Len(backlog') : i + 1 \in 1..Len(backlog) /\ i + 1 # 1
        BY <3>2
      <3>5. 1 \in 1..Len(backlog)
        BY <3>2
      <3>6. \A i \in 1..Len(backlog') : backlog[i + 1] # backlog[1]
        BY <3>4, <3>5 DEF QueueInv
      <3>7. \A i \in 1..Len(backlog') : place'[backlog'[i]] = "backlog"
        BY <1>0, <3>2, <3>3, <3>4, <3>6 DEF QueueInv
      <3>8. \A i, j \in 1..Len(backlog') : backlog'[i] = backlog'[j] => i = j
        <4>1. TAKE i, j \in 1..Len(backlog')
        <4>2. HAVE backlog'[i] = backlog'[j]
        <4>3. i + 1 = j + 1
          BY <3>2, <3>4, <4>2 DEF QueueInv
        <4>4. QED
          BY <3>2, <4>3
      <3>9. QED
        BY <2>1, <3>1, <3>7, <3>8 DEF QueueInv
    <2>3. CASE CheckStop(g) \/ AcceptTimesOut(g) \/ AcceptRaises(g) \/ BeginRefused(g)
      BY <2>1, <2>3, QueueKept DEF CheckStop, AcceptTimesOut, AcceptRaises, BeginRefused
    <2>4. CASE Dispatch(g) \/ InlineEnds(g) \/ BeginHandler(g)
      <3>1. hand[g] \in Conns /\ place[hand[g]] \in {"taken", "serving"}
        BY <2>4 DEF Dispatch, InlineEnds, BeginHandler, HandInv
      <3>2. /\ UNCHANGED backlog
            /\ place' = place \/ \E l \in {"serving", "closed", "peek"} : Put(hand[g], l)
        BY <2>4 DEF Dispatch, InlineEnds, BeginHandler
      <3>3. QED
        BY <2>1, <3>1, <3>2, QueueKept DEF Put, TypeOK
    <2>5. QED
      BY <1>7, <2>2, <2>3, <2>4 DEF Loop
  <1>8. CASE UNCHANGED pvars
    BY <1>8, QueueKept DEF pvars, lifeVars, loopVars, connVars
  <1>9. QED
    BY <1>1, <1>2, <1>3, <1>4, <1>5, <1>6, <1>7, <1>8, NextCases

-----------------------------------------------------------------------------
(* What the accept threads have in hand.                                   *)

\* No accept thread moves, and what one has in hand stays where it is.
LEMMA HandKept ==
  ASSUME TypeOK, HandInv, UNCHANGED <<serve, hand, posture>>,
         \A c \in Conns : place'[c] = place[c] \/ ~\E g \in Starts : hand[g] = c
  PROVE  HandInv'
  BY DEF HandInv

LEMMA HandInvStep ==
  ASSUME TypeOK, ThreadInv, QueueInv, HandInv, [Next]_pvars
  PROVE  HandInv'
  <1>0. \A i \in 1..Len(backlog) : backlog[i] \in Conns
    BY DEF TypeOK
  <1>00. None \notin Conns
    OBVIOUS
  <1>000. \A g \in Starts : hand[g] \in Conns =>
            \/ serve[g] \in {"dispatch", "begin"} /\ place[hand[g]] = "taken"
            \/ serve[g] = "inline" /\ place[hand[g]] = "serving" /\ posture = "deny"
    BY <1>00 DEF HandInv, TypeOK
  <1>1. CASE Start
    <2>1. /\ serve' = [serve EXCEPT ![starts + 1] = "check"]
          /\ UNCHANGED <<hand, posture, place>>
      BY <1>1 DEF Start, Go, connVars
    <2>2. starts + 1 \in Starts /\ serve[starts + 1] = "none"
      <3>1. /\ starts \in Nat /\ starts < limit.starts /\ limit.starts \in 0 .. MaxStarts
            /\ MaxStarts \in Nat
        BY <1>1 DEF Start, TypeOK
      <3>2. starts + 1 \in Starts /\ starts + 1 > starts
        BY <3>1 DEF Starts
      <3>3. QED
        BY <3>2 DEF ThreadInv
    <2>3. QED
      BY <2>1, <2>2 DEF HandInv, TypeOK
  <1>2. CASE StartRefused \/ CallStop
              \/ (JoinAccept /\ UNCHANGED StopKeeps) \/ (ForgetHandlers /\ UNCHANGED StopKeeps)
    BY <1>2, HandKept DEF StartRefused, CallStop, JoinAccept, ForgetHandlers, StopKeeps,
                          connVars, loopVars
  <1>3. CASE CloseListener /\ UNCHANGED StopKeeps
    <2>1. UNCHANGED <<serve, hand, posture>>
      BY <1>3 DEF CloseListener, StopKeeps
    <2>2. \A c \in Conns : place'[c] = place[c] \/ place[c] = "backlog"
      BY <1>3 DEF CloseListener, TypeOK
    <2>3. QED
      BY <1>000, <2>1, <2>2, HandKept
  <1>4. ASSUME NEW c \in Conns, JoinHandler(c), UNCHANGED StopKeeps
        PROVE  HandInv'
    BY <1>4, HandKept DEF JoinHandler, StopKeeps, connVars, loopVars
  <1>5. ASSUME NEW c \in Conns, Connect(c) \/ HandshakeStep(c) \/ HandlerEnds(c) \/ PumpEnds(c)
        PROVE  HandInv'
    <2>1. UNCHANGED <<serve, hand, posture>>
      BY <1>5 DEF Connect, HandshakeStep, HandlerEnds, PumpEnds, lifeVars, loopVars
    <2>2. /\ \A d \in Conns : d # c => place'[d] = place[d]
          /\ place[c] # "taken" /\ (place[c] = "serving" => posture = "terminate")
      BY <1>5 DEF Connect, HandshakeStep, Peek, LeafFor, LoadChain, HandlerEnds, PumpEnds, Put, TypeOK
    <2>3. ~\E g \in Starts : hand[g] = c
      BY <1>000, <2>2
    <2>4. QED
      BY <2>1, <2>2, <2>3, HandKept
  <1>6. ASSUME NEW g \in Starts, Loop(g), UNCHANGED ServeKeeps
        PROVE  HandInv'
    <2>1. posture' = posture /\ posture \in {"deny", "terminate"}
      BY <1>6 DEF ServeKeeps, TypeOK
    <2>2. CASE Accept(g)
      <3>1. backlog # <<>>
        BY <2>2 DEF Accept
      <3>2. Head(backlog) = backlog[1] /\ 1 \in 1..Len(backlog)
        BY <3>1, HeadTailProperties, EmptySeq DEF TypeOK
      <3>3. Head(backlog) \in Conns /\ place[Head(backlog)] = "backlog"
        BY <1>0, <3>2 DEF QueueInv
      <3>4. \A h \in Starts : hand[h] # Head(backlog)
        BY <1>000, <3>3
      <3>5. /\ serve'[g] = "dispatch" /\ hand'[g] = Head(backlog)
            /\ place'[Head(backlog)] = "taken"
            /\ \A h \in Starts : h # g => serve'[h] = serve[h] /\ hand'[h] = hand[h]
            /\ \A d \in Conns : d # Head(backlog) => place'[d] = place[d]
        BY <2>2, <3>3 DEF Accept, Go, Put, TypeOK
      <3>6. QED
        BY <2>1, <3>3, <3>4, <3>5 DEF HandInv
    <2>3. CASE CheckStop(g) \/ AcceptTimesOut(g) \/ AcceptRaises(g)
      <3>1. /\ serve'[g] \in {"accept", "check", "ended"} /\ UNCHANGED <<hand, place>>
            /\ serve[g] \in {"check", "accept"}
            /\ \A h \in Starts : h # g => serve'[h] = serve[h]
        BY <2>3 DEF CheckStop, AcceptTimesOut, AcceptRaises, Go, TypeOK
      <3>2. QED
        BY <2>1, <3>1 DEF HandInv
    <2>4. CASE Dispatch(g) \/ InlineEnds(g) \/ BeginHandler(g) \/ BeginRefused(g)
      <3>1. /\ hand[g] \in Conns
            /\ \A h \in Starts : h # g => serve'[h] = serve[h] /\ hand'[h] = hand[h]
            /\ \A d \in Conns : d # hand[g] => place'[d] = place[d]
        BY <2>4 DEF Dispatch, InlineEnds, BeginHandler, BeginRefused, Go, Put, HandInv, TypeOK
      <3>2. \A h \in Starts : h # g => hand[h] # hand[g]
        BY <1>00, <3>1 DEF HandInv
      <3>3. \/ serve'[g] \in {"check", "ended"} /\ hand'[g] = None
            \/ /\ hand'[g] = hand[g]
               /\ \/ serve'[g] = "inline" /\ posture = "deny" /\ place'[hand[g]] = "serving"
                  \/ serve'[g] = "begin" /\ posture = "terminate" /\ place'[hand[g]] = "taken"
        BY <2>1, <2>4, <3>1 DEF Dispatch, InlineEnds, BeginHandler, BeginRefused, Go, Put, HandInv, TypeOK
      <3>4. QED
        BY <1>00, <2>1, <3>1, <3>2, <3>3 DEF HandInv
    <2>5. QED
      BY <1>6, <2>2, <2>3, <2>4 DEF Loop
  <1>7. CASE UNCHANGED pvars
    BY <1>7, HandKept DEF pvars, lifeVars, loopVars, connVars
  <1>8. QED
    BY <1>1, <1>2, <1>3, <1>4, <1>5, <1>6, <1>7, NextCases

-----------------------------------------------------------------------------
(* The handlers.                                                           *)

\* No accept thread lets go of what it has in hand, and a connection that is under
\* way after the step was under way before it, or was not and was not awaited.
LEMMA HandlersKept ==
  ASSUME TypeOK, HandlersInv, UNCHANGED <<serve, hand, posture, handlers>>,
         joined' = joined \/ joined' = {},
         late => late', owner' = "stopped" => owner = "stopped" \/ handlers = {},
         \A c \in Conns :
           \/ place'[c] = place[c]
           \/ place[c] = "backlog" /\ place'[c] = "reset"
           \/ place[c] = "away" /\ place'[c] = "backlog"
           \/ place[c] \in Handling /\ place'[c] \in Handling \cup HandlerOver
           \/ place[c] = "pumping" /\ place'[c] \in HandlerOver
  PROVE  HandlersInv'
  <1> USE DEF Handling, HandlerOver, InHandshake
  <1>1. /\ \A c \in handlers' : place'[c] \notin {"away", "backlog", "reset"}
        /\ posture' = "deny" => handlers' = {}
    BY DEF HandlersInv, TypeOK
  <1>2. CASE ~late'
    <2>1. \A c \in Conns : InHand(c) => InHand(c)'
      BY DEF InHand
    <2>2. \A c \in Conns :
            place'[c] \in {"taken"} \cup Handling => c \in handlers' \/ InHand(c)'
      BY <1>2, <2>1 DEF HandlersInv
    <2>3. \A c \in joined' : place'[c] \in HandlerOver
      BY <1>2 DEF HandlersInv, TypeOK
    <2>4. owner' = "stopped" => handlers' = {}
      BY <1>2 DEF HandlersInv
    <2>5. QED
      BY <1>1, <2>2, <2>3, <2>4 DEF HandlersInv
  <1>3. QED
    BY <1>1, <1>2 DEF HandlersInv

LEMMA HandlersInvStep ==
  ASSUME TypeOK, ThreadInv, QueueInv, HandInv, HandlersInv, [Next]_pvars
  PROVE  HandlersInv'
  <1> USE DEF Handling, HandlerOver, InHandshake
  <1>0. None \notin Conns
    OBVIOUS
  <1>1. CASE Start
    <2>1. starts + 1 \in Starts /\ serve[starts + 1] = "none"
      <3>1. /\ starts \in Nat /\ starts < limit.starts /\ limit.starts \in 0 .. MaxStarts
            /\ MaxStarts \in Nat
        BY <1>1 DEF Start, TypeOK
      <3>2. starts + 1 \in Starts /\ starts + 1 > starts
        BY <3>1 DEF Starts
      <3>3. QED
        BY <3>2 DEF ThreadInv
    <2>2. \A g \in Starts : g # starts + 1 => serve'[g] = serve[g]
      BY <1>1 DEF Start, Go, TypeOK
    <2>3. UNCHANGED <<hand, posture, handlers, joined, late, place>> /\ owner' = "free"
      BY <1>1 DEF Start, connVars
    <2>4. \A c \in Conns : InHand(c) => InHand(c)'
      BY <2>1, <2>2, <2>3 DEF InHand
    <2>5. QED
      BY <2>3, <2>4 DEF HandlersInv
  <1>2. CASE StartRefused \/ CallStop
    BY <1>2, HandlersKept DEF StartRefused, CallStop, connVars, loopVars
  <1>3. CASE JoinAccept /\ UNCHANGED StopKeeps
    <2>1. late => late'
      BY <1>3 DEF JoinAccept
    <2>2. UNCHANGED <<serve, hand, posture, handlers, joined, place>> /\ owner' # "stopped"
      BY <1>3 DEF JoinAccept, StopKeeps, connVars, loopVars
    <2>3. QED
      BY <2>1, <2>2, HandlersKept
  <1>4. CASE CloseListener /\ UNCHANGED StopKeeps
    <2>1. UNCHANGED <<serve, hand, posture, handlers, joined, late>>
      BY <1>4 DEF CloseListener, StopKeeps
    <2>2. \A c \in Conns : place'[c] = place[c] \/ (place[c] = "backlog" /\ place'[c] = "reset")
      BY <1>4 DEF CloseListener, TypeOK
    <2>3. owner' = "stopped" => handlers = {}
      BY <1>4 DEF CloseListener, HandlersInv, TypeOK
    <2>4. QED
      BY <2>1, <2>2, <2>3, HandlersKept
  <1>5. CASE ForgetHandlers /\ UNCHANGED StopKeeps
    <2>1. /\ handlers' = {} /\ joined' = {} /\ handlers \subseteq joined
          /\ UNCHANGED <<serve, hand, posture, late, place>>
      BY <1>5 DEF ForgetHandlers, StopKeeps, connVars
    <2>2. \A c \in Conns : InHand(c) => InHand(c)'
      BY <2>1 DEF InHand
    <2>3. QED
      BY <2>1, <2>2 DEF HandlersInv
  <1>6. ASSUME NEW c \in Conns, JoinHandler(c), UNCHANGED StopKeeps
        PROVE  HandlersInv'
    <2>1. /\ UNCHANGED <<serve, hand, posture, handlers, place>>
          /\ owner' = owner \/ owner' = "raised"
          /\ owner = "handlers" /\ c \in handlers
      BY <1>6 DEF JoinHandler, StopKeeps, connVars, loopVars
    <2>2. CASE place[c] = "taken"
      BY <1>6, <2>1, <2>2, HandlersKept DEF JoinHandler
    <2>3. CASE place[c] # "taken"
      <3>1. joined' = joined \cup {c}
        BY <1>6, <2>3 DEF JoinHandler
      <3>2. late \/ place[c] \in Handling => late'
        BY <1>6, <2>3 DEF JoinHandler
      <3>3. place[c] \notin {"away", "backlog", "reset"}
        BY <2>1 DEF HandlersInv
      <3>4. place[c] \in Handling \cup HandlerOver
        BY <2>3, <3>3 DEF TypeOK
      <3>5. \A d \in Conns : InHand(d) => InHand(d)'
        BY <2>1 DEF InHand
      <3>6. QED
        BY <2>1, <3>1, <3>2, <3>4, <3>5 DEF HandlersInv
    <2>4. QED
      BY <2>2, <2>3
  <1>7. ASSUME NEW c \in Conns, Connect(c) \/ HandshakeStep(c) \/ HandlerEnds(c) \/ PumpEnds(c)
        PROVE  HandlersInv'
    <2>1. UNCHANGED <<serve, hand, posture, handlers, joined, late, owner>>
      BY <1>7 DEF Connect, HandshakeStep, HandlerEnds, PumpEnds, lifeVars, loopVars
    <2>2. /\ \A d \in Conns : d # c => place'[d] = place[d]
          /\ \/ place[c] = "away" /\ place'[c] = "backlog"
             \/ place[c] \in Handling /\ place'[c] \in Handling \cup HandlerOver
             \/ place[c] = "pumping" /\ place'[c] \in HandlerOver
      BY <1>7 DEF Connect, HandshakeStep, Peek, LeafFor, LoadChain, HandlerEnds, PumpEnds, Put, TypeOK
    <2>3. QED
      BY <2>1, <2>2, HandlersKept
  <1>8. ASSUME NEW g \in Starts, Loop(g), UNCHANGED ServeKeeps
        PROVE  HandlersInv'
    <2>1. UNCHANGED <<posture, joined, late, owner, thread>> /\ posture \in {"deny", "terminate"}
      BY <1>8 DEF ServeKeeps, TypeOK
    <2>2. ~late /\ owner = "stopped" => serve[g] \in {"none", "ended"}
      BY DEF ThreadInv, Starts
    <2>3. /\ serve[g] \notin {"none", "ended"}
          /\ \A h \in Starts : h # g => serve'[h] = serve[h] /\ hand'[h] = hand[h]
      BY <1>8 DEF Loop, CheckStop, Accept, AcceptTimesOut, AcceptRaises, Dispatch,
                  InlineEnds, BeginHandler, BeginRefused, Go, TypeOK
    <2>4. ASSUME NEW c \in Conns, c # hand[g]
          PROVE  InHand(c) => InHand(c)'
      BY <2>3, <2>4 DEF InHand
    <2>5. CASE CheckStop(g) \/ AcceptTimesOut(g) \/ AcceptRaises(g)
      <3>1. UNCHANGED <<handlers, place>> /\ hand[g] = None
        BY <2>5 DEF CheckStop, AcceptTimesOut, AcceptRaises, HandInv
      <3>2. \A c \in Conns : InHand(c) => InHand(c)'
        BY <1>0, <2>4, <3>1
      <3>3. QED
        BY <2>1, <3>1, <3>2 DEF HandlersInv
    <2>6. CASE Accept(g)
      <3>1. backlog # <<>> /\ handlers' = handlers /\ hand[g] = None
        BY <2>6 DEF Accept, HandInv
      <3>2. Head(backlog) = backlog[1] /\ 1 \in 1..Len(backlog)
        BY <3>1, HeadTailProperties, EmptySeq DEF TypeOK
      <3>3. Head(backlog) \in Conns /\ place[Head(backlog)] = "backlog"
        BY <3>2 DEF QueueInv, TypeOK
      <3>4. /\ serve'[g] = "dispatch" /\ hand'[g] = Head(backlog)
            /\ place'[Head(backlog)] = "taken"
            /\ \A d \in Conns : d # Head(backlog) => place'[d] = place[d]
        BY <2>6, <3>3 DEF Accept, Go, Put, TypeOK
      <3>5. \A c \in Conns : InHand(c) => InHand(c)'
        BY <1>0, <2>4, <3>1
      <3>6. \E h \in Starts : hand'[h] = Head(backlog) /\ serve'[h] = "dispatch"
        BY <3>4
      <3>7. Head(backlog) \notin handlers
        BY <3>3 DEF HandlersInv
      <3>8. ~late => Head(backlog) \notin joined
        BY <3>3 DEF HandlersInv
      <3>9. joined \subseteq handlers /\ handlers \subseteq Conns
        BY DEF TypeOK
      <3>10. ASSUME NEW c \in Conns, ~late
            PROVE  place'[c] \in {"taken"} \cup Handling => c \in handlers \/ InHand(c)'
        <4>1. CASE c = Head(backlog)
          <5>1. \E h \in Starts : hand'[h] = c /\ serve'[h] = "dispatch"
            BY <3>6, <4>1
          <5>2. QED
            BY <5>1 DEF InHand
        <4>2. CASE c # Head(backlog)
          BY <3>4, <3>5, <3>10, <4>2 DEF HandlersInv
        <4>3. QED
          BY <4>1, <4>2
      <3>11. \A c \in handlers : place'[c] = place[c]
        BY <3>4, <3>7, <3>9
      <3>12. QED
        BY <2>1, <3>1, <3>8, <3>9, <3>10, <3>11 DEF HandlersInv
    <2>7. CASE Dispatch(g) /\ posture = "deny"
      <3>1. /\ hand[g] \in Conns /\ place[hand[g]] = "taken"
            /\ hand' = hand /\ handlers' = handlers /\ serve'[g] = "inline"
            /\ place'[hand[g]] = "serving"
            /\ \A d \in Conns : d # hand[g] => place'[d] = place[d]
        BY <2>7 DEF Dispatch, HandInv, Go, Put, TypeOK
      <3>2. InHand(hand[g])' /\ \A c \in Conns : InHand(c) => InHand(c)'
        BY <2>4, <3>1 DEF InHand
      <3>3. joined \subseteq handlers /\ handlers = {}
        BY <2>7 DEF TypeOK, HandlersInv
      <3>4. QED
        BY <2>1, <3>1, <3>2, <3>3 DEF HandlersInv
    <2>8. CASE Dispatch(g) /\ posture # "deny"
      <3>1. /\ hand[g] \in Conns /\ place[hand[g]] = "taken" /\ serve[g] = "dispatch"
            /\ handlers' = handlers \cup {hand[g]} /\ place' = place
        BY <2>8 DEF Dispatch, HandInv
      <3>2. \A c \in Conns : c # hand[g] => (InHand(c) => InHand(c)')
        BY <2>4
      <3>3. ~(~late /\ owner = "stopped")
        BY <2>2, <3>1
      <3>4. QED
        BY <2>1, <2>8, <3>1, <3>2, <3>3 DEF HandlersInv
    <2>9. CASE InlineEnds(g)
      <3>1. /\ hand[g] \in Conns /\ handlers' = handlers /\ posture = "deny"
            /\ place'[hand[g]] = "closed"
            /\ \A d \in Conns : d # hand[g] => place'[d] = place[d]
        BY <2>9 DEF InlineEnds, HandInv, Put, TypeOK
      <3>2. joined \subseteq handlers /\ handlers = {}
        BY <3>1 DEF TypeOK, HandlersInv
      <3>3. QED
        BY <2>1, <2>4, <3>1, <3>2 DEF HandlersInv
    <2>10. CASE BeginHandler(g) \/ BeginRefused(g)
      <3>1. /\ hand[g] \in Conns /\ handlers' = handlers /\ serve[g] = "begin"
            /\ place[hand[g]] = "taken" /\ place'[hand[g]] \in {"taken", "peek"}
            /\ \A d \in Conns : d # hand[g] => place'[d] = place[d]
        BY <2>10 DEF BeginHandler, BeginRefused, HandInv, Put, TypeOK
      <3>2. ~InHand(hand[g])
        BY <1>0, <3>1 DEF InHand, HandInv
      <3>3. ~late => hand[g] \in handlers /\ hand[g] \notin joined
        BY <3>1, <3>2 DEF HandlersInv
      <3>4. joined \subseteq handlers /\ handlers \subseteq Conns
        BY DEF TypeOK
      <3>5. QED
        BY <2>1, <2>4, <3>1, <3>3, <3>4 DEF HandlersInv
    <2>11. QED
      BY <1>8, <2>5, <2>6, <2>7, <2>8, <2>9, <2>10 DEF Loop
  <1>9. CASE UNCHANGED pvars
    BY <1>9, HandlersKept DEF pvars, lifeVars, loopVars, connVars
  <1>10. QED
    BY <1>1, <1>2, <1>3, <1>4, <1>5, <1>6, <1>7, <1>8, <1>9, NextCases

-----------------------------------------------------------------------------
(* The certificates.                                                       *)

BeforeSni == {"away", "backlog", "reset", "taken", "peek"}

\* A step of no handshake: connections move outside of it, and none back.
LEMMA CertKept ==
  ASSUME CertInv, UNCHANGED <<certVars, sni, chain>>,
         \A c \in Conns :
           \/ place'[c] = place[c]
           \/ /\ place[c] \notin InHandshake /\ place'[c] \notin InHandshake
              /\ place'[c] \in BeforeSni => place[c] \in BeforeSni
  PROVE  CertInv'
  BY DEF CertInv, CertificateFits, Private, Paired, certVars, InHandshake, BeforeSni

\* What a place says of a connection's name, its chain, the cache and the lock.
PlaceInv(c) ==
  /\ place[c] \in {"request", "sign"} <=> certLock = c
  /\ place[c] \in BeforeSni => sni[c] = None /\ chain[c] = None
  /\ place[c] \in InHandshake \/ chain[c] # None => sni[c] \in Names
  /\ place[c] \in {"request", "sign"} => sni[c] \notin leaves
  /\ place[c] = "sign" => keys[stem[sni[c]]] = c
  /\ place[c] = "load" => sni[c] \in leaves

Fits(c) ==
  chain[c] # None /\ Private(sni[c]) =>
    /\ chain[c].crt = chain[c].key
    /\ chain[c].crt \in Conns /\ sni[chain[c].crt] = sni[c]

LEMMA CertInvParts ==
  CertInv <=> /\ \A c \in Conns : PlaceInv(c) /\ Fits(c)
              /\ \A n \in leaves : Private(n) => Paired(n)
  BY DEF CertInv, CertificateFits, PlaceInv, Fits, BeforeSni, Private

\* A step of a handshake.
LEMMA CertInvHandshake ==
  ASSUME TypeOK, CertInv, NEW c \in Conns, HandshakeStep(c)
  PROVE  CertInv'
  <1>0. /\ None \notin Conns /\ None \notin Names /\ leaves \subseteq Names
        /\ \A d \in Conns : PlaceInv(d) /\ Fits(d)
        /\ \A n \in leaves : Private(n) => Paired(n)
        /\ \A n \in Names : stem[n] \in Stems
    <2>1. \A n \in Names : stem[n] \in Stems
      BY DEF TypeOK, CertsTypeOK, Stems
    <2>2. QED
      BY <2>1, CertInvParts DEF TypeOK, CertsTypeOK
  <1>1. \A d \in Conns : place'[d] \in {"request", "sign"} <=> certLock' = d
    BY <1>0 DEF HandshakeStep, Peek, LeafFor, LoadChain, Put, TypeOK, PlaceInv, Cached,
                LockToMint, WriteKey, WriteCrt, MintFails, certVars
  <1>2. CASE Peek(c)
    <2>1. /\ place[c] = "peek" /\ sni[c] = None /\ chain[c] = None
          /\ UNCHANGED <<certVars, chain>>
          /\ \A d \in Conns \ {c} : place'[d] = place[d] /\ sni'[d] = sni[d]
      BY <1>0, <1>2 DEF Peek, PlaceInv, BeforeSni, Put, TypeOK
    <2>2. place'[c] = "serving" \/ (place'[c] = "lock" /\ sni'[c] \in Names)
      <3>1. limit.names \subseteq Names
        BY DEF TypeOK
      <3>2. QED
        BY <1>2, <3>1 DEF Peek, Put, TypeOK
    <2>3. \A n \in leaves' : Private(n)' => Paired(n)'
      <3>1. SUFFICES ASSUME NEW n \in leaves, Private(n) PROVE Paired(n)'
        BY <2>1 DEF certVars, Private
      <3>2. Paired(n) /\ n # None
        BY <1>0, <3>1
      <3>3. crts[stem[n]] # c
        BY <2>1, <3>2 DEF Paired
      <3>4. QED
        BY <2>1, <3>2, <3>3 DEF Paired, certVars
    <2>4. ASSUME NEW d \in Conns PROVE PlaceInv(d)'
      BY <1>0, <1>1, <2>1, <2>2 DEF PlaceInv, certVars, InHandshake, BeforeSni
    <2>5. ASSUME NEW d \in Conns PROVE Fits(d)'
      <3>1. CASE d = c
        BY <2>1, <3>1 DEF Fits
      <3>2. CASE d # c
        <4>1. Fits(d) /\ (chain[d] # None => sni[d] \in Names)
          BY <1>0 DEF PlaceInv
        <4>2. chain'[d] = chain[d] /\ sni'[d] = sni[d] /\ stem' = stem
          BY <2>1, <3>2 DEF certVars
        <4>3. Private(sni[d])' => Private(sni[d])
          BY <4>2 DEF Private
        <4>4. chain[d].crt \in Conns /\ sni[chain[d].crt] # None => sni'[chain[d].crt] = sni[chain[d].crt]
          BY <2>1
        <4>5. QED
          BY <1>0, <4>1, <4>2, <4>3, <4>4 DEF Fits, Private
      <3>3. QED
        BY <3>1, <3>2
    <2>6. QED
      BY <2>3, <2>4, <2>5, CertInvParts DEF CertInv, CertificateFits, PlaceInv, Fits, BeforeSni, Private
  <1>3. CASE LeafFor(c)
    <2>1. /\ UNCHANGED <<stem, sni, chain>> /\ place[c] \in {"lock", "request", "sign"}
          /\ \A d \in Conns \ {c} : place'[d] = place[d]
      BY <1>3 DEF LeafFor, certVars, Cached, LockToMint, WriteKey, WriteCrt, MintFails, Put, TypeOK
    <2>2. sni[c] \in Names /\ stem[sni[c]] \in Stems
      BY <1>0, <2>1 DEF PlaceInv, InHandshake
    <2>3. ASSUME NEW d \in Conns PROVE Fits(d)'
      BY <1>0, <2>1 DEF Fits, Private
    <2>4. CASE place[c] = "lock"
      <3>1. /\ UNCHANGED <<leaves, keys, crts>>
            /\ \/ place'[c] = "load" /\ sni[c] \in leaves
               \/ place'[c] = "request" /\ sni[c] \notin leaves
        BY <1>3, <2>4 DEF LeafFor, Cached, LockToMint, certVars, Put, TypeOK
      <3>2. ASSUME NEW d \in Conns PROVE PlaceInv(d)'
        BY <1>0, <1>1, <2>1, <2>2, <2>4, <3>1 DEF PlaceInv, InHandshake, BeforeSni
      <3>3. \A n \in leaves' : Private(n)' => Paired(n)'
        BY <1>0, <2>1, <3>1 DEF Private, Paired
      <3>4. QED
        BY <2>3, <3>2, <3>3 DEF CertInv, CertificateFits, PlaceInv, Fits, BeforeSni, Private
    <2>5. CASE place[c] \in {"request", "sign"}
      <3>1. certLock = c /\ sni[c] \notin leaves /\ (place[c] = "sign" => keys[stem[sni[c]]] = c)
        BY <1>0, <2>5 DEF PlaceInv
      <3>2. \A d \in Conns \ {c} : place[d] \notin {"request", "sign"}
        BY <1>0, <3>1 DEF PlaceInv
      <3>3. \A n \in leaves : Private(n) => stem[n] # stem[sni[c]]
        BY <2>2, <3>1 DEF Private
      <3>4. \/ /\ place'[c] = "sign" /\ UNCHANGED <<leaves, crts>>
               /\ keys' = [keys EXCEPT ![stem[sni[c]]] = c]
            \/ /\ place[c] = "sign" /\ place'[c] = "load" /\ leaves' = leaves \cup {sni[c]}
               /\ crts' = [crts EXCEPT ![stem[sni[c]]] = c] /\ keys' = keys
            \/ /\ place'[c] = "serving" /\ UNCHANGED <<leaves, crts>>
               /\ keys' \in {keys, [keys EXCEPT ![stem[sni[c]]] = c]}
        BY <1>3, <2>5 DEF LeafFor, WriteKey, WriteCrt, MintFails, Put, TypeOK
      <3>5. /\ keys \in [Stems -> Mints] /\ crts \in [Stems -> Mints]
            /\ \A f \in Stems : f # stem[sni[c]] => keys'[f] = keys[f] /\ crts'[f] = crts[f]
        BY <2>2, <3>4 DEF TypeOK, CertsTypeOK
      <3>6. ASSUME NEW d \in Conns PROVE PlaceInv(d)'
        <4>1. CASE d = c
          <5>1. place'[c] \in {"sign", "load", "serving"} /\ (place'[c] = "load" => sni[c] \in leaves')
            BY <3>4
          <5>2. place'[c] = "sign" => leaves' = leaves /\ keys'[stem[sni[c]]] = c
            BY <2>2, <3>4, <3>5
          <5>3. QED
            BY <1>1, <2>1, <2>2, <3>1, <4>1, <5>1, <5>2 DEF PlaceInv, InHandshake, BeforeSni
        <4>2. CASE d # c
          <5>1. place'[d] = place[d] /\ place[d] \notin {"request", "sign"}
            BY <2>1, <3>2, <4>2
          <5>2. sni[d] \in leaves => sni[d] \in leaves'
            BY <3>4
          <5>3. QED
            BY <1>0, <1>1, <2>1, <5>1, <5>2 DEF PlaceInv, InHandshake, BeforeSni
        <4>3. QED
          BY <4>1, <4>2
      <3>7. ASSUME NEW n \in leaves', Private(n)
            PROVE  Paired(n)'
        <4>1. CASE n \in leaves
          <5>1. Paired(n) /\ stem[n] # stem[sni[c]] /\ stem[n] \in Stems
            BY <1>0, <3>3, <3>7, <4>1
          <5>2. QED
            BY <2>1, <3>5, <5>1 DEF Paired
        <4>2. CASE n \notin leaves
          <5>1. /\ n = sni[c] /\ place[c] = "sign" /\ keys' = keys
                /\ crts' = [crts EXCEPT ![stem[sni[c]]] = c]
            BY <3>4, <4>2
          <5>2. QED
            BY <2>1, <2>2, <3>1, <3>5, <5>1 DEF Paired
        <4>3. QED
          BY <4>1, <4>2
      <3>8. \A n \in leaves' : Private(n)' => Paired(n)'
        BY <2>1, <3>7 DEF Private
      <3>9. QED
        BY <2>3, <3>6, <3>8 DEF CertInv, CertificateFits, PlaceInv, Fits, BeforeSni, Private
    <2>6. QED
      BY <2>1, <2>4, <2>5
  <1>4. CASE LoadChain(c)
    <2>1. /\ UNCHANGED <<certVars, sni>> /\ place[c] = "load" /\ place'[c] = "serving"
          /\ \A d \in Conns \ {c} : place'[d] = place[d] /\ chain'[d] = chain[d]
          /\ chain'[c] = OnFile(sni[c])
      BY <1>4 DEF LoadChain, Put, TypeOK
    <2>2. sni[c] \in Names /\ sni[c] \in leaves
      BY <1>0, <2>1 DEF PlaceInv, InHandshake
    <2>3. ASSUME NEW d \in Conns PROVE PlaceInv(d)'
      BY <1>0, <1>1, <2>1, <2>2 DEF PlaceInv, InHandshake, BeforeSni, certVars
    <2>4. ASSUME NEW d \in Conns PROVE Fits(d)'
      <3>1. CASE d = c
        BY <1>0, <2>1, <2>2, <3>1 DEF Fits, Private, Paired, OnFile, certVars
      <3>2. CASE d # c
        BY <1>0, <2>1, <3>2 DEF Fits, Private, certVars
      <3>3. QED
        BY <3>1, <3>2
    <2>5. \A n \in leaves' : Private(n)' => Paired(n)'
      BY <1>0, <2>1 DEF Private, Paired, certVars
    <2>6. QED
      BY <2>3, <2>4, <2>5 DEF CertInv, CertificateFits, PlaceInv, Fits, BeforeSni, Private
  <1>5. QED
    BY <1>2, <1>3, <1>4 DEF HandshakeStep

\* Only a handler of TerminatingProxy's leaves a connection to an exception or to a
\* pump, and to an exception only one that speaks TLS.
LEMMA LeftInvStep ==
  ASSUME TypeOK, QueueInv, HandInv, LeftInv, [Next]_pvars
  PROVE  LeftInv'
  <1>1. ASSUME posture' = posture, \A c \in Conns : tls[c] => tls'[c],
               \A c \in Conns :
                 \/ place'[c] = place[c] \/ place'[c] \notin {"held", "pumping"}
                 \/ posture = "terminate" /\ (place'[c] = "held" => tls[c])
        PROVE  LeftInv'
    BY <1>1 DEF LeftInv
  <1>2. CASE Start \/ StartRefused \/ CallStop
    BY <1>1, <1>2 DEF Start, StartRefused, CallStop, connVars
  <1>3. CASE (JoinAccept /\ UNCHANGED StopKeeps) \/ (ForgetHandlers /\ UNCHANGED StopKeeps)
    BY <1>1, <1>3 DEF JoinAccept, ForgetHandlers, connVars, StopKeeps
  <1>4. CASE CloseListener /\ UNCHANGED StopKeeps
    BY <1>1, <1>4 DEF CloseListener, StopKeeps, TypeOK
  <1>5. ASSUME NEW c \in Conns, JoinHandler(c), UNCHANGED StopKeeps
        PROVE  LeftInv'
    BY <1>1, <1>5 DEF JoinHandler, StopKeeps, connVars
  <1>6. ASSUME NEW c \in Conns, Connect(c) \/ HandlerEnds(c) \/ PumpEnds(c)
        PROVE  LeftInv'
    <2>1. /\ posture' = posture /\ tls' = tls
          /\ \A d \in Conns : d # c => place'[d] = place[d]
          /\ \/ place'[c] \notin {"held", "pumping"}
             \/ posture = "terminate" /\ (place'[c] = "held" => tls[c])
      BY <1>6 DEF Connect, HandlerEnds, PumpEnds, Put, TypeOK, lifeVars, LeftInv
    <2>2. QED
      BY <1>1, <2>1
  <1>7. ASSUME NEW c \in Conns, HandshakeStep(c)
        PROVE  LeftInv'
    <2>1. /\ posture' = posture
          /\ \A d \in Conns : tls[d] => tls'[d]
          /\ \A d \in Conns : d # c => place'[d] = place[d]
          /\ place'[c] \notin {"held", "pumping"}
      BY <1>7 DEF HandshakeStep, Peek, LeafFor, LoadChain, Put, TypeOK, lifeVars
    <2>2. QED
      BY <1>1, <2>1
  <1>8. ASSUME NEW g \in Starts, Loop(g), UNCHANGED ServeKeeps
        PROVE  LeftInv'
    <2>1. posture' = posture /\ tls' = tls
      BY <1>8 DEF ServeKeeps
    <2>2. \A d \in Conns : place'[d] = place[d] \/ place'[d] \notin {"held", "pumping"}
      BY <1>8 DEF Loop, CheckStop, Accept, AcceptTimesOut, AcceptRaises, Dispatch,
                  InlineEnds, BeginHandler, BeginRefused, Put, TypeOK
    <2>3. QED
      BY <1>1, <2>1, <2>2
  <1>9. CASE UNCHANGED pvars
    BY <1>1, <1>9 DEF pvars, lifeVars, connVars
  <1>10. QED
    BY <1>2, <1>3, <1>4, <1>5, <1>6, <1>7, <1>8, <1>9, NextCases

\* How a connection moves when no handshake does.
Onward(from, to) ==
  \/ from = "away" /\ to = "backlog"
  \/ from = "backlog" /\ to \in {"taken", "reset"}
  \/ from = "taken" /\ to \in {"peek", "serving"}
  \/ from \in {"serving", "pumping"} /\ to \in HandlerOver

\* Whatever is not a step of a handshake leaves names, chains, cache and files as
\* they are, and moves connections onward ...
LEMMA OutsideMoves ==
  ASSUME TypeOK, HandInv, QueueInv, [Next]_pvars, \A c \in Conns : ~HandshakeStep(c)
  PROVE  /\ UNCHANGED <<certVars, sni, chain>>
         /\ \A c \in Conns : place'[c] = place[c] \/ Onward(place[c], place'[c])
  <1> USE DEF Onward, HandlerOver
  <1> DEFINE Kept ==
        /\ UNCHANGED <<certVars, sni, chain>>
        /\ \A c \in Conns : place'[c] = place[c] \/ Onward(place[c], place'[c])
  <1>1. CASE Start \/ StartRefused \/ CallStop
    BY <1>1 DEF Start, StartRefused, CallStop, connVars
  <1>2. CASE (JoinAccept /\ UNCHANGED StopKeeps) \/ (ForgetHandlers /\ UNCHANGED StopKeeps)
    BY <1>2 DEF JoinAccept, ForgetHandlers, connVars, StopKeeps
  <1>3. CASE CloseListener /\ UNCHANGED StopKeeps
    BY <1>3 DEF CloseListener, StopKeeps, TypeOK
  <1>4. ASSUME NEW c \in Conns, JoinHandler(c), UNCHANGED StopKeeps
        PROVE  Kept
    BY <1>4 DEF JoinHandler, StopKeeps, connVars
  <1>5. ASSUME NEW c \in Conns, Connect(c) \/ HandlerEnds(c) \/ PumpEnds(c)
        PROVE  Kept
    BY <1>5 DEF Connect, HandlerEnds, PumpEnds, Put, TypeOK
  <1>6. ASSUME NEW g \in Starts, Loop(g), UNCHANGED ServeKeeps
        PROVE  Kept
    <2>1. UNCHANGED <<certVars, sni, chain>>
      BY <1>6 DEF ServeKeeps
    <2>2. CASE Accept(g)
      <3>1. backlog # <<>>
        BY <2>2 DEF Accept
      <3>2. Head(backlog) = backlog[1] /\ 1 \in 1..Len(backlog)
        BY <3>1, HeadTailProperties, EmptySeq DEF TypeOK
      <3>3. Head(backlog) \in Conns /\ place[Head(backlog)] = "backlog"
        BY <3>2 DEF QueueInv, TypeOK
      <3>4. QED
        BY <2>1, <2>2, <3>3 DEF Accept, Put, TypeOK
    <2>3. CASE CheckStop(g) \/ AcceptTimesOut(g) \/ AcceptRaises(g) \/ BeginRefused(g)
      BY <2>1, <2>3 DEF CheckStop, AcceptTimesOut, AcceptRaises, BeginRefused
    <2>4. CASE Dispatch(g) \/ InlineEnds(g) \/ BeginHandler(g)
      <3>1. /\ hand[g] \in Conns
            /\ \A d \in Conns : d # hand[g] => place'[d] = place[d]
            /\ \/ place'[hand[g]] = place[hand[g]]
               \/ place[hand[g]] = "taken" /\ place'[hand[g]] \in {"peek", "serving"}
               \/ place[hand[g]] = "serving" /\ place'[hand[g]] = "closed"
        BY <2>4 DEF Dispatch, InlineEnds, BeginHandler, HandInv, Put, TypeOK
      <3>2. QED
        BY <2>1, <3>1
    <2>5. QED
      BY <1>6, <2>2, <2>3, <2>4 DEF Loop
  <1>7. CASE UNCHANGED pvars
    BY <1>7 DEF pvars, connVars
  <1>8. QED
    BY <1>1, <1>2, <1>3, <1>4, <1>5, <1>6, <1>7, NextCases

\* ... and so never gets into a handshake, nor back to before it.
LEMMA OutsideHandshake ==
  ASSUME TypeOK, HandInv, QueueInv, [Next]_pvars, \A c \in Conns : ~HandshakeStep(c)
  PROVE  /\ UNCHANGED <<certVars, sni, chain>>
         /\ \A c \in Conns :
              \/ place'[c] = place[c]
              \/ /\ place[c] \notin InHandshake /\ place'[c] \notin InHandshake
                 /\ place'[c] \in BeforeSni => place[c] \in BeforeSni
  BY OutsideMoves DEF Onward, HandlerOver, InHandshake, BeforeSni

LEMMA CertInvStep ==
  ASSUME TypeOK, HandInv, QueueInv, CertInv, [Next]_pvars
  PROVE  CertInv'
  <1>1. CASE \E c \in Conns : HandshakeStep(c)
    BY <1>1, CertInvHandshake
  <1>2. CASE \A c \in Conns : ~HandshakeStep(c)
    BY <1>2, OutsideHandshake, CertKept
  <1>3. QED
    BY <1>1, <1>2

-----------------------------------------------------------------------------
(* The accept loop is not lost.                                            *)

\* A step that leaves the accept threads, the queue and what they hold alone.
LEMMA LoopKept ==
  ASSUME LoopInv, UNCHANGED <<serve, hand, backlog, thread, listening>>,
         stopFlag => stopFlag', short => short', ~stopFlag' => owner' = "free",
         \A c \in Conns : place'[c] = place[c] \/ place'[c] \notin {"backlog", "taken"}
  PROVE  LoopInv'
  BY DEF LoopInv, NoneOrphaned, Queued

LEMMA LoopInvStep ==
  ASSUME TypeOK, ThreadInv, QueueInv, HandInv, LoopInv, [Next]_pvars
  PROVE  LoopInv'
  <1>0. None \notin Conns /\ stopFlag \in BOOLEAN /\ short \in BOOLEAN
    BY DEF TypeOK
  <1>1. CASE Start
    <2>1. starts + 1 \in Starts /\ serve[starts + 1] = "none"
      <3>1. /\ starts \in Nat /\ starts < limit.starts /\ limit.starts \in 0 .. MaxStarts
            /\ MaxStarts \in Nat
        BY <1>1 DEF Start, TypeOK
      <3>2. starts + 1 \in Starts /\ starts + 1 > starts
        BY <3>1 DEF Starts
      <3>3. QED
        BY <3>2 DEF ThreadInv
    <2>2. /\ thread' = starts + 1 /\ serve'[starts + 1] = "check" /\ owner' = "free"
          /\ \A g \in Starts \ {starts + 1} : serve'[g] = serve[g]
          /\ listening' /\ UNCHANGED <<hand, backlog, place, short, stopFlag>>
      BY <1>1, <2>1 DEF Start, Go, connVars, TypeOK
    <2>3. QED
      BY <2>1, <2>2 DEF LoopInv, NoneOrphaned, Queued
  <1>2. CASE StartRefused
    BY <1>2 DEF StartRefused, loopVars, connVars, LoopInv, NoneOrphaned, Queued
  <1>3. CASE CallStop
    BY <1>3 DEF CallStop, loopVars, connVars, LoopInv, NoneOrphaned, Queued
  <1>4. ASSUME owner # "free", UNCHANGED StopKeeps,
               JoinAccept \/ ForgetHandlers \/ \E c \in Conns : JoinHandler(c)
        PROVE  LoopInv'
    <2>1. stopFlag /\ UNCHANGED <<serve, hand, backlog, place, listening, short, stopFlag>>
      BY <1>0, <1>4 DEF LoopInv, StopKeeps, JoinAccept, ForgetHandlers, JoinHandler,
                        loopVars, connVars
    <2>2. QED
      BY <2>1 DEF LoopInv, NoneOrphaned, Queued
  <1>5. CASE CloseListener /\ UNCHANGED StopKeeps
    <2>1. /\ stopFlag' = stopFlag /\ stopFlag /\ ~listening' /\ UNCHANGED <<serve, hand, short>>
          /\ \A c \in Conns : (place'[c] = place[c] /\ place[c] # "backlog") \/ place'[c] = "reset"
      BY <1>0, <1>5 DEF CloseListener, StopKeeps, LoopInv, TypeOK
    <2>2. QED
      BY <2>1 DEF LoopInv, NoneOrphaned
  <1>6. ASSUME NEW c \in Conns, Connect(c)
        PROVE  LoopInv'
    <2>1. /\ backlog' = Append(backlog, c) /\ listening /\ place[c] = "away"
          /\ UNCHANGED <<serve, hand, lifeVars>>
          /\ \A d \in Conns \ {c} : place'[d] = place[d]
          /\ place'[c] = "backlog"
      BY <1>6 DEF Connect, Put, TypeOK
    <2>2. Queued' = Queued \cup {c}
      <3>1. /\ Len(backlog') = Len(backlog) + 1 /\ Len(backlog) \in Nat
            /\ backlog'[Len(backlog) + 1] = c
            /\ \A i \in 1..Len(backlog) : backlog'[i] = backlog[i]
        BY <2>1, AppendProperties DEF TypeOK
      <3>2. 1..Len(backlog') = 1..Len(backlog) \cup {Len(backlog) + 1}
        BY <3>1
      <3>3. QED
        BY <3>1, <3>2 DEF Queued
    <2>3. QED
      BY <2>1, <2>2 DEF LoopInv, NoneOrphaned, lifeVars
  <1>7. ASSUME NEW c \in Conns, HandshakeStep(c) \/ HandlerEnds(c) \/ PumpEnds(c)
        PROVE  LoopInv'
    BY <1>7, LoopKept DEF HandshakeStep, Peek, LeafFor, LoadChain, HandlerEnds, PumpEnds, Put,
                          lifeVars, loopVars, TypeOK, LoopInv
  <1>8. ASSUME NEW g \in Starts, Loop(g), UNCHANGED ServeKeeps
        PROVE  LoopInv'
    <2>1. UNCHANGED <<stopFlag, listening, thread, owner>>
      BY <1>8 DEF ServeKeeps
    <2>2. /\ \A h \in Starts \ {g} : serve'[h] = serve[h] /\ hand'[h] = hand[h]
          /\ short => short'
          /\ \/ serve'[g] \in {"check", "accept", "dispatch", "begin", "inline"}
             \/ stopFlag \/ short' \/ ~listening
      BY <1>8 DEF Loop, CheckStop, Accept, AcceptTimesOut, AcceptRaises, Dispatch,
                  InlineEnds, BeginHandler, BeginRefused, Go, TypeOK
    <2>3. listening' /\ ~stopFlag' /\ ~short' =>
            /\ thread' \in Starts
            /\ serve'[thread'] \in {"check", "accept", "dispatch", "begin", "inline"}
      BY <2>1, <2>2 DEF LoopInv, NoneOrphaned
    <2>4. CASE Accept(g)
      <3>1. backlog # <<>> /\ backlog' = Tail(backlog) /\ hand[g] = None
        BY <2>4 DEF Accept, HandInv
      <3>2. /\ Len(backlog) \in Nat /\ Len(backlog) # 0 /\ Len(backlog') = Len(backlog) - 1
            /\ Head(backlog) = backlog[1] /\ backlog[1] \in Conns
            /\ \A i \in 1..Len(backlog') : backlog'[i] = backlog[i + 1]
        BY <3>1, HeadTailProperties, EmptySeq DEF TypeOK
      <3>3. /\ \A d \in Conns : d # backlog[1] => place'[d] = place[d]
            /\ place'[backlog[1]] = "taken"
            /\ serve'[g] = "dispatch" /\ hand'[g] = backlog[1]
        BY <2>4, <3>2 DEF Accept, Go, Put, TypeOK
      <3>4. ASSUME NEW c \in Conns, place'[c] = "backlog"
            PROVE  listening' /\ c \in Queued'
        <4>1. c # backlog[1] /\ place[c] = "backlog"
          BY <3>3, <3>4
        <4>2. listening /\ \E i \in 1..Len(backlog) : backlog[i] = c
          BY <4>1 DEF LoopInv, NoneOrphaned, Queued
        <4>3. PICK i \in 1..Len(backlog) : backlog[i] = c
          BY <4>2
        <4>4. i - 1 \in 1..Len(backlog') /\ backlog'[i - 1] = c
          BY <3>2, <4>1, <4>3
        <4>5. QED
          BY <2>1, <4>2, <4>4 DEF Queued
      <3>5. ASSUME NEW c \in Conns, place'[c] = "taken", ~short'
            PROVE  \E h \in Starts : hand'[h] = c /\ serve'[h] \in {"dispatch", "begin"}
        <4>1. CASE c = backlog[1]
          BY <3>3, <4>1
        <4>2. CASE c # backlog[1]
          <5>1. PICK h \in Starts : hand[h] = c /\ serve[h] \in {"dispatch", "begin"}
            BY <1>0, <2>2, <3>3, <3>5, <4>2 DEF LoopInv, NoneOrphaned
          <5>2. h # g
            BY <1>0, <3>1, <5>1
          <5>3. QED
            BY <2>2, <5>1, <5>2
        <4>3. QED
          BY <4>1, <4>2
      <3>6. QED
        BY <2>1, <2>3, <3>4, <3>5 DEF LoopInv, NoneOrphaned
    <2>5. CASE ~Accept(g)
      <3>1. backlog' = backlog
        BY <1>8, <2>5 DEF Loop, CheckStop, AcceptTimesOut, AcceptRaises, Dispatch,
                          InlineEnds, BeginHandler, BeginRefused
      <3>2. \A c \in Conns : place'[c] = place[c] \/ place'[c] \notin {"backlog", "taken"}
        BY <1>8, <2>5 DEF Loop, CheckStop, AcceptTimesOut, AcceptRaises, Dispatch,
                          InlineEnds, BeginHandler, BeginRefused, Put, TypeOK
      <3>3. ASSUME NEW c \in Conns, place'[c] = "taken", ~short'
            PROVE  \E h \in Starts : hand'[h] = c /\ serve'[h] \in {"dispatch", "begin"}
        <4>1. PICK h \in Starts : hand[h] = c /\ serve[h] \in {"dispatch", "begin"}
          BY <1>0, <2>2, <3>2, <3>3 DEF LoopInv, NoneOrphaned
        <4>2. CASE h # g
          BY <2>2, <4>1, <4>2
        <4>3. CASE h = g
          BY <1>8, <3>3, <4>1, <4>3 DEF Loop, CheckStop, Accept, AcceptTimesOut,
             AcceptRaises, Dispatch, InlineEnds, BeginHandler, BeginRefused, Go, Put, TypeOK
        <4>4. QED
          BY <4>2, <4>3
      <3>4. QED
        BY <2>1, <2>3, <3>1, <3>2, <3>3 DEF LoopInv, NoneOrphaned, Queued
    <2>6. QED
      BY <2>4, <2>5
  <1>9. CASE UNCHANGED pvars
    BY <1>9, LoopKept DEF pvars, lifeVars, loopVars, connVars, LoopInv
  <1>10. QED
    <2>1. JoinAccept \/ ForgetHandlers \/ (\E c \in Conns : JoinHandler(c)) => owner # "free"
      BY DEF JoinAccept, ForgetHandlers, JoinHandler
    <2>2. QED
      BY <1>1, <1>2, <1>3, <1>4, <1>5, <1>6, <1>7, <1>8, <1>9, <2>1, NextCases

-----------------------------------------------------------------------------
(* The certificates are a KeyRing.                                         *)

\* While a handler mints, the files of every name cached before stay as they are,
\* if the name shares them with no other.
LEMMA CachedKept ==
  ASSUME TypeOK, CertInv, NEW c \in Conns, LeafFor(c),
         NEW n \in leaves, Private(n)
  PROVE  n \in leaves' /\ OnFile(n)' = OnFile(n)
  <1>1. /\ place[c] \in {"lock", "request", "sign"} /\ sni[c] \in Names /\ n \in Names
        /\ place[c] \in {"request", "sign"} => sni[c] \notin leaves
    BY DEF LeafFor, CertInv, InHandshake, TypeOK, CertsTypeOK
  <1>2. stem' = stem /\ leaves \subseteq leaves'
    BY DEF LeafFor, Cached, LockToMint, WriteKey, WriteCrt, MintFails, certVars
  <1>3. CASE place[c] = "lock"
    BY <1>2, <1>3 DEF LeafFor, Cached, LockToMint, certVars, OnFile
  <1>4. CASE place[c] \in {"request", "sign"}
    <2>1. stem[n] # stem[sni[c]]
      BY <1>1, <1>4 DEF Private
    <2>2. /\ stem[n] \in Stems /\ stem[sni[c]] \in Stems
          /\ keys \in [Stems -> Mints] /\ crts \in [Stems -> Mints]
      <3>1. stem \in FileMaps /\ keys \in [Stems -> Mints] /\ crts \in [Stems -> Mints]
        BY DEF TypeOK, CertsTypeOK
      <3>2. QED
        BY <1>1, <3>1 DEF Stems
    <2>3. /\ keys' = keys \/ \E m \in Mints : keys' = [keys EXCEPT ![stem[sni[c]]] = m]
          /\ crts' = crts \/ \E m \in Mints : crts' = [crts EXCEPT ![stem[sni[c]]] = m]
      BY <1>4 DEF LeafFor, WriteKey, WriteCrt, MintFails, Mints
    <2>4. keys'[stem[n]] = keys[stem[n]] /\ crts'[stem[n]] = crts[stem[n]]
      BY <2>1, <2>2, <2>3
    <2>5. QED
      BY <1>2, <2>4 DEF OnFile
  <1>5. QED
    BY <1>1, <1>3, <1>4

LEMMA RingInvStep ==
  ASSUME TypeOK, HandInv, QueueInv, CertInv, RingInv, [Next]_pvars
  PROVE  RingInv'
  <1>0. \A d \in Conns : place[d] \in InHandshake \/ chain[d] # None => sni[d] \in Names
    BY DEF CertInv
  <1>1. CASE \A c \in Conns : ~HandshakeStep(c)
    BY <1>1, OutsideHandshake DEF RingInv, Private, OnFile, certVars
  <1>2. ASSUME NEW c \in Conns, HandshakeStep(c)
        PROVE  RingInv'
    <2>1. CASE Peek(c)
      <3>1. /\ chain[c] = None /\ UNCHANGED <<certVars, chain>>
            /\ \A d \in Conns \ {c} : place'[d] = place[d] /\ sni'[d] = sni[d]
        BY <2>1 DEF Peek, Put, CertInv, TypeOK
      <3>2. QED
        BY <3>1 DEF RingInv, Private, OnFile, certVars
    <2>2. CASE LeafFor(c)
      <3>1. /\ place[c] \in InHandshake /\ UNCHANGED <<sni, chain, stem>>
            /\ \A d \in Conns \ {c} : place'[d] = place[d]
        BY <2>2 DEF LeafFor, Put, TypeOK, InHandshake, Cached, LockToMint, WriteKey,
                    WriteCrt, MintFails, certVars
      <3>2. ASSUME NEW d \in Conns, chain[d] # None
            PROVE  /\ sni[d] \in leaves'
                   /\ Private(sni[d]) => chain[d] = OnFile(sni[d])'
        <4>1. sni[d] \in leaves /\ (Private(sni[d]) => chain[d] = OnFile(sni[d]))
          BY <3>2 DEF RingInv
        <4>2. leaves \subseteq leaves'
          BY <2>2 DEF LeafFor, Cached, LockToMint, WriteKey, WriteCrt, MintFails, certVars
        <4>3. QED
          BY <2>2, <3>1, <4>1, <4>2, CachedKept DEF OnFile
      <3>3. QED
        BY <3>1, <3>2 DEF RingInv, Private
    <2>3. CASE LoadChain(c)
      <3>1. /\ place[c] = "load" /\ place'[c] = "serving" /\ UNCHANGED <<certVars, sni>>
            /\ chain'[c] = OnFile(sni[c]) /\ sni[c] \in leaves
            /\ \A d \in Conns \ {c} : place'[d] = place[d] /\ chain'[d] = chain[d]
        BY <2>3 DEF LoadChain, Put, TypeOK, CertInv
      <3>2. QED
        BY <3>1 DEF RingInv, Private, OnFile, certVars, InHandshake
    <2>4. QED
      BY <1>2, <2>1, <2>2, <2>3 DEF HandshakeStep
  <1>3. QED
    BY <1>1, <1>2

\* A step of a handshake asks, mints, is given its pair, or shows nothing.
LEMMA RingStep ==
  ASSUME TypeOK, CertInv, RingInv, NEW c \in Conns, HandshakeStep(c)
  PROVE  KR!Next \/ UNCHANGED KR!vars
  <1> DEFINE asked == [d \in Conns |-> IF Own(d) THEN sni[d] ELSE None]
             pair == [n \in Names |-> IF n \in leaves /\ Private(n) THEN OnFile(n) ELSE None]
             given == [d \in Conns |-> IF Own(d) THEN chain[d] ELSE None]
  <1>1. /\ None \notin Names /\ None \notin Conns /\ stem' = stem
        /\ \A n : Private(n)' = Private(n)
    <2>1. stem' = stem
      BY DEF HandshakeStep, Peek, LeafFor, LoadChain, Cached, LockToMint, WriteKey,
             WriteCrt, MintFails, certVars
    <2>2. QED
      BY <2>1 DEF Private
  <1>2. UNCHANGED <<asked, pair, given>> => UNCHANGED KR!vars
    BY DEF KR!vars
  <1>3. \A d \in Conns, n \in Names :
          KR!Ask(d, n) \/ KR!Mint(d, n) \/ KR!Give(d, n) => KR!Next
    BY DEF KR!Next
  <1>4. ASSUME UNCHANGED sni
        PROVE  asked' = asked
    BY <1>1, <1>4 DEF Own
  <1>5. CASE Peek(c)
    <2>1. /\ sni[c] = None /\ chain[c] = None /\ UNCHANGED <<certVars, chain>>
      BY <1>5 DEF Peek, CertInv
    <2>2. pair' = pair
      BY <1>1, <2>1 DEF OnFile, certVars
    <2>3. CASE sni' = sni
      <3>1. given' = given
        BY <1>1, <2>1, <2>3 DEF Own
      <3>2. QED
        BY <1>2, <1>4, <2>2, <2>3, <3>1
    <2>4. ASSUME NEW n \in limit.names, sni' = [sni EXCEPT ![c] = n]
          PROVE  KR!Next \/ UNCHANGED KR!vars
      <3>1. n \in Names /\ sni'[c] = n /\ n # None
        BY <1>1, <2>4 DEF TypeOK
      <3>2. \A d \in Conns \ {c} : sni'[d] = sni[d]
        BY <2>4 DEF TypeOK
      <3>3. given' = given
        <4>1. \A d \in Conns :
                (IF Own(d) THEN chain[d] ELSE None)' = (IF Own(d) THEN chain[d] ELSE None)
          BY <1>1, <2>1, <3>1, <3>2 DEF Own
        <4>2. QED
          BY <4>1
      <3>4. asked[c] = None
        BY <2>1 DEF Own
      <3>5. CASE Private(n)
        <4>1. asked' = [asked EXCEPT ![c] = n]
          BY <1>1, <3>1, <3>2, <3>5 DEF Own
        <4>2. KR!Ask(c, n)
          BY <2>2, <3>3, <3>4, <4>1 DEF KR!Ask
        <4>3. QED
          BY <3>1, <4>2, <1>3
      <3>6. CASE ~Private(n)
        <4>1. asked' = asked
          BY <1>1, <2>1, <3>1, <3>2, <3>6 DEF Own
        <4>2. QED
          BY <1>2, <2>2, <3>3, <4>1
      <3>7. QED
        BY <3>5, <3>6
    <2>5. QED
      BY <1>5, <2>3, <2>4 DEF Peek
  <1>6. CASE LeafFor(c)
    <2>1. /\ UNCHANGED <<sni, chain>> /\ sni[c] \in Names
          /\ place[c] \in {"lock", "request", "sign"}
      BY <1>6 DEF LeafFor, CertInv, InHandshake
    <2>2. asked' = asked /\ given' = given
      BY <1>1, <2>1, <1>4 DEF Own
    <2>3. \A n \in leaves : Private(n) => n \in leaves' /\ OnFile(n)' = OnFile(n)
      BY <1>6, CachedKept
    <2>4. CASE leaves' = leaves
      <3>1. \A n \in Names :
              (IF n \in leaves /\ Private(n) THEN OnFile(n) ELSE None)' =
              (IF n \in leaves /\ Private(n) THEN OnFile(n) ELSE None)
        BY <1>1, <2>3, <2>4
      <3>2. pair' = pair
        BY <3>1
      <3>3. QED
        BY <1>2, <2>2, <3>2
    <2>5. CASE leaves' # leaves
      <3>1. place[c] = "sign" /\ WriteCrt(c, sni[c])
        BY <1>6, <2>5 DEF LeafFor, Cached, LockToMint, WriteKey, MintFails, certVars
      <3>2. /\ leaves' = leaves \cup {sni[c]} /\ sni[c] \notin leaves
            /\ OnFile(sni[c])' = [crt |-> c, key |-> c]
        <4>1. stem[sni[c]] \in Stems
          BY <2>1 DEF Stems, TypeOK, CertsTypeOK
        <4>2. QED
          BY <1>1, <2>1, <3>1, <4>1 DEF WriteCrt, OnFile, CertInv, TypeOK, CertsTypeOK
      <3>3. CASE Private(sni[c])
        <4>1. pair' = [pair EXCEPT ![sni[c]] = [crt |-> c, key |-> c]]
          <5>1. \A n \in Names :
                  (IF n \in leaves /\ Private(n) THEN OnFile(n) ELSE None)' =
                  IF n = sni[c] THEN [crt |-> c, key |-> c]
                  ELSE IF n \in leaves /\ Private(n) THEN OnFile(n) ELSE None
            <6> SUFFICES ASSUME NEW n \in Names
                PROVE  (IF n \in leaves /\ Private(n) THEN OnFile(n) ELSE None)' =
                       IF n = sni[c] THEN [crt |-> c, key |-> c]
                       ELSE IF n \in leaves /\ Private(n) THEN OnFile(n) ELSE None
              OBVIOUS
            <6>1. CASE n = sni[c]
              <7>1. n \in leaves' /\ Private(n)'
                BY <1>1, <3>2, <3>3, <6>1
              <7>2. OnFile(n)' = [crt |-> c, key |-> c]
                BY <2>1, <3>2, <6>1 DEF OnFile
              <7>3. QED
                BY <6>1, <7>1, <7>2
            <6>2. CASE n # sni[c]
              <7>1. (n \in leaves' <=> n \in leaves) /\ Private(n)' = Private(n)
                BY <1>1, <3>2, <6>2
              <7>2. n \in leaves /\ Private(n) => OnFile(n)' = OnFile(n)
                BY <2>3
              <7>3. QED
                BY <6>2, <7>1, <7>2
            <6>3. QED
              BY <6>1, <6>2
          <5>2. QED
            BY <2>1, <5>1
        <4>2. pair[sni[c]] = None /\ asked[c] = sni[c]
          BY <1>1, <2>1, <3>2, <3>3 DEF Own
        <4>3. PICK n \in Names : n = sni[c]
          BY <2>1
        <4>4. KR!Mint(c, n)
          BY <2>2, <4>1, <4>2, <4>3 DEF KR!Mint
        <4>5. QED
          BY <4>4, <1>3
      <3>4. CASE ~Private(sni[c])
        <4>1. \A n \in Names :
                (IF n \in leaves /\ Private(n) THEN OnFile(n) ELSE None)' =
                (IF n \in leaves /\ Private(n) THEN OnFile(n) ELSE None)
          BY <1>1, <2>3, <3>2, <3>4
        <4>2. pair' = pair
          BY <4>1
        <4>3. QED
          BY <1>2, <2>2, <4>2
      <3>5. QED
        BY <3>3, <3>4
    <2>6. QED
      BY <2>4, <2>5
  <1>7. CASE LoadChain(c)
    <2>1. /\ UNCHANGED <<certVars, sni>> /\ chain' = [chain EXCEPT ![c] = OnFile(sni[c])]
          /\ chain[c] = None /\ sni[c] \in leaves /\ sni[c] \in Names
      BY <1>7 DEF LoadChain, RingInv, CertInv, InHandshake, TypeOK, CertsTypeOK
    <2>2. asked' = asked /\ pair' = pair
      BY <1>1, <1>4, <2>1 DEF OnFile, certVars
    <2>3. \A d \in Conns : Own(d)' = Own(d)
      BY <1>1, <2>1 DEF Own
    <2>4. CASE Own(c)
      <3>1. pair[sni[c]] = OnFile(sni[c]) /\ asked[c] = sni[c] /\ given[c] = None
        BY <2>1, <2>4 DEF Own
      <3>2. pair[sni[c]] # None
        <4>1. Paired(sni[c])
          BY <2>1, <2>4 DEF CertInv, Own
        <4>2. OnFile(sni[c]) # None
          BY <4>1, CertsAssumption DEF Paired, OnFile
        <4>3. QED
          BY <3>1, <4>2
      <3>3. given' = [given EXCEPT ![c] = pair[sni[c]]]
        BY <2>1, <2>3, <2>4, <3>1 DEF TypeOK
      <3>4. PICK n \in Names : n = sni[c]
        BY <2>1
      <3>5. KR!Give(c, n)
        BY <2>2, <3>1, <3>2, <3>3, <3>4 DEF KR!Give
      <3>6. QED
        BY <3>5, <1>3
    <2>5. CASE ~Own(c)
      <3>1. given' = given
        BY <2>1, <2>3, <2>5 DEF TypeOK
      <3>2. QED
        BY <1>2, <2>2, <3>1
    <2>6. QED
      BY <2>4, <2>5
  <1>8. QED
    BY <1>5, <1>6, <1>7 DEF HandshakeStep

-----------------------------------------------------------------------------
(* The theorems.                                                           *)

LEMMA PInvStep == PInv /\ [Next]_pvars => PInv'
  BY TypeStep, ThreadInvStep, QueueInvStep, HandInvStep, HandlersInvStep, LeftInvStep,
     CertInvStep DEF PInv

LEMMA PInductive == Spec => []PInv
  BY PInit, PInvStep, PTL DEF Spec

\* Every variable keeps its type (proxy.py:122-157, 198-226, certs.py:41-93).
THEOREM TypeCorrect == Spec => []TypeOK
  <1>1. PInv => TypeOK
    BY DEF PInv
  <1>2. QED
    BY <1>1, PInductive, PTL

\* A stop whose joins did not time out leaves no accept thread, no handler and
\* nothing queued; a connection it leaves open has an error kept of it, or a pump
\* of its own (proxy.py:149-156, terminate.py:127-131, 316-319).
THEOREM StopsClean == Spec => []CleanStop
  <1>1. PInv => CleanStop
    <2> SUFFICES ASSUME PInv, owner = "stopped", ~late PROVE CleanStop
      BY DEF CleanStop
    <2>1. thread = 0 /\ ~listening
      BY DEF PInv, ThreadInv
    <2>2. \A g \in Starts : serve[g] \in {"none", "ended"}
      BY <2>1 DEF PInv, ThreadInv, Starts
    <2>3. handlers = {} /\ \A c \in Conns : ~InHand(c)
      BY <2>2 DEF PInv, HandlersInv, InHand
    <2>4. \A c \in Conns : place[c] \notin {"taken"} \cup Handling
      BY <2>3 DEF PInv, HandlersInv
    <2>5. backlog = <<>> /\ \A c \in Conns : place[c] # "backlog"
      BY <2>1 DEF PInv, QueueInv
    <2>6. \A c \in Conns : place[c] \in {"away", "reset"} \cup HandlerOver
      BY <2>4, <2>5 DEF PInv, TypeOK
    <2>7. ASSUME NEW c \in Conns
          PROVE  \/ place[c] \in {"away", "reset", "closed"}
                 \/ /\ posture = "terminate"
                    /\ place[c] = "pumping" \/ (place[c] = "held" /\ tls[c])
      BY <2>6 DEF PInv, LeftInv, HandlerOver
    <2>8. QED
      BY <2>2, <2>3, <2>5, <2>7 DEF CleanStop
  <1>2. QED
    BY <1>1, PInductive, PTL

\* Until stop is called or the host runs short, the accept loop lives and whatever
\* it has not handed to a handler is in its queue or its hand: what Served rests on
\* (proxy.py:198-216, terminate.py:103-113).
THEOREM NothingOrphaned == Spec => []NoneOrphaned
  <1>1. Init => LoopInv
    BY DEF Init, LoopInv, NoneOrphaned
  <1>2. PInv /\ LoopInv /\ [Next]_pvars => LoopInv'
    BY LoopInvStep DEF PInv
  <1>3. LoopInv => NoneOrphaned
    BY DEF LoopInv
  <1>4. QED
    BY <1>1, <1>2, <1>3, PInductive, PTL DEF Spec

\* A handshake is given a certificate and its own key, for the name it asked for
\* (certs.py:59-66, terminate.py:211-214).
THEOREM PairsFit == Spec => []CertificateFits
  <1>1. PInv => CertificateFits
    BY DEF PInv, CertInv
  <1>2. QED
    BY <1>1, PInductive, PTL

\* After stop has waited for the accept thread, nothing is accepted, by a proxy
\* that is started again either (proxy.py:150, 200).
THEOREM StoppedForGood == Spec => NoneAcceptedAfterStop
  <1> DEFINE P == \A c \in Conns :
                   place[c] = "backlog" /\ place'[c] = "taken" /\ stopFlag
                     => late \/ owner = "join"
  <1>1. PInv /\ [Next]_pvars => [P]_pvars
    <2> SUFFICES ASSUME PInv, Next, NEW c \in Conns,
                        place[c] = "backlog", place'[c] = "taken", stopFlag
                 PROVE  late \/ owner = "join"
      OBVIOUS
    <2>1. ASSUME NEW d \in Conns, Connect(d) \/ HandshakeStep(d) \/ HandlerEnds(d) \/ PumpEnds(d)
          PROVE  FALSE
      BY <2>1 DEF Connect, HandshakeStep, Peek, LeafFor, LoadChain, HandlerEnds, PumpEnds, Put,
                  PInv, TypeOK
    <2>2. CASE Start \/ StartRefused \/ CallStop \/ StopStep
      BY <2>2 DEF Start, StartRefused, CallStop, StopStep, JoinAccept, CloseListener,
                  ForgetHandlers, JoinHandler, connVars, PInv, TypeOK
    <2>3. ASSUME NEW g \in Starts, ServeStep(g)
          PROVE  serve[g] \notin {"none", "check", "ended"}
      BY <2>3 DEF ServeStep, CheckStop, Accept, AcceptTimesOut, AcceptRaises, Dispatch,
                  InlineEnds, BeginHandler, BeginRefused
    <2>4. QED
      BY <2>1, <2>2, <2>3 DEF Next, PInv, ThreadInv
  <1>2. QED
    BY <1>1, PInductive, PTL DEF Spec, NoneAcceptedAfterStop

\* leaf_for, its lock, its cache and its files give the handshakes what a table with
\* one entry per name would, however mints fail and race (certs.py:54-93).
THEOREM CertsAreKeyRing == Spec => ImplementsKeyRing
  <1>1. Init => KR!Init /\ RingInv
    <2>1. Init => KR!Init
      BY DEF Init, CertsInit, KR!Init, Own
    <2>2. Init => RingInv
      BY DEF Init, RingInv, InHandshake
    <2>3. QED
      BY <2>1, <2>2
  <1>2. PInv /\ RingInv /\ [Next]_pvars => RingInv'
    BY RingInvStep DEF PInv
  <1>3. PInv /\ RingInv /\ [Next]_pvars => [KR!Next]_(KR!vars)
    <2> SUFFICES ASSUME PInv, RingInv, [Next]_pvars
                 PROVE  KR!Next \/ UNCHANGED KR!vars
      OBVIOUS
    <2>1. CASE \E c \in Conns : HandshakeStep(c)
      BY <2>1, RingStep DEF PInv
    <2>2. CASE \A c \in Conns : ~HandshakeStep(c)
      <3>1. UNCHANGED <<certVars, sni, chain>>
        BY <2>2, OutsideHandshake DEF PInv
      <3>2. QED
        BY <3>1 DEF KR!vars, Own, Private, OnFile, certVars
    <2>3. QED
      BY <2>1, <2>2
  <1>4. QED
    BY <1>1, <1>2, <1>3, PInductive, PTL DEF Spec, ImplementsKeyRing, KR!Spec

\* Handshakes only go on, and wait for a handler that is minting: what
\* HandshakeGoesOn rests on (certs.py:61-86, terminate.py:208-216).
THEOREM HandshakesGoForward == Spec => HandshakesAdvance
  <1> DEFINE Advance ==
        /\ \A c \in Conns :
             /\ HandshakeStep(c) => HandshakeLeft(c)' < HandshakeLeft(c)
             /\ HandshakeLeft(c)' <= HandshakeLeft(c)
        /\ certLock # None => place[certLock] \in {"request", "sign"}
  <1>1. PInv /\ [Next]_pvars => [Advance]_pvars
    <2> SUFFICES ASSUME PInv, [Next]_pvars
                 PROVE  Advance
      OBVIOUS
    <2>1. certLock # None => place[certLock] \in {"request", "sign"}
      BY DEF PInv, CertInv, TypeOK, CertsTypeOK
    <2>2. ASSUME NEW c \in Conns, HandshakeStep(c)
          PROVE  /\ HandshakeLeft(c)' < HandshakeLeft(c)
                 /\ \A d \in Conns \ {c} : HandshakeLeft(d)' = HandshakeLeft(d)
      <3>1. PICK l : /\ place' = [place EXCEPT ![c] = l]
                     /\ \/ place[c] = "peek" /\ l \in {"serving", "lock"}
                        \/ place[c] = "lock" /\ l \in {"load", "request"}
                        \/ place[c] = "request" /\ l \in {"sign", "serving"}
                        \/ place[c] = "sign" /\ l \in {"load", "serving"}
                        \/ place[c] = "load" /\ l = "serving"
        BY <2>2 DEF HandshakeStep, Peek, LeafFor, LoadChain, Put
      <3>2. place'[c] = l /\ \A d \in Conns \ {c} : place'[d] = place[d]
        BY <3>1 DEF PInv, TypeOK
      <3>3. QED
        BY <3>1, <3>2 DEF HandshakeLeft
    <2>3. \A c \in Conns : HandshakeLeft(c) \in Nat
      BY DEF HandshakeLeft
    <2>4. ASSUME \A c \in Conns : ~HandshakeStep(c), NEW d \in Conns
          PROVE  HandshakeLeft(d)' <= HandshakeLeft(d)
      <3>1. place'[d] = place[d] \/ Onward(place[d], place'[d])
        BY <2>4, OutsideMoves DEF PInv
      <3>2. QED
        BY <3>1 DEF HandshakeLeft, Onward, HandlerOver
    <2>5. ASSUME NEW c \in Conns
          PROVE  /\ HandshakeStep(c) => HandshakeLeft(c)' < HandshakeLeft(c)
                 /\ HandshakeLeft(c)' <= HandshakeLeft(c)
      <3>1. HandshakeLeft(c) \in Nat /\ (HandshakeLeft(c) \in Nat)'
        BY <2>3 DEF HandshakeLeft
      <3>2. CASE \E d \in Conns : HandshakeStep(d)
        BY <2>2, <3>1, <3>2
      <3>3. CASE \A d \in Conns : ~HandshakeStep(d)
        BY <2>4, <3>3
      <3>4. QED
        BY <3>2, <3>3
    <2>6. QED
      BY <2>1, <2>5
  <1>2. QED
    BY <1>1, PInductive, PTL DEF Spec, HandshakesAdvance

\* A stop goes through its stages and its list, each once: what StopReturns rests on
\* (proxy.py:149-157, terminate.py:127-131).
THEOREM StopsGoForward == Spec => StopAdvances
  <1> DEFINE Advance ==
        StopAt # 0 =>
          /\ StopStep => \/ StopAt' < StopAt
                         \/ \E c \in handlers : joined' = joined \cup {c} /\ c \notin joined
          /\ StopAt' <= StopAt /\ (StopAt' = StopAt => joined \subseteq joined')
          /\ owner = "handlers" /\ ~late => handlers' \subseteq handlers
  <1>1. PInv /\ [Next]_pvars => [Advance]_pvars
    <2> SUFFICES ASSUME PInv, [Next]_pvars, StopAt # 0
                 PROVE  /\ StopStep => \/ StopAt' < StopAt
                                       \/ \E c \in handlers :
                                            joined' = joined \cup {c} /\ c \notin joined
                        /\ StopAt' <= StopAt /\ (StopAt' = StopAt => joined \subseteq joined')
                        /\ owner = "handlers" /\ ~late => handlers' \subseteq handlers
      OBVIOUS
    <2>1. owner \in {"join", "close", "handlers"}
      BY DEF StopAt
    <2>2. CASE StopStep
      <3>1. ASSUME NEW c \in Conns, JoinHandler(c)
            PROVE  /\ owner = "handlers" /\ handlers' = handlers
                   /\ \/ owner' = "raised"
                      \/ owner' = owner /\ joined' = joined \cup {c} /\ c \in handlers \ joined
        BY <3>1 DEF JoinHandler, loopVars
      <3>2. CASE JoinAccept
        BY <3>2 DEF JoinAccept, StopAt
      <3>3. CASE CloseListener
        BY <3>3 DEF CloseListener, StopAt
      <3>4. CASE ForgetHandlers
        <4>1. owner = "handlers" /\ owner' = "stopped" /\ handlers' = {}
          BY <3>4 DEF ForgetHandlers
        <4>2. StopAt = 1 /\ StopAt' = 0
          BY <4>1 DEF StopAt
        <4>3. QED
          BY <4>1, <4>2
      <3>5. CASE \E c \in Conns : JoinHandler(c)
        BY <3>1, <3>5 DEF StopAt
      <3>6. QED
        BY <2>2, <3>2, <3>3, <3>4, <3>5 DEF StopStep
    <2>3. CASE ~StopStep
      <3>1. owner' = owner /\ joined' = joined
        <4>1. ~Start /\ ~StartRefused /\ ~CallStop
          BY <2>1 DEF Start, StartRefused, CallStop
        <4>2. ASSUME NEW c \in Conns, Connect(c) \/ HandshakeStep(c) \/ HandlerEnds(c) \/ PumpEnds(c)
              PROVE  UNCHANGED lifeVars
          BY <4>2 DEF Connect, HandshakeStep, HandlerEnds, PumpEnds
        <4>3. ASSUME NEW g \in Starts, ServeStep(g)
              PROVE  owner' = owner /\ joined' = joined
          BY <4>3 DEF ServeStep
        <4>4. QED
          BY <2>3, <4>1, <4>2, <4>3 DEF Next, lifeVars, pvars
      <3>2. ASSUME owner = "handlers", ~late
            PROVE  handlers' = handlers
        <4>1. \A g \in Starts : serve[g] \in {"none", "ended"}
          BY <3>2 DEF PInv, ThreadInv, Starts
        <4>2. ASSUME NEW c \in Conns, Connect(c) \/ HandshakeStep(c) \/ HandlerEnds(c) \/ PumpEnds(c)
              PROVE  UNCHANGED handlers
          BY <4>2 DEF Connect, HandshakeStep, HandlerEnds, PumpEnds, loopVars
        <4>3. ASSUME NEW g \in Starts
              PROVE  ~ServeStep(g)
          BY <4>1 DEF ServeStep, CheckStop, Accept, AcceptTimesOut, AcceptRaises,
                      Dispatch, InlineEnds, BeginHandler, BeginRefused
        <4>4. QED
          BY <2>1, <2>3, <4>2, <4>3 DEF Next, Start, StartRefused, CallStop, pvars, loopVars
      <3>3. StopAt' = StopAt /\ StopAt \in Nat
        BY <3>1 DEF StopAt
      <3>4. QED
        BY <2>3, <3>1, <3>2, <3>3
    <2>4. QED
      BY <2>2, <2>3
  <1>2. QED
    BY <1>1, PInductive, PTL DEF Spec, StopAdvances
=============================================================================
