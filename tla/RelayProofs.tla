---------------------------- MODULE RelayProofs ----------------------------
(***************************************************************************)
(* Theorems about Relay, for any room between the ends, plain or TLS.       *)
(***************************************************************************)
EXTENDS Relay, SequenceTheorems, TLAPS

LEMMA Basics == /\ Chunks \in Nat /\ Cipher # 0 /\ TlsKinds \subseteq BOOLEAN
                /\ \A d \in Dirs : Src(d) \in Ends /\ Dst(d) \in Ends
  BY RelayAssumption DEF Dirs, Ends, Src, Dst

\* The steps with which the pump of d stops.
Stopping(d) ==
  RecvEof(d) \/ RecvTimeout(d) \/ Resets(d) \/ Fails(d) \/ DrainTimeout(d)

LEMMA RInit == Init => RInv
  <1> SUFFICES ASSUME Init PROVE RInv
    OBVIOUS
  <1>1. /\ sent \in [Dirs -> Nat] /\ read \in [Dirs -> Nat]
        /\ hand \in [Dirs -> Nat \cup {Cipher}]
        /\ got \in [Dirs -> Seq(Nat \cup {Cipher})]
    BY Basics DEF Init
  <1>2. tls \in BOOLEAN /\ layer \in [Ends -> BOOLEAN] /\ via \in [Dirs -> BOOLEAN]
    BY Basics DEF Init
  <1>3. TypeOK
    BY <1>1, <1>2 DEF Init, TypeOK
  <1>4. \A d \in Dirs : Len(got[d]) = 0 /\ hand[d] = 0 /\ via[d] = tls /\ ~alert[d]
    BY DEF Init
  <1>5. DeliveredInOrder
    BY <1>4 DEF DeliveredInOrder
  <1>6. \A d \in Dirs : Holding(d) /\ Decrypted(d)
    BY <1>4 DEF Init, Holding, Decrypted
  <1>7. QED
    BY <1>3, <1>5, <1>6 DEF RInv

\* What the destination has once a pump sent the chunk it holds.
LEMMA Delivered ==
  ASSUME RInv, NEW d \in Dirs, pump[d] = "send"
  PROVE  LET g == Append(got[d], hand[d])
         IN  /\ g \in Seq(Nat \cup {Cipher}) /\ Len(g) = read[d]
             /\ \A i \in 1..Len(g) :
                  g[i] = i \/ (g[i] = Cipher /\ tls /\ ~layer[Src(d)])
  <1>1. /\ got[d] \in Seq(Nat \cup {Cipher}) /\ Len(got[d]) \in Nat
        /\ read[d] \in Nat /\ hand[d] # 0 /\ hand[d] \in Nat \cup {Cipher}
    BY Basics DEF RInv, TypeOK, Holding
  <1>3. Len(got[d]) = read[d] - 1
    BY <1>1 DEF RInv, Holding
  <1>4. hand[d] = read[d] \/ (hand[d] = Cipher /\ tls /\ ~layer[Src(d)])
    BY <1>1 DEF RInv, Decrypted
  <1>5. \A i \in 1..Len(got[d]) :
          got[d][i] = i \/ (got[d][i] = Cipher /\ tls /\ ~layer[Src(d)])
    BY DEF RInv, DeliveredInOrder
  <1>6. PICK g : g = Append(got[d], hand[d])
    OBVIOUS
  <1>7. /\ g \in Seq(Nat \cup {Cipher}) /\ Len(g) = Len(got[d]) + 1
        /\ \A i \in 1..Len(got[d]) : g[i] = got[d][i]
        /\ g[Len(got[d]) + 1] = hand[d]
    BY <1>1, <1>6, AppendProperties
  <1>8. ASSUME NEW i \in 1..Len(g)
        PROVE  g[i] = i \/ (g[i] = Cipher /\ tls /\ ~layer[Src(d)])
    <2>1. i \in 1..Len(got[d]) \/ (i = Len(got[d]) + 1 /\ i = read[d])
      BY <1>1, <1>3, <1>7, <1>8
    <2>2. CASE i \in 1..Len(got[d])
      BY <1>5, <1>7, <2>2
    <2>3. CASE i = Len(got[d]) + 1 /\ i = read[d]
      BY <1>4, <1>7, <2>3
    <2>4. QED
      BY <2>1, <2>2, <2>3
  <1>9. QED
    BY <1>1, <1>3, <1>6, <1>7, <1>8

\* What the destination has left once it took a chunk: all of it counts one less.
LEMMA Taken ==
  ASSUME RInv, NEW d \in Dirs, Take(d)
  PROVE  /\ got'[d] \in Seq(Nat \cup {Cipher}) /\ Len(got'[d]) = Len(got[d]) - 1
         /\ \A i \in 1..Len(got'[d]) :
              got'[d][i] = i \/ (got'[d][i] = Cipher /\ tls /\ ~layer[Src(d)])
         /\ sent'[d] = sent[d] - 1 /\ read'[d] = read[d] - 1
         /\ sent'[d] \in Nat /\ read'[d] \in Nat
         /\ hand'[d] = Renumber(hand[d]) /\ hand'[d] \in Nat \cup {Cipher}
         /\ hand'[d] = 0 <=> hand[d] = 0
  <1>1. /\ got[d] \in Seq(Nat \cup {Cipher}) /\ Len(got[d]) \in Nat /\ got[d] # <<>>
        /\ read[d] \in Nat /\ sent[d] \in Nat /\ hand[d] \in Nat \cup {Cipher}
    BY DEF RInv, TypeOK, Take
  <1>2. /\ sent'[d] = sent[d] - 1 /\ read'[d] = read[d] - 1 /\ hand'[d] = Renumber(hand[d])
        /\ got'[d] = [i \in 1..Len(got[d]) - 1 |-> Renumber(got[d][i + 1])]
    BY DEF RInv, TypeOK, Take
  <1>3. Len(got[d]) >= 1
    BY <1>1, EmptySeq
  <1>4. \A i \in 1..Len(got[d]) - 1 :
          /\ i + 1 \in 1..Len(got[d])
          /\ got[d][i + 1] = i + 1 \/ (got[d][i + 1] = Cipher /\ tls /\ ~layer[Src(d)])
    BY <1>1 DEF RInv, DeliveredInOrder
  <1>5. ASSUME NEW i \in 1..Len(got[d]) - 1
        PROVE  /\ got'[d][i] = i \/ (got'[d][i] = Cipher /\ tls /\ ~layer[Src(d)])
               /\ got'[d][i] \in Nat \cup {Cipher}
    <2>1. got'[d][i] = Renumber(got[d][i + 1]) /\ i \in Nat /\ (i + 1) - 1 = i /\ i + 1 # 0
      BY <1>1, <1>2
    <2>2. CASE got[d][i + 1] = Cipher /\ tls /\ ~layer[Src(d)]
      BY <2>1, <2>2 DEF Renumber
    <2>3. CASE got[d][i + 1] = i + 1
      <3>1. i + 1 # Cipher
        BY <2>1, RelayAssumption
      <3>2. QED
        BY <2>1, <2>3, <3>1 DEF Renumber
    <2>4. QED
      BY <1>4, <2>2, <2>3
  <1>6. got'[d] \in Seq(Nat \cup {Cipher}) /\ Len(got'[d]) = Len(got[d]) - 1
    <2>0. Len(got[d]) - 1 \in Nat
      BY <1>1, <1>3
    <2>1. PICK n \in Nat : n = Len(got[d]) - 1
      BY <2>0
    <2>2. got'[d] = [i \in 1..n |-> Renumber(got[d][i + 1])]
      BY <1>2, <2>1
    <2>3. \A i \in 1..n : Renumber(got[d][i + 1]) \in Nat \cup {Cipher}
      BY <1>5, <2>1, <2>2
    <2>4. QED
      BY <2>1, <2>2, <2>3
  <1>7. read[d] >= 1 /\ sent[d] >= read[d]
    BY <1>1, <1>3 DEF RInv, Holding
  <1>8. /\ hand[d] = 0 \/ hand[d] = Cipher \/ (hand[d] = read[d] /\ read[d] >= 2)
        /\ hand'[d] = IF hand[d] \in {0, Cipher} THEN hand[d] ELSE hand[d] - 1
    BY <1>1, <1>2, <1>3 DEF RInv, Holding, Decrypted, Renumber
  <1>9. hand'[d] \in Nat \cup {Cipher} /\ (hand'[d] = 0 <=> hand[d] = 0)
    <2>1. CASE hand[d] \in {0, Cipher}
      BY <1>8, <2>1
    <2>2. CASE hand[d] \notin {0, Cipher}
      <3>1. hand'[d] = read[d] - 1 /\ read[d] >= 2
        BY <1>8, <2>2
      <3>2. hand'[d] \in Nat /\ hand'[d] # 0
        BY <1>1, <3>1
      <3>3. QED
        BY <2>2, <3>2
    <2>3. QED
      BY <2>1, <2>2
  <1>10. sent'[d] \in Nat /\ read'[d] \in Nat
    BY <1>1, <1>2, <1>7
  <1>11. \A i \in 1..Len(got'[d]) :
           got'[d][i] = i \/ (got'[d][i] = Cipher /\ tls /\ ~layer[Src(d)])
    BY <1>5, <1>6
  <1>12. QED
    BY <1>2, <1>6, <1>9, <1>10, <1>11

\* Only a TLS end announces its close.
LEMMA CloseNotifies ==
  ASSUME TypeOK, NEW d \in Dirs, Close(d)
  PROVE  \E notify \in BOOLEAN : alert' = [alert EXCEPT ![d] = notify] /\ (notify => tls)
  <1>1. CASE tls
    <2>1. {FALSE, tls} \subseteq BOOLEAN
      BY <1>1 DEF TypeOK
    <2>2. QED
      BY <1>1, <2>1 DEF Close
  <1>2. CASE ~tls
    <2>1. {FALSE, tls} = {FALSE}
      BY <1>2 DEF TypeOK
    <2>2. alert' = [alert EXCEPT ![d] = FALSE]
      BY <2>1 DEF Close
    <2>3. QED
      BY <2>2
  <1>3. QED
    BY <1>1, <1>2

LEMMA RTypeStep == RInv /\ [Next]_vars => TypeOK'
  <1> SUFFICES ASSUME RInv, [Next]_vars
               PROVE  TypeOK'
    OBVIOUS
  <1>0. TypeOK
    BY DEF RInv
  <1> USE DEF TypeOK
  <1>1. ASSUME NEW d \in Dirs, Send(d)
        PROVE  TypeOK'
    <2>1. sent' \in [Dirs -> Nat]
      BY <1>0, <1>1, Basics DEF Send
    <2>2. QED
      BY <1>0, <1>1, <2>1 DEF Send
  <1>2. ASSUME NEW d \in Dirs, Close(d)
        PROVE  TypeOK'
    <2>1. PICK notify \in BOOLEAN : alert' = [alert EXCEPT ![d] = notify]
      BY <1>0, <1>2, CloseNotifies
    <2>2. alert' \in [Dirs -> BOOLEAN] /\ fin' \in [Dirs -> BOOLEAN]
      BY <1>0, <1>2, <2>1 DEF Close
    <2>3. QED
      BY <1>0, <1>2, <2>2 DEF Close
  <1>3. ASSUME NEW d \in Dirs, Recv(d) \/ RecvAlert(d)
        PROVE  TypeOK'
    <2>1. /\ read' \in [Dirs -> Nat] /\ read[d] + 1 \in Nat
          /\ sent' \in [Dirs -> Nat] /\ alert' \in [Dirs -> BOOLEAN]
      <3>1. read[d] + 1 \in Nat /\ sent[d] + 1 \in Nat
        BY <1>0
      <3>2. read' = [read EXCEPT ![d] = read[d] + 1] /\ sent' \in {sent, [sent EXCEPT ![d] = sent[d] + 1]}
        BY <1>3 DEF Recv, RecvAlert
      <3>3. alert' \in {alert, [alert EXCEPT ![d] = FALSE]}
        BY <1>3 DEF Recv, RecvAlert
      <3>4. read' \in [Dirs -> Nat] /\ sent' \in [Dirs -> Nat]
        BY <1>0, <3>1, <3>2
      <3>5. alert' \in [Dirs -> BOOLEAN]
        BY <1>0, <3>3
      <3>6. QED
        BY <3>1, <3>4, <3>5
    <2>2. hand' \in [Dirs -> Nat \cup {Cipher}]
      BY <1>0, <1>3, <2>1 DEF Recv, RecvAlert
    <2>3. QED
      BY <1>0, <1>3, <2>1, <2>2 DEF Recv, RecvAlert
  <1>4. ASSUME NEW d \in Dirs, Stopping(d)
        PROVE  TypeOK'
    <2>1. /\ pump' = [pump EXCEPT ![d] = "shut"]
          /\ \E r \in {"eof", "timeout", "error"} : why' = [why EXCEPT ![d] = r]
          /\ UNCHANGED <<tls, sent, fin, alert, read, hand, got, layer, via, over>>
      BY <1>4 DEF Stopping, RecvEof, RecvTimeout, Resets, Fails, DrainTimeout, Stop
    <2>2. QED
      BY <1>0, <2>1
  <1>5. ASSUME NEW d \in Dirs, SendAll(d)
        PROVE  TypeOK'
    <2>1. got' \in [Dirs -> Seq(Nat \cup {Cipher})]
      BY <1>0, <1>5, Delivered DEF SendAll
    <2>2. hand' \in [Dirs -> Nat \cup {Cipher}] /\ via' \in [Dirs -> BOOLEAN]
      BY <1>0, <1>5, Basics DEF SendAll
    <2>3. QED
      BY <1>0, <1>5, <2>1, <2>2 DEF SendAll
  <1>6. ASSUME NEW d \in Dirs, Shut(d)
        PROVE  TypeOK'
    BY <1>0, <1>6 DEF Shut
  <1>7. CASE Leave
    BY <1>0, <1>7 DEF Leave
  <1>8. CASE UNCHANGED vars
    BY <1>0, <1>8 DEF vars
  <1>9. ASSUME NEW d \in Dirs, Take(d)
        PROVE  TypeOK'
    <2>1. /\ sent' \in [Dirs -> Nat] /\ read' \in [Dirs -> Nat]
          /\ hand' \in [Dirs -> Nat \cup {Cipher}]
          /\ got' \in [Dirs -> Seq(Nat \cup {Cipher})]
      BY <1>0, <1>9, Taken DEF Take
    <2>2. QED
      BY <1>0, <1>9, <2>1 DEF Take
  <1>10. QED
    BY <1>1, <1>2, <1>3, <1>4, <1>5, <1>6, <1>7, <1>8, <1>9 DEF Next, Pump, Stopping

\* The other direction's pump, chunks and source are untouched by a step of d.
LEMMA RInvStep == RInv /\ [Next]_vars => RInv'
  <1> SUFFICES ASSUME RInv, [Next]_vars, NEW e \in Dirs
               PROVE  /\ Holding(e)' /\ Decrypted(e)'
                      /\ (\A i \in 1..Len(got[e]) :
                            got[e][i] = i \/ (got[e][i] = Cipher /\ tls /\ ~layer[Src(e)]))'
    BY RTypeStep DEF RInv, DeliveredInOrder
  <1> DEFINE InOrder == \A i \in 1..Len(got[e]) :
                          got[e][i] = i \/ (got[e][i] = Cipher /\ tls /\ ~layer[Src(e)])
  <1>0. /\ TypeOK /\ Holding(e) /\ Decrypted(e) /\ InOrder
        /\ read[e] \in Nat /\ sent[e] \in Nat /\ Src(e) \in Ends
    BY Basics DEF RInv, DeliveredInOrder, TypeOK
  <1> USE DEF Holding, Decrypted
  <1>1. ASSUME NEW d \in Dirs, Send(d)
        PROVE  Holding(e)' /\ Decrypted(e)' /\ InOrder'
    <2>1. sent'[e] >= sent[e] /\ sent'[e] \in Nat /\ (fin[e] => sent'[e] = sent[e])
      BY <1>0, <1>1 DEF Send, TypeOK
    <2>2. UNCHANGED <<tls, fin, alert, read, hand, got, pump, why, layer, via>>
      BY <1>1 DEF Send
    <2>3. QED
      BY <1>0, <2>1, <2>2
  <1>2. ASSUME NEW d \in Dirs, Close(d)
        PROVE  Holding(e)' /\ Decrypted(e)' /\ InOrder'
    <2>1. /\ UNCHANGED <<tls, sent, read, hand, got, pump, why, layer, via>>
          /\ fin[e] => fin'[e]
      BY <1>0, <1>2 DEF Close, TypeOK
    <2>2. alert'[e] => tls /\ fin'[e]
      <3>1. PICK notify \in BOOLEAN : alert' = [alert EXCEPT ![d] = notify] /\ (notify => tls)
        BY <1>0, <1>2, CloseNotifies
      <3>2. e # d => alert'[e] = alert[e] /\ fin'[e] = fin[e]
        BY <1>0, <1>2, <3>1 DEF Close, TypeOK
      <3>3. e = d => alert'[e] = notify /\ fin'[e]
        BY <1>0, <1>2, <3>1 DEF Close, TypeOK
      <3>4. QED
        BY <1>0, <3>1, <3>2, <3>3
    <2>3. QED
      BY <1>0, <2>1, <2>2
  <1>3. ASSUME NEW d \in Dirs, Recv(d)
        PROVE  Holding(e)' /\ Decrypted(e)' /\ InOrder'
    <2>1. /\ UNCHANGED <<tls, sent, fin, alert, got, why, layer, via>>
          /\ pump[d] = "recv" /\ read[d] < sent[d]
      BY <1>3 DEF Recv
    <2>2. CASE e # d
      BY <1>0, <1>3, <2>1, <2>2 DEF Recv, TypeOK
    <2>3. CASE e = d
      <3>1. /\ read'[e] = read[e] + 1 /\ pump'[e] = "send"
            /\ hand'[e] = IF tls /\ ~via[e] THEN Cipher ELSE read[e] + 1
        BY <1>0, <1>3, <2>3 DEF Recv, TypeOK
      <3>2. hand'[e] # 0
        BY <1>0, <3>1, Basics
      <3>3. Holding(e)'
        BY <1>0, <2>1, <2>3, <3>1, <3>2
      <3>4. Decrypted(e)' /\ InOrder'
        BY <1>0, <2>1, <2>3, <3>1, <3>2
      <3>5. QED
        BY <3>3, <3>4
    <2>4. QED
      BY <2>2, <2>3
  <1>4. ASSUME NEW d \in Dirs, Stopping(d)
        PROVE  Holding(e)' /\ Decrypted(e)' /\ InOrder'
    <2>1. /\ pump' = [pump EXCEPT ![d] = "shut"]
          /\ \E r \in {"eof", "timeout", "error"} :
               /\ why' = [why EXCEPT ![d] = r]
               /\ r = "eof" => pump[d] = "recv" /\ read[d] = sent[d] /\ fin[d]
          /\ UNCHANGED <<tls, sent, fin, alert, read, hand, got, layer, via, over>>
      BY <1>4 DEF Stopping, RecvEof, RecvTimeout, Resets, Fails, DrainTimeout, Stop
    <2>2. QED
      BY <1>0, <2>1 DEF TypeOK
  <1>5. ASSUME NEW d \in Dirs, SendAll(d)
        PROVE  Holding(e)' /\ Decrypted(e)' /\ InOrder'
    <2>1. UNCHANGED <<tls, sent, fin, alert, read, why, layer>> /\ pump[d] = "send"
      BY <1>5 DEF SendAll
    <2>2. CASE e # d
      BY <1>0, <1>5, <2>1, <2>2 DEF SendAll, TypeOK
    <2>3. CASE e = d
      <3>1. /\ got'[e] = Append(got[e], hand[e]) /\ hand'[e] = 0 /\ pump'[e] = "recv"
            /\ via'[e] = layer[Src(e)]
        BY <1>0, <1>5, <2>3 DEF SendAll, TypeOK
      <3>2. Len(got'[e]) = read[e] /\ InOrder'
        BY <2>1, <2>3, <3>1, Delivered
      <3>3. QED
        BY <1>0, <2>1, <2>3, <3>1, <3>2
    <2>4. QED
      BY <2>2, <2>3
  <1>6. ASSUME NEW d \in Dirs, Shut(d)
        PROVE  Holding(e)' /\ Decrypted(e)' /\ InOrder'
    <2>1. /\ UNCHANGED <<tls, sent, fin, alert, read, hand, got, why, via>>
          /\ pump'[e] = pump[e] \/ (pump[e] = "shut" /\ pump'[e] = "done")
          /\ layer'[Src(e)] = layer[Src(e)] \/ layer'[Src(e)] = FALSE
      BY <1>0, <1>6 DEF Shut, TypeOK
    <2>2. QED
      BY <1>0, <2>1
  <1>7. CASE Leave \/ UNCHANGED vars
    BY <1>0, <1>7 DEF Leave, vars
  <1>8. ASSUME NEW d \in Dirs, RecvAlert(d)
        PROVE  Holding(e)' /\ Decrypted(e)' /\ InOrder'
    <2>1. /\ UNCHANGED <<tls, fin, got, why, layer, via>>
          /\ pump[d] = "recv" /\ read[d] = sent[d] /\ alert[d] /\ ~via[d]
      BY <1>8 DEF RecvAlert
    <2>2. CASE e # d
      <3>1. /\ UNCHANGED <<sent[e], read[e], hand[e], pump[e], alert[e]>>
        BY <1>0, <1>8, <2>2 DEF RecvAlert, TypeOK
      <3>2. QED
        BY <1>0, <2>1, <3>1
    <2>3. CASE e = d
      <3>1. /\ sent'[e] = sent[e] + 1 /\ read'[e] = read[e] + 1 /\ pump'[e] = "send"
            /\ hand'[e] = Cipher /\ ~alert'[e] /\ Cipher # 0
        BY <1>0, <1>8, <2>3, Basics DEF RecvAlert, TypeOK
      <3>2. Holding(e)'
        BY <1>0, <2>1, <2>3, <3>1
      <3>3. Decrypted(e)' /\ InOrder'
        BY <1>0, <2>1, <2>3, <3>1
      <3>4. QED
        BY <3>2, <3>3
    <2>4. QED
      BY <2>2, <2>3
  <1>9. ASSUME NEW d \in Dirs, Take(d)
        PROVE  Holding(e)' /\ Decrypted(e)' /\ InOrder'
    <2>1. UNCHANGED <<tls, fin, alert, pump, why, layer, via>>
      BY <1>9 DEF Take
    <2>2. CASE e # d
      <3>1. UNCHANGED <<sent[e], read[e], hand[e], got[e]>>
        BY <1>0, <1>9, <2>2 DEF Take, TypeOK
      <3>2. QED
        BY <1>0, <2>1, <3>1
    <2>3. CASE e = d
      <3>1. /\ Len(got'[e]) = Len(got[e]) - 1 /\ InOrder' /\ Len(got[e]) \in Nat
            /\ Len(got'[e]) \in Nat
            /\ sent'[e] = sent[e] - 1 /\ read'[e] = read[e] - 1
            /\ sent'[e] \in Nat /\ read'[e] \in Nat
            /\ hand'[e] = 0 <=> hand[e] = 0
        <4>1. Len(got[e]) \in Nat /\ got[e] # <<>> /\ Len(got[e]) # 0
          BY <1>0, <1>9, <2>3, EmptySeq DEF Take, TypeOK
        <4>2. /\ Len(got'[e]) = Len(got[e]) - 1
              /\ \A i \in 1..Len(got'[e]) :
                   got'[e][i] = i \/ (got'[e][i] = Cipher /\ tls /\ ~layer[Src(e)])
              /\ sent'[e] = sent[e] - 1 /\ read'[e] = read[e] - 1
              /\ sent'[e] \in Nat /\ read'[e] \in Nat
              /\ hand'[e] = 0 <=> hand[e] = 0
          BY <1>9, <2>3, Taken
        <4>3. QED
          BY <2>1, <4>1, <4>2
      <3>2. Holding(e)'
        BY <1>0, <2>1, <3>1
      <3>3. hand[e] \in Nat \cup {Cipher} /\ hand'[e] = Renumber(hand[e])
        <4>1. hand'[e] = Renumber(hand[e])
          BY <1>9, <2>3, Taken
        <4>2. hand \in [Dirs -> Nat \cup {Cipher}]
          BY <1>0 DEF TypeOK
        <4>3. hand[e] \in Nat \cup {Cipher}
          BY <4>2
        <4>4. QED
          BY <4>1, <4>3
      <3>4. ASSUME hand'[e] # 0
            PROVE  hand'[e] = read'[e] \/ (hand'[e] = Cipher /\ tls /\ ~layer[Src(e)])
        <4>1. CASE hand[e] = read[e]
          <5>1. read[e] \in Nat /\ read[e] # Cipher /\ read[e] # 0
            BY <1>0, <3>1, <3>4, <4>1, RelayAssumption
          <5>2. hand'[e] = read[e] - 1
            BY <3>3, <4>1, <5>1 DEF Renumber
          <5>3. QED
            BY <3>1, <5>2
        <4>2. CASE hand[e] = Cipher /\ tls /\ ~layer[Src(e)]
          BY <3>3, <4>2 DEF Renumber
        <4>3. QED
          BY <1>0, <3>1, <3>4, <4>1, <4>2
      <3>5. Decrypted(e)'
        BY <1>0, <2>1, <3>4
      <3>6. QED
        BY <3>1, <3>2, <3>5
    <2>4. QED
      BY <2>2, <2>3
  <1>10. QED
    BY <1>1, <1>2, <1>3, <1>4, <1>5, <1>6, <1>7, <1>8, <1>9 DEF Next, Pump, Stopping

LEMMA RInductive == Spec => []RInv
  BY RInit, RInvStep, PTL DEF Spec

-----------------------------------------------------------------------------
(* The theorems.                                                           *)

\* Every variable keeps its type (terminate.py:296-319).
THEOREM TypeCorrect == Spec => []TypeOK
  <1>1. RInv => TypeOK
    BY DEF RInv
  <1>2. QED
    BY <1>1, RInductive, PTL

\* Chunks arrive in order, none twice and none skipped, and as they were sent while
\* the TLS layer they are read through is in place (terminate.py:302-307).
THEOREM InOrderForever == Spec => []DeliveredInOrder
  <1>1. RInv => DeliveredInOrder
    BY DEF RInv
  <1>2. QED
    BY <1>1, RInductive, PTL

\* A half-close has everything that was sent before it behind it, whatever the
\* other direction does (terminate.py:304-306, 310-314).
THEOREM EofLosesNothing == Spec => []NothingDroppedAtEof
  <1>1. RInv => NothingDroppedAtEof
    BY DEF RInv, Holding, NothingDroppedAtEof
  <1>2. QED
    BY <1>1, RInductive, PTL

-----------------------------------------------------------------------------
(* Relay implements two Channels.                                          *)

\* What direction d shows its two ends.
View(d) == <<sent[d], fin[d], got[d], End(d), Secure(d)>>

\* What a channel may do, said of direction d.
ChannelStep(d) ==
  \/ /\ ~fin[d] /\ sent[d] < Chunks
     /\ View(d)' = <<sent[d] + 1, fin[d], got[d], End(d), Secure(d)>>
  \/ /\ got[d] # <<>>
     /\ View(d)' = <<sent[d] - 1, fin[d],
                     [i \in 1..Len(got[d]) - 1 |->
                        IF got[d][i + 1] \in {0, Cipher} THEN got[d][i + 1]
                                                        ELSE got[d][i + 1] - 1],
                     End(d), Secure(d)>>
  \/ /\ End(d) = "none" /\ ~Secure(d)
     /\ View(d)' = <<sent[d] + 1, fin[d], got[d], End(d), Secure(d)>>
  \/ ~fin[d] /\ View(d)' = <<sent[d], TRUE, got[d], End(d), Secure(d)>>
  \/ /\ End(d) = "none" /\ Len(got[d]) < sent[d]
     /\ \E x : /\ x = Len(got[d]) + 1 \/ (x = Cipher /\ ~Secure(d))
              /\ View(d)' = <<sent[d], fin[d], Append(got[d], x), End(d), Secure(d)>>
  \/ /\ End(d) = "none" /\ fin[d] /\ Len(got[d]) = sent[d]
     /\ View(d)' = <<sent[d], fin[d], got[d], "clean", Secure(d)>>
  \/ End(d) = "none" /\ View(d)' = <<sent[d], fin[d], got[d], "cut", Secure(d)>>
  \/ View(d)' = <<sent[d], fin[d], got[d], End(d), FALSE>>
  \/ View(d)' = View(d)

LEMMA DirectionStep ==
  ASSUME RInv, [Next]_vars, NEW d \in Dirs
  PROVE  ChannelStep(d)
  <1>0. /\ TypeOK /\ Holding(d) /\ Decrypted(d) /\ Src(d) \in Ends
        /\ sent[d] \in Nat /\ read[d] \in Nat /\ Len(got[d]) \in Nat
    BY Basics DEF RInv, TypeOK
  <1>1. ASSUME UNCHANGED <<tls, sent[d], fin[d], got[d], why[d], layer>>
        PROVE  ChannelStep(d)
    BY <1>1 DEF ChannelStep, View, End, Secure
  <1>2. ASSUME NEW e \in Dirs, Send(e)
        PROVE  ChannelStep(d)
    <2>1. CASE e = d
      BY <1>0, <1>2, <2>1 DEF Send, TypeOK, ChannelStep, View, End, Secure
    <2>2. CASE e # d
      BY <1>0, <1>1, <1>2, <2>2 DEF Send, TypeOK
    <2>3. QED
      BY <2>1, <2>2
  <1>3. ASSUME NEW e \in Dirs, Close(e)
        PROVE  ChannelStep(d)
    <2>1. CASE e = d
      BY <1>0, <1>3, <2>1 DEF Close, TypeOK, ChannelStep, View, End, Secure
    <2>2. CASE e # d
      BY <1>0, <1>1, <1>3, <2>2 DEF Close, TypeOK
    <2>3. QED
      BY <2>1, <2>2
  <1>4. ASSUME NEW e \in Dirs, Recv(e)
        PROVE  ChannelStep(d)
    BY <1>1, <1>4 DEF Recv
  <1>5. ASSUME NEW e \in Dirs, Stopping(e)
        PROVE  ChannelStep(d)
    <2>1. PICK r \in {"eof", "timeout", "error"} :
            /\ pump[e] \in {"recv", "send"} /\ why' = [why EXCEPT ![e] = r]
            /\ r = "eof" => pump[e] = "recv" /\ read[e] = sent[e] /\ fin[e]
            /\ UNCHANGED <<tls, sent, fin, got, layer>>
      BY <1>5 DEF Stopping, RecvEof, RecvTimeout, Resets, Fails, DrainTimeout, Stop
    <2>2. CASE e = d
      <3>1. End(d) = "none" /\ why'[d] = r
        BY <1>0, <2>1, <2>2 DEF Holding, End, TypeOK
      <3>2. CASE r = "eof"
        <4>1. Len(got[d]) = sent[d]
          BY <1>0, <2>1, <2>2, <3>2 DEF Holding
        <4>2. QED
          BY <2>1, <2>2, <3>1, <3>2, <4>1 DEF ChannelStep, View, End, Secure
      <3>3. CASE r # "eof"
        BY <2>1, <3>1, <3>3 DEF ChannelStep, View, End, Secure
      <3>4. QED
        BY <3>2, <3>3
    <2>3. CASE e # d
      BY <1>0, <1>1, <2>1, <2>3 DEF TypeOK
    <2>4. QED
      BY <2>2, <2>3
  <1>6. ASSUME NEW e \in Dirs, SendAll(e)
        PROVE  ChannelStep(d)
    <2>1. /\ pump[e] = "send" /\ got' = [got EXCEPT ![e] = Append(got[e], hand[e])]
          /\ UNCHANGED <<tls, sent, fin, why, layer>>
      BY <1>6 DEF SendAll
    <2>2. CASE e = d
      <3>1. End(d) = "none" /\ hand[d] # 0 /\ got'[d] = Append(got[d], hand[d])
        BY <1>0, <2>1, <2>2 DEF Holding, End, TypeOK
      <3>2. Len(got[d]) = read[d] - 1 /\ Len(got[d]) < sent[d]
        BY <1>0, <3>1 DEF Holding
      <3>3. hand[d] = Len(got[d]) + 1 \/ (hand[d] = Cipher /\ ~Secure(d))
        BY <1>0, <3>1, <3>2 DEF Decrypted, Secure
      <3>4. View(d)' = <<sent[d], fin[d], Append(got[d], hand[d]), End(d), Secure(d)>>
        BY <2>1, <3>1 DEF View, End, Secure
      <3>5. QED
        BY <3>1, <3>2, <3>3, <3>4 DEF ChannelStep
    <2>3. CASE e # d
      BY <1>0, <1>1, <2>1, <2>3 DEF TypeOK
    <2>4. QED
      BY <2>2, <2>3
  <1>7. ASSUME NEW e \in Dirs, Shut(e)
        PROVE  ChannelStep(d)
    <2>1. UNCHANGED <<tls, sent, fin, got, why>>
      BY <1>7 DEF Shut
    <2>2. layer'[Src(d)] = layer[Src(d)] \/ layer'[Src(d)] = FALSE
      BY <1>0, <1>7 DEF Shut, TypeOK
    <2>3. Secure(d)' = Secure(d) \/ Secure(d)' = FALSE
      BY <1>0, <2>1, <2>2 DEF Secure
    <2>4. QED
      BY <2>1, <2>3 DEF ChannelStep, View, End
  <1>8. CASE Leave \/ UNCHANGED vars
    BY <1>1, <1>8 DEF Leave, vars
  <1>9. ASSUME NEW e \in Dirs, RecvAlert(e)
        PROVE  ChannelStep(d)
    <2>1. UNCHANGED <<tls, fin, got, why, layer>> /\ pump[e] = "recv" /\ alert[e] /\ ~via[e]
      BY <1>9 DEF RecvAlert
    <2>2. CASE e = d
      <3>1. End(d) = "none" /\ ~Secure(d) /\ sent'[d] = sent[d] + 1
        BY <1>0, <1>9, <2>1, <2>2 DEF RecvAlert, Holding, Decrypted, End, Secure, TypeOK
      <3>2. QED
        BY <2>1, <3>1 DEF ChannelStep, View, End, Secure
    <2>3. CASE e # d
      BY <1>0, <1>1, <1>9, <2>1, <2>3 DEF RecvAlert, TypeOK
    <2>4. QED
      BY <2>2, <2>3
  <1>10. ASSUME NEW e \in Dirs, Take(e)
         PROVE  ChannelStep(d)
    <2>1. UNCHANGED <<tls, fin, why, layer>> /\ got[e] # <<>>
      BY <1>10 DEF Take
    <2>2. CASE e = d
      <3>1. /\ sent'[d] = sent[d] - 1
            /\ got'[d] = [i \in 1..Len(got[d]) - 1 |->
                            IF got[d][i + 1] \in {0, Cipher} THEN got[d][i + 1]
                                                            ELSE got[d][i + 1] - 1]
        BY <1>0, <1>10, <2>2 DEF Take, Renumber, TypeOK
      <3>2. QED
        BY <2>1, <2>2, <3>1 DEF ChannelStep, View, End, Secure
    <2>3. CASE e # d
      BY <1>0, <1>1, <1>10, <2>1, <2>3 DEF Take, TypeOK
    <2>4. QED
      BY <2>2, <2>3
  <1>11. QED
    BY <1>2, <1>3, <1>4, <1>5, <1>6, <1>7, <1>8, <1>9, <1>10 DEF Next, Pump, Stopping

\* Both directions keep a channel's promise at once, for any room between the ends,
\* plain or TLS (terminate.py:302-319).
THEOREM RelayIsChannels == Spec => ImplementsChannels
  <1>1. Init => UpChannel!Init /\ DownChannel!Init
    <2>1. ASSUME Init
          PROVE  \A d \in Dirs : /\ sent[d] = 0 /\ fin[d] = FALSE /\ got[d] = <<>>
                                 /\ End(d) = "none" /\ Secure(d) = TRUE
      BY <2>1, Basics DEF Init, End, Secure
    <2>2. QED
      BY <2>1 DEF UpChannel!Init, DownChannel!Init, Dirs
  <1>2. ChannelStep("up") => [UpChannel!Next]_(UpChannel!vars)
    BY DEF ChannelStep, View, UpChannel!Next, UpChannel!vars, UpChannel!Send,
           UpChannel!Close, UpChannel!Take, UpChannel!Stray, UpChannel!Deliver, UpChannel!EndClean, UpChannel!Cut,
           UpChannel!Expose
  <1>3. ChannelStep("down") => [DownChannel!Next]_(DownChannel!vars)
    BY DEF ChannelStep, View, DownChannel!Next, DownChannel!vars, DownChannel!Send,
           DownChannel!Close, DownChannel!Take, DownChannel!Stray, DownChannel!Deliver, DownChannel!EndClean, DownChannel!Cut,
           DownChannel!Expose
  <1>4. RInv /\ [Next]_vars => /\ [UpChannel!Next]_(UpChannel!vars)
                              /\ [DownChannel!Next]_(DownChannel!vars)
    BY <1>2, <1>3, DirectionStep DEF Dirs
  <1>5. QED
    BY <1>1, <1>4, RInductive, PTL
       DEF Spec, ImplementsChannels, UpChannel!Spec, DownChannel!Spec

\* A pump whose source sends nothing more runs out of steps, and none is lost to the
\* other pump, the other end or the leaving handler: what RelayEnds rests on
\* (terminate.py:302-319).
THEOREM PumpsRunOut == Spec => PumpsAdvance
  <1> DEFINE Advance ==
        \A d \in Dirs : /\ Pump(d) => PumpLeft(d)' < PumpLeft(d)
                        /\ Send(d) \/ Close(d) \/ PumpLeft(d)' <= PumpLeft(d)
  <1>1. RInv /\ [Next]_vars => [Advance]_vars
    <2> SUFFICES ASSUME RInv, Next, NEW d \in Dirs
                 PROVE  /\ Pump(d) => PumpLeft(d)' < PumpLeft(d)
                        /\ Send(d) \/ Close(d) \/ PumpLeft(d)' <= PumpLeft(d)
      OBVIOUS
    <2>1. /\ read[d] \in Nat /\ sent[d] \in Nat /\ alert[d] \in BOOLEAN
          /\ (read[d] \in Nat)' /\ (sent[d] \in Nat)' /\ (alert[d] \in BOOLEAN)'
      BY RTypeStep DEF RInv, TypeOK
    <2>2. PumpLeft(d) \in Int /\ PumpLeft(d)' \in Int
      BY <2>1 DEF PumpLeft
    <2>3. ASSUME UNCHANGED <<sent[d], read[d], alert[d]>>,
                 \/ pump[d] = "recv" /\ pump'[d] = "shut"
                 \/ pump[d] = "send" /\ pump'[d] \in {"shut", "recv"}
                 \/ pump[d] = "shut" /\ pump'[d] = "done"
          PROVE  PumpLeft(d)' < PumpLeft(d)
      BY <2>1, <2>3 DEF PumpLeft
    <2>4. ASSUME Pump(d)
          PROVE  PumpLeft(d)' < PumpLeft(d)
      <3>1. CASE Recv(d)
        <4>1. /\ pump[d] = "recv" /\ pump'[d] = "send"
              /\ read'[d] = read[d] + 1 /\ UNCHANGED <<sent[d], alert[d]>>
          BY <3>1 DEF Recv, RInv, TypeOK
        <4>2. QED
          BY <2>1, <4>1 DEF PumpLeft
      <3>2. CASE RecvAlert(d)
        <4>1. /\ pump[d] = "recv" /\ pump'[d] = "send"
              /\ read'[d] = read[d] + 1 /\ sent'[d] = sent[d] + 1
              /\ alert[d] /\ ~alert'[d]
          BY <3>2 DEF RecvAlert, RInv, TypeOK
        <4>2. QED
          BY <2>1, <4>1 DEF PumpLeft
      <3>3. CASE Stopping(d) \/ SendAll(d) \/ Shut(d)
        <4>1. UNCHANGED <<sent[d], read[d], alert[d]>>
          BY <3>3 DEF Stopping, RecvEof, RecvTimeout, Resets, Fails, DrainTimeout, SendAll, Shut
        <4>2. \/ pump[d] = "recv" /\ pump'[d] = "shut"
              \/ pump[d] = "send" /\ pump'[d] \in {"shut", "recv"}
              \/ pump[d] = "shut" /\ pump'[d] = "done"
          BY <3>3 DEF Stopping, RecvEof, RecvTimeout, Resets, Fails, DrainTimeout, SendAll, Shut,
                      Stop, RInv, TypeOK
        <4>3. QED
          BY <2>3, <4>1, <4>2
      <3>4. QED
        BY <2>4, <3>1, <3>2, <3>3 DEF Pump, Stopping
    <2>5. ASSUME Take(d)
          PROVE  PumpLeft(d)' = PumpLeft(d)
      <3>1. /\ sent'[d] = sent[d] - 1 /\ read'[d] = read[d] - 1
            /\ UNCHANGED <<alert[d], pump[d]>>
        BY <2>5 DEF Take, RInv, TypeOK
      <3>2. sent'[d] - read'[d] = sent[d] - read[d]
        BY <2>1, <3>1
      <3>3. QED
        BY <2>1, <3>1, <3>2 DEF PumpLeft
    <2>6. ASSUME Resets(d)
          PROVE  PumpLeft(d)' < PumpLeft(d)
      <3>1. /\ UNCHANGED <<sent[d], read[d], alert[d]>>
            /\ pump[d] \in {"recv", "send"} /\ pump'[d] = "shut"
        BY <2>6 DEF Resets, Stop, RInv, TypeOK
      <3>2. QED
        BY <2>3, <3>1
    <2>7. ASSUME NEW e \in Dirs \ {d},
                 Send(e) \/ Close(e) \/ Take(e) \/ Resets(e) \/ Pump(e)
          PROVE  PumpLeft(d)' = PumpLeft(d)
      <3>1. UNCHANGED <<sent[d], read[d], alert[d], pump[d]>>
        BY <2>7 DEF Send, Close, Take, Resets, Pump, Recv, RecvAlert, RecvEof, RecvTimeout,
                    SendAll, Fails, DrainTimeout, Shut, Stop, RInv, TypeOK
      <3>2. QED
        BY <3>1 DEF PumpLeft
    <2>8. CASE Leave
      <3>1. PumpLeft(d)' = PumpLeft(d)
        BY <2>8 DEF Leave, PumpLeft
      <3>2. QED
        BY <2>2, <2>4, <3>1
    <2>9. CASE Send(d) \/ Close(d)
      BY <2>4, <2>9
    <2>10. CASE \E e \in Dirs \ {d} : Send(e) \/ Close(e) \/ Take(e) \/ Resets(e) \/ Pump(e)
      BY <2>2, <2>4, <2>7, <2>10
    <2>11. QED
      BY <2>2, <2>4, <2>5, <2>6, <2>8, <2>9, <2>10 DEF Next
  <1>2. QED
    BY <1>1, RInductive, PTL DEF Spec, PumpsAdvance
=============================================================================
