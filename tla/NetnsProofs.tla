---------------------------- MODULE NetnsProofs ----------------------------
(***************************************************************************)
(* Theorems about Netns, for any number of sandboxes, rules, packets and    *)
(* commands that fail.                                                      *)
(***************************************************************************)
EXTENDS Netns, FiniteSetTheorems, SequenceTheorems, TLAPS

USE NetnsAssumption

-----------------------------------------------------------------------------
(* What is needed of counting and of sequences.                            *)

\* The positions up to n at which a sequence holds k.
At(s, n, k) == {i \in 1..n : s[i] = k}

LEMMA CountType ==
  ASSUME NEW s, NEW n \in Nat, NEW k
  PROVE  IsFiniteSet(At(s, n, k)) /\ Cardinality(At(s, n, k)) \in Nat
  <1>1. IsFiniteSet(1..n)
    BY FS_Interval
  <1>2. IsFiniteSet(At(s, n, k))
    BY <1>1, FS_Subset DEF At
  <1>3. QED
    BY <1>2, FS_CardinalityType

\* The last position counts if it holds k.
LEMMA CountLast ==
  ASSUME NEW s, NEW n \in Nat, NEW k
  PROVE  Cardinality(At(s, n + 1, k)) =
           IF s[n + 1] = k THEN Cardinality(At(s, n, k)) + 1 ELSE Cardinality(At(s, n, k))
  <1>1. 1..(n + 1) = 1..n \cup {n + 1}
    OBVIOUS
  <1>2. CASE s[n + 1] = k
    <2>1. At(s, n + 1, k) = At(s, n, k) \cup {n + 1}
      BY <1>1, <1>2 DEF At
    <2>2. n + 1 \notin At(s, n, k)
      BY DEF At
    <2>3. QED
      BY <1>2, <2>1, <2>2, CountType, FS_AddElement
  <1>3. CASE s[n + 1] # k
    <2>1. At(s, n + 1, k) = At(s, n, k)
      BY <1>1, <1>3 DEF At
    <2>2. QED
      BY <1>3, <2>1
  <1>4. QED
    BY <1>2, <1>3

\* Counting further finds no fewer.
LEMMA CountGrows ==
  ASSUME NEW s, NEW m \in Nat, NEW n \in Nat, m <= n, NEW k
  PROVE  Cardinality(At(s, m, k)) <= Cardinality(At(s, n, k))
  <1>1. At(s, m, k) \subseteq At(s, n, k)
    BY DEF At
  <1>2. QED
    BY <1>1, CountType, FS_Subset

\* A rule that is recorded is there to be counted.
LEMMA CountAppended ==
  ASSUME NEW s \in Seq(Kinds), NEW x \in Kinds, NEW k
  PROVE  /\ Append(s, x) \in Seq(Kinds) /\ Len(Append(s, x)) = Len(s) + 1
         /\ Cardinality(At(Append(s, x), Len(s) + 1, k)) =
              IF x = k THEN Cardinality(At(s, Len(s), k)) + 1
                       ELSE Cardinality(At(s, Len(s), k))
  <1>1. PICK n \in Nat : n = Len(s)
    OBVIOUS
  <1>2. PICK t : t = Append(s, x)
    OBVIOUS
  <1>3. /\ t \in Seq(Kinds) /\ Len(t) = n + 1 /\ t[n + 1] = x
        /\ \A i \in 1..n : t[i] = s[i]
    BY <1>1, <1>2, AppendProperties
  <1>4. At(t, n, k) = At(s, n, k)
    BY <1>3 DEF At
  <1>5. Cardinality(At(t, n + 1, k)) =
          IF t[n + 1] = k THEN Cardinality(At(t, n, k)) + 1 ELSE Cardinality(At(t, n, k))
    BY CountLast
  <1>6. QED
    BY <1>1, <1>2, <1>3, <1>4, <1>5

\* A packet leaves as many rules as there were.
LEMMA Bumped ==
  ASSUME NEW s \in Seq(Nat)
  PROVE  LET t == [i \in DOMAIN s |-> s[i] + 1]
         IN  t \in Seq(Nat) /\ Len(t) = Len(s)
  <1>1. DOMAIN s = 1..Len(s) /\ Len(s) \in Nat
    OBVIOUS
  <1>2. \A i \in 1..Len(s) : s[i] + 1 \in Nat
    OBVIOUS
  <1>3. QED
    BY <1>1, <1>2

LEMMA CommandsBuilt == Len(CreateOrder) = 9 /\ CreateOrder \in Seq(Commands)
  BY DEF CreateOrder, Commands

-----------------------------------------------------------------------------
(* The conjuncts of NInv hold initially and are kept by every step.          *)

LEMMA Basics ==
  /\ Runs \in Nat /\ MaxRules \in Nat /\ MaxSent \in Nat /\ MaxFaults \in Nat
  /\ <<>> \in Seq(Kinds) /\ <<>> \in Seq(Nat) /\ Len(<<>>) = 0
  BY DEF NetnsAssumption

LEMMA NInit == Init => NInv
  <1> SUFFICES ASSUME Init PROVE NInv
    OBVIOUS
  <1>1. TypeOK
    <2>1. mine \in Seq(Kinds) /\ rules \in [Kinds -> Seq(Nat)]
      BY Basics DEF Init
    <2>2. run \in 0..Runs /\ sent \in 0..MaxSent /\ faults \in 0..MaxFaults /\ undoFaults \in 0..MaxFaults
      BY Basics DEF Init
    <2>3. QED
      BY <2>1, <2>2 DEF Init, TypeOK
  <1>2. CallInv
    BY DEF Init, CallInv
  <1>3. RulesInv
    <2>1. ASSUME NEW k \in Kinds
          PROVE  Len(rules[k]) = 0 /\ Len(mine) = 0
      BY DEF Init
    <2>2. \A k \in Kinds : Entries(0, k) = {}
      BY DEF Entries
    <2>3. QED
      BY <2>1, <2>2, FS_EmptySet DEF Init, RulesInv
  <1>4. CountInv
    BY DEF Init, CountInv, Counted, Kinds
  <1>5. BuiltInv
    BY DEF Init, BuiltInv, CreateInOrder, Running
  <1>6. QED
    BY <1>1, <1>2, <1>3, <1>4, <1>5 DEF NInv

\* A command that fails is one more fault, of destroy() or not.
LEMMA FaultType ==
  /\ TypeOK /\ CallInv /\ Fault => faults' \in 0..MaxFaults /\ faults' = faults + 1
  /\ TypeOK /\ CallInv /\ UndoFault =>
       /\ faults' \in 0..MaxFaults /\ undoFaults' \in 0..MaxFaults
       /\ faults' = faults + 1 /\ undoFaults' = undoFaults + 1
  BY DEF TypeOK, CallInv, Fault, UndoFault

LEMMA AppendedType ==
  ASSUME TypeOK, NEW k \in Kinds
  PROVE  Appended(k) \in [Kinds -> Seq(Nat)]
  BY DEF TypeOK, Appended

\* A call that adds rules records one at a time, and adds it or fails.
LEMMA OneRule ==
  ASSUME TypeOK, CallInv, AddRules \/ DropForwarded
  PROVE  /\ Running /\ call' \in {"none", "drop"}
         /\ \E k \in Kinds : mine' = Append(mine, k) /\ rules' \in {rules, Appended(k)}
         /\ UNCHANGED <<run, next, created, built, sent, tripped, cut, undoFaults>>
         /\ faults' = faults \/ Fault
  BY DEF AddRules, DropForwarded, AddRule, Kinds, Running, CallInv

LEMMA TypeStep == TypeOK /\ CallInv /\ [Next]_vars => TypeOK'
  <1> SUFFICES ASSUME TypeOK, CallInv, [Next]_vars
               PROVE  TypeOK'
    OBVIOUS
  <1> USE DEF TypeOK
  <1>1. CASE Create
    <2>1. mine' \in Seq(Kinds) /\ run' \in 0..Runs /\ sent' \in 0..MaxSent /\ next' \in Nat
      BY <1>1, Basics DEF Create
    <2>2. QED
      BY <1>1, <2>1 DEF Create
  <1>2. CASE CreateCommand
    <2>1. next \in 1..9
      BY <1>2, CommandsBuilt DEF CreateCommand, CallInv
    <2>2. CreateOrder[next] \in Commands
      BY <2>1, CommandsBuilt DEF Commands
    <2>3. built' \subseteq Commands /\ faults' \in 0..MaxFaults
      BY <1>2, <2>2, FaultType DEF CreateCommand
    <2>4. QED
      BY <1>2, <2>3 DEF CreateCommand
  <1>3. CASE Created
    BY <1>3 DEF Created
  <1>4. CASE AddRules \/ DropForwarded
    <2>1. PICK k \in Kinds : mine' = Append(mine, k) /\ rules' \in {rules, Appended(k)}
      BY <1>4, OneRule
    <2>2. mine' \in Seq(Kinds) /\ rules' \in [Kinds -> Seq(Nat)]
      BY <2>1, AppendedType, CountAppended
    <2>3. faults' \in 0..MaxFaults
      BY <1>4, OneRule, FaultType
    <2>4. QED
      BY <1>4, <2>2, <2>3, OneRule
  <1>5. CASE Destroy
    BY <1>5 DEF Destroy
  <1>6. CASE DeleteRule
    <2>1. next' \in Nat
      BY <1>6 DEF DeleteRule
    <2>2. rules' \in [Kinds -> Seq(Nat)]
      <3>1. \/ rules' = rules
            \/ /\ rules[mine[next]] # <<>>
               /\ rules' = [rules EXCEPT ![mine[next]] = Tail(rules[mine[next]])]
        BY <1>6 DEF DeleteRule
      <3>2. \A k \in Kinds : rules[k] # <<>> => Tail(rules[k]) \in Seq(Nat)
        OBVIOUS
      <3>3. QED
        BY <3>1, <3>2
    <2>3. faults' \in 0..MaxFaults /\ undoFaults' \in 0..MaxFaults
      BY <1>6, FaultType DEF DeleteRule
    <2>4. QED
      BY <1>6, <2>1, <2>2, <2>3 DEF DeleteRule
  <1>7. CASE DeleteNetns
    <2>1. faults' \in 0..MaxFaults /\ undoFaults' \in 0..MaxFaults /\ built' \subseteq Commands
      BY <1>7, FaultType DEF DeleteNetns
    <2>2. QED
      BY <1>7, <2>1 DEF DeleteNetns
  <1>8. CASE DeleteLink
    <2>1. faults' \in 0..MaxFaults /\ undoFaults' \in 0..MaxFaults /\ built' \subseteq Commands
      BY <1>8, FaultType DEF DeleteLink
    <2>2. QED
      BY <1>8, <2>1 DEF DeleteLink
  <1>9. CASE Sever
    BY <1>9 DEF Sever
  <1>10. CASE SendNonTcp
    <2>1. rules' \in [Kinds -> Seq(Nat)]
      BY <1>10, Bumped DEF SendNonTcp, Kinds
    <2>2. QED
      BY <1>10, <2>1 DEF SendNonTcp
  <1>11. CASE Poll
    BY <1>11 DEF Poll
  <1>12. CASE UNCHANGED vars
    BY <1>12 DEF vars
  <1>13. QED
    BY <1>1, <1>2, <1>3, <1>4, <1>5, <1>6, <1>7, <1>8, <1>9, <1>10, <1>11, <1>12 DEF Next

LEMMA CallStep == TypeOK /\ CallInv /\ [Next]_vars => CallInv'
  <1> SUFFICES ASSUME TypeOK, CallInv, [Next]_vars
               PROVE  CallInv'
    OBVIOUS
  <1> USE DEF TypeOK, CallInv
  <1>1. CASE Create
    BY <1>1, CommandsBuilt DEF Create
  <1>2. CASE CreateCommand
    <2>1. undoFaults' <= faults'
      BY <1>2, FaultType DEF CreateCommand
    <2>2. call' = "create" /\ next' \in 1..10
      BY <1>2, CommandsBuilt DEF CreateCommand
    <2>3. QED
      BY <1>2, <2>1, <2>2, CommandsBuilt DEF CreateCommand
  <1>3. CASE Created
    BY <1>3 DEF Created
  <1>4. CASE AddRules \/ DropForwarded
    <2>1. undoFaults' <= faults'
      BY <1>4, OneRule, FaultType
    <2>2. call' \in {"none", "drop"} /\ created'
      BY <1>4, OneRule DEF Running
    <2>3. QED
      BY <2>1, <2>2
  <1>5. CASE Destroy
    BY <1>5 DEF Destroy
  <1>6. CASE DeleteRule
    <2>1. undoFaults' <= faults'
      BY <1>6, FaultType DEF DeleteRule
    <2>2. QED
      BY <1>6, <2>1 DEF DeleteRule
  <1>7. CASE DeleteNetns
    <2>1. undoFaults' <= faults'
      BY <1>7, FaultType DEF DeleteNetns
    <2>2. QED
      BY <1>7, <2>1 DEF DeleteNetns
  <1>8. CASE DeleteLink
    <2>1. undoFaults' <= faults'
      BY <1>8, FaultType DEF DeleteLink
    <2>2. QED
      BY <1>8, <2>1 DEF DeleteLink
  <1>9. CASE Sever \/ SendNonTcp \/ Poll \/ UNCHANGED vars
    BY <1>9 DEF Sever, SendNonTcp, Poll, vars
  <1>10. QED
    BY <1>1, <1>2, <1>3, <1>4, <1>5, <1>6, <1>7, <1>8, <1>9 DEF Next

\* Tail takes one rule away, or fails and leaves one more trace of it.
LEMMA RulesStep == TypeOK /\ CallInv /\ RulesInv /\ [Next]_vars => RulesInv'
  <1> SUFFICES ASSUME TypeOK, CallInv, RulesInv, [Next]_vars, NEW k \in Kinds
               PROVE  (Len(rules[k]) <=
                        Cardinality(Entries(IF call = "destroy" THEN next ELSE Len(mine), k))
                          + undoFaults)'
    BY DEF RulesInv
  <1> DEFINE Count(n) == Cardinality(At(mine, n, k))
             upto == IF call = "destroy" THEN next ELSE Len(mine)
  <1>0. /\ rules[k] \in Seq(Nat) /\ Len(rules[k]) \in Nat
        /\ mine \in Seq(Kinds) /\ Len(mine) \in Nat /\ next \in Nat /\ upto \in Nat
        /\ undoFaults \in Nat
    BY Basics DEF TypeOK
  <1>1. Count(upto) \in Nat /\ Len(rules[k]) <= Count(upto) + undoFaults
    <2>1. Count(upto) \in Nat
      BY <1>0, CountType
    <2>2. Entries(upto, k) = At(mine, upto, k)
      BY DEF Entries, At
    <2>3. QED
      BY <2>1, <2>2 DEF RulesInv
  <1>2. Entries(0, k)' = {} /\ Cardinality({}) = 0
    BY FS_EmptySet DEF Entries
  <1>3. ASSUME UNCHANGED <<rules, mine, undoFaults>>, call' # "destroy", call # "destroy"
        PROVE  (Len(rules[k]) <= Cardinality(Entries(Len(mine), k)) + undoFaults)'
    BY <1>1, <1>3 DEF Entries, At
  <1>4. CASE Create
    <2>1. mine = <<>>
      BY <1>4 DEF Create, CallInv
    <2>2. QED
      BY <1>3, <1>4, <2>1 DEF Create
  <1>5. CASE CreateCommand \/ Created
    BY <1>3, <1>5 DEF CreateCommand, Created
  <1>6. CASE AddRules \/ DropForwarded
    <2>1. PICK x \in Kinds : mine' = Append(mine, x) /\ rules' \in {rules, Appended(x)}
      BY <1>6, OneRule
    <2>2. /\ Len(mine') = Len(mine) + 1
          /\ Cardinality(At(mine', Len(mine'), k)) =
               IF x = k THEN Count(Len(mine)) + 1 ELSE Count(Len(mine))
      BY <1>0, <2>1, CountAppended
    <2>3. call # "destroy" /\ call' # "destroy" /\ undoFaults' = undoFaults
      BY <1>6, OneRule DEF Running
    <2>4. Len(rules'[k]) = Len(rules[k]) \/ (x = k /\ Len(rules'[k]) = Len(rules[k]) + 1)
      <3>1. rules'[k] = rules[k] \/ (x = k /\ rules'[k] = Append(rules[k], 0))
        BY <2>1 DEF Appended, TypeOK
      <3>2. Len(Append(rules[k], 0)) = Len(rules[k]) + 1
        BY <1>0, AppendProperties
      <3>3. QED
        BY <3>1, <3>2
    <2>5. Len(rules'[k]) <= Cardinality(At(mine', Len(mine'), k)) + undoFaults'
      <3>1. PICK n : n = Count(Len(mine))
        OBVIOUS
      <3>2. n \in Nat /\ Len(rules[k]) <= n + undoFaults
        BY <1>1, <2>3, <3>1
      <3>3. PICK m : m = Cardinality(At(mine', Len(mine'), k))
        OBVIOUS
      <3>4. m = IF x = k THEN n + 1 ELSE n
        BY <2>2, <3>1, <3>3
      <3>5. Len(rules'[k]) <= m + undoFaults'
        BY <1>0, <2>3, <2>4, <3>2, <3>4
      <3>6. QED
        BY <3>3, <3>5
    <2>6. QED
      BY <2>3, <2>5 DEF Entries, At
  <1>7. CASE Destroy
    BY <1>1, <1>7 DEF Destroy, Entries, At
  <1>8. CASE DeleteRule
    <2>1. /\ call = "destroy" /\ call' = "destroy" /\ mine' = mine /\ next' \in Nat
          /\ next = next' + 1
      BY <1>0, <1>8 DEF DeleteRule
    <2>2. Count(next' + 1) = IF mine[next' + 1] = k THEN Count(next') + 1 ELSE Count(next')
      BY <2>1, CountLast
    <2>3. Count(next') \in Nat
      BY <2>1, CountType
    <2>4. \/ Len(rules'[k]) = Len(rules[k]) /\ mine[next] # k /\ undoFaults' = undoFaults
          \/ Len(rules'[k]) <= Len(rules[k]) - 1 /\ Len(rules'[k]) \in Nat
              /\ undoFaults' = undoFaults
          \/ Len(rules[k]) = 0 /\ rules' = rules /\ undoFaults' = undoFaults
          \/ rules' = rules /\ undoFaults' = undoFaults + 1
      <3>1. CASE mine[next] # k
        BY <1>8, <3>1, FaultType DEF DeleteRule, TypeOK
      <3>2. CASE mine[next] = k
        BY <1>0, <1>8, <3>2, FaultType DEF DeleteRule, TypeOK
      <3>3. QED
        BY <3>1, <3>2
    <2>5. Len(rules'[k]) <= Count(next') + undoFaults'
      <3>1. upto = next' + 1
        BY <2>1
      <3>2. Len(rules[k]) <= Count(next' + 1) + undoFaults
        BY <1>1, <3>1
      <3>3. Count(next') <= Count(next' + 1) /\ Count(next' + 1) <= Count(next') + 1
        BY <2>2, <2>3
      <3>4. Count(next' + 1) \in Nat
        BY <2>2, <2>3
      <3>5. mine[next] # k => Count(next' + 1) = Count(next')
        BY <2>1, <2>2
      <3>6. CASE Len(rules'[k]) = Len(rules[k]) /\ mine[next] # k /\ undoFaults' = undoFaults
        BY <1>0, <2>3, <3>2, <3>4, <3>5, <3>6
      <3>7. CASE Len(rules'[k]) <= Len(rules[k]) - 1 /\ Len(rules'[k]) \in Nat
                   /\ undoFaults' = undoFaults
        BY <1>0, <2>3, <3>2, <3>3, <3>4, <3>7
      <3>8. CASE Len(rules[k]) = 0 /\ rules' = rules /\ undoFaults' = undoFaults
        BY <1>0, <2>3, <3>8
      <3>9. CASE rules' = rules /\ undoFaults' = undoFaults + 1
        BY <1>0, <2>3, <3>2, <3>3, <3>4, <3>9
      <3>10. QED
        BY <2>4, <3>6, <3>7, <3>8, <3>9
    <2>6. QED
      BY <2>1, <2>5 DEF Entries, At
  <1>9. CASE DeleteNetns
    <2>1. call = "destroy" /\ next = 0 /\ call' = "links" /\ mine' = <<>> /\ rules' = rules
      BY <1>9 DEF DeleteNetns
    <2>2. undoFaults <= undoFaults' /\ undoFaults' \in Nat
      BY <1>0, <1>9, FaultType DEF DeleteNetns
    <2>3. Len(rules[k]) <= undoFaults
      <3>1. upto = 0
        BY <2>1
      <3>2. Count(upto) = 0
        <4>1. At(mine, 0, k) = {}
          BY DEF At
        <4>2. QED
          BY <1>2, <3>1, <4>1
      <3>3. QED
        BY <1>0, <1>1, <3>2
    <2>4. upto' = 0
      BY <2>1, Basics
    <2>5. Cardinality(Entries(upto, k))' = 0
      BY <1>2, <2>4
    <2>6. Len(rules[k])' <= 0 + undoFaults'
      BY <1>0, <2>1, <2>2, <2>3
    <2>7. QED
      BY <2>5, <2>6
  <1>10. CASE DeleteLink
    <2>1. call = "links" /\ call' = "none" /\ mine' = mine /\ rules' = rules
      BY <1>10 DEF DeleteLink
    <2>2. undoFaults <= undoFaults' /\ undoFaults' \in Nat
      BY <1>0, <1>10, FaultType DEF DeleteLink
    <2>3. Len(rules'[k]) <= Cardinality(At(mine', Len(mine'), k)) + undoFaults'
      BY <1>0, <1>1, <2>1, <2>2
    <2>4. QED
      BY <2>1, <2>3 DEF Entries, At
  <1>11. CASE Sever \/ Poll \/ UNCHANGED vars
    BY <1>1, <1>11 DEF Sever, Poll, vars, Entries, At
  <1>12. CASE SendNonTcp
    <2>1. Len(rules'[k]) = Len(rules[k])
      BY <1>0, <1>12, Bumped DEF SendNonTcp, TypeOK
    <2>2. UNCHANGED <<call, next, mine, undoFaults>>
      BY <1>12 DEF SendNonTcp
    <2>3. QED
      BY <1>1, <2>1, <2>2 DEF Entries, At
  <1>13. QED
    BY <1>4, <1>5, <1>6, <1>7, <1>8, <1>9, <1>10, <1>11, <1>12 DEF Next

\* Neither a new rule nor one taken away makes a counter positive.
LEMMA StillZero ==
  ASSUME NEW s \in Seq(Nat), \A i \in DOMAIN s : ~(s[i] > 0)
  PROVE  /\ \A i \in DOMAIN Append(s, 0) : ~(Append(s, 0)[i] > 0)
         /\ s # <<>> => \A i \in DOMAIN Tail(s) : ~(Tail(s)[i] > 0)
  <1>1. \A i \in 1..Len(s) : ~(s[i] > 0)
    OBVIOUS
  <1>2. \A i \in DOMAIN Append(s, 0) : ~(Append(s, 0)[i] > 0)
    BY <1>1, AppendProperties
  <1>3. ASSUME s # <<>>
        PROVE  \A i \in DOMAIN Tail(s) : ~(Tail(s)[i] > 0)
    BY <1>1, <1>3, HeadTailProperties
  <1>4. QED
    BY <1>2, <1>3

\* Counters above zero are of this sandbox, unless a rule of an earlier one stayed.
LEMMA CountStep == NInv /\ [Next]_vars => CountInv'
  <1> SUFFICES ASSUME NInv, [Next]_vars, undoFaults' = 0, Counted' \/ tripped'
               PROVE  sent' > 0
    BY DEF CountInv
  <1>0. /\ TypeOK /\ CallInv /\ RulesInv /\ CountInv
        /\ rules["count"] \in Seq(Nat) /\ "count" \in Kinds
        /\ undoFaults \in Nat /\ sent \in Nat
    BY Basics DEF NInv, TypeOK, Kinds
  <1>1. ASSUME UNCHANGED <<sent, undoFaults>>, Counted' => Counted, tripped' => tripped \/ Counted
        PROVE  sent' > 0
    BY <1>0, <1>1 DEF CountInv
  <1>2. CASE Create
    <2>1. undoFaults = 0 /\ mine = <<>> /\ ~tripped' /\ rules' = rules /\ call = "none"
      BY <1>0, <1>2 DEF Create, CallInv
    <2>2. Len(rules["count"]) <= Cardinality(Entries(0, "count")) + 0
      BY <1>0, <2>1, Basics DEF RulesInv
    <2>3. Entries(0, "count") = {}
      BY DEF Entries
    <2>4. Len(rules["count"]) = 0
      <3>1. Cardinality(Entries(0, "count")) = 0
        BY <2>3, FS_EmptySet
      <3>2. Len(rules["count"]) \in Nat
        BY <1>0
      <3>3. QED
        BY <2>2, <3>1, <3>2
    <2>5. ~Counted'
      BY <1>0, <2>1, <2>4 DEF Counted
    <2>6. QED
      BY <2>1, <2>5
  <1>3. CASE CreateCommand \/ Created \/ Destroy \/ Sever \/ Poll \/ UNCHANGED vars
    <2>1. /\ UNCHANGED <<rules, sent, undoFaults>>
          /\ tripped' = tripped \/ tripped' = (tripped \/ Counted)
      BY <1>3 DEF CreateCommand, Created, Destroy, Sever, Poll, vars
    <2>2. Counted' => Counted
      BY <2>1 DEF Counted
    <2>3. QED
      BY <1>1, <2>1, <2>2
  <1>4. CASE AddRules \/ DropForwarded
    <2>1. PICK k \in Kinds : rules' \in {rules, Appended(k)}
      BY <1>0, <1>4, OneRule
    <2>2. rules'["count"] \in {rules["count"], Append(rules["count"], 0)}
      BY <1>0, <2>1 DEF Appended, TypeOK
    <2>3. Counted' => Counted
      BY <1>0, <2>2, StillZero DEF Counted
    <2>4. QED
      BY <1>0, <1>1, <1>4, <2>3, OneRule
  <1>5. CASE DeleteRule
    <2>1. undoFaults' = undoFaults
      BY <1>0, <1>5, FaultType DEF DeleteRule
    <2>2. \/ rules'["count"] = rules["count"]
          \/ rules["count"] # <<>> /\ rules'["count"] = Tail(rules["count"])
      BY <1>0, <1>5 DEF DeleteRule, TypeOK
    <2>3. Counted' => Counted
      BY <1>0, <2>2, StillZero DEF Counted
    <2>4. QED
      BY <1>1, <1>5, <2>1, <2>3 DEF DeleteRule
  <1>6. CASE DeleteNetns \/ DeleteLink
    <2>1. undoFaults' = undoFaults
      BY <1>0, <1>6, FaultType DEF DeleteNetns, DeleteLink
    <2>2. QED
      BY <1>1, <1>6, <2>1 DEF DeleteNetns, DeleteLink, Counted
  <1>7. CASE SendNonTcp
    BY <1>0, <1>7 DEF SendNonTcp
  <1>8. QED
    BY <1>2, <1>3, <1>4, <1>5, <1>6, <1>7 DEF Next

\* The commands of create(), by name.
LEMMA CommandNames ==
  /\ Commands = {"netns", "veth", "move", "hostAddr", "hostUp", "lo", "addr", "up", "route"}
  /\ Commands = {CreateOrder[i] : i \in 1..9}
  /\ Commands \ {"netns", "lo"} = OfLink
  <1>1. Commands = {CreateOrder[i] : i \in 1..9}
    BY CommandsBuilt DEF Commands
  <1>2. 1..9 = {1, 2, 3, 4, 5, 6, 7, 8, 9}
    OBVIOUS
  <1>3. Commands = {"netns", "veth", "move", "hostAddr", "hostUp", "lo", "addr", "up", "route"}
    BY <1>1, <1>2 DEF CreateOrder
  <1>4. QED
    BY <1>1, <1>3 DEF OfLink

\* Each command of create() comes after those it needs, and once.
LEMMA NeedsMet ==
  ASSUME NEW i \in 1..9
  PROVE  /\ Needs[CreateOrder[i]] \subseteq {CreateOrder[j] : j \in 1..(i - 1)}
         /\ CreateOrder[i] \notin {CreateOrder[j] : j \in 1..(i - 1)}
  <1>1. i \in {1, 2, 3, 4, 5, 6, 7, 8, 9}
    OBVIOUS
  <1>2. CreateOrder[i] \notin {CreateOrder[j] : j \in 1..(i - 1)}
    <2>1. ASSUME NEW j \in 1..(i - 1)
          PROVE  CreateOrder[j] # CreateOrder[i]
      <3>1. j \in {1, 2, 3, 4, 5, 6, 7, 8} /\ j # i
        OBVIOUS
      <3>2. QED
        BY <1>1, <3>1 DEF CreateOrder
    <2>2. QED
      BY <2>1
  <1>3. CreateOrder[i] \in Commands
    BY CommandNames
  <1>4. CASE i = 1
    BY <1>3, <1>4 DEF Needs, CreateOrder
  <1>5. CASE i = 2
    BY <1>3, <1>5 DEF Needs, CreateOrder
  <1>6. CASE i = 3
    <2>1. Needs[CreateOrder[i]] = {CreateOrder[1], CreateOrder[2]}
      BY <1>3, <1>6 DEF Needs, CreateOrder
    <2>2. QED
      BY <1>2, <1>6, <2>1
  <1>7. CASE i = 4
    <2>1. Needs[CreateOrder[i]] = {CreateOrder[2]}
      BY <1>3, <1>7 DEF Needs, CreateOrder
    <2>2. QED
      BY <1>2, <1>7, <2>1
  <1>8. CASE i = 5
    <2>1. Needs[CreateOrder[i]] = {CreateOrder[2]}
      BY <1>3, <1>8 DEF Needs, CreateOrder
    <2>2. QED
      BY <1>2, <1>8, <2>1
  <1>9. CASE i = 6
    <2>1. Needs[CreateOrder[i]] = {CreateOrder[1]}
      BY <1>3, <1>9 DEF Needs, CreateOrder
    <2>2. QED
      BY <1>2, <1>9, <2>1
  <1>10. CASE i = 7
    <2>1. Needs[CreateOrder[i]] = {CreateOrder[3]}
      BY <1>3, <1>10 DEF Needs, CreateOrder
    <2>2. QED
      BY <1>2, <1>10, <2>1
  <1>11. CASE i = 8
    <2>1. Needs[CreateOrder[i]] = {CreateOrder[3]}
      BY <1>3, <1>11 DEF Needs, CreateOrder
    <2>2. QED
      BY <1>2, <1>11, <2>1
  <1>12. CASE i = 9
    <2>1. Needs[CreateOrder[i]] = {CreateOrder[7], CreateOrder[8]}
      BY <1>3, <1>12 DEF Needs, CreateOrder
    <2>2. QED
      BY <1>2, <1>12, <2>1
  <1>13. QED
    BY <1>1, <1>2, <1>4, <1>5, <1>6, <1>7, <1>8, <1>9, <1>10, <1>11, <1>12

\* What is built, step by step: create() in order, and destroy() undoes it.
LEMMA BuiltStep == NInv /\ [Next]_vars => BuiltInv'
  <1> SUFFICES ASSUME NInv, [Next]_vars
               PROVE  BuiltInv'
    OBVIOUS
  <1>0. /\ TypeOK /\ CallInv /\ BuiltInv
        /\ built \subseteq Commands /\ faults \in Nat /\ undoFaults \in Nat
        /\ undoFaults <= faults /\ created \in BOOLEAN
    BY Basics DEF NInv, TypeOK, CallInv
  <1> USE DEF BuiltInv, CreateInOrder, Running
  <1>1. CASE Create
    <2>1. /\ call = "none" /\ ~created /\ call' = "create" /\ ~created' /\ next' = 1
          /\ built' = built /\ faults' = faults /\ undoFaults' = undoFaults
      BY <1>1 DEF Create
    <2>2. faults' = 0 => built' = {}
      BY <1>0, <2>1
    <2>3. {CreateOrder[i] : i \in 1..(next' - 1)} = {}
      BY <2>1
    <2>4. QED
      BY <2>1, <2>2, <2>3
  <1>2. CASE CreateCommand
    <2>1. /\ call' = "create" /\ next \in 1..9 /\ next' = next + 1
      BY <1>0, <1>2, CommandsBuilt DEF CreateCommand, CallInv
    <2>2. ASSUME faults' = 0
          PROVE  built' = {CreateOrder[i] : i \in 1..(next' - 1)}
      <3>1. faults = 0 /\ ~Fault
        BY <1>0, <1>2, <2>2 DEF CreateCommand, Fault
      <3>2. built = {CreateOrder[i] : i \in 1..(next - 1)}
        BY <1>0, <1>2, <3>1 DEF CreateCommand
      <3>3. built' = built \cup {CreateOrder[next]}
        BY <1>2, <2>1, <3>1, <3>2, NeedsMet DEF CreateCommand
      <3>4. 1..(next' - 1) = 1..(next - 1) \cup {next}
        BY <2>1
      <3>5. QED
        BY <3>2, <3>3, <3>4
    <2>3. QED
      BY <2>1, <2>2
  <1>3. CASE Created
    <2>1. call = "create" /\ next = 10 /\ call' = "none" /\ created' /\ built' = built /\ faults' = faults
      BY <1>0, <1>3, CommandsBuilt DEF Created, CallInv
    <2>2. 1..(next - 1) = 1..9
      BY <2>1
    <2>3. faults' = 0 => built' = Commands
      BY <1>0, <2>1, <2>2, CommandNames
    <2>4. QED
      BY <2>1, <2>3
  <1>4. CASE AddRules \/ DropForwarded
    <2>1. /\ Running /\ call' \in {"none", "drop"} /\ UNCHANGED <<created, built, cut, undoFaults>>
          /\ faults' = 0 => faults = 0
      BY <1>0, <1>4, OneRule DEF Fault
    <2>2. QED
      BY <1>0, <2>1
  <1>5. CASE Destroy \/ DeleteRule
    <2>1. call' = "destroy"
      BY <1>5 DEF Destroy, DeleteRule
    <2>2. QED
      BY <2>1
  <1>6. CASE DeleteNetns
    <2>1. call' = "links"
      BY <1>6 DEF DeleteNetns
    <2>2. ASSUME undoFaults' = 0
          PROVE  built' \subseteq OfLink
      <3>1. ~UndoFault
        BY <1>0, <2>2 DEF UndoFault
      <3>2. built' \subseteq built \ {"netns", "lo"}
        BY <1>6, <3>1 DEF DeleteNetns
      <3>3. QED
        BY <1>0, <3>2, CommandNames
    <2>3. QED
      BY <2>1, <2>2
  <1>7. CASE DeleteLink
    <2>1. call = "links" /\ call' = "none" /\ ~created'
      BY <1>7 DEF DeleteLink
    <2>2. ASSUME undoFaults' = 0
          PROVE  built' = {}
      <3>1. ~UndoFault /\ undoFaults = 0
        BY <1>0, <1>7, <2>2 DEF UndoFault, DeleteLink
      <3>2. built' = built \ OfLink
        BY <1>7, <3>1 DEF DeleteLink
      <3>3. QED
        BY <1>0, <2>1, <3>1, <3>2
    <2>3. QED
      BY <2>1, <2>2
  <1>8. CASE Sever
    <2>1. /\ created /\ created' = created /\ call' = call /\ cut'
          /\ built' = built \ OfLink /\ undoFaults' = undoFaults
      BY <1>8 DEF Sever
    <2>2. call # "create"
      BY <1>0, <2>1 DEF CallInv
    <2>3. QED
      BY <1>0, <2>1, <2>2
  <1>9. CASE SendNonTcp \/ Poll \/ UNCHANGED vars
    <2>1. UNCHANGED <<call, next, created, built, cut, faults, undoFaults>>
      BY <1>9 DEF SendNonTcp, Poll, vars
    <2>2. QED
      BY <1>0, <2>1
  <1>10. QED
    BY <1>1, <1>2, <1>3, <1>4, <1>5, <1>6, <1>7, <1>8, <1>9 DEF Next

LEMMA NInductive == Spec => []NInv
  <1>1. NInv /\ [Next]_vars => NInv'
    BY TypeStep, CallStep, RulesStep, CountStep, BuiltStep DEF NInv
  <1>2. QED
    BY NInit, <1>1, PTL DEF Spec

-----------------------------------------------------------------------------
(* The theorems.                                                           *)

\* Every variable keeps its type (netns.py:100-111).
THEOREM TypeCorrect == Spec => []TypeOK
  <1>1. NInv => TypeOK
    BY DEF NInv
  <1>2. QED
    BY <1>1, NInductive, PTL

\* With no fault every command of create() finds what it needs, on a host where
\* any number of sandboxes of the same name ran before (netns.py:127-152).
THEOREM CreationInOrder == Spec => []CreateInOrder
  <1>1. NInv => CreateInOrder
    BY DEF NInv, BuiltInv
  <1>2. QED
    BY <1>1, NInductive, PTL

\* Each rule on the host is on destroy()'s list or the trace of a deletion that
\* failed (netns.py:121-123, 215-219).
THEOREM RulesAreAccounted == Spec => []RulesAccounted
  <1>1. ASSUME NInv, NEW k \in Kinds
        PROVE  Len(rules[k]) <= Recorded(k) + undoFaults
    <2>1. /\ mine \in Seq(Kinds) /\ Len(mine) \in Nat /\ next \in Nat /\ undoFaults \in Nat
          /\ rules[k] \in Seq(Nat) /\ DOMAIN mine = 1..Len(mine)
      BY <1>1, Basics DEF NInv, TypeOK
    <2>2. PICK n \in Nat :
            n <= Len(mine) /\ Len(rules[k]) <= Cardinality(At(mine, n, k)) + undoFaults
      <3>1. CASE call = "destroy"
        BY <1>1, <2>1, <3>1 DEF NInv, RulesInv, CallInv, Entries, At
      <3>2. CASE call # "destroy"
        BY <1>1, <2>1, <3>2 DEF NInv, RulesInv, Entries, At
      <3>3. QED
        BY <3>1, <3>2
    <2>3. Cardinality(At(mine, n, k)) <= Cardinality(At(mine, Len(mine), k))
      BY <2>1, <2>2, CountGrows
    <2>4. Recorded(k) = Cardinality(At(mine, Len(mine), k))
      BY <2>1 DEF Recorded, At
    <2>5. Cardinality(At(mine, n, k)) \in Nat /\ Recorded(k) \in Nat /\ Len(rules[k]) \in Nat
      BY <2>1, <2>2, <2>4, CountType
    <2>6. QED
      BY <2>1, <2>2, <2>3, <2>4, <2>5
  <1>2. NInv => RulesAccounted
    BY <1>1 DEF RulesAccounted
  <1>3. QED
    BY <1>2, NInductive, PTL

\* destroy() leaves neither a rule nor an interface behind, unless one of its own
\* commands failed (netns.py:208-223).
THEOREM DestroyLeavesNothing == Spec => []DestroyUndoes
  <1>1. ASSUME NInv, ~created, call = "none", undoFaults = 0, NEW k \in Kinds
        PROVE  rules[k] = <<>>
    <2>1. mine = <<>> /\ rules[k] \in Seq(Nat) /\ Len(rules[k]) \in Nat
      BY <1>1 DEF NInv, CallInv, TypeOK
    <2>2. Cardinality(Entries(0, k)) = 0
      <3>1. Entries(0, k) = {}
        BY DEF Entries
      <3>2. QED
        BY <3>1, FS_EmptySet
    <2>3. Len(rules[k]) <= Cardinality(Entries(0, k)) + 0
      BY <1>1, <2>1, Basics DEF NInv, RulesInv
    <2>4. Len(rules[k]) = 0
      BY <2>1, <2>2, <2>3
    <2>5. QED
      BY <2>1, <2>4
  <1>2. NInv => DestroyUndoes
    BY <1>1 DEF NInv, BuiltInv, DestroyUndoes
  <1>3. QED
    BY <1>2, NInductive, PTL

\* The fuse trips for packets of its own run only, however many sandboxes of the
\* same name ran before (nontcp.py:32-43, netns.py:203-206).
THEOREM TripsForItsOwn == Spec => []NoFalseTrip
  <1>1. NInv => NoFalseTrip
    BY DEF NInv, CountInv, NoFalseTrip
  <1>2. QED
    BY <1>1, NInductive, PTL

\* What was counted is there to be noticed until the teardown begins: what
\* NonTcpNoticed rests on (netns.py:185-196, nontcp.py:19-43).
THEOREM CountStays == Spec => CountKept
  <1> DEFINE Kept ==
        /\ Running /\ Counted => Counted' \/ call' = "destroy"
        /\ tripped => tripped' \/ Create
  <1>1. NInv /\ [Next]_vars => [Kept]_vars
    <2> SUFFICES ASSUME NInv, Next
                 PROVE  Kept
      OBVIOUS
    <2>1. tripped => tripped' \/ Create
      BY DEF Next, CreateCommand, Created, AddRules, DropForwarded, AddRule, Destroy,
             DeleteRule, DeleteNetns, DeleteLink, Sever, SendNonTcp, Poll
    <2>2. ASSUME Running, Counted, call' # "destroy"
          PROVE  Counted'
      <3>1. PICK i \in DOMAIN rules["count"] : rules["count"][i] > 0
        BY <2>2 DEF Counted
      <3>2. /\ "count" \in Kinds /\ rules \in [Kinds -> Seq(Nat)] /\ rules["count"] \in Seq(Nat)
            /\ i \in 1..Len(rules["count"]) /\ rules["count"][i] \in Nat
        BY <3>1 DEF NInv, TypeOK, Kinds
      <3>3. CASE AddRules \/ DropForwarded
        <4>1. PICK k \in Kinds : rules' \in {rules, Appended(k)}
          BY <3>3, OneRule DEF NInv
        <4>2. rules'["count"] = rules["count"] \/ rules'["count"] = Append(rules["count"], 0)
          BY <3>2, <4>1 DEF Appended
        <4>3. i \in DOMAIN rules'["count"] /\ rules'["count"][i] = rules["count"][i]
          BY <3>1, <3>2, <4>2, AppendProperties
        <4>4. QED
          BY <3>1, <4>3 DEF Counted
      <3>4. CASE SendNonTcp
        <4>1. rules'["count"] = [j \in DOMAIN rules["count"] |-> rules["count"][j] + 1]
          BY <3>2, <3>4 DEF SendNonTcp
        <4>2. i \in DOMAIN rules'["count"] /\ rules'["count"][i] > 0
          BY <3>1, <3>2, <4>1
        <4>3. QED
          BY <4>2 DEF Counted
      <3>5. CASE ~AddRules /\ ~DropForwarded /\ ~SendNonTcp
        <4>1. rules' = rules
          BY <2>2, <3>5 DEF Running, Next, Create, CreateCommand, Created, Destroy, DeleteRule,
                            DeleteNetns, DeleteLink, Sever, Poll
        <4>2. QED
          BY <3>1, <4>1 DEF Counted
      <3>6. QED
        BY <3>3, <3>4, <3>5
    <2>3. QED
      BY <2>1, <2>2
  <1>2. QED
    BY <1>1, NInductive, PTL DEF Spec, CountKept
=============================================================================
