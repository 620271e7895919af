--------------------------- MODULE WatchdogProofs ---------------------------
(***************************************************************************)
(* The watchdog's bounds, for any threads, limit, polling interval, hold    *)
(* and length of the run.                                                  *)
(***************************************************************************)
EXTENDS Watchdog, TLAPS

LEMMA InitWInv == Init => WInv
  <1> SUFFICES ASSUME Init PROVE WInv
    OBVIOUS
  <1> USE WatchdogAssumption DEF Init, Times, None
  <1>1. TypeOK
    <2>1. 0 \in 0 .. MaxTime
      OBVIOUS
    <2>2. QED
      BY <2>1, Zenon DEF TypeOK
  <1>2. ReadingsFresh
    BY DEF ReadingsFresh
  <1>3. StoredBehind
    BY DEF StoredBehind
  <1>4. PollsInTime
    BY DEF PollsInTime
  <1>5. QED
    BY <1>1, <1>2, <1>3, <1>4 DEF WInv

\* Each step keeps the invariant: one lemma for each of its parts that relates
\* readings, over all actions.
LEMMA TypeStep == WInv /\ Next => TypeOK'
  <1> SUFFICES ASSUME WInv, Next PROVE TypeOK'
    OBVIOUS
  <1> USE WatchdogAssumption DEF WInv, TypeOK, Times, None
  <1>1. CASE Tick
    BY <1>1 DEF Tick
  <1>2. CASE Poll
    BY <1>2 DEF Poll
  <1>3. CASE Observe
    BY <1>3 DEF Observe
  <1>4. ASSUME NEW b \in Beaters, ReadClock(b) PROVE TypeOK'
    BY <1>4 DEF ReadClock
  <1>5. ASSUME NEW b \in Beaters, StoreBeat(b) PROVE TypeOK'
    BY <1>5 DEF StoreBeat
  <1>6. QED
    BY <1>1, <1>2, <1>3, <1>4, <1>5 DEF Next

LEMMA FreshStep == WInv /\ Next => ReadingsFresh'
  <1> SUFFICES ASSUME WInv, Next PROVE ReadingsFresh'
    OBVIOUS
  <1> USE WatchdogAssumption DEF WInv, TypeOK, Times, None, ReadingsFresh
  <1>1. CASE Tick
    BY <1>1 DEF Tick
  <1>2. CASE Poll
    BY <1>2 DEF Poll
  <1>3. CASE Observe
    BY <1>3 DEF Observe
  <1>4. ASSUME NEW b \in Beaters, ReadClock(b) PROVE ReadingsFresh'
    BY <1>4 DEF ReadClock
  <1>5. ASSUME NEW b \in Beaters, StoreBeat(b) PROVE ReadingsFresh'
    BY <1>5 DEF StoreBeat
  <1>6. QED
    BY <1>1, <1>2, <1>3, <1>4, <1>5 DEF Next

LEMMA BehindStep == WInv /\ Next => StoredBehind'
  <1> SUFFICES ASSUME WInv, Next PROVE StoredBehind'
    OBVIOUS
  <1> USE WatchdogAssumption DEF WInv, TypeOK, Times, None, ReadingsFresh, StoredBehind
  <1>1. CASE Tick
    BY <1>1 DEF Tick
  <1>2. CASE Poll
    BY <1>2 DEF Poll
  <1>3. CASE Observe
    BY <1>3 DEF Observe
  <1>4. ASSUME NEW b \in Beaters, ReadClock(b) PROVE StoredBehind'
    <2>1. overlapped => overlapped'
      BY <1>4 DEF ReadClock
    <2>2. stored' <= lastBeat' + (IF overlapped' THEN Hold ELSE 0)
      BY <1>4, <2>1 DEF ReadClock
    <2>3. ASSUME NEW a \in Beaters, held'[a] # None
          PROVE  stored' <= held'[a] + (IF overlapped' THEN Hold ELSE 0)
      BY <1>4, <2>1, <2>3 DEF ReadClock
    <2>4. ASSUME ~overlapped', NEW a \in Beaters, held'[a] # None,
                 NEW d \in Beaters, held'[d] # None
          PROVE  a = d
      BY <1>4, <2>4 DEF ReadClock
    <2>5. QED
      BY <2>2, <2>3, <2>4
  <1>5. ASSUME NEW b \in Beaters, StoreBeat(b) PROVE StoredBehind'
    BY <1>5 DEF StoreBeat
  <1>6. QED
    BY <1>1, <1>2, <1>3, <1>4, <1>5 DEF Next

LEMMA PollsStep == WInv /\ Next => PollsInTime'
  <1> SUFFICES ASSUME WInv, Next PROVE PollsInTime'
    OBVIOUS
  <1> USE WatchdogAssumption DEF WInv, TypeOK, Times, None, ReadingsFresh, PollsInTime
  <1>1. CASE Tick
    BY <1>1 DEF Tick
  <1>2. CASE Poll
    BY <1>2 DEF Poll
  <1>3. CASE Observe
    <2>0. ~tripped' => ~(polled - lastBeat > Limit)
      BY <1>3, Zenon DEF Observe
    <2>1. ~tripped' => polled <= lastBeat + Limit
      BY <2>0
    <2>2. ~tripped' => lastPoll <= newest + Limit
      BY <1>3, <2>1 DEF Observe
    <2>3. ~tripped => now <= lastPoll + PollEvery
      OBVIOUS
    <2>4. QED
      BY <1>3, <2>2, <2>3 DEF Observe
  <1>4. ASSUME NEW b \in Beaters, ReadClock(b) PROVE PollsInTime'
    BY <1>4 DEF ReadClock
  <1>5. ASSUME NEW b \in Beaters, StoreBeat(b) PROVE PollsInTime'
    BY <1>5 DEF StoreBeat
  <1>6. QED
    BY <1>1, <1>2, <1>3, <1>4, <1>5 DEF Next

LEMMA WInvInvariant == Spec => []WInv
  <1>1. WInv /\ [Next]_vars => WInv'
    <2>1. CASE Next
      BY <2>1, TypeStep, FreshStep, BehindStep, PollsStep DEF WInv
    <2>2. CASE UNCHANGED vars
      BY <2>2 DEF vars, WInv, TypeOK, ReadingsFresh, StoredBehind, PollsInTime
    <2>3. QED
      BY <2>1, <2>2
  <1>2. QED
    BY InitWInv, <1>1, PTL DEF Spec

-----------------------------------------------------------------------------
\* The type invariant of watchdog.py's fuse and its callers.
THEOREM TypeCorrect == Spec => []TypeOK
  <1>1. WInv => TypeOK
    BY DEF WInv
  <1>2. QED
    BY <1>1, WInvInvariant, PTL

\* The dead-man's switch (watchdog.py:12-18): silence is bounded by the limit,
\* one polling interval and one hold, however many threads beat and in whatever
\* order they store.
THEOREM SilenceIsBounded == Spec => []BoundedSilence
  <1>1. WInv => BoundedSilence
    BY WatchdogAssumption DEF WInv, TypeOK, Times, None, ReadingsFresh, PollsInTime,
       BoundedSilence
  <1>2. QED
    BY <1>1, WInvInvariant, PTL

\* No run that beats in time is tripped (watchdog.py:31-34): exact for heartbeats
\* that do not overlap, and early by at most the hold for ones that do.
THEOREM TripsOnSilenceOnly == Spec => NoEarlyTrip
  <1> DEFINE Late == tripped' /\ ~tripped =>
               polled > stored + Limit - (IF overlapped THEN Hold ELSE 0)
  <1>1. WInv /\ [Next]_vars => [Late]_vars
    <2> SUFFICES ASSUME WInv, [Next]_vars, tripped', ~tripped PROVE Late
      BY DEF vars
    <2>1. Observe
      BY DEF Next, Tick, Poll, ReadClock, StoreBeat, vars
    <2>2. QED
      BY <2>1, WatchdogAssumption DEF Observe, WInv, TypeOK, Times, None, StoredBehind
  <1>2. QED
    BY <1>1, WInvInvariant, PTL DEF Spec, NoEarlyTrip
=============================================================================
