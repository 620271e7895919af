------------------------------ MODULE Watchdog ------------------------------
(***************************************************************************)
(* WatchdogFuse (halt/fuses/watchdog.py) on a clock that counts in units.   *)
(*                                                                         *)
(* heartbeat reads the clock and stores the reading, from any thread;       *)
(* observe, which the caller's loop polls, reads the clock, then the last   *)
(* beat, and trips if more than the limit lies between.  Neither takes a    *)
(* lock, so another thread may run between a reading and its use: Hold is   *)
(* how long at most.                                                       *)
(***************************************************************************)
EXTENDS Integers

CONSTANTS Beaters,    \* the threads that call heartbeat
          Limit,      \* heartbeat_timeout_s
          PollEvery,  \* how long at most from one poll's reading to the next
          Hold,       \* how long a thread may be kept from using its reading
          MaxTime     \* bound: the clock's last value

ASSUME WatchdogAssumption ==
  /\ Limit \in Nat /\ PollEvery \in Nat /\ Hold \in Nat /\ MaxTime \in Nat

VARIABLES now,       \* the clock
          lastBeat,  \* _last_beat
          held,      \* the reading each thread inside heartbeat has taken
          polled,    \* the reading the poll under way has taken
          tripped,   \* observe returned an event
          lastPoll,  \* history: the reading of the last poll
          newest,    \* history: the newest reading of any heartbeat
          stored,    \* history: the newest reading that was stored
          overlapped \* history: two heartbeats were under way at once

vars == <<now, lastBeat, held, polled, tripped, lastPoll, newest, stored, overlapped>>

None == -1
Times == 0 .. MaxTime

TypeOK ==
  /\ now \in Times /\ lastBeat \in Times
  /\ held \in [Beaters -> Times \cup {None}] /\ polled \in Times \cup {None}
  /\ tripped \in BOOLEAN /\ overlapped \in BOOLEAN
  /\ lastPoll \in Times /\ newest \in Times /\ stored \in Times

\* The constructor takes the first reading.
Init ==
  /\ now = 0 /\ lastBeat = 0
  /\ held = [b \in Beaters |-> None] /\ polled = None
  /\ tripped = FALSE /\ overlapped = FALSE
  /\ lastPoll = 0 /\ newest = 0 /\ stored = 0

\* Time passes, but not past the use of a reading or the next poll.
Tick ==
  /\ now < MaxTime
  /\ \A b \in Beaters : held[b] # None => now < held[b] + Hold
  /\ polled # None => now < polled + Hold
  /\ ~tripped => now < lastPoll + PollEvery
  /\ now' = now + 1
  /\ UNCHANGED <<lastBeat, held, polled, tripped, lastPoll, newest, stored, overlapped>>

\* heartbeat: the clock is read ...
ReadClock(b) ==
  /\ held[b] = None
  /\ held' = [held EXCEPT ![b] = now] /\ newest' = now
  /\ overlapped' = (overlapped \/ \E a \in Beaters : held[a] # None)
  /\ UNCHANGED <<now, lastBeat, polled, tripped, lastPoll, stored>>

\* Mutant of StoreBeat: the reading is stored once more.
StoreBeatAgain(b) ==
  /\ lastBeat' = held[b] /\ held' = [held EXCEPT ![b] = None]
  /\ UNCHANGED <<now, polled, tripped, lastPoll, newest, stored, overlapped>>

\* ... and stored, whatever was stored meanwhile.
StoreBeat(b) ==
  /\ held[b] # None
  /\ lastBeat' = held[b] /\ held' = [held EXCEPT ![b] = None]
  /\ stored' = IF held[b] > stored THEN held[b] ELSE stored
  /\ UNCHANGED <<now, polled, tripped, lastPoll, newest, overlapped>>

\* observe reads the clock ...
Poll ==
  /\ polled = None /\ ~tripped
  /\ polled' = now /\ lastPoll' = now
  /\ UNCHANGED <<now, lastBeat, held, tripped, newest, stored, overlapped>>

\* Mutant of Observe: the limit itself is too long.
ObserveAtLimit ==
  /\ polled # None
  /\ tripped' = (polled - lastBeat >= Limit) /\ polled' = None
  /\ UNCHANGED <<now, lastBeat, held, lastPoll, newest, stored, overlapped>>

\* Mutant of Observe: a poll counts as a beat.
ObserveBeats ==
  /\ polled # None
  /\ tripped' = (polled - lastBeat > Limit) /\ polled' = None /\ lastBeat' = polled
  /\ UNCHANGED <<now, held, lastPoll, newest, stored, overlapped>>

\* ... then the last beat, and compares.
Observe ==
  /\ polled # None
  /\ tripped' = (polled - lastBeat > Limit) /\ polled' = None
  /\ UNCHANGED <<now, lastBeat, held, lastPoll, newest, stored, overlapped>>

Next ==
  \/ Tick \/ Poll \/ Observe
  \/ \E b \in Beaters : ReadClock(b) \/ StoreBeat(b)

Spec == Init /\ [][Next]_vars

-----------------------------------------------------------------------------
\* A dead-man's switch: no run is left alone for longer than the limit, one
\* polling interval and one hold, counted from the newest clock reading of any
\* heartbeat, finished or not (watchdog.py:12-18).  No order of stores by several
\* threads can put the trip off.
BoundedSilence == ~tripped => now <= newest + Limit + PollEvery + Hold

\* A run that beats in time is not tripped (watchdog.py:31-34).  If heartbeats
\* never overlap this is exact: every reading stored before the trip is older
\* than the limit.  If they do, a reading that was held back may overwrite a newer
\* one, and the trip comes early, by no more than it was held.
NoEarlyTrip ==
  [][tripped' /\ ~tripped =>
       polled > stored + Limit - (IF overlapped THEN Hold ELSE 0)]_vars

-----------------------------------------------------------------------------
(* The inductive invariant, see WatchdogProofs.                             *)

\* Readings are of the past, and used within Hold.
ReadingsFresh ==
  /\ \A b \in Beaters : held[b] # None => held[b] <= newest /\ now <= held[b] + Hold
  /\ lastBeat <= newest /\ newest <= now /\ stored <= newest /\ lastPoll <= now
  /\ polled # None => ~tripped /\ polled = lastPoll /\ now <= polled + Hold

\* The last beat is behind the newest stored one by at most Hold, and only if
\* heartbeats overlapped.
StoredBehind ==
  /\ stored <= lastBeat + (IF overlapped THEN Hold ELSE 0)
  /\ \A b \in Beaters :
       held[b] # None =>
         /\ stored <= held[b] + (IF overlapped THEN Hold ELSE 0)
         /\ ~overlapped => \A a \in Beaters : held[a] # None => a = b

\* What the polls so far say of the silence.
PollsInTime ==
  ~tripped =>
    /\ now <= lastPoll + PollEvery
    /\ lastPoll <= newest + Limit + (IF polled = None THEN 0 ELSE PollEvery)

WInv == TypeOK /\ ReadingsFresh /\ StoredBehind /\ PollsInTime
=============================================================================
