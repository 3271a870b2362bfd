----------------------------- MODULE RepeatThread -----------------------------
(***************************************************************************)
(* hfd::RepeatThread (src/src/repeatThread.h): a thread that sleeps and    *)
(* then calls m_func, m_times + 1 times over, until its owner destroys the *)
(* object.  The mutex, the condition variable, the deadline and the join   *)
(* are explicit, one action per step that another thread can observe.      *)
(*                                                                         *)
(* The owner is whoever holds the object (the service's main thread); when *)
(* it constructs and destroys objects is left open here and fixed in       *)
(* Vibrator.tla.  m_func is a call that starts and later returns.          *)
(***************************************************************************)
EXTENDS Integers

CONSTANTS Thread,   \* the RepeatThread objects (an object's storage is reused)
          Times,    \* the values of the constructor's "times"
          IntMax    \* INT_MAX

ASSUME TimesAssumption ==
  IntMax \in Nat /\ Times \subseteq (-IntMax - 1) .. IntMax

VARIABLES
  runner,    \* where runner() stands in each object
  owner,     \* where the owner stands with each object
  m_mutex,   \* who holds the mutex: "free", "runner" or "owner"
  m_break,   \* the flag the mutex protects
  m_times,   \* the constructor argument
  iter,      \* the loop counter i
  expired,   \* steady_clock has passed the deadline of the current sleep
  late       \* history: calls of m_func begun after m_break was set (2 and
             \* more are one)

vars == <<runner, owner, m_mutex, m_break, m_times, iter, expired, late>>

Run(t, from, to) == runner[t] = from /\ runner' = [runner EXCEPT ![t] = to]
Own(t, from, to) == owner[t] = from /\ owner' = [owner EXCEPT ![t] = to]
Hold(t, who) ==
  m_mutex[t] = "free" /\ m_mutex' = [m_mutex EXCEPT ![t] = who]
Release(t) == m_mutex' = [m_mutex EXCEPT ![t] = "free"]

\* The owner has set m_break and not yet seen the thread end.
Aborted(t) == owner[t] \in {"notify", "unlock", "join"}

TypeOK ==
  /\ runner \in [Thread -> {"head", "lock", "test", "wait", "blocked",
                            "relock", "timeout", "call", "func", "done"}]
  /\ owner \in [Thread -> {"none", "alive", "lock", "set", "notify",
                           "unlock", "join"}]
  /\ m_mutex \in [Thread -> {"free", "runner", "owner"}]
  /\ m_break \in [Thread -> BOOLEAN]
  /\ m_times \in [Thread -> (-IntMax - 1) .. IntMax]
  /\ iter \in [Thread -> (-IntMax - 1) .. IntMax]
  /\ expired \in [Thread -> BOOLEAN]
  /\ late \in [Thread -> Nat]

Init ==
  /\ runner = [t \in Thread |-> "done"]
  /\ owner = [t \in Thread |-> "none"]
  /\ m_mutex = [t \in Thread |-> "free"]
  /\ m_break = [t \in Thread |-> FALSE]
  /\ m_times = [t \in Thread |-> 0]
  /\ iter = [t \in Thread |-> 0]
  /\ expired = [t \in Thread |-> FALSE]
  /\ late = [t \in Thread |-> 0]

-------------------------------------------------------------------------------
(* The thread: runner(). *)

\* for (...; i <= m_times; ...), the test alone
LoopTestStrict(t) ==
  /\ runner[t] = "head"
  /\ runner' = [runner EXCEPT ![t] =
                  IF iter[t] < m_times[t] THEN "lock" ELSE "done"]
  /\ UNCHANGED <<owner, m_mutex, m_break, m_times, iter, expired, late>>

LoopTest(t) ==
  /\ runner[t] = "head"
  /\ runner' = [runner EXCEPT ![t] =
                  IF iter[t] <= m_times[t] THEN "lock" ELSE "done"]
  /\ UNCHANGED <<owner, m_mutex, m_break, m_times, iter, expired, late>>

\* unique_lock lock(m_mutex), then the deadline of this sleep is computed.
Lock(t) ==
  /\ Run(t, "lock", "test") /\ Hold(t, "runner")
  /\ expired' = [expired EXCEPT ![t] = FALSE]
  /\ UNCHANGED <<owner, m_break, m_times, iter, late>>

\* wait_until calls the predicate before it blocks; TRUE ends the loop, and
\* the unique_lock's destructor releases the mutex.
Test(t) ==
  \/ /\ m_break[t] /\ Run(t, "test", "done") /\ Release(t)
     /\ UNCHANGED <<owner, m_break, m_times, iter, expired, late>>
  \/ /\ ~m_break[t] /\ Run(t, "test", "wait")
     /\ UNCHANGED <<owner, m_mutex, m_break, m_times, iter, expired, late>>

\* The wait releases the mutex and blocks in one step.
Block(t) ==
  /\ Run(t, "wait", "blocked") /\ Release(t)
  /\ UNCHANGED <<owner, m_break, m_times, iter, expired, late>>

\* The deadline passes (it may lie in the past already: times 2 * durationMs).
Expire(t) ==
  /\ runner[t] \in {"test", "wait", "blocked", "relock"} /\ ~expired[t]
  /\ expired' = [expired EXCEPT ![t] = TRUE]
  /\ UNCHANGED <<runner, owner, m_mutex, m_break, m_times, iter, late>>

WakeOnTimeout(t) ==
  /\ expired[t] /\ Run(t, "blocked", "relock")
  /\ UNCHANGED <<owner, m_mutex, m_break, m_times, iter, expired, late>>

WakeSpuriously(t) ==
  /\ ~expired[t] /\ Run(t, "blocked", "relock")
  /\ UNCHANGED <<owner, m_mutex, m_break, m_times, iter, expired, late>>

\* The inner wait returns with the mutex; its status is read off the clock.
Relock(t) ==
  /\ Run(t, "relock", IF expired[t] THEN "timeout" ELSE "test")
  /\ Hold(t, "runner")
  /\ UNCHANGED <<owner, m_break, m_times, iter, expired, late>>

\* On a timeout the result is the predicate once more.
TimedOut(t) ==
  /\ Run(t, "timeout", IF m_break[t] THEN "done" ELSE "call") /\ Release(t)
  /\ UNCHANGED <<owner, m_break, m_times, iter, expired, late>>

Call(t) ==
  /\ Run(t, "call", "func")
  /\ late' = [late EXCEPT ![t] = IF Aborted(t) /\ @ < 2 THEN @ + 1 ELSE @]
  /\ UNCHANGED <<owner, m_mutex, m_break, m_times, iter, expired>>

ReturnNoIncrement(t) ==
  /\ Run(t, "func", "head")
  /\ UNCHANGED <<owner, m_mutex, m_break, m_times, iter, expired, late>>

\* m_func returns and i++ runs.  At INT_MAX the increment overflows: the
\* counter wraps (and a compiler that assumes it cannot drops the loop test,
\* which comes to the same, the test i <= INT_MAX being always true).
Return(t) ==
  /\ Run(t, "func", "head")
  /\ iter' = [iter EXCEPT ![t] = IF @ = IntMax THEN -IntMax - 1 ELSE @ + 1]
  /\ UNCHANGED <<owner, m_mutex, m_break, m_times, expired, late>>

RunnerStep(t) ==
  \/ LoopTest(t) \/ Lock(t) \/ Test(t) \/ Block(t) \/ WakeOnTimeout(t)
  \/ Relock(t) \/ TimedOut(t) \/ Call(t) \/ Return(t)

-------------------------------------------------------------------------------
(* The owner: the constructor, and the destructor with abort(). *)

ConstructTimesPlusOne(t, n) ==
  /\ Own(t, "none", "alive") /\ runner[t] = "done"
  /\ runner' = [runner EXCEPT ![t] = "head"]
  /\ m_break' = [m_break EXCEPT ![t] = FALSE]
  /\ m_times' = [m_times EXCEPT ![t] = n + 1]
  /\ iter' = [iter EXCEPT ![t] = 0]
  /\ expired' = [expired EXCEPT ![t] = FALSE]
  /\ late' = [late EXCEPT ![t] = 0]
  /\ UNCHANGED m_mutex

Construct(t, n) ==
  /\ Own(t, "none", "alive") /\ runner[t] = "done"
  /\ runner' = [runner EXCEPT ![t] = "head"]
  /\ m_break' = [m_break EXCEPT ![t] = FALSE]
  /\ m_times' = [m_times EXCEPT ![t] = n]
  /\ iter' = [iter EXCEPT ![t] = 0]
  /\ expired' = [expired EXCEPT ![t] = FALSE]
  /\ late' = [late EXCEPT ![t] = 0]
  /\ UNCHANGED m_mutex

Destroy(t) ==
  /\ Own(t, "alive", "lock")
  /\ UNCHANGED <<runner, m_mutex, m_break, m_times, iter, expired, late>>

OwnerLockDropped(t) ==
  /\ Own(t, "lock", "set")
  /\ UNCHANGED <<runner, m_mutex, m_break, m_times, iter, expired, late>>

OwnerLock(t) ==
  /\ Own(t, "lock", "set") /\ Hold(t, "owner")
  /\ UNCHANGED <<runner, m_break, m_times, iter, expired, late>>

SetBreakMissing(t) ==
  /\ Own(t, "set", "notify")
  /\ UNCHANGED <<runner, m_mutex, m_break, m_times, iter, expired, late>>

SetBreak(t) ==
  /\ Own(t, "set", "notify")
  /\ m_break' = [m_break EXCEPT ![t] = TRUE]
  /\ UNCHANGED <<runner, m_mutex, m_times, iter, expired, late>>

\* m_cv.notify_all()
NotifyAll(t) ==
  /\ Own(t, "notify", "unlock")
  /\ runner' = [runner EXCEPT ![t] = IF @ = "blocked" THEN "relock" ELSE @]
  /\ UNCHANGED <<m_mutex, m_break, m_times, iter, expired, late>>

OwnerUnlockMissing(t) ==
  /\ Own(t, "unlock", "join")
  /\ UNCHANGED <<runner, m_mutex, m_break, m_times, iter, expired, late>>

OwnerUnlock(t) ==
  /\ Own(t, "unlock", "join") /\ Release(t)
  /\ UNCHANGED <<runner, m_break, m_times, iter, expired, late>>

JoinNothing(t) ==
  /\ Own(t, "join", "none")
  /\ UNCHANGED <<runner, m_mutex, m_break, m_times, iter, expired, late>>

\* m_thread.join() returns once runner() has; then the members are destroyed.
Join(t) ==
  /\ runner[t] = "done" /\ Own(t, "join", "none")
  /\ UNCHANGED <<runner, m_mutex, m_break, m_times, iter, expired, late>>

\* The steps of a destruction that has begun, but for taking the mutex.
OwnerStep(t) == SetBreak(t) \/ NotifyAll(t) \/ OwnerUnlock(t) \/ Join(t)

Next == \E t \in Thread :
  \/ RunnerStep(t) \/ Expire(t) \/ WakeSpuriously(t)
  \/ \E n \in Times : Construct(t, n)
  \/ Destroy(t) \/ OwnerLock(t) \/ OwnerStep(t)

\* Every runnable thread is scheduled, time passes, m_func returns, and the
\* owner is not for ever passed over for a mutex that keeps becoming free (a
\* thread with INT_MAX repetitions takes and releases it without end).  That
\* an object is ever constructed or destroyed is not assumed.
Fairness == \A t \in Thread :
  /\ WF_vars(RunnerStep(t)) /\ WF_vars(Expire(t))
  /\ SF_vars(OwnerLock(t)) /\ WF_vars(OwnerStep(t))

Spec == Init /\ [][Next]_vars /\ Fairness

-------------------------------------------------------------------------------
(* Properties. *)

\* The owner never joins a thread that sleeps on: once abort() has notified,
\* the thread is awake, so that rumble() does not wait out 2 * durationMs of
\* the pattern it replaces (abort(), lines 42-49, against wait_until).
NoLostWakeup == \A t \in Thread :
  owner[t] \in {"unlock", "join"} => runner[t] \notin {"wait", "blocked"}

\* "We don't support canceling in the middle" (lines 63-64): a call that was
\* past the check when abort() set the flag is still made, but only that one.
AtMostOneLateCall == \A t \in Thread : late[t] <= 1

\* When the destructor returns and the mutex, the condition variable and
\* m_func are gone, the thread is over and nobody holds the mutex.
NoUseAfterDestroy == \A t \in Thread :
  owner[t] = "none" => runner[t] = "done" /\ m_mutex[t] = "free"

\* ~RepeatThread() returns, whatever the thread was doing and however many
\* repetitions it had left.
DestructorReturns == \A t \in Thread : owner[t] = "lock" ~> owner[t] = "none"

\* A thread with fewer than INT_MAX repetitions runs out of them by itself.
PatternEnds == \A t \in Thread :
  (owner[t] = "alive" /\ m_times[t] # IntMax) ~> runner[t] = "done"

\* The pulses a thread still owes: what PulseTrain.tla counts down.
LeftToCall(t) ==
  IF Aborted(t) THEN (IF runner[t] = "call" THEN 1 ELSE 0)
  ELSE IF runner[t] = "done" THEN 0
  ELSE IF m_times[t] = IntMax THEN -1
  ELSE IF m_times[t] < 0 THEN 0
  ELSE m_times[t] - iter[t] + (IF runner[t] = "func" THEN 0 ELSE 1)

\* A train's phase, read off runner().
PhaseOf(t) == IF runner[t] = "func" THEN "pulsing"
              ELSE IF runner[t] = "done" THEN "over" ELSE "resting"

Train == INSTANCE PulseTrain WITH
  Train <- Thread,
  phase <- [t \in Thread |-> PhaseOf(t)],
  budget <- [t \in Thread |-> LeftToCall(t)]

\* Every behaviour of the thread is one PulseTrain allows: exactly
\* m_times + 1 calls (INT_MAX: without end), at most one of them after the
\* object's destruction has begun.
ImplementsPulseTrain == Train!Spec

-------------------------------------------------------------------------------
(* The inductive strengthening of the invariants, one part per concern. *)

\* The mutex is held exactly in the critical sections.
MutexFits(t) ==
  /\ m_mutex[t] = "owner" <=> owner[t] \in {"set", "notify", "unlock"}
  /\ m_mutex[t] = "runner" <=> runner[t] \in {"test", "wait", "timeout"}

\* m_break tells how far abort() is; no object outlives its thread.
FlagFits(t) ==
  /\ owner[t] \in {"alive", "lock", "set"} => ~m_break[t]
  /\ Aborted(t) => m_break[t]
  /\ owner[t] = "none" => runner[t] = "done"

\* Nobody sleeps through abort().
AwakeFits(t) ==
  owner[t] \in {"unlock", "join"} => runner[t] \notin {"wait", "blocked"}

\* A call begun after m_break was set cannot be followed by another.
LateFits(t) ==
  /\ late[t] <= 1
  /\ owner[t] \in {"alive", "lock", "set"} => late[t] = 0
  /\ Aborted(t) /\ runner[t] = "call" => late[t] = 0

\* The counter never exceeds m_times + 1, and reaches that only at the test
\* that ends the loop.
CounterFits(t) == m_times[t] # IntMax =>
  /\ iter[t] \in Nat
  /\ runner[t] = "head" => iter[t] <= m_times[t] + 1 \/ iter[t] = 0
  /\ runner[t] \notin {"head", "done"} => iter[t] <= m_times[t]

ObjectFits(t) ==
  MutexFits(t) /\ FlagFits(t) /\ AwakeFits(t) /\ LateFits(t) /\ CounterFits(t)

\* The strengthening itself, checked before it is proved
\* (RepeatThreadProofs.tla): typing and ObjectFits of every object.
IInv == TypeOK /\ \A t \in Thread : ObjectFits(t)
===============================================================================
