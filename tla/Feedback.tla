------------------------------- MODULE Feedback -------------------------------
(***************************************************************************)
(* hfd::Feedback, the QtFeedback plugin of the applications                *)
(* (src/qt/feedback-plugin/hfd_feedback.cpp).  It plays a haptic effect as *)
(* a chain of callbacks on the application's event loop: a zero timer, a   *)
(* D-Bus call of the service's vibrate(), its reply, a timer of twice the  *)
(* period, the next call.  Nothing remembers the chains: a callback in     *)
(* flight only carries its period and the repetitions left, and all chains *)
(* of all effects share one member, state.                                 *)
(*                                                                         *)
(* The bus and the service are external: the calls of one application are  *)
(* served and answered in the order they were made, a call may time out    *)
(* before, while or after it is served, and the service may die.           *)
(***************************************************************************)
EXTENDS Integers, Sequences

CONSTANTS Effect,     \* the haptic effects of the application
          Duration,   \* QFeedbackHapticsEffect::duration() of each, in ms
          Period,     \* QFeedbackHapticsEffect::period() of each, in ms
          IntMax,     \* the largest value of C's int
          Chain,      \* bound: the chains in flight at once
          Orphan,     \* a call nobody waits for any more
          MaxCalls    \* bound: the calls the bus holds at once

Infinite == -1        \* QFeedbackEffect::Infinite
State == {"Stopped", "Paused", "Running", "Loading"}
CInt == -IntMax - 1 .. IntMax

ASSUME EffectAssumption ==
  /\ IntMax \in Nat /\ IntMax >= 150
  /\ Effect # {} /\ Duration \in [Effect -> CInt] /\ Period \in [Effect -> CInt]
ASSUME OrphanAssumption == Orphan \notin Chain

VARIABLES
  state,     \* the plugin's one state
  phase,     \* where each chain is: "free", "start", "call" or "timer"
  effect,    \* the effect a chain was started for
  repeat,    \* the repetitions its callback in flight carries
  begun,     \* history: the D-Bus calls a chain has made, unless endless
  queue,     \* the calls on the bus, in the order they were made
  served,    \* how many of them the service has served: answers on their way
  playing    \* history: the effects last asked to run

bus == <<queue, served>>
flight == <<phase, effect, repeat, begun>>
vars == <<state, flight, bus, playing>>

AnyEffect == CHOOSE e \in Effect : TRUE    \* what a free chain carries
Free(c) == phase[c] = "free"

Init ==
  /\ state = "Stopped"
  /\ phase = [c \in Chain |-> "free"]
  /\ effect = [c \in Chain |-> AnyEffect]
  /\ repeat = [c \in Chain |-> 0]
  /\ begun = [c \in Chain |-> 0]
  /\ queue = <<>> /\ served = 0
  /\ playing = {}

-------------------------------------------------------------------------------
(* startVibration()'s arithmetic, in C's int: a sum that is too large wraps,   *)
(* and division rounds towards zero.                                           *)

Wrap(n) == IF n > IntMax THEN n - 2 * (IntMax + 1) ELSE n
Quotient(a, b) == IF a >= 0 THEN a \div b ELSE -((-a) \div b)

DurationOf(e) == IF Duration[e] = 0 THEN 150 ELSE Duration[e]
Endless(e) == DurationOf(e) < 0

PeriodOf(e) == IF Period[e] > 0 THEN Period[e]
               ELSE IF Endless(e) THEN 150 ELSE DurationOf(e)

RepeatRoundedDown(e) ==
  IF Endless(e) THEN Infinite ELSE DurationOf(e) \div PeriodOf(e)

\* A sum that wraps gives none, a negative number or, as it happens, Infinite.
RepeatOf(e) ==
  IF Endless(e) THEN Infinite
  ELSE IF Period[e] <= 0 THEN 1
  ELSE Quotient(Wrap(DurationOf(e) + PeriodOf(e) - 1), PeriodOf(e))

\* A timer is armed with period * 2; Qt arms none for a negative time.
TimerFits(e) == Wrap(2 * PeriodOf(e)) >= 0
SumFits(e) ==
  Endless(e) \/ Period[e] <= 0 \/ DurationOf(e) + PeriodOf(e) - 1 <= IntMax

-------------------------------------------------------------------------------
(* The callbacks. *)

\* Chain c ends: its callback has returned without arming another one.
EndChain(c) ==
  /\ phase' = [phase EXCEPT ![c] = "free"]
  /\ effect' = [effect EXCEPT ![c] = AnyEffect]
  /\ repeat' = [repeat EXCEPT ![c] = 0]
  /\ begun' = [begun EXCEPT ![c] = 0]

\* m_interface->vibrate(), with a watcher
Call(c, r) ==
  /\ Len(queue) < MaxCalls
  /\ phase' = [phase EXCEPT ![c] = "call"]
  /\ repeat' = [repeat EXCEPT ![c] = r]
  /\ begun' = [begun EXCEPT ![c] = IF r = Infinite THEN @ ELSE @ + 1]
  /\ queue' = Append(queue, c)
  /\ UNCHANGED <<effect, served>>

VibrateAlways(c, r) == UNCHANGED state /\ Call(c, r)

\* vibrate(period, r): a zero repetition stops (the period is never zero).
Vibrate(c, r) ==
  /\ state' = IF r = 0 THEN "Stopped" ELSE state
  /\ \/ state' # "Running" /\ EndChain(c) /\ UNCHANGED bus
     \/ state' = "Running" /\ Call(c, r)

\* singleShot(0) has fired: startVibration(effect).
StartVibration(c) ==
  /\ phase[c] = "start" /\ Vibrate(c, RepeatOf(effect[c]))
  /\ UNCHANGED playing

\* singleShot(period * 2) has fired.
VibrateAgain(c) ==
  /\ phase[c] = "timer" /\ Vibrate(c, repeat[c])
  /\ UNCHANGED playing

Answer == Head(queue)

ReplyForgetsToStop(c) == EndChain(c) /\ UNCHANGED state

\* The last repetition, or an error: the plugin is stopped.
LastReply(c) == EndChain(c) /\ state' = "Stopped"

ArmTimerCountsDown(c) ==
  /\ UNCHANGED state
  /\ phase' = [phase EXCEPT ![c] = "timer"]
  /\ repeat' = [repeat EXCEPT ![c] = @ - 1]
  /\ UNCHANGED <<effect, begun>>

\* The next timer, if its time is one.
ArmTimer(c) ==
  /\ UNCHANGED state
  /\ \/ ~TimerFits(effect[c]) /\ EndChain(c)
     \/ /\ TimerFits(effect[c])
        /\ phase' = [phase EXCEPT ![c] = "timer"]
        /\ repeat' = [repeat EXCEPT ![c] = IF @ = Infinite THEN @ ELSE @ - 1]
        /\ UNCHANGED <<effect, begun>>

\* Infinite, or --repeat > 0
More(r) == r = Infinite \/ r > 1

\* The answer to the oldest call on the bus is the next to arrive.
ReplyOk(c) ==
  /\ phase[c] = "call" /\ served > 0 /\ Answer = c
  /\ queue' = Tail(queue) /\ served' = served - 1
  /\ \/ More(repeat[c]) /\ ArmTimer(c)
     \/ ~More(repeat[c]) /\ LastReply(c)
  /\ UNCHANGED playing

ReplyErrorRetried(c) ==
  /\ phase[c] = "call"
  /\ phase' = [phase EXCEPT ![c] = "timer"]
  /\ queue' = [i \in DOMAIN queue |-> IF queue[i] = c THEN Orphan ELSE queue[i]]
  /\ UNCHANGED <<state, effect, repeat, begun, served, playing>>

\* An error: the service died or is missing, or the call timed out.  What the
\* bus holds of the call is served all the same, and nobody is told.
ReplyError(c) ==
  /\ phase[c] = "call" /\ LastReply(c)
  /\ queue' = [i \in DOMAIN queue |-> IF queue[i] = c THEN Orphan ELSE queue[i]]
  /\ UNCHANGED <<served, playing>>

-------------------------------------------------------------------------------
(* The service, and the bus. *)

Serve ==
  /\ served < Len(queue) /\ served' = served + 1
  /\ UNCHANGED <<state, flight, queue, playing>>

\* An answer that comes too late.
DropAnswer ==
  /\ served > 0 /\ Answer = Orphan
  /\ queue' = Tail(queue) /\ served' = served - 1
  /\ UNCHANGED <<state, flight, playing>>

\* The calls it has not answered get an error; the next call starts it again.
ServiceDies ==
  /\ served < Len(queue) /\ queue' = SubSeq(queue, 1, served)
  /\ UNCHANGED <<state, flight, served, playing>>

-------------------------------------------------------------------------------
(* The application. *)

\* setEffectState(e, s) for a state that plays nothing.
Halt(e, s) ==
  /\ state' = s /\ playing' = playing \ {e}
  /\ UNCHANGED <<flight, bus>>

\* setEffectState(e, Running): whatever is in flight stays in flight.
Run(e, c) ==
  /\ Free(c)
  /\ state' = "Running" /\ playing' = playing \cup {e}
  /\ phase' = [phase EXCEPT ![c] = "start"]
  /\ effect' = [effect EXCEPT ![c] = e]
  /\ UNCHANGED <<repeat, begun, bus>>

Application == \E e \in Effect :
  \/ \E s \in State \ {"Running"} : Halt(e, s)
  \/ \E c \in Chain : Run(e, c)

Callback(c) ==
  StartVibration(c) \/ VibrateAgain(c) \/ ReplyOk(c) \/ ReplyError(c)

Bus == Serve \/ DropAnswer \/ ServiceDies

Next == Application \/ Bus \/ \E c \in Chain : Callback(c)

\* The event loop runs, timers fire, calls are served, and answered one way or
\* the other; the application need not do anything.
Spec == /\ Init /\ [][Next]_vars
        /\ WF_vars(Serve \/ DropAnswer) /\ \A c \in Chain : WF_vars(Callback(c))

-------------------------------------------------------------------------------
(* Properties. *)

TypeOK ==
  /\ state \in State
  /\ phase \in [Chain -> {"free", "start", "call", "timer"}]
  /\ effect \in [Chain -> Effect]
  /\ repeat \in [Chain -> Nat \cup {Infinite} \cup {RepeatOf(e) : e \in Effect}]
  /\ begun \in [Chain -> Nat]
  /\ queue \in Seq(Chain \cup {Orphan})
  /\ served \in 0..Len(queue)
  /\ playing \subseteq Effect

Pending(c) == ~Free(c)
Unending(e) == RepeatOf(e) = Infinite

\* effectState() says Running only while a chain of an effect that was asked to
\* run will yet play or stop it: no path through the callbacks drops that chain
\* and stays Running, but for a period whose double does not fit an int.
RunningMeansPending == state = "Running" =>
  \E e \in playing :
    ~TimerFits(e) \/ \E c \in Chain : Pending(c) /\ effect[c] = e

\* A chain calls only as long as its effect's duration lasts, at one call per
\* period ("as many times as the duration may cover", lines 165-167), for all
\* durations but those whose sum with the period wraps to Infinite.
CallsWithinDuration == \A c \in Chain :
  Pending(c) /\ ~Unending(effect[c]) =>
    begun[c] = 0 \/ (begun[c] - 1) * PeriodOf(effect[c]) < DurationOf(effect[c])

\* A chain that ends while Running, and not by a failed call, has covered its
\* effect's duration, if the arithmetic fits; an endless one does not end so.
EndsCovered == [][\A c \in Chain :
  Pending(c) /\ Free(c)' /\ state = "Running" /\ ~ReplyError(c)
  /\ SumFits(effect[c]) /\ TimerFits(effect[c]) =>
    /\ ~Endless(effect[c])
    /\ begun[c] * PeriodOf(effect[c]) >= DurationOf(effect[c])]_vars

\* When the application leaves it stopped or paused, every chain dies out, the
\* endless ones too, and the service has nothing left to play.
HaltedDiesOut ==
  <>[](state # "Running") => <>[]((\A c \in Chain : Free(c)) /\ queue = <<>>)

\* Unless an unending effect is in flight, or was lost there, Running comes to
\* an end.
SomeUnending ==
  \/ \E c \in Chain : Pending(c) /\ Unending(effect[c])
  \/ \E e \in playing : ~TimerFits(e)
FiniteEnds == state = "Running" /\ ~SomeUnending
              ~> state # "Running" \/ SomeUnending

-------------------------------------------------------------------------------
(* The inductive strengthening of CallsWithinDuration and its kin. *)

\* The repetitions carried and the calls made add up to the effect's count.
CountFits(c) == LET R == RepeatOf(effect[c]) IN
  /\ phase[c] \in {"free", "start"} => begun[c] = 0
  /\ phase[c] = "call" =>
       \/ R = Infinite /\ repeat[c] = Infinite
       \/ R > 0 /\ repeat[c] > 0 /\ begun[c] + repeat[c] = R + 1
       \/ R < Infinite /\ repeat[c] = R /\ begun[c] = 1
  /\ phase[c] = "timer" =>
       \/ R = Infinite /\ repeat[c] = Infinite
       \/ R > 0 /\ repeat[c] > 0 /\ begun[c] + repeat[c] = R
IInv == RunningMeansPending /\ \A c \in Chain : CountFits(c)
===============================================================================
