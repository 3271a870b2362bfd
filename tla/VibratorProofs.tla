---------------------------- MODULE VibratorProofs ----------------------------
(***************************************************************************)
(* Vibrator.tla for every set of thread objects, repetition counts,        *)
(* durations and back ends: rumble() leaves no pattern but the last one,   *)
(* and at most two actors are inside configure().                          *)
(***************************************************************************)
EXTENDS Vibrator, TLAPS

USE DEF RT!Run, RT!Own, RT!Hold, RT!Release

\* The part of the typing the argument needs.
RunnerAt == {"head", "lock", "test", "wait", "blocked", "relock", "timeout",
             "call", "func", "done"}
OwnerAt == {"none", "alive", "lock", "set", "notify", "unlock", "join"}

Shape ==
  /\ runner \in [Thread -> RunnerAt]
  /\ owner \in [Thread -> OwnerAt]
  /\ at \in [Actor -> Nat]
  /\ m_repeatThread \in Thread \cup {NoThread}
  /\ dying \in Thread \cup {NoThread}
  /\ mpc \in {"down", "idle", "release"}
  /\ closed \in BOOLEAN

Inv == Shape /\ IInv

USE DEF Inv, Shape, RunnerAt, OwnerAt, IInv, MainFits, ThreadFits, Actor

LEMMA InitInv == Init => Inv
<1> SUFFICES ASSUME Init PROVE Inv
  OBVIOUS
<1>1. Shape
  BY DEF Init, RT!Init
<1> QED BY <1>1, NamesAssumption DEF Init, RT!Init

\* configure() moves its own actor, which is inside m_func if it is a thread.
LEMMA ConfigureInv ==
  ASSUME Inv, NEW a \in Actor, Configure(a)
  PROVE  Inv'
<1>1. PICK op : Performs(a, op)
  BY DEF Configure, Play, Sleep, Stop, SetState, SetDuration, Activate, Enable, Transact,
         PrintOnly, Unheard
<1>2. /\ at[a] # 0 /\ at' \in [Actor -> Nat]
      /\ \A b \in Actor : b # a => at'[b] = at[b]
  BY <1>1 DEF Performs
<1>3. UNCHANGED <<threads, mpc, pattern, object>>
  BY <1>1 DEF Performs
<1> QED
  BY <1>2, <1>3, NamesAssumption DEF threads, pattern, object

\* A thread's own steps between two calls.
LEMMA ThreadInv ==
  ASSUME Inv, NEW t \in Thread, ThreadStep(t) \/ ClockStep(t) \/ SpuriousStep(t)
  PROVE  Inv'
<1>1. UNCHANGED <<mpc, pattern, calls, object, owner>>
  BY DEF ThreadStep, ClockStep, SpuriousStep, RT!LoopTest, RT!Lock, RT!Test,
         RT!Block, RT!WakeOnTimeout, RT!Relock, RT!TimedOut, RT!Expire,
         RT!WakeSpuriously
<1>2. \/ runner' = runner
      \/ /\ runner[t] \notin {"done", "func"}
         /\ \E pc \in RunnerAt : runner' = [runner EXCEPT ![t] = pc]
  BY DEF ThreadStep, ClockStep, SpuriousStep, RT!LoopTest, RT!Lock, RT!Test,
         RT!Block, RT!WakeOnTimeout, RT!Relock, RT!TimedOut, RT!Expire,
         RT!WakeSpuriously
<1> QED
  BY <1>1, <1>2 DEF calls, pattern, object

LEMMA CallInv ==
  ASSUME Inv, NEW t \in Thread, CallFunc(t) \/ FuncReturns(t)
  PROVE  Inv'
<1>1. CASE CallFunc(t)
  BY <1>1, NamesAssumption DEF CallFunc, RT!Call, Begin, pattern, object
<1>2. CASE FuncReturns(t)
  BY <1>2 DEF FuncReturns, RT!Return, pattern, calls, object
<1> QED BY <1>1, <1>2

LEMMA VibrateInv ==
  ASSUME Inv, NEW d \in Durations, Vibrate(d)
  PROVE  Inv'
BY NamesAssumption DEF Vibrate, Ready, Begin, threads, pattern, object

\* The new object was free, so it is not the one it replaces.
LEMMA RumbleInv ==
  ASSUME Inv, NEW t \in Thread, NEW d \in Durations, NEW n \in Times,
         Rumble(t, d, n)
  PROVE  Inv'
BY NamesAssumption DEF Rumble, Ready, RT!Construct, calls, object

LEMMA ReleaseInv ==
  ASSUME Inv, TakeMutex \/ AbortOld \/ JoinOld
  PROVE  Inv'
<1>1. dying \in Thread /\ dying # m_repeatThread
  BY DEF TakeMutex, AbortOld, JoinOld
<1>2. CASE TakeMutex
  BY <1>1, <1>2 DEF TakeMutex, RT!OwnerLock, pattern, calls, object
<1>3. CASE AbortOld
  <2>1. /\ owner[dying] # "none"
        /\ \E pc \in OwnerAt \ {"none"} : owner' = [owner EXCEPT ![dying] = pc]
    BY <1>1, <1>3
    DEF AbortOld, RT!Destroy, RT!SetBreak, RT!NotifyAll, RT!OwnerUnlock
  <2>2. \/ runner' = runner
        \/ /\ runner[dying] = "blocked"
           /\ runner' = [runner EXCEPT ![dying] = "relock"]
    BY <1>1, <1>3
    DEF AbortOld, RT!Destroy, RT!SetBreak, RT!NotifyAll, RT!OwnerUnlock
  <2> QED
    BY <1>1, <1>3, <2>1, <2>2 DEF AbortOld, pattern, calls, object
<1>4. CASE JoinOld
  BY <1>1, <1>4, NamesAssumption DEF JoinOld, RT!Join, calls, object
<1> QED BY <1>2, <1>3, <1>4

\* A destruction releases the current thread, as rumble() releases the old one.
LEMMA DestroyInv ==
  ASSUME Inv, Destroy \/ DropThread
  PROVE  Inv'
<1>1. CASE Destroy
  BY <1>1 DEF Destroy, Ready, threads, pattern
<1>2. CASE DropThread
  <2>1. /\ closed /\ UNCHANGED <<runner, owner, at, closed>>
        /\ dying' = m_repeatThread /\ m_repeatThread' = NoThread
        /\ mpc = "idle" /\ mpc' = "release" /\ m_repeatThread # NoThread
    BY <1>2 DEF DropThread, threads, calls, object
  <2>2. dying = NoThread /\ at[Main] = 0
    BY <2>1
  <2> QED BY <2>1, <2>2, NamesAssumption
<1> QED BY <1>1, <1>2

LEMMA ProcessInv ==
  ASSUME Inv, Exit \/ Die \/ Start \/ PulseEnds
  PROVE  Inv'
<1>1. CASE Exit \/ Die
  <2>1. End
    BY <1>1 DEF Exit, Die
  <2> QED BY <2>1, NamesAssumption DEF End
<1>2. CASE Start BY <1>2 DEF Start, threads, pattern, calls, object
<1>3. CASE PulseEnds BY <1>3 DEF PulseEnds, threads, pattern, calls, object
<1> QED BY <1>1, <1>2, <1>3

LEMMA NextInv == Inv /\ [Next]_vars => Inv'
<1> SUFFICES ASSUME Inv, [Next]_vars PROVE Inv'
  OBVIOUS
<1>1. CASE \E a \in Actor : Configure(a)
  BY <1>1, ConfigureInv
<1>2. CASE \E t \in Thread : ThreadStep(t) \/ ClockStep(t) \/ SpuriousStep(t)
  BY <1>2, ThreadInv
<1>3. CASE \E t \in Thread : CallFunc(t) \/ FuncReturns(t)
  BY <1>3, CallInv
<1>4. CASE ClientCall
  BY <1>4, VibrateInv, RumbleInv DEF ClientCall
<1>5. CASE TakeMutex \/ AbortOld \/ JoinOld
  BY <1>5, ReleaseInv
<1>6. CASE Destroy \/ DropThread
  BY <1>6, DestroyInv
<1>7. CASE Exit \/ Die \/ Start \/ PulseEnds
  BY <1>7, ProcessInv
<1>8. CASE UNCHANGED vars
  BY <1>8 DEF vars, threads, pattern, calls, object
<1> QED BY <1>1, <1>2, <1>3, <1>4, <1>5, <1>6, <1>7, <1>8 DEF Next

\* The pointers, the objects and the calls inside configure() agree in every
\* reachable state.
THEOREM RumbleInvariant == Spec => []IInv
<1>1. Inv => IInv
  OBVIOUS
<1> QED BY <1>1, InitInv, NextInv, PTL DEF Spec

\* Once rumble() has returned, the replaced pattern makes no more calls.
THEOREM NoStalePatternHolds == Spec => []NoStalePattern
<1>1. Inv => NoStalePattern
  BY NamesAssumption DEF NoStalePattern
<1> QED BY <1>1, InitInv, NextInv, PTL DEF Spec

\* The unlocked configure() is never entered by three actors.
THEOREM AtMostTwoConfigureHolds == Spec => []AtMostTwoConfigure
<1>1. ASSUME Inv PROVE AtMostTwoConfigure
  <2>1. \A t \in Thread : at[t] # 0 => t \in {m_repeatThread, dying}
    BY <1>1
  <2>2. at[Main] # 0 => dying = NoThread
    BY <1>1
  <2> QED
    BY <2>1, <2>2, NamesAssumption DEF AtMostTwoConfigure
<1> QED BY <1>1, InitInv, NextInv, PTL DEF Spec
===============================================================================
