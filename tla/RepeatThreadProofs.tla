-------------------------- MODULE RepeatThreadProofs --------------------------
(***************************************************************************)
(* RepeatThread.tla for every set of objects, every set of repetition      *)
(* counts and every width of int: its inductive invariant, the three       *)
(* safety properties that follow from it, and the refinement of            *)
(* PulseTrain.tla.                                                         *)
(***************************************************************************)
EXTENDS RepeatThread, TLAPS

USE DEF Run, Own, Hold, Release, Aborted

-------------------------------------------------------------------------------
(* Typing. *)

LEMMA RunnerTyping ==
  ASSUME TypeOK, NEW t \in Thread,
         RunnerStep(t) \/ Expire(t) \/ WakeSpuriously(t)
  PROVE  TypeOK'
<1> USE TimesAssumption DEF TypeOK
<1>1. CASE LoopTest(t) BY <1>1 DEF LoopTest
<1>2. CASE Lock(t) BY <1>2 DEF Lock
<1>3. CASE Test(t) BY <1>3 DEF Test
<1>4. CASE Block(t) BY <1>4 DEF Block
<1>5. CASE WakeOnTimeout(t) BY <1>5 DEF WakeOnTimeout
<1>6. CASE Relock(t) BY <1>6 DEF Relock
<1>7. CASE TimedOut(t) BY <1>7 DEF TimedOut
<1>8. CASE Call(t) BY <1>8 DEF Call
<1>9. CASE Return(t) BY <1>9 DEF Return
<1>10. CASE Expire(t) BY <1>10 DEF Expire
<1>11. CASE WakeSpuriously(t) BY <1>11 DEF WakeSpuriously
<1> QED BY <1>1, <1>2, <1>3, <1>4, <1>5, <1>6, <1>7, <1>8, <1>9, <1>10, <1>11
        DEF RunnerStep

LEMMA OwnerTyping ==
  ASSUME TypeOK, NEW t \in Thread,
         \/ \E n \in Times : Construct(t, n)
         \/ Destroy(t) \/ OwnerLock(t) \/ OwnerStep(t)
  PROVE  TypeOK'
<1> USE TimesAssumption DEF TypeOK
<1>1. CASE \E n \in Times : Construct(t, n) BY <1>1 DEF Construct
<1>2. CASE Destroy(t) BY <1>2 DEF Destroy
<1>3. CASE OwnerLock(t) BY <1>3 DEF OwnerLock
<1>4. CASE SetBreak(t) BY <1>4 DEF SetBreak
<1>5. CASE NotifyAll(t) BY <1>5 DEF NotifyAll
<1>6. CASE OwnerUnlock(t) BY <1>6 DEF OwnerUnlock
<1>7. CASE Join(t) BY <1>7 DEF Join
<1> QED BY <1>1, <1>2, <1>3, <1>4, <1>5, <1>6, <1>7 DEF OwnerStep

\* The state of every object keeps its type: no step stores a counter outside
\* the range of int or leaves runner() and abort() outside their own code.
THEOREM TypeCorrect == Spec => []TypeOK
<1>1. Init => TypeOK
  BY TimesAssumption DEF Init, TypeOK
<1>2. TypeOK /\ [Next]_vars => TypeOK'
  <2> SUFFICES ASSUME TypeOK, [Next]_vars PROVE TypeOK'
    OBVIOUS
  <2>1. CASE Next BY <2>1, RunnerTyping, OwnerTyping DEF Next
  <2>2. CASE UNCHANGED vars BY <2>2 DEF vars, TypeOK
  <2> QED BY <2>1, <2>2
<1> QED BY <1>1, <1>2, PTL DEF Spec

-------------------------------------------------------------------------------
(* The inductive invariant. *)

\* A step of object t leaves every other object as it was.
LEMMA OtherObjects ==
  ASSUME IInv, NEW t \in Thread, NEW s \in Thread, s # t,
         \/ RunnerStep(t) \/ Expire(t) \/ WakeSpuriously(t)
         \/ \E n \in Times : Construct(t, n)
         \/ Destroy(t) \/ OwnerLock(t) \/ OwnerStep(t)
  PROVE  /\ runner'[s] = runner[s] /\ owner'[s] = owner[s]
         /\ m_mutex'[s] = m_mutex[s] /\ m_break'[s] = m_break[s]
         /\ m_times'[s] = m_times[s] /\ iter'[s] = iter[s]
         /\ late'[s] = late[s]
BY DEF IInv, TypeOK, RunnerStep, LoopTest, Lock, Test, Block, WakeOnTimeout,
       Relock, TimedOut, Call, Return, Expire, WakeSpuriously, Construct,
       Destroy, OwnerLock, OwnerStep, SetBreak, NotifyAll, OwnerUnlock, Join

LEMMA RunnerKeepsObject ==
  ASSUME IInv, NEW t \in Thread,
         RunnerStep(t) \/ Expire(t) \/ WakeSpuriously(t)
  PROVE  ObjectFits(t)'
<1> USE TimesAssumption DEF IInv, TypeOK, ObjectFits, MutexFits, FlagFits,
                            AwakeFits, LateFits, CounterFits
<1>1. CASE LoopTest(t) BY <1>1 DEF LoopTest
<1>2. CASE Lock(t) BY <1>2 DEF Lock
<1>3. CASE Test(t) BY <1>3 DEF Test
<1>4. CASE Block(t) BY <1>4 DEF Block
<1>5. CASE WakeOnTimeout(t) BY <1>5 DEF WakeOnTimeout
<1>6. CASE Relock(t) BY <1>6 DEF Relock
<1>7. CASE TimedOut(t) BY <1>7 DEF TimedOut
<1>8. CASE Call(t) BY <1>8 DEF Call
<1>9. CASE Return(t) BY <1>9 DEF Return
<1>10. CASE Expire(t) BY <1>10 DEF Expire
<1>11. CASE WakeSpuriously(t) BY <1>11 DEF WakeSpuriously
<1> QED BY <1>1, <1>2, <1>3, <1>4, <1>5, <1>6, <1>7, <1>8, <1>9, <1>10, <1>11
        DEF RunnerStep

LEMMA OwnerKeepsObject ==
  ASSUME IInv, NEW t \in Thread,
         \/ \E n \in Times : Construct(t, n)
         \/ Destroy(t) \/ OwnerLock(t) \/ OwnerStep(t)
  PROVE  ObjectFits(t)'
<1> USE TimesAssumption DEF IInv, TypeOK, ObjectFits, MutexFits, FlagFits,
                            AwakeFits, LateFits, CounterFits
<1>1. CASE \E n \in Times : Construct(t, n) BY <1>1 DEF Construct
<1>2. CASE Destroy(t) BY <1>2 DEF Destroy
<1>3. CASE OwnerLock(t) BY <1>3 DEF OwnerLock
<1>4. CASE SetBreak(t) BY <1>4 DEF SetBreak
<1>5. CASE NotifyAll(t) BY <1>5 DEF NotifyAll
<1>6. CASE OwnerUnlock(t) BY <1>6 DEF OwnerUnlock
<1>7. CASE Join(t) BY <1>7 DEF Join
<1> QED BY <1>1, <1>2, <1>3, <1>4, <1>5, <1>6, <1>7 DEF OwnerStep

LEMMA InitIInv == Init => IInv
BY TimesAssumption DEF Init, IInv, TypeOK, ObjectFits, MutexFits, FlagFits,
                       AwakeFits, LateFits, CounterFits

LEMMA NextIInv == IInv /\ [Next]_vars => IInv'
<1> SUFFICES ASSUME IInv, [Next]_vars PROVE IInv'
  OBVIOUS
<1>1. CASE Next
  <2>1. PICK t \in Thread :
          \/ RunnerStep(t) \/ Expire(t) \/ WakeSpuriously(t)
          \/ \E n \in Times : Construct(t, n)
          \/ Destroy(t) \/ OwnerLock(t) \/ OwnerStep(t)
    BY <1>1 DEF Next
  <2>2. TypeOK'
    BY <2>1, RunnerTyping, OwnerTyping DEF IInv
  <2>3. ObjectFits(t)'
    BY <2>1, RunnerKeepsObject, OwnerKeepsObject
  <2>4. ASSUME NEW s \in Thread, s # t PROVE ObjectFits(s)'
    <3>1. ObjectFits(s)
      BY DEF IInv
    <3> QED
      BY <3>1, <2>1, <2>4, OtherObjects
      DEF ObjectFits, MutexFits, FlagFits, AwakeFits, LateFits, CounterFits
  <2> QED BY <2>2, <2>3, <2>4 DEF IInv
<1>2. CASE UNCHANGED vars
  BY <1>2 DEF vars, IInv, TypeOK, ObjectFits, MutexFits, FlagFits, AwakeFits,
              LateFits, CounterFits
<1> QED BY <1>1, <1>2

\* The strengthening holds in every reachable state.
THEOREM InductiveInvariant == Spec => []IInv
BY InitIInv, NextIInv, PTL DEF Spec

\* abort() is never left waiting for a thread that sleeps on.
THEOREM NoLostWakeupHolds == Spec => []NoLostWakeup
<1>1. IInv => NoLostWakeup
  BY DEF IInv, ObjectFits, AwakeFits, NoLostWakeup
<1> QED BY <1>1, InductiveInvariant, PTL

\* m_func is begun at most once after abort() has set the flag.
THEOREM AtMostOneLateCallHolds == Spec => []AtMostOneLateCall
<1>1. IInv => AtMostOneLateCall
  BY DEF IInv, ObjectFits, LateFits, AtMostOneLateCall
<1> QED BY <1>1, InductiveInvariant, PTL

\* A destroyed object has no thread and no locked mutex.
THEOREM NoUseAfterDestroyHolds == Spec => []NoUseAfterDestroy
<1>1. IInv => NoUseAfterDestroy
  BY DEF IInv, TypeOK, ObjectFits, MutexFits, FlagFits, NoUseAfterDestroy
<1> QED BY <1>1, InductiveInvariant, PTL

-------------------------------------------------------------------------------
(* The refinement of PulseTrain. *)

PhaseMap == [t \in Thread |-> PhaseOf(t)]
BudgetMap == [t \in Thread |-> LeftToCall(t)]

\* The mapped state changes at the acting object only.
LEMMA MappedStep ==
  ASSUME IInv, NEW t \in Thread,
         \/ RunnerStep(t) \/ Expire(t) \/ WakeSpuriously(t)
         \/ \E n \in Times : Construct(t, n)
         \/ Destroy(t) \/ OwnerLock(t) \/ OwnerStep(t)
  PROVE  /\ PhaseMap' = [PhaseMap EXCEPT ![t] = PhaseOf(t)']
         /\ BudgetMap' = [BudgetMap EXCEPT ![t] = LeftToCall(t)']
<1>1. \A s \in Thread : s # t =>
        /\ runner'[s] = runner[s] /\ owner'[s] = owner[s]
        /\ m_times'[s] = m_times[s] /\ iter'[s] = iter[s]
  BY OtherObjects
<1>2. \A s \in Thread : s # t =>
        PhaseOf(s)' = PhaseOf(s) /\ LeftToCall(s)' = LeftToCall(s)
  BY <1>1 DEF PhaseOf, LeftToCall
<1> QED BY <1>2 DEF PhaseMap, BudgetMap

\* How each step moves the phase and the budget of its object.
LEMMA RunnerMaps ==
  ASSUME IInv, NEW t \in Thread,
         RunnerStep(t) \/ Expire(t) \/ WakeSpuriously(t)
  PROVE  \/ PhaseOf(t)' = PhaseOf(t) /\ LeftToCall(t)' = LeftToCall(t)
         \/ /\ PhaseOf(t) = "resting" /\ LeftToCall(t) # 0
            /\ PhaseOf(t)' = "pulsing"
            /\ LeftToCall(t)' = IF LeftToCall(t) = -1 THEN -1
                                                     ELSE LeftToCall(t) - 1
         \/ /\ PhaseOf(t) = "pulsing" /\ PhaseOf(t)' = "resting"
            /\ LeftToCall(t)' = LeftToCall(t)
         \/ /\ PhaseOf(t) = "resting" /\ LeftToCall(t) = 0
            /\ PhaseOf(t)' = "over" /\ LeftToCall(t)' = 0
<1> USE TimesAssumption DEF IInv, TypeOK, ObjectFits, MutexFits, FlagFits,
                            CounterFits, PhaseOf, LeftToCall
<1>1. CASE LoopTest(t) BY <1>1 DEF LoopTest
<1>2. CASE Lock(t) BY <1>2 DEF Lock
<1>3. CASE Test(t) BY <1>3 DEF Test
<1>4. CASE Block(t) BY <1>4 DEF Block
<1>5. CASE WakeOnTimeout(t) BY <1>5 DEF WakeOnTimeout
<1>6. CASE Relock(t) BY <1>6 DEF Relock
<1>7. CASE TimedOut(t) BY <1>7 DEF TimedOut
<1>8. CASE Call(t) BY <1>8 DEF Call
<1>9. CASE Return(t) BY <1>9 DEF Return
<1>10. CASE Expire(t) BY <1>10 DEF Expire
<1>11. CASE WakeSpuriously(t) BY <1>11 DEF WakeSpuriously
<1> QED BY <1>1, <1>2, <1>3, <1>4, <1>5, <1>6, <1>7, <1>8, <1>9, <1>10, <1>11
        DEF RunnerStep

LEMMA OwnerMaps ==
  ASSUME IInv, NEW t \in Thread, Destroy(t) \/ OwnerLock(t) \/ OwnerStep(t)
  PROVE  /\ PhaseOf(t)' = PhaseOf(t)
         /\ \/ LeftToCall(t)' = LeftToCall(t)
            \/ /\ LeftToCall(t) # 0
               /\ \/ LeftToCall(t)' = 0
                  \/ PhaseOf(t) = "resting" /\ LeftToCall(t)' = 1
<1> USE TimesAssumption DEF IInv, TypeOK, ObjectFits, MutexFits, FlagFits,
                            CounterFits, PhaseOf, LeftToCall
<1>1. CASE Destroy(t) BY <1>1 DEF Destroy
<1>2. CASE OwnerLock(t) BY <1>2 DEF OwnerLock
<1>3. CASE SetBreak(t) BY <1>3 DEF SetBreak
<1>4. CASE NotifyAll(t) BY <1>4 DEF NotifyAll
<1>5. CASE OwnerUnlock(t) BY <1>5 DEF OwnerUnlock
<1>6. CASE Join(t) BY <1>6 DEF Join
<1> QED BY <1>1, <1>2, <1>3, <1>4, <1>5, <1>6 DEF OwnerStep

LEMMA ConstructMaps ==
  ASSUME IInv, NEW t \in Thread, NEW n \in Times, Construct(t, n)
  PROVE  /\ PhaseOf(t) = "over" /\ PhaseOf(t)' = "resting"
         /\ LeftToCall(t)' = Train!Owed(n)
BY TimesAssumption DEF IInv, TypeOK, Construct, PhaseOf, LeftToCall,
                       Train!Owed, Train!Forever

LEMMA StepImplements ==
  ASSUME IInv, [Next]_vars PROVE [Train!Next]_(Train!vars)
<1> USE DEF Train!vars, PhaseMap, BudgetMap
<1>1. CASE Next
  <2>1. PICK t \in Thread :
          \/ RunnerStep(t) \/ Expire(t) \/ WakeSpuriously(t)
          \/ \E n \in Times : Construct(t, n)
          \/ Destroy(t) \/ OwnerLock(t) \/ OwnerStep(t)
    BY <1>1 DEF Next
  <2>2. /\ PhaseMap' = [PhaseMap EXCEPT ![t] = PhaseOf(t)']
        /\ BudgetMap' = [BudgetMap EXCEPT ![t] = LeftToCall(t)']
    BY <2>1, MappedStep
  <2>3. CASE RunnerStep(t) \/ Expire(t) \/ WakeSpuriously(t)
    BY <2>2, <2>3, RunnerMaps
    DEF Train!Next, Train!BeginPulse, Train!EndPulse, Train!Finish,
        Train!Forever
  <2>4. CASE Destroy(t) \/ OwnerLock(t) \/ OwnerStep(t)
    BY <2>2, <2>4, OwnerMaps DEF Train!Next, Train!Revoke
  <2>5. CASE \E n \in Times : Construct(t, n)
    <3>1. PICK n \in Times : Construct(t, n)
      BY <2>5
    <3>2. /\ PhaseOf(t) = "over" /\ PhaseOf(t)' = "resting"
          /\ LeftToCall(t)' = Train!Owed(n)
      BY <3>1, ConstructMaps
    <3>3. Train!Start(t, n)
      BY <2>2, <3>2 DEF Train!Start
    <3> QED BY <3>3 DEF Train!Next
  <2> QED BY <2>1, <2>3, <2>4, <2>5
<1>2. CASE UNCHANGED vars
  BY <1>2 DEF vars, PhaseOf, LeftToCall
<1> QED BY <1>1, <1>2

\* The thread implements PulseTrain: m_times + 1 calls, none more than the one
\* it was committed to once its destruction has begun.
THEOREM Implements == Spec => ImplementsPulseTrain
<1>1. Init => Train!Init
  BY DEF Init, Train!Init, PhaseOf, LeftToCall
<1>2. IInv /\ [Next]_vars => [Train!Next]_(Train!vars)
  BY StepImplements
<1> QED
  BY <1>1, <1>2, InductiveInvariant, PTL DEF Spec, Train!Spec, ImplementsPulseTrain
===============================================================================
