------------------------- MODULE VibratorDeviceProofs -------------------------
(***************************************************************************)
(* Theorems about the vibrator's device, for any threads, durations,       *)
(* counts and set of back ends.                                            *)
(*                                                                         *)
(* The invariant says of each actor in configure() what it has behind it   *)
(* (at), of the motor that an effect without a timer plays only between    *)
(* the play and the stop of some actor, or after a stop that was missed,   *)
(* and of every duration on its way to the motor that a client of this     *)
(* process has asked for it.  The threads' own invariant, proved for       *)
(* RepeatThread alone in RepeatThreadProofs, is instantiated for those of  *)
(* rumble() (RTP): the steps of Vibrator that concern them are its steps,  *)
(* and the death of the process, which is not, starts them anew.           *)
(***************************************************************************)
EXTENDS VibratorProofs

RTP == INSTANCE RepeatThreadProofs

HIDE DEF RT!Run, RT!Own, RT!Hold, RT!Release,
         Inv, Shape, RunnerAt, OwnerAt, IInv, MainFits, ThreadFits, Actor

\* What each back end's configure() consists of.
LEMMA ProgramIs ==
  /\ backend = "ff" => /\ Len(Program[backend]) = 3
                       /\ Program[backend][1] = "play"
                       /\ Program[backend][2] = "sleep"
                       /\ Program[backend][3] = "stop"
  /\ backend = "sysfs" => /\ Len(Program[backend]) = 3
                          /\ Program[backend][1] = "state"
                          /\ Program[backend][2] = "duration"
                          /\ Program[backend][3] = "activate"
  /\ backend = "legacy" => /\ Len(Program[backend]) = 1
                           /\ Program[backend][1] = "enable"
  /\ backend = "binder" => /\ Len(Program[backend]) = 1
                           /\ Program[backend][1] = "transact"
  /\ backend = "dummy" => /\ Len(Program[backend]) = 1
                          /\ Program[backend][1] = "print"
BY DEF Program

\* The types, and that nobody is past the end of configure().
DataOK ==
  /\ durationMs \in [Thread -> Nat]
  /\ at \in [Actor -> Nat]
  /\ \A a \in Actor : at[a] <= Len(Program[backend])
  /\ arg \in [Actor -> Nat]
  /\ backend \in Backends
  /\ motor \in Nat \cup {-1}
  /\ register \in Nat
  /\ clean \in [Actor -> BOOLEAN]
  /\ lost \in BOOLEAN
  /\ asked \subseteq Durations

\* An effect is on only on a device that is open, and only between the play
\* and the stop of some configure(), or when it has missed a stop.
MotorFits ==
  motor = -1 => /\ backend = "ff" /\ ~closed
                /\ lost \/ \E a \in Actor : at[a] \in {2, 3}

\* When there is no process, there is no pattern and nobody is in configure().
DownFits ==
  mpc = "down" => m_repeatThread = NoThread /\ dying = NoThread /\ at[Main] = 0

\* Every duration on its way to the motor was asked for: what an actor in
\* configure() was called with, what a pattern will call it with, and what the
\* attribute holds when the pulse is to be activated, whoever has written it.
AskedFits ==
  /\ \A a \in Actor : at[a] # 0 => arg[a] \in asked
  /\ \A t \in Thread : t \in {m_repeatThread, dying} => durationMs[t] \in asked
  /\ backend = "sysfs" /\ ~closed =>
       \A a \in Actor : at[a] = 3 => register \in asked
  /\ OnlyWhatWasAsked

\* What an undisturbed actor finds before each of its operations.
CleanFits(a) == clean[a] =>
  /\ at[a] # 0 /\ ~closed
  /\ at[a] = 1 => motor = 0
  /\ backend = "ff" /\ at[a] \in {2, 3} => motor = -1 \/ lost
  /\ backend = "sysfs" => motor = 0
  /\ backend = "sysfs" /\ at[a] = 3 => register = arg[a]

DevInv ==
  DataOK /\ MotorFits /\ DownFits /\ AskedFits /\ \A a \in Actor : CleanFits(a)

-------------------------------------------------------------------------------
(* The threads. *)

\* The two instances of RepeatThread mean the same.
LEMMA ThreadTerms ==
  /\ RT!IInv <=> RTP!IInv
  /\ RT!Init <=> RTP!Init
BY DEF RT!IInv, RTP!IInv, RT!TypeOK, RTP!TypeOK, RT!ObjectFits, RTP!ObjectFits,
       RT!MutexFits, RTP!MutexFits, RT!FlagFits, RTP!FlagFits, RT!AwakeFits,
       RTP!AwakeFits, RT!LateFits, RTP!LateFits, RT!CounterFits, RTP!CounterFits,
       RT!Aborted, RTP!Aborted, RT!Init, RTP!Init

\* What a thread does by itself is a step of RepeatThread.
LEMMA ThreadSteps ==
  ASSUME NEW t \in Thread,
         \/ RT!LoopTest(t) \/ RT!Lock(t) \/ RT!Test(t) \/ RT!Block(t)
         \/ RT!WakeOnTimeout(t) \/ RT!Relock(t) \/ RT!TimedOut(t)
         \/ RT!Expire(t) \/ RT!WakeSpuriously(t) \/ RT!Call(t) \/ RT!Return(t)
  PROVE  RTP!Next
BY DEF RTP!Next, RTP!RunnerStep, RT!Run, RTP!Run, RT!Own, RTP!Own, RT!Hold, RTP!Hold,
       RT!Release, RTP!Release, RT!Aborted, RTP!Aborted,
       RT!LoopTest, RTP!LoopTest, RT!Lock, RTP!Lock, RT!Test, RTP!Test,
       RT!Block, RTP!Block, RT!WakeOnTimeout, RTP!WakeOnTimeout,
       RT!Relock, RTP!Relock, RT!TimedOut, RTP!TimedOut, RT!Expire, RTP!Expire,
       RT!WakeSpuriously, RTP!WakeSpuriously, RT!Call, RTP!Call, RT!Return, RTP!Return

\* What the main thread does to a thread is a step of RepeatThread.
LEMMA OwnerSteps ==
  ASSUME NEW t \in Thread,
         \/ \E n \in Times : RT!Construct(t, n)
         \/ RT!Destroy(t) \/ RT!OwnerLock(t) \/ RT!SetBreak(t) \/ RT!NotifyAll(t)
         \/ RT!OwnerUnlock(t) \/ RT!Join(t)
  PROVE  RTP!Next
BY DEF RTP!Next, RTP!OwnerStep, RT!Run, RTP!Run, RT!Own, RTP!Own, RT!Hold, RTP!Hold,
       RT!Release, RTP!Release, RT!Construct, RTP!Construct, RT!Destroy, RTP!Destroy,
       RT!OwnerLock, RTP!OwnerLock, RT!SetBreak, RTP!SetBreak, RT!NotifyAll,
       RTP!NotifyAll, RT!OwnerUnlock, RTP!OwnerUnlock, RT!Join, RTP!Join

\* Whatever the process does, its thread objects make a step of RepeatThread or
\* none, or are as in its initial state.
LEMMA ThreadsRefine ==
  ASSUME Inv, [Next]_vars
  PROVE  RTP!Next \/ UNCHANGED threads \/ RT!Init'
<1>1. CASE \E a \in Actor : Configure(a)
  BY <1>1 DEF Configure, Play, Sleep, Stop, SetState, SetDuration, Activate, Enable,
              Transact, PrintOnly, Unheard, Performs
<1>2. CASE \E t \in Thread : ThreadStep(t) \/ ClockStep(t) \/ SpuriousStep(t)
                           \/ CallFunc(t) \/ FuncReturns(t)
  BY <1>2, ThreadSteps DEF ThreadStep, ClockStep, SpuriousStep, CallFunc, FuncReturns
<1>3. CASE ClientCall
  BY <1>3, OwnerSteps DEF ClientCall, Vibrate, Rumble
<1>4. CASE TakeMutex \/ AbortOld \/ JoinOld
  <2>1. dying \in Thread
    BY <1>4 DEF TakeMutex, AbortOld, JoinOld, Inv, Shape, IInv, MainFits
  <2> QED BY <1>4, <2>1, OwnerSteps DEF TakeMutex, AbortOld, JoinOld
<1>5. CASE Destroy \/ DropThread \/ Start \/ PulseEnds
  BY <1>5 DEF Destroy, DropThread, Start, PulseEnds
<1>6. CASE Exit \/ Die
  BY <1>6 DEF Exit, Die, End, RT!Init
<1>7. CASE UNCHANGED vars
  BY <1>7 DEF vars
<1> QED BY <1>1, <1>2, <1>3, <1>4, <1>5, <1>6, <1>7 DEF Next

\* Without threads, the invariant of the threads holds.
LEMMA ThreadsInit == RT!Init => RT!IInv
BY ThreadTerms, RTP!InitIInv, CountsAssumption

\* Every step of the process keeps the invariant of the threads.
LEMMA ThreadsInv ==
  ASSUME Inv, RT!IInv, [Next]_vars
  PROVE  RT!IInv'
<1>1. RTP!IInv
  BY ThreadTerms
<1>2. CASE RTP!Next
  <2>1. RTP!IInv'
    BY <1>1, <1>2, RTP!NextIInv, CountsAssumption
  <2> QED BY <2>1, ThreadTerms, PTL
<1>3. CASE UNCHANGED threads
  <2>1. UNCHANGED RTP!vars
    BY <1>3 DEF threads, RTP!vars
  <2>2. RTP!IInv'
    BY <1>1, <2>1, RTP!NextIInv, CountsAssumption
  <2> QED BY <2>2, ThreadTerms, PTL
<1>4. CASE RT!Init'
  BY <1>4, ThreadsInit, PTL
<1> QED BY <1>2, <1>3, <1>4, ThreadsRefine

-------------------------------------------------------------------------------
(* The device: one lemma per kind of step, and under it one step per part of *)
(* the invariant.                                                            *)

\* What the parts are made of.
LEMMA DevIs ==
  ASSUME Inv
  PROVE  /\ mpc \in {"down", "idle", "release"} /\ closed \in BOOLEAN
         /\ \A t \in Thread : at[t] # 0 => runner[t] = "func"
         /\ \A t \in Thread : runner[t] # "done" => t \in {m_repeatThread, dying}
         /\ m_repeatThread = NoThread /\ dying = NoThread =>
              \A t \in Thread : runner[t] = "done" /\ at[t] = 0
         /\ mpc = "release" => dying \in Thread
         /\ mpc = "release" \/ closed => at[Main] = 0
BY NamesAssumption DEF Inv, Shape, IInv, MainFits, ThreadFits, RunnerAt

\* What it takes for a motor to miss what it is told.
LEMMA TakesIs ==
  ASSUME NEW m, Takes(m)
  PROVE  motor' = m /\ ~lost' /\ lost' \in BOOLEAN
BY Zenon DEF Takes

LEMMA MissesIs ==
  ASSUME NEW m, Misses(m)
  PROVE  motor' = motor /\ (motor # m => lost') /\ lost' \in BOOLEAN
<1>1. motor' = motor /\ lost' = (motor # m)
  BY Zenon DEF Misses
<1>2. (motor # m) \in BOOLEAN
  BY Zenon
<1>3. motor # m => lost'
  BY <1>1, Zenon
<1>4. lost' \in BOOLEAN
  BY <1>1, <1>2, Zenon
<1> QED BY <1>1, <1>3, <1>4

\* Steps that touch neither the calls nor the device.
LEMMA Elsewhere ==
  ASSUME Inv, DevInv,
         UNCHANGED <<at, arg, clean, motor, register, lost, backend, closed>>,
         durationMs' \in [Thread -> Nat],
         asked \subseteq asked', asked' \subseteq Durations,
         \A t \in Thread :
           t \in {m_repeatThread', dying'} => durationMs'[t] \in asked',
         mpc' = "down" <=> mpc = "down",
         mpc' = "down" => UNCHANGED <<m_repeatThread, dying>>
  PROVE  DevInv'
<1>1. DataOK'
  BY DEF DevInv, DataOK, Actor, Program
<1>2. MotorFits'
  BY DEF DevInv, MotorFits, Actor
<1>3. DownFits'
  BY DEF DevInv, DownFits
<1>4. AskedFits'
  BY DEF DevInv, AskedFits, OnlyWhatWasAsked, Actor
<1>5. \A a \in Actor : CleanFits(a)'
  BY DEF DevInv, CleanFits
<1> QED BY <1>1, <1>2, <1>3, <1>4, <1>5 DEF DevInv, Actor

\* Somebody enters configure().
LEMMA BeginKeeps ==
  ASSUME Inv, DevInv, NEW a \in Actor, NEW d \in Nat, at[a] = 0, Begin(a, d),
         UNCHANGED <<mpc, m_repeatThread, dying, durationMs, motor, register, lost,
                     backend, closed>>,
         mpc # "down", asked \subseteq asked', asked' \subseteq Durations, d \in asked'
  PROVE  DevInv'
<1>1. /\ at' = [at EXCEPT ![a] = 1] /\ arg' = [arg EXCEPT ![a] = d]
      /\ clean' = [clean EXCEPT ![a] =
                      motor = 0 /\ ~closed /\ \A b \in Actor : at[b] = 0]
  BY DEF Begin
<1>2. at' \in [Actor -> Nat] /\ arg' \in [Actor -> Nat]
  BY <1>1 DEF DevInv, DataOK
<1>3. clean' \in [Actor -> BOOLEAN]
  BY <1>1, Zenon DEF DevInv, DataOK
<1>4. 1 <= Len(Program[backend])
  BY ProgramIs, BackendsAssumption DEF DevInv, DataOK
<1>5. \A b \in Actor : at'[b] <= Len(Program[backend])'
  <2>1. Len(Program[backend])' = Len(Program[backend])
    BY DEF Program
  <2> QED BY <1>1, <1>4, <2>1 DEF DevInv, DataOK
<1>6. DataOK'
  BY <1>2, <1>3, <1>5 DEF DevInv, DataOK, Actor
<1>7. MotorFits'
  BY <1>1 DEF DevInv, DataOK, MotorFits, Actor
<1>8. DownFits'
  BY DEF DevInv, DownFits
<1>9. AskedFits'
  <2>1. \A b \in Actor : at'[b] # 0 => arg'[b] \in asked'
    BY <1>1 DEF DevInv, DataOK, AskedFits
  <2>2. \A b \in Actor : at'[b] = 3 => at[b] = 3
    BY <1>1 DEF DevInv, DataOK
  <2> QED BY <2>1, <2>2 DEF DevInv, AskedFits, OnlyWhatWasAsked, Actor
<1>10. ASSUME NEW b \in Actor PROVE CleanFits(b)'
  <2>1. CASE b = a
    <3>1. at'[a] = 1 /\ (clean'[a] => motor = 0 /\ ~closed)
      BY <1>1 DEF DevInv, DataOK
    <3> QED BY <2>1, <3>1 DEF CleanFits
  <2>2. CASE b # a
    <3>1. at'[b] = at[b] /\ arg'[b] = arg[b] /\ clean'[b] = clean[b]
      BY <1>1, <2>2 DEF DevInv, DataOK
    <3>2. CleanFits(b)
      BY DEF DevInv
    <3> QED BY <3>1, <3>2 DEF CleanFits
  <2> QED BY <2>1, <2>2
<1> QED BY <1>6, <1>7, <1>8, <1>9, <1>10 DEF DevInv, Actor

\* What is common to the operations of configure().
LEMMA PerformsIs ==
  ASSUME Inv, DevInv, NEW a \in Actor, NEW op, Performs(a, op)
  PROVE  /\ at[a] \in 1 .. Len(Program[backend]) /\ Program[backend][at[a]] = op
         /\ Len(Program[backend]) \in Nat
         /\ at[a] = Len(Program[backend]) => at'[a] = 0
         /\ at[a] # Len(Program[backend]) => at'[a] = at[a] + 1 /\ arg'[a] = arg[a]
         /\ \A b \in Actor : b # a => at'[b] = at[b] /\ arg'[b] = arg[b] /\ ~clean'[b]
         /\ clean'[a] => clean[a] /\ at[a] # Len(Program[backend])
         /\ at' \in [Actor -> Nat] /\ arg' \in [Actor -> Nat]
         /\ clean' \in [Actor -> BOOLEAN]
         /\ UNCHANGED <<mpc, m_repeatThread, dying, durationMs, backend, closed, asked>>
         /\ mpc # "down"
<1>1. Len(Program[backend]) \in Nat
  BY ProgramIs, BackendsAssumption DEF DevInv, DataOK
<1>2. at[a] \in 1 .. Len(Program[backend]) /\ Program[backend][at[a]] = op
  BY <1>1 DEF Performs, DevInv, DataOK
<1>3. UNCHANGED <<mpc, m_repeatThread, dying, durationMs, backend, closed, asked>>
  BY DEF Performs, pattern, object
<1>4. /\ at[a] = Len(Program[backend]) => at'[a] = 0
      /\ at[a] # Len(Program[backend]) => at'[a] = at[a] + 1 /\ arg'[a] = arg[a]
      /\ \A b \in Actor : b # a => at'[b] = at[b] /\ arg'[b] = arg[b]
      /\ at' \in [Actor -> Nat] /\ arg' \in [Actor -> Nat]
  BY DEF Performs, IsLast, DevInv, DataOK
<1>5. \A b \in Actor : b # a => ~clean'[b]
  BY Zenon DEF Performs
<1>6. clean'[a] => clean[a] /\ at[a] # Len(Program[backend])
  BY Zenon DEF Performs, IsLast
<1>7. clean' \in [Actor -> BOOLEAN]
  <2>1. ASSUME NEW b \in Actor PROVE (b = a /\ clean[b] /\ ~IsLast(a)) \in BOOLEAN
    BY Zenon
  <2> QED BY <2>1, Zenon DEF Performs
<1>8. mpc # "down"
  <2>1. at[a] # 0
    BY <1>2
  <2> QED BY <2>1, DevIs DEF DevInv, DownFits, Actor
<1> QED BY <1>1, <1>2, <1>3, <1>4, <1>5, <1>6, <1>7, <1>8

\* What an operation does to the device.
LEMMA DeviceStep ==
  ASSUME Inv, DevInv, NEW a \in Actor, Configure(a)
  PROVE  /\ motor' \in Nat \cup {-1} /\ register' \in Nat /\ lost' \in BOOLEAN
         /\ closed => UNCHANGED <<motor, register, lost>>
                      \/ (backend # "ff" /\ motor' \in Nat)
         /\ backend = "ff" /\ ~closed =>
              /\ at[a] = 1 => motor' = -1 \/ (motor' = motor /\ (motor # -1 => lost'))
              /\ at[a] = 2 => UNCHANGED <<motor, lost>>
              /\ at[a] = 3 => motor' = 0 \/ (motor' = motor /\ (motor # 0 => lost'))
         /\ backend = "sysfs" /\ ~closed =>
              /\ at[a] = 1 => UNCHANGED <<motor, register>>
              /\ at[a] = 2 => motor' = motor /\ register' = arg[a]
              /\ at[a] = 3 => /\ motor' = IF motor = 0 THEN register ELSE motor
                              /\ register' = register
         /\ backend = "legacy" /\ ~closed => motor' = arg[a]
         /\ backend = "binder" /\ ~closed =>
              motor' = arg[a] \/ (motor' = motor /\ (motor # arg[a] => lost'))
         /\ backend = "dummy" => motor' = motor
<1> DEFINE op == Program[backend][at[a]]
<1>1. /\ motor \in Nat \cup {-1} /\ register \in Nat /\ arg[a] \in Nat
      /\ lost \in BOOLEAN
      /\ backend \in {"ff", "sysfs", "legacy", "binder", "dummy"}
      /\ backend # "ff" => motor \in Nat
  BY BackendsAssumption DEF DevInv, DataOK, MotorFits
<1>2. PICK o : Performs(a, o)
  BY DEF Configure, Play, Sleep, Stop, SetState, SetDuration, Activate, Enable,
         Transact, PrintOnly, Unheard
<1>3. at[a] \in 1 .. Len(Program[backend])
  BY <1>2, PerformsIs
<1>4. \/ op = "play" /\ ~closed /\ (Takes(-1) \/ Misses(-1)) /\ register' = register
      \/ op = "stop" /\ ~closed /\ (Takes(0) \/ Misses(0)) /\ register' = register
      \/ op \in {"sleep", "state", "print"} /\ UNCHANGED <<motor, register, lost>>
      \/ op = "duration" /\ register' = arg[a] /\ UNCHANGED <<motor, lost>>
      \/ op = "activate" /\ UNCHANGED <<register, lost>>
         /\ motor' = IF motor = 0 THEN register ELSE motor
      \/ op = "enable" /\ Takes(arg[a]) /\ register' = register
      \/ op = "transact" /\ (Takes(arg[a]) \/ Misses(arg[a])) /\ register' = register
      \/ closed /\ UNCHANGED <<motor, register, lost>>
  BY DEF Configure, Play, Sleep, Stop, SetState, SetDuration, Activate, Enable,
         Transact, PrintOnly, Unheard, Performs, device
<1> HIDE DEF op
<1>5. \/ op = "play" /\ ~closed /\ register' = register /\ lost' \in BOOLEAN
         /\ (motor' = -1 \/ (motor' = motor /\ (motor # -1 => lost')))
      \/ op = "stop" /\ ~closed /\ register' = register /\ lost' \in BOOLEAN
         /\ (motor' = 0 \/ (motor' = motor /\ (motor # 0 => lost')))
      \/ op \in {"sleep", "state", "print"} /\ UNCHANGED <<motor, register, lost>>
      \/ op = "duration" /\ register' = arg[a] /\ UNCHANGED <<motor, lost>>
      \/ op = "activate" /\ UNCHANGED <<register, lost>>
         /\ motor' = IF motor = 0 THEN register ELSE motor
      \/ op = "enable" /\ motor' = arg[a] /\ register' = register /\ lost' \in BOOLEAN
      \/ op = "transact" /\ register' = register /\ lost' \in BOOLEAN
         /\ (motor' = arg[a] \/ (motor' = motor /\ (motor # arg[a] => lost')))
      \/ closed /\ UNCHANGED <<motor, register, lost>>
  BY <1>4, TakesIs, MissesIs
<1>6. /\ backend = "ff" => at[a] \in 1 .. 3 /\ (at[a] = 1 => op = "play")
                            /\ (at[a] = 2 => op = "sleep") /\ (at[a] = 3 => op = "stop")
      /\ backend = "sysfs" =>
           at[a] \in 1 .. 3 /\ (at[a] = 1 => op = "state")
           /\ (at[a] = 2 => op = "duration") /\ (at[a] = 3 => op = "activate")
      /\ backend = "legacy" => op = "enable"
      /\ backend = "binder" => op = "transact"
      /\ backend = "dummy" => op = "print"
  BY <1>3, ProgramIs DEF op
<1>7. CASE backend = "ff"
  BY <1>1, <1>5, <1>6, <1>7
<1>8. CASE backend = "sysfs"
  BY <1>1, <1>5, <1>6, <1>8
<1>9. CASE backend \in {"legacy", "binder", "dummy"}
  BY <1>1, <1>5, <1>6, <1>9
<1> QED BY <1>1, <1>7, <1>8, <1>9

\* Every device operation keeps the invariant: play is followed by a stop of the
\* same actor, and the stop ends the effect whoever else is there.
LEMMA ConfigureKeeps ==
  ASSUME Inv, DevInv, NEW a \in Actor, Configure(a)
  PROVE  DevInv'
<1> DEFINE L == Len(Program[backend])
<1>1. PICK op : Performs(a, op)
  BY DEF Configure, Play, Sleep, Stop, SetState, SetDuration, Activate, Enable,
         Transact, PrintOnly, Unheard
<1>2. at[a] \in 1 .. L /\ L \in Nat
  BY <1>1, PerformsIs
<1>3. /\ at[a] = L => at'[a] = 0
      /\ at[a] # L => at'[a] = at[a] + 1 /\ arg'[a] = arg[a]
      /\ \A b \in Actor : b # a => at'[b] = at[b] /\ arg'[b] = arg[b]
      /\ at' \in [Actor -> Nat] /\ arg' \in [Actor -> Nat]
  BY <1>1, PerformsIs
<1>4. /\ \A b \in Actor : b # a => ~clean'[b]
      /\ clean'[a] => clean[a] /\ at[a] # L
      /\ clean' \in [Actor -> BOOLEAN]
  BY <1>1, PerformsIs
<1>5. UNCHANGED <<mpc, m_repeatThread, dying, durationMs, backend, closed, asked>>
  BY <1>1, PerformsIs
<1>6. mpc # "down"
  BY <1>1, PerformsIs
<1>7. /\ backend = "ff" => L = 3
      /\ backend = "sysfs" => L = 3
      /\ backend \in {"legacy", "binder", "dummy"} => L = 1
  BY ProgramIs
<1>8. L' = L
  BY <1>5 DEF Program
<1> HIDE DEF L
<1>9. /\ backend \in {"ff", "sysfs", "legacy", "binder", "dummy"}
      /\ motor \in Nat \cup {-1} /\ register \in Nat /\ arg[a] \in Nat
      /\ backend # "ff" => motor \in Nat
      /\ closed => motor \in Nat
  BY BackendsAssumption DEF DevInv, DataOK, MotorFits
<1>10. DataOK'
  <2>1. ASSUME NEW b \in Actor PROVE at'[b] <= L
    <3>1. at[b] \in Nat /\ at[b] <= L
      BY DEF DevInv, DataOK, L
    <3> QED BY <1>2, <1>3, <3>1
  <2>2. \A b \in Actor : at'[b] <= Len(Program[backend])'
    BY <1>8, <2>1 DEF L
  <2>3. motor' \in Nat \cup {-1} /\ register' \in Nat /\ lost' \in BOOLEAN
    BY DeviceStep
  <2> QED BY <1>3, <1>4, <1>5, <2>2, <2>3 DEF DevInv, DataOK, Actor
<1>11. MotorFits'
  <2> SUFFICES ASSUME motor' = -1
               PROVE  /\ backend = "ff" /\ ~closed
                      /\ lost' \/ \E b \in Actor : at'[b] \in {2, 3}
    BY <1>5 DEF MotorFits, Actor
  <2>1. ~closed
    BY <1>9, DeviceStep
  <2>2. backend = "ff"
    <3>1. CASE backend = "sysfs"
      BY <1>2, <1>7, <1>9, <2>1, <3>1, DeviceStep
    <3>2. CASE backend \in {"legacy", "binder", "dummy"}
      BY <1>9, <2>1, <3>2, DeviceStep
    <3> QED BY <1>9, <3>1, <3>2
  <2>3. at[a] \in {1, 2, 3} /\ L = 3
    BY <1>2, <1>7, <2>2
  <2>4. at[a] = 3 => lost'
    BY <2>1, <2>2, DeviceStep
  <2> QED BY <1>3, <2>1, <2>2, <2>3, <2>4
<1>12. DownFits'
  BY <1>5, <1>6 DEF DownFits
<1>13. AskedFits'
  <2>1. /\ \A b \in Actor : at[b] # 0 => arg[b] \in asked
        /\ backend = "sysfs" /\ ~closed =>
             \A b \in Actor : at[b] = 3 => register \in asked
        /\ OnlyWhatWasAsked
    BY DEF DevInv, AskedFits
  <2>2. \A b \in Actor : at'[b] # 0 => arg'[b] \in asked
    BY <1>2, <1>3, <2>1
  <2>3. ASSUME backend = "sysfs", ~closed, NEW b \in Actor, at'[b] = 3
        PROVE  register' \in asked
    <3>1. at[a] \in {1, 2, 3} /\ L = 3
      BY <1>2, <1>7, <2>3
    <3>2. CASE at[a] = 2
      BY <2>1, <2>3, <3>2, DeviceStep
    <3>3. CASE at[a] # 2
      <4>1. b # a /\ at[b] = 3
        BY <1>3, <2>3, <3>1, <3>3
      <4>2. register' = register
        BY <2>3, <3>1, <3>3, DeviceStep
      <4> QED BY <2>1, <2>3, <4>1, <4>2
    <3> QED BY <3>2, <3>3
  <2>4. ASSUME ~closed, motor' # 0
        PROVE  \/ motor' \in asked
               \/ motor' = -1 /\ asked # {}
               \/ backend = "binder" /\ lost'
    <3>1. arg[a] \in asked
      BY <1>2, <2>1
    <3>2. motor # 0 => \/ motor \in asked
                       \/ motor = -1 /\ asked # {}
                       \/ backend = "binder" /\ lost
      BY <1>6, <2>1, <2>4 DEF OnlyWhatWasAsked
    <3>3. CASE backend = "ff"
      <4>1. at[a] \in {1, 2, 3}
        BY <1>2, <1>7, <3>3
      <4> QED BY <2>4, <3>1, <3>2, <3>3, <4>1, DeviceStep
    <3>4. CASE backend = "sysfs"
      <4>1. at[a] \in {1, 2, 3}
        BY <1>2, <1>7, <3>4
      <4>2. at[a] = 3 => register \in asked
        BY <2>1, <2>4, <3>4
      <4> QED BY <2>4, <3>2, <3>4, <4>1, <4>2, DeviceStep
    <3>5. CASE backend = "legacy"
      BY <2>4, <3>1, <3>5, DeviceStep
    <3>6. CASE backend = "binder"
      BY <2>4, <3>1, <3>6, DeviceStep
    <3>7. CASE backend = "dummy"
      BY <2>4, <3>2, <3>7, DeviceStep
    <3> QED BY <1>9, <3>3, <3>4, <3>5, <3>6, <3>7
  <2>5. OnlyWhatWasAsked'
    BY <1>5, <2>4 DEF OnlyWhatWasAsked
  <2>6. \A t \in Thread : t \in {m_repeatThread, dying} => durationMs[t] \in asked
    BY DEF DevInv, AskedFits
  <2> QED BY <1>5, <2>2, <2>3, <2>5, <2>6 DEF AskedFits, Actor
<1>14. ASSUME NEW b \in Actor PROVE CleanFits(b)'
  <2>1. CASE b # a
    BY <1>4, <2>1 DEF CleanFits
  <2>2. CASE b = a
    <3> SUFFICES ASSUME clean'[a]
                 PROVE  /\ at'[a] # 0 /\ ~closed
                        /\ at'[a] = 1 => motor' = 0
                        /\ backend = "ff" /\ at'[a] \in {2, 3} => motor' = -1 \/ lost'
                        /\ backend = "sysfs" => motor' = 0
                        /\ backend = "sysfs" /\ at'[a] = 3 => register' = arg'[a]
      BY <1>5, <2>2 DEF CleanFits
    <3>1. clean[a] /\ at[a] # L
      BY <1>4
    <3>2. /\ ~closed
          /\ at[a] = 1 => motor = 0
          /\ backend = "ff" /\ at[a] \in {2, 3} => motor = -1 \/ lost
          /\ backend = "sysfs" => motor = 0
      BY <3>1 DEF DevInv, CleanFits
    <3>3. at'[a] = at[a] + 1 /\ arg'[a] = arg[a]
      BY <1>3, <3>1
    <3>4. backend \in {"ff", "sysfs"} /\ at[a] \in {1, 2}
      BY <1>2, <1>7, <1>9, <3>1
    <3>5. CASE backend = "ff"
      BY <3>2, <3>3, <3>4, <3>5, DeviceStep
    <3>6. CASE backend = "sysfs"
      BY <3>2, <3>3, <3>4, <3>6, DeviceStep
    <3> QED BY <3>4, <3>5, <3>6
  <2> QED BY <2>1, <2>2
<1> QED BY <1>10, <1>11, <1>12, <1>13, <1>14 DEF DevInv, Actor

\* The device's own timer ends no force-feedback effect.
LEMMA PulseEndsKeeps ==
  ASSUME Inv, DevInv, PulseEnds
  PROVE  DevInv'
<1>1. /\ motor > 0 /\ motor' = 0 /\ motor \in Nat \cup {-1}
      /\ UNCHANGED <<mpc, m_repeatThread, dying, durationMs, at, arg, clean, register,
                     lost, backend, closed, asked>>
  BY DEF PulseEnds, DevInv, DataOK, pattern, calls, object
<1>2. DataOK'
  BY <1>1 DEF DevInv, DataOK, Actor, Program
<1>3. MotorFits'
  BY <1>1 DEF MotorFits
<1>4. DownFits'
  BY <1>1 DEF DevInv, DownFits
<1>5. AskedFits'
  BY <1>1 DEF DevInv, AskedFits, OnlyWhatWasAsked, Actor
<1>6. ASSUME NEW a \in Actor PROVE CleanFits(a)'
  BY <1>1 DEF DevInv, DataOK, CleanFits
<1> QED BY <1>2, <1>3, <1>4, <1>5, <1>6 DEF DevInv, Actor

\* The device is closed: nobody is undisturbed, and an effect is erased.
LEMMA DestroyKeeps ==
  ASSUME Inv, DevInv, Destroy
  PROVE  DevInv'
<1>1. /\ mpc = "idle" /\ closed' = TRUE
      /\ motor' = IF backend = "ff" THEN 0 ELSE motor
      /\ clean' = [a \in Actor |-> FALSE]
      /\ UNCHANGED <<mpc, m_repeatThread, dying, durationMs, at, arg, register, lost,
                     backend, asked>>
  BY DEF Destroy, Ready, pattern
<1>2. clean' \in [Actor -> BOOLEAN] /\ \A a \in Actor : ~clean'[a]
  BY <1>1, Zenon
<1>3. motor' \in Nat
  BY <1>1 DEF DevInv, DataOK, MotorFits
<1>4. DataOK'
  BY <1>1, <1>2, <1>3 DEF DevInv, DataOK, Actor, Program
<1>5. MotorFits'
  BY <1>3 DEF MotorFits
<1>6. DownFits'
  BY <1>1 DEF DownFits
<1>7. AskedFits'
  BY <1>1 DEF DevInv, AskedFits, OnlyWhatWasAsked, Actor
<1>8. \A a \in Actor : CleanFits(a)'
  BY <1>2 DEF CleanFits
<1> QED BY <1>4, <1>5, <1>6, <1>7, <1>8 DEF DevInv, Actor

\* The process ends: closing the device erases the effect.
LEMMA EndKeeps ==
  ASSUME Inv, DevInv, End
  PROVE  DevInv'
<1>1. /\ motor' = IF backend = "ff" THEN 0 ELSE motor
      /\ at' = [a \in Actor |-> 0] /\ arg' = [a \in Actor |-> 0]
      /\ clean' = [a \in Actor |-> FALSE] /\ durationMs' = [t \in Thread |-> 0]
      /\ m_repeatThread' = NoThread /\ dying' = NoThread
      /\ mpc' = "down" /\ asked' = {}
      /\ UNCHANGED <<register, backend>>
  BY DEF End
<1>2. clean' \in [Actor -> BOOLEAN] /\ \A a \in Actor : ~clean'[a]
  BY <1>1, Zenon
<1>3. motor' \in Nat
  BY <1>1 DEF DevInv, DataOK, MotorFits
<1>4. /\ at' \in [Actor -> Nat] /\ arg' \in [Actor -> Nat]
      /\ durationMs' \in [Thread -> Nat]
      /\ \A a \in Actor : at'[a] = 0
  BY <1>1
<1>5. lost' \in BOOLEAN
  BY Zenon DEF End
<1>6. \A a \in Actor : at'[a] <= Len(Program[backend])'
  <2>1. Len(Program[backend])' = Len(Program[backend])
    BY <1>1 DEF Program
  <2>2. Len(Program[backend]) \in Nat
    BY ProgramIs, BackendsAssumption DEF DevInv, DataOK
  <2> QED BY <1>4, <2>1, <2>2
<1>7. DataOK'
  BY <1>1, <1>2, <1>3, <1>4, <1>5, <1>6 DEF DevInv, DataOK, Actor
<1>8. MotorFits'
  BY <1>3 DEF MotorFits
<1>9. DownFits'
  BY <1>1, <1>4 DEF DownFits, Actor
<1>10. AskedFits'
  BY <1>1, <1>4, NamesAssumption DEF AskedFits, OnlyWhatWasAsked, Actor
<1>11. \A a \in Actor : CleanFits(a)'
  BY <1>2 DEF CleanFits
<1> QED BY <1>7, <1>8, <1>9, <1>10, <1>11 DEF DevInv, Actor

\* The constructors turn the motor off, or a HAL misses it; nobody is in
\* configure() yet.
LEMMA StartKeeps ==
  ASSUME Inv, DevInv, Start
  PROVE  DevInv'
<1>1. /\ mpc = "down" /\ mpc' = "idle"
      /\ Takes(0) \/ (backend = "binder" /\ Misses(0))
      /\ register' \in IF backend = "sysfs" THEN {0, register} ELSE {register}
      /\ UNCHANGED <<m_repeatThread, dying, durationMs, at, arg, clean, backend, closed,
                     asked>>
  BY DEF Start, pattern, calls, object
<1>2. /\ motor' = 0 \/ (backend = "binder" /\ motor' = motor /\ (motor # 0 => lost'))
      /\ lost' \in BOOLEAN
  BY <1>1, TakesIs, MissesIs
<1>3. register' \in Nat
  BY <1>1 DEF DevInv, DataOK
<1>4. DataOK'
  BY <1>1, <1>2, <1>3 DEF DevInv, DataOK, Actor, Program
<1>5. MotorFits'
  BY <1>1, <1>2 DEF DevInv, MotorFits
<1>6. DownFits'
  BY <1>1 DEF DownFits
<1>7. \A a \in Actor : at[a] = 0
  BY <1>1, DevIs DEF DevInv, DownFits, Actor
<1>8. AskedFits'
  <2>1. OnlyWhatWasAsked'
    BY <1>1, <1>2 DEF OnlyWhatWasAsked
  <2> QED BY <1>1, <1>7, <2>1, NamesAssumption DEF DevInv, DownFits, AskedFits, Actor
<1>9. \A a \in Actor : CleanFits(a)'
  BY <1>1, <1>7 DEF DevInv, CleanFits
<1> QED BY <1>4, <1>5, <1>6, <1>8, <1>9 DEF DevInv, Actor

\* The service starts with the motor at rest.
LEMMA InitDev == Init => DevInv
<1> SUFFICES ASSUME Init PROVE DevInv
  OBVIOUS
<1>1. /\ at = [a \in Actor |-> 0] /\ arg = [a \in Actor |-> 0]
      /\ durationMs = [t \in Thread |-> 0] /\ backend \in Backends
      /\ motor = 0 /\ register = 0 /\ asked = {}
      /\ m_repeatThread = NoThread /\ dying = NoThread
  BY DEF Init
<1>2. clean \in [Actor -> BOOLEAN] /\ \A a \in Actor : ~clean[a]
  BY Zenon DEF Init
<1>3. lost \in BOOLEAN
  BY Zenon DEF Init
<1>4. Len(Program[backend]) \in Nat
  BY <1>1, ProgramIs, BackendsAssumption
<1>5. DataOK
  BY <1>1, <1>2, <1>3, <1>4 DEF DataOK
<1>6. MotorFits
  BY <1>1 DEF MotorFits
<1>7. DownFits
  BY <1>1 DEF DownFits, Actor
<1>8. AskedFits
  BY <1>1, NamesAssumption DEF AskedFits, OnlyWhatWasAsked
<1>9. \A a \in Actor : CleanFits(a)
  BY <1>2 DEF CleanFits
<1> QED BY <1>5, <1>6, <1>7, <1>8, <1>9 DEF DevInv

\* A thread that does not call does not touch the device.
LEMMA ThreadKeeps ==
  ASSUME Inv, DevInv, NEW t \in Thread,
         ThreadStep(t) \/ ClockStep(t) \/ SpuriousStep(t) \/ FuncReturns(t)
  PROVE  DevInv'
<1>1. UNCHANGED <<mpc, m_repeatThread, dying, durationMs, at, arg, clean, motor, register,
                  lost, backend, closed, asked>>
  BY DEF ThreadStep, ClockStep, SpuriousStep, FuncReturns, pattern, calls, device, object
<1> QED BY <1>1, Elsewhere DEF DevInv, DataOK, AskedFits

\* A thread that begins a call is before the first operation of configure(), and
\* calls it with what its pattern was asked for.
LEMMA CallKeeps ==
  ASSUME Inv, DevInv, NEW t \in Thread, CallFunc(t)
  PROVE  DevInv'
<1>1. /\ runner[t] = "call" /\ Begin(t, durationMs[t])
      /\ UNCHANGED <<mpc, m_repeatThread, dying, durationMs, motor, register, lost,
                     backend, closed, asked>>
  BY DEF CallFunc, RT!Call, RT!Run, pattern, device, object
<1>2. at[t] = 0 /\ t \in Actor /\ durationMs[t] \in Nat
  BY <1>1, DevIs DEF DevInv, DataOK, Actor
<1>3. t \in {m_repeatThread, dying}
  BY <1>1, DevIs
<1>4. mpc # "down"
  BY <1>3, NamesAssumption DEF DevInv, DownFits
<1>5. durationMs[t] \in asked /\ asked \subseteq Durations
  BY <1>3 DEF DevInv, DataOK, AskedFits
<1> QED BY <1>1, <1>2, <1>4, <1>5, BeginKeeps

\* A slot is served when the main thread is not in configure().
LEMMA ClientKeeps ==
  ASSUME Inv, DevInv, ClientCall
  PROVE  DevInv'
<1>1. ASSUME NEW d \in Durations, Vibrate(d) PROVE DevInv'
  <2>1. /\ mpc = "idle" /\ at[Main] = 0 /\ Begin(Main, d) /\ asked' = asked \cup {d}
        /\ UNCHANGED <<mpc, m_repeatThread, dying, durationMs, motor, register, lost,
                       backend, closed>>
    BY <1>1 DEF Vibrate, Ready, pattern, device, object
  <2>2. Main \in Actor /\ d \in Nat
    BY DurationsAssumption DEF Actor
  <2>3. asked \subseteq asked' /\ asked' \subseteq Durations /\ d \in asked'
    BY <2>1 DEF DevInv, DataOK
  <2> QED BY <2>1, <2>2, <2>3, BeginKeeps
<1>2. ASSUME NEW t \in Thread, NEW d \in Durations, NEW n \in Times, Rumble(t, d, n)
      PROVE  DevInv'
  <2>1. /\ mpc = "idle" /\ mpc' \in {"idle", "release"} /\ asked' = asked \cup {d}
        /\ durationMs' = [durationMs EXCEPT ![t] = d]
        /\ m_repeatThread' = t /\ dying' = m_repeatThread
        /\ UNCHANGED <<at, arg, clean, motor, register, lost, backend, closed>>
    BY <1>2 DEF Rumble, Ready, calls, device, object
  <2>2. durationMs' \in [Thread -> Nat]
    BY <2>1, DurationsAssumption DEF DevInv, DataOK
  <2>3. asked \subseteq asked' /\ asked' \subseteq Durations
    BY <2>1 DEF DevInv, DataOK
  <2>4. ASSUME NEW u \in Thread, u \in {m_repeatThread', dying'}
        PROVE  durationMs'[u] \in asked'
    BY <2>1, <2>4 DEF DevInv, DataOK, AskedFits
  <2> QED BY <2>1, <2>2, <2>3, <2>4, Elsewhere
<1> QED BY <1>1, <1>2 DEF ClientCall

\* Waiting for a thread does not touch the device.
LEMMA ReleaseKeeps ==
  ASSUME Inv, DevInv, TakeMutex \/ AbortOld \/ JoinOld \/ DropThread
  PROVE  DevInv'
<1>1. /\ mpc' \in {"idle", "release"} /\ mpc \in {"idle", "release"}
      /\ UNCHANGED <<durationMs, at, arg, clean, motor, register, lost, backend, closed,
                     asked>>
  BY DEF TakeMutex, AbortOld, JoinOld, DropThread, pattern, calls, device, object
<1>2. m_repeatThread' \in {m_repeatThread, NoThread}
      /\ dying' \in {dying, m_repeatThread, NoThread}
  BY DEF TakeMutex, AbortOld, JoinOld, DropThread, pattern
<1>3. durationMs' \in [Thread -> Nat] /\ asked' \subseteq Durations
  BY <1>1 DEF DevInv, DataOK
<1>4. ASSUME NEW t \in Thread, t \in {m_repeatThread', dying'}
      PROVE  durationMs'[t] \in asked'
  BY <1>1, <1>2, <1>4, NamesAssumption DEF DevInv, AskedFits
<1> QED BY <1>1, <1>3, <1>4, Elsewhere

\* The device invariant is inductive, given those of the process and the threads.
LEMMA NextKeeps ==
  ASSUME Inv, DevInv, [Next]_vars
  PROVE  DevInv'
<1>1. CASE \E a \in Actor : Configure(a)
  BY <1>1, ConfigureKeeps
<1>2. CASE \E t \in Thread : ThreadStep(t) \/ ClockStep(t) \/ SpuriousStep(t)
                           \/ FuncReturns(t)
  BY <1>2, ThreadKeeps
<1>3. CASE \E t \in Thread : CallFunc(t)
  BY <1>3, CallKeeps
<1>4. CASE ClientCall
  BY <1>4, ClientKeeps
<1>5. CASE TakeMutex \/ AbortOld \/ JoinOld \/ DropThread
  BY <1>5, ReleaseKeeps
<1>6. CASE Destroy
  BY <1>6, DestroyKeeps
<1>7. CASE Exit \/ Die
  BY <1>7, EndKeeps DEF Exit, Die
<1>8. CASE Start
  BY <1>8, StartKeeps
<1>9. CASE PulseEnds
  BY <1>9, PulseEndsKeeps
<1>10. CASE UNCHANGED vars
  <2>1. UNCHANGED <<mpc, m_repeatThread, dying, durationMs, at, arg, clean, motor, register,
                    lost, backend, closed, asked>>
    BY <1>10 DEF vars, pattern, calls, device, object
  <2> QED BY <2>1, Elsewhere DEF DevInv, DataOK, AskedFits
<1> QED BY <1>1, <1>2, <1>3, <1>4, <1>5, <1>6, <1>7, <1>8, <1>9, <1>10 DEF Next

\* All three invariants hold initially.
LEMMA InitAll == Init => Inv /\ RT!IInv /\ DevInv
<1>1. Init => RT!Init
  BY DEF Init
<1> QED BY <1>1, InitInv, InitDev, ThreadsInit

\* The three together are inductive.
LEMMA NextAll ==
  (Inv /\ RT!IInv /\ DevInv) /\ [Next]_vars => (Inv /\ RT!IInv /\ DevInv)'
BY NextInv, ThreadsInv, NextKeeps

-------------------------------------------------------------------------------
(* The theorems. *)

\* Every thread object of the vibrator, whichever pattern it plays, is what
\* RepeatThread proves a thread object to be: at most one call after abort(),
\* nobody asleep after notify_all(), no thread left when its object is gone.
THEOREM ThreadsFit ==
  Spec => [](RT!AtMostOneLateCall /\ RT!NoLostWakeup /\ RT!NoUseAfterDestroy)
<1>1. RT!IInv => RT!AtMostOneLateCall /\ RT!NoLostWakeup /\ RT!NoUseAfterDestroy
  BY DEF RT!IInv, RT!ObjectFits, RT!MutexFits, RT!FlagFits, RT!AwakeFits, RT!LateFits,
         RT!AtMostOneLateCall, RT!NoLostWakeup, RT!NoUseAfterDestroy, RT!TypeOK,
         RT!Aborted
<1> QED BY <1>1, InitAll, NextAll, PTL DEF Spec

\* The vibrator's state has its types, the threads' included: configure() never
\* runs past its last operation and no duration gets negative.
THEOREM TypeCorrect == Spec => []TypeOK
<1>1. Inv /\ RT!IInv /\ DevInv => TypeOK
  BY DEF TypeOK, RT!IInv, Inv, Shape, DevInv, DataOK
<1> QED BY <1>1, InitAll, NextAll, PTL DEF Spec

\* However the unlocked calls of configure() overlap, an effect is on only while
\* somebody is in configure() who will stop it, or because a stop was missed.
THEOREM SomebodyStops == Spec => []SomebodyStopsTheMotor
<1>1. DevInv => SomebodyStopsTheMotor
  BY DEF DevInv, MotorFits, SomebodyStopsTheMotor
<1> QED BY <1>1, InitAll, NextAll, PTL DEF Spec

\* The motor of a running service is off, or runs for what a client of this very
\* process asked for, whatever earlier processes left on the device and whoever
\* overlaps, but for a HAL that missed what it was last told.
THEOREM OnlyWhatWasAskedHolds == Spec => []OnlyWhatWasAsked
<1>1. DevInv => OnlyWhatWasAsked
  BY DEF DevInv, AskedFits
<1> QED BY <1>1, InitAll, NextAll, PTL DEF Spec

\* A configure() that nobody overlapped plays what it was asked to, unless a play,
\* a stop or a call of the HAL was missed.
THEOREM UndisturbedPulseHolds == Spec => UndisturbedPulse
<1>1. Inv /\ DevInv =>
        \A a \in Actor : clean[a] /\ IsLast(a) /\ Configure(a) =>
          /\ backend = "ff" => (motor = -1 \/ lost) /\ (motor' = 0 \/ lost')
          /\ backend \in {"sysfs", "legacy"} => motor' = arg[a]
          /\ backend = "binder" => motor' = arg[a] \/ lost'
          /\ backend = "dummy" => motor' = 0
  <2> SUFFICES ASSUME Inv, DevInv, NEW a \in Actor, clean[a], IsLast(a), Configure(a)
               PROVE  /\ backend = "ff" => (motor = -1 \/ lost) /\ (motor' = 0 \/ lost')
                      /\ backend \in {"sysfs", "legacy"} => motor' = arg[a]
                      /\ backend = "binder" => motor' = arg[a] \/ lost'
                      /\ backend = "dummy" => motor' = 0
    OBVIOUS
  <2>1. /\ ~closed /\ at[a] # 0
        /\ at[a] = 1 => motor = 0
        /\ backend = "ff" /\ at[a] \in {2, 3} => motor = -1 \/ lost
        /\ backend = "sysfs" => motor = 0
        /\ backend = "sysfs" /\ at[a] = 3 => register = arg[a]
    BY DEF DevInv, CleanFits
  <2>2. /\ backend \in {"ff", "sysfs"} => at[a] = 3
        /\ backend \in {"legacy", "binder", "dummy"} => at[a] = 1
    BY ProgramIs DEF IsLast
  <2>3. backend \in {"ff", "sysfs", "legacy", "binder", "dummy"}
    BY BackendsAssumption DEF DevInv, DataOK
  <2>4. CASE backend = "ff"
    <3>1. motor = -1 \/ lost
      BY <2>1, <2>2, <2>4
    <3>2. motor' = 0 \/ (motor' = motor /\ (motor # 0 => lost'))
      BY <2>1, <2>2, <2>4, DeviceStep
    <3> QED BY <2>4, <3>1, <3>2
  <2>5. CASE backend = "sysfs"
    BY <2>1, <2>2, <2>5, DeviceStep
  <2>6. CASE backend = "dummy"
    BY <2>1, <2>2, <2>6, DeviceStep
  <2>7. CASE backend = "legacy"
    BY <2>1, <2>7, DeviceStep
  <2>8. CASE backend = "binder"
    BY <2>1, <2>2, <2>8, DeviceStep
  <2> QED BY <2>3, <2>4, <2>5, <2>6, <2>7, <2>8
<1> QED BY <1>1, InitAll, NextAll, PTL DEF Spec, UndisturbedPulse
===============================================================================
