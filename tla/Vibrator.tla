------------------------------- MODULE Vibrator -------------------------------
(***************************************************************************)
(* The vibrator half of hfd-service: hfd::Vibrator (src/src/vibrator.cpp), *)
(* its five back ends, and the D-Bus slots that drive it one at a time on  *)
(* the main thread.  rumble() replaces m_repeatThread: the new thread      *)
(* already runs while the main thread aborts and joins the old one.  The   *)
(* threads are RepeatThread.tla's, and m_func is configure(), written out  *)
(* as the device operations of the back end in the order they are made;    *)
(* nothing locks them against the main thread's own configure().           *)
(*                                                                         *)
(* The service never destroys its Vibrator; the main() of                  *)
(* src/tools/hfd_vibrator.cpp does, on returning, with the pattern still   *)
(* playing: a process of this module is either, and makes any calls.       *)
(*                                                                         *)
(* The device (the kernel's transient trigger, timed_output or force       *)
(* feedback, the vibrator HAL) is external, modelled by what the back      *)
(* ends use of it.  An attribute it refuses is an exception; a play, a     *)
(* stop or a call of the HAL may fail without anybody noticing.            *)
(***************************************************************************)
EXTENDS Integers, Sequences

CONSTANTS Thread, Times, IntMax,   \* as in RepeatThread
          Main,                    \* the main thread
          NoThread,                \* a null m_repeatThread
          Durations,               \* the durations clients ask for, in ms
          Backends                 \* the back ends a start may have chosen

ASSUME NamesAssumption == Main \notin Thread /\ NoThread \notin Thread
ASSUME CountsAssumption ==
  IntMax \in Nat /\ Times \subseteq (-IntMax - 1) .. IntMax
ASSUME DurationsAssumption == Durations \subseteq Nat
ASSUME BackendsAssumption ==
  Backends \subseteq {"ff", "sysfs", "legacy", "binder", "dummy"}

VARIABLES runner, owner, m_mutex, m_break, m_times, iter, expired, late

threads == <<runner, owner, m_mutex, m_break, m_times, iter, expired, late>>

RT == INSTANCE RepeatThread

VARIABLES
  mpc,              \* the main thread: "down", "idle", or "release" (rumble()
                    \* or ~Vibrator() destroying a thread)
  m_repeatThread,   \* the current pattern's thread
  dying,            \* the replaced thread, until it is joined
  durationMs,       \* what each thread's lambda captured
  at,               \* 0, or the operation of configure() an actor is to make
  arg,              \* configure()'s durationMs
  backend,          \* the class of the one Vibrator object
  closed,           \* the derived destructor has run, ~Vibrator() is next
  motor,            \* 0 off, -1 on until told otherwise, else on for that long
  register,         \* the transient trigger's "duration" attribute
  clean,            \* history: an actor in configure() alone so far, which
                    \* found the motor off
  lost,             \* history: the device missed what it was last told, and
                    \* is not as it should be
  asked             \* history: the durations clients of this process asked for

calls == <<at, arg, clean>>
device == <<motor, register, lost>>
object == <<backend, closed>>
pattern == <<m_repeatThread, dying, durationMs>>
vars == <<threads, mpc, pattern, calls, device, object, asked>>

Actor == Thread \cup {Main}

Init ==
  /\ RT!Init
  /\ mpc = "down"
  /\ m_repeatThread = NoThread /\ dying = NoThread
  /\ durationMs = [t \in Thread |-> 0]
  /\ at = [a \in Actor |-> 0]
  /\ arg = [a \in Actor |-> 0]
  /\ clean = [a \in Actor |-> FALSE]
  /\ backend \in Backends /\ closed = FALSE
  /\ motor = 0 /\ register = 0 /\ lost = FALSE
  /\ asked = {}

-------------------------------------------------------------------------------
(* configure(State::On, d), one device operation at a time. *)

ProgramSwapped == [ff     |-> <<"stop", "sleep", "play">>,
                   sysfs  |-> <<"state", "activate", "duration">>,
                   legacy |-> <<"enable">>,
                   binder |-> <<"transact">>,
                   dummy  |-> <<"print">>]

Program == [ff     |-> <<"play", "sleep", "stop">>,
            sysfs  |-> <<"state", "duration", "activate">>,
            legacy |-> <<"enable">>,
            binder |-> <<"transact">>,
            dummy  |-> <<"print">>]

TypeOK ==
  /\ RT!TypeOK
  /\ mpc \in {"down", "idle", "release"}
  /\ m_repeatThread \in Thread \cup {NoThread}
  /\ dying \in Thread \cup {NoThread}
  /\ durationMs \in [Thread -> Nat]
  /\ at \in [Actor -> Nat]
  /\ \A a \in Actor : at[a] <= Len(Program[backend])
  /\ arg \in [Actor -> Nat]
  /\ backend \in Backends /\ closed \in BOOLEAN
  /\ motor \in Nat \cup {-1}
  /\ register \in Nat
  /\ clean \in [Actor -> BOOLEAN]
  /\ lost \in BOOLEAN
  /\ asked \subseteq Durations

\* Actor a enters configure().
Begin(a, d) ==
  /\ at' = [at EXCEPT ![a] = 1]
  /\ arg' = [arg EXCEPT ![a] = d]
  /\ clean' = [clean EXCEPT ![a] =
                 motor = 0 /\ ~closed /\ \A b \in Actor : at[b] = 0]

IsLastOffByOne(a) == at[a] = Len(Program[backend]) + 1
IsLast(a) == at[a] = Len(Program[backend])

\* Actor a makes its next operation, op, and leaves configure() with the last.
\* Whoever else is inside is no longer undisturbed.
Performs(a, op) ==
  /\ at[a] # 0 /\ Program[backend][at[a]] = op
  /\ at' = [at EXCEPT ![a] = IF IsLast(a) THEN 0 ELSE @ + 1]
  /\ arg' = [arg EXCEPT ![a] = IF IsLast(a) THEN 0 ELSE @]
  /\ clean' = [b \in Actor |-> b = a /\ clean[b] /\ ~IsLast(a)]
  /\ UNCHANGED <<threads, mpc, pattern, object, asked>>

\* The motor does as it is told, m, or misses it.
Takes(m) == motor' = m /\ lost' = FALSE
Misses(m) == UNCHANGED motor /\ lost' = (motor # m)

\* A rumble effect of unlimited length is played, and later stopped; an effect
\* has one state, whoever started it.  Nobody looks at what write() returns.
Play(a) ==
  ~closed /\ Performs(a, "play") /\ (Takes(-1) \/ Misses(-1)) /\ UNCHANGED register
Sleep(a) == Performs(a, "sleep") /\ UNCHANGED device
Stop(a) ==
  ~closed /\ Performs(a, "stop") /\ (Takes(0) \/ Misses(0)) /\ UNCHANGED register

\* The transient trigger: "activate" starts the pulse unless one is running or
\* the duration is 0 ("state" is only ever written 1).
SetState(a) == Performs(a, "state") /\ UNCHANGED device

SetDurationOnce(a) ==
  /\ Performs(a, "duration")
  /\ register' = IF register = 0 THEN arg[a] ELSE register
  /\ UNCHANGED <<motor, lost>>
SetDuration(a) ==
  Performs(a, "duration") /\ register' = arg[a] /\ UNCHANGED <<motor, lost>>
Activate(a) ==
  /\ Performs(a, "activate")
  /\ motor' = IF motor = 0 THEN register ELSE motor
  /\ UNCHANGED <<register, lost>>

\* timed_output's "enable" and the HAL's on(): the last one made counts.  The
\* status of the HAL's reply is read and dropped.
Enable(a) == Performs(a, "enable") /\ Takes(arg[a]) /\ UNCHANGED register
Transact(a) ==
  Performs(a, "transact") /\ (Takes(arg[a]) \/ Misses(arg[a])) /\ UNCHANGED register

PrintOnly(a) == Performs(a, "print") /\ UNCHANGED device

\* The pattern is in configure() of an object whose device has been closed or
\* released under it: a write to the closed descriptor fails, and a handle that
\* was given back may still work (the actions above), do nothing, or crash (Die).
Unheard(a) ==
  /\ closed /\ at[a] # 0 /\ Performs(a, Program[backend][at[a]])
  /\ UNCHANGED device

Configure(a) ==
  \/ Play(a) \/ Sleep(a) \/ Stop(a)
  \/ SetState(a) \/ SetDuration(a) \/ Activate(a)
  \/ Enable(a) \/ Transact(a) \/ PrintOnly(a) \/ Unheard(a)

\* The device's own timer ends a pulse.
PulseEnds ==
  /\ motor > 0 /\ motor' = 0
  /\ UNCHANGED <<threads, mpc, pattern, calls, register, lost, object, asked>>

-------------------------------------------------------------------------------
(* The pattern's threads. *)

\* The steps of RepeatThread that make no call.
ThreadStep(t) ==
  /\ \/ RT!LoopTest(t) \/ RT!Lock(t) \/ RT!Test(t) \/ RT!Block(t)
     \/ RT!WakeOnTimeout(t) \/ RT!Relock(t) \/ RT!TimedOut(t)
  /\ UNCHANGED <<mpc, pattern, calls, device, object, asked>>

ClockStep(t) ==
  /\ RT!Expire(t)
  /\ UNCHANGED <<mpc, pattern, calls, device, object, asked>>

SpuriousStep(t) ==
  /\ RT!WakeSpuriously(t)
  /\ UNCHANGED <<mpc, pattern, calls, device, object, asked>>

\* m_func is [=](){ vibrate(durationMs); }.  Once the derived destructor has
\* run, configure() may be the pure virtual one, which ends the process (Die).
CallFunc(t) ==
  /\ RT!Call(t) /\ Begin(t, durationMs[t])
  /\ UNCHANGED <<mpc, pattern, device, object, asked>>

FuncReturns(t) ==
  /\ at[t] = 0 /\ RT!Return(t)
  /\ UNCHANGED <<mpc, pattern, calls, device, object, asked>>

-------------------------------------------------------------------------------
(* The main thread: the D-Bus slots, served one after the other. *)

Ready == mpc = "idle" /\ ~closed /\ at[Main] = 0

\* vibrate(durationMs); vibrate() is the same with m_defaultDurationMs.
Vibrate(d) ==
  /\ Ready /\ Begin(Main, d) /\ asked' = asked \cup {d}
  /\ UNCHANGED <<threads, mpc, pattern, device, object>>

RumbleDetached(t, d, n) ==
  /\ Ready /\ RT!Construct(t, n)
  /\ m_repeatThread' = t
  /\ durationMs' = [durationMs EXCEPT ![t] = d]
  /\ asked' = asked \cup {d}
  /\ UNCHANGED <<mpc, dying, calls, device, object>>

\* make_shared constructs the new thread, the assignment takes it over and
\* drops the last reference to the old one, whose destructor is next.
Rumble(t, d, n) ==
  /\ Ready /\ RT!Construct(t, n)
  /\ m_repeatThread' = t /\ dying' = m_repeatThread
  /\ mpc' = IF m_repeatThread = NoThread THEN "idle" ELSE "release"
  /\ durationMs' = [durationMs EXCEPT ![t] = d]
  /\ asked' = asked \cup {d}
  /\ UNCHANGED <<calls, device, object>>

TakeMutex ==
  /\ mpc = "release" /\ RT!OwnerLock(dying)
  /\ UNCHANGED <<mpc, pattern, calls, device, object, asked>>

AbortOld ==
  /\ mpc = "release"
  /\ RT!Destroy(dying) \/ RT!SetBreak(dying) \/ RT!NotifyAll(dying)
     \/ RT!OwnerUnlock(dying)
  /\ UNCHANGED <<mpc, pattern, calls, device, object, asked>>

\* join() returns, and so does rumble(), or the release of m_repeatThread.
JoinOld ==
  /\ mpc = "release" /\ RT!Join(dying)
  /\ mpc' = "idle" /\ dying' = NoThread
  /\ UNCHANGED <<m_repeatThread, durationMs, calls, device, object, asked>>

\* The last reference to the Vibrator goes: the destructor of the derived class
\* erases the force-feedback effect and closes the device, or the members that
\* hold it are destroyed, while the pattern's thread runs on.
Destroy ==
  /\ Ready /\ closed' = TRUE
  /\ motor' = IF backend = "ff" THEN 0 ELSE motor
  /\ clean' = [a \in Actor |-> FALSE]
  /\ UNCHANGED <<threads, mpc, pattern, at, arg, register, lost, backend, asked>>

\* Then ~Vibrator() drops the last reference to the thread.
DropThread ==
  /\ closed /\ mpc = "idle" /\ m_repeatThread # NoThread
  /\ dying' = m_repeatThread /\ m_repeatThread' = NoThread
  /\ mpc' = "release"
  /\ UNCHANGED <<threads, durationMs, calls, device, object, asked>>

-------------------------------------------------------------------------------
(* The process dies and is started again. *)

\* The process ends, and every thread with it.  Closing the input device erases
\* the force-feedback effect; a pulse on a timer goes on.
End ==
  /\ mpc' = "down" /\ closed' = FALSE /\ lost' = FALSE /\ asked' = {}
  /\ runner' = [t \in Thread |-> "done"]
  /\ owner' = [t \in Thread |-> "none"]
  /\ m_mutex' = [t \in Thread |-> "free"]
  /\ m_break' = [t \in Thread |-> FALSE]
  /\ m_times' = [t \in Thread |-> 0]
  /\ iter' = [t \in Thread |-> 0]
  /\ expired' = [t \in Thread |-> FALSE]
  /\ late' = [t \in Thread |-> 0]
  /\ m_repeatThread' = NoThread /\ dying' = NoThread
  /\ durationMs' = [t \in Thread |-> 0]
  /\ at' = [a \in Actor |-> 0]
  /\ arg' = [a \in Actor |-> 0]
  /\ clean' = [a \in Actor |-> FALSE]
  /\ motor' = IF backend = "ff" THEN 0 ELSE motor
  /\ UNCHANGED <<register, backend>>

\* A failed attribute write throws, and no frame between configure() and main(),
\* or runner(), catches it; or something else kills the process.
Die == mpc # "down" /\ End

\* main() returns when the Vibrator is destroyed.
Exit == closed /\ mpc = "idle" /\ m_repeatThread = NoThread /\ End

\* D-Bus activation runs main(), and create() a constructor that tells the motor
\* to be off, if closing the input device has not done so already: an attribute
\* is written or the start fails, but the HAL may miss its off().  Enabling the
\* transient trigger anew clears its registers (a driver that implements the
\* attributes itself has no trigger to enable).
Start ==
  /\ mpc = "down" /\ mpc' = "idle"
  /\ Takes(0) \/ (backend = "binder" /\ Misses(0))
  /\ register' \in IF backend = "sysfs" THEN {0, register} ELSE {register}
  /\ UNCHANGED <<threads, pattern, calls, object, asked>>

ClientCall ==
  \/ \E d \in Durations : Vibrate(d)
  \/ \E t \in Thread, d \in Durations, n \in Times : Rumble(t, d, n)

Next ==
  \/ \E a \in Actor : Configure(a)
  \/ PulseEnds
  \/ \E t \in Thread : \/ ThreadStep(t) \/ ClockStep(t) \/ SpuriousStep(t)
                       \/ CallFunc(t) \/ FuncReturns(t)
  \/ ClientCall
  \/ TakeMutex \/ AbortOld \/ JoinOld
  \/ Destroy \/ DropThread \/ Exit
  \/ Die \/ Start

\* Threads are scheduled, time passes, device operations return and the main
\* thread gets the mutex in the end and goes on with the destructor it is in.
\* Clients need not call, nor is a dead service started again without a call.
Fairness ==
  /\ \A a \in Actor : WF_vars(Configure(a))
  /\ WF_vars(PulseEnds)
  /\ \A t \in Thread :
       /\ WF_vars(ThreadStep(t)) /\ WF_vars(ClockStep(t))
       /\ WF_vars(CallFunc(t) \/ FuncReturns(t))
  /\ SF_vars(TakeMutex) /\ WF_vars(AbortOld) /\ WF_vars(JoinOld)
  /\ WF_vars(DropThread \/ Exit)

Spec == Init /\ [][Next]_vars /\ Fairness

-------------------------------------------------------------------------------
(* Properties. *)

\* When rumble() has returned, the pattern it replaced makes no more calls:
\* every thread but the current one is over (vibrator.cpp:114).
NoStalePattern ==
  mpc = "idle" => \A t \in Thread : t # m_repeatThread => runner[t] = "done"

\* configure() is not locked, but at most two actors are ever inside at once:
\* the main thread and the pattern, or the old pattern and the new one.
AtMostTwoConfigure == \A a, b, c \in Actor :
  at[a] # 0 /\ at[b] # 0 /\ at[c] # 0 => a = b \/ a = c \/ b = c

\* A force-feedback effect plays only while somebody is in configure() who
\* will stop it, however the calls overlap; it has no timer of its own.  Nor is
\* it left on by a call that finds the device closed under it.  The one thing
\* that leaves it on is a stop the device missed (vibrator-ff.cpp:85).
SomebodyStopsTheMotor ==
  motor = -1 => lost \/ \E a \in Actor : at[a] \in {2, 3}

\* While a service is up its motor is off, or runs for a duration that a client
\* of this process asked for: not for that of a call of an earlier process, which
\* may have died in a pulse, or have left its duration in the attribute.  Only a
\* HAL that missed the last thing it was told, the off() of the start to begin
\* with, may go on with what an earlier process asked for.  (The handle of a
\* destroyed Vibrator may miss the duration and take the activation after it.)
OnlyWhatWasAsked ==
  mpc # "down" /\ ~closed /\ motor # 0 =>
    \/ motor \in asked
    \/ motor = -1 /\ asked # {}
    \/ backend = "binder" /\ lost

\* A configure() that nobody overlapped, and that found the motor off, plays
\* what it was asked to: the effect is still on when configure() stops it, or
\* the device runs for the duration of this call and no other.  A play, a stop or
\* a call of the HAL that was missed is the only exception; an attribute is not.
UndisturbedPulse == [][\A a \in Actor :
  clean[a] /\ IsLast(a) /\ Configure(a) =>
    /\ backend = "ff" => (motor = -1 \/ lost) /\ (motor' = 0 \/ lost')
    /\ backend \in {"sysfs", "legacy"} => motor' = arg[a]
    /\ backend = "binder" => motor' = arg[a] \/ lost'
    /\ backend = "dummy" => motor' = 0]_vars

\* rumble() returns although it waits for the thread it replaces, and a program
\* that destroys its Vibrator under a pattern ends; or the process has died: the
\* main thread is in no release, nor in the end of its program, for ever.
ReleaseReturns == []<>(mpc # "release") /\ []<>~closed

\* When clients stop calling, every finite pattern ends and the motor rests; a
\* call or an off() that a HAL missed delays that, and only an effect whose last
\* stop was missed plays on.
RestsInTheEnd ==
  <>[][~ClientCall]_vars /\ <>[](\A t \in Thread : m_times[t] # IntMax) =>
  <>[](/\ motor = 0 \/ (backend = "ff" /\ lost)
       /\ \A t \in Thread : runner[t] = "done")

-------------------------------------------------------------------------------
(* The inductive strengthening of the two safety properties of rumble(). *)

\* The main thread is in a release exactly while there is a thread to destroy,
\* and in no call while it destroys one.
MainFits ==
  /\ mpc = "release" <=> dying # NoThread
  /\ mpc = "release" => dying # m_repeatThread
  /\ mpc = "release" \/ closed => at[Main] = 0

\* A thread object exists while a pointer leads to it, nobody destroys the
\* current one, and only the call of m_func is inside configure().
ThreadFits(t) ==
  /\ owner[t] # "none" <=> t \in {m_repeatThread, dying}
  /\ t = m_repeatThread => owner[t] = "alive"
  /\ owner[t] = "none" => runner[t] = "done"
  /\ at[t] # 0 => runner[t] = "func"

\* The strengthening, checked before it is proved (VibratorProofs.tla).
IInv == MainFits /\ \A t \in Thread : ThreadFits(t)
===============================================================================
