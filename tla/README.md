# A TLA+ model of hfd-service

hfd-service is the human feedback device service of Lomiri: a system service,
started by D-Bus activation, that owns the vibrator and the notification light,
and two plugins that applications load to talk to it. This directory holds TLA+
modules that model it, TLC configurations that check them on small instances,
and proofs of the central theorems, checked by TLAPS for every value of the
constants. Everything is written from the code under `src/`; `PROJECT.json`
names, for every definition, the lines it stands for.

## The system

```
 application                         hfd-service (one process)             device
 +-----------------------------+     +-------------------------------+
 | QtFeedback effects          |     | main thread: D-Bus slots, one |
 |   -> Feedback plugin -------|--+  |   at a time                   |
 |      (timers, async replies)|  |  |   vibrate  rumble             |    kernel LED,
 +-----------------------------+  +->|     Vibrator --> configure() -|--> timed_output,
 +-----------------------------+  |  |        |            ^         |    input FF, HAL
 | QML: Leds object -----------|--+  |        v            |         |
 |      (own copy of the light)| bus |   RepeatThread: m_func        |
 +-----------------------------+     |   setState setColor ...       |
                                     |     Leds ------> configure() -|--> kernel LEDs, HAL
                                     +-------------------------------+
```

| component | state | operations | what is hard |
|---|---|---|---|
| `RepeatThread` (src/src/repeatThread.h) | `m_mutex`, `m_cv`, `m_break`, `m_times`, the loop counter | constructor, `runner()`, destructor with `abort()` | wakeup against wait, flag tested under the lock and call made without it, join, INT_MAX |
| `Vibrator` and five back ends (src/src/vibrator*.cpp) | `m_repeatThread`, the device | `vibrate`, `rumble`, `configure` | two threads and the main thread in an unlocked `configure()`, replacing a running pattern, a process that dies in a pulse or destroys the object under its pattern |
| Feedback plugin (src/qt/feedback-plugin) | one `state` for all effects, callbacks in flight | `setEffectState`, `startVibration`, `vibrate`, `hapticsVibrateReply` | stale timers, replies of other effects, failed and late calls, the width of int |
| `Leds` and four back ends (src/src/leds*.cpp) | `m_state`, `m_color`, `m_onMs`, `m_offMs`, the device | `setState`, `setColor`, `setOnMs`, `setOffMs`, `configure` | order of device writes, refused writes that end the process, dropped errors |
| QML `Leds` (src/qt/qml/leds.cpp) | a copy of the light per application | the four setters | a copy nobody refreshes, four messages that are not one, restarts of the service |
| service process (src/src/service.cpp) | the two objects above | D-Bus slots, `main()` | one slow slot stops all others |
| factories and probing (`create`, `usable`, constructors) | the chosen objects | choice of a back end | a probe that is stale when the constructor runs, constructors that fail half way, indeterminate flags, a start that fails again and again |
| udev wrapper (src/src/udev) | one counted handle per object | copy, move, assign, destroy | leaked and missed references |
| tools, demos, plugin registration | - | `main()` of hfd_vibrator | returning while a pattern plays |

What makes each correct is the list of properties below; `PROJECT.json` lists
the hazards of the code line by line, with the properties that catch them, and
a note on each that no property covers yet.

## The modules

| module | models | extends or instantiates |
|---|---|---|
| `PulseTrain` | abstract: what a repeating call promises | - |
| `RepeatThread` | the thread of a pattern | refines `PulseTrain` |
| `Vibrator` | the vibrator half of the service | instance of `RepeatThread` for its threads |
| `Feedback` | the QtFeedback plugin, and the bus seen from it | - |
| `FeedbackClaims` | what its comments say of stopped effects | extends `Feedback` with two history variables |
| `Light` | abstract: what the light promises its clients | - |
| `Leds` | the light half of the service | refines `Light` |
| `QmlLeds` | applications, bus and service around the light | instance of `Leds` for the service |
| `Startup` | `main()` up to the event loop, factories, probes, constructors | - |
| `UdevHandles` | the handle classes of the udev wrapper | - |
| `RepeatThreadProofs`, `FeedbackProofs`, `LedsProofs`, `StartupProofs`, `UdevHandlesProofs` | theorems | extend the module they are about |
| `VibratorProofs`, `VibratorDeviceProofs` | theorems: `rumble()` and its threads; the device | extend `Vibrator`; the latter is also an instance of `RepeatThreadProofs` |
| `QmlLedsProofs` | theorems | extends `QmlLeds`, instance of `LedsProofs` |
| `MC*` | values of the constants for TLC | extend the module they check |

### RepeatThread

One set of storage locations for objects, `Thread`, each with a program counter
of the thread (`runner`) and of its owner (`owner`). `wait_until` with a
predicate is written out as the standard defines it: test, block and release
in one step, wake (by a notification, by the deadline, spuriously), take the
mutex again, test again or, after the deadline, take the predicate as the
result. The deadline is a boolean that becomes true at any moment of the sleep.
The owner's destructor is lock, set, notify, unlock, join. The loop counter
keeps the width of `int`, `IntMax` standing for INT_MAX: its overflow wraps.
When objects are made and destroyed is free here, and fixed in `Vibrator`.

`PulseTrain` says the same without threads: a train owes `m_times + 1` pulses
(for INT_MAX it owes them for ever; for a negative count none) and a revoked one
plays at most one more. The mapping is `PhaseOf` and `LeftToCall`.

### Vibrator

The main thread serves one slot at a time (`Ready`). `Rumble` constructs the new
thread, takes it over, and then destroys the old one step by step (`TakeMutex`,
`AbortOld`, `JoinOld`) while both threads run: the assignment to
`m_repeatThread` in the code evaluates its right side first. `m_func` is
`vibrate()`, so a thread's call enters `configure()` beside the main thread.
`configure()` is a program of device operations per back end (`Program`), one
step each, and `at` says where each actor stands:

| back end | operations of `configure(On, d)` | the device |
|---|---|---|
| ff | play, sleep, stop | plays until it is stopped; forgotten when the file is closed |
| sysfs | state, duration, activate | a timer of the transient trigger, ignored while one runs |
| legacy | enable | a timer, the last write counts |
| binder | transact | a timer of the HAL, the last call counts |
| dummy | print | none |

`Die` is the end of the process at any point, for instance by an exception of
`set_sysattr`, which nobody catches; `Start` is activation, with the
constructor's switch-off. An attribute is written or an exception is thrown, but
the rest may fail without anybody noticing: `write()` of a play or a stop
(vibrator-ff.cpp:78, 85) and the HAL's `on()` and `off()`, that of the constructor
included (vibrator-binder.cpp:94-108). Each of these operations is taken by the
device (`Takes`) or missed (`Misses`). History variables only serve the properties:
`clean` (an actor nobody has overlapped), `lost` (the device missed the last thing it
was told and is not as it should be), `asked` (the durations the clients of this
process have asked for).

The service never destroys its Vibrator, but `main()` of `hfd_vibrator` returns six
seconds after `rumble(500, 5)`, while the force-feedback pattern, and perhaps the
last pulse of any other, is still to be played. `Destroy` is the derived
destructor, `DropThread` the release of `m_repeatThread` in the base class, which
aborts and joins as `rumble()` does, and `Exit` the end of `main()`. In between the
thread calls `configure()` of an object that is half gone: it may find the device
closed (`Unheard`), reach it all the same, or end the process by the pure virtual
function (`Die`). Which of these a build does is not determined.

### Feedback

Nothing in the plugin remembers a chain of callbacks, so the model gives each
one in flight a name: `start` (the zero timer), `call` (waiting for the reply),
`timer` (waiting for twice the period). The event loop runs one callback at a
time. The calls are on the bus in the order they were made (`queue`), and the
first `served` of them have been served. A call may time out (`ReplyError`) while
the bus still holds it: it is served all the same, as an `Orphan`, and its answer is
dropped. A service that dies takes along what it has not served. `RepeatOf` is the
arithmetic of `startVibration()` in an `int` whose sums wrap (`Wrap`), and a
period whose double does not fit arms no timer (`TimerFits`).

### Leds

A slot stores its value and, if it applies, puts the operations of `configure()`
in `todo`; the next slot is served when they are done. The sysfs device follows
what the code relies on: writing "timer" gives a channel its delay attributes,
a zero brightness takes them away, negative delays are refused, and a
refused write ends the process (`Refused`). The two HAL back ends send the whole
light in one message, which can fail without anyone noticing (`lost`). The
process may also die anywhere (`Die`), and its members start again at their
defaults while the device keeps what it shows (`Gone`, `Start`).

`Light` says the same without operations: a light is asked for, it is on its way
there, and in the end it is there or the process is gone. `Safety` is that without
"in the end". While it is to be off the light never brightens on the way. A device that tells nobody whether it took a message
(`confirmed` false: the HALs, the dummy) may arrive where it was. The mapping is
`Contract`.

### QmlLeds

Each object has its own copy (`copy`) and its own queue on the bus (`queue`,
first in first out per sender, nothing ordered between senders). `TurnOn` sends
the color, the delays and the state as four messages. `Serve` is the slot of
`Leds` for the oldest message of some object. `Death` takes along any prefix
of each queue: what the dead process had received and not served. `Activate`
starts the service when a message is waiting. The messages "On" carry the
values they are meant for as history.

### Startup

The hardware is a set of facts (`Hardware`), each of which may change at any
moment (`Change`). `main()` goes through the two halves, `vibrator` and `leds`;
in each it either asks the classes in turn (`Probe`, in the order `After`) and
constructs the first that says yes, or constructs the one the environment names
without asking (`Named`). `usable()` and the constructors are sets of possible
answers and results, since some depend on values nobody has set: the flags `red`
and `green` of `LedsSysfs::usable()`, and the feature bits of an input device
that cannot be opened. A constructor's result is "good", "null" (an object that
does nothing), "mute" (the input device is open, but has refused the upload of the
effect, and the object plays an effect of id -1, vibrator-ff.cpp:136-140), "garbage"
(it has returned before it set its pointers) or an exception, which ends the process
(`Throw`). `usable()` of the light HAL says no when the HAL is there and does not
answer (leds-binder.cpp:55-69). A scan of the LED class devices asks
each one it has listed for its name, and one that has gone in between has none:
`std::string` throws, even in `usable()` (`ScanThrows`). What the calls do to a
"good" object is `Vibrator` and `Leds`.

### UdevHandles

The places a C++ object can live in (`Var`), each with its handle, and libudev's
count of each of its objects. One class is chosen at the start; the four are alike
but for their assignment operators: `Udev`, `UdevMonitor` and `UdevDevice` forget
what they held (`CopyAssign`), `UdevEnumerate` keeps it and counts a reference to
the other (`CopyAssignEnumerate`), a moved `UdevEnumerate`, `Udev` or `UdevMonitor`
takes the reference over (`MoveAssign`), and a moved `UdevDevice` counts one too many
(`MoveAssignDevice`). `UdevDevice() = default` leaves a handle that is null or
indeterminate; the back ends with such a member assign to it before anything
reads it, which is why an assignment that gave back the old reference, as the
usual one does, would be wrong here as the constructors stand.

References are lost once per start of the service and not once per call: every
assignment of the repository is in a constructor, `configure()` copies devices and
destroys the copies, and copies balance (`FreedWithTheLast`).

## The runs

| run | configuration | shows | size |
|---|---|---|---|
| `repeat_thread` | one object, counts -1, 0, 1 and INT_MAX (= 2) | all properties of the thread and the refinement | 726 states |
| `vibrator` | two objects, patterns of two pulses, durations 1 and 2, five back ends, deaths and destructions | safety of the composition | 1.8 million |
| `vibrator_live` | patterns of one pulse and endless ones, ff and binder, deaths and destructions | liveness of the composition | 0.7 million |
| `feedback` | a pattern of three calls, an endless ring, a long and a huge effect whose arithmetic wraps; two chains, three calls on the bus | counting, coverage, termination | 0.2 million |
| `feedback_forever` | same | finding | - |
| `feedback_stopped` | same | finding | - |
| `leds` | three colors, good and negative delays, four back ends, deaths | light and members agree, the refinement | 3 752 |
| `qml_leds` | two objects, two colors, deaths, HAL back end | several applications over one light | 0.7 million |
| `qml_leds_alone` | one object with delays, sysfs, deaths | delivery, also past refused delays | 1.0 million |
| `qml_leds_restart` | one object, deaths | finding | - |
| `startup` | eight devices, every environment and build, one change or kill | the choice of the back ends, exceptions, availability | 0.25 million |
| `udev_handles` | four places, two libudev objects, each class | references under copy, move and assignment | 70 000 |

Why the bounds are enough.

* One object suffices for `RepeatThread`: objects share nothing (the
  proof makes this explicit, see `OtherObjects`), and the object is constructed
  and destroyed over and over. Three pulses never differ from two: the
  interesting places are the first, a middle, the last and the overflow.
* Two thread objects are all that ever exist at once: `Rumble` needs a free one
  and the main thread joins before it serves the next slot. Deaths are not
  bounded, here and in `Leds` and `QmlLeds`: a dead process leaves only the
  device behind, so the state space closes.
* Two chains let a callback of one effect meet the state of another, and two
  chains of one effect meet each other. `Chain` bounds what the application may
  have in flight; `Run` waits for a free one. `MaxCalls = 3` is room for both and
  for a call nobody waits for; a call waits for room, which the code does not.
  `IntMax = 511`: the four effects have a sum that fits, none, one that wraps to a
  negative count, and one that wraps to Infinite with a timer that does not fit.
  It must be 150 at least, the default duration and period.
* The three colors of `leds` are chosen so that each channel is once dark
  between two lit ones and black removes all the triggers.
* `MaxQueue = 4` lets `setState(On)` be sent into an empty queue; a client
  waits for room, which the code does not, but the order of what is served
  is unaffected. Smaller messages fill the queue in every other way.

* The eight devices of `startup` have each interface alone or with the others, an
  incomplete set of LEDs, an unreadable input device alone and with others, a rumble
  device that refuses the effect, a light HAL that does not answer, and nothing. One change of any fact, or one kill, comes between any two steps.
* Four places for handles: two that share an object, a third that is assigned to
  and a fourth to assign from; two libudev objects. `MaxRefs` stops the references
  that assignments lose from growing for ever: a copy waits for room.

`startup` sets `CHECK_DEADLOCK FALSE`: a service that serves has started, and nothing
else need happen. So does `udev_handles`: when every place holds a default-initialised
device, there is nothing to copy, assign or destroy. No other run does. No symmetry is used: the runs are small
enough, and liveness is checked in most of them.

### What is checked

RepeatThread
* `NoLostWakeup`, `AtMostOneLateCall`, `NoUseAfterDestroy`: the thread never
  sleeps while it is joined; after the flag is set at most one call begins; the
  members go only after the thread has.
* `DestructorReturns`, `PatternEnds`, `ImplementsPulseTrain`.

Vibrator
* `NoStalePattern`, `AtMostTwoConfigure`: the old pattern is over when
  `rumble()` returns, and never more than two actors are in `configure()`.
* `SomebodyStopsTheMotor`: a force-feedback effect has no timer; some actor
  in `configure()` is always going to stop it, also when the object is destroyed under
  its pattern. A stop the device missed is the one exception.
* `ReleaseReturns`: `rumble()` and the destruction of a Vibrator come to an end
  although they wait for a thread, an endless pattern's included.
* `OnlyWhatWasAsked`: the motor of a service runs only for durations that clients of
  this process asked for, whatever an earlier process, dead in a pulse or between two
  writes, has left in the motor or in the attribute. A HAL that missed the last thing it
  was told may still be at what it was doing before.
* `UndisturbedPulse`: a call nobody overlapped plays its own duration, unless a play, a
  stop or a HAL call was missed.
* `RestsInTheEnd`: once clients are done the motor rests, unless the last stop of a
  force-feedback effect was missed.

Feedback
* `RunningMeansPending`, `CallsWithinDuration`, `EndsCovered`: the shared state and
  the chains agree, and calls cover the duration and no more. The exceptions the
  width of `int` makes are part of the statements: a count that wraps to Infinite
  plays for ever, one that wraps to a negative number plays once, and a period
  above half of INT_MAX leaves the state Running with nothing in flight.
* `HaltedDiesOut`, `FiniteEnds`: what was stopped dies out, on the bus too; Running
  ends unless something unending was started.

Leds
* `InSync`, `OnlyBadDelaysKill`, `NoFlashWhileOff`.
* `ImplementsLight`: the slots, device operations, failures and restarts are steps of
  `Light`, with its promise that the light is not on its way for ever.

QmlLeds
* `AllOffMeansDark`, `LoneClientAgrees`, `ServedInTheEnd`.

Startup
* `ServesTheBest`: on hardware that stands still, what create() chooses is there,
  its constructor has succeeded, and nothing better is there. An input device that
  cannot be read, or that refuses the effect, may stand in for the force feedback or
  for the dummy, never for anything better, and then never vibrates. A light HAL that
  does not answer is passed over.
* `StartEndsOnlyWhen`: which starts an exception can end. Unless the class was named
  or the hardware changed, it is the constructor of the LED class devices, chosen
  with red or green missing on the strength of an uninitialised flag.
* `ServesInTheEnd`: on hardware without that trap the service is up in the end,
  whatever changes and exceptions came before.

UdevHandles
* `HeldIsAlive`: no handle outlives its libudev object, in particular after a
  self-assignment or a move from what was moved.
* `FreedWithTheLast`, `LostByAssignment`: references are lost by assignments and by
  nothing else, and an object no assignment was about goes with its last holder.

### What the code does not do

Three runs are expected to fail, and each refutes a comment of the code:
* `ForeverUntilStopped`: an endless effect does not play "forever until stopped"
  (hfd_feedback.cpp:151-152) when a finite one ends beside it, since the last
  reply sets the one shared state to Stopped.
* `StoppedChainsStayStopped`: the test of the shared state "Maybe stopped/paused
  before this async call." (hfd_feedback.cpp:127) lets a stopped chain go on when
  something was started in between.
* `UpToDateWhenLit`: sending all values before the state (qt/qml/leds.cpp:39)
  does not bring a service up to date that restarts between the messages.

What the properties do *not* say is as telling. `UndisturbedPulse` speaks of
calls nobody overlapped: with an overlap a force-feedback pulse is cut short, and
a sysfs pulse can have the other caller's duration. Nothing tells the service of a
play, a stop or a HAL call that failed: an effect whose last stop was missed plays until
another call, or the end of the process, and a service may go on with the pulse of the
process before it. `LoneClientAgrees` needs an
object that has sent the whole light since the last death and that has no
competitor: otherwise its copy may differ from the light for good.

### Fairness

* The threads are scheduled, and a deadline passes (`WF` of `RunnerStep`,
  `Expire`): the operating system's promise and the steady clock's.
* The main thread goes on with the destructor it is in (`DropThread`, `Exit`).
* The owner gets the mutex (`SF` of `OwnerLock`, `TakeMutex`): a thread of many
  repetitions frees it and takes it again, and each sleep of `wait_until` leaves
  it free for as long as the sleep lasts. Weak fairness would let the owner be
  passed over for ever, which no scheduler does with a lock that is free
  almost always.
* Device operations return (`Configure`, `Operation`), timers fire and replies
  come, one way or the other (`Callback`, `Serve`): D-Bus calls time out.
* The bus delivers and activates (`Serve`, `Activate` of `QmlLeds`).
* `main()` goes on (`MainStep`), and clients keep calling (`Activate` of
  `Startup`): every call that finds the service down has it started. Without
  them a service that has died is never started again.
* Nothing is assumed of the clients otherwise: they need never call.

## The proofs

| theorem | states |
|---|---|
| `RepeatThreadProofs!TypeCorrect` | `Spec => []TypeOK` |
| `RepeatThreadProofs!InductiveInvariant` | `Spec => []IInv` |
| `RepeatThreadProofs!NoLostWakeupHolds`, `AtMostOneLateCallHolds`, `NoUseAfterDestroyHolds` | the three invariants |
| `RepeatThreadProofs!Implements` | `Spec => ImplementsPulseTrain` |
| `VibratorProofs!RumbleInvariant` | `Spec => []IInv` |
| `VibratorProofs!NoStalePatternHolds`, `AtMostTwoConfigureHolds` | two invariants of `rumble()` |
| `VibratorDeviceProofs!ThreadsFit` | `Spec =>` the three invariants of `RepeatThread`, for the service's threads |
| `VibratorDeviceProofs!TypeCorrect`, `SomebodyStops`, `OnlyWhatWasAskedHolds` | invariants |
| `VibratorDeviceProofs!UndisturbedPulseHolds` | an action property |
| `FeedbackProofs!TypeCorrect`, `RunningMeansPendingHolds`, `CallsWithinDurationHolds` | invariants |
| `FeedbackProofs!EndsCoveredHolds` | an action property |
| `LedsProofs!TypeCorrect`, `InSyncHolds` | invariants |
| `LedsProofs!OnlyBadDelaysKillHolds`, `NoFlashWhileOffHolds` | action properties |
| `LedsProofs!ImplementsLightSafety` | `Spec => Contract!Safety`, the refinement of `Light` but for its liveness |
| `QmlLedsProofs!TypeCorrect`, `AllOffMeansDarkHolds`, `LoneClientAgreesHolds` | invariants |
| `QmlLedsProofs!ServiceHolds`, `ImplementsLightSafety` | what `LedsProofs` shows, of the service with its applications |
| `QmlLedsProofs!UpToDateWithoutDeath` | `UpToDateWhenLit` for one object, as long as the service lives |
| `StartupProofs!TypeCorrect`, `InductiveInvariant`, `ServesTheBestHolds` | invariants |
| `StartupProofs!StartEndsOnlyWhenHolds` | an action property |
| `UdevHandlesProofs!TypeCorrect`, `HeldIsAliveHolds`, `FreedWithTheLastHolds` | invariants |
| `UdevHandlesProofs!LostByAssignmentHolds` | an action property |

Assumptions on the constants: `TimesAssumption` (counts are of the width of
`int`), in `Vibrator` `NamesAssumption`, `CountsAssumption`, `DurationsAssumption`
and `BackendsAssumption`, in `Feedback` `EffectAssumption` (some effects, with
durations and periods of the width of `int`, which holds 150) and
`OrphanAssumption`, in `Leds` `ColorAssumption`, `DelayAssumption` (no delay is zero,
see the limits) and `BackendsAssumption`, in `QmlLeds` the same as `ServiceAssumption`,
with `BlueAssumption` and `MaxQueueAssumption`, in `Startup` `WorldsAssumption`, in `UdevHandles`
`NamesAssumption` and `VarAssumption` (finitely many places). TLC evaluates them in every run.

*RepeatThread.* None of the three invariants is inductive. That the thread is
awake when it is joined rests on the flag being set before the notification and
on the thread not standing between its test and its sleep at that moment, which
the mutex excludes: hence `MutexFits` (who holds the mutex, by program counters),
`FlagFits` (the flag, by the owner's) and `AwakeFits`. `LateFits` says that a call
begun after the flag is the last. `CounterFits` bounds the counter, which the
refinement needs to know that the loop ends exactly when nothing is owed. `IInv`
is their conjunction for every object, with the typing; since every action
touches one object, the lemma `OtherObjects` reduces an action to the object
it acts on, and `RunnerKeepsObject` and `OwnerKeepsObject` go through the actions.
`StepImplements` maps each action to one of `PulseTrain` or to a stutter.

*Vibrator.* `IInv` says which thread objects exist: those that
`m_repeatThread` and the released pointer lead to, and that only the latter is
ever destroyed; a destruction of the Vibrator is a release like `rumble()`'s. With the thread's own invariant this gives both theorems:
`at[t] # 0` puts the thread in its call, so at most the two existing threads are
in `configure()`, and the main thread is not when there are two.

*The vibrator's device.* None of the device properties is inductive by itself, since
the effect's stop is an operation of an actor that others overlap. `MotorFits` says that
an effect is on only while some actor stands between its play and its stop, or a stop was
missed; the stop of whoever comes first ends it, and the others' stops then find it off.
`DownFits` says that there is no pattern and no call when there is no process.
`AskedFits` follows a duration on its way to the motor: what an actor was called with,
what a pattern will call with, and what the attribute holds when an actor is about to
activate it, whoever wrote it last. `CleanFits` says what an actor nobody overlapped finds
before each of its operations, the register of the sysfs device included. `DevInv` is preserved given the invariant of `rumble()` and that of
the threads. The latter is not proved again: the threads' steps are steps of
`RepeatThread` (`ThreadsRefine`), so that `RepeatThreadProofs` applies to them through an
instance, except for the death of the process, which starts them anew.

*Feedback.* `CountFits` says that the calls made and the repetitions carried add
up to `RepeatOf`, or that the count has wrapped to a negative number and there was
one call; the arithmetic of the rounded-up quotient, and of the sum that wraps, are
lemmas on division of their own. `playing` needs a chain of the effect in flight
(`RunningMeansPending`), which every callback either keeps or stops.

*Leds.* `InSync` speaks of the moments between two calls, and what makes it true are
the operations since the last one. The invariant follows them: `todo` is always a
`Suffix` of one of the three programs of the sysfs back end, and `Lit` and `Zeroed` say
what the writes before that point have left on each channel. One lemma per kind of
write (`LitStep`, `ZeroStep`) takes it a step on. Of a HAL back end it is enough that
`todo` holds nothing but messages, each of which tells all. At the end of the program this is
`InSync`, and before a write of a delay it is that the trigger is there, which is
`OnlyBadDelaysKill`: a client's delays are not zero, and those that the kernel takes are
positive. All of this is for delays other than zero (`DelayAssumption`), which is less
than the slots accept. The refinement maps a slot to `Ask`, an operation to `Move` or, if it is the
last, to `Arrive`, which needs `InSync` in the state after it.

*QmlLeds.* What the queues will still do to the service is what their last messages
say (`LastSays`). `QueueFits` says that this is what the object's copy says, for each of the
four values; it survives the loss of any prefix, which is all a death can do. Where a
queue is `Silent` about a value, `LoneFits` says that the service has it already, if
nobody competes. `OnHasReason` is what `AllOffMeansDark` needs and holds for any number of
competitors: a service that is On has an object that is On, or a message about
the state on its way. The service below goes by the invariant of `LedsProofs`, which is
proved for a slot with any argument, since an object may send its own first color,
which is none of those `Leds` enumerates. `UpToDateWithoutDeath` is the other side of
the finding: the four messages of `setState(On)` stay together (`OnsFit`), and without
a death or a competitor between them the comment is right.

*Startup.* `ServesTheBest` speaks of the end of a start; its strengthening `IInv`
says at each point of it that whatever was passed over is not there, and that what
was chosen is. The lemmas `AnswersFit` and `ResultsFit` compare each class's `usable()`
and constructor with what the hardware has (`Backed`); `Order` says that create()
passes over one class at a time, from the best down. `SaidYes` is the invariant
behind `StartEndsOnlyWhen`. Both hold for any set of devices and any number of
changes and kills; `TakenResults` is what an input device that is unreadable, or refuses
the effect, can do at most (`Misread`, `Full`).

*UdevHandles.* The conjunction of the three invariants is inductive. Each action
changes the set of places that hold an object by one place at most, for at most two
objects; `SetOne`, `SetNull` and `TakeFrom` say what that does to its cardinality, and
the `...Loses` lemmas what it does to `Lost`, action by action, which is the action
property too.

*Only model-checked*: all liveness (`DestructorReturns`, `PatternEnds`,
`ReleaseReturns`, `RestsInTheEnd`, `HaltedDiesOut`, `FiniteEnds`, `ServedInTheEnd`,
`ServesInTheEnd`, and that of `ImplementsLight`), which is out of the prover's reach, as
fairness and ENABLED are. Every invariant and every action property that a passing
run checks is also the statement of a theorem. What the three findings refute is of
course not.

## Limits of the model

* Durations are naturals in `Vibrator`: a negative duration makes the sysfs
  and legacy devices refuse the write (the process dies, which `Die` covers).
  `durationMs*2` and `durationMs*1000` do not overflow: what they change is how long
  a sleep lasts, up to 71 minutes of the main thread in `usleep()`, and the model
  has no lengths of sleeps.
* Delays of the light are not zero: what the timer trigger makes of a zero delay
  is the kernel's choice of a default, which the code never reads back.
* Alpha is left out: the HAL back ends overwrite it and the sysfs back end does
  not read it.
* The kernel devices and the HAL are external, modelled by what the back ends use. A
  force-feedback device that misses a play or a stop, or a HAL that misses a call, stays
  as it is.
* What calls do to an object whose constructor failed half way is not modelled
  (`Startup` says when there is one); neither is an effect or a
  plugin that is deleted while a callback to it is in flight.
* In `Startup` a kernel has the timer trigger for all LEDs or for none, and each
  channel has at most one device.
* In `Vibrator` a program that destroys its object may have made any calls before,
  not only those of `hfd_vibrator`. Memory that is freed and used again by something
  else is not modelled: a handle given back works, does nothing or ends the process.
* Not modelled: the accessors of the udev wrapper (they change nothing), the other
  tools and demos (straight-line calls of the modelled slots), the QML registration
  (no state), configuration files.

## Plan

Of the code, what is left is what calls do to an object whose constructor failed
half way. Of the proofs:

1. A specification of the vibrator without threads and operations, as `Light` is of
   the light, and that `Vibrator` implements it: which pulses a client may feel.
2. The refinement of `PulseTrain` for the threads of the service, with the death of the
   process as a step of the abstract side.
3. The safety half of the liveness properties: that what they wait for is reached by
   steps that decrease a measure, of which the prover can show each step.
