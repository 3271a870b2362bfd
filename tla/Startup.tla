-------------------------------- MODULE Startup --------------------------------
(***************************************************************************)
(* How hfd-service starts: main() (src/src/service.cpp) has the two        *)
(* factories, Vibrator::create() and Leds::create(), choose a back end by  *)
(* asking each class's usable(), or construct the one an environment       *)
(* variable names without asking, and then registers on the bus.  A probe  *)
(* and the constructor that follows it look at the hardware one after the  *)
(* other; the hardware, and the HAL's services, may come and go between.   *)
(*                                                                         *)
(* An exception of a constructor ends the process, and D-Bus activation    *)
(* starts the next one.  Hardware is a set of facts.                       *)
(***************************************************************************)
EXTENDS Naturals

CONSTANTS Worlds,      \* the hardware there may be to begin with
          MaxEvents    \* bound: changes of the hardware, and kills

Hardware == {
  "vibrator HAL",      \* IVibrator is registered with the service manager
  "vibrator LED",      \* /sys/class/leds/vibrator
  "transient",         \* its trigger file lists the transient trigger
  "attributes",        \* the driver has duration, state and activate itself
  "timed_output",      \* /sys/class/timed_output/vibrator
  "rumble",            \* an input device with FF_RUMBLE that can be opened
  "room",              \* which takes the upload of an effect
  "unreadable",        \* an input device that cannot, listed before it
  "light HAL",         \* ILight is registered
  "answers",           \* and answers getSupportedTypes()
  "notifications",     \* with a notification light among them
  "light module",      \* the lights module of libhybris opens
  "red", "green", "blue",   \* LED class devices named for the channels
  "timer",             \* the kernel has the timer trigger
  "bus"}               \* registration on the system bus succeeds

ASSUME WorldsAssumption == Worlds \subseteq SUBSET Hardware /\ MaxEvents \in Nat

Half == {"vibrator", "leds"}
Classes == [vibrator |-> {"binder", "sysfs", "legacy", "ff", "dummy"},
            leds |-> {"binder", "hybris", "sysfs", "dummy"}]
Optional == {"binder", "hybris"}     \* compiled in if the library was there

Channel == {"red", "green", "blue"}
LedDevice == Channel \cup {"vibrator LED"}     \* the subsystem "leds"

VARIABLES
  world,     \* what of the hardware is there
  env,       \* HFD_VIBRATOR_IMPL and HFD_LEDS_IMPL, or "unset"
  built,     \* the optional classes that were compiled in
  stage,     \* main(): "down", in a half's create(), "register" or "serving"
  step,      \* in create(): "probe" or "construct"
  trying,    \* the class it is about
  class,     \* of the object each half got, or "none"
  handle,    \* what its constructor made of the device (Results)
  moved,     \* history: the hardware has changed since this process began
  events     \* changes and kills so far

config == <<env, built>>
object == <<class, handle>>
vars == <<world, config, stage, step, trying, object, moved, events>>

TypeOK ==
  /\ world \subseteq Hardware
  /\ \A h \in Half : env[h] \in {"unset", "other"} \cup Classes[h]
  /\ built \subseteq Optional
  /\ stage \in {"down", "register", "serving"} \cup Half
  /\ step \in {"probe", "construct"}
  /\ trying \in Classes["vibrator"] \cup Classes["leds"]
  /\ stage \in Half => trying \in Classes[stage]
  /\ stage \in Half /\ step = "probe" => trying # "dummy"
  /\ DOMAIN class = Half /\ \A h \in Half : class[h] \in Classes[h] \cup {"none"}
  /\ handle \in [Half -> {"none", "good", "null", "mute", "garbage"}]
  /\ moved \in BOOLEAN
  /\ events \in 0 .. MaxEvents

Init ==
  /\ world \in Worlds
  /\ env \in {[vibrator |-> v, leds |-> l] :
                v \in {"unset", "other"} \cup Classes["vibrator"],
                l \in {"unset", "other"} \cup Classes["leds"]}
  /\ built \in SUBSET Optional
  /\ stage = "down" /\ step = "probe" /\ trying = "dummy"
  /\ class = [h \in Half |-> "none"] /\ handle = [h \in Half |-> "none"]
  /\ moved = FALSE /\ events = 0

-------------------------------------------------------------------------------
(* usable(), one operator per class: the set of its possible answers. *)

\* getFirstFFDevice() skips devices without the rumble bit.  The features of a
\* device that cannot be opened are read uninitialised: it may be taken.
FFDevices ==
  {IF "rumble" \in world THEN "rumble" ELSE "nothing"}
  \cup (IF "unreadable" \in world THEN {"unreadable"} ELSE {})

VibratorBinderUsable == {"vibrator HAL" \in world}
VibratorSysfsUsable ==
  {"vibrator LED" \in world /\ ("transient" \in world \/ "attributes" \in world)}
VibratorLegacyUsable == {"timed_output" \in world}
VibratorFFUsable == {device # "nothing" : device \in FFDevices}

\* A failed getSupportedTypes() comes to a no.
LedsBinderUsable ==
  {"light HAL" \in world /\ "answers" \in world /\ "notifications" \in world}
LedsHybrisUsable == {"light module" \in world}

\* "bool red, green, blue = false" initialises only blue: without a device of
\* its own, red or green may be anything.
LedsFlag(c) ==
  IF c \in world THEN {"timer" \in world}
  ELSE IF c = "blue" THEN {FALSE} ELSE BOOLEAN
LedsSysfsUsable ==     \* red && green && blue
  {yes \in BOOLEAN : IF yes THEN \A c \in Channel : TRUE \in LedsFlag(c)
                     ELSE \E c \in Channel : FALSE \in LedsFlag(c)}

AnswersUnchecked(h, c) ==
  IF c \in Optional \ built THEN {FALSE}
  ELSE IF h = "vibrator" /\ c = "sysfs" THEN {"vibrator LED" \in world}
  ELSE IF h = "vibrator" THEN
    [binder |-> VibratorBinderUsable, legacy |-> VibratorLegacyUsable,
     ff |-> VibratorFFUsable][c]
  ELSE [binder |-> LedsBinderUsable, hybris |-> LedsHybrisUsable,
        sysfs |-> LedsSysfsUsable][c]

\* A class that was not compiled in is not asked, which comes to a no.
Answers(h, c) ==
  IF c \in Optional \ built THEN {FALSE}
  ELSE IF h = "vibrator" THEN
    [binder |-> VibratorBinderUsable, sysfs |-> VibratorSysfsUsable,
     legacy |-> VibratorLegacyUsable, ff |-> VibratorFFUsable][c]
  ELSE [binder |-> LedsBinderUsable, hybris |-> LedsHybrisUsable,
        sysfs |-> LedsSysfsUsable][c]

-------------------------------------------------------------------------------
(* The constructors: the set of their possible results.  "good" holds the   *)
(* device, "null" holds none and every call does nothing, "mute" holds an   *)
(* input device but no effect to play, "garbage" has returned before it set *)
(* its pointers, "throws" is an exception.                                  *)

NewVibratorBinder == {IF "vibrator HAL" \in world THEN "good" ELSE "garbage"}

\* device_from_syspath() throws, and so does the write that switches off.
NewVibratorSysfs ==
  {IF "vibrator LED" \in world /\ ("transient" \in world \/ "attributes" \in world)
   THEN "good" ELSE "throws"}
NewVibratorLegacy == {IF "timed_output" \in world THEN "good" ELSE "throws"}

\* The device is looked for anew; open() fails on "" and on an unreadable one, and
\* without room for the effect its upload does, which leaves the id at -1.
NewVibratorFF ==
  {IF device # "rumble" THEN "null" ELSE IF "room" \in world THEN "good" ELSE "mute" :
     device \in FFDevices}

NewLedsBinder == {IF "light HAL" \in world THEN "good" ELSE "garbage"}
NewLedsHybris == {IF "light module" \in world THEN "good" ELSE "null"}

\* configure() switches all three channels off: a missing one is a null handle,
\* which libudev refuses, as the kernel does a trigger it does not have.
NewLedsSysfs ==
  {IF Channel \subseteq world /\ "timer" \in world THEN "good" ELSE "throws"}

Results(h, c) ==
  IF c = "dummy" THEN {"good"}
  ELSE IF h = "vibrator" THEN
    [binder |-> NewVibratorBinder, sysfs |-> NewVibratorSysfs,
     legacy |-> NewVibratorLegacy, ff |-> NewVibratorFF][c]
  ELSE [binder |-> NewLedsBinder, hybris |-> NewLedsHybris,
        sysfs |-> NewLedsSysfs][c]

-------------------------------------------------------------------------------
(* create() and main(). *)

AfterLegacyFirst ==
  [vibrator |-> [main |-> "binder", binder |-> "legacy", legacy |-> "sysfs",
                 sysfs |-> "ff", ff |-> "dummy"],
   leds |-> [main |-> "binder", binder |-> "hybris", hybris |-> "sysfs",
             sysfs |-> "dummy"]]

\* The order in which create() asks.
After ==
  [vibrator |-> [main |-> "binder", binder |-> "sysfs", sysfs |-> "legacy",
                 legacy |-> "ff", ff |-> "dummy"],
   leds |-> [main |-> "binder", binder |-> "hybris", hybris |-> "sysfs",
             sysfs |-> "dummy"]]

NamedAsIs(h) == env[h]

\* create(type) constructs the class of that name, or the dummy.
Named(h) == IF env[h] \in Classes[h] \ (Optional \ built) THEN env[h] ELSE "dummy"

\* main() enters create() or create(type) of half h.
Enter(h) ==
  /\ stage' = h
  /\ \/ env[h] = "unset" /\ trying' = After[h].main /\ step' = "probe"
     \/ env[h] # "unset" /\ trying' = Named(h) /\ step' = "construct"

\* A message for the service has the bus start it.
Activate ==
  /\ stage = "down" /\ Enter("vibrator")
  /\ class' = [h \in Half |-> "none"] /\ handle' = [h \in Half |-> "none"]
  /\ moved' = FALSE
  /\ UNCHANGED <<world, config, events>>

Probe(h) ==
  /\ stage = h /\ step = "probe"
  /\ \/ /\ TRUE \in Answers(h, trying)
        /\ step' = "construct" /\ UNCHANGED trying
     \/ /\ FALSE \in Answers(h, trying)
        /\ trying' = After[h][trying]
        /\ step' = IF trying' = "dummy" THEN "construct" ELSE "probe"
  /\ UNCHANGED <<world, config, stage, object, moved, events>>

Construct(h) ==
  /\ stage = h /\ step = "construct"
  /\ \E r \in Results(h, trying) \ {"throws"} :
       handle' = [handle EXCEPT ![h] = r]
  /\ class' = [class EXCEPT ![h] = trying]
  /\ \/ h = "vibrator" /\ Enter("leds")
     \/ h = "leds" /\ stage' = "register" /\ UNCHANGED <<step, trying>>
  /\ UNCHANGED <<world, config, moved, events>>

\* Nobody catches the exception, on any way into main().
Throw(h) ==
  /\ stage = h /\ step = "construct" /\ "throws" \in Results(h, trying)
  /\ stage' = "down"
  /\ UNCHANGED <<world, config, step, trying, object, moved, events>>

\* LedsSysfs asks each device it has just listed for its name; one that has gone
\* since is a null handle without a name, and std::string() throws.
ScanThrows ==
  /\ stage = "leds" /\ trying = "sysfs"
  /\ events < MaxEvents /\ events' = events + 1
  /\ \E f \in world \cap LedDevice : world' = world \ {f}
  /\ moved' = TRUE /\ stage' = "down"
  /\ UNCHANGED <<config, step, trying, object>>

\* lastError() is valid: main() returns 1.
Register ==
  /\ stage = "register"
  /\ stage' = IF "bus" \in world THEN "serving" ELSE "down"
  /\ UNCHANGED <<world, config, step, trying, object, moved, events>>

\* A device, a driver or a HAL service comes or goes.
Change ==
  /\ events < MaxEvents /\ events' = events + 1
  /\ \E f \in Hardware :
       world' = IF f \in world THEN world \ {f} ELSE world \cup {f}
  /\ moved' = TRUE
  /\ UNCHANGED <<config, stage, step, trying, object>>

Die ==
  /\ stage # "down" /\ events < MaxEvents /\ events' = events + 1
  /\ stage' = "down"
  /\ UNCHANGED <<world, config, step, trying, object, moved>>

MainStep ==
  \/ \E h \in Half : Probe(h) \/ Construct(h) \/ Throw(h)
  \/ Register

Next == Activate \/ MainStep \/ ScanThrows \/ Change \/ Die

\* The process runs, and clients keep calling: every call that finds the
\* service down has it started.
Spec == Init /\ [][Next]_vars /\ WF_vars(MainStep) /\ WF_vars(Activate)

-------------------------------------------------------------------------------
(* Properties. *)

\* What the hardware has for each class, whatever the code asks it.
Backed(h, c) ==
  \/ c = "dummy"
  \/ /\ c \in built \/ c \notin Optional
     /\ IF h = "vibrator" THEN
          \/ c = "binder" /\ "vibrator HAL" \in world
          \/ c = "sysfs" /\ "vibrator LED" \in world
             /\ world \cap {"transient", "attributes"} # {}
          \/ c = "legacy" /\ "timed_output" \in world
          \/ c = "ff" /\ {"rumble", "room"} \subseteq world
        ELSE
          \/ c = "binder" /\ {"light HAL", "answers", "notifications"} \subseteq world
          \/ c = "hybris" /\ "light module" \in world
          \/ c = "sysfs" /\ {"red", "green", "blue", "timer"} \subseteq world

\* The classes preferred to c: a standard interface before a device file, a
\* HAL before both.
Before(h, c) ==
  {d \in Classes[h] :
     \/ c = "dummy" /\ d # "dummy"
     \/ d = "binder" /\ c # "binder"
     \/ d = "hybris" /\ c = "sysfs"
     \/ d = "sysfs" /\ c \in {"legacy", "ff"}
     \/ d = "legacy" /\ c = "ff"}

\* An input device that cannot be read may pass for the vibrator, and so does one
\* that has no room for the effect: usable() tries neither.
Misread(h, c) == h = "vibrator" /\ c = "ff" /\ "unreadable" \in world
Full(h, c) ==
  h = "vibrator" /\ c = "ff" /\ "rumble" \in world /\ "room" \notin world

\* What the constructor of c makes of the hardware that create() has found.
Holds(h, c, r) ==
  \/ r = "good" /\ Backed(h, c)
  \/ r = "null" /\ Misread(h, c)
  \/ r = "mute" /\ Full(h, c)

\* While the hardware stands still, a service that was not told which back ends
\* to use serves with the best the hardware has, and holds its devices; the
\* dummy serves only if there is nothing.  An input device that cannot be read, or
\* takes no effect, can only stand where the force feedback or the dummy would,
\* and then never vibrates (vibrator-ff.cpp:53, 136).  A HAL that does not answer
\* is passed over (leds-binder.cpp:60).
ServesTheBest ==
  stage = "serving" /\ ~moved => \A h \in Half : env[h] = "unset" =>
    /\ \A d \in Before(h, class[h]) : ~Backed(h, d)
    /\ Holds(h, class[h], handle[h])

\* A start ends in an exception only over a device that is not there, and then
\* only if the class was named by the environment, or the hardware changed, or
\* red or green is the missing one.
StartEndsOnlyWhen == [][\A h \in Half : Throw(h) =>
  /\ ~Backed(h, trying)
  /\ \/ env[h] # "unset"
     \/ moved
     \/ h = "leds" /\ {"blue", "timer"} \subseteq world]_vars

\* Hardware on which no start fails.
Sound ==
  /\ "bus" \in world
  /\ \A h \in Half : env[h] = "unset" \/ Backed(h, Named(h))
  /\ {"blue", "timer"} \subseteq world => {"red", "green"} \subseteq world

\* Once the hardware stands still, and is sound, the service is up for good.
ServesInTheEnd ==
  <>[][~Change /\ ~Die /\ ~ScanThrows]_vars /\ <>[]Sound => <>[](stage = "serving")

-------------------------------------------------------------------------------
(* The inductive strengthening of ServesTheBest. *)

\* A half that the factory chooses for.
Probed(h) == env[h] = "unset"
NoneBetter(h, c) == \A d \in Before(h, c) : ~Backed(h, d)

\* Its create() is over.
Made(h) == stage \in {"register", "serving"} \/ (h = "vibrator" /\ stage = "leds")

\* Whatever has been asked and passed over is not there; whatever is to be
\* constructed is, but for an incomplete set of LED class devices, whose
\* constructor throws, and an input device that is misread or full.
ChoiceFits(h) ==
  /\ stage = h => NoneBetter(h, trying)
  /\ stage = h /\ step = "construct" =>
       \/ Backed(h, trying) \/ Misread(h, trying) \/ Full(h, trying)
       \/ h = "leds" /\ trying = "sysfs"
  /\ Made(h) => NoneBetter(h, class[h]) /\ Holds(h, class[h], handle[h])

\* What has been asked and passed over is not there, and what has been chosen
\* is, at every point of a start on hardware that stands still.
IInv == ~moved => \A h \in Half : Probed(h) => ChoiceFits(h)
===============================================================================
