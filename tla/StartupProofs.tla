---------------------------- MODULE StartupProofs ----------------------------
(***************************************************************************)
(* Startup.tla for every hardware to begin with and every sequence of      *)
(* changes and kills: types, and the choice of the back ends.              *)
(*                                                                         *)
(* The argument: a no of usable() means that the class has nothing to      *)
(* drive, a yes that it has, except for the LED class devices and an input *)
(* device that is misread or takes no effect; a constructor of a class     *)
(* that has something succeeds, the one of the LED class devices throws if *)
(* it has not, and the one of the input device is left without a device or *)
(* without an effect.                                                      *)
(***************************************************************************)
EXTENDS Startup, TLAPS

USE DEF Half, Classes, Optional

LEMMA AfterTyped ==
  /\ \A h \in Half : After[h].main \in Classes[h] \ {"dummy"}
  /\ \A h \in Half : \A c \in Classes[h] \ {"dummy"} : After[h][c] \in Classes[h]
BY DEF After

LEMMA NamedTyped == \A h \in Half : Named(h) \in Classes[h]
BY DEF Named

-------------------------------------------------------------------------------
(* What usable() answers. *)

\* A class that was compiled in is asked; one that was not is no.
LEMMA Asked ==
  ASSUME NEW h \in Half, NEW c \in Classes[h] \ {"dummy"}
  PROVE  /\ c \in Optional \ built => Answers(h, c) = {FALSE}
         /\ c \notin Optional \ built =>
              /\ h = "vibrator" =>
                   /\ c = "binder" => Answers(h, c) = VibratorBinderUsable
                   /\ c = "sysfs" => Answers(h, c) = VibratorSysfsUsable
                   /\ c = "legacy" => Answers(h, c) = VibratorLegacyUsable
                   /\ c = "ff" => Answers(h, c) = VibratorFFUsable
              /\ h = "leds" =>
                   /\ c = "binder" => Answers(h, c) = LedsBinderUsable
                   /\ c = "hybris" => Answers(h, c) = LedsHybrisUsable
                   /\ c = "sysfs" => Answers(h, c) = LedsSysfsUsable
<1> USE DEF Answers
<1>1. CASE h = "vibrator" /\ c = "binder"
  <2>1. c \notin Optional \ built => Answers(h, c) = VibratorBinderUsable
    BY <1>1
  <2> QED BY <1>1, <2>1
<1>2. CASE h = "vibrator" /\ c = "sysfs"
  <2>1. c \notin Optional \ built => Answers(h, c) = VibratorSysfsUsable
    BY <1>2
  <2> QED BY <1>2, <2>1
<1>3. CASE h = "vibrator" /\ c = "legacy"
  <2>1. c \notin Optional \ built => Answers(h, c) = VibratorLegacyUsable
    BY <1>3
  <2> QED BY <1>3, <2>1
<1>4. CASE h = "vibrator" /\ c = "ff"
  <2>1. c \notin Optional \ built => Answers(h, c) = VibratorFFUsable
    BY <1>4
  <2> QED BY <1>4, <2>1
<1>5. CASE h = "leds" /\ c = "binder"
  <2>1. c \notin Optional \ built => Answers(h, c) = LedsBinderUsable
    BY <1>5
  <2> QED BY <1>5, <2>1
<1>6. CASE h = "leds" /\ c = "hybris"
  <2>1. c \notin Optional \ built => Answers(h, c) = LedsHybrisUsable
    BY <1>6
  <2> QED BY <1>6, <2>1
<1>7. CASE h = "leds" /\ c = "sysfs"
  <2>1. c \notin Optional \ built => Answers(h, c) = LedsSysfsUsable
    BY <1>7
  <2> QED BY <1>7, <2>1
<1>8. c \in Optional \ built => Answers(h, c) = {FALSE}
  OBVIOUS
<1> QED BY <1>1, <1>2, <1>3, <1>4, <1>5, <1>6, <1>7, <1>8

\* What a no and a yes mean.
LEMMA AnswersFit ==
  ASSUME NEW h \in Half, NEW c \in Classes[h] \ {"dummy"}
  PROVE  /\ FALSE \in Answers(h, c) => ~Backed(h, c)
         /\ TRUE \in Answers(h, c) =>
              \/ Backed(h, c) \/ Misread(h, c) \/ Full(h, c)
              \/ h = "leds" /\ c = "sysfs"
<1> USE DEF Backed, Misread, Full
<1>1. CASE c \in Optional \ built
  BY <1>1, Asked
<1> SUFFICES ASSUME c \notin Optional \ built
             PROVE  /\ FALSE \in Answers(h, c) => ~Backed(h, c)
                    /\ TRUE \in Answers(h, c) =>
                         \/ Backed(h, c) \/ Misread(h, c) \/ Full(h, c)
                         \/ h = "leds" /\ c = "sysfs"
  BY <1>1
<1>2. CASE h = "vibrator" /\ c = "binder"
  BY <1>2, Asked, ZenonT(60) DEF VibratorBinderUsable
<1>3. CASE h = "vibrator" /\ c = "sysfs"
  BY <1>3, Asked, ZenonT(60) DEF VibratorSysfsUsable
<1>4. CASE h = "vibrator" /\ c = "legacy"
  BY <1>4, Asked, ZenonT(60) DEF VibratorLegacyUsable
<1>5. CASE h = "vibrator" /\ c = "ff"
  <2>1. Answers(h, c) = {device # "nothing" : device \in FFDevices}
    BY <1>5, Asked DEF VibratorFFUsable
  <2>2. CASE "unreadable" \notin world
    <3>1. FFDevices = {IF "rumble" \in world THEN "rumble" ELSE "nothing"}
      BY <2>2 DEF FFDevices
    <3> QED BY <1>5, <2>1, <3>1
  <2>3. CASE "unreadable" \in world
    <3>1. FALSE \in Answers(h, c) => "nothing" \in FFDevices
      BY <2>1
    <3>2. "nothing" \in FFDevices => "rumble" \notin world
      BY DEF FFDevices
    <3>3. ~(h = "leds") /\ c = "ff"
      BY <1>5
    <3>4. "rumble" \notin world => ~Backed(h, c)
      BY <3>3
    <3> QED BY <1>5, <2>3, <3>1, <3>2, <3>4
  <2> QED BY <2>2, <2>3
<1>6. CASE h = "leds" /\ c = "binder"
  BY <1>6, Asked DEF LedsBinderUsable
<1>7. CASE h = "leds" /\ c = "hybris"
  BY <1>7, Asked DEF LedsHybrisUsable
<1>8. CASE h = "leds" /\ c = "sysfs"
  <2>1. Answers(h, c) = LedsSysfsUsable
    BY <1>8, Asked
  <2>2. FALSE \in LedsSysfsUsable => \E d \in Channel : FALSE \in LedsFlag(d)
    BY DEF LedsSysfsUsable
  <2>3. ASSUME NEW d \in Channel, FALSE \in LedsFlag(d)
        PROVE  d \notin world \/ "timer" \notin world
    BY <2>3 DEF LedsFlag
  <2>4. ASSUME Backed("leds", "sysfs"), NEW d \in Channel
        PROVE  d \in world /\ "timer" \in world
    BY <2>4 DEF Channel
  <2>5. FALSE \in LedsSysfsUsable => ~Backed("leds", "sysfs")
    BY <2>2, <2>3, <2>4
  <2> QED BY <1>8, <2>1, <2>5
<1>9. \/ h = "vibrator" /\ c \in {"binder", "sysfs", "legacy", "ff"}
      \/ h = "leds" /\ c \in {"binder", "hybris", "sysfs"}
  OBVIOUS
<1> HIDE DEF Backed, Misread, Full
<1> QED BY <1>2, <1>3, <1>4, <1>5, <1>6, <1>7, <1>8, <1>9

-------------------------------------------------------------------------------
(* What the constructors make. *)

LEMMA ResultsOf ==
  ASSUME NEW h \in Half, NEW c \in Classes[h]
  PROVE  /\ c = "dummy" => Results(h, c) = {"good"}
         /\ h = "vibrator" =>
              /\ c = "binder" => Results(h, c) = NewVibratorBinder
              /\ c = "sysfs" => Results(h, c) = NewVibratorSysfs
              /\ c = "legacy" => Results(h, c) = NewVibratorLegacy
              /\ c = "ff" => Results(h, c) = NewVibratorFF
         /\ h = "leds" =>
              /\ c = "binder" => Results(h, c) = NewLedsBinder
              /\ c = "hybris" => Results(h, c) = NewLedsHybris
              /\ c = "sysfs" => Results(h, c) = NewLedsSysfs
<1> USE DEF Results
<1>1. CASE h = "vibrator" /\ c = "binder"
  <2>1. Results(h, c) = NewVibratorBinder
    BY <1>1
  <2> QED BY <1>1, <2>1
<1>2. CASE h = "vibrator" /\ c = "sysfs"
  <2>1. Results(h, c) = NewVibratorSysfs
    BY <1>2
  <2> QED BY <1>2, <2>1
<1>3. CASE h = "vibrator" /\ c = "legacy"
  <2>1. Results(h, c) = NewVibratorLegacy
    BY <1>3
  <2> QED BY <1>3, <2>1
<1>4. CASE h = "vibrator" /\ c = "ff"
  <2>1. Results(h, c) = NewVibratorFF
    BY <1>4
  <2> QED BY <1>4, <2>1
<1>5. CASE h = "leds" /\ c = "binder"
  <2>1. Results(h, c) = NewLedsBinder
    BY <1>5
  <2> QED BY <1>5, <2>1
<1>6. CASE h = "leds" /\ c = "hybris"
  <2>1. Results(h, c) = NewLedsHybris
    BY <1>6
  <2> QED BY <1>6, <2>1
<1>7. CASE h = "leds" /\ c = "sysfs"
  <2>1. Results(h, c) = NewLedsSysfs
    BY <1>7
  <2> QED BY <1>7, <2>1
<1>8. c = "dummy" => Results(h, c) = {"good"}
  OBVIOUS
<1> QED BY <1>1, <1>2, <1>3, <1>4, <1>5, <1>6, <1>7, <1>8

LEMMA ResultsTyped ==
  ASSUME NEW h \in Half, NEW c \in Classes[h]
  PROVE  Results(h, c) \subseteq {"good", "null", "mute", "garbage", "throws"}
<1> DEFINE R == {"good", "null", "mute", "garbage", "throws"}
<1>1. /\ NewVibratorBinder \subseteq R /\ NewVibratorSysfs \subseteq R
      /\ NewVibratorLegacy \subseteq R /\ NewVibratorFF \subseteq R
  BY DEF NewVibratorBinder, NewVibratorSysfs, NewVibratorLegacy, NewVibratorFF
<1>2. /\ NewLedsBinder \subseteq R /\ NewLedsHybris \subseteq R
      /\ NewLedsSysfs \subseteq R
  BY DEF NewLedsBinder, NewLedsHybris, NewLedsSysfs
<1>3. {"good"} \subseteq R
  OBVIOUS
<1> HIDE DEF R
<1>4. Results(h, c) \subseteq R
  BY <1>1, <1>2, <1>3, ResultsOf
<1> QED BY <1>4 DEF R

LEMMA ResultsFit ==
  ASSUME NEW h \in Half, NEW c \in Classes[h],
         Backed(h, c), ~Misread(h, c)
  PROVE  Results(h, c) = {"good"}
<1> USE DEF Backed
<1>1. CASE c = "dummy"
  BY <1>1, ResultsOf
<1>2. CASE h = "vibrator" /\ c = "binder"
  BY <1>2, ResultsOf DEF NewVibratorBinder
<1>3. CASE h = "vibrator" /\ c = "sysfs"
  <2>1. Results(h, c) = NewVibratorSysfs
    BY <1>3, ResultsOf
  <2>2. "vibrator LED" \in world /\ ("transient" \in world \/ "attributes" \in world)
    BY <1>3
  <2> QED BY <2>1, <2>2 DEF NewVibratorSysfs
<1>4. CASE h = "vibrator" /\ c = "legacy"
  BY <1>4, ResultsOf DEF NewVibratorLegacy
<1>5. CASE h = "vibrator" /\ c = "ff"
  <2>1. FFDevices = {"rumble"}
    BY <1>5 DEF FFDevices, Misread
  <2> QED BY <1>5, <2>1, ResultsOf DEF NewVibratorFF
<1>6. CASE h = "leds" /\ c = "binder"
  BY <1>6, ResultsOf DEF NewLedsBinder
<1>7. CASE h = "leds" /\ c = "hybris"
  BY <1>7, ResultsOf DEF NewLedsHybris
<1>8. CASE h = "leds" /\ c = "sysfs"
  BY <1>8, ResultsOf DEF Channel, NewLedsSysfs
<1> QED BY <1>1, <1>2, <1>3, <1>4, <1>5, <1>6, <1>7, <1>8

\* The input device that is taken for the vibrator is one with a rumble motor, with
\* room for the effect or without, or one that cannot be opened again.
LEMMA TakenResults ==
  ASSUME Misread("vibrator", "ff") \/ Full("vibrator", "ff"),
         NEW r \in Results("vibrator", "ff")
  PROVE  Holds("vibrator", "ff", r)
<1>1. Results("vibrator", "ff") = NewVibratorFF
  BY ResultsOf
<1>2. PICK device \in FFDevices :
        r = IF device # "rumble" THEN "null"
            ELSE IF "room" \in world THEN "good" ELSE "mute"
  BY <1>1 DEF NewVibratorFF
<1>3. CASE device = "rumble"
  <2>1. "rumble" \in world
    BY <1>2, <1>3 DEF FFDevices
  <2>2. CASE "room" \in world
    <3>1. Backed("vibrator", "ff")
      BY <2>1, <2>2 DEF Backed
    <3> QED BY <1>2, <1>3, <2>2, <3>1 DEF Holds
  <2>3. CASE "room" \notin world
    <3>1. Full("vibrator", "ff")
      BY <2>1, <2>3 DEF Full
    <3> QED BY <1>2, <1>3, <2>3, <3>1 DEF Holds
  <2> QED BY <2>2, <2>3
<1>4. CASE device # "rumble"
  <2>1. device = "nothing" => "rumble" \notin world
    BY <1>2 DEF FFDevices
  <2>2. device = "unreadable" => "unreadable" \in world
    BY <1>2 DEF FFDevices
  <2>3. device \in {"nothing", "unreadable"}
    BY <1>2, <1>4 DEF FFDevices
  <2>4. Misread("vibrator", "ff")
    BY <2>1, <2>2, <2>3 DEF Misread, Full
  <2> QED BY <1>2, <1>4, <2>4 DEF Holds
<1> QED BY <1>3, <1>4

\* The constructor of the LED class devices throws if one of them is missing.
LEMMA SysfsThrows ==
  ASSUME ~Backed("leds", "sysfs")
  PROVE  Results("leds", "sysfs") = {"throws"}
<1>1. Results("leds", "sysfs") = NewLedsSysfs
  BY ResultsOf
<1> QED BY <1>1 DEF Backed, Channel, NewLedsSysfs

-------------------------------------------------------------------------------
(* Types. *)

LEMMA EnterTyped ==
  ASSUME TypeOK, NEW h \in Half, Enter(h)
  PROVE  /\ stage' = h /\ step' \in {"probe", "construct"}
         /\ trying' \in Classes[h]
         /\ step' = "probe" => trying' # "dummy"
BY AfterTyped, NamedTyped DEF Enter

LEMMA TypeInit == Init => TypeOK
<1> SUFFICES ASSUME Init PROVE TypeOK
  OBVIOUS
<1>1. world \subseteq Hardware /\ events \in 0 .. MaxEvents
  BY WorldsAssumption DEF Init
<1>2. \A h \in Half : env[h] \in {"unset", "other"} \cup Classes[h]
  BY DEF Init
<1>3. /\ built \subseteq Optional
      /\ stage \in {"down", "register", "serving"} \cup Half /\ stage \notin Half
      /\ step \in {"probe", "construct"}
      /\ trying \in Classes["vibrator"] \cup Classes["leds"]
  BY DEF Init
<1>4. /\ DOMAIN class = Half /\ \A h \in Half : class[h] \in Classes[h] \cup {"none"}
      /\ handle \in [Half -> {"none", "good", "null", "mute", "garbage"}]
      /\ moved \in BOOLEAN
  BY DEF Init
<1> QED BY <1>1, <1>2, <1>3, <1>4 DEF TypeOK

LEMMA TypeStep ==
  ASSUME TypeOK, [Next]_vars
  PROVE  TypeOK'
<1> USE WorldsAssumption DEF TypeOK
<1>1. CASE Activate
  <2>1. Enter("vibrator")
    BY <1>1 DEF Activate
  <2> QED BY <1>1, <2>1, EnterTyped DEF Activate, config
<1>2. ASSUME NEW h \in Half, Probe(h)
      PROVE  TypeOK'
  <2>1. trying \in Classes[h] \ {"dummy"}
    BY <1>2 DEF Probe
  <2>2. After[h][trying] \in Classes[h]
    BY <2>1, AfterTyped
  <2> QED BY <1>2, <2>1, <2>2 DEF Probe, config, object
<1>3. ASSUME NEW h \in Half, Construct(h)
      PROVE  TypeOK'
  <2>1. trying \in Classes[h] /\ Results(h, trying) \subseteq
                                   {"good", "null", "mute", "garbage", "throws"}
    BY <1>3, ResultsTyped DEF Construct
  <2>2. /\ DOMAIN class' = Half
        /\ \A i \in Half : class'[i] \in Classes[i] \cup {"none"}
        /\ handle' \in [Half -> {"none", "good", "null", "mute", "garbage"}]
    BY <1>3, <2>1 DEF Construct
  <2>3. /\ stage' \in {"register", "leds"} /\ step' \in {"probe", "construct"}
        /\ trying' \in Classes["vibrator"] \cup Classes["leds"]
        /\ stage' \in Half => trying' \in Classes[stage']
        /\ stage' \in Half /\ step' = "probe" => trying' # "dummy"
    BY <1>3, EnterTyped DEF Construct
  <2> QED BY <1>3, <2>2, <2>3 DEF Construct, config
<1>4. ASSUME NEW h \in Half, Throw(h)
      PROVE  TypeOK'
  BY <1>4 DEF Throw, config, object
<1>5. CASE Register
  BY <1>5 DEF Register, config, object
<1>6. CASE Change \/ ScanThrows
  <2>1. PICK f \in Hardware : world' = world \ {f} \/ world' = world \cup {f}
    BY <1>6 DEF Change, ScanThrows
  <2>2. world' \subseteq Hardware
    BY <2>1
  <2>3. events < MaxEvents /\ events' = events + 1 /\ moved' = TRUE
    BY <1>6 DEF Change, ScanThrows
  <2>4. events' \in 0 .. MaxEvents /\ moved' \in BOOLEAN
    BY <2>3
  <2>5. /\ UNCHANGED <<config, step, trying, object>>
        /\ (stage' = "down" \/ UNCHANGED stage)
    BY <1>6 DEF Change, ScanThrows
  <2> QED BY <2>2, <2>4, <2>5 DEF config, object
<1>7. CASE Die
  BY <1>7 DEF Die, config, object
<1>8. CASE UNCHANGED vars
  BY <1>8 DEF vars, config, object
<1> QED
  BY <1>1, <1>2, <1>3, <1>4, <1>5, <1>6, <1>7, <1>8 DEF Next, MainStep

\* Every variable keeps its type, whatever the hardware and its changes: in
\* particular create() never asks for a class that its factory does not have.
THEOREM TypeCorrect == Spec => []TypeOK
<1>1. TypeOK /\ [Next]_vars => TypeOK'
  BY TypeStep
<1> QED BY TypeInit, <1>1, PTL DEF Spec

-------------------------------------------------------------------------------
(* The choice of the back ends. *)

\* create() asks for the best first, and passes over one class at a time.
LEMMA Order ==
  ASSUME NEW h \in Half
  PROVE  /\ Before(h, After[h].main) = {}
         /\ \A c \in Classes[h] \ {"dummy"} :
              Before(h, After[h][c]) \subseteq Before(h, c) \cup {c}
<1>1. CASE h = "vibrator"
  BY <1>1 DEF Before, After
<1>2. CASE h = "leds"
  BY <1>2 DEF Before, After
<1> QED BY <1>1, <1>2

\* What a class has depends on the hardware and the build only.
LEMMA SameHardware ==
  ASSUME UNCHANGED <<world, built>>, NEW h \in Half
  PROVE  /\ Backed(h, trying)' <=> Backed(h, trying')
         /\ Backed(h, class[h])' <=> Backed(h, class'[h])
         /\ NoneBetter(h, trying)' <=> NoneBetter(h, trying')
         /\ NoneBetter(h, class[h])' <=> NoneBetter(h, class'[h])
         /\ Misread(h, trying)' <=> Misread(h, trying')
         /\ Misread(h, class[h])' <=> Misread(h, class'[h])
         /\ Full(h, trying)' <=> Full(h, trying')
         /\ Holds(h, class[h], handle[h])' <=> Holds(h, class'[h], handle'[h])
<1>1. /\ Backed(h, trying)' <=> Backed(h, trying')
      /\ Backed(h, class[h])' <=> Backed(h, class'[h])
  BY DEF Backed
<1>2. /\ NoneBetter(h, trying)' <=> NoneBetter(h, trying')
      /\ NoneBetter(h, class[h])' <=> NoneBetter(h, class'[h])
  BY DEF NoneBetter, Before, Backed
<1>3. /\ Misread(h, trying)' <=> Misread(h, trying')
      /\ Misread(h, class[h])' <=> Misread(h, class'[h])
  BY DEF Misread
<1>4. /\ Full(h, trying)' <=> Full(h, trying')
      /\ Full(h, class[h])' <=> Full(h, class'[h])
  BY DEF Full
<1>5. Holds(h, class[h], handle[h])' <=> Holds(h, class'[h], handle'[h])
  BY <1>1, <1>3, <1>4 DEF Holds
<1> QED BY <1>1, <1>2, <1>3, <1>4, <1>5

\* main() begins with the best class of a half.
LEMMA EnterFits ==
  ASSUME NEW h \in Half, Enter(h), env[h] = "unset"
  PROVE  stage' = h /\ step' = "probe" /\ NoneBetter(h, trying')
BY Order DEF Enter, NoneBetter

LEMMA ProbeFits ==
  ASSUME TypeOK, NEW h \in Half, Probe(h), Probed(h), ChoiceFits(h)
  PROVE  ChoiceFits(h)'
<1>1. trying \in Classes[h] \ {"dummy"} /\ NoneBetter(h, trying)
  BY DEF Probe, TypeOK, ChoiceFits
<1>2. UNCHANGED <<world, built, stage>> /\ stage = h /\ ~Made(h)'
  BY DEF Probe, config, Made
<1>3. CASE TRUE \in Answers(h, trying) /\ step' = "construct" /\ UNCHANGED trying
  <2>1. \/ Backed(h, trying) \/ Misread(h, trying) \/ Full(h, trying)
        \/ h = "leds" /\ trying = "sysfs"
    BY <1>1, <1>3, AnswersFit
  <2> QED BY <1>1, <1>2, <1>3, <2>1, SameHardware DEF ChoiceFits
<1>4. CASE /\ FALSE \in Answers(h, trying) /\ trying' = After[h][trying]
           /\ step' = IF trying' = "dummy" THEN "construct" ELSE "probe"
  <2>1. ~Backed(h, trying)
    BY <1>1, <1>4, AnswersFit
  <2>2. NoneBetter(h, trying')
    BY <1>1, <1>4, <2>1, Order DEF NoneBetter
  <2>3. step' = "construct" => Backed(h, trying')
    BY <1>4 DEF Backed
  <2> QED BY <1>2, <2>2, <2>3, SameHardware DEF ChoiceFits
<1> QED BY <1>3, <1>4 DEF Probe

LEMMA ConstructFits ==
  ASSUME TypeOK, NEW h \in Half, Construct(h), ChoiceFits(h)
  PROVE  ChoiceFits(h)'
<1>1. /\ trying \in Classes[h] /\ NoneBetter(h, trying)
      /\ \/ Backed(h, trying) \/ Misread(h, trying) \/ Full(h, trying)
         \/ h = "leds" /\ trying = "sysfs"
  BY DEF Construct, TypeOK, ChoiceFits
<1>2. PICK r \in Results(h, trying) \ {"throws"} : handle' = [handle EXCEPT ![h] = r]
  BY DEF Construct
<1>3. handle'[h] = r /\ class'[h] = trying
  BY <1>2 DEF Construct, TypeOK
<1>4. UNCHANGED <<world, built>> /\ stage' # h
  BY DEF Construct, Enter, config
<1>5. Holds(h, trying, r)
  <2>1. CASE Misread(h, trying) \/ Full(h, trying)
    <3>1. h = "vibrator" /\ trying = "ff"
      BY <2>1 DEF Misread, Full
    <3> QED BY <1>2, <2>1, <3>1, TakenResults
  <2>2. CASE ~(Misread(h, trying) \/ Full(h, trying))
    <3>1. Backed(h, trying)
      BY <1>1, <1>2, <2>2, SysfsThrows
    <3>2. r = "good"
      BY <1>1, <1>2, <2>2, <3>1, ResultsFit
    <3> QED BY <3>1, <3>2 DEF Holds
  <2> QED BY <2>1, <2>2
<1>6. Holds(h, class[h], handle[h])' /\ NoneBetter(h, class[h])'
  BY <1>1, <1>3, <1>4, <1>5, SameHardware
<1> QED BY <1>4, <1>6 DEF ChoiceFits

\* The half that main() comes to when the other is constructed, and the one
\* that it has behind it.
LEMMA ConstructKeepsOther ==
  ASSUME TypeOK, NEW h \in Half, NEW i \in Half \ {h}, Construct(h),
         Probed(i), ChoiceFits(i)
  PROVE  ChoiceFits(i)'
<1>1. UNCHANGED <<world, built>>
  BY DEF Construct, config
<1>2. CASE h = "vibrator"
  <2>1. stage' = i /\ step' = "probe" /\ NoneBetter(i, trying')
    BY <1>2, EnterFits DEF Construct, Probed
  <2> QED BY <1>1, <1>2, <2>1, SameHardware DEF ChoiceFits, Made
<1>3. CASE h = "leds"
  <2>1. Made(i) /\ stage' = "register"
    BY <1>3 DEF Construct, Made
  <2>2. handle'[i] = handle[i] /\ class'[i] = class[i]
    BY DEF Construct, TypeOK
  <2> QED BY <1>1, <2>1, <2>2, SameHardware DEF ChoiceFits
<1> QED BY <1>2, <1>3

\* A step that neither chooses nor constructs.
LEMMA NothingChosen ==
  ASSUME TypeOK, NEW i \in Half, ChoiceFits(i), UNCHANGED <<config, world, object>>,
         stage' = i => stage = i /\ UNCHANGED <<step, trying>>,
         Made(i)' => Made(i)
  PROVE  ChoiceFits(i)'
BY SameHardware DEF ChoiceFits, config, object

LEMMA ChoiceInit == Init => IInv
BY DEF Init, IInv, ChoiceFits, Made

LEMMA ChoiceStep ==
  ASSUME TypeOK, IInv, [Next]_vars
  PROVE  IInv'
<1> SUFFICES ASSUME ~moved', NEW i \in Half, Probed(i)'
             PROVE  ChoiceFits(i)'
  BY DEF IInv
<1>1. CASE Activate
  <2>1. Enter("vibrator") /\ UNCHANGED <<world, env, built>>
    BY <1>1 DEF Activate, config
  <2>2. i = "vibrator" => step' = "probe" /\ NoneBetter(i, trying')
    BY <2>1, EnterFits DEF Probed
  <2>3. stage' = "vibrator"
    BY <2>1 DEF Enter
  <2> QED BY <2>1, <2>2, <2>3, SameHardware DEF ChoiceFits, Made
<1>2. CASE Change \/ ScanThrows
  BY <1>2 DEF Change, ScanThrows
<1>3. ASSUME MainStep \/ Die \/ UNCHANGED vars
      PROVE  UNCHANGED <<config, world, moved>>
  BY <1>3 DEF MainStep, Probe, Construct, Throw, Register, Die, vars, config
<1>4. ASSUME MainStep \/ Die \/ UNCHANGED vars
      PROVE  Probed(i) /\ ChoiceFits(i)
  <2>1. ~moved /\ UNCHANGED <<env, world>>
    BY <1>3, <1>4 DEF config
  <2>2. Probed(i)
    BY <2>1 DEF Probed
  <2> QED BY <2>1, <2>2 DEF IInv
<1>5. ASSUME NEW h \in Half, Probe(h)
      PROVE  ChoiceFits(i)'
  <2>1. CASE i = h
    BY <1>4, <1>5, <2>1, ProbeFits DEF MainStep
  <2>2. CASE i # h
    BY <1>4, <1>5, <2>2, NothingChosen DEF MainStep, Probe, Made
  <2> QED BY <2>1, <2>2
<1>6. ASSUME NEW h \in Half, Construct(h)
      PROVE  ChoiceFits(i)'
  <2>1. CASE i = h
    BY <1>4, <1>6, <2>1, ConstructFits DEF MainStep
  <2>2. CASE i # h
    BY <1>4, <1>6, <2>2, ConstructKeepsOther DEF MainStep
  <2> QED BY <2>1, <2>2
<1>7. ASSUME NEW h \in Half, Throw(h)
      PROVE  ChoiceFits(i)'
  BY <1>3, <1>4, <1>7, NothingChosen DEF MainStep, Throw, Made
<1>8. CASE Register
  BY <1>3, <1>4, <1>8, NothingChosen DEF MainStep, Register, Made
<1>9. CASE Die
  BY <1>3, <1>4, <1>9, NothingChosen DEF Die, Made
<1>10. CASE UNCHANGED vars
  BY <1>3, <1>4, <1>10, NothingChosen DEF vars, Made
<1> QED
  BY <1>1, <1>2, <1>5, <1>6, <1>7, <1>8, <1>9, <1>10 DEF Next, MainStep

\* What has been asked and passed over is not there, and what has been chosen
\* is: at every point of every start on hardware that stands still.
THEOREM InductiveInvariant == Spec => []IInv
<1>1. TypeOK /\ IInv /\ [Next]_vars => IInv'
  BY ChoiceStep
<1> QED BY TypeCorrect, ChoiceInit, <1>1, PTL DEF Spec

\* Whatever the hardware, as long as it stands still a service that was not told
\* which back ends to use serves with the best the hardware has, and its
\* constructors have succeeded; but in place of the force feedback or of the dummy
\* it may serve with an input device that it cannot open, or that has taken no
\* effect, and then never vibrates.
THEOREM ServesTheBestHolds == Spec => []ServesTheBest
<1>1. IInv => ServesTheBest
  BY DEF IInv, ServesTheBest, Probed, ChoiceFits, NoneBetter, Made
<1> QED BY InductiveInvariant, <1>1, PTL

-------------------------------------------------------------------------------
(* The exceptions. *)

\* Without a change of the hardware, an object that create() makes is of a class
\* that has said yes.
SaidYes ==
  ~moved => \A h \in Half :
    env[h] = "unset" /\ stage = h /\ step = "construct" /\ trying # "dummy" =>
      TRUE \in Answers(h, trying)

LEMMA SameAnswers ==
  ASSUME UNCHANGED <<world, built, trying>>, NEW h \in Half
  PROVE  Answers(h, trying)' = Answers(h, trying)
BY DEF Answers, VibratorBinderUsable, VibratorSysfsUsable,
       VibratorLegacyUsable, VibratorFFUsable, FFDevices, LedsBinderUsable,
       LedsHybrisUsable, LedsSysfsUsable, LedsFlag

LEMMA SaidYesStep ==
  ASSUME SaidYes, [Next]_vars
  PROVE  SaidYes'
<1> SUFFICES ASSUME ~moved', NEW i \in Half, env'[i] = "unset", stage' = i,
                    step' = "construct", trying' # "dummy"
             PROVE  TRUE \in Answers(i, trying)'
  BY DEF SaidYes
<1>1. ASSUME UNCHANGED <<world, config, moved, stage, step, trying>>
      PROVE  TRUE \in Answers(i, trying)'
  BY <1>1, SameAnswers DEF SaidYes, config
<1>2. CASE Activate
  BY <1>2 DEF Activate, Enter, config
<1>3. ASSUME NEW h \in Half, Probe(h)
      PROVE  TRUE \in Answers(i, trying)'
  <2>1. i = h /\ UNCHANGED <<world, built>>
    BY <1>3 DEF Probe, config
  <2>2. TRUE \in Answers(h, trying) /\ UNCHANGED trying
    BY <1>3 DEF Probe
  <2> QED BY <2>1, <2>2, SameAnswers
<1>4. ASSUME NEW h \in Half, Construct(h)
      PROVE  TRUE \in Answers(i, trying)'
  BY <1>4 DEF Construct, Enter, config
<1>5. ASSUME NEW h \in Half, Throw(h)
      PROVE  TRUE \in Answers(i, trying)'
  BY <1>5 DEF Throw
<1>6. CASE Register
  BY <1>6 DEF Register
<1>7. CASE Change \/ ScanThrows
  BY <1>7 DEF Change, ScanThrows
<1>8. CASE Die
  BY <1>8 DEF Die
<1>9. CASE UNCHANGED vars
  BY <1>1, <1>9 DEF vars
<1> QED
  BY <1>2, <1>3, <1>4, <1>5, <1>6, <1>7, <1>8, <1>9 DEF Next, MainStep

\* A yes and an exception at once: only the LED class devices, with blue there.
LEMMA YesAndThrow ==
  ASSUME NEW h \in Half, NEW c \in Classes[h], "throws" \in Results(h, c)
  PROVE  /\ ~Backed(h, c) /\ c # "dummy"
         /\ TRUE \in Answers(h, c) => h = "leds" /\ {"blue", "timer"} \subseteq world
<1>1. c # "dummy"
  BY ResultsOf
<1>2. CASE h = "vibrator" /\ c = "binder"
  BY <1>2, ResultsOf DEF NewVibratorBinder
<1>3. CASE h = "vibrator" /\ c = "sysfs"
  <2>1. ~("vibrator LED" \in world /\ ("transient" \in world \/ "attributes" \in world))
    BY <1>3, ResultsOf DEF NewVibratorSysfs
  <2>2. TRUE \notin Answers(h, c)
    BY <1>3, <2>1, Asked DEF VibratorSysfsUsable
  <2> QED BY <1>3, <2>1, <2>2 DEF Backed
<1>4. CASE h = "vibrator" /\ c = "legacy"
  <2>1. "timed_output" \notin world
    BY <1>4, ResultsOf DEF NewVibratorLegacy
  <2>2. TRUE \notin Answers(h, c)
    BY <1>4, <2>1, Asked DEF VibratorLegacyUsable
  <2> QED BY <1>4, <2>1, <2>2 DEF Backed
<1>5. CASE h = "vibrator" /\ c = "ff"
  BY <1>5, ResultsOf DEF NewVibratorFF
<1>6. CASE h = "leds" /\ c = "binder"
  BY <1>6, ResultsOf DEF NewLedsBinder
<1>7. CASE h = "leds" /\ c = "hybris"
  BY <1>7, ResultsOf DEF NewLedsHybris
<1>8. CASE h = "leds" /\ c = "sysfs"
  <2>1. ~Backed(h, c)
    BY <1>8, ResultsOf DEF NewLedsSysfs, Channel, Backed
  <2>2. TRUE \in LedsSysfsUsable => TRUE \in LedsFlag("blue")
    BY DEF LedsSysfsUsable, Channel
  <2>3. TRUE \in LedsFlag("blue") => {"blue", "timer"} \subseteq world
    BY DEF LedsFlag
  <2>4. Answers(h, c) = LedsSysfsUsable
    BY <1>8, Asked
  <2> QED BY <1>1, <1>8, <2>1, <2>2, <2>3, <2>4
<1>9. \/ h = "vibrator" /\ c \in {"binder", "sysfs", "legacy", "ff"}
      \/ h = "leds" /\ c \in {"binder", "hybris", "sysfs"}
  BY <1>1
<1> QED BY <1>2, <1>3, <1>4, <1>5, <1>6, <1>7, <1>8, <1>9

\* A constructor throws only over a device that is not there; of a class that
\* create() has asked, on hardware that stands still, it is the one that reads
\* its indeterminate flags.
THEOREM StartEndsOnlyWhenHolds == Spec => StartEndsOnlyWhen
<1>1. Init => SaidYes
  BY DEF Init, SaidYes
<1>2. ASSUME TypeOK, SaidYes, NEW h \in Half, Throw(h)
      PROVE  /\ ~Backed(h, trying)
             /\ \/ env[h] # "unset"
                \/ moved
                \/ h = "leds" /\ {"blue", "timer"} \subseteq world
  <2>1. /\ stage = h /\ step = "construct" /\ trying \in Classes[h]
        /\ "throws" \in Results(h, trying)
    BY <1>2 DEF Throw, TypeOK
  <2> QED BY <1>2, <2>1, YesAndThrow DEF SaidYes
<1>3. SaidYes /\ [Next]_vars => SaidYes'
  BY SaidYesStep
<1>4. TypeOK /\ SaidYes /\ [Next]_vars =>
        [\A h \in Half : Throw(h) =>
           /\ ~Backed(h, trying)
           /\ \/ env[h] # "unset"
              \/ moved
              \/ h = "leds" /\ {"blue", "timer"} \subseteq world]_vars
  BY <1>2
<1> QED BY TypeCorrect, <1>1, <1>3, <1>4, PTL DEF Spec, StartEndsOnlyWhen
=============================================================================
