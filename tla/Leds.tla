--------------------------------- MODULE Leds ---------------------------------
(***************************************************************************)
(* The notification light of hfd-service: hfd::Leds (src/src/leds.cpp) and *)
(* its back ends.  A D-Bus slot stores a value and, when the light is on   *)
(* (setState: always), runs configure(), which is written out as the       *)
(* device operations the back end makes, in their order.  The main thread  *)
(* serves one slot at a time; between two operations the process may die.  *)
(*                                                                         *)
(* The LED class devices and their timer trigger, or the lights HAL, are   *)
(* external, modelled by what the back ends use of them.                   *)
(***************************************************************************)
EXTENDS Integers, Sequences

CONSTANTS Color,          \* the colors clients set: a level per channel
          DefaultColor,   \* 0x00ff0080
          OnMs, OffMs,    \* the delays clients set, in ms
          Backends        \* the back ends a start may have chosen

Channel == {"red", "green", "blue"}

ASSUME ColorAssumption ==
  Color \subseteq [Channel -> Nat] /\ DefaultColor \in [Channel -> Nat]
ASSUME DelayAssumption == OnMs \subseteq Int \ {0} /\ OffMs \subseteq Int \ {0}
ASSUME BackendsAssumption ==
  Backends \subseteq {"sysfs", "binder", "hybris", "dummy"}

VARIABLES
  up,        \* main() is past the constructors
  m_state, m_color, m_onMs, m_offMs,
  todo,      \* the operations configure() has yet to make
  led,       \* what each channel of the device shows
  backend,   \* the class of the one Leds object
  lost       \* history: the last message to the HAL failed, unnoticed

members == <<m_state, m_color, m_onMs, m_offMs>>
vars == <<up, members, todo, led, backend, lost>>

Dark == [timer |-> FALSE, on |-> 0, off |-> 0, level |-> 0]
Full == 255

TypeOK ==
  /\ up \in BOOLEAN
  /\ m_state \in {"On", "Off"} /\ m_color \in [Channel -> Nat]
  /\ m_onMs \in Int /\ m_offMs \in Int
  /\ todo \in Seq({"trigger", "delay_on", "delay_off", "level", "zero", "light",
                   "print"} \X Channel)
  /\ led \in [Channel -> [timer : BOOLEAN, on : Nat, off : Nat, level : Nat]]
  /\ backend \in Backends
  /\ lost \in BOOLEAN

Init ==
  /\ up = FALSE
  /\ m_state = "Off" /\ m_color = DefaultColor
  /\ m_onMs = 1000 /\ m_offMs = 3000
  /\ todo = <<>>
  /\ led = [c \in Channel |-> Dark]
  /\ backend \in Backends
  /\ lost = FALSE

-------------------------------------------------------------------------------
(* configure(), as the operations it makes. *)

\* op on every channel, in the order of the map m_rgbDevices
OnEach(op) == << <<op, "red">>, <<op, "green">>, <<op, "blue">> >>

\* setDelay() goes device by device.
SetDelayOnce ==
  OnEach("delay_on") \o OnEach("delay_off")

SetDelay ==
  LET Device(c) == << <<"trigger", c>>, <<"delay_on", c>>, <<"delay_off", c>> >>
  IN  Device("red") \o Device("green") \o Device("blue")

\* The HAL takes the whole light in one message.
Message == << <<"light", "red">> >>

Configure(state) ==
  [sysfs  |-> IF state = "On" THEN SetDelay \o OnEach("level")
              ELSE OnEach("zero"),
   hybris |-> Message,
   binder |-> Message,
   dummy  |-> << <<"print", "red">> >>][backend]

\* The constructors: sysfs enables the trigger, hybris turns off once more, and
\* all but the dummy get up to date.
Construct == [sysfs  |-> OnEach("trigger") \o OnEach("zero"),
              hybris |-> Message \o Message,
              binder |-> Message,
              dummy  |-> <<>>][backend]

-------------------------------------------------------------------------------
(* The slots. *)

Ready == up /\ todo = <<>>

SetStateAfterwards(s) ==
  /\ Ready /\ m_state' = s /\ todo' = Configure(m_state)
  /\ UNCHANGED <<up, m_color, m_onMs, m_offMs, led, backend, lost>>

\* toState() makes every other number Off.
SetState(s) ==
  /\ Ready /\ m_state' = s /\ todo' = Configure(s)
  /\ UNCHANGED <<up, m_color, m_onMs, m_offMs, led, backend, lost>>

\* if (m_state == State::On) configure(); the caller has changed a value
ConfigureAlways == todo' = Configure("On")
ConfigureIfOn == todo' = IF m_state = "On" THEN Configure("On") ELSE <<>>

SetColor(color) ==
  /\ Ready /\ color # m_color /\ m_color' = color /\ ConfigureIfOn
  /\ UNCHANGED <<up, m_state, m_onMs, m_offMs, led, backend, lost>>

SetOnMs(ms) ==
  /\ Ready /\ ms # m_onMs /\ m_onMs' = ms /\ ConfigureIfOn
  /\ UNCHANGED <<up, m_state, m_color, m_offMs, led, backend, lost>>

SetOffMsStoreOnly(ms) ==
  /\ Ready /\ ms # m_offMs /\ m_offMs' = ms
  /\ UNCHANGED <<up, m_state, m_color, m_onMs, todo, led, backend, lost>>

SetOffMs(ms) ==
  /\ Ready /\ ms # m_offMs /\ m_offMs' = ms /\ ConfigureIfOn
  /\ UNCHANGED <<up, m_state, m_color, m_onMs, led, backend, lost>>

-------------------------------------------------------------------------------
(* The device operations. *)

Next1(op) == todo # <<>> /\ Head(todo)[1] = op
At == Head(todo)[2]

\* The operation succeeds, and is followed by the next.
Done ==
  /\ todo' = Tail(todo) /\ up' = (up \/ Tail(todo) = <<>>)
  /\ UNCHANGED <<members, backend>>

\* Writing "timer" starts the trigger anew: it blinks with default delays, at
\* the level it had or at full level.
WriteTrigger ==
  /\ Next1("trigger") /\ Done /\ UNCHANGED lost
  /\ led' = [led EXCEPT ![At] = [timer |-> TRUE, on |-> 500, off |-> 500,
                                 level |-> IF @.level = 0 THEN Full ELSE @.level]]

\* The delays are attributes of the trigger, and unsigned.
Accepted ==
  /\ \/ Next1("delay_on") /\ m_onMs > 0
     \/ Next1("delay_off") /\ m_offMs > 0
  /\ led[At].timer

WriteDelaySwapped ==
  /\ Accepted /\ Done /\ UNCHANGED lost
  /\ led' = IF Next1("delay_on") THEN [led EXCEPT ![At].on = m_offMs]
            ELSE [led EXCEPT ![At].off = m_onMs]

WriteDelay ==
  /\ Accepted /\ Done /\ UNCHANGED lost
  /\ led' = IF Next1("delay_on") THEN [led EXCEPT ![At].on = m_onMs]
            ELSE [led EXCEPT ![At].off = m_offMs]

\* A zero brightness removes the trigger.
WriteBrightness ==
  /\ Next1("level") \/ Next1("zero")
  /\ Done /\ UNCHANGED lost
  /\ LET v == IF Next1("zero") THEN 0 ELSE m_color[At] IN
     led' = [led EXCEPT ![At] = IF v = 0 THEN Dark ELSE [@ EXCEPT !.level = v]]

\* What the members ask for; alpha is not supported.
Shown(c) ==
  IF m_state = "Off" \/ m_color[c] = 0 THEN Dark
  ELSE [timer |-> TRUE, on |-> m_onMs, off |-> m_offMs, level |-> m_color[c]]

\* The HAL takes the message or not; its status is read and dropped.  What it
\* makes of a negative delay is not known, and counts as not taken.
SendLight ==
  /\ Next1("light") /\ Done
  /\ \/ /\ m_state = "Off" \/ (m_onMs > 0 /\ m_offMs > 0)
        /\ led' = [c \in Channel |-> Shown(c)] /\ lost' = FALSE
     \/ UNCHANGED led /\ lost' = TRUE

PrintOnly == Next1("print") /\ Done /\ UNCHANGED <<led, lost>>

Operation ==
  WriteTrigger \/ WriteDelay \/ WriteBrightness \/ SendLight \/ PrintOnly

\* What is left when the process is gone.
Gone ==
  /\ up' = FALSE /\ todo' = <<>>
  /\ m_state' = "Off" /\ m_color' = DefaultColor
  /\ m_onMs' = 1000 /\ m_offMs' = 3000
  /\ UNCHANGED <<led, backend, lost>>

\* The write fails, set_sysattr throws, and nobody catches it.
Refused ==
  /\ Next1("delay_on") \/ Next1("delay_off")
  /\ ~Accepted /\ Gone

\* Any other failing write, or anything else, ends the process.
Die ==
  /\ up \/ todo # <<>>
  /\ Gone

\* D-Bus activation starts the service again; slots are served once the
\* constructor's configure() is through.
Start ==
  /\ ~up /\ todo = <<>>
  /\ todo' = Construct /\ up' = (Construct = <<>>)
  /\ UNCHANGED <<members, led, backend, lost>>

Slot ==
  \/ \E s \in {"On", "Off"} : SetState(s)
  \/ \E color \in Color : SetColor(color)
  \/ \E ms \in OnMs : SetOnMs(ms)
  \/ \E ms \in OffMs : SetOffMs(ms)

Next == Slot \/ Operation \/ Refused \/ Die \/ Start

\* Device operations return.
Spec == Init /\ [][Next]_vars /\ WF_vars(Operation \/ Refused)

-------------------------------------------------------------------------------
(* Properties. *)

\* Between two calls the light shows the members, whatever order they were set
\* in, whether it was on or off, and however the last process ended; only a
\* message the HAL did not take leaves it behind.
InSync ==
  Ready /\ ~lost /\ backend # "dummy" => \A c \in Channel : led[c] = Shown(c)

\* The service ends itself by a refused write only when a client has set a
\* negative delay: it never writes a delay its own zero brightness has removed.
OnlyBadDelaysKill == [][Refused => m_onMs < 0 \/ m_offMs < 0]_vars

\* A light that is off stays dark while its color and delays are set, through
\* every write on the way; only the constructor's trigger makes it flash.
NoFlashWhileOff == [][
  m_state = "Off" /\ up /\ m_state' = "Off" =>
    \A c \in Channel : led'[c].level <= led[c].level]_vars

\* The slots, their operations and restarts come to what Light.tla promises:
\* the light goes to what was asked for last, by every order of the slots, and
\* gets there, or the process ends and asks for the defaults.
Asked == [state |-> m_state, color |-> m_color, on |-> m_onMs, off |-> m_offMs]
Contract == INSTANCE Light WITH
  Default <- [state |-> "Off", color |-> DefaultColor, on |-> 1000, off |-> 3000],
  want <- Asked, shown <- led, confirmed <- backend = "sysfs",
  mode <- IF todo = <<>> THEN (IF up THEN "idle" ELSE "down")
          ELSE IF up THEN "moving" ELSE "starting"
ImplementsLight == Contract!Spec
===============================================================================
