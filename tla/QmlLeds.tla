-------------------------------- MODULE QmlLeds --------------------------------
(***************************************************************************)
(* The light as applications see it: QML Leds objects                      *)
(* (src/qt/qml/leds.cpp), each with its own copy of state, color and       *)
(* delays, calling the one service of Leds.tla over D-Bus.  The calls are  *)
(* asynchronous and nothing comes back: an object never learns that the    *)
(* service was restarted, or obeyed another object since.                  *)
(*                                                                         *)
(* The bus keeps the order of each sender's messages, and starts the       *)
(* service when a message for it arrives.  What a service has received and *)
(* not served is lost when it dies.                                        *)
(***************************************************************************)
EXTENDS Integers, Sequences

CONSTANTS Client,               \* the QML Leds objects
          Blue,                 \* the color a QML object starts with
          Color, DefaultColor, OnMs, OffMs, Backends,  \* as in Leds
          MaxQueue              \* bound: a client waits when as many are unserved

ASSUME BlueAssumption == Blue \in [{"red", "green", "blue"} -> Nat]
ASSUME MaxQueueAssumption == MaxQueue \in Nat
ASSUME ServiceAssumption ==   \* what Leds assumes of its constants
  /\ Color \subseteq [{"red", "green", "blue"} -> Nat]
  /\ DefaultColor \in [{"red", "green", "blue"} -> Nat]
  /\ OnMs \subseteq Int \ {0} /\ OffMs \subseteq Int \ {0}
  /\ Backends \subseteq {"sysfs", "binder", "hybris", "dummy"}

VARIABLES up, m_state, m_color, m_onMs, m_offMs, todo, led, backend, lost

service == <<up, m_state, m_color, m_onMs, m_offMs, todo, led, backend, lost>>

Service == INSTANCE Leds

VARIABLES
  copy,      \* each object's m_state, m_color, m_onMs and m_offMs
  queue,     \* the messages each object has sent and nobody has taken
  touched,   \* history: the object has sent a message
  synced     \* history: the object has sent the whole light since the service
             \* last died

clients == <<copy, queue, touched, synced>>
vars == <<service, clients>>

TypeOK ==
  /\ Service!TypeOK
  /\ copy \in [Client -> [state : {"On", "Off"},
                          color : [Service!Channel -> Nat], on : Int, off : Int]]
  /\ \A c \in Client : Len(queue[c]) <= MaxQueue
  /\ touched \in [Client -> BOOLEAN]
  /\ synced \in [Client -> BOOLEAN]

Init ==
  /\ Service!Init
  /\ copy = [c \in Client |->
               [state |-> "Off", color |-> Blue, on |-> 1000, off |-> 3000]]
  /\ queue = [c \in Client |-> <<>>]
  /\ touched = [c \in Client |-> FALSE]
  /\ synced = [c \in Client |-> TRUE]

-------------------------------------------------------------------------------
(* The objects. *)

Send(c, messages) ==
  /\ Len(queue[c]) + Len(messages) <= MaxQueue
  /\ queue' = [queue EXCEPT ![c] = @ \o messages]
  /\ touched' = [touched EXCEPT ![c] = TRUE]

TurnOnStateOnly(c) ==
  /\ copy[c].state = "Off"
  /\ Send(c, << <<"state", "On">> >>)
  /\ copy' = [copy EXCEPT ![c].state = "On"]
  /\ synced' = [synced EXCEPT ![c] = TRUE]
  /\ UNCHANGED service

\* setState(On): all values first, then the state.  The third component is
\* history: the values the state is meant for.
TurnOn(c) ==
  /\ copy[c].state = "Off"
  /\ LET own == copy[c] IN
     Send(c, << <<"color", own.color>>, <<"on", own.on>>, <<"off", own.off>>,
                <<"state", "On", own>> >>)
  /\ copy' = [copy EXCEPT ![c].state = "On"]
  /\ synced' = [synced EXCEPT ![c] = TRUE]
  /\ UNCHANGED service

TurnOffUnsent(c) ==
  /\ copy[c].state = "On"
  /\ copy' = [copy EXCEPT ![c].state = "Off"]
  /\ UNCHANGED <<service, queue, touched, synced>>

TurnOff(c) ==
  /\ copy[c].state = "On"
  /\ Send(c, << <<"state", "Off">> >>)
  /\ copy' = [copy EXCEPT ![c].state = "Off"]
  /\ UNCHANGED <<service, synced>>

\* setColor, setOnMillisec and setOffMillisec, on or off
SetColor(c, color) ==
  /\ color # copy[c].color
  /\ Send(c, << <<"color", color>> >>)
  /\ copy' = [copy EXCEPT ![c].color = color]
  /\ UNCHANGED <<service, synced>>

SetOnMillisec(c, ms) ==
  /\ ms # copy[c].on
  /\ Send(c, << <<"on", ms>> >>)
  /\ copy' = [copy EXCEPT ![c].on = ms]
  /\ UNCHANGED <<service, synced>>

SetOffMillisec(c, ms) ==
  /\ ms # copy[c].off
  /\ Send(c, << <<"off", ms>> >>)
  /\ copy' = [copy EXCEPT ![c].off = ms]
  /\ UNCHANGED <<service, synced>>

ClientCall(c) ==
  \/ TurnOn(c) \/ TurnOff(c)
  \/ \E color \in Color : SetColor(c, color)
  \/ \E ms \in OnMs : SetOnMillisec(c, ms)
  \/ \E ms \in OffMs : SetOffMillisec(c, ms)

-------------------------------------------------------------------------------
(* The service, as the bus drives it. *)

Message(c) == Head(queue[c])
About(c, field) == queue[c] # <<>> /\ Message(c)[1] = field

\* A slot that finds its member equal to the argument does nothing more.
Same(c) ==
  /\ Service!Ready
  /\ \/ About(c, "color") /\ Message(c)[2] = m_color
     \/ About(c, "on") /\ Message(c)[2] = m_onMs
     \/ About(c, "off") /\ Message(c)[2] = m_offMs
  /\ UNCHANGED service

Serve(c) ==
  /\ \/ About(c, "state") /\ Service!SetState(Message(c)[2])
     \/ About(c, "color") /\ Service!SetColor(Message(c)[2])
     \/ About(c, "on") /\ Service!SetOnMs(Message(c)[2])
     \/ About(c, "off") /\ Service!SetOffMs(Message(c)[2])
     \/ Same(c)
  /\ queue' = [queue EXCEPT ![c] = Tail(@)]
  /\ UNCHANGED <<copy, touched, synced>>

Operation == Service!Operation /\ UNCHANGED clients

\* The process ends, and with it the messages it had received: a prefix of
\* each queue, the length of which is the bus's affair.
Death ==
  /\ Service!Refused \/ Service!Die
  /\ \E taken \in [Client -> 0 .. MaxQueue] :
       /\ \A c \in Client : taken[c] <= Len(queue[c])
       /\ queue' = [c \in Client |->
                      SubSeq(queue[c], taken[c] + 1, Len(queue[c]))]
  /\ synced' = [c \in Client |-> FALSE]
  /\ UNCHANGED <<copy, touched>>

ActivateAtBoot ==
  /\ \A c \in Client : queue[c] = <<>>
  /\ Service!Start /\ UNCHANGED clients

\* Activation, by the message at the head of some queue.
Activate ==
  /\ \E c \in Client : queue[c] # <<>>
  /\ Service!Start /\ UNCHANGED clients

Next == \/ \E c \in Client : ClientCall(c) \/ Serve(c)
        \/ Operation \/ Death \/ Activate

\* The bus delivers and the service works; applications need not do anything.
Spec == /\ Init /\ [][Next]_vars
        /\ \A c \in Client : WF_vars(Serve(c))
        /\ WF_vars(Operation \/ (Service!Refused /\ Death)) /\ WF_vars(Activate)

-------------------------------------------------------------------------------
(* Properties. *)

Quiet == Service!Ready /\ \A c \in Client : queue[c] = <<>>

\* When every object says Off and the service is up with nothing left to do,
\* the light is dark: an object that lets go of the light always says so, and
\* a service that forgot starts dark.
AllOffMeansDark ==
  Quiet /\ (\A c \in Client : copy[c].state = "Off") /\ ~lost
  => \A ch \in Service!Channel : led[ch] = Service!Dark

\* An object that nobody competes with, and that has sent the whole light
\* since the service last died, agrees with the service once all its messages
\* are served.
LoneClientAgrees == \A c \in Client :
  Quiet /\ synced[c] /\ (\A d \in Client \ {c} : ~touched[d]) =>
    /\ m_state = copy[c].state
    /\ copy[c].state = "On" =>
         m_color = copy[c].color /\ m_onMs = copy[c].on /\ m_offMs = copy[c].off

\* When the applications are done and the service stays alive, every message
\* is served in the end.
ServedInTheEnd ==
  <>[][~Death /\ \A c \in Client : ~ClientCall(c)]_vars =>
  <>[](\A c \in Client : queue[c] = <<>>)

\* "Make sure all values are up-to-date before setting state on"
\* (src/qt/qml/leds.cpp:39): when the service obeys an object's setState(On),
\* it has the values the object had when it asked.
UpToDateWhenLit == [][\A c \in Client :
  About(c, "state") /\ Message(c)[2] = "On" /\ Serve(c) =>
    LET want == Message(c)[3] IN
    m_color = want.color /\ m_onMs = want.on /\ m_offMs = want.off]_vars
===============================================================================
