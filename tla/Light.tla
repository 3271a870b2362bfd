--------------------------------- MODULE Light ---------------------------------
(***************************************************************************)
(* What the notification light promises its clients, with no device        *)
(* operation in sight.  A client asks for a light; the light is on its way *)
(* there for a while, and in the end it is there, or the service is gone   *)
(* and starts over with nothing asked.  Leds.tla is shown to implement     *)
(* this.                                                                   *)
(***************************************************************************)
EXTENDS Integers

CONSTANTS Default,    \* what is asked for when the service starts
          Dark        \* the look of a channel that is off

VARIABLES
  want,        \* what was asked for: state, color, on and off
  shown,       \* the look of each channel
  mode,        \* "down", "starting", "idle", or "moving" to what was asked for
  confirmed    \* the device takes what it is sent, or says so

vars == <<want, shown, mode, confirmed>>

Channel == DOMAIN want.color
Look(w, c) ==
  IF w.state = "Off" \/ w.color[c] = 0 THEN Dark
  ELSE [timer |-> TRUE, on |-> w.on, off |-> w.off, level |-> w.color[c]]

Init == /\ want = Default /\ mode = "down" /\ confirmed \in BOOLEAN
        /\ shown = [c \in Channel |-> Dark]

\* A client asks for another state, or for one other value.  What is asked for
\* later, while the light is off, need not move anything.
Ask ==
  /\ mode = "idle"
  /\ \/ want' = [want EXCEPT !.state = want'.state]
     \/ want' = [want EXCEPT !.color = want'.color]
     \/ want' = [want EXCEPT !.on = want'.on]
     \/ want' = [want EXCEPT !.off = want'.off]
  /\ mode' = "moving" \/ (want.state = "Off" /\ want'.state = "Off" /\ mode' = "idle")
  /\ UNCHANGED <<shown, confirmed>>

\* On its way the light looks like anything, but does not brighten when the
\* service is up and it is to be off.
Move ==
  /\ mode \in {"starting", "moving"}
  /\ mode = "moving" /\ want.state = "Off" =>
       \A c \in Channel : shown'[c].level <= shown[c].level
  /\ UNCHANGED <<want, mode, confirmed>>

\* It is there; or, on a device that does not tell, where it was.
Arrive ==
  /\ mode \in {"starting", "moving"} /\ mode' = "idle"
  /\ \/ shown' = [c \in Channel |-> Look(want, c)]
     \/ ~confirmed /\ UNCHANGED shown
  /\ UNCHANGED <<want, confirmed>>

Crash == mode' = "down" /\ want' = Default /\ UNCHANGED <<shown, confirmed>>

Start ==
  /\ mode = "down"
  /\ mode' = "starting" \/ (~confirmed /\ mode' = "idle")
  /\ UNCHANGED <<want, shown, confirmed>>

Next == Ask \/ Move \/ Arrive \/ Crash \/ Start

Safety == Init /\ [][Next]_vars

\* The light is not on its way for ever.
Spec == Safety /\ (mode \in {"starting", "moving"} ~> mode \in {"idle", "down"})
===============================================================================
