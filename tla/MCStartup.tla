------------------------------- MODULE MCStartup -------------------------------
\* Devices of each kind: an Android one with both HALs, one with the timed
\* output, the lights module and a light HAL that does not answer, one with LED
\* class devices, one with force feedback, one whose rumble motor takes no effect,
\* one with every interface, one with nothing but an unreadable input device, one
\* with nothing.  One change or kill.
\* The runs do not look for deadlocks: a service that serves has started, and
\* nothing need happen any more.
EXTENDS Startup

Lights == {"red", "green", "blue", "timer"}
MCWorlds == {
  {"bus", "vibrator HAL", "light HAL", "answers", "notifications", "rumble",
   "unreadable"},
  {"bus", "timed_output", "light module", "vibrator LED", "light HAL",
   "notifications"},
  {"bus", "vibrator LED", "transient"} \cup Lights,
  {"bus", "rumble", "room", "unreadable"} \cup (Lights \ {"red"}),
  {"bus", "rumble"},
  Hardware \ {"unreadable"},
  {"bus", "unreadable"},
  {"bus"}}
===============================================================================
