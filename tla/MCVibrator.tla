------------------------------ MODULE MCVibrator ------------------------------
\* Two thread objects, the most that ever live at once.  The safety run plays
\* patterns of two pulses on all five back ends; the liveness run plays patterns
\* of one pulse and endless ones (IntMax = 1) on the back end that blocks in
\* configure() and on one with a timer.
EXTENDS Vibrator

MCBackends == {"ff", "sysfs", "legacy", "binder", "dummy"}
MCLiveBackends == {"ff", "binder"}
===============================================================================
