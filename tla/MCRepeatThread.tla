---------------------------- MODULE MCRepeatThread ----------------------------
\* RepeatThread with no repetition, one pulse, two, and a count that never
\* runs out, 2 standing for INT_MAX.
EXTENDS RepeatThread

MCTimes == {-1, 0, 1, 2}
===============================================================================
