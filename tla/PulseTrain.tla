------------------------------ MODULE PulseTrain ------------------------------
(***************************************************************************)
(* What a repeating call promises, with no mutex, condition variable or    *)
(* clock in sight.  Each train is given a number of repetitions when it    *)
(* starts and owes that many pulses plus one; INT_MAX repetitions never    *)
(* run out.  A train that is revoked still plays the pulse it was about to *)
(* play, at most one, and no other.  RepeatThread.tla is shown to          *)
(* implement this.                                                         *)
(***************************************************************************)
EXTENDS Integers

CONSTANTS Train,    \* the trains
          Times,    \* the repetition counts a train may be started with
          IntMax    \* the largest value of the count's C type

Forever == -1       \* the budget of a train that never runs out

VARIABLES phase,    \* "over", "resting" between two pulses, or "pulsing"
          budget    \* pulses the train may still begin

vars == <<phase, budget>>

Owed(n) == IF n = IntMax THEN Forever
           ELSE IF n < 0 THEN 0 ELSE n + 1

TypeOK ==
  /\ phase \in [Train -> {"over", "resting", "pulsing"}]
  /\ budget \in [Train -> Nat \cup {Forever}]

Init ==
  /\ phase = [t \in Train |-> "over"]
  /\ budget = [t \in Train |-> 0]

Start(t, n) ==
  /\ phase[t] = "over"
  /\ phase' = [phase EXCEPT ![t] = "resting"]
  /\ budget' = [budget EXCEPT ![t] = Owed(n)]

BeginPulse(t) ==
  /\ phase[t] = "resting" /\ budget[t] # 0
  /\ phase' = [phase EXCEPT ![t] = "pulsing"]
  /\ budget' = [budget EXCEPT ![t] = IF @ = Forever THEN Forever ELSE @ - 1]

EndPulse(t) ==
  /\ phase[t] = "pulsing"
  /\ phase' = [phase EXCEPT ![t] = "resting"]
  /\ UNCHANGED budget

\* The train loses what it is owed, but for one pulse it may be committed to.
Revoke(t) ==
  /\ budget[t] # 0
  /\ \/ budget' = [budget EXCEPT ![t] = 0]
     \/ phase[t] = "resting" /\ budget' = [budget EXCEPT ![t] = 1]
  /\ UNCHANGED phase

Finish(t) ==
  /\ phase[t] = "resting" /\ budget[t] = 0
  /\ phase' = [phase EXCEPT ![t] = "over"]
  /\ UNCHANGED budget

Next == \E t \in Train :
  \/ \E n \in Times : Start(t, n)
  \/ BeginPulse(t) \/ EndPulse(t) \/ Revoke(t) \/ Finish(t)

Spec == Init /\ [][Next]_vars
===============================================================================
