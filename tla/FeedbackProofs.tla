---------------------------- MODULE FeedbackProofs ----------------------------
(***************************************************************************)
(* Feedback.tla for every set of effects, every duration and period, and   *)
(* any number of chains in flight: the plugin is never Running with        *)
(* nothing in flight, and a chain calls as often as its duration asks,     *)
(* no more, and no less unless it is stopped or a call fails.              *)
(***************************************************************************)
EXTENDS Feedback, SequenceTheorems, TLAPS

-------------------------------------------------------------------------------
(* startVibration()'s arithmetic. *)

LEMMA Division ==
  ASSUME NEW n \in Int, NEW p \in Nat \ {0}
  PROVE  n \div p \in Int /\ (n \div p) * p <= n /\ n < (n \div p) * p + p
<1>1. n \div p \in Int /\ (n \div p) * p <= n
  OBVIOUS
<1>2. n < (n \div p) * p + p
  OBVIOUS
<1> QED BY <1>1, <1>2

LEMMA RoundUp ==
  ASSUME NEW d \in Nat \ {0}, NEW p \in Nat \ {0}, NEW q \in Int,
         q * p <= d + p - 1, d + p - 1 < q * p + p
  PROVE  q >= 1 /\ (q - 1) * p < d /\ q * p >= d
OBVIOUS

LEMMA Division0 ==
  ASSUME NEW n \in Nat, NEW p \in Nat \ {0}
  PROVE  n \div p \in Nat
OBVIOUS

\* A finite effect with a valid period, as integers.
LEMMA SumTyped ==
  ASSUME NEW e \in Effect, ~Endless(e)
  PROVE  /\ DurationOf(e) \in Nat \ {0} /\ DurationOf(e) <= IntMax
         /\ PeriodOf(e) \in Nat \ {0} /\ PeriodOf(e) <= IntMax
BY EffectAssumption DEF CInt, DurationOf, PeriodOf, Endless

\* Where the sum fits, the repetitions of a finite effect cover its duration,
\* and one less would not.
LEMMA RepeatCovers ==
  ASSUME NEW e \in Effect, ~Endless(e), SumFits(e)
  PROVE  /\ RepeatOf(e) \in Nat \ {0}
         /\ (RepeatOf(e) - 1) * PeriodOf(e) < DurationOf(e)
         /\ RepeatOf(e) * PeriodOf(e) >= DurationOf(e)
<1> DEFINE d == DurationOf(e)
           p == PeriodOf(e)
<1>1. d \in Nat \ {0} /\ p \in Nat \ {0}
  BY SumTyped
<1>2. CASE Period[e] <= 0
  <2>1. RepeatOf(e) = 1 /\ p = d
    BY <1>2, EffectAssumption DEF CInt, RepeatOf, PeriodOf
  <2> HIDE DEF d, p
  <2>2. (1 - 1) * p < d /\ 1 * p >= d
    BY <1>1, <2>1
  <2> QED BY <2>1, <2>2 DEF d, p
<1>3. CASE ~(Period[e] <= 0)
  <2>1. RepeatOf(e) = Quotient(Wrap(d + p - 1), p) /\ d + p - 1 <= IntMax
    BY <1>3 DEF RepeatOf, SumFits
  <2> HIDE DEF d, p
  <2>2. Wrap(d + p - 1) = d + p - 1
    BY <1>1, <2>1, EffectAssumption DEF Wrap
  <2>3. RepeatOf(e) = (d + p - 1) \div p
    BY <1>1, <2>1, <2>2 DEF Quotient
  <2>4. /\ (d + p - 1) \div p \in Int
        /\ ((d + p - 1) \div p) * p <= d + p - 1
        /\ d + p - 1 < ((d + p - 1) \div p) * p + p
    BY <1>1, Division
  <2>5. /\ RepeatOf(e) >= 1 /\ RepeatOf(e) \in Int
        /\ (RepeatOf(e) - 1) * p < d /\ RepeatOf(e) * p >= d
    BY <1>1, <2>3, <2>4, RoundUp
  <2> QED BY <2>5 DEF d, p
<1> QED BY <1>2, <1>3

\* Where it does not fit, no positive number comes out.
LEMMA RepeatWraps ==
  ASSUME NEW e \in Effect, ~SumFits(e)
  PROVE  RepeatOf(e) \in Int /\ RepeatOf(e) <= 0
<1> DEFINE p == PeriodOf(e)
           n == DurationOf(e) + p - 1
<1>1. ~Endless(e) /\ Period[e] \in Int /\ Period[e] > 0 /\ ~(n <= IntMax)
  BY EffectAssumption DEF CInt, SumFits
<1>2. /\ DurationOf(e) \in Nat /\ DurationOf(e) <= IntMax
      /\ p \in Nat \ {0} /\ p <= IntMax
  BY <1>1, SumTyped
<1>3. RepeatOf(e) = Quotient(Wrap(n), p)
  BY <1>1 DEF RepeatOf
<1>4. n \in Nat /\ n > IntMax /\ n < 2 * IntMax
  BY <1>1, <1>2, EffectAssumption
<1> HIDE DEF p, n
<1>5. PICK m \in Nat \ {0} : Wrap(n) = -m
  <2>1. Wrap(n) = -(2 * (IntMax + 1) - n)
    BY <1>4, EffectAssumption DEF Wrap
  <2>2. 2 * (IntMax + 1) - n \in Nat \ {0}
    BY <1>4, EffectAssumption
  <2> QED BY <2>1, <2>2
<1>6. Quotient(-m, p) = -(m \div p)
  BY <1>2 DEF Quotient
<1>7. m \div p \in Nat
  BY <1>2, <1>5, Division0
<1> QED BY <1>3, <1>5, <1>6, <1>7

\* What comes out is Infinite for an endless effect, and as many as the duration
\* covers whenever it is positive.
LEMMA RepeatTyped ==
  ASSUME NEW e \in Effect
  PROVE  /\ RepeatOf(e) \in Int
         /\ Endless(e) => RepeatOf(e) = Infinite
         /\ ~Endless(e) /\ SumFits(e) => RepeatOf(e) > 0
         /\ RepeatOf(e) > 0 =>
              /\ ~Endless(e)
              /\ (RepeatOf(e) - 1) * PeriodOf(e) < DurationOf(e)
<1>1. CASE Endless(e)
  BY <1>1 DEF RepeatOf, Infinite
<1>2. CASE ~Endless(e) /\ SumFits(e)
  <2>1. RepeatOf(e) \in Nat \ {0}
    BY <1>2, RepeatCovers
  <2>2. RepeatOf(e) \in Int /\ RepeatOf(e) > 0
    BY <2>1
  <2> QED BY <1>2, <2>2, RepeatCovers
<1>3. CASE ~Endless(e) /\ ~SumFits(e)
  BY <1>3, RepeatWraps
<1> QED BY <1>1, <1>2, <1>3

-------------------------------------------------------------------------------
(* The invariant. *)

BusOK == queue \in Seq(Chain \cup {Orphan}) /\ served \in 0..Len(queue)

ChainsOK ==
  /\ state \in State
  /\ phase \in [Chain -> {"free", "start", "call", "timer"}]
  /\ effect \in [Chain -> Effect]
  /\ repeat \in [Chain -> Nat \cup {Infinite} \cup {RepeatOf(e) : e \in Effect}]
  /\ begun \in [Chain -> Nat]
  /\ playing \subseteq Effect
  /\ IInv

Inv == BusOK /\ ChainsOK

LEMMA AnyEffectTyped == AnyEffect \in Effect
BY EffectAssumption DEF AnyEffect

\* Calls that are given up stay on the bus, and no other changes.
LEMMA OrphanTyped ==
  ASSUME NEW q \in Seq(Chain \cup {Orphan}), NEW c
  PROVE  [i \in DOMAIN q |-> IF q[i] = c THEN Orphan ELSE q[i]]
           \in Seq(Chain \cup {Orphan})
<1> DEFINE g == [i \in DOMAIN q |-> IF q[i] = c THEN Orphan ELSE q[i]]
<1>1. DOMAIN q = 1..Len(q) /\ Len(q) \in Nat
  OBVIOUS
<1>2. g \in [1..Len(q) -> Chain \cup {Orphan}]
  BY <1>1
<1> HIDE DEF g
<1>3. g \in Seq(Chain \cup {Orphan})
  BY <1>1, <1>2, SeqDef
<1> QED BY <1>3 DEF g

LEMMA OrphanLength ==
  ASSUME NEW q \in Seq(Chain \cup {Orphan}), NEW c
  PROVE  Len([i \in DOMAIN q |-> IF q[i] = c THEN Orphan ELSE q[i]]) = Len(q)
<1>1. DOMAIN q = 1..Len(q) /\ Len(q) \in Nat
  OBVIOUS
<1> QED BY <1>1, OrphanTyped

\* The answers on their way are some of the calls on the bus, whatever happens.
LEMMA BusInv == ASSUME BusOK, [Next]_vars PROVE BusOK'
<1> USE DEF BusOK
<1>1. CASE UNCHANGED bus
  BY <1>1 DEF bus
<1>2. ASSUME NEW c \in Chain, NEW r, Call(c, r)
      PROVE  BusOK'
  <2>1. queue' \in Seq(Chain \cup {Orphan}) /\ Len(queue') = Len(queue) + 1
    BY <1>2 DEF Call
  <2> QED BY <1>2, <2>1 DEF Call
<1>3. CASE queue' = Tail(queue) /\ served' = served - 1 /\ served > 0
  <2>1. queue # <<>>
    BY <1>3
  <2>2. queue' \in Seq(Chain \cup {Orphan}) /\ Len(queue') = Len(queue) - 1
    BY <1>3, <2>1
  <2> QED BY <1>3, <2>2
<1>4. ASSUME NEW c \in Chain, ReplyError(c)
      PROVE  BusOK'
  BY <1>4, OrphanTyped, OrphanLength DEF ReplyError
<1>5. CASE Serve
  BY <1>5 DEF Serve
<1>6. CASE ServiceDies
  <2>1. queue' = SubSeq(queue, 1, served) /\ served' = served
    BY <1>6 DEF ServiceDies
  <2>2. queue' \in Seq(Chain \cup {Orphan}) /\ Len(queue') = served
    BY <2>1, SubSeqProperties
  <2> QED BY <2>1, <2>2
<1>7. CASE Application
  BY <1>1, <1>7 DEF Application, Halt, Run
<1>8. ASSUME NEW c \in Chain, StartVibration(c) \/ VibrateAgain(c)
      PROVE  BusOK'
  BY <1>1, <1>2, <1>8 DEF StartVibration, VibrateAgain, Vibrate
<1>9. ASSUME NEW c \in Chain, ReplyOk(c)
      PROVE  BusOK'
  BY <1>3, <1>9 DEF ReplyOk
<1>10. CASE DropAnswer
  BY <1>3, <1>10 DEF DropAnswer
<1>11. CASE UNCHANGED vars
  BY <1>1, <1>11 DEF vars
<1> QED BY <1>4, <1>5, <1>6, <1>7, <1>8, <1>9, <1>10, <1>11
        DEF Next, Callback, Bus

USE DEF ChainsOK, IInv, RunningMeansPending, CountFits, Pending, Free, State,
        Infinite

LEMMA InitInv == Init => Inv
<1> SUFFICES ASSUME Init PROVE Inv
  OBVIOUS
<1>1. BusOK BY DEF Init, BusOK
<1>2. ChainsOK BY AnyEffectTyped DEF Init
<1> QED BY <1>1, <1>2 DEF Inv

LEMMA ApplicationInv == ASSUME ChainsOK, Application PROVE ChainsOK'
<1>1. ASSUME NEW e \in Effect, NEW s \in State \ {"Running"}, Halt(e, s)
      PROVE  ChainsOK'
  BY <1>1 DEF Halt, flight
<1>2. ASSUME NEW e \in Effect, NEW c \in Chain, Run(e, c)
      PROVE  ChainsOK'
  BY <1>2 DEF Run
<1> QED BY <1>1, <1>2 DEF Application

\* A chain that ends leaves the other chains as they are.
LEMMA EndInv ==
  ASSUME ChainsOK, NEW c \in Chain, EndChain(c), UNCHANGED playing,
         state' \in State,
         state' = "Running" => state = "Running" /\ ~TimerFits(effect[c])
  PROVE  ChainsOK'
<1>1. RunningMeansPending'
  <2> SUFFICES ASSUME state' = "Running" PROVE RunningMeansPending'
    OBVIOUS
  <2>1. PICK e \in playing :
          ~TimerFits(e) \/ \E b \in Chain : Pending(b) /\ effect[b] = e
    OBVIOUS
  <2>2. CASE ~TimerFits(e)
    BY <2>1, <2>2
  <2>3. CASE TimerFits(e)
    <3>1. PICK b \in Chain : Pending(b) /\ effect[b] = e
      BY <2>1, <2>3
    <3>2. b # c
      BY <2>3, <3>1
    <3>3. Pending(b)' /\ effect'[b] = e
      BY <3>1, <3>2 DEF EndChain
    <3> QED BY <2>1, <3>3
  <2> QED BY <2>2, <2>3
<1>2. ASSUME NEW b \in Chain PROVE CountFits(b)'
  BY <1>2 DEF EndChain
<1> QED BY <1>1, <1>2, AnyEffectTyped DEF EndChain

LEMMA CallInv ==
  ASSUME ChainsOK, NEW c \in Chain, phase[c] \in {"start", "timer"},
         NEW r, r = IF phase[c] = "start" THEN RepeatOf(effect[c]) ELSE repeat[c],
         r # 0, Call(c, r), UNCHANGED <<state, playing>>
  PROVE  ChainsOK'
<1> DEFINE R == RepeatOf(effect[c])
<1>1. R \in Int /\ r \in Nat \cup {Infinite} \cup {RepeatOf(e) : e \in Effect}
  BY RepeatTyped
<1>2. CountFits(c)'
  <2>1. CASE phase[c] = "start"
    BY <1>1, <2>1 DEF Call
  <2>2. CASE phase[c] = "timer"
    BY <1>1, <2>2 DEF Call
  <2> QED BY <2>1, <2>2
<1>3. ASSUME NEW b \in Chain, b # c PROVE CountFits(b)'
  BY <1>3 DEF Call
<1>4. RunningMeansPending'
  BY DEF Call
<1> QED BY <1>1, <1>2, <1>3, <1>4 DEF Call

LEMMA VibrateInv ==
  ASSUME ChainsOK, NEW c \in Chain, StartVibration(c) \/ VibrateAgain(c)
  PROVE  ChainsOK'
<1>1. PICK r : /\ Vibrate(c, r) /\ phase[c] \in {"start", "timer"}
               /\ r = IF phase[c] = "start" THEN RepeatOf(effect[c])
                      ELSE repeat[c]
  BY DEF StartVibration, VibrateAgain
<1>2. UNCHANGED playing
  BY DEF StartVibration, VibrateAgain
<1>3. CASE EndChain(c) /\ state' # "Running"
  <2>1. state' \in State
    BY <1>1 DEF Vibrate
  <2> QED BY <1>2, <1>3, <2>1, EndInv
<1>4. CASE Call(c, r) /\ state' = "Running"
  <2>1. r # 0 /\ UNCHANGED state
    BY <1>1, <1>4 DEF Vibrate
  <2> QED BY <1>1, <1>2, <1>4, <2>1, CallInv
<1> QED BY <1>1, <1>3, <1>4 DEF Vibrate

LEMMA ReplyInv ==
  ASSUME ChainsOK, NEW c \in Chain, ReplyOk(c) \/ ReplyError(c)
  PROVE  ChainsOK'
<1>1. UNCHANGED playing /\ phase[c] = "call"
  BY DEF ReplyOk, ReplyError
<1>2. CASE LastReply(c)
  BY <1>1, <1>2, EndInv DEF LastReply
<1>3. CASE More(repeat[c]) /\ ArmTimer(c)
  <2>1. CASE ~TimerFits(effect[c]) /\ EndChain(c) /\ UNCHANGED state
    BY <1>1, <2>1, EndInv
  <2>2. CASE ~(~TimerFits(effect[c]) /\ EndChain(c))
    <3> DEFINE R == RepeatOf(effect[c])
    <3>1. R \in Int /\ repeat[c] \in Int
      BY RepeatTyped
    <3>2. CountFits(c)'
      BY <1>1, <1>3, <2>2, <3>1 DEF ArmTimer, More
    <3>3. ASSUME NEW b \in Chain, b # c PROVE CountFits(b)'
      BY <1>1, <1>3, <2>2, <3>3 DEF ArmTimer
    <3>4. RunningMeansPending'
      BY <1>1, <1>3, <2>2 DEF ArmTimer
    <3>5. repeat'[c] \in Nat \cup {Infinite}
      BY <1>3, <2>2, <3>1 DEF ArmTimer, More
    <3> QED BY <1>1, <1>3, <2>2, <3>2, <3>3, <3>4, <3>5 DEF ArmTimer
  <2> QED BY <1>3, <2>1, <2>2 DEF ArmTimer
<1> QED BY <1>2, <1>3 DEF ReplyOk, ReplyError

LEMMA NextInv == Inv /\ [Next]_vars => Inv'
<1> SUFFICES ASSUME Inv, [Next]_vars PROVE ChainsOK'
  BY BusInv DEF Inv
<1>1. CASE Application BY <1>1, ApplicationInv DEF Inv
<1>2. CASE \E c \in Chain : Callback(c)
  BY <1>2, VibrateInv, ReplyInv DEF Callback, Inv
<1>3. CASE Bus
  BY <1>3 DEF Inv, Bus, Serve, DropAnswer, ServiceDies, flight
<1>4. CASE UNCHANGED vars BY <1>4 DEF Inv, vars, flight
<1> QED BY <1>1, <1>2, <1>3, <1>4 DEF Next

\* The plugin's state, every chain and the bus keep their type.
THEOREM TypeCorrect == Spec => []TypeOK
<1>1. Inv => TypeOK
  BY DEF Inv, BusOK, TypeOK
<1> QED BY <1>1, InitInv, NextInv, PTL DEF Spec

\* Running means that something will yet play or stop it.
THEOREM RunningMeansPendingHolds == Spec => []RunningMeansPending
<1>1. Inv => RunningMeansPending
  BY DEF Inv
<1> QED BY <1>1, InitInv, NextInv, PTL DEF Spec

\* No chain calls past its effect's duration.
THEOREM CallsWithinDurationHolds == Spec => []CallsWithinDuration
<1>1. ASSUME Inv PROVE CallsWithinDuration
  <2> SUFFICES ASSUME NEW c \in Chain, Pending(c), ~Unending(effect[c]),
                      begun[c] # 0
               PROVE  (begun[c] - 1) * PeriodOf(effect[c])
                        < DurationOf(effect[c])
    BY DEF CallsWithinDuration
  <2> DEFINE e == effect[c]
             R == RepeatOf(e)
             p == PeriodOf(e)
             d == DurationOf(e)
  <2>1. e \in Effect /\ CountFits(c) /\ begun[c] \in Nat \ {0}
    BY <1>1 DEF Inv
  <2>2. R \in Int /\ R # Infinite /\ ~Endless(e)
    BY <2>1, RepeatTyped DEF Unending
  <2>3. p \in Nat \ {0} /\ d \in Nat \ {0}
    BY <2>1, <2>2, SumTyped
  <2>4. CASE R > 0
    <3>1. (R - 1) * p < d
      BY <2>1, <2>4, RepeatTyped
    <3>2. begun[c] <= R
      <4>1. repeat[c] \in Int
        BY <1>1, RepeatTyped DEF Inv
      <4> QED BY <1>1, <2>1, <2>2, <2>4, <4>1 DEF Inv
    <3> HIDE DEF e, R, p, d
    <3>3. (begun[c] - 1) * p <= (R - 1) * p
      BY <2>1, <2>2, <2>3, <3>2
    <3>4. (begun[c] - 1) * p < d
      BY <2>1, <2>2, <2>3, <3>1, <3>3
    <3> QED BY <3>4 DEF e, p, d
  <2>5. CASE ~(R > 0)
    <3>1. begun[c] = 1
      BY <1>1, <2>1, <2>2, <2>5 DEF Inv
    <3> HIDE DEF p, d
    <3>2. (1 - 1) * p < d
      BY <2>3
    <3> QED BY <3>1, <3>2 DEF p, d
  <2> QED BY <2>4, <2>5
<1> QED BY <1>1, InitInv, NextInv, PTL DEF Spec

\* A chain that ends while the plugin runs, no call failing and the arithmetic
\* fitting, is finite and has covered its effect's duration.
THEOREM EndsCoveredHolds == Spec => EndsCovered
<1> DEFINE Covered(c) ==
      /\ ~Endless(effect[c])
      /\ begun[c] * PeriodOf(effect[c]) >= DurationOf(effect[c])
<1>1. ASSUME Inv, Next, NEW c \in Chain,
             Pending(c), Free(c)', state = "Running", ~ReplyError(c),
             SumFits(effect[c]), TimerFits(effect[c])
      PROVE  Covered(c)
  <2> DEFINE e == effect[c]
             R == RepeatOf(e)
  <2>1. /\ e \in Effect /\ CountFits(c) /\ R \in Int /\ repeat[c] \in Int
        /\ R = Infinite \/ R > 0
    BY <1>1, RepeatTyped DEF Inv
  <2>2. ReplyOk(c) /\ ~More(repeat[c])
    <3>1. CASE Application
      BY <1>1, <3>1 DEF Inv, Application, Halt, Run, flight
    <3>2. CASE Bus
      BY <1>1, <3>2 DEF Bus, Serve, DropAnswer, ServiceDies, flight
    <3>3. ASSUME NEW b \in Chain, StartVibration(b) \/ VibrateAgain(b)
          PROVE  FALSE
      <4>1. PICK r : /\ Vibrate(b, r) /\ phase[b] \in {"start", "timer"}
                     /\ r = IF phase[b] = "start" THEN RepeatOf(effect[b])
                            ELSE repeat[b]
        BY <3>3 DEF StartVibration, VibrateAgain
      <4>2. CASE b # c
        BY <1>1, <4>1, <4>2 DEF Inv, Vibrate, EndChain, Call
      <4>3. CASE b = c
        <5>1. r # 0
          BY <1>1, <2>1, <4>1, <4>3 DEF Inv
        <5> QED BY <1>1, <4>1, <4>3, <5>1 DEF Inv, Vibrate, Call
      <4> QED BY <4>2, <4>3
    <3>4. ASSUME NEW b \in Chain, ReplyOk(b) \/ ReplyError(b)
          PROVE  b = c /\ ReplyOk(b) /\ ~More(repeat[b])
      BY <1>1, <3>4
      DEF Inv, ReplyOk, ReplyError, LastReply, ArmTimer, EndChain
    <3> QED BY <1>1, <3>1, <3>2, <3>3, <3>4 DEF Next, Callback
  <2>3. phase[c] = "call" /\ repeat[c] # Infinite /\ ~(repeat[c] > 1)
    BY <2>2 DEF ReplyOk, More
  <2>4. R # Infinite
    BY <1>1, <2>1, <2>3 DEF Inv
  <2>5. ~Endless(e) /\ R > 0
    BY <2>1, <2>4, RepeatTyped
  <2>6. begun[c] = R
    BY <1>1, <2>1, <2>3, <2>5 DEF Inv
  <2>7. R * PeriodOf(e) >= DurationOf(e)
    BY <1>1, <2>1, <2>5, RepeatCovers
  <2> QED BY <2>5, <2>6, <2>7
<1>2. ASSUME Inv, [Next]_vars
      PROVE  [\A c \in Chain :
                Pending(c) /\ Free(c)' /\ state = "Running" /\ ~ReplyError(c)
                /\ SumFits(effect[c]) /\ TimerFits(effect[c])
                  => Covered(c)]_vars
  BY <1>1, <1>2
<1> QED BY <1>2, InitInv, NextInv, PTL DEF Spec, EndsCovered
===============================================================================
