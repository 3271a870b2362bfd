------------------------------ MODULE LedsProofs ------------------------------
(***************************************************************************)
(* Theorems about the notification light, for any colors, delays and set   *)
(* of back ends.                                                           *)
(*                                                                         *)
(* The invariant follows configure() through its program: what is left     *)
(* of the operations (todo) is always a suffix of one of three programs,   *)
(* and where it starts says which writes the device has behind it.  Lit    *)
(* and Zeroed say what they have left there.  At the end of a program      *)
(* that is InSync; at a write of a delay it is that the trigger is there   *)
(* (RefusedIsBad).  The steps of the process are taken with any argument   *)
(* of a slot (AnyNext), so that QmlLedsProofs can use them.                *)
(***************************************************************************)
EXTENDS Leds, SequenceTheorems, TLAPS

\* The operations, and the three programs of the sysfs back end: configure() for
\* on and for off, and the constructor's.
Ops == {"trigger", "delay_on", "delay_off", "level", "zero", "light", "print"}
          \X Channel

OnProgram == SetDelay \o OnEach("level")
OffProgram == OnEach("zero")
StartProgram == OnEach("trigger") \o OnEach("zero")

\* Where the elements of a concatenation come from.
LEMMA Concat ==
  ASSUME NEW s \in Seq(Ops), NEW t \in Seq(Ops)
  PROVE  /\ s \o t \in Seq(Ops) /\ Len(s \o t) = Len(s) + Len(t)
         /\ \A i \in 1 .. Len(s) : (s \o t)[i] = s[i]
         /\ \A i \in 1 .. Len(t) : (s \o t)[i + Len(s)] = t[i]
<1> DEFINE m == Len(s)  n == Len(t)
<1>0. m \in Nat /\ n \in Nat
  OBVIOUS
<1>1. /\ s \o t \in Seq(Ops) /\ Len(s \o t) = m + n
      /\ \A i \in 1 .. m + n : (s \o t)[i] = IF i <= m THEN s[i] ELSE t[i - m]
  BY ConcatProperties
<1> HIDE DEF m, n
<1>2. ASSUME NEW i \in 1 .. m PROVE (s \o t)[i] = s[i]
  BY <1>0, <1>1
<1>3. ASSUME NEW i \in 1 .. n PROVE (s \o t)[i + m] = t[i]
  <2>1. i + m \in 1 .. m + n /\ ~(i + m <= m) /\ (i + m) - m = i
    BY <1>0
  <2> QED BY <1>1, <2>1
<1> QED BY <1>1, <1>2, <1>3 DEF m, n

\* The three operations of OnEach, in order.
LEMMA EachIs ==
  ASSUME NEW op \in {"trigger", "level", "zero"}
  PROVE  /\ OnEach(op) \in Seq(Ops) /\ Len(OnEach(op)) = 3
         /\ OnEach(op)[1] = <<op, "red">> /\ OnEach(op)[2] = <<op, "green">>
         /\ OnEach(op)[3] = <<op, "blue">>
BY DEF OnEach, Ops, Channel

\* The three programs, operation by operation.
LEMMA OnProgramIs ==
  /\ OnProgram \in Seq(Ops) /\ Len(OnProgram) = 12
  /\ OnProgram[1] = <<"trigger", "red">>
  /\ OnProgram[2] = <<"delay_on", "red">>
  /\ OnProgram[3] = <<"delay_off", "red">>
  /\ OnProgram[4] = <<"trigger", "green">>
  /\ OnProgram[5] = <<"delay_on", "green">>
  /\ OnProgram[6] = <<"delay_off", "green">>
  /\ OnProgram[7] = <<"trigger", "blue">>
  /\ OnProgram[8] = <<"delay_on", "blue">>
  /\ OnProgram[9] = <<"delay_off", "blue">>
  /\ OnProgram[10] = <<"level", "red">>
  /\ OnProgram[11] = <<"level", "green">>
  /\ OnProgram[12] = <<"level", "blue">>
<1> DEFINE D(c) == << <<"trigger", c>>, <<"delay_on", c>>, <<"delay_off", c>> >>
           L == OnEach("level")
<1>1. OnProgram = ((D("red") \o D("green")) \o D("blue")) \o L
  BY DEF OnProgram, SetDelay
<1>2. \A c \in Channel : D(c) \in Seq(Ops) /\ Len(D(c)) = 3
                         /\ D(c)[1] = <<"trigger", c>> /\ D(c)[2] = <<"delay_on", c>>
                         /\ D(c)[3] = <<"delay_off", c>>
  BY DEF Ops
<1>3. "red" \in Channel /\ "green" \in Channel /\ "blue" \in Channel
  BY DEF Channel
<1>4. L \in Seq(Ops) /\ Len(L) = 3 /\ L[1] = <<"level", "red">>
      /\ L[2] = <<"level", "green">> /\ L[3] = <<"level", "blue">>
  BY EachIs
<1> HIDE DEF D, L
<1> DEFINE P == D("red") \o D("green")
           Q == P \o D("blue")
<1>5. /\ P \in Seq(Ops) /\ Len(P) = 6
      /\ P[1] = D("red")[1] /\ P[2] = D("red")[2] /\ P[3] = D("red")[3]
      /\ P[1 + 3] = D("green")[1] /\ P[2 + 3] = D("green")[2]
      /\ P[3 + 3] = D("green")[3]
  <2>1. /\ P \in Seq(Ops) /\ Len(P) = 3 + 3
        /\ \A i \in 1 .. 3 : P[i] = D("red")[i]
        /\ \A i \in 1 .. 3 : P[i + 3] = D("green")[i]
    <3>1. /\ D("red") \in Seq(Ops) /\ Len(D("red")) = 3
          /\ D("green") \in Seq(Ops) /\ Len(D("green")) = 3
      BY <1>2, <1>3
    <3> QED BY <3>1, Concat
  <2> HIDE DEF P
  <2>2. 3 + 3 = 6 /\ 1 \in 1 .. 3 /\ 2 \in 1 .. 3 /\ 3 \in 1 .. 3
    OBVIOUS
  <2>3. P \in Seq(Ops) /\ Len(P) = 6
    BY <2>1, <2>2
  <2>4. P[1] = D("red")[1] /\ P[2] = D("red")[2] /\ P[3] = D("red")[3]
    BY <2>1, <2>2
  <2>5. /\ P[1 + 3] = D("green")[1] /\ P[2 + 3] = D("green")[2]
        /\ P[3 + 3] = D("green")[3]
    BY <2>1, <2>2
  <2> QED BY <2>3, <2>4, <2>5
<1> HIDE DEF P
<1>6. /\ Q \in Seq(Ops) /\ Len(Q) = 9
      /\ \A i \in 1 .. 6 : Q[i] = P[i]
      /\ Q[1 + 6] = D("blue")[1] /\ Q[2 + 6] = D("blue")[2]
      /\ Q[3 + 6] = D("blue")[3]
  <2>1. /\ Q \in Seq(Ops) /\ Len(Q) = 6 + 3
        /\ \A i \in 1 .. 6 : Q[i] = P[i]
        /\ \A i \in 1 .. 3 : Q[i + 6] = D("blue")[i]
    <3>1. P \in Seq(Ops) /\ Len(P) = 6
      BY <1>5
    <3>2. D("blue") \in Seq(Ops) /\ Len(D("blue")) = 3
      BY <1>2, <1>3
    <3>3. /\ P \o D("blue") \in Seq(Ops)
          /\ Len(P \o D("blue")) = Len(P) + Len(D("blue"))
          /\ \A i \in 1 .. Len(P) : (P \o D("blue"))[i] = P[i]
          /\ \A i \in 1 .. Len(D("blue")) :
               (P \o D("blue"))[i + Len(P)] = D("blue")[i]
      BY <3>1, <3>2, Concat
    <3> QED BY <3>1, <3>2, <3>3 DEF Q
  <2> HIDE DEF Q
  <2> QED BY <2>1
<1> HIDE DEF Q
<1>7. /\ OnProgram \in Seq(Ops) /\ Len(OnProgram) = 12
      /\ \A i \in 1 .. 9 : OnProgram[i] = Q[i]
      /\ OnProgram[1 + 9] = L[1] /\ OnProgram[2 + 9] = L[2]
      /\ OnProgram[3 + 9] = L[3]
  <2>0. OnProgram = Q \o L
    BY <1>1 DEF P, Q
  <2>1. /\ OnProgram \in Seq(Ops) /\ Len(OnProgram) = 9 + 3
        /\ \A i \in 1 .. 9 : OnProgram[i] = Q[i]
        /\ \A i \in 1 .. 3 : OnProgram[i + 9] = L[i]
    <3>1. Q \in Seq(Ops) /\ Len(Q) = 9
      BY <1>6
    <3>2. L \in Seq(Ops) /\ Len(L) = 3
      BY <1>4
    <3>3. /\ Q \o L \in Seq(Ops) /\ Len(Q \o L) = Len(Q) + Len(L)
          /\ \A i \in 1 .. Len(Q) : (Q \o L)[i] = Q[i]
          /\ \A i \in 1 .. Len(L) : (Q \o L)[i + Len(Q)] = L[i]
      BY <3>1, <3>2, Concat
    <3> QED BY <2>0, <3>1, <3>2, <3>3
  <2> QED BY <2>1
<1>8. /\ D("red")[1] = <<"trigger", "red">> /\ D("red")[2] = <<"delay_on", "red">>
      /\ D("red")[3] = <<"delay_off", "red">>
      /\ D("green")[1] = <<"trigger", "green">>
      /\ D("green")[2] = <<"delay_on", "green">>
      /\ D("green")[3] = <<"delay_off", "green">>
      /\ D("blue")[1] = <<"trigger", "blue">> /\ D("blue")[2] = <<"delay_on", "blue">>
      /\ D("blue")[3] = <<"delay_off", "blue">>
  BY <1>2, <1>3
<1> QED BY <1>4, <1>5, <1>6, <1>7, <1>8

\* The six operations of the constructor, in order.
LEMMA StartProgramIs ==
  /\ StartProgram \in Seq(Ops) /\ Len(StartProgram) = 6
  /\ StartProgram[1] = <<"trigger", "red">>
  /\ StartProgram[2] = <<"trigger", "green">>
  /\ StartProgram[3] = <<"trigger", "blue">>
  /\ StartProgram[4] = <<"zero", "red">>
  /\ StartProgram[5] = <<"zero", "green">>
  /\ StartProgram[6] = <<"zero", "blue">>
<1> DEFINE P == OnEach("trigger")  Q == OnEach("zero")
<1>1. P \in Seq(Ops) /\ Len(P) = 3 /\ P[1] = <<"trigger", "red">>
      /\ P[2] = <<"trigger", "green">> /\ P[3] = <<"trigger", "blue">>
  BY EachIs
<1>2. Q \in Seq(Ops) /\ Len(Q) = 3 /\ Q[1] = <<"zero", "red">>
      /\ Q[2] = <<"zero", "green">> /\ Q[3] = <<"zero", "blue">>
  BY EachIs
<1> HIDE DEF P, Q
<1>3. /\ StartProgram \in Seq(Ops) /\ Len(StartProgram) = 3 + 3
      /\ \A i \in 1 .. 3 : StartProgram[i] = P[i]
      /\ \A i \in 1 .. 3 : StartProgram[i + 3] = Q[i]
  BY <1>1, <1>2, Concat DEF StartProgram, P, Q
<1>4. /\ StartProgram[1 + 3] = Q[1] /\ StartProgram[2 + 3] = Q[2]
      /\ StartProgram[3 + 3] = Q[3]
  BY <1>3
<1> QED BY <1>1, <1>2, <1>3, <1>4

-------------------------------------------------------------------------------
\* rest is what is left of program from its k-th operation on.
Suffix(rest, program, k) ==
  /\ k \in 1 .. Len(program) + 1
  /\ Len(rest) = Len(program) + 1 - k
  /\ \A i \in 1 .. Len(rest) : rest[i] = program[i + k - 1]

\* Before its first operation a program is a suffix of itself.
LEMMA SuffixWhole ==
  ASSUME NEW program \in Seq(Ops)
  PROVE  Suffix(program, program, 1)
BY DEF Suffix

\* The head of a suffix is the next operation, its tail the next suffix.
LEMMA SuffixStep ==
  ASSUME NEW program \in Seq(Ops), NEW rest \in Seq(Ops), NEW k,
         Suffix(rest, program, k), rest # <<>>
  PROVE  /\ k \in 1 .. Len(program) /\ Head(rest) = program[k]
         /\ Suffix(Tail(rest), program, k + 1)
         /\ Tail(rest) \in Seq(Ops)
         /\ Tail(rest) = <<>> <=> k = Len(program)
<1>1. /\ Tail(rest) \in Seq(Ops) /\ Len(Tail(rest)) = Len(rest) - 1
      /\ \A i \in 1 .. Len(Tail(rest)) : Tail(rest)[i] = rest[i + 1]
  BY HeadTailProperties
<1>2. k \in Nat /\ Len(program) \in Nat /\ Len(rest) \in Nat /\ Len(rest) # 0
  BY EmptySeq DEF Suffix
<1>3. k \in 1 .. Len(program)
  BY <1>2 DEF Suffix
<1>4. Head(rest) = program[k]
  BY <1>2, <1>3 DEF Suffix
<1>5. ASSUME NEW i \in 1 .. Len(Tail(rest))
      PROVE  Tail(rest)[i] = program[i + (k + 1) - 1]
  <2>1. i + 1 \in 1 .. Len(rest) /\ (i + 1) + k - 1 = i + (k + 1) - 1
    BY <1>1, <1>2
  <2> QED BY <1>1, <2>1 DEF Suffix
<1>6. Suffix(Tail(rest), program, k + 1)
  BY <1>1, <1>2, <1>3, <1>5 DEF Suffix
<1>7. Tail(rest) = <<>> <=> Len(Tail(rest)) = 0
  BY <1>1, EmptySeq
<1>8. Tail(rest) = <<>> <=> k = Len(program)
  BY <1>1, <1>2, <1>7 DEF Suffix
<1> QED BY <1>1, <1>3, <1>4, <1>6, <1>8

\* What is left after the last operation is nothing.
LEMMA SuffixEmpty ==
  ASSUME NEW program \in Seq(Ops), NEW rest \in Seq(Ops), NEW k,
         Suffix(rest, program, k)
  PROVE  rest = <<>> <=> k = Len(program) + 1
<1>1. rest = <<>> <=> Len(rest) = 0
  BY EmptySeq
<1> QED BY <1>1 DEF Suffix

-------------------------------------------------------------------------------
(* The inductive invariant. *)

\* How far the writes of OnProgram have come on channel c, whose trigger is the
\* operation first and whose brightness is the operation last, when the k-th is
\* next.
Lit(c, first, last, k) ==
  /\ k > first /\ k <= last => led[c].timer
  /\ k > first + 1 /\ k <= last => led[c].on = m_onMs
  /\ k > first + 2 /\ k <= last => led[c].off = m_offMs
  /\ k > last => led[c] = Shown(c)

AllLit(k) == Lit("red", 1, 10, k) /\ Lit("green", 4, 11, k) /\ Lit("blue", 7, 12, k)

\* The zeroes from operation first on: those made leave their channel dark.
Zeroed(first, k) ==
  /\ k > first => led["red"] = Dark
  /\ k > first + 1 => led["green"] = Dark
  /\ k > first + 2 => led["blue"] = Dark

\* sysfs goes through one of its programs, and the device has what is behind.
OnInv == \E k \in 1 .. 13 : Suffix(todo, OnProgram, k) /\ AllLit(k)
OffInv == \E k \in 1 .. 4 : Suffix(todo, OffProgram, k) /\ Zeroed(1, k)
StartInv == \E k \in 1 .. 7 : Suffix(todo, StartProgram, k) /\ Zeroed(4, k)

\* The sysfs back end is in the midst of the program its members ask for, with
\* the device as far as that; it loses no write.
SysfsInv ==
  /\ ~lost
  /\ up /\ m_state = "On" => OnInv
  /\ up /\ m_state = "Off" => OffInv
  /\ ~up /\ todo # <<>> => StartInv

\* The HAL back ends have messages to send, and after the last one the light is
\* what it said.
HalInv ==
  /\ \A i \in 1 .. Len(todo) : todo[i] = <<"light", "red">>
  /\ up /\ todo = <<>> /\ ~lost => \A c \in Channel : led[c] = Shown(c)

\* The dummy has nothing to do but print, and nothing to light.
DummyInv ==
  /\ \A i \in 1 .. Len(todo) : todo[i] = <<"print", "red">>
  /\ \A c \in Channel : led[c] = Dark

\* A service that is not up has no member but the defaults, and so is Off.
IInv ==
  /\ TypeOK
  /\ m_onMs # 0 /\ m_offMs # 0
  /\ ~up => m_state = "Off"
  /\ backend = "sysfs" => SysfsInv
  /\ backend \in {"binder", "hybris"} => HalInv
  /\ backend = "dummy" => DummyInv

-------------------------------------------------------------------------------
(* Typing. *)

Looks == [timer : BOOLEAN, on : Nat, off : Nat, level : Nat]

\* What configure() and the constructors set out to do.
LEMMA Programs ==
  /\ backend = "sysfs" => /\ Configure("On") = OnProgram
                          /\ Configure("Off") = OffProgram
                          /\ Construct = StartProgram
  /\ backend \in {"binder", "hybris"} =>
       /\ \A s \in {"On", "Off"} : Configure(s) = Message
       /\ backend = "binder" => Construct = Message
       /\ backend = "hybris" => Construct = Message \o Message
  /\ backend = "dummy" => /\ \A s \in {"On", "Off"} :
                               Configure(s) = << <<"print", "red">> >>
                          /\ Construct = <<>>
<1>1. CASE backend = "sysfs"
  BY <1>1 DEF Configure, Construct, OnProgram, OffProgram, StartProgram
<1>2. CASE backend = "binder"
  BY <1>2 DEF Configure, Construct
<1>3. CASE backend = "hybris"
  BY <1>3 DEF Configure, Construct
<1>4. CASE backend = "dummy"
  BY <1>4 DEF Configure, Construct
<1> QED BY <1>1, <1>2, <1>3, <1>4

\* Configure and Construct are made of operations, and only the dummy constructs
\* without any.
LEMMA ConfigureTyped ==
  ASSUME backend \in Backends
  PROVE  /\ \A s \in {"On", "Off"} : Configure(s) \in Seq(Ops) /\ Configure(s) # <<>>
         /\ Construct \in Seq(Ops)
         /\ backend # "dummy" => Construct # <<>>
<1>1. OnProgram \in Seq(Ops) /\ OnProgram # <<>>
  BY OnProgramIs, EmptySeq
<1>2. OffProgram \in Seq(Ops) /\ OffProgram # <<>>
  BY EachIs, EmptySeq DEF OffProgram
<1>3. StartProgram \in Seq(Ops) /\ StartProgram # <<>>
  BY StartProgramIs, EmptySeq
<1>4. Message \in Seq(Ops) /\ Len(Message) = 1 /\ Message # <<>>
  BY DEF Message, Ops, Channel
<1>5. Message \o Message \in Seq(Ops) /\ Message \o Message # <<>>
  <2>1. /\ Message \o Message \in Seq(Ops)
        /\ Len(Message \o Message) = Len(Message) + Len(Message)
    BY <1>4, Concat
  <2>2. Len(Message \o Message) # 0
    BY <1>4, <2>1
  <2> QED BY <2>1, <2>2, EmptySeq
<1>6. << <<"print", "red">> >> \in Seq(Ops) /\ << <<"print", "red">> >> # <<>>
  BY DEF Ops, Channel
<1>7. <<>> \in Seq(Ops)
  BY EmptySeq
<1>8. backend \in {"sysfs", "binder", "hybris", "dummy"}
  BY BackendsAssumption
<1>9. CASE backend = "sysfs"
  BY <1>1, <1>2, <1>3, <1>9, Programs
<1>10. CASE backend = "binder"
  BY <1>4, <1>10, Programs
<1>11. CASE backend = "hybris"
  BY <1>4, <1>5, <1>11, Programs
<1>12. CASE backend = "dummy"
  BY <1>6, <1>7, <1>12, Programs
<1> QED BY <1>8, <1>9, <1>10, <1>11, <1>12

\* TypeOK, with names for its sets.
LEMMA TypeIs ==
  TypeOK <=> /\ up \in BOOLEAN
             /\ m_state \in {"On", "Off"} /\ m_color \in [Channel -> Nat]
             /\ m_onMs \in Int /\ m_offMs \in Int
             /\ todo \in Seq(Ops) /\ led \in [Channel -> Looks]
             /\ backend \in Backends /\ lost \in BOOLEAN
BY Zenon DEF TypeOK, Looks, Ops

\* The service starts with the defaults and a dark light.
LEMMA InitInv == Init => IInv
<1> SUFFICES ASSUME Init PROVE IInv
  OBVIOUS
<1>1. led \in [Channel -> Looks] /\ todo \in Seq(Ops)
  BY EmptySeq DEF Init, Dark, Looks
<1>2. TypeOK
  <2>1. up \in BOOLEAN /\ lost \in BOOLEAN /\ m_state \in {"On", "Off"}
    BY Zenon DEF Init
  <2>3. m_onMs \in Int /\ m_offMs \in Int /\ backend \in Backends
    BY DEF Init
  <2>2. m_color \in [Channel -> Nat]
    BY ColorAssumption DEF Init
  <2> QED BY <1>1, <2>1, <2>2, <2>3, TypeIs, Zenon
<1>3. Len(todo) = 0
  BY EmptySeq DEF Init
<1>4. SysfsInv /\ HalInv /\ DummyInv
  BY <1>3 DEF Init, SysfsInv, HalInv, DummyInv
<1> QED BY <1>2, <1>4 DEF Init, IInv

\* What an operation takes from todo.
LEMMA OpTyped ==
  ASSUME TypeOK, Operation
  PROVE  /\ todo # <<>> /\ Head(todo) \in Ops /\ Head(todo) = todo[1]
         /\ At \in Channel /\ Done
         /\ Tail(todo) \in Seq(Ops)
         /\ Len(Tail(todo)) = Len(todo) - 1
         /\ \A i \in 1 .. Len(Tail(todo)) : Tail(todo)[i] = todo[i + 1]
<1>1. todo \in Seq(Ops)
  BY DEF TypeOK, Ops
<1>2. todo # <<>> /\ Done
  BY DEF Operation, WriteTrigger, WriteDelay, Accepted, WriteBrightness,
         SendLight, PrintOnly, Next1
<1>3. /\ Head(todo) \in Ops /\ Tail(todo) \in Seq(Ops)
      /\ Len(Tail(todo)) = Len(todo) - 1
      /\ \A i \in 1 .. Len(Tail(todo)) : Tail(todo)[i] = todo[i + 1]
  BY <1>1, <1>2, HeadTailProperties
<1>4. Head(todo)[2] \in Channel
  BY <1>3 DEF Ops
<1>5. Head(todo) = todo[1]
  BY <1>1, <1>2
<1> QED BY <1>2, <1>3, <1>4, <1>5 DEF At

\* What an operation does to the device, by its kind.
LEMMA OpEffect ==
  ASSUME TypeOK, Operation
  PROVE  /\ led' \in [Channel -> Looks]
         /\ Head(todo)[1] # "light" => \A d \in Channel : d # At => led'[d] = led[d]
         /\ Head(todo)[1] = "trigger" => led'[At].timer
         /\ Head(todo)[1] = "delay_on" =>
              /\ led'[At].timer = led[At].timer
              /\ led'[At].on = m_onMs
         /\ Head(todo)[1] = "delay_off" =>
              /\ led'[At].timer = led[At].timer
              /\ led'[At].on = led[At].on
              /\ led'[At].off = m_offMs
         /\ Head(todo)[1] = "level" =>
              /\ m_color[At] = 0 => led'[At] = Dark
              /\ m_color[At] # 0 => led'[At] = [led[At] EXCEPT !.level = m_color[At]]
         /\ Head(todo)[1] = "zero" => led'[At] = Dark
         /\ Head(todo)[1] = "print" => led' = led
         /\ Head(todo)[1] # "light" => lost' = lost
         /\ Head(todo)[1] = "light" =>
              \/ ~lost' /\ led' = [c \in Channel |-> Shown(c)]
              \/ lost' /\ led' = led
<1>0. led \in [Channel -> Looks] /\ At \in Channel /\ Looks # {}
  BY OpTyped DEF TypeOK, Looks
<1>1. Dark \in Looks
  BY DEF Dark, Looks
<1>2. CASE WriteTrigger
  <2>1. Head(todo)[1] = "trigger"
    BY <1>2 DEF WriteTrigger, Next1
  <2> DEFINE y == [timer |-> TRUE, on |-> 500, off |-> 500,
                   level |-> IF led[At].level = 0 THEN Full ELSE led[At].level]
  <2>2. y \in Looks
    BY <1>0 DEF Looks, Full
  <2>3. led' = [led EXCEPT ![At] = y] /\ y.timer /\ lost' = lost
    BY <1>2 DEF WriteTrigger
  <2> HIDE DEF y
  <2> QED BY <1>0, <2>1, <2>2, <2>3
<1>3. CASE WriteDelay
  <2>1. CASE Next1("delay_on")
    <3>1. Head(todo)[1] = "delay_on"
      BY <2>1 DEF Next1
    <3>2. m_onMs \in Nat
      BY <1>3, <3>1 DEF WriteDelay, Accepted, Next1, TypeOK
    <3>3. led' = [led EXCEPT ![At] = [led[At] EXCEPT !.on = m_onMs]] /\ lost' = lost
      BY <1>3, <2>1 DEF WriteDelay
    <3> QED BY <1>0, <3>1, <3>2, <3>3 DEF Looks
  <2>2. CASE ~Next1("delay_on")
    <3>1. Head(todo)[1] = "delay_off" /\ m_offMs \in Nat
      BY <1>3, <2>2 DEF WriteDelay, Accepted, Next1, TypeOK
    <3>3. led' = [led EXCEPT ![At] = [led[At] EXCEPT !.off = m_offMs]] /\ lost' = lost
      BY <1>3, <2>2 DEF WriteDelay
    <3> QED BY <1>0, <3>1, <3>3 DEF Looks
  <2> QED BY <2>1, <2>2
<1>4. CASE WriteBrightness
  <2>1. Head(todo)[1] \in {"level", "zero"}
    BY <1>4 DEF WriteBrightness, Next1
  <2>2. m_color[At] \in Nat
    BY <1>0 DEF TypeOK
  <2> DEFINE v == IF Next1("zero") THEN 0 ELSE m_color[At]
             y == IF v = 0 THEN Dark ELSE [led[At] EXCEPT !.level = v]
  <2>3. led' = [led EXCEPT ![At] = y] /\ lost' = lost
    BY <1>4 DEF WriteBrightness
  <2>4. y \in Looks
    BY <1>0, <1>1, <2>2 DEF Looks
  <2>5. Head(todo)[1] = "zero" => y = Dark
    BY <1>4 DEF WriteBrightness, Next1
  <2>6. Head(todo)[1] = "level" =>
          /\ m_color[At] = 0 => y = Dark
          /\ m_color[At] # 0 => y = [led[At] EXCEPT !.level = m_color[At]]
    BY DEF Next1
  <2> HIDE DEF y
  <2> QED BY <1>0, <2>1, <2>3, <2>4, <2>5, <2>6
<1>5. CASE SendLight
  <2>1. Head(todo)[1] = "light"
    BY <1>5 DEF SendLight, Next1
  <2>2. CASE /\ m_state = "Off" \/ (m_onMs > 0 /\ m_offMs > 0)
             /\ led' = [c \in Channel |-> Shown(c)] /\ lost' = FALSE
    <3>1. ASSUME NEW c \in Channel PROVE Shown(c) \in Looks
      <4>1. m_color[c] \in Nat
        BY DEF TypeOK
      <4> QED BY <1>1, <2>2, <4>1 DEF Shown, TypeOK, Looks
    <3> QED BY <2>1, <2>2, <3>1
  <2>3. CASE UNCHANGED led /\ lost' = TRUE
    BY <1>0, <2>1, <2>3
  <2> QED BY <1>5, <2>2, <2>3 DEF SendLight
<1>6. CASE PrintOnly
  BY <1>0, <1>6 DEF PrintOnly, Next1
<1> QED BY <1>2, <1>3, <1>4, <1>5, <1>6 DEF Operation

-------------------------------------------------------------------------------
(* The device operations. *)

\* An operation keeps the types.
LEMMA OperationTyped ==
  ASSUME TypeOK, Operation
  PROVE  TypeOK'
<1>1. up' \in BOOLEAN
  BY OpTyped, Zenon DEF Done
<1>2. led' \in [Channel -> Looks] /\ todo' \in Seq(Ops)
  BY OpTyped, OpEffect DEF Done
<1>3. lost' \in BOOLEAN
  BY Zenon DEF TypeOK, Operation, WriteTrigger, WriteDelay, WriteBrightness,
               SendLight, PrintOnly
<1>4. UNCHANGED <<m_state, m_color, m_onMs, m_offMs, backend>>
  BY OpTyped DEF Done, members
<1> QED BY <1>1, <1>2, <1>3, <1>4, Zenon DEF TypeOK, Looks, Ops

\* A look with another level.
LEMMA LevelSet ==
  ASSUME NEW look \in Looks, NEW on, NEW off, NEW v \in Nat,
         look.timer = TRUE, look.on = on, look.off = off
  PROVE  [look EXCEPT !.level = v]
           = [timer |-> TRUE, on |-> on, off |-> off, level |-> v]
<1>1. [look EXCEPT !.level = v]
        = [timer |-> look.timer, on |-> look.on, off |-> look.off, level |-> v]
  BY DEF Looks
<1> QED BY <1>1, Zenon

\* One write of OnProgram, seen from channel c: it is one of c's four, in its
\* place, or leaves c alone.
LEMMA LitStep ==
  ASSUME TypeOK, Operation, m_state = "On",
         NEW c \in Channel, NEW first \in 1 .. 7, NEW last \in 10 .. 12,
         NEW k \in 1 .. 12, Lit(c, first, last, k),
         Head(todo)[1] # "light",
         k = first => Head(todo) = <<"trigger", c>>,
         k = first + 1 => Head(todo) = <<"delay_on", c>>,
         k = first + 2 => Head(todo) = <<"delay_off", c>>,
         k = last => Head(todo) = <<"level", c>>,
         Head(todo)[2] = c => k \in {first, first + 1, first + 2, last}
  PROVE  Lit(c, first, last, k + 1)'
<1>1. UNCHANGED <<m_state, m_color, m_onMs, m_offMs>>
  BY OpTyped DEF Done, members
<1>2. Shown(c)' = Shown(c)
  BY <1>1 DEF Shown
<1>3. CASE k \notin {first, first + 1, first + 2, last}
  <2>1. led'[c] = led[c]
    BY <1>3, OpEffect DEF At
  <2>2. /\ k + 1 > first => k > first
        /\ k + 1 > first + 1 => k > first + 1
        /\ k + 1 > first + 2 => k > first + 2
        /\ k + 1 > last => k > last
        /\ k + 1 <= last => k <= last
    BY <1>3
  <2> QED BY <1>1, <1>2, <2>1, <2>2 DEF Lit
<1>4. CASE k = first
  <2>1. led'[c].timer
    BY <1>4, OpEffect DEF At
  <2> QED BY <1>4, <2>1 DEF Lit
<1>5. CASE k = first + 1
  <2>1. led'[c].timer = led[c].timer /\ led'[c].on = m_onMs
    BY <1>5, OpEffect DEF At
  <2>2. led[c].timer
    BY <1>5 DEF Lit
  <2>3. led'[c].timer
    BY <2>1, <2>2
  <2> QED BY <1>1, <1>5, <2>1, <2>3 DEF Lit
<1>6. CASE k = first + 2
  <2>1. led'[c].timer = led[c].timer /\ led'[c].on = led[c].on /\ led'[c].off = m_offMs
    BY <1>6, OpEffect DEF At
  <2>2. led[c].timer /\ led[c].on = m_onMs
    BY <1>6 DEF Lit
  <2>3. led'[c].timer
    BY <2>1, <2>2
  <2> QED BY <1>1, <1>6, <2>1, <2>2, <2>3 DEF Lit
<1>7. CASE k = last
  <2>1. /\ m_color[c] = 0 => led'[c] = Dark
        /\ m_color[c] # 0 => led'[c] = [led[c] EXCEPT !.level = m_color[c]]
    BY <1>7, OpEffect DEF At
  <2>2. k > first + 2
    BY <1>7
  <2>3. led[c].timer
    BY <1>7, <2>2 DEF Lit
  <2>4. led[c].on = m_onMs /\ led[c].off = m_offMs
    BY <1>7, <2>2 DEF Lit
  <2>5. led[c] \in Looks
    BY DEF TypeOK, Looks
  <2>6. led[c].timer = TRUE
    BY <2>3, <2>5 DEF Looks
  <2>7. led'[c] = Shown(c)
    <3>1. CASE m_color[c] = 0
      BY <2>1, <3>1 DEF Shown
    <3>2. CASE m_color[c] # 0
      <4>1. [led[c] EXCEPT !.level = m_color[c]]
              = [timer |-> TRUE, on |-> m_onMs, off |-> m_offMs, level |-> m_color[c]]
        <5> DEFINE look == led[c]  v == m_color[c]
        <5>1. /\ v \in Nat /\ look \in Looks /\ look.timer = TRUE
              /\ look.on = m_onMs /\ look.off = m_offMs
          BY <2>4, <2>5, <2>6 DEF TypeOK
        <5> HIDE DEF look, v
        <5>2. [look EXCEPT !.level = v]
                = [timer |-> TRUE, on |-> m_onMs, off |-> m_offMs, level |-> v]
          BY <5>1, LevelSet
        <5> QED BY <5>2 DEF look, v
      <4> QED BY <2>1, <3>2, <4>1 DEF Shown
    <3> QED BY <3>1, <3>2
  <2> QED BY <1>2, <1>7, <2>7 DEF Lit
<1>8. k \notin {first, first + 1, first + 2, last}
      \/ k = first \/ k = first + 1 \/ k = first + 2 \/ k = last
  OBVIOUS
<1> QED BY <1>3, <1>4, <1>5, <1>6, <1>7, <1>8, Zenon

\* A write of configure(On) leaves its channel as far as the program has got.
LEMMA OnStep ==
  ASSUME TypeOK, Operation, m_state = "On", OnInv
  PROVE  OnInv'
<1> PICK k \in 1 .. 13 : Suffix(todo, OnProgram, k) /\ AllLit(k)
  BY DEF OnInv
<1>1. todo \in Seq(Ops) /\ todo # <<>> /\ todo' = Tail(todo)
  BY OpTyped DEF TypeOK, Ops, Done
<1>2. /\ k \in 1 .. 12 /\ Head(todo) = OnProgram[k]
      /\ Suffix(todo', OnProgram, k + 1)
  BY <1>1, OnProgramIs, SuffixStep
<1>3. /\ Head(todo)[1] # "light"
      /\ k = 1 => Head(todo) = <<"trigger", "red">>
      /\ k = 1 + 1 => Head(todo) = <<"delay_on", "red">>
      /\ k = 1 + 2 => Head(todo) = <<"delay_off", "red">>
      /\ k = 4 => Head(todo) = <<"trigger", "green">>
      /\ k = 4 + 1 => Head(todo) = <<"delay_on", "green">>
      /\ k = 4 + 2 => Head(todo) = <<"delay_off", "green">>
      /\ k = 7 => Head(todo) = <<"trigger", "blue">>
      /\ k = 7 + 1 => Head(todo) = <<"delay_on", "blue">>
      /\ k = 7 + 2 => Head(todo) = <<"delay_off", "blue">>
      /\ k = 10 => Head(todo) = <<"level", "red">>
      /\ k = 11 => Head(todo) = <<"level", "green">>
      /\ k = 12 => Head(todo) = <<"level", "blue">>
  BY <1>2, OnProgramIs
<1>4. /\ Head(todo)[2] = "red" => k \in {1, 1 + 1, 1 + 2, 10}
      /\ Head(todo)[2] = "green" => k \in {4, 4 + 1, 4 + 2, 11}
      /\ Head(todo)[2] = "blue" => k \in {7, 7 + 1, 7 + 2, 12}
  BY <1>2, <1>3
<1>5. Lit("red", 1, 10, k + 1)'
  <2>1. "red" \in Channel /\ 1 \in 1 .. 7 /\ 10 \in 10 .. 12 /\ Lit("red", 1, 10, k)
    BY DEF AllLit, Channel
  <2>2. k = 1 => Head(todo) = <<"trigger", "red">>
    BY <1>3
  <2> QED BY <1>2, <1>3, <1>4, <2>1, <2>2, LitStep
<1>6. Lit("green", 4, 11, k + 1)'
  <2>1. "green" \in Channel /\ 4 \in 1 .. 7 /\ 11 \in 10 .. 12 /\ Lit("green", 4, 11, k)
    BY DEF AllLit, Channel
  <2> QED BY <1>2, <1>3, <1>4, <2>1, LitStep
<1>7. Lit("blue", 7, 12, k + 1)'
  <2>1. "blue" \in Channel /\ 7 \in 1 .. 7 /\ 12 \in 10 .. 12 /\ Lit("blue", 7, 12, k)
    BY DEF AllLit, Channel
  <2> QED BY <1>2, <1>3, <1>4, <2>1, LitStep
<1>8. AllLit(k + 1)' /\ k + 1 \in 1 .. 13
  BY <1>2, <1>5, <1>6, <1>7 DEF AllLit
<1>9. Suffix(todo, OnProgram, k + 1)'
  BY <1>2 DEF Suffix, OnProgram, SetDelay, OnEach
<1> QED BY <1>8, <1>9 DEF OnInv

\* One zero of a program, whose zeroes are the operations first to first + 2.
LEMMA ZeroStep ==
  ASSUME TypeOK, Operation, NEW first \in {1, 4}, NEW k \in 1 .. first + 2,
         Zeroed(first, k), Head(todo)[1] # "light",
         k = first => Head(todo) = <<"zero", "red">>,
         k = first + 1 => Head(todo) = <<"zero", "green">>,
         k = first + 2 => Head(todo) = <<"zero", "blue">>
  PROVE  Zeroed(first, k + 1)'
<1>1. \A d \in Channel : d # Head(todo)[2] => led'[d] = led[d]
  BY OpEffect DEF At
<1>2. Head(todo)[1] = "zero" => led'[Head(todo)[2]] = Dark
  BY OpEffect DEF At
<1>3. "red" \in Channel /\ "green" \in Channel /\ "blue" \in Channel
  BY DEF Channel
<1>4. CASE k < first
  BY <1>4 DEF Zeroed
<1>5. CASE k = first
  BY <1>2, <1>5 DEF Zeroed
<1>6. CASE k = first + 1
  BY <1>1, <1>2, <1>3, <1>6 DEF Zeroed
<1>7. CASE k = first + 2
  BY <1>1, <1>2, <1>3, <1>7 DEF Zeroed
<1> QED BY <1>4, <1>5, <1>6, <1>7

\* The three writes of configure(Off), in order.
LEMMA OffProgramIs ==
  /\ OffProgram \in Seq(Ops) /\ Len(OffProgram) = 3
  /\ OffProgram[1] = <<"zero", "red">> /\ OffProgram[2] = <<"zero", "green">>
  /\ OffProgram[3] = <<"zero", "blue">>
BY EachIs DEF OffProgram

\* A write of configure(Off) leaves one more channel dark.
LEMMA OffStep ==
  ASSUME TypeOK, Operation, OffInv
  PROVE  OffInv'
<1> PICK k \in 1 .. 4 : Suffix(todo, OffProgram, k) /\ Zeroed(1, k)
  BY DEF OffInv
<1>1. todo \in Seq(Ops) /\ todo # <<>> /\ todo' = Tail(todo)
  BY OpTyped DEF TypeOK, Ops, Done
<1>2. /\ k \in 1 .. 3 /\ Head(todo) = OffProgram[k]
      /\ Suffix(todo', OffProgram, k + 1)
  BY <1>1, OffProgramIs, SuffixStep
<1>3. /\ Head(todo)[1] # "light"
      /\ k = 1 => Head(todo) = <<"zero", "red">>
      /\ k = 1 + 1 => Head(todo) = <<"zero", "green">>
      /\ k = 1 + 2 => Head(todo) = <<"zero", "blue">>
  BY <1>2, OffProgramIs
<1>4. Zeroed(1, k + 1)' /\ k + 1 \in 1 .. 4
  BY <1>2, <1>3, ZeroStep
<1>5. Suffix(todo, OffProgram, k + 1)'
  BY <1>2 DEF Suffix, OffProgram, OnEach
<1> QED BY <1>4, <1>5 DEF OffInv

\* The constructor's configure() either goes on or leaves the light dark.
LEMMA StartStep ==
  ASSUME TypeOK, Operation, StartInv
  PROVE  IF todo' = <<>> THEN OffInv' ELSE StartInv'
<1> PICK k \in 1 .. 7 : Suffix(todo, StartProgram, k) /\ Zeroed(4, k)
  BY DEF StartInv
<1>1. todo \in Seq(Ops) /\ todo # <<>> /\ todo' = Tail(todo)
  BY OpTyped DEF TypeOK, Ops, Done
<1>2. /\ k \in 1 .. 6 /\ Head(todo) = StartProgram[k]
      /\ Suffix(todo', StartProgram, k + 1)
  BY <1>1, StartProgramIs, SuffixStep
<1>8. todo' = <<>> <=> k = 6
  <2>1. StartProgram \in Seq(Ops) /\ Len(StartProgram) = 6
    BY StartProgramIs
  <2>2. Tail(todo) = <<>> <=> k = Len(StartProgram)
    BY <1>1, <2>1, SuffixStep
  <2> QED BY <1>1, <2>1, <2>2
<1>3. /\ Head(todo)[1] # "light"
      /\ k = 4 => Head(todo) = <<"zero", "red">>
      /\ k = 4 + 1 => Head(todo) = <<"zero", "green">>
      /\ k = 4 + 2 => Head(todo) = <<"zero", "blue">>
  BY <1>2, StartProgramIs
<1>4. Zeroed(4, k + 1)' /\ k + 1 \in 1 .. 7
  BY <1>2, <1>3, ZeroStep
<1>5. Suffix(todo, StartProgram, k + 1)'
  BY <1>2 DEF Suffix, StartProgram, OnEach
<1>6. CASE todo' = <<>>
  <2>1. Zeroed(1, 4)'
    BY <1>4, <1>6, <1>8 DEF Zeroed
  <2>2. Len(todo') = 0
    BY <1>6, EmptySeq
  <2>3. Suffix(todo', OffProgram, 4)
    BY <2>2, OffProgramIs DEF Suffix
  <2>4. Suffix(todo, OffProgram, 4)'
    BY <2>3 DEF Suffix, OffProgram, OnEach
  <2> QED BY <1>6, <2>1, <2>4 DEF OffInv
<1>7. CASE todo' # <<>>
  BY <1>4, <1>5, <1>7 DEF StartInv
<1> QED BY <1>6, <1>7

\* sysfs writes attributes and nothing else.
LEMMA SysfsHead ==
  ASSUME IInv, backend = "sysfs", todo # <<>>
  PROVE  Head(todo)[1] \notin {"light", "print"}
<1>1. /\ todo \in Seq(Ops) /\ m_state \in {"On", "Off"} /\ SysfsInv
  BY DEF IInv, TypeOK, Ops
<1>2. CASE up /\ m_state = "On"
  <2>1. PICK k \in 1 .. 13 : Suffix(todo, OnProgram, k)
    BY <1>1, <1>2 DEF SysfsInv, OnInv
  <2>2. k \in 1 .. 12 /\ Head(todo) = OnProgram[k]
    BY <1>1, <2>1, OnProgramIs, SuffixStep
  <2> QED BY <2>2, OnProgramIs
<1>3. CASE up /\ m_state = "Off"
  <2>1. PICK k \in 1 .. 4 : Suffix(todo, OffProgram, k)
    BY <1>1, <1>3 DEF SysfsInv, OffInv
  <2>2. k \in 1 .. 3 /\ Head(todo) = OffProgram[k]
    BY <1>1, <2>1, OffProgramIs, SuffixStep
  <2> QED BY <2>2, OffProgramIs
<1>4. CASE ~up
  <2>1. PICK k \in 1 .. 7 : Suffix(todo, StartProgram, k)
    BY <1>1, <1>4 DEF SysfsInv, StartInv
  <2>2. k \in 1 .. 6 /\ Head(todo) = StartProgram[k]
    BY <1>1, <2>1, StartProgramIs, SuffixStep
  <2> QED BY <2>2, StartProgramIs
<1> QED BY <1>1, <1>2, <1>3, <1>4

\* Every operation of every back end keeps the invariant.
LEMMA OperationInv ==
  ASSUME IInv, Operation
  PROVE  IInv'
<1>1. TypeOK /\ TypeOK'
  BY OperationTyped DEF IInv
<1>2. /\ UNCHANGED <<m_state, m_color, m_onMs, m_offMs, backend>>
      /\ todo # <<>> /\ todo' = Tail(todo)
      /\ up' <=> (up \/ todo' = <<>>)
  BY <1>1, OpTyped DEF Done, members
<1>3. m_state \in {"On", "Off"}
  BY <1>1 DEF TypeOK
<1>4. ASSUME backend = "sysfs" PROVE SysfsInv'
  <2>1. SysfsInv
    BY <1>4 DEF IInv
  <2>5. ~lost'
    BY <1>1, <1>2, <1>4, <2>1, SysfsHead, OpEffect DEF SysfsInv
  <2>2. CASE up /\ m_state = "On"
    <3>1. OnInv'
      BY <1>1, <2>1, <2>2, OnStep DEF SysfsInv
    <3> QED BY <1>2, <2>2, <2>5, <3>1 DEF SysfsInv
  <2>3. CASE up /\ m_state = "Off"
    <3>1. OffInv'
      BY <1>1, <2>1, <2>3, OffStep DEF SysfsInv
    <3> QED BY <1>2, <2>3, <2>5, <3>1 DEF SysfsInv
  <2>4. CASE ~up
    <3>1. StartInv /\ m_state = "Off"
      BY <1>2, <2>1, <2>4 DEF SysfsInv, IInv
    <3>2. IF todo' = <<>> THEN OffInv' ELSE StartInv'
      BY <1>1, <3>1, StartStep
    <3> QED BY <1>2, <2>4, <2>5, <3>1, <3>2 DEF SysfsInv
  <2> QED BY <1>3, <2>2, <2>3, <2>4
<1>5. ASSUME backend \in {"binder", "hybris"} PROVE HalInv'
  <2>1. HalInv
    BY <1>5 DEF IInv
  <2>2. /\ Head(todo) = todo[1] /\ Len(todo') = Len(todo) - 1 /\ Len(todo') \in Nat
        /\ \A i \in 1 .. Len(todo') : todo'[i] = todo[i + 1] /\ i + 1 \in 1 .. Len(todo)
    BY <1>1, <1>2, OpTyped
  <2>3. Head(todo)[1] = "light"
    BY <2>1, <2>2 DEF HalInv
  <2>4. \A i \in 1 .. Len(todo') : todo'[i] = <<"light", "red">>
    BY <2>1, <2>2 DEF HalInv
  <2>5. \/ ~lost' /\ led' = [c \in Channel |-> Shown(c)]
        \/ lost'
    BY <1>1, <2>3, OpEffect
  <2>6. \A c \in Channel : Shown(c)' = Shown(c)
    BY <1>2 DEF Shown
  <2> QED BY <2>4, <2>5, <2>6 DEF HalInv
<1>6. ASSUME backend = "dummy" PROVE DummyInv'
  <2>1. DummyInv
    BY <1>6 DEF IInv
  <2>2. /\ Head(todo) = todo[1] /\ Len(todo') = Len(todo) - 1 /\ Len(todo') \in Nat
        /\ \A i \in 1 .. Len(todo') : todo'[i] = todo[i + 1] /\ i + 1 \in 1 .. Len(todo)
    BY <1>1, <1>2, OpTyped
  <2>3. Head(todo)[1] = "print"
    BY <2>1, <2>2 DEF DummyInv
  <2>4. led' = led
    BY <1>1, <2>3, OpEffect
  <2>5. \A i \in 1 .. Len(todo') : todo'[i] = <<"print", "red">>
    BY <2>1, <2>2 DEF DummyInv
  <2>6. \A c \in Channel : led'[c] = Dark
    BY <2>1, <2>4 DEF DummyInv
  <2> QED BY <2>5, <2>6 DEF DummyInv, Dark
<1>7. m_onMs' # 0 /\ m_offMs' # 0
  BY <1>2 DEF IInv
<1>8. ~up' => m_state' = "Off"
  BY <1>2 DEF IInv
<1> QED BY <1>1, <1>2, <1>8, <1>4, <1>5, <1>6, <1>7 DEF IInv

-------------------------------------------------------------------------------
(* The slots. *)

\* What a slot leaves of the members is what one client may set.
MembersTyped ==
  /\ m_state \in {"On", "Off"} /\ m_color \in [Channel -> Nat]
  /\ m_onMs \in Int \ {0} /\ m_offMs \in Int \ {0}

\* A slot that stores a value of the type keeps the types.
LEMMA SlotTyped ==
  ASSUME TypeOK, MembersTyped', todo' \in Seq(Ops), UNCHANGED <<up, led, backend, lost>>
  PROVE  TypeOK'
<1>1. m_onMs' \in Int /\ m_offMs' \in Int
  BY DEF MembersTyped
<1> QED BY <1>1, Zenon DEF TypeOK, MembersTyped, Ops

\* A slot that configures leaves the whole of the program to be made.
LEMMA Reconfigure ==
  ASSUME IInv, Ready, MembersTyped', UNCHANGED <<up, led, backend, lost>>,
         todo' = Configure(m_state')
  PROVE  IInv'
<1>1. TypeOK /\ backend \in Backends
  BY DEF IInv, TypeOK
<1>2. m_state' \in {"On", "Off"} /\ m_onMs' # 0 /\ m_offMs' # 0
  BY DEF MembersTyped
<1>3. todo' \in Seq(Ops) /\ todo' # <<>>
  BY <1>1, <1>2, ConfigureTyped
<1>4. TypeOK'
  BY <1>1, <1>3, SlotTyped
<1>5. up /\ up'
  BY DEF Ready
<1>6. ASSUME backend' = "sysfs" PROVE SysfsInv'
  <2>3. ~lost'
    BY <1>6 DEF IInv, SysfsInv
  <2>1. CASE m_state' = "On"
    <3>1. Suffix(todo', OnProgram, 1)
      BY <1>6, <2>1, Programs, OnProgramIs, SuffixWhole
    <3>2. Suffix(todo, OnProgram, 1)'
      BY <3>1 DEF Suffix, OnProgram, SetDelay, OnEach
    <3>3. AllLit(1)'
      BY DEF AllLit, Lit
    <3>4. OnInv'
      BY <3>2, <3>3 DEF OnInv
    <3> QED BY <1>5, <2>1, <2>3, <3>4 DEF SysfsInv
  <2>2. CASE m_state' = "Off"
    <3>1. Suffix(todo', OffProgram, 1)
      BY <1>6, <2>2, Programs, OffProgramIs, SuffixWhole
    <3>2. Suffix(todo, OffProgram, 1)'
      BY <3>1 DEF Suffix, OffProgram, OnEach
    <3>3. Zeroed(1, 1)'
      BY DEF Zeroed
    <3>4. OffInv'
      BY <3>2, <3>3 DEF OffInv
    <3> QED BY <1>5, <2>2, <2>3, <3>4 DEF SysfsInv
  <2> QED BY <1>2, <2>1, <2>2
<1>7. ASSUME backend' \in {"binder", "hybris"} PROVE HalInv'
  <2>1. todo' = Message
    BY <1>2, <1>7, Programs
  <2>2. \A i \in 1 .. Len(todo') : todo'[i] = <<"light", "red">>
    BY <2>1 DEF Message
  <2> QED BY <1>3, <2>2 DEF HalInv
<1>8. ASSUME backend' = "dummy" PROVE DummyInv'
  <2>1. todo' = << <<"print", "red">> >>
    BY <1>2, <1>8, Programs
  <2>2. \A i \in 1 .. Len(todo') : todo'[i] = <<"print", "red">>
    BY <2>1
  <2> QED BY <1>8, <2>2 DEF IInv, DummyInv, Dark
<1> QED BY <1>2, <1>4, <1>5, <1>6, <1>7, <1>8 DEF IInv

\* A slot that only stores finds the light dark, and dark is what it asks for.
LEMMA StoreOnly ==
  ASSUME IInv, Ready, MembersTyped', UNCHANGED <<up, led, backend, lost>>,
         m_state = "Off", m_state' = "Off", todo' = <<>>
  PROVE  IInv'
<1>1. TypeOK /\ todo' \in Seq(Ops) /\ todo = <<>> /\ up /\ up' /\ Len(todo') = 0
  BY EmptySeq DEF IInv, Ready
<1>2. TypeOK'
  BY <1>1, SlotTyped
<1>3. ASSUME backend' = "sysfs" PROVE SysfsInv'
  <2>1. OffInv /\ ~lost'
    BY <1>1, <1>3 DEF IInv, SysfsInv
  <2>2. PICK k \in 1 .. 4 : Suffix(todo, OffProgram, k) /\ Zeroed(1, k)
    BY <2>1 DEF OffInv
  <2>3. Suffix(todo, OffProgram, k)' /\ Zeroed(1, k)'
    BY <1>1, <2>2 DEF Suffix, OffProgram, OnEach, Zeroed, Dark
  <2>4. OffInv'
    BY <2>3 DEF OffInv
  <2> QED BY <1>1, <2>1, <2>4 DEF SysfsInv
<1>4. ASSUME backend' \in {"binder", "hybris"} PROVE HalInv'
  <2>1. \A c \in Channel : Shown(c)' = Shown(c)
    BY DEF Shown, Dark
  <2> QED BY <1>1, <1>4, <2>1 DEF IInv, HalInv
<1>5. ASSUME backend' = "dummy" PROVE DummyInv'
  BY <1>1, <1>5 DEF IInv, DummyInv, Dark
<1>6. m_onMs' # 0 /\ m_offMs' # 0
  BY DEF MembersTyped
<1> QED BY <1>1, <1>2, <1>3, <1>4, <1>5, <1>6 DEF IInv

\* A slot with any argument a caller may pass, whether clients are known to pass
\* it or not.
AnySlot ==
  \/ \E s \in {"On", "Off"} : SetState(s)
  \/ \E color \in [Channel -> Nat] : SetColor(color)
  \/ \E ms \in Int \ {0} : SetOnMs(ms) \/ SetOffMs(ms)

\* Every slot keeps the invariant: it is served when nothing is left to do, and
\* starts its program at the first operation or none at all.
LEMMA AnySlotInv ==
  ASSUME IInv, AnySlot
  PROVE  IInv'
<1>1. Ready /\ UNCHANGED <<up, led, backend, lost>>
  BY DEF AnySlot, SetState, SetColor, SetOnMs, SetOffMs
<1>2. MembersTyped
  BY DEF IInv, TypeOK, MembersTyped
<1>3. CASE \E s \in {"On", "Off"} : SetState(s)
  <2>1. MembersTyped' /\ todo' = Configure(m_state')
    BY <1>2, <1>3 DEF SetState, MembersTyped
  <2> QED BY <1>1, <2>1, Reconfigure
<1>4. CASE \/ \E color \in [Channel -> Nat] : SetColor(color)
           \/ \E ms \in Int \ {0} : SetOnMs(ms) \/ SetOffMs(ms)
  <2>1. m_state' = m_state /\ ConfigureIfOn
    BY <1>4 DEF SetColor, SetOnMs, SetOffMs
  <2>2. MembersTyped'
    BY <1>2, <1>4 DEF SetColor, SetOnMs, SetOffMs, MembersTyped
  <2>3. CASE m_state = "On"
    <3>1. todo' = Configure(m_state')
      BY <2>1, <2>3 DEF ConfigureIfOn
    <3> QED BY <1>1, <2>2, <3>1, Reconfigure
  <2>4. CASE m_state = "Off"
    <3>1. todo' = <<>>
      BY <2>1, <2>4 DEF ConfigureIfOn
    <3> QED BY <1>1, <2>1, <2>2, <2>4, <3>1, StoreOnly
  <2> QED BY <1>2, <2>3, <2>4 DEF MembersTyped
<1> QED BY <1>3, <1>4 DEF AnySlot

\* The slots that Leds enumerates are slots.
LEMMA SlotIsAny == Slot => AnySlot
BY ColorAssumption, DelayAssumption DEF Slot, AnySlot

-------------------------------------------------------------------------------
(* The process. *)

\* The end of the process keeps the invariant: its members are the defaults.
LEMMA GoneInv ==
  ASSUME IInv, Gone
  PROVE  IInv'
<1>1. todo' \in Seq(Ops) /\ Len(todo') = 0 /\ ~up' /\ todo' = <<>>
  BY EmptySeq DEF Gone
<1>2. /\ m_state' = "Off" /\ m_onMs' \in Int /\ m_offMs' \in Int
      /\ m_onMs' # 0 /\ m_offMs' # 0
  BY DEF Gone
<1>3. m_color' \in [Channel -> Nat]
  BY ColorAssumption DEF Gone
<1>4. up' \in BOOLEAN
  BY DEF Gone
<1>5. TypeOK'
  <2>1. led' = led /\ backend' = backend /\ lost' = lost
    BY DEF Gone
  <2>2. m_state' \in {"On", "Off"}
    BY <1>2
  <2> QED BY <1>1, <1>2, <1>3, <1>4, <2>1, <2>2, Zenon DEF IInv, TypeOK, Ops
<1>6. backend' = "sysfs" => SysfsInv'
  BY <1>1 DEF Gone, IInv, SysfsInv
<1>8. HalInv'
  BY <1>1 DEF HalInv
<1>7. backend' = "dummy" => DummyInv'
  BY <1>1 DEF Gone, IInv, DummyInv, Dark
<1> QED BY <1>2, <1>5, <1>6, <1>7, <1>8 DEF IInv

\* A start keeps the invariant: the constructor stands before its first operation.
LEMMA StartPreserves ==
  ASSUME IInv, Start
  PROVE  IInv'
<1>1. /\ ~up /\ todo' = Construct /\ backend \in Backends
      /\ UNCHANGED <<m_state, m_color, m_onMs, m_offMs, led, backend, lost>>
      /\ m_state = "Off"
  BY DEF Start, IInv, TypeOK, members
<1>2. todo' \in Seq(Ops)
  BY <1>1, ConfigureTyped
<1>3. up' <=> todo' = <<>>
  BY DEF Start
<1>4. up' \in BOOLEAN
  BY DEF Start
<1>5. TypeOK'
  BY <1>1, <1>2, <1>4, Zenon DEF IInv, TypeOK, Ops
<1>6. backend # "dummy" => ~up' /\ todo' # <<>>
  BY <1>1, <1>3, ConfigureTyped
<1>7. ASSUME backend' = "sysfs" PROVE SysfsInv'
  <2>1. Suffix(todo', StartProgram, 1)
    BY <1>1, <1>7, Programs, StartProgramIs, SuffixWhole
  <2>2. Suffix(todo, StartProgram, 1)'
    BY <2>1 DEF Suffix, StartProgram, OnEach
  <2>3. Zeroed(4, 1)'
    BY DEF Zeroed
  <2>4. StartInv'
    BY <2>2, <2>3 DEF StartInv
  <2>5. ~lost'
    BY <1>1, <1>7 DEF IInv, SysfsInv
  <2> QED BY <1>1, <1>6, <1>7, <2>4, <2>5 DEF SysfsInv
<1>8. ASSUME backend' \in {"binder", "hybris"} PROVE HalInv'
  <2>1. \A i \in 1 .. Len(todo') : todo'[i] = <<"light", "red">>
    <3>1. CASE backend = "binder"
      BY <1>1, <3>1, Programs DEF Message
    <3>2. CASE backend = "hybris"
      <4>1. todo' = << <<"light", "red">>, <<"light", "red">> >>
        BY <1>1, <3>2, Programs DEF Message
      <4> QED BY <4>1
    <3> QED BY <1>1, <1>8, <3>1, <3>2
  <2>2. ~up'
    BY <1>1, <1>6, <1>8
  <2> QED BY <2>1, <2>2 DEF HalInv
<1>9. ASSUME backend' = "dummy" PROVE DummyInv'
  <2>1. Len(todo') = 0
    BY <1>1, <1>9, Programs, EmptySeq
  <2> QED BY <1>1, <1>9, <2>1 DEF IInv, DummyInv, Dark
<1> QED BY <1>1, <1>5, <1>7, <1>8, <1>9 DEF IInv

\* Every step of the service, whatever its callers pass.
AnyNext == AnySlot \/ Operation \/ Refused \/ Die \/ Start

\* The steps of Leds are steps of the service.
LEMMA NextIsAny == [Next]_vars => [AnyNext]_vars
BY SlotIsAny DEF Next, AnyNext

\* The invariant is inductive, whatever the callers pass.
LEMMA AnyNextInv == IInv /\ [AnyNext]_vars => IInv'
<1> SUFFICES ASSUME IInv, [AnyNext]_vars PROVE IInv'
  OBVIOUS
<1>1. CASE AnySlot
  BY <1>1, AnySlotInv
<1>2. CASE Operation
  BY <1>2, OperationInv
<1>3. CASE Refused \/ Die
  BY <1>3, GoneInv DEF Refused, Die
<1>4. CASE Start
  BY <1>4, StartPreserves
<1>5. CASE UNCHANGED vars
  <2>1. UNCHANGED <<up, m_state, m_color, m_onMs, m_offMs, todo, led, backend, lost>>
    BY <1>5 DEF vars, members
  <2>2. TypeOK'
    BY <2>1 DEF IInv, TypeOK
  <2>3. SysfsInv => SysfsInv'
    <3>1. ASSUME NEW k PROVE AllLit(k) => AllLit(k)'
      BY <2>1 DEF AllLit, Lit, Shown, Dark
    <3>2. ASSUME NEW k, NEW f PROVE Zeroed(f, k) => Zeroed(f, k)'
      BY <2>1 DEF Zeroed, Dark
    <3>3. ASSUME NEW k
          PROVE  /\ Suffix(todo, OnProgram, k) => Suffix(todo, OnProgram, k)'
                 /\ Suffix(todo, OffProgram, k) => Suffix(todo, OffProgram, k)'
                 /\ Suffix(todo, StartProgram, k) => Suffix(todo, StartProgram, k)'
      BY <2>1 DEF Suffix, OnProgram, OffProgram, StartProgram, SetDelay, OnEach
    <3>4. OnInv => OnInv'
      BY <3>1, <3>3 DEF OnInv
    <3>5. /\ OffInv => OffInv'
          /\ StartInv => StartInv'
      BY <3>2, <3>3 DEF OffInv, StartInv
    <3> QED BY <2>1, <3>4, <3>5 DEF SysfsInv
  <2>4. HalInv => HalInv'
    BY <2>1 DEF HalInv, Shown, Dark
  <2>5. DummyInv => DummyInv'
    BY <2>1 DEF DummyInv, Dark
  <2> QED BY <2>1, <2>2, <2>3, <2>4, <2>5 DEF IInv
<1> QED BY <1>1, <1>2, <1>3, <1>4, <1>5 DEF AnyNext

\* The invariant is inductive.
LEMMA NextInv == IInv /\ [Next]_vars => IInv'
BY NextIsAny, AnyNextInv

-------------------------------------------------------------------------------
(* The theorems. *)

\* The members, the device and the operations left have their types in every
\* reachable state.
THEOREM TypeCorrect == Spec => []TypeOK
<1>1. IInv => TypeOK
  BY DEF IInv
<1> QED BY <1>1, InitInv, NextInv, PTL DEF Spec

\* At the end of its program the light is as the members say.
LEMMA Synced == IInv => InSync
<1> SUFFICES ASSUME IInv, Ready, ~lost, backend # "dummy", NEW c \in Channel
             PROVE  led[c] = Shown(c)
  BY DEF InSync
<1>1. /\ up /\ todo = <<>> /\ Len(todo) = 0 /\ m_state \in {"On", "Off"}
      /\ backend \in {"sysfs", "binder", "hybris"}
  BY BackendsAssumption, EmptySeq DEF Ready, IInv, TypeOK
<1>2. CASE backend \in {"binder", "hybris"}
  BY <1>1, <1>2 DEF IInv, HalInv
<1>3. CASE backend = "sysfs" /\ m_state = "On"
  <2>1. PICK k \in 1 .. 13 : Suffix(todo, OnProgram, k) /\ AllLit(k)
    BY <1>1, <1>3 DEF IInv, SysfsInv, OnInv
  <2>2. k = 13
    BY <1>1, <2>1, OnProgramIs DEF Suffix
  <2> QED BY <2>1, <2>2 DEF AllLit, Lit, Channel
<1>4. CASE backend = "sysfs" /\ m_state = "Off"
  <2>1. PICK k \in 1 .. 4 : Suffix(todo, OffProgram, k) /\ Zeroed(1, k)
    BY <1>1, <1>4 DEF IInv, SysfsInv, OffInv
  <2>2. k = 4
    BY <1>1, <2>1, OffProgramIs DEF Suffix
  <2> QED BY <1>4, <2>1, <2>2 DEF Zeroed, Channel, Shown
<1> QED BY <1>1, <1>2, <1>3, <1>4

\* Between two calls the light shows the members, unless a message got lost.
THEOREM InSyncHolds == Spec => []InSync
BY Synced, InitInv, NextInv, PTL DEF Spec

\* Where a delay is to be written the trigger is there.
LEMMA RefusedIsBad ==
  ASSUME IInv, Refused
  PROVE  m_onMs < 0 \/ m_offMs < 0
<1>1. /\ todo # <<>> /\ Head(todo)[1] \in {"delay_on", "delay_off"} /\ ~Accepted
      /\ m_onMs \in Int \ {0} /\ m_offMs \in Int \ {0}
      /\ m_state \in {"On", "Off"} /\ todo \in Seq(Ops)
  BY DEF Refused, Next1, IInv, TypeOK, Ops
<1>2. Head(todo) = todo[1] /\ 1 \in 1 .. Len(todo)
  BY <1>1, EmptySeq
<1>3. backend = "sysfs"
  BY <1>1, <1>2, BackendsAssumption DEF IInv, TypeOK, HalInv, DummyInv
<1>4. CASE up /\ m_state = "On"
  <2>1. PICK k \in 1 .. 13 : Suffix(todo, OnProgram, k) /\ AllLit(k)
    BY <1>3, <1>4 DEF IInv, SysfsInv, OnInv
  <2>2. k \in 1 .. 12 /\ Head(todo) = OnProgram[k]
    BY <1>1, <2>1, OnProgramIs, SuffixStep
  <2>3. k \in {2, 3, 5, 6, 8, 9}
    BY <1>1, <2>2, OnProgramIs
  <2>4. led[At].timer
    <3>1. k \in {2, 3} => At = "red"
      BY <2>2, OnProgramIs DEF At
    <3>2. k \in {5, 6} => At = "green"
      BY <2>2, OnProgramIs DEF At
    <3>3. k \in {8, 9} => At = "blue"
      BY <2>2, OnProgramIs DEF At
    <3> QED BY <2>1, <2>3, <3>1, <3>2, <3>3 DEF AllLit, Lit
  <2> QED BY <1>1, <2>4 DEF Accepted, Next1
<1>5. CASE up /\ m_state = "Off"
  <2>1. PICK k \in 1 .. 4 : Suffix(todo, OffProgram, k)
    BY <1>3, <1>5 DEF IInv, SysfsInv, OffInv
  <2>2. k \in 1 .. 3 /\ Head(todo) = OffProgram[k]
    BY <1>1, <2>1, OffProgramIs, SuffixStep
  <2> QED BY <1>1, <2>2, OffProgramIs
<1>6. CASE ~up
  <2>1. PICK k \in 1 .. 7 : Suffix(todo, StartProgram, k)
    BY <1>1, <1>3, <1>6 DEF IInv, SysfsInv, StartInv
  <2>2. k \in 1 .. 6 /\ Head(todo) = StartProgram[k]
    BY <1>1, <2>1, StartProgramIs, SuffixStep
  <2> QED BY <1>1, <2>2, StartProgramIs
<1> QED BY <1>1, <1>4, <1>5, <1>6

\* The service never writes a delay that its own writes have made refused.
THEOREM OnlyBadDelaysKillHolds == Spec => OnlyBadDelaysKill
<1>1. IInv => (Refused => m_onMs < 0 \/ m_offMs < 0)
  BY RefusedIsBad
<1> QED BY <1>1, InitInv, NextInv, PTL DEF Spec, OnlyBadDelaysKill

\* What is next when the light is off and the service is up: a zero, a message
\* that says off, or a line on standard output.
LEMMA OffOperation ==
  ASSUME IInv, Operation, m_state = "Off", up
  PROVE  \A c \in Channel : led'[c].level <= led[c].level
<1>1. /\ TypeOK /\ todo \in Seq(Ops) /\ todo # <<>> /\ Head(todo) = todo[1]
      /\ led \in [Channel -> Looks]
  BY OpTyped DEF IInv, TypeOK, Looks, Ops
<1>2. 1 \in 1 .. Len(todo)
  BY <1>1, EmptySeq
<1>3. Dark.level = 0 /\ \A c \in Channel : led[c].level \in Nat
  BY <1>1 DEF Dark, Looks
<1>4. CASE backend = "sysfs"
  <2>1. PICK k \in 1 .. 4 : Suffix(todo, OffProgram, k)
    BY <1>4 DEF IInv, SysfsInv, OffInv
  <2>2. k \in 1 .. 3 /\ Head(todo) = OffProgram[k]
    BY <1>1, <2>1, OffProgramIs, SuffixStep
  <2>3. Head(todo)[1] = "zero"
    BY <2>2, OffProgramIs
  <2>4. /\ led'[At] = Dark
        /\ \A d \in Channel : d # At => led'[d] = led[d]
    BY <1>1, <2>3, OpEffect
  <2> QED BY <1>3, <2>4
<1>5. CASE backend \in {"binder", "hybris"}
  <2>1. Head(todo)[1] = "light"
    BY <1>1, <1>2, <1>5 DEF IInv, HalInv
  <2>2. led' = [c \in Channel |-> Shown(c)] \/ led' = led
    BY <1>1, <2>1, OpEffect
  <2>3. \A c \in Channel : Shown(c) = Dark
    BY DEF Shown
  <2> QED BY <1>3, <2>2, <2>3
<1>6. CASE backend = "dummy"
  <2>1. Head(todo)[1] = "print"
    BY <1>1, <1>2, <1>6 DEF IInv, DummyInv
  <2>2. led' = led
    BY <1>1, <2>1, OpEffect
  <2> QED BY <1>3, <2>2
<1> QED BY <1>1, <1>4, <1>5, <1>6, BackendsAssumption DEF TypeOK

\* Nothing but an operation touches the device.
LEMMA OnlyOperations ==
  ASSUME IInv, [AnyNext]_vars, ~Operation
  PROVE  led' = led
BY DEF AnyNext, AnySlot, SetState, SetColor, SetOnMs, SetOffMs, Refused, Die, Gone, Start,
       vars

\* No step makes a light that is off brighter.
LEMMA OffOnlyFades ==
  ASSUME IInv, [AnyNext]_vars, m_state = "Off", up
  PROVE  \A c \in Channel : led'[c].level <= led[c].level
<1>1. CASE Operation
  BY <1>1, OffOperation
<1>2. CASE ~Operation
  <2>1. \A c \in Channel : led[c].level \in Nat
    BY DEF IInv, TypeOK
  <2> QED BY <1>2, <2>1, OnlyOperations
<1> QED BY <1>1, <1>2

\* A light that is off stays dark while it is written to.
THEOREM NoFlashWhileOffHolds == Spec => NoFlashWhileOff
<1>1. IInv /\ [Next]_vars =>
        (m_state = "Off" /\ up /\ m_state' = "Off" =>
           \A c \in Channel : led'[c].level <= led[c].level)
  BY NextIsAny, OffOnlyFades
<1> QED BY <1>1, InitInv, NextInv, PTL DEF Spec, NoFlashWhileOff

-------------------------------------------------------------------------------
(* Leds implements the safety part of Light. *)

\* What Light calls the look of a channel is Shown.
LEMMA ContractTerms ==
  ASSUME TypeOK
  PROVE  /\ Contract!Channel = Channel
         /\ \A c \in Channel : Contract!Look(Asked, c) = Shown(c)
BY DEF TypeOK, Contract!Channel, Contract!Look, Asked, Shown

\* The initial states of Leds are those of Light.
LEMMA InitRefines == Init => Contract!Init
<1> SUFFICES ASSUME Init PROVE Contract!Init
  OBVIOUS
<1>1. TypeOK
  BY InitInv DEF IInv
<1>2. Contract!Channel = Channel
  BY <1>1, ContractTerms
<1> QED BY <1>2 DEF Init, Contract!Init, Asked

\* A slot is a client's wish, for one thing at a time.
LEMMA SlotRefines ==
  ASSUME IInv, AnySlot
  PROVE  Contract!Ask
<1>1. up /\ todo = <<>> /\ up' /\ UNCHANGED <<led, backend>> /\ backend \in Backends
  BY DEF AnySlot, SetState, SetColor, SetOnMs, SetOffMs, Ready, IInv, TypeOK
<1>2. \/ Asked' = [Asked EXCEPT !.state = Asked'.state]
      \/ Asked' = [Asked EXCEPT !.color = Asked'.color]
      \/ Asked' = [Asked EXCEPT !.on = Asked'.on]
      \/ Asked' = [Asked EXCEPT !.off = Asked'.off]
  BY DEF AnySlot, SetState, SetColor, SetOnMs, SetOffMs, Asked
<1>3. todo' # <<>> \/ (m_state = "Off" /\ m_state' = "Off" /\ todo' = <<>>)
  <2>1. Configure("On") # <<>> /\ Configure("Off") # <<>>
    BY <1>1, ConfigureTyped
  <2> QED BY <2>1 DEF AnySlot, SetState, SetColor, SetOnMs, SetOffMs, ConfigureIfOn,
                       IInv, TypeOK
<1> QED BY <1>1, <1>2, <1>3 DEF Contract!Ask, Asked

\* An operation moves the light, and the last one gets it there.
LEMMA OperationRefines ==
  ASSUME IInv, Operation
  PROVE  Contract!Move \/ Contract!Arrive
<1>1. /\ TypeOK /\ todo # <<>> /\ todo' = Tail(todo)
      /\ UNCHANGED <<m_state, m_color, m_onMs, m_offMs, backend>>
      /\ up' = (up \/ todo' = <<>>)
      /\ led' \in [Channel -> Looks]
  BY OpTyped, OpEffect DEF IInv, Done, members
<1>2. Asked' = Asked /\ UNCHANGED (backend = "sysfs")
  BY <1>1 DEF Asked
<1>3. /\ Contract!Channel = Channel
      /\ \A c \in Channel : Contract!Look(Asked, c) = Shown(c)
  BY <1>1, ContractTerms
<1>4. CASE todo' # <<>>
  <2>1. up /\ m_state = "Off" => \A c \in Channel : led'[c].level <= led[c].level
    BY OffOperation
  <2>2. Asked.state = m_state
    BY DEF Asked
  <2>3. Contract!Move
    BY <1>1, <1>2, <1>3, <1>4, <2>1, <2>2 DEF Contract!Move
  <2> QED BY <2>3
<1>5. CASE todo' = <<>>
  <2>1. up'
    BY <1>1, <1>5
  <2>2. \/ led' = [c \in Channel |-> Shown(c)]
        \/ backend # "sysfs" /\ led' = led
    <3>1. CASE backend = "sysfs"
      <4>1. IInv'
        BY OperationInv
      <4>2. InSync'
        BY <4>1, Synced, PTL
      <4>3. Ready' /\ backend' # "dummy"
        BY <1>1, <1>5, <2>1, <3>1 DEF Ready
      <4>4. ~lost'
        BY <1>1, <3>1, <4>1 DEF IInv, SysfsInv
      <4>5. \A c \in Channel : led'[c] = Shown(c)'
        BY <4>2, <4>3, <4>4 DEF InSync
      <4>6. \A c \in Channel : led'[c] = Shown(c)
        BY <1>1, <4>5 DEF Shown, Dark
      <4> QED BY <1>1, <4>6
    <3>2. CASE backend \in {"binder", "hybris"}
      <4>1. Head(todo) = todo[1] /\ 1 \in 1 .. Len(todo)
        BY <1>1, OpTyped, EmptySeq DEF TypeOK
      <4>2. Head(todo)[1] = "light"
        BY <3>2, <4>1 DEF IInv, HalInv
      <4> QED BY <1>1, <3>2, <4>2, OpEffect
    <3>3. CASE backend = "dummy"
      <4>1. Head(todo) = todo[1] /\ 1 \in 1 .. Len(todo)
        BY <1>1, OpTyped, EmptySeq DEF TypeOK
      <4>2. Head(todo)[1] = "print"
        BY <3>3, <4>1 DEF IInv, DummyInv
      <4> QED BY <1>1, <3>3, <4>2, OpEffect
    <3> QED BY <1>1, <3>1, <3>2, <3>3, BackendsAssumption DEF TypeOK
  <2>3. Contract!Arrive
    BY <1>1, <1>2, <1>3, <1>5, <2>1, <2>2 DEF Contract!Arrive
  <2> QED BY <2>3
<1> QED BY <1>4, <1>5

\* The end of the process is a crash of Light.
LEMMA GoneRefines ==
  ASSUME Gone
  PROVE  Contract!Crash
BY DEF Gone, Contract!Crash, Asked

\* A start of the process is one of Light.
LEMMA StartRefines ==
  ASSUME IInv, Start
  PROVE  Contract!Start
<1>1. /\ ~up /\ todo = <<>> /\ todo' = Construct /\ backend \in Backends
      /\ UNCHANGED <<m_state, m_color, m_onMs, m_offMs, led, backend>>
      /\ up' = (todo' = <<>>)
  BY DEF Start, IInv, TypeOK, members
<1>2. backend = "sysfs" => todo' # <<>>
  BY <1>1, ConfigureTyped
<1> QED BY <1>1, <1>2 DEF Contract!Start, Asked

\* Every step of the service is one of Light or none.
LEMMA StepRefines ==
  ASSUME IInv, [AnyNext]_vars
  PROVE  [Contract!Next]_(Contract!vars)
<1>1. CASE AnySlot
  BY <1>1, SlotRefines DEF Contract!Next
<1>2. CASE Operation
  BY <1>2, OperationRefines DEF Contract!Next
<1>3. CASE Refused \/ Die
  BY <1>3, GoneRefines DEF Refused, Die, Contract!Next
<1>4. CASE Start
  BY <1>4, StartRefines DEF Contract!Next
<1>5. CASE UNCHANGED vars
  BY <1>5 DEF vars, members, Contract!vars, Asked
<1> QED BY <1>1, <1>2, <1>3, <1>4, <1>5 DEF AnyNext

\* The slots, their operations, crashes and restarts come to no more than what
\* Light allows: on its way from one wish to the next the light looks like
\* anything but brighter than off, and where the device tells, it arrives.
THEOREM ImplementsLightSafety == Spec => Contract!Safety
<1>1. IInv /\ [Next]_vars => [Contract!Next]_(Contract!vars)
  BY NextIsAny, StepRefines
<1> QED BY <1>1, InitInv, NextInv, InitRefines, PTL DEF Spec, Contract!Safety
===============================================================================
