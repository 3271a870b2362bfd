----------------------------- MODULE QmlLedsProofs -----------------------------
(***************************************************************************)
(* Theorems about the light as applications see it, for any number of QML  *)
(* objects, any bound on their queues and any colors and delays.           *)
(*                                                                         *)
(* What a queue still does to the service is what its last messages say.   *)
(* QueueFits says that they say what the object's copy says, which sending *)
(* keeps because the last message sent is the last of the queue, and       *)
(* serving and dying because they take messages from the front.  LoneFits  *)
(* and OnHasReason say that where a queue is silent the service has what   *)
(* is needed already.  The service's own invariant comes from LedsProofs:  *)
(* an object's values need not be among those Leds enumerates, so what is  *)
(* used of it is stated for a slot with any argument (AnySlot, AnyNext).   *)
(***************************************************************************)
EXTENDS QmlLeds, SequenceTheorems, TLAPS

SP == INSTANCE LedsProofs

Channel == {"red", "green", "blue"}

\* What an object may hold, and the messages it may send.  An On message carries
\* the values it is meant for.
Copies == [state : {"On", "Off"}, color : [Channel -> Nat],
           on : Int \ {0}, off : Int \ {0}]

Msg == ({"color"} \X [Channel -> Nat]) \cup ({"on", "off"} \X (Int \ {0}))
       \cup ({"state"} \X {"On", "Off"}) \cup ({"state"} \X {"On"} \X Copies)

\* No message of q is about field.
Silent(q, field) == \A i \in 1 .. Len(q) : q[i][1] # field

\* The last message of q about field, if there is one, says value.
LastSays(q, field, value) ==
  \A i \in 1 .. Len(q) :
    q[i][1] = field /\ (\A j \in i + 1 .. Len(q) : q[j][1] # field) => q[i][2] = value

\* The types, with messages in the queues and no zero delays.
DataOK ==
  /\ copy \in [Client -> Copies]
  /\ queue \in [Client -> Seq(Msg)]
  /\ \A c \in Client : Len(queue[c]) <= MaxQueue
  /\ touched \in [Client -> BOOLEAN]
  /\ synced \in [Client -> BOOLEAN]

\* Whatever an object has still to say ends with its own copy.
QueueFits(c) ==
  /\ LastSays(queue[c], "state", copy[c].state)
  /\ LastSays(queue[c], "color", copy[c].color)
  /\ LastSays(queue[c], "on", copy[c].on)
  /\ LastSays(queue[c], "off", copy[c].off)
  /\ ~touched[c] => queue[c] = <<>>

\* A service that is On has an object that is On, or one with a word to say
\* about it.
OnHasReason ==
  m_state = "On" => \E c \in Client :
    copy[c].state = "On" \/ ~Silent(queue[c], "state")

\* What an object without competitors has nothing more to say about, the
\* service has as the object has.
LoneFits(c) ==
  synced[c] /\ (\A d \in Client \ {c} : ~touched[d]) =>
    /\ Silent(queue[c], "state") => m_state = copy[c].state
    /\ copy[c].state = "On" =>
         /\ Silent(queue[c], "color") => m_color = copy[c].color
         /\ Silent(queue[c], "on") => m_onMs = copy[c].on
         /\ Silent(queue[c], "off") => m_offMs = copy[c].off

\* The inductive invariant, over that of the service.
QInv ==
  /\ SP!IInv /\ DataOK
  /\ \A c \in Client : QueueFits(c)
  /\ OnHasReason
  /\ \A c \in Client : LoneFits(c)

-------------------------------------------------------------------------------
(* What sending and taking does to the last words of a queue. *)

\* What a message is about, and the type of its value.
LEMMA MsgIs ==
  ASSUME NEW m \in Msg
  PROVE  /\ m[1] \in {"color", "on", "off", "state"}
         /\ m[1] = "color" => m[2] \in [Channel -> Nat]
         /\ m[1] \in {"on", "off"} => m[2] \in Int \ {0}
         /\ m[1] = "state" => m[2] \in {"On", "Off"}
BY DEF Msg

\* Where the messages of a concatenation come from.
LEMMA ConcatIs ==
  ASSUME NEW q \in Seq(Msg), NEW ms \in Seq(Msg)
  PROVE  /\ q \o ms \in Seq(Msg) /\ Len(q \o ms) = Len(q) + Len(ms)
         /\ Len(q) \in Nat /\ Len(ms) \in Nat
         /\ \A i \in 1 .. Len(q) : (q \o ms)[i] = q[i]
         /\ \A i \in 1 .. Len(ms) : (q \o ms)[i + Len(q)] = ms[i]
<1> DEFINE m == Len(q)  n == Len(ms)
<1>0. m \in Nat /\ n \in Nat
  OBVIOUS
<1>1. /\ q \o ms \in Seq(Msg) /\ Len(q \o ms) = m + n
      /\ \A i \in 1 .. m + n : (q \o ms)[i] = IF i <= m THEN q[i] ELSE ms[i - m]
  BY ConcatProperties
<1> HIDE DEF m, n
<1>2. ASSUME NEW i \in 1 .. m PROVE (q \o ms)[i] = q[i]
  BY <1>0, <1>1
<1>3. ASSUME NEW i \in 1 .. n PROVE (q \o ms)[i + m] = ms[i]
  <2>1. i + m \in 1 .. m + n /\ ~(i + m <= m) /\ (i + m) - m = i
    BY <1>0
  <2> QED BY <1>1, <2>1
<1> QED BY <1>0, <1>1, <1>2, <1>3 DEF m, n

\* Either the new messages have the last word, or they are silent.
LEMMA LastConcat ==
  ASSUME NEW q \in Seq(Msg), NEW ms \in Seq(Msg), NEW field, NEW value,
         LastSays(ms, field, value), LastSays(q, field, value) \/ ~Silent(ms, field)
  PROVE  LastSays(q \o ms, field, value)
<1> DEFINE r == q \o ms  m == Len(q)  n == Len(ms)
<1>1. /\ Len(r) = m + n /\ m \in Nat /\ n \in Nat
      /\ \A i \in 1 .. m : r[i] = q[i]
      /\ \A i \in 1 .. n : r[i + m] = ms[i]
  BY ConcatIs
<1>2. /\ \A i \in 1 .. n :
           ms[i][1] = field /\ (\A j \in i + 1 .. n : ms[j][1] # field) => ms[i][2] = value
      /\ \/ \A i \in 1 .. m :
              q[i][1] = field /\ (\A j \in i + 1 .. m : q[j][1] # field) => q[i][2] = value
         \/ \E i \in 1 .. n : ms[i][1] = field
  BY DEF LastSays, Silent
<1> HIDE DEF r, m, n
<1> SUFFICES ASSUME NEW i \in 1 .. m + n, r[i][1] = field,
                    \A j \in i + 1 .. m + n : r[j][1] # field
             PROVE  r[i][2] = value
  BY <1>1 DEF LastSays, r
<1>3. CASE i > m
  <2>1. i - m \in 1 .. n /\ (i - m) + m = i
    BY <1>1, <1>3
  <2>2. r[i] = ms[i - m]
    BY <1>1, <2>1
  <2>3. ASSUME NEW j \in (i - m) + 1 .. n PROVE ms[j][1] # field
    <3>1. j \in 1 .. n /\ j + m \in i + 1 .. m + n
      BY <1>1, <2>1
    <3> QED BY <1>1, <3>1
  <2> QED BY <1>2, <2>1, <2>2, <2>3
<1>4. CASE i <= m
  <2>1. i \in 1 .. m /\ r[i] = q[i]
    BY <1>1, <1>4
  <2>2. ASSUME NEW j \in 1 .. n PROVE ms[j][1] # field
    <3>1. j + m \in i + 1 .. m + n
      BY <1>1, <2>1
    <3> QED BY <1>1, <3>1
  <2>3. ASSUME NEW j \in i + 1 .. m PROVE q[j][1] # field
    <3>1. j \in i + 1 .. m + n /\ j \in 1 .. m
      BY <1>1, <2>1
    <3> QED BY <1>1, <3>1
  <2> QED BY <1>2, <2>1, <2>2, <2>3
<1> QED BY <1>1, <1>3, <1>4

\* A queue is silent when both its parts are.
LEMMA SilentConcat ==
  ASSUME NEW q \in Seq(Msg), NEW ms \in Seq(Msg), NEW field
  PROVE  Silent(q \o ms, field) <=> Silent(q, field) /\ Silent(ms, field)
<1> DEFINE r == q \o ms  m == Len(q)  n == Len(ms)
<1>1. /\ Len(r) = m + n /\ m \in Nat /\ n \in Nat
      /\ \A i \in 1 .. m : r[i] = q[i]
      /\ \A i \in 1 .. n : r[i + m] = ms[i]
  BY ConcatIs
<1> HIDE DEF r, m, n
<1>2. ASSUME Silent(r, field) PROVE Silent(q, field) /\ Silent(ms, field)
  <2>1. ASSUME NEW i \in 1 .. m PROVE q[i][1] # field
    <3>1. i \in 1 .. m + n
      BY <1>1
    <3> QED BY <1>1, <1>2, <3>1 DEF Silent
  <2>2. ASSUME NEW i \in 1 .. n PROVE ms[i][1] # field
    <3>1. i + m \in 1 .. m + n
      BY <1>1
    <3> QED BY <1>1, <1>2, <3>1 DEF Silent
  <2> QED BY <2>1, <2>2 DEF Silent, m, n
<1>3. ASSUME Silent(q, field), Silent(ms, field) PROVE Silent(r, field)
  <2> SUFFICES ASSUME NEW i \in 1 .. m + n PROVE r[i][1] # field
    BY <1>1 DEF Silent
  <2>1. CASE i <= m
    <3>1. i \in 1 .. m
      BY <1>1, <2>1
    <3> QED BY <1>1, <1>3, <3>1 DEF Silent, m
  <2>2. CASE i > m
    <3>1. i - m \in 1 .. n /\ (i - m) + m = i
      BY <1>1, <2>2
    <3>2. r[i] = ms[i - m]
      BY <1>1, <3>1
    <3> QED BY <1>3, <3>1, <3>2 DEF Silent, n
  <2> QED BY <1>1, <2>1, <2>2
<1> QED BY <1>2, <1>3 DEF r

\* Taking messages from the front leaves the last words.
LEMMA SuffixIs ==
  ASSUME NEW q \in Seq(Msg), NEW n \in 0 .. Len(q)
  PROVE  /\ SubSeq(q, n + 1, Len(q)) \in Seq(Msg)
         /\ Len(SubSeq(q, n + 1, Len(q))) = Len(q) - n
         /\ \A i \in 1 .. Len(SubSeq(q, n + 1, Len(q))) :
              SubSeq(q, n + 1, Len(q))[i] = q[i + n]
<1> DEFINE l == Len(q)  r == SubSeq(q, n + 1, l)
<1>1. l \in Nat /\ n \in 0 .. l /\ n + 1 \in Int
  OBVIOUS
<1>2. \A i \in n + 1 .. l : q[i] \in Msg
  OBVIOUS
<1>3. /\ r \in Seq(Msg) /\ Len(r) = IF n + 1 <= l THEN l - (n + 1) + 1 ELSE 0
      /\ \A i \in 1 .. l - (n + 1) + 1 : r[i] = q[n + 1 + i - 1]
  BY <1>1, <1>2, SubSeqProperties
<1> HIDE DEF r, l
<1>4. Len(r) = l - n
  BY <1>1, <1>3
<1>5. ASSUME NEW i \in 1 .. Len(r) PROVE r[i] = q[i + n]
  <2>1. i \in 1 .. l - (n + 1) + 1 /\ n + 1 + i - 1 = i + n
    BY <1>1, <1>4
  <2> QED BY <1>3, <2>1
<1> QED BY <1>3, <1>4, <1>5 DEF r, l

\* Who had the last word has it still when messages are taken from the front.
LEMMA LastSuffix ==
  ASSUME NEW q \in Seq(Msg), NEW r \in Seq(Msg), NEW n \in 0 .. Len(q),
         Len(r) = Len(q) - n, \A i \in 1 .. Len(r) : r[i] = q[i + n],
         NEW field, NEW value, LastSays(q, field, value)
  PROVE  LastSays(r, field, value)
<1> DEFINE l == Len(q)  k == Len(r)
<1>1. l \in Nat /\ k \in Nat /\ k = l - n /\ n \in 0 .. l
  OBVIOUS
<1> HIDE DEF l, k
<1> SUFFICES ASSUME NEW i \in 1 .. k, r[i][1] = field,
                    \A j \in i + 1 .. k : r[j][1] # field
             PROVE  r[i][2] = value
  BY DEF LastSays, k
<1>2. i + n \in 1 .. l /\ r[i] = q[i + n]
  BY <1>1 DEF k
<1>3. ASSUME NEW j \in (i + n) + 1 .. l PROVE q[j][1] # field
  <2>1. j - n \in i + 1 .. k /\ j - n \in 1 .. k /\ (j - n) + n = j
    BY <1>1
  <2>2. r[j - n] = q[j]
    BY <2>1 DEF k
  <2> QED BY <2>1, <2>2
<1> QED BY <1>2, <1>3 DEF LastSays, l

\* The tail of a queue, as messages taken from the front.
LEMMA TailIs ==
  ASSUME NEW q \in Seq(Msg), q # <<>>
  PROVE  /\ Head(q) = q[1] /\ Head(q) \in Msg /\ Tail(q) \in Seq(Msg)
         /\ 1 \in 0 .. Len(q) /\ 1 \in 1 .. Len(q) /\ Len(Tail(q)) = Len(q) - 1
         /\ \A i \in 1 .. Len(Tail(q)) : Tail(q)[i] = q[i + 1]
<1>1. Len(q) \in Nat \ {0}
  BY EmptySeq
<1>2. 1 \in 0 .. Len(q) /\ 1 \in 1 .. Len(q) /\ Head(q) = q[1]
  BY <1>1
<1>3. /\ Head(q) \in Msg /\ Tail(q) \in Seq(Msg) /\ Len(Tail(q)) = Len(q) - 1
      /\ \A i \in 1 .. Len(Tail(q)) : Tail(q)[i] = q[i + 1]
  BY HeadTailProperties
<1> QED BY <1>2, <1>3

\* The first message has the last word when the rest are silent, and has
\* nothing to say about another field.
LEMMA HeadSays ==
  ASSUME NEW q \in Seq(Msg), q # <<>>, NEW field, NEW value,
         LastSays(q, field, value), Silent(Tail(q), field)
  PROVE  /\ Head(q)[1] = field => Head(q)[2] = value
         /\ Head(q)[1] # field => Silent(q, field)
<1> DEFINE l == Len(q)
<1>1. /\ Head(q) = q[1] /\ 1 \in 1 .. l /\ l \in Nat /\ Len(Tail(q)) = l - 1
      /\ \A i \in 1 .. Len(Tail(q)) : Tail(q)[i] = q[i + 1]
  BY TailIs
<1> HIDE DEF l
<1>2. ASSUME NEW j \in 1 + 1 .. l PROVE q[j][1] # field
  <2>1. j - 1 \in 1 .. Len(Tail(q)) /\ (j - 1) + 1 = j
    BY <1>1
  <2>2. Tail(q)[j - 1] = q[j]
    BY <1>1, <2>1
  <2> QED BY <2>1, <2>2 DEF Silent
<1>3. Head(q)[1] = field => Head(q)[2] = value
  BY <1>1, <1>2 DEF LastSays, l
<1>4. ASSUME Head(q)[1] # field, NEW i \in 1 .. l PROVE q[i][1] # field
  <2>1. i = 1 \/ i \in 1 + 1 .. l
    BY <1>1
  <2> QED BY <1>1, <1>2, <1>4, <2>1
<1> QED BY <1>3, <1>4 DEF Silent, l

\* The queues the objects send.
LEMMA OneIs ==
  ASSUME NEW m \in Msg
  PROVE  /\ <<m>> \in Seq(Msg) /\ Len(<<m>>) = 1
         /\ \A field : /\ Silent(<<m>>, field) <=> m[1] # field
                       /\ \A value : (m[1] = field => m[2] = value)
                                    => LastSays(<<m>>, field, value)
<1>1. <<m>> \in Seq(Msg) /\ Len(<<m>>) = 1 /\ <<m>>[1] = m
  OBVIOUS
<1> DEFINE s == <<m>>
<1>2. Len(s) = 1 /\ s[1] = m
  BY <1>1
<1> HIDE DEF s
<1>3. ASSUME NEW field PROVE Silent(s, field) <=> m[1] # field
  BY <1>2 DEF Silent
<1>4. ASSUME NEW field, NEW value, m[1] = field => m[2] = value
      PROVE  LastSays(s, field, value)
  BY <1>2, <1>4 DEF LastSays
<1> QED BY <1>1, <1>3, <1>4 DEF s

\* setState(On) sends all there is to say, the state last.
LEMMA AllFourAre ==
  ASSUME NEW own \in Copies
  PROVE  LET ms == << <<"color", own.color>>, <<"on", own.on>>, <<"off", own.off>>,
                      <<"state", "On", own>> >> IN
         /\ ms \in Seq(Msg) /\ Len(ms) = 4
         /\ ~Silent(ms, "state") /\ LastSays(ms, "state", "On")
         /\ ~Silent(ms, "color") /\ LastSays(ms, "color", own.color)
         /\ ~Silent(ms, "on") /\ LastSays(ms, "on", own.on)
         /\ ~Silent(ms, "off") /\ LastSays(ms, "off", own.off)
<1> DEFINE m1 == <<"color", own.color>>  m2 == <<"on", own.on>>  m3 == <<"off", own.off>>
           m4 == <<"state", "On", own>>
           ms == <<m1, m2, m3, m4>>
<1>1. m1 \in Msg /\ m2 \in Msg /\ m3 \in Msg /\ m4 \in Msg
  BY DEF Msg, Copies
<1>2. /\ m1[1] = "color" /\ m1[2] = own.color /\ m2[1] = "on" /\ m2[2] = own.on
      /\ m3[1] = "off" /\ m3[2] = own.off /\ m4[1] = "state" /\ m4[2] = "On"
  OBVIOUS
<1> HIDE DEF m1, m2, m3, m4
<1>3. /\ ms \in Seq(Msg) /\ Len(ms) = 4
      /\ ms[1] = m1 /\ ms[2] = m2 /\ ms[3] = m3 /\ ms[4] = m4
  BY <1>1
<1> HIDE DEF ms
<1>4. \A i \in 1 .. 4 : i = 1 \/ i = 2 \/ i = 3 \/ i = 4
  OBVIOUS
<1>5. ~Silent(ms, "state") /\ LastSays(ms, "state", "On")
  BY <1>2, <1>3, <1>4 DEF Silent, LastSays
<1>6. ~Silent(ms, "color") /\ LastSays(ms, "color", own.color)
  BY <1>2, <1>3, <1>4 DEF Silent, LastSays
<1>7. ~Silent(ms, "on") /\ LastSays(ms, "on", own.on)
  BY <1>2, <1>3, <1>4 DEF Silent, LastSays
<1>8. ~Silent(ms, "off") /\ LastSays(ms, "off", own.off)
  BY <1>2, <1>3, <1>4 DEF Silent, LastSays
<1> QED BY <1>3, <1>5, <1>6, <1>7, <1>8 DEF ms, m1, m2, m3, m4

-------------------------------------------------------------------------------
(* The service, as LedsProofs knows it. *)

\* The two instances of Leds mean the same: types and states.
LEMMA ServiceTerms ==
  /\ Service!TypeOK <=> SP!TypeOK
  /\ Service!Init <=> SP!Init
  /\ Service!InSync <=> SP!InSync
  /\ Service!Ready <=> SP!Ready
BY DEF Service!TypeOK, SP!TypeOK, Service!Channel, SP!Channel, Service!Init, SP!Init,
       Service!Dark, SP!Dark, Service!InSync, SP!InSync, Service!Ready, SP!Ready,
       Service!Shown, SP!Shown

\* The two instances of Leds mean the same: the slots.
LEMMA SlotTerms ==
  /\ \A v : Service!SetState(v) <=> SP!SetState(v)
  /\ \A v : Service!SetColor(v) <=> SP!SetColor(v)
  /\ \A v : Service!SetOnMs(v) <=> SP!SetOnMs(v)
  /\ \A v : Service!SetOffMs(v) <=> SP!SetOffMs(v)
BY DEF Service!SetState, SP!SetState, Service!SetColor, SP!SetColor,
       Service!SetOnMs, SP!SetOnMs, Service!SetOffMs, SP!SetOffMs,
       Service!Ready, SP!Ready, Service!ConfigureIfOn, SP!ConfigureIfOn,
       Service!Configure, SP!Configure, Service!SetDelay, SP!SetDelay,
       Service!OnEach, SP!OnEach, Service!Message, SP!Message

\* The two instances of Leds mean the same: the process.
LEMMA ProcessTerms ==
  /\ Service!Refused => SP!Refused
  /\ Service!Die => SP!Die
  /\ Service!Start => SP!Start
BY DEF Service!Refused, SP!Refused, Service!Die, SP!Die, Service!Start, SP!Start,
       Service!Gone, SP!Gone, Service!Next1, SP!Next1, Service!Accepted, SP!Accepted,
       Service!At, SP!At, Service!Construct, SP!Construct, Service!OnEach, SP!OnEach,
       Service!Message, SP!Message, Service!members, SP!members

\* The two instances of Leds mean the same: the device operations.
LEMMA OperationTerms == Service!Operation => SP!Operation
BY DEF Service!Operation, SP!Operation, Service!WriteTrigger, SP!WriteTrigger,
       Service!WriteDelay, SP!WriteDelay, Service!WriteBrightness, SP!WriteBrightness,
       Service!SendLight, SP!SendLight, Service!PrintOnly, SP!PrintOnly,
       Service!Next1, SP!Next1, Service!Accepted, SP!Accepted, Service!At, SP!At,
       Service!Done, SP!Done, Service!members, SP!members, Service!Dark, SP!Dark,
       Service!Full, SP!Full, Service!Shown, SP!Shown, Service!Channel, SP!Channel

\* The steps of the service that no message asks for keep its invariant.
LEMMA ServiceNext ==
  ASSUME SP!IInv,
         \/ Service!Operation \/ Service!Refused \/ Service!Die \/ Service!Start
         \/ UNCHANGED service
  PROVE  SP!IInv'
<1>1. [SP!Next]_(SP!vars)
  BY OperationTerms, ProcessTerms DEF SP!Next, SP!vars, SP!members, service
<1> QED BY <1>1, SP!NextInv, ServiceAssumption DEF SP!Channel

\* The invariant of the service holds initially.
LEMMA ServiceInit == Service!Init => SP!IInv
BY ServiceTerms, SP!InitInv, ServiceAssumption DEF SP!Channel

-------------------------------------------------------------------------------
(* The objects. *)

\* Nothing is sent, nothing is lit.
LEMMA InitQ == Init => QInv
<1> SUFFICES ASSUME Init PROVE QInv
  OBVIOUS
<1>1. SP!IInv
  BY ServiceInit DEF Init
<1>2. ASSUME NEW c \in Client
      PROVE  /\ copy[c] = [state |-> "Off", color |-> Blue, on |-> 1000, off |-> 3000]
             /\ queue[c] = <<>> /\ Len(queue[c]) = 0
  BY EmptySeq DEF Init
<1>3. DataOK
  <2>1. [state |-> "Off", color |-> Blue, on |-> 1000, off |-> 3000] \in Copies
    BY BlueAssumption DEF Copies, Channel
  <2>2. <<>> \in Seq(Msg)
    OBVIOUS
  <2> QED BY <1>2, <2>1, <2>2, MaxQueueAssumption DEF Init, DataOK
<1>4. m_state = "Off" /\ m_color = DefaultColor
  BY DEF Init, Service!Init
<1>5. ASSUME NEW c \in Client PROVE QueueFits(c) /\ LoneFits(c)
  <2>1. QueueFits(c)
    BY <1>2 DEF QueueFits, LastSays
  <2> QED BY <1>2, <1>4, <2>1 DEF LoneFits
<1> QED BY <1>1, <1>3, <1>4, <1>5 DEF QInv, OnHasReason

\* Sending keeps the invariant, when the messages have the last word on what the
\* copy changes, and on everything when the object begins to be synced.
LEMMA SendKeeps ==
  ASSUME QInv, NEW c \in Client, NEW ms \in Seq(Msg), NEW own \in Copies,
         Send(c, ms), copy' = [copy EXCEPT ![c] = own], UNCHANGED service,
         LastSays(ms, "state", own.state), LastSays(ms, "color", own.color),
         LastSays(ms, "on", own.on), LastSays(ms, "off", own.off),
         own.state = copy[c].state \/ ~Silent(ms, "state"),
         own.color = copy[c].color \/ ~Silent(ms, "color"),
         own.on = copy[c].on \/ ~Silent(ms, "on"),
         own.off = copy[c].off \/ ~Silent(ms, "off"),
         \/ synced' = synced /\ (own.state = "On" => copy[c].state = "On")
         \/ /\ synced' = [synced EXCEPT ![c] = TRUE]
            /\ ~Silent(ms, "state") /\ ~Silent(ms, "color")
            /\ ~Silent(ms, "on") /\ ~Silent(ms, "off")
  PROVE  QInv'
<1>1. SP!IInv'
  BY ServiceNext DEF QInv
<1>2. /\ copy \in [Client -> Copies] /\ queue \in [Client -> Seq(Msg)]
      /\ touched \in [Client -> BOOLEAN] /\ synced \in [Client -> BOOLEAN]
      /\ \A d \in Client : Len(queue[d]) <= MaxQueue
  BY DEF QInv, DataOK
<1>3. /\ copy' \in [Client -> Copies] /\ copy'[c] = own
      /\ queue'[c] = queue[c] \o ms /\ touched'[c] = TRUE
      /\ \A d \in Client \ {c} :
           copy'[d] = copy[d] /\ queue'[d] = queue[d] /\ touched'[d] = touched[d]
           /\ synced'[d] = synced[d]
  BY <1>2 DEF Send
<1>4. queue[c] \in Seq(Msg)
  BY <1>2
<1>5. queue[c] \o ms \in Seq(Msg) /\ Len(queue[c] \o ms) <= MaxQueue
  <2>1. /\ queue[c] \o ms \in Seq(Msg)
        /\ Len(queue[c] \o ms) = Len(queue[c]) + Len(ms)
    BY <1>4, ConcatIs
  <2> QED BY <2>1 DEF Send
<1>6. DataOK'
  <2>1. queue' \in [Client -> Seq(Msg)]
    BY <1>2, <1>5 DEF Send
  <2>2. \A d \in Client : Len(queue'[d]) <= MaxQueue
    BY <1>2, <1>3, <1>5
  <2>3. touched' \in [Client -> BOOLEAN] /\ synced' \in [Client -> BOOLEAN]
    BY <1>2 DEF Send
  <2> QED BY <1>3, <2>1, <2>2, <2>3 DEF DataOK
<1>7. /\ LastSays(queue[c], "state", copy[c].state)
      /\ LastSays(queue[c], "color", copy[c].color)
      /\ LastSays(queue[c], "on", copy[c].on)
      /\ LastSays(queue[c], "off", copy[c].off)
  BY DEF QInv, QueueFits
<1>8. ASSUME NEW d \in Client PROVE QueueFits(d)'
  <2>1. CASE d # c
    <3>1. QueueFits(d)
      BY DEF QInv
    <3> QED BY <1>3, <2>1, <3>1 DEF QueueFits
  <2>2. CASE d = c
    <3>1. LastSays(queue[c] \o ms, "state", own.state)
      BY <1>4, <1>7, LastConcat
    <3>2. LastSays(queue[c] \o ms, "color", own.color)
      BY <1>4, <1>7, LastConcat
    <3>3. LastSays(queue[c] \o ms, "on", own.on)
      BY <1>4, <1>7, LastConcat
    <3>4. LastSays(queue[c] \o ms, "off", own.off)
      BY <1>4, <1>7, LastConcat
    <3> QED BY <1>3, <2>2, <3>1, <3>2, <3>3, <3>4 DEF QueueFits
  <2> QED BY <2>1, <2>2
<1>9. \A field : Silent(queue'[c], field) <=> Silent(queue[c], field) /\ Silent(ms, field)
  BY <1>3, <1>4, SilentConcat
<1>10. UNCHANGED <<m_state, m_color, m_onMs, m_offMs>>
  BY DEF service
<1>11. OnHasReason'
  <2> SUFFICES ASSUME m_state' = "On"
               PROVE  \E d \in Client : copy'[d].state = "On" \/ ~Silent(queue'[d], "state")
    BY DEF OnHasReason
  <2>1. PICK d \in Client : copy[d].state = "On" \/ ~Silent(queue[d], "state")
    BY <1>10 DEF QInv, OnHasReason
  <2>2. CASE d # c
    BY <1>3, <2>1, <2>2
  <2>3. CASE d = c
    BY <1>3, <1>9, <2>1, <2>3
  <2> QED BY <2>2, <2>3
<1>12. ASSUME NEW d \in Client PROVE LoneFits(d)'
  <2>1. CASE d # c
    BY <1>3, <2>1 DEF LoneFits
  <2>2. CASE d = c
    <3> SUFFICES ASSUME synced'[c], \A e \in Client \ {c} : ~touched'[e]
                 PROVE  /\ Silent(queue'[c], "state") => m_state' = own.state
                        /\ own.state = "On" =>
                             /\ Silent(queue'[c], "color") => m_color' = own.color
                             /\ Silent(queue'[c], "on") => m_onMs' = own.on
                             /\ Silent(queue'[c], "off") => m_offMs' = own.off
      BY <1>3, <2>2 DEF LoneFits
    <3>1. CASE ~Silent(ms, "state") /\ ~Silent(ms, "color")
               /\ ~Silent(ms, "on") /\ ~Silent(ms, "off")
      BY <1>9, <3>1
    <3>2. CASE synced' = synced /\ (own.state = "On" => copy[c].state = "On")
      <4>1. LoneFits(c) /\ synced[c] /\ \A e \in Client \ {c} : ~touched[e]
        BY <1>3, <3>2 DEF QInv
      <4> QED BY <1>9, <1>10, <3>2, <4>1 DEF LoneFits
    <3> QED BY <3>1, <3>2
  <2> QED BY <2>1, <2>2
<1> QED BY <1>1, <1>6, <1>8, <1>11, <1>12 DEF QInv

\* Every setter of an object is such a sending.
LEMMA ClientKeeps ==
  ASSUME QInv, NEW c \in Client, ClientCall(c)
  PROVE  QInv'
<1>1. copy[c] \in Copies /\ copy \in [Client -> Copies]
  BY DEF QInv, DataOK
<1>2. CASE TurnOn(c)
  <2> DEFINE own == [copy[c] EXCEPT !.state = "On"]
             ms == << <<"color", copy[c].color>>, <<"on", copy[c].on>>,
                      <<"off", copy[c].off>>, <<"state", "On", copy[c]>> >>
  <2>1. /\ own \in Copies /\ own.state = "On" /\ own.color = copy[c].color
        /\ own.on = copy[c].on /\ own.off = copy[c].off
    BY <1>1 DEF Copies
  <2>2. Send(c, ms) /\ UNCHANGED service /\ synced' = [synced EXCEPT ![c] = TRUE]
    BY <1>2 DEF TurnOn
  <2>3. copy' = [copy EXCEPT ![c] = own]
    BY <1>1, <1>2 DEF TurnOn
  <2>4. /\ ms \in Seq(Msg)
        /\ ~Silent(ms, "state") /\ LastSays(ms, "state", "On")
        /\ ~Silent(ms, "color") /\ LastSays(ms, "color", copy[c].color)
        /\ ~Silent(ms, "on") /\ LastSays(ms, "on", copy[c].on)
        /\ ~Silent(ms, "off") /\ LastSays(ms, "off", copy[c].off)
    BY <1>1, AllFourAre
  <2> HIDE DEF ms, own
  <2> QED BY <2>1, <2>2, <2>3, <2>4, SendKeeps
<1>3. ASSUME NEW own \in Copies, NEW m \in Msg, Send(c, <<m>>),
             copy' = [copy EXCEPT ![c] = own], UNCHANGED <<service, synced>>,
             own.state = "On" => copy[c].state = "On",
             IF m[1] = "state" THEN m[2] = own.state ELSE own.state = copy[c].state,
             IF m[1] = "color" THEN m[2] = own.color ELSE own.color = copy[c].color,
             IF m[1] = "on" THEN m[2] = own.on ELSE own.on = copy[c].on,
             IF m[1] = "off" THEN m[2] = own.off ELSE own.off = copy[c].off
      PROVE  QInv'
  <2> DEFINE ms == <<m>>
  <2>1. /\ ms \in Seq(Msg)
        /\ \A field : /\ Silent(ms, field) <=> m[1] # field
                      /\ \A value : (m[1] = field => m[2] = value)
                                   => LastSays(ms, field, value)
    BY OneIs
  <2>2. Send(c, ms) /\ UNCHANGED service /\ synced' = synced
    BY <1>3
  <2> HIDE DEF ms
  <2> QED BY <1>3, <2>1, <2>2, SendKeeps
<1>4. CASE TurnOff(c)
  <2> DEFINE own == [copy[c] EXCEPT !.state = "Off"]  m == <<"state", "Off">>
  <2>1. /\ own \in Copies /\ own.state = "Off" /\ own.color = copy[c].color
        /\ own.on = copy[c].on /\ own.off = copy[c].off
        /\ m \in Msg /\ m[1] = "state" /\ m[2] = "Off"
    BY <1>1 DEF Copies, Msg
  <2>2. Send(c, <<m>>) /\ UNCHANGED <<service, synced>> /\ copy' = [copy EXCEPT ![c] = own]
    BY <1>1, <1>4 DEF TurnOff
  <2> HIDE DEF m, own
  <2> QED BY <2>1, <2>2, <1>3
<1>5. ASSUME NEW color \in Color, SetColor(c, color) PROVE QInv'
  <2> DEFINE own == [copy[c] EXCEPT !.color = color]  m == <<"color", color>>
  <2>1. /\ own \in Copies /\ own.state = copy[c].state /\ own.color = color
        /\ own.on = copy[c].on /\ own.off = copy[c].off
        /\ m \in Msg /\ m[1] = "color" /\ m[2] = color
    BY <1>1, ServiceAssumption DEF Copies, Msg, Channel
  <2>2. Send(c, <<m>>) /\ UNCHANGED <<service, synced>> /\ copy' = [copy EXCEPT ![c] = own]
    BY <1>1, <1>5 DEF SetColor
  <2> HIDE DEF m, own
  <2> QED BY <2>1, <2>2, <1>3
<1>6. ASSUME NEW ms \in OnMs, SetOnMillisec(c, ms) PROVE QInv'
  <2> DEFINE own == [copy[c] EXCEPT !.on = ms]  m == <<"on", ms>>
  <2>1. /\ own \in Copies /\ own.state = copy[c].state /\ own.color = copy[c].color
        /\ own.on = ms /\ own.off = copy[c].off
        /\ m \in Msg /\ m[1] = "on" /\ m[2] = ms
    BY <1>1, ServiceAssumption DEF Copies, Msg
  <2>2. Send(c, <<m>>) /\ UNCHANGED <<service, synced>> /\ copy' = [copy EXCEPT ![c] = own]
    BY <1>1, <1>6 DEF SetOnMillisec
  <2> HIDE DEF m, own
  <2> QED BY <2>1, <2>2, <1>3
<1>7. ASSUME NEW ms \in OffMs, SetOffMillisec(c, ms) PROVE QInv'
  <2> DEFINE own == [copy[c] EXCEPT !.off = ms]  m == <<"off", ms>>
  <2>1. /\ own \in Copies /\ own.state = copy[c].state /\ own.color = copy[c].color
        /\ own.on = copy[c].on /\ own.off = ms
        /\ m \in Msg /\ m[1] = "off" /\ m[2] = ms
    BY <1>1, ServiceAssumption DEF Copies, Msg
  <2>2. Send(c, <<m>>) /\ UNCHANGED <<service, synced>> /\ copy' = [copy EXCEPT ![c] = own]
    BY <1>1, <1>7 DEF SetOffMillisec
  <2> HIDE DEF m, own
  <2> QED BY <2>1, <2>2, <1>3
<1> QED BY <1>2, <1>4, <1>5, <1>6, <1>7 DEF ClientCall

-------------------------------------------------------------------------------
(* The service's steps. *)

\* A message is served by the slot it is for, or says what the service knows.
LEMMA ServeIsSlot ==
  ASSUME QInv, NEW c \in Client, Serve(c)
  PROVE  SP!AnySlot \/ UNCHANGED service
<1> DEFINE m == Head(queue[c])
<1>1. m \in Msg
  <2>1. queue[c] # <<>> /\ queue[c] \in Seq(Msg)
    BY DEF Serve, Same, About, QInv, DataOK
  <2> QED BY <2>1, TailIs
<1> HIDE DEF m
<1>2. \/ m[1] = "state" /\ SP!SetState(m[2])
      \/ m[1] = "color" /\ SP!SetColor(m[2])
      \/ m[1] = "on" /\ SP!SetOnMs(m[2])
      \/ m[1] = "off" /\ SP!SetOffMs(m[2])
      \/ UNCHANGED service
  BY SlotTerms DEF Serve, Same, About, Message, m
<1> QED BY <1>1, <1>2, MsgIs DEF SP!AnySlot, SP!Channel, Channel

\* A slot served leaves the member it is about as the message says.
LEMMA ServeEffect ==
  ASSUME QInv, NEW c \in Client, Serve(c)
  PROVE  /\ queue[c] # <<>> /\ queue[c] \in Seq(Msg)
         /\ SP!IInv'
         /\ queue' = [queue EXCEPT ![c] = Tail(@)] /\ UNCHANGED <<copy, touched, synced>>
         /\ m_state' = IF Head(queue[c])[1] = "state" THEN Head(queue[c])[2] ELSE m_state
         /\ m_color' = IF Head(queue[c])[1] = "color" THEN Head(queue[c])[2] ELSE m_color
         /\ m_onMs' = IF Head(queue[c])[1] = "on" THEN Head(queue[c])[2] ELSE m_onMs
         /\ m_offMs' = IF Head(queue[c])[1] = "off" THEN Head(queue[c])[2] ELSE m_offMs
<1> DEFINE m == Head(queue[c])
<1>1. queue[c] # <<>> /\ queue[c] \in Seq(Msg)
  BY DEF Serve, Same, About, QInv, DataOK
<1> HIDE DEF m
<1>2. \/ m[1] = "state" /\ Service!SetState(m[2])
      \/ m[1] = "color" /\ Service!SetColor(m[2])
      \/ m[1] = "on" /\ Service!SetOnMs(m[2])
      \/ m[1] = "off" /\ Service!SetOffMs(m[2])
      \/ /\ UNCHANGED service
         /\ \/ m[1] = "color" /\ m[2] = m_color
            \/ m[1] = "on" /\ m[2] = m_onMs
            \/ m[1] = "off" /\ m[2] = m_offMs
  BY DEF Serve, Same, About, Message, m
<1>3. SP!IInv'
  <2>1. CASE UNCHANGED service
    BY <2>1, ServiceNext DEF QInv
  <2>2. CASE SP!AnySlot
    BY <2>2, SP!AnySlotInv, ServiceAssumption DEF SP!Channel, QInv
  <2> QED BY <2>1, <2>2, ServeIsSlot
<1>4. /\ m_state' = IF m[1] = "state" THEN m[2] ELSE m_state
      /\ m_color' = IF m[1] = "color" THEN m[2] ELSE m_color
      /\ m_onMs' = IF m[1] = "on" THEN m[2] ELSE m_onMs
      /\ m_offMs' = IF m[1] = "off" THEN m[2] ELSE m_offMs
  BY <1>2 DEF Service!SetState, Service!SetColor, Service!SetOnMs, Service!SetOffMs, service
<1> QED BY <1>1, <1>3, <1>4 DEF Serve, m

\* A message served tells the service what the queue no longer says.
LEMMA ServeKeeps ==
  ASSUME QInv, NEW c \in Client, Serve(c)
  PROVE  QInv'
<1> DEFINE q == queue[c]  m == Head(q)  t == Tail(q)
<1>1. /\ q # <<>> /\ q \in Seq(Msg) /\ SP!IInv'
      /\ queue' = [queue EXCEPT ![c] = t] /\ UNCHANGED <<copy, touched, synced>>
      /\ m_state' = IF m[1] = "state" THEN m[2] ELSE m_state
      /\ m_color' = IF m[1] = "color" THEN m[2] ELSE m_color
      /\ m_onMs' = IF m[1] = "on" THEN m[2] ELSE m_onMs
      /\ m_offMs' = IF m[1] = "off" THEN m[2] ELSE m_offMs
  BY ServeEffect
<1>2. /\ t \in Seq(Msg) /\ 1 \in 0 .. Len(q) /\ Len(t) = Len(q) - 1
      /\ \A i \in 1 .. Len(t) : t[i] = q[i + 1]
  BY <1>1, TailIs
<1>3. DataOK /\ QueueFits(c) /\ touched[c]
  BY <1>1 DEF QInv, QueueFits, DataOK
<1>4. /\ LastSays(q, "state", copy[c].state) /\ LastSays(q, "color", copy[c].color)
      /\ LastSays(q, "on", copy[c].on) /\ LastSays(q, "off", copy[c].off)
  BY <1>3 DEF QueueFits
<1>5. ASSUME NEW field, NEW value, LastSays(q, field, value)
      PROVE  /\ LastSays(t, field, value)
             /\ Silent(t, field) => IF m[1] = field THEN m[2] = value ELSE Silent(q, field)
  <2>1. LastSays(t, field, value)
    BY <1>1, <1>2, <1>5, LastSuffix
  <2>2. ASSUME Silent(t, field)
        PROVE  IF m[1] = field THEN m[2] = value ELSE Silent(q, field)
    BY <1>1, <1>5, <2>2, HeadSays
  <2> QED BY <2>1, <2>2
<1> HIDE DEF m, t
<1>6. /\ queue'[c] = t
      /\ \A d \in Client \ {c} : queue'[d] = queue[d]
  BY <1>1, <1>3 DEF DataOK
<1>7. DataOK'
  <2>1. queue' \in [Client -> Seq(Msg)]
    BY <1>1, <1>2, <1>3 DEF DataOK
  <2>2. Len(t) <= MaxQueue
    <3>1. Len(q) \in Nat /\ Len(q) <= MaxQueue
      BY <1>1, <1>3, LenProperties DEF DataOK
    <3> HIDE DEF q
    <3> QED BY <1>2, <3>1, MaxQueueAssumption
  <2>3. \A d \in Client : Len(queue'[d]) <= MaxQueue
    BY <1>3, <1>6, <2>2 DEF DataOK
  <2> QED BY <1>1, <1>3, <2>1, <2>3 DEF DataOK
<1>8. ASSUME NEW d \in Client PROVE QueueFits(d)'
  <2>1. CASE d # c
    <3>1. QueueFits(d)
      BY DEF QInv
    <3> QED BY <1>1, <1>6, <2>1, <3>1 DEF QueueFits
  <2>2. CASE d = c
    <3>1. /\ LastSays(t, "state", copy[c].state) /\ LastSays(t, "color", copy[c].color)
          /\ LastSays(t, "on", copy[c].on) /\ LastSays(t, "off", copy[c].off)
      BY <1>4, <1>5
    <3> QED BY <1>1, <1>3, <1>6, <2>2, <3>1 DEF QueueFits
  <2> QED BY <2>1, <2>2
<1>9. OnHasReason'
  <2> SUFFICES ASSUME m_state' = "On"
               PROVE  \E d \in Client : copy[d].state = "On" \/ ~Silent(queue'[d], "state")
    BY <1>1 DEF OnHasReason
  <2>1. CASE m[1] = "state"
    <3>1. ~Silent(t, "state") \/ copy[c].state = "On"
      BY <1>1, <1>4, <1>5, <2>1
    <3> QED BY <1>6, <3>1
  <2>2. CASE m[1] # "state"
    <3>1. PICK d \in Client : copy[d].state = "On" \/ ~Silent(queue[d], "state")
      BY <1>1, <2>2 DEF QInv, OnHasReason
    <3>2. CASE d # c
      BY <1>6, <3>1, <3>2
    <3>3. CASE d = c
      <4>1. Silent(t, "state") => Silent(q, "state")
        BY <1>4, <1>5, <2>2
      <4> QED BY <1>6, <3>1, <3>3, <4>1
    <3> QED BY <3>2, <3>3
  <2> QED BY <2>1, <2>2
<1>10. ASSUME NEW d \in Client PROVE LoneFits(d)'
  <2>1. CASE d # c
    BY <1>1, <1>3, <2>1 DEF LoneFits
  <2>2. CASE d = c
    <3> SUFFICES ASSUME synced[c], \A e \in Client \ {c} : ~touched[e]
                 PROVE  /\ Silent(t, "state") => m_state' = copy[c].state
                        /\ copy[c].state = "On" =>
                             /\ Silent(t, "color") => m_color' = copy[c].color
                             /\ Silent(t, "on") => m_onMs' = copy[c].on
                             /\ Silent(t, "off") => m_offMs' = copy[c].off
      BY <1>1, <1>6, <2>2 DEF LoneFits
    <3>1. /\ Silent(q, "state") => m_state = copy[c].state
          /\ copy[c].state = "On" =>
               /\ Silent(q, "color") => m_color = copy[c].color
               /\ Silent(q, "on") => m_onMs = copy[c].on
               /\ Silent(q, "off") => m_offMs = copy[c].off
      BY DEF QInv, LoneFits
    <3>2. Silent(t, "state") => m_state' = copy[c].state
      BY <1>1, <1>4, <1>5, <3>1
    <3>3. copy[c].state = "On" /\ Silent(t, "color") => m_color' = copy[c].color
      BY <1>1, <1>4, <1>5, <3>1
    <3>4. copy[c].state = "On" /\ Silent(t, "on") => m_onMs' = copy[c].on
      BY <1>1, <1>4, <1>5, <3>1
    <3>5. copy[c].state = "On" /\ Silent(t, "off") => m_offMs' = copy[c].off
      BY <1>1, <1>4, <1>5, <3>1
    <3> QED BY <3>2, <3>3, <3>4, <3>5
  <2> QED BY <2>1, <2>2
<1> QED BY <1>1, <1>7, <1>8, <1>9, <1>10 DEF QInv

\* The process dies: each queue loses a prefix, and nobody is synced.
LEMMA DeathKeeps ==
  ASSUME QInv, Death
  PROVE  QInv'
<1>1. SP!IInv'
  BY ServiceNext DEF Death, QInv
<1>2. m_state' = "Off" /\ UNCHANGED <<copy, touched>> /\ synced' = [c \in Client |-> FALSE]
  BY DEF Death, Service!Refused, Service!Die, Service!Gone
<1>3. PICK taken \in [Client -> 0 .. MaxQueue] :
        /\ \A c \in Client : taken[c] <= Len(queue[c])
        /\ queue' = [c \in Client |-> SubSeq(queue[c], taken[c] + 1, Len(queue[c]))]
  BY DEF Death
<1>4. DataOK /\ \A c \in Client : QueueFits(c)
  BY DEF QInv
<1>5. ASSUME NEW c \in Client
      PROVE  /\ queue'[c] \in Seq(Msg) /\ Len(queue'[c]) <= MaxQueue
             /\ QueueFits(c)'
  <2> DEFINE q == queue[c]  n == taken[c]  r == SubSeq(q, n + 1, Len(q))
  <2>1. q \in Seq(Msg) /\ Len(q) \in Nat /\ Len(q) <= MaxQueue
    BY <1>4, LenProperties DEF DataOK
  <2>2. n \in 0 .. Len(q)
    <3>1. n \in 0 .. MaxQueue /\ n <= Len(q)
      BY <1>3
    <3> QED BY <2>1, <3>1, MaxQueueAssumption
  <2>3. queue'[c] = r
    BY <1>3
  <2> HIDE DEF n
  <2>4. /\ r \in Seq(Msg) /\ Len(r) = Len(q) - n
        /\ \A i \in 1 .. Len(r) : r[i] = q[i + n]
    BY <2>1, <2>2, SuffixIs
  <2> HIDE DEF q, r
  <2>5. Len(r) <= MaxQueue
    BY <2>1, <2>2, <2>4, MaxQueueAssumption
  <2>6. /\ LastSays(q, "state", copy[c].state) /\ LastSays(q, "color", copy[c].color)
        /\ LastSays(q, "on", copy[c].on) /\ LastSays(q, "off", copy[c].off)
        /\ ~touched[c] => q = <<>>
    BY <1>4 DEF QueueFits, q
  <2>7. /\ LastSays(r, "state", copy[c].state) /\ LastSays(r, "color", copy[c].color)
        /\ LastSays(r, "on", copy[c].on) /\ LastSays(r, "off", copy[c].off)
    BY <2>1, <2>2, <2>4, <2>6, LastSuffix
  <2>8. ~touched[c] => r = <<>>
    <3>1. q = <<>> => Len(q) = 0
      BY EmptySeq
    <3>2. Len(q) = 0 => Len(r) = 0
      <4>1. Len(q) = 0 => n = 0
        BY <2>2
      <4>2. Len(r) = Len(q) - n
        BY <2>4
      <4> QED BY <4>1, <4>2
    <3> QED BY <2>4, <2>6, <3>1, <3>2, EmptySeq
  <2> QED BY <1>2, <2>3, <2>4, <2>5, <2>7, <2>8 DEF QueueFits
<1>6. DataOK'
  <2>1. queue' \in [Client -> Seq(Msg)]
    BY <1>3, <1>5
  <2>2. synced' \in [Client -> BOOLEAN]
    BY <1>2
  <2> QED BY <1>2, <1>4, <1>5, <2>1, <2>2 DEF DataOK
<1>7. OnHasReason'
  BY <1>2 DEF OnHasReason
<1>8. \A c \in Client : LoneFits(c)'
  BY <1>2 DEF LoneFits
<1> QED BY <1>1, <1>5, <1>6, <1>7, <1>8 DEF QInv

\* The device, and a service that starts, concern nobody's messages.
LEMMA ElseKeeps ==
  ASSUME QInv, Operation \/ Activate \/ UNCHANGED vars
  PROVE  QInv'
<1>1. /\ UNCHANGED <<copy, queue, touched, synced>>
      /\ UNCHANGED <<m_state, m_color, m_onMs, m_offMs>>
  BY DEF Operation, Activate, clients, vars, service, Service!Operation,
         Service!WriteTrigger, Service!WriteDelay, Service!WriteBrightness,
         Service!SendLight, Service!PrintOnly, Service!Done, Service!Start,
         Service!members
<1>2. SP!IInv'
  BY ServiceNext DEF QInv, Operation, Activate, vars
<1>3. DataOK'
  BY <1>1 DEF QInv, DataOK
<1>4. ASSUME NEW c \in Client PROVE QueueFits(c)' /\ LoneFits(c)'
  BY <1>1 DEF QInv, QueueFits, LoneFits
<1>5. OnHasReason'
  BY <1>1 DEF QInv, OnHasReason
<1> QED BY <1>2, <1>3, <1>4, <1>5 DEF QInv

\* The invariant is inductive.
LEMMA NextQ == QInv /\ [Next]_vars => QInv'
BY ClientKeeps, ServeKeeps, DeathKeeps, ElseKeeps DEF Next

-------------------------------------------------------------------------------
(* The theorems. *)

\* The objects' copies, their bounded queues and the service below them have
\* their types in every reachable state.
THEOREM TypeCorrect == Spec => []TypeOK
<1>1. QInv => TypeOK
  <2> SUFFICES ASSUME QInv PROVE TypeOK
    OBVIOUS
  <2>1. Service!TypeOK
    BY ServiceTerms DEF QInv, SP!IInv
  <2>2. \A x \in Copies : x \in [state : {"On", "Off"},
                          color : [Service!Channel -> Nat], on : Int, off : Int]
    BY DEF Copies, Channel, Service!Channel
  <2>3. copy \in [Client -> [state : {"On", "Off"},
                          color : [Service!Channel -> Nat], on : Int, off : Int]]
    BY <2>2 DEF QInv, DataOK
  <2> QED BY <2>1, <2>3 DEF QInv, DataOK, TypeOK
<1> QED BY <1>1, InitQ, NextQ, PTL DEF Spec

\* An object that lets go of the light always says so, and a service that
\* forgot starts dark: when every object says Off and nothing is left to do,
\* no channel is lit, however many objects and restarts there were.
THEOREM AllOffMeansDarkHolds == Spec => []AllOffMeansDark
<1>1. QInv => AllOffMeansDark
  <2> SUFFICES ASSUME QInv, Quiet, \A c \in Client : copy[c].state = "Off", ~lost,
                      NEW ch \in Service!Channel
               PROVE  led[ch] = Service!Dark
    BY DEF AllOffMeansDark
  <2>1. \A c \in Client : Len(queue[c]) = 0
    BY EmptySeq DEF Quiet
  <2>2. m_state # "On"
    BY <2>1 DEF QInv, OnHasReason, Silent
  <2>3. m_state = "Off" /\ SP!Ready /\ SP!InSync
    <3>1. SP!InSync
      BY SP!Synced, ServiceAssumption DEF SP!Channel, QInv
    <3> QED BY <2>2, <3>1, ServiceTerms DEF QInv, SP!IInv, SP!TypeOK, Quiet
  <2>4. CASE backend # "dummy"
    BY <2>3, <2>4 DEF SP!InSync, SP!Shown, SP!Channel, Service!Channel,
                      SP!Dark, Service!Dark
  <2>5. CASE backend = "dummy"
    BY <2>5 DEF QInv, SP!IInv, SP!DummyInv, SP!Channel, Service!Channel,
                SP!Dark, Service!Dark
  <2> QED BY <2>4, <2>5
<1> QED BY <1>1, InitQ, NextQ, PTL DEF Spec

\* An object that nobody competes with, and that has sent the whole light since
\* the service last died, agrees with the service once all is served.
THEOREM LoneClientAgreesHolds == Spec => []LoneClientAgrees
<1>1. QInv => LoneClientAgrees
  <2> SUFFICES ASSUME QInv, Quiet, NEW c \in Client, synced[c],
                      \A d \in Client \ {c} : ~touched[d]
               PROVE  /\ m_state = copy[c].state
                      /\ copy[c].state = "On" =>
                           /\ m_color = copy[c].color
                           /\ m_onMs = copy[c].on /\ m_offMs = copy[c].off
    BY DEF LoneClientAgrees
  <2>1. Len(queue[c]) = 0
    BY EmptySeq DEF Quiet
  <2>2. \A field : Silent(queue[c], field)
    BY <2>1 DEF Silent
  <2> QED BY <2>2 DEF QInv, LoneFits
<1> QED BY <1>1, InitQ, NextQ, PTL DEF Spec

-------------------------------------------------------------------------------
(* What Leds.tla shows of clients that pass certain values, for the values that *)
(* QML objects pass.                                                            *)

\* Every step is one of the service, or leaves it alone.
LEMMA ServiceStep ==
  ASSUME QInv, [Next]_vars
  PROVE  [SP!AnyNext]_(SP!vars)
<1>1. UNCHANGED service => UNCHANGED SP!vars
  BY DEF service, SP!vars, SP!members
<1>2. CASE \E c \in Client : ClientCall(c)
  BY <1>1, <1>2 DEF ClientCall, TurnOn, TurnOff, SetColor, SetOnMillisec, SetOffMillisec
<1>3. CASE \E c \in Client : Serve(c)
  BY <1>1, <1>3, ServeIsSlot DEF SP!AnyNext
<1>4. CASE Operation \/ Death \/ Activate
  BY <1>4, OperationTerms, ProcessTerms DEF Operation, Death, Activate, SP!AnyNext
<1>5. CASE UNCHANGED vars
  BY <1>1, <1>5 DEF vars
<1> QED BY <1>2, <1>3, <1>4, <1>5 DEF Next

\* Whatever objects there are, the light shows what the service was told, the
\* service does not end by a delay it could have written, and a light that is
\* off stays dark.
THEOREM ServiceHolds ==
  Spec => []Service!InSync /\ Service!OnlyBadDelaysKill /\ Service!NoFlashWhileOff
<1>1. QInv => Service!InSync
  BY SP!Synced, ServiceTerms, ServiceAssumption DEF SP!Channel, QInv
<1>2. QInv => (Service!Refused => m_onMs < 0 \/ m_offMs < 0)
  BY SP!RefusedIsBad, ProcessTerms, ServiceAssumption DEF SP!Channel, QInv
<1>3. QInv /\ [Next]_vars =>
        (m_state = "Off" /\ up /\ m_state' = "Off" =>
           \A c \in Service!Channel : led'[c].level <= led[c].level)
  BY ServiceStep, SP!OffOnlyFades, ServiceAssumption DEF SP!Channel, Service!Channel, QInv
<1> QED BY <1>1, <1>2, <1>3, InitQ, NextQ, PTL
        DEF Spec, Service!OnlyBadDelaysKill, Service!NoFlashWhileOff

\* The whole, applications, bus and service, implements the safety part of Light.
THEOREM ImplementsLightSafety == Spec => SP!Contract!Safety
<1>1. QInv /\ [Next]_vars => [SP!Contract!Next]_(SP!Contract!vars)
  BY ServiceStep, SP!StepRefines, ServiceAssumption DEF SP!Channel, QInv
<1>2. Init => SP!Contract!Init
  BY SP!InitRefines, ServiceTerms, ServiceAssumption DEF SP!Channel, Init
<1> QED BY <1>1, <1>2, InitQ, NextQ, PTL DEF Spec, SP!Contract!Safety

-------------------------------------------------------------------------------
(* What there is to the comment that UpToDateWhenLit refutes: a lone object's    *)
(* values are there before its state as long as the service lives.              *)

\* The values an On message is meant for are right before it, or served.
OnsFit(q, color, on, off) ==
  \A i \in 1 .. Len(q) :
    q[i][1] = "state" /\ q[i][2] = "On" =>
      /\ IF i > 3 THEN q[i - 3] = <<"color", q[i][3].color>> ELSE color = q[i][3].color
      /\ IF i > 2 THEN q[i - 2] = <<"on", q[i][3].on>> ELSE on = q[i][3].on
      /\ IF i > 1 THEN q[i - 1] = <<"off", q[i][3].off>> ELSE off = q[i][3].off

\* A message served leaves its value in the member it is about.
LEMMA OnsFitServed ==
  ASSUME NEW q \in Seq(Msg), q # <<>>, NEW color, NEW on, NEW off,
         OnsFit(q, color, on, off)
  PROVE  OnsFit(Tail(q),
                IF Head(q)[1] = "color" THEN Head(q)[2] ELSE color,
                IF Head(q)[1] = "on" THEN Head(q)[2] ELSE on,
                IF Head(q)[1] = "off" THEN Head(q)[2] ELSE off)
<1> DEFINE t == Tail(q)  h == Head(q)  l == Len(q)
<1>1. /\ h = q[1] /\ l \in Nat /\ Len(t) = l - 1
      /\ \A i \in 1 .. Len(t) : t[i] = q[i + 1]
  BY TailIs
<1> HIDE DEF t, h, l
<1> SUFFICES ASSUME NEW i \in 1 .. l - 1, t[i][1] = "state", t[i][2] = "On"
             PROVE
      /\ IF i > 3 THEN t[i - 3] = <<"color", t[i][3].color>>
         ELSE (IF h[1] = "color" THEN h[2] ELSE color) = t[i][3].color
      /\ IF i > 2 THEN t[i - 2] = <<"on", t[i][3].on>>
         ELSE (IF h[1] = "on" THEN h[2] ELSE on) = t[i][3].on
      /\ IF i > 1 THEN t[i - 1] = <<"off", t[i][3].off>>
         ELSE (IF h[1] = "off" THEN h[2] ELSE off) = t[i][3].off
  BY <1>1 DEF OnsFit, t, h
<1> DEFINE k == i + 1  w == q[k][3]
<1>2. k \in 1 .. l /\ k > 1 /\ q[k] = t[i] /\ i \in Nat
  BY <1>1
<1>3. /\ IF k > 3 THEN q[k - 3] = <<"color", w.color>> ELSE color = w.color
      /\ IF k > 2 THEN q[k - 2] = <<"on", w.on>> ELSE on = w.on
      /\ q[k - 1] = <<"off", w.off>>
  BY <1>2 DEF OnsFit, l
<1>4. w = t[i][3]
  BY <1>2
<1> HIDE DEF w
<1>5. CASE i > 3
  <2>1. /\ i - 3 \in 1 .. l - 1 /\ i - 2 \in 1 .. l - 1 /\ i - 1 \in 1 .. l - 1
        /\ (i - 3) + 1 = k - 3 /\ (i - 2) + 1 = k - 2 /\ (i - 1) + 1 = k - 1
        /\ k > 3 /\ k > 2 /\ i > 2 /\ i > 1
    BY <1>1, <1>5
  <2> QED BY <1>1, <1>3, <1>4, <1>5, <2>1
<1>6. CASE i = 3
  <2>1. k = 4 /\ 1 \in 1 .. l - 1 /\ 2 \in 1 .. l - 1
    BY <1>1, <1>6
  <2>2. /\ h = <<"color", w.color>> /\ q[2] = <<"on", w.on>> /\ q[3] = <<"off", w.off>>
    BY <1>1, <1>3, <2>1
  <2>3. t[1] = q[2] /\ t[2] = q[3]
    BY <1>1, <2>1
  <2> QED BY <1>4, <1>6, <2>2, <2>3
<1>7. CASE i = 2
  <2>1. ~(k > 3) /\ k > 2 /\ k - 2 = 1 /\ k - 1 = 2 /\ 1 \in 1 .. l - 1
    BY <1>1, <1>7
  <2>2. color = w.color /\ q[1] = <<"on", w.on>> /\ q[2] = <<"off", w.off>>
    <3> HIDE DEF k
    <3> QED BY <1>3, <2>1
  <2>3. t[1] = q[2] /\ h = q[1]
    BY <1>1, <2>1
  <2> QED BY <1>4, <1>7, <2>2, <2>3
<1>8. CASE i = 1
  <2>1. color = w.color /\ on = w.on /\ h = <<"off", w.off>>
    BY <1>1, <1>3, <1>8
  <2> QED BY <1>4, <1>8, <2>1
<1> QED BY <1>2, <1>5, <1>6, <1>7, <1>8

\* Messages sent behind others change nothing for these.
LEMMA OnsFitSent ==
  ASSUME NEW q \in Seq(Msg), NEW ms \in Seq(Msg), NEW color, NEW on, NEW off,
         OnsFit(q, color, on, off),
         \A i \in 1 .. Len(ms) : ms[i][1] = "state" /\ ms[i][2] = "On" =>
           /\ i > 3 /\ ms[i - 3] = <<"color", ms[i][3].color>>
           /\ ms[i - 2] = <<"on", ms[i][3].on>> /\ ms[i - 1] = <<"off", ms[i][3].off>>
  PROVE  OnsFit(q \o ms, color, on, off)
<1> DEFINE r == q \o ms  m == Len(q)  n == Len(ms)
<1>1. /\ Len(r) = m + n /\ m \in Nat /\ n \in Nat
      /\ \A i \in 1 .. m : r[i] = q[i]
      /\ \A i \in 1 .. n : r[i + m] = ms[i]
  BY ConcatIs
<1> HIDE DEF r, m, n
<1> SUFFICES ASSUME NEW i \in 1 .. m + n, r[i][1] = "state", r[i][2] = "On"
             PROVE
      /\ IF i > 3 THEN r[i - 3] = <<"color", r[i][3].color>> ELSE color = r[i][3].color
      /\ IF i > 2 THEN r[i - 2] = <<"on", r[i][3].on>> ELSE on = r[i][3].on
      /\ IF i > 1 THEN r[i - 1] = <<"off", r[i][3].off>> ELSE off = r[i][3].off
  BY <1>1 DEF OnsFit, r
<1>2. CASE i <= m
  <2>1. /\ i \in 1 .. m /\ (i > 3 => i - 3 \in 1 .. m) /\ (i > 2 => i - 2 \in 1 .. m)
        /\ i > 1 => i - 1 \in 1 .. m
    BY <1>1, <1>2
  <2>2. r[i] = q[i]
    BY <1>1, <2>1
  <2>3. /\ IF i > 3 THEN q[i - 3] = <<"color", q[i][3].color>> ELSE color = q[i][3].color
        /\ IF i > 2 THEN q[i - 2] = <<"on", q[i][3].on>> ELSE on = q[i][3].on
        /\ IF i > 1 THEN q[i - 1] = <<"off", q[i][3].off>> ELSE off = q[i][3].off
    BY <2>1, <2>2 DEF OnsFit, m
  <2> QED BY <1>1, <2>1, <2>2, <2>3
<1>3. CASE i > m
  <2> DEFINE j == i - m
  <2>1. j \in 1 .. n /\ j + m = i
    BY <1>1, <1>3
  <2>2. r[i] = ms[j]
    BY <1>1, <2>1
  <2>3. /\ j > 3 /\ ms[j - 3] = <<"color", ms[j][3].color>>
        /\ ms[j - 2] = <<"on", ms[j][3].on>> /\ ms[j - 1] = <<"off", ms[j][3].off>>
    BY <2>1, <2>2 DEF n
  <2>4. /\ j - 3 \in 1 .. n /\ j - 2 \in 1 .. n /\ j - 1 \in 1 .. n
        /\ (j - 3) + m = i - 3 /\ (j - 2) + m = i - 2 /\ (j - 1) + m = i - 1
        /\ i > 3 /\ i > 2 /\ i > 1
    BY <1>1, <2>1, <2>3
  <2>5. r[i - 3] = ms[j - 3] /\ r[i - 2] = ms[j - 2] /\ r[i - 1] = ms[j - 1]
    BY <1>1, <2>4
  <2> QED BY <2>2, <2>3, <2>4, <2>5
<1> QED BY <1>1, <1>2, <1>3

\* No message but the last of setState(On)'s four says On.
LEMMA OnIsLastOfFour ==
  ASSUME QInv, NEW c \in Client, ClientCall(c)
  PROVE  \E ms \in Seq(Msg) :
           /\ queue' = [queue EXCEPT ![c] = @ \o ms]
           /\ \A i \in 1 .. Len(ms) : ms[i][1] = "state" /\ ms[i][2] = "On" =>
                /\ i > 3 /\ ms[i - 3] = <<"color", ms[i][3].color>>
                /\ ms[i - 2] = <<"on", ms[i][3].on>>
                /\ ms[i - 1] = <<"off", ms[i][3].off>>
<1>1. copy[c] \in Copies
  BY DEF QInv, DataOK
<1>2. CASE TurnOn(c)
  <2> DEFINE own == copy[c]
             ms == << <<"color", own.color>>, <<"on", own.on>>, <<"off", own.off>>,
                      <<"state", "On", own>> >>
  <2>1. ms \in Seq(Msg) /\ Len(ms) = 4
    BY <1>1, AllFourAre
  <2>2. queue' = [queue EXCEPT ![c] = @ \o ms]
    BY <1>2 DEF TurnOn, Send
  <2>3. /\ ms[1] = <<"color", own.color>> /\ ms[2] = <<"on", own.on>>
        /\ ms[3] = <<"off", own.off>> /\ ms[4][3] = own
        /\ ms[1][1] # "state" /\ ms[2][1] # "state" /\ ms[3][1] # "state"
    OBVIOUS
  <2> HIDE DEF ms, own
  <2>4. \A i \in 1 .. 4 : i = 1 \/ i = 2 \/ i = 3 \/ i = 4
    OBVIOUS
  <2>5. ASSUME NEW i \in 1 .. Len(ms), ms[i][1] = "state"
        PROVE  /\ i > 3 /\ ms[i - 3] = <<"color", ms[i][3].color>>
               /\ ms[i - 2] = <<"on", ms[i][3].on>>
               /\ ms[i - 1] = <<"off", ms[i][3].off>>
    <3>1. i = 4
      BY <2>1, <2>3, <2>4, <2>5
    <3>2. i - 3 = 1 /\ i - 2 = 2 /\ i - 1 = 3
      BY <3>1
    <3> QED BY <2>3, <3>1, <3>2
  <2> QED BY <2>1, <2>2, <2>5
<1>3. ASSUME NEW m \in Msg, Send(c, <<m>>), ~(m[1] = "state" /\ m[2] = "On")
      PROVE  \E ms \in Seq(Msg) :
               /\ queue' = [queue EXCEPT ![c] = @ \o ms]
               /\ \A i \in 1 .. Len(ms) : ~(ms[i][1] = "state" /\ ms[i][2] = "On")
  <2> DEFINE ms == <<m>>
  <2>1. ms \in Seq(Msg) /\ Len(ms) = 1 /\ ms[1] = m
    OBVIOUS
  <2>2. queue' = [queue EXCEPT ![c] = @ \o ms]
    BY <1>3 DEF Send
  <2> HIDE DEF ms
  <2>3. ASSUME NEW i \in 1 .. Len(ms) PROVE ~(ms[i][1] = "state" /\ ms[i][2] = "On")
    <3>1. ms[i] = m
      BY <2>1
    <3> QED BY <1>3, <3>1
  <2> QED BY <2>1, <2>2, <2>3
<1>4. CASE TurnOff(c)
  <2>1. <<"state", "Off">> \in Msg
    BY DEF Msg
  <2> QED BY <1>3, <1>4, <2>1 DEF TurnOff
<1>5. CASE \E color \in Color : SetColor(c, color)
  <2>1. \A color \in Color : <<"color", color>> \in Msg
    BY ServiceAssumption DEF Msg, Channel
  <2> QED BY <1>3, <1>5, <2>1 DEF SetColor
<1>6. CASE \E ms \in OnMs : SetOnMillisec(c, ms)
  <2>1. \A ms \in OnMs : <<"on", ms>> \in Msg
    BY ServiceAssumption DEF Msg
  <2> QED BY <1>3, <1>6, <2>1 DEF SetOnMillisec
<1>7. CASE \E ms \in OffMs : SetOffMillisec(c, ms)
  <2>1. \A ms \in OffMs : <<"off", ms>> \in Msg
    BY ServiceAssumption DEF Msg
  <2> QED BY <1>3, <1>7, <2>1 DEF SetOffMillisec
<1> QED BY <1>2, <1>4, <1>5, <1>6, <1>7 DEF ClientCall

\* "Make sure all values are up-to-date before setting state on" is true of an
\* object that is alone, while the service lives.
THEOREM UpToDateWithoutDeath ==
  ASSUME \A c, d \in Client : c = d
  PROVE  Init /\ [][Next /\ ~Death]_vars => UpToDateWhenLit
<1> DEFINE Fits == \A c \in Client : OnsFit(queue[c], m_color, m_onMs, m_offMs)
<1>1. Init => Fits
  <2> SUFFICES ASSUME Init, NEW c \in Client
               PROVE  OnsFit(queue[c], m_color, m_onMs, m_offMs)
    OBVIOUS
  <2>1. Len(queue[c]) = 0
    BY EmptySeq DEF Init
  <2> QED BY <2>1 DEF OnsFit
<1>2. ASSUME QInv, Fits, NEW c \in Client, ClientCall(c) PROVE Fits'
  <2>1. PICK ms \in Seq(Msg) :
           /\ queue' = [queue EXCEPT ![c] = @ \o ms]
           /\ \A i \in 1 .. Len(ms) : ms[i][1] = "state" /\ ms[i][2] = "On" =>
                /\ i > 3 /\ ms[i - 3] = <<"color", ms[i][3].color>>
                /\ ms[i - 2] = <<"on", ms[i][3].on>>
                /\ ms[i - 1] = <<"off", ms[i][3].off>>
    BY <1>2, OnIsLastOfFour
  <2>2. queue[c] \in Seq(Msg) /\ queue'[c] = queue[c] \o ms
    BY <1>2, <2>1 DEF QInv, DataOK
  <2>3. OnsFit(queue[c] \o ms, m_color, m_onMs, m_offMs)
    BY <1>2, <2>1, <2>2, OnsFitSent
  <2>4. UNCHANGED <<m_color, m_onMs, m_offMs>>
    BY <1>2 DEF ClientCall, TurnOn, TurnOff, SetColor, SetOnMillisec, SetOffMillisec,
                service
  <2>5. \A d \in Client : OnsFit(queue'[d], m_color', m_onMs', m_offMs')
    BY <2>2, <2>3, <2>4
  <2> QED BY <2>5
<1>3. ASSUME QInv, Fits, NEW c \in Client, Serve(c) PROVE Fits'
  <2>1. /\ queue[c] # <<>> /\ queue[c] \in Seq(Msg)
        /\ queue' = [queue EXCEPT ![c] = Tail(@)]
        /\ m_color' = IF Head(queue[c])[1] = "color" THEN Head(queue[c])[2] ELSE m_color
        /\ m_onMs' = IF Head(queue[c])[1] = "on" THEN Head(queue[c])[2] ELSE m_onMs
        /\ m_offMs' = IF Head(queue[c])[1] = "off" THEN Head(queue[c])[2] ELSE m_offMs
    BY <1>3, ServeEffect
  <2>2. OnsFit(queue[c], m_color, m_onMs, m_offMs)
    BY <1>3
  <2>3. OnsFit(Tail(queue[c]), m_color', m_onMs', m_offMs')
    BY <2>1, <2>2, OnsFitServed
  <2>4. queue'[c] = Tail(queue[c])
    BY <1>3, <2>1 DEF QInv, DataOK
  <2>5. \A d \in Client : OnsFit(queue'[d], m_color', m_onMs', m_offMs')
    BY <2>3, <2>4
  <2> QED BY <2>5
<1>4. ASSUME QInv, Fits, Operation \/ Activate \/ UNCHANGED vars PROVE Fits'
  <2>1. UNCHANGED <<queue, m_color, m_onMs, m_offMs>>
    BY <1>4 DEF Operation, Activate, clients, vars, service, Service!Operation,
         Service!WriteTrigger, Service!WriteDelay, Service!WriteBrightness,
         Service!SendLight, Service!PrintOnly, Service!Done, Service!Start,
         Service!members
  <2>2. \A d \in Client : OnsFit(queue'[d], m_color', m_onMs', m_offMs')
    BY <1>4, <2>1
  <2> QED BY <2>2
<1>5. QInv /\ Fits /\ [Next /\ ~Death]_vars => Fits'
  BY <1>2, <1>3, <1>4 DEF Next
<1>6. QInv /\ Fits =>
        \A c \in Client : About(c, "state") /\ Message(c)[2] = "On" /\ Serve(c) =>
          LET want == Message(c)[3] IN
          m_color = want.color /\ m_onMs = want.on /\ m_offMs = want.off
  <2> SUFFICES ASSUME QInv, Fits, NEW c \in Client, About(c, "state"),
                      Message(c)[2] = "On"
               PROVE  /\ m_color = Message(c)[3].color /\ m_onMs = Message(c)[3].on
                      /\ m_offMs = Message(c)[3].off
    OBVIOUS
  <2>1. queue[c] \in Seq(Msg) /\ queue[c] # <<>>
    BY DEF QInv, DataOK, About
  <2>2. Head(queue[c]) = queue[c][1] /\ 1 \in 1 .. Len(queue[c])
    BY <2>1, TailIs
  <2>3. OnsFit(queue[c], m_color, m_onMs, m_offMs)
    OBVIOUS
  <2> QED BY <2>2, <2>3 DEF OnsFit, About, Message
<1>7. QInv /\ [Next /\ ~Death]_vars => QInv'
  BY NextQ
<1> HIDE DEF Fits
<1> QED BY <1>1, <1>5, <1>6, <1>7, InitQ, PTL DEF UpToDateWhenLit
===============================================================================
