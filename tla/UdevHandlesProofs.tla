-------------------------- MODULE UdevHandlesProofs --------------------------
(***************************************************************************)
(* UdevHandles.tla for every finite set of variables and every set of      *)
(* libudev objects.  Everything rests on one account: what each operation  *)
(* does to Lost(o), the references to o that no variable holds.            *)
(***************************************************************************)
EXTENDS UdevHandles, FiniteSetTheorems, TLAPS

Value == Object \cup {Null, Unset, Gone}
Held(h, o) == {v \in Var : h[v] = o}
One(a, b) == IF a = b THEN 1 ELSE 0

Inv == TypeOK /\ HeldIsAlive /\ FreedWithTheLast

LEMMA HeldFinite ==
  ASSUME NEW h, NEW o
  PROVE  IsFiniteSet(Held(h, o)) /\ Cardinality(Held(h, o)) \in Nat
<1>1. Held(h, o) \in SUBSET Var
  BY DEF Held
<1> QED BY <1>1, VarAssumption, FS_Subset, FS_CardinalityType

\* Giving one variable another handle moves the two counts by at most one.
LEMMA SetOne ==
  ASSUME NEW h \in [Var -> Value], NEW v \in Var, NEW x \in Value, NEW o,
         NEW g, g = [h EXCEPT ![v] = x]
  PROVE  Cardinality(Held(g, o))
           = Cardinality(Held(h, o)) + One(x, o) - One(h[v], o)
<1> DEFINE rest == Held(h, o) \ {v}
<1>1. /\ IsFiniteSet(rest) /\ v \notin rest /\ Cardinality(rest) \in Nat
      /\ Cardinality(rest) = Cardinality(Held(h, o)) - One(h[v], o)
  <2>1. v \in Held(h, o) <=> h[v] = o
    BY DEF Held
  <2> QED
    BY <2>1, HeldFinite, FS_RemoveElement, FS_CardinalityType DEF One
<1>2. CASE x = o
  <2>1. Held(g, o) = rest \cup {v}
    BY <1>2 DEF Held
  <2>2. Cardinality(rest \cup {v}) = Cardinality(rest) + 1
    BY <1>1, FS_AddElement
  <2>3. One(x, o) = 1 /\ One(h[v], o) \in Nat
    BY <1>2 DEF One
  <2>4. Cardinality(Held(g, o)) = Cardinality(rest) + 1
    BY <2>1, <2>2
  <2>5. Cardinality(Held(h, o)) \in Nat
    BY HeldFinite
  <2> HIDE DEF rest
  <2> QED BY <1>1, <2>3, <2>4, <2>5
<1>3. CASE x # o
  <2>1. Held(g, o) = rest
    BY <1>3 DEF Held
  <2>2. One(x, o) = 0 /\ One(h[v], o) \in Nat
    BY <1>3 DEF One
  <2>3. Cardinality(Held(h, o)) \in Nat
    BY HeldFinite
  <2> HIDE DEF rest
  <2> QED BY <1>1, <2>1, <2>2, <2>3
<1> QED BY <1>2, <1>3

LEMMA SetNull ==
  ASSUME NEW h \in [Var -> Value], NEW v \in Var, NEW o \in Object,
         NEW g, g = [h EXCEPT ![v] = Null]
  PROVE  Cardinality(Held(g, o)) = Cardinality(Held(h, o)) - One(h[v], o)
<1>1. Null \in Value
  BY DEF Value
<1>2. One(Null, o) = 0 /\ One(h[v], o) \in Nat
  BY NamesAssumption DEF One
<1>3. Cardinality(Held(g, o))
        = Cardinality(Held(h, o)) + One(Null, o) - One(h[v], o)
  BY <1>1, SetOne
<1> QED BY <1>2, <1>3, HeldFinite

\* The same for a handle that v takes from w, which may be v itself.
LEMMA TakeFrom ==
  ASSUME NEW h \in [Var -> Value], NEW v \in Var, NEW w \in Var,
         NEW o \in Object, NEW f, f = [h EXCEPT ![v] = h[w], ![w] = Null]
  PROVE  Cardinality(Held(f, o)) = Cardinality(Held(h, o)) - One(h[v], o)
<1>1. PICK g : g = [h EXCEPT ![v] = h[w]]
  OBVIOUS
<1>2. /\ g \in [Var -> Value] /\ g[w] = h[w]
      /\ f = [g EXCEPT ![w] = Null]
  BY <1>1
<1>3. Cardinality(Held(g, o))
        = Cardinality(Held(h, o)) + One(h[w], o) - One(h[v], o)
  <2>1. PICK x \in Value : x = h[w]
    OBVIOUS
  <2>2. g = [h EXCEPT ![v] = x]
    BY <1>1, <2>1
  <2>3. Cardinality(Held(g, o))
          = Cardinality(Held(h, o)) + One(x, o) - One(h[v], o)
    BY <2>2, SetOne, ZenonT(60)
  <2> QED BY <2>1, <2>3
<1>4. Cardinality(Held(f, o)) = Cardinality(Held(g, o)) - One(g[w], o)
  <2>1. ASSUME NEW k \in [Var -> Value], NEW y, y = [k EXCEPT ![w] = Null]
        PROVE  Cardinality(Held(y, o)) = Cardinality(Held(k, o)) - One(k[w], o)
    BY <2>1, SetNull
  <2> QED BY <1>2, <2>1
<1>5. One(g[w], o) = One(h[w], o)
  BY <1>2
<1>6. One(h[w], o) \in Nat /\ One(h[v], o) \in Nat
  BY DEF One
<1> QED BY <1>3, <1>4, <1>5, <1>6, HeldFinite

-------------------------------------------------------------------------------
(* The account. *)

LEMMA LostIs ==
  ASSUME NEW o
  PROVE  /\ Lost(o) = count[o] - Cardinality(Held(handle, o))
         /\ Lost(o)' = count'[o] - Cardinality(Held(handle', o))
BY DEF Lost, Holders, Held

\* What Ref and Unref do to one count.
LEMMA Counted ==
  ASSUME TypeOK, NEW o \in Object, NEW h
  PROVE  /\ Ref(h) => count'[o] = count[o] + One(h, o)
         /\ Unref(h) => count'[o] = count[o] - One(h, o)
BY DEF TypeOK, Ref, Unref, One

\* Nothing is lost when objects are made, copied, moved and destroyed.
LEMMA CreateLoses ==
  ASSUME Inv, NEW v \in Var, Create(v), NEW o \in Object
  PROVE  Lost(o)' = Lost(o)
<1>1. handle \in [Var -> Value] /\ count \in [Object -> Nat]
  BY DEF Inv, TypeOK, Value
<1>2. handle[v] = Gone
  BY DEF Create, Context, MonitorNew, EnumerateNew, DeviceFromSyspath,
         ReceiveDevice, EnumerateDevice, DefaultDevice, TakeNew, TakeNull
<1>3. One(handle[v], o) = 0 /\ One(Null, o) = 0 /\ One(Unset, o) = 0
  BY <1>2, NamesAssumption DEF One
<1>4. CASE \E p \in Object : TakeNew(v, p)
  <2> PICK p \in Object : TakeNew(v, p)
    BY <1>4
  <2>1. p \in Value
    BY DEF Value
  <2>2. Cardinality(Held(handle', o))
          = Cardinality(Held(handle, o)) + One(p, o) - One(handle[v], o)
    BY <1>1, <2>1, SetOne DEF TakeNew
  <2>3. count'[o] = count[o] + One(p, o)
    BY <1>1 DEF TakeNew, One
  <2> QED BY <1>1, <1>3, <2>2, <2>3, LostIs, HeldFinite DEF One
<1>5. CASE ~\E p \in Object : TakeNew(v, p)
  <2>1. PICK x \in {Null, Unset} : handle' = [handle EXCEPT ![v] = x]
    BY <1>5 DEF Create, Context, MonitorNew, EnumerateNew, DeviceFromSyspath,
                ReceiveDevice, EnumerateDevice, DefaultDevice, TakeNull
  <2>2. count' = count
    BY <1>5 DEF Create, Context, MonitorNew, EnumerateNew, DeviceFromSyspath,
                ReceiveDevice, EnumerateDevice, DefaultDevice, TakeNull
  <2>3. x \in Value /\ One(x, o) = 0
    BY <1>3 DEF Value
  <2>4. Cardinality(Held(handle', o))
          = Cardinality(Held(handle, o)) + One(x, o) - One(handle[v], o)
    BY <1>1, <2>1, <2>3, SetOne
  <2> QED BY <1>1, <1>3, <2>2, <2>3, <2>4, LostIs, HeldFinite
<1> QED BY <1>4, <1>5

LEMMA CopyLoses ==
  ASSUME Inv, NEW v \in Var, NEW w \in Var, Copy(v, w), NEW o \in Object
  PROVE  Lost(o)' = Lost(o)
<1>1. /\ handle \in [Var -> Value] /\ count \in [Object -> Nat]
      /\ handle[v] = Gone /\ Gone # o /\ handle[w] \in Value
  BY NamesAssumption DEF Inv, TypeOK, Copy, Value
<1>2. Cardinality(Held(handle', o))
        = Cardinality(Held(handle, o)) + One(handle[w], o) - One(handle[v], o)
  BY <1>1, SetOne, ZenonT(60) DEF Copy
<1>3. count'[o] = count[o] + One(handle[w], o)
  BY Counted DEF Copy, Inv
<1> QED BY <1>1, <1>2, <1>3, LostIs, HeldFinite DEF One

LEMMA MoveLoses ==
  ASSUME Inv, NEW v \in Var, NEW w \in Var, Move(v, w), NEW o \in Object
  PROVE  Lost(o)' = Lost(o)
<1>1. /\ handle \in [Var -> Value] /\ count \in [Object -> Nat]
      /\ handle[v] = Gone /\ Gone # o
  BY NamesAssumption DEF Inv, TypeOK, Move, Value
<1>2. Cardinality(Held(handle', o))
        = Cardinality(Held(handle, o)) - One(handle[v], o)
  BY <1>1, TakeFrom, ZenonT(60) DEF Move
<1>3. count' = count
  BY DEF Move
<1> QED BY <1>1, <1>2, <1>3, LostIs, HeldFinite DEF One

LEMMA DestroyLoses ==
  ASSUME Inv, NEW v \in Var, Destroy(v), NEW o \in Object
  PROVE  Lost(o)' = Lost(o)
<1>1. /\ handle \in [Var -> Value] /\ count \in [Object -> Nat]
      /\ Gone \in Value /\ Gone # o
  BY NamesAssumption DEF Inv, TypeOK, Value
<1>2. Cardinality(Held(handle', o))
        = Cardinality(Held(handle, o)) + One(Gone, o) - One(handle[v], o)
  BY <1>1, SetOne DEF Destroy
<1>3. count'[o] = count[o] - One(handle[v], o)
  BY Counted DEF Destroy, Inv
<1> QED BY <1>1, <1>2, <1>3, LostIs, HeldFinite DEF One

\* An assignment loses a reference to what v held, or one to what it is given,
\* or both.
LEMMA AssignmentLoses ==
  ASSUME Inv, NEW v \in Var, NEW w \in Var, Assignment(v, w), NEW o \in Object
  PROVE  /\ Lost(o)' >= Lost(o)
         /\ o \notin assigned' => Lost(o)' = Lost(o)
<1>1. /\ handle \in [Var -> Value] /\ count \in [Object -> Nat]
      /\ handle[w] \in Value
  BY DEF Inv, TypeOK, Value
<1>2. o \notin assigned' => One(handle[v], o) = 0 /\ One(handle[w], o) = 0
  BY DEF Assignment, CopyAssign, CopyAssignEnumerate, MoveAssign,
         MoveAssignDevice, Assign, One
<1>3. One(handle[v], o) \in Nat /\ One(handle[w], o) \in Nat
  BY DEF One
<1>4. CASE CopyAssign(v, w)
  <2>1. Cardinality(Held(handle', o))
          = Cardinality(Held(handle, o)) + One(handle[w], o) - One(handle[v], o)
    BY <1>1, <1>4, SetOne, ZenonT(60) DEF CopyAssign
  <2>2. count'[o] = count[o] + One(handle[w], o)
    BY <1>4, Counted DEF CopyAssign, Inv
  <2> QED BY <1>1, <1>2, <1>3, <2>1, <2>2, LostIs, HeldFinite
<1>5. CASE CopyAssignEnumerate(v, w)
  <2>1. handle' = handle /\ count'[o] = count[o] + One(handle[w], o)
    BY <1>5, Counted DEF CopyAssignEnumerate, Inv
  <2> QED BY <1>1, <1>2, <1>3, <2>1, LostIs, HeldFinite
<1>6. CASE MoveAssign(v, w)
  <2>1. Cardinality(Held(handle', o))
          = Cardinality(Held(handle, o)) - One(handle[v], o)
    BY <1>1, <1>6, TakeFrom, ZenonT(60) DEF MoveAssign
  <2>2. count' = count
    BY <1>6 DEF MoveAssign
  <2> QED BY <1>1, <1>2, <1>3, <2>1, <2>2, LostIs, HeldFinite
<1>7. CASE MoveAssignDevice(v, w)
  <2>1. Cardinality(Held(handle', o))
          = Cardinality(Held(handle, o)) - One(handle[v], o)
    BY <1>1, <1>7, TakeFrom, ZenonT(60) DEF MoveAssignDevice
  <2>2. count'[o] = count[o] + One(handle[w], o)
    BY <1>7, Counted DEF MoveAssignDevice, Inv
  <2> QED BY <1>1, <1>2, <1>3, <2>1, <2>2, LostIs, HeldFinite
<1> QED BY <1>4, <1>5, <1>6, <1>7 DEF Assignment

LEMMA NextLoses ==
  ASSUME Inv, [Next]_vars, NEW o \in Object
  PROVE  /\ Lost(o)' >= Lost(o)
         /\ Lost(o)' > Lost(o) => \E v, w \in Var : Assignment(v, w)
         /\ o \notin assigned' => Lost(o)' = Lost(o)
<1>1. Lost(o) \in Int
  BY LostIs, HeldFinite DEF Inv, TypeOK
<1>2. CASE \E v, w \in Var : Assignment(v, w)
  BY <1>1, <1>2, AssignmentLoses
<1>3. CASE UNCHANGED vars
  <2>1. Lost(o)' = Lost(o)
    BY <1>3 DEF vars, Lost, Holders
  <2> QED BY <1>1, <2>1
<1>4. CASE \/ \E v \in Var : Create(v) \/ Destroy(v)
           \/ \E v, w \in Var : Copy(v, w) \/ Move(v, w)
  <2>1. Lost(o)' = Lost(o)
    BY <1>4, CreateLoses, DestroyLoses, CopyLoses, MoveLoses
  <2> QED BY <1>1, <2>1
<1> QED BY <1>2, <1>3, <1>4 DEF Next

-------------------------------------------------------------------------------
(* The invariant. *)

\* The account bounds the counts, which keep their type.
LEMMA TypeStep == Inv /\ [Next]_vars => TypeOK'
<1> SUFFICES ASSUME Inv, [Next]_vars PROVE TypeOK'
  OBVIOUS
<1>1. TypeOK
  BY DEF Inv
<1>2. CASE \E v \in Var : Create(v)
  BY <1>1, <1>2
  DEF TypeOK, Create, Context, MonitorNew, EnumerateNew, DeviceFromSyspath,
      ReceiveDevice, EnumerateDevice, DefaultDevice, TakeNew, TakeNull
<1>3. CASE \E v, w \in Var : Copy(v, w) \/ Move(v, w)
  BY <1>1, <1>3 DEF TypeOK, Copy, Move, Ref
<1>4. CASE \E v, w \in Var : Assignment(v, w)
  BY <1>1, <1>4
  DEF TypeOK, Assignment, CopyAssign, CopyAssignEnumerate, MoveAssign,
      MoveAssignDevice, Assign, Ref
<1>5. CASE \E v \in Var : Destroy(v)
  <2> PICK v \in Var : Destroy(v)
    BY <1>5
  <2>1. ASSUME NEW o \in Object, handle[v] = o PROVE count[o] > 0
    <3>1. Held(handle, o) # {} /\ Holders(o) = Held(handle, o)
      BY <2>1 DEF Held, Holders
    <3>2. Cardinality(Held(handle, o)) # 0
      BY <3>1, HeldFinite, FS_EmptySet
    <3> QED
      BY <1>1, <3>1, <3>2, HeldFinite DEF Inv, HeldIsAlive, TypeOK
  <2> QED BY <1>1, <2>1 DEF TypeOK, Destroy, Unref
<1>6. CASE UNCHANGED vars
  BY <1>1, <1>6 DEF TypeOK, vars
<1> QED BY <1>2, <1>3, <1>4, <1>5, <1>6 DEF Next

LEMMA InitInv == Init => Inv
<1> SUFFICES ASSUME Init PROVE Inv
  OBVIOUS
<1>1. TypeOK
  BY DEF Init, TypeOK
<1>2. ASSUME NEW o \in Object PROVE Lost(o) = 0 /\ Cardinality(Holders(o)) = 0
  <2>1. Holders(o) = {}
    BY NamesAssumption DEF Init, Holders
  <2> QED BY <2>1, FS_EmptySet DEF Init, Lost
<1> QED BY <1>1, <1>2 DEF Inv, Init, HeldIsAlive, FreedWithTheLast

LEMMA NextInv == Inv /\ [Next]_vars => Inv'
<1> SUFFICES ASSUME Inv, [Next]_vars PROVE Inv'
  OBVIOUS
<1>1. TypeOK'
  BY TypeStep
<1>2. ASSUME NEW o \in Object
      PROVE  /\ Lost(o)' >= 0
             /\ (count[o] >= Cardinality(Holders(o)))'
             /\ o \notin assigned' => Lost(o)' = 0
  <2>1. /\ count[o] \in Nat /\ count'[o] \in Nat
        /\ Cardinality(Holders(o)) \in Nat /\ Cardinality(Holders(o))' \in Nat
    BY <1>1, HeldFinite DEF Inv, TypeOK, Holders, Held
  <2>2. Lost(o) >= 0
    BY <2>1 DEF Inv, HeldIsAlive, Lost
  <2>3. o \in assigned \/ Lost(o) = 0
    BY DEF Inv, FreedWithTheLast
  <2>4. o \notin assigned' => o \notin assigned \/ Lost(o)' = 0
    <3>1. CASE \E v \in Var, p \in Object : TakeNew(v, p) /\ p = o
      <4>1. count[o] = 0
        BY <3>1 DEF TakeNew
      <4>2. Lost(o) = 0
        BY <2>1, <2>2, <4>1 DEF Lost
      <4> QED BY <3>1, <4>2, NextLoses
    <3>2. CASE ~\E v \in Var, p \in Object : TakeNew(v, p) /\ p = o
      BY <3>2
      DEF Next, vars, Create, Context, MonitorNew, EnumerateNew,
          DeviceFromSyspath, ReceiveDevice, EnumerateDevice, DefaultDevice,
          TakeNew, TakeNull, Destroy, Copy, Move, Assignment, CopyAssign,
          CopyAssignEnumerate, MoveAssign, MoveAssignDevice, Assign
    <3> QED BY <3>1, <3>2
  <2>5. Lost(o)' >= Lost(o) /\ (o \notin assigned' => Lost(o)' = Lost(o))
    BY NextLoses
  <2> QED BY <2>1, <2>2, <2>3, <2>4, <2>5 DEF Lost
<1> QED BY <1>1, <1>2 DEF Inv, HeldIsAlive, FreedWithTheLast

\* Every variable keeps its type: no count is ever driven below zero.
THEOREM TypeCorrect == Spec => []TypeOK
<1>1. Inv => TypeOK
  BY DEF Inv
<1> QED BY <1>1, InitInv, NextInv, PTL DEF Spec

\* No handle outlives its object, for any copies, moves and assignments.
THEOREM HeldIsAliveHolds == Spec => []HeldIsAlive
<1>1. Inv => HeldIsAlive
  BY DEF Inv
<1> QED BY <1>1, InitInv, NextInv, PTL DEF Spec

\* What was never assigned is freed with its last variable.
THEOREM FreedWithTheLastHolds == Spec => []FreedWithTheLast
<1>1. Inv => FreedWithTheLast
  BY DEF Inv
<1> QED BY <1>1, InitInv, NextInv, PTL DEF Spec

\* Only assignments lose references.
THEOREM LostByAssignmentHolds == Spec => LostByAssignment
<1>1. Inv /\ [Next]_vars => [\A o \in Object :
         /\ Lost(o)' >= Lost(o)
         /\ Lost(o)' > Lost(o) => \E v, w \in Var : Assignment(v, w)]_vars
  BY NextLoses
<1> QED BY <1>1, InitInv, NextInv, PTL DEF Spec, LostByAssignment
===============================================================================
