----------------------------- MODULE UdevHandles -----------------------------
(***************************************************************************)
(* The udev wrapper (src/src/udev): C++ objects of four classes, Udev,     *)
(* UdevMonitor, UdevEnumerate and UdevDevice, each with one pointer to a   *)
(* libudev object that is counted by udev_ref() and udev_unref().  The     *)
(* classes are alike but for what their assignment operators do with the   *)
(* references, and in how their objects come to be.                        *)
(*                                                                         *)
(* A variable is a place a C++ object of the class can live in: a local, a *)
(* member, an element of a vector or a map.  The count of a libudev object *)
(* is libudev's own, external; at zero it is freed.                        *)
(***************************************************************************)
EXTENDS Integers, FiniteSets

CONSTANTS Var,       \* the places for C++ objects
          Object,    \* the libudev objects
          Null,      \* a null handle
          Unset,     \* the indeterminate handle of a default-initialised device
          Gone,      \* no C++ object lives here
          MaxRefs    \* bound: the references ever held to one libudev object

ASSUME NamesAssumption ==
  Null # Unset /\ Unset # Gone /\ {Null, Unset, Gone} \cap Object = {}
ASSUME VarAssumption == IsFiniteSet(Var)

VARIABLES
  class,      \* the class of all the variables
  handle,     \* what each variable's handle is
  count,      \* libudev's reference counts
  assigned    \* history: the libudev objects some assignment has been about

vars == <<class, handle, count, assigned>>

Class == {"Udev", "UdevMonitor", "UdevEnumerate", "UdevDevice"}
Holders(o) == {v \in Var : handle[v] = o}

\* References that no variable will ever give back.
Lost(o) == count[o] - Cardinality(Holders(o))

TypeOK ==
  /\ class \in Class
  /\ handle \in [Var -> Object \cup {Null, Unset, Gone}]
  /\ count \in [Object -> Nat]
  /\ assigned \subseteq Object

Init ==
  /\ class \in Class
  /\ handle = [v \in Var |-> Gone]
  /\ count = [o \in Object |-> 0]
  /\ assigned = {}

-------------------------------------------------------------------------------
(* libudev: a null argument is passed through. *)

Ref(h) ==
  /\ h \in Object => count[h] < MaxRefs
  /\ count' = [o \in Object |-> IF o = h THEN count[o] + 1 ELSE count[o]]

Unref(h) ==
  count' = [o \in Object |-> IF o = h THEN count[o] - 1 ELSE count[o]]

-------------------------------------------------------------------------------
(* Where C++ objects come from. *)

\* v takes over the one reference to a new libudev object.
TakeNew(v, o) ==
  /\ handle[v] = Gone /\ count[o] = 0
  /\ handle' = [handle EXCEPT ![v] = o]
  /\ count' = [count EXCEPT ![o] = 1]
  /\ assigned' = assigned \ {o}
  /\ UNCHANGED class

TakeNull(v) ==
  /\ handle[v] = Gone
  /\ handle' = [handle EXCEPT ![v] = Null]
  /\ UNCHANGED <<class, count, assigned>>

\* udev_new(), and what the context makes: a null result is kept.
Context(v) == class = "Udev" /\ ((\E o \in Object : TakeNew(v, o)) \/ TakeNull(v))
MonitorNew(v) ==
  class = "UdevMonitor" /\ ((\E o \in Object : TakeNew(v, o)) \/ TakeNull(v))
EnumerateNew(v) ==
  class = "UdevEnumerate" /\ ((\E o \in Object : TakeNew(v, o)) \/ TakeNull(v))

\* device_from_syspath() and receive_device() throw instead.
DeviceFromSyspath(v) == class = "UdevDevice" /\ \E o \in Object : TakeNew(v, o)
ReceiveDevice(v) == class = "UdevDevice" /\ \E o \in Object : TakeNew(v, o)

\* An element of enumerate_devices(), null if the device has gone.
EnumerateDevice(v) ==
  class = "UdevDevice" /\ ((\E o \in Object : TakeNew(v, o)) \/ TakeNull(v))

\* UdevDevice() = default: null in a map's operator[], indeterminate in a member.
DefaultDevice(v) ==
  /\ class = "UdevDevice" /\ handle[v] = Gone
  /\ handle' \in {[handle EXCEPT ![v] = h] : h \in {Null, Unset}}
  /\ UNCHANGED <<class, count, assigned>>

Create(v) ==
  \/ Context(v) \/ MonitorNew(v) \/ EnumerateNew(v)
  \/ DeviceFromSyspath(v) \/ ReceiveDevice(v) \/ EnumerateDevice(v)
  \/ DefaultDevice(v)

-------------------------------------------------------------------------------
(* Copy, move, assign, destroy.  A default-initialised device is not copied,  *)
(* moved or destroyed before it is assigned to: both back ends with such a    *)
(* member assign to it in their constructor, and an exception that leaves the *)
(* constructor first ends the process without unwinding.                      *)

Readable(v) == handle[v] \notin {Gone, Unset}

CopyUncounted(v, w) ==
  /\ handle[v] = Gone /\ Readable(w)
  /\ handle' = [handle EXCEPT ![v] = handle[w]]
  /\ UNCHANGED <<class, count, assigned>>

Copy(v, w) ==
  /\ handle[v] = Gone /\ Readable(w)
  /\ Ref(handle[w])
  /\ handle' = [handle EXCEPT ![v] = handle[w]]
  /\ UNCHANGED <<class, assigned>>

MoveKeeping(v, w) ==
  /\ handle[v] = Gone /\ Readable(w)
  /\ handle' = [handle EXCEPT ![v] = handle[w]]
  /\ UNCHANGED <<class, count, assigned>>

Move(v, w) ==
  /\ handle[v] = Gone /\ Readable(w)
  /\ handle' = [handle EXCEPT ![v] = handle[w], ![w] = Null]
  /\ UNCHANGED <<class, count, assigned>>

\* v = w is about the object v held and the one it is given; v may be w.
Assign(v, w) ==
  /\ handle[v] # Gone /\ Readable(w)
  /\ assigned' = assigned \cup ({handle[v], handle[w]} \cap Object)
  /\ UNCHANGED class

\* What v held is forgotten, not given back.
CopyAssign(v, w) ==
  /\ class # "UdevEnumerate" /\ Assign(v, w)
  /\ Ref(handle[w])
  /\ handle' = [handle EXCEPT ![v] = handle[w]]

\* v keeps what it holds.
CopyAssignEnumerate(v, w) ==
  /\ class = "UdevEnumerate" /\ Assign(v, w)
  /\ Ref(handle[w])
  /\ UNCHANGED handle

MoveAssign(v, w) ==
  /\ class # "UdevDevice" /\ Assign(v, w)
  /\ handle' = [handle EXCEPT ![v] = handle[w], ![w] = Null]
  /\ UNCHANGED count

\* One more reference is taken than is given up.
MoveAssignDevice(v, w) ==
  /\ class = "UdevDevice" /\ Assign(v, w)
  /\ Ref(handle[w])
  /\ handle' = [handle EXCEPT ![v] = handle[w], ![w] = Null]

Assignment(v, w) ==
  \/ CopyAssign(v, w) \/ CopyAssignEnumerate(v, w)
  \/ MoveAssign(v, w) \/ MoveAssignDevice(v, w)

DestroyOnly(v) ==
  /\ Readable(v)
  /\ handle' = [handle EXCEPT ![v] = Gone]
  /\ UNCHANGED <<class, count, assigned>>

Destroy(v) ==
  /\ Readable(v)
  /\ Unref(handle[v])
  /\ handle' = [handle EXCEPT ![v] = Gone]
  /\ UNCHANGED <<class, assigned>>

Next ==
  \/ \E v \in Var : Create(v) \/ Destroy(v)
  \/ \E v, w \in Var : Copy(v, w) \/ Move(v, w) \/ Assignment(v, w)

Spec == Init /\ [][Next]_vars

-------------------------------------------------------------------------------
(* Properties. *)

\* No handle outlives its object, and no destructor frees what another variable
\* holds: there are never fewer references than variables, whatever is copied,
\* moved and assigned, a variable to itself included (udevDevice.cpp:14-42 and
\* the same lines of the other classes).
HeldIsAlive == \A o \in Object : count[o] >= Cardinality(Holders(o))

\* An object that no assignment has been about is freed with the last variable
\* that holds it: copies, moves and temporaries balance.
FreedWithTheLast == \A o \in Object \ assigned : Lost(o) = 0

\* References are lost by assignments only (udevDevice.cpp:31,
\* udevEnumerate.cpp:23), and for good: nothing that is destroyed later gives
\* back one too many.
LostByAssignment == [][\A o \in Object :
  /\ Lost(o)' >= Lost(o)
  /\ Lost(o)' > Lost(o) => \E v, w \in Var : Assignment(v, w)]_vars
===============================================================================
