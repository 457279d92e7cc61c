----------------------------- MODULE ValueObject -----------------------------
(***************************************************************************)
(* What the documentation of reflex::AutoDynamicData promises, with no     *)
(* pointer in sight: every object holds a value of its own (auto_dd.h:     *)
(* "behaves like a value-type"), a copy has the value of its source at the *)
(* time of the copy, and no operation on one object is visible through     *)
(* another one.  AutoDynamicData implements this specification: see        *)
(* ValueSemantics there.                                                   *)
(***************************************************************************)

CONSTANTS
  Objects,     \* the objects of the program
  Contents,    \* the values an object can be populated with
  Blank,       \* the value of an initialized, unpopulated object
  NoObject,    \* the variable holds no object (not constructed, destroyed)
  Moved,       \* the object's value was moved away
  LossyCopy    \* whether a copy may come out Blank (DDS_DynamicData::copy
               \* failed and its return code was ignored)

VARIABLE val

Values == Contents \cup {Blank}

TypeOK == val \in [Objects -> Values \cup {NoObject, Moved}]

Init == val = [o \in Objects |-> NoObject]

Exists(o) == val[o] # NoObject

(* A constructor: unpopulated, or populated from a source object.          *)
Create(o, v) ==
  /\ ~Exists(o)
  /\ val' = [val EXCEPT ![o] = v]

(* Copy construction (o does not exist yet) and copy assignment (it does). *)
CopyTo(o, p) ==
  /\ val[p] \in Values
  /\ \E v \in {val[p]} \cup (IF LossyCopy THEN {Blank} ELSE {}) :
       val' = [val EXCEPT ![o] = v]

MoveTo(o, p) ==
  /\ ~Exists(o)
  /\ Exists(p)
  /\ val' = [val EXCEPT ![o] = val[p], ![p] = Moved]

Exchange(o, p) ==
  /\ Exists(o)
  /\ Exists(p)
  /\ val' = [val EXCEPT ![o] = val[p], ![p] = val[o]]

Populate(o, v) ==
  /\ val[o] \in Values
  /\ val' = [val EXCEPT ![o] = v]

Destroy(o) ==
  /\ Exists(o)
  /\ val' = [val EXCEPT ![o] = NoObject]

Next ==
  \/ \E o \in Objects : Destroy(o)
  \/ \E o \in Objects, v \in Values : Create(o, v)
  \/ \E o \in Objects, v \in Contents : Populate(o, v)
  \/ \E o, p \in Objects : CopyTo(o, p) \/ MoveTo(o, p) \/ Exchange(o, p)

Spec == Init /\ [][Next]_val

=============================================================================
