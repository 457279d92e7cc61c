---------------------------- MODULE SafeTypeCode ----------------------------
(***************************************************************************)
(* reflex::SafeTypeCode (include/reflex/safe_typecode.h) and the part of   *)
(* the typecode factory that it uses: a heap of typecodes that have to be  *)
(* deleted once, and the typecodes of the primitive types, which are the   *)
(* factory's own and are never deleted; one address stands for all.        *)
(*                                                                         *)
(* factory_ is NULL only after a move, together with typecode_; it is not  *)
(* a field here.                                                           *)
(***************************************************************************)
EXTENDS FiniteSets

CONSTANTS
  Typecodes,    \* addresses of typecodes: bounds the heap
  PrimitiveTC,  \* the address of the typecodes of primitive types
  Foreign,      \* addresses of typecodes others own: those of type supports
  NULL,
  Faults        \* the calls of the factory that may fail, of FaultKinds

FaultKinds == {"create_tc", "clone_tc", "add_member"}

ASSUME TypecodeConstants ==
  /\ PrimitiveTC \notin Typecodes \cup Foreign \cup {NULL}
  /\ Typecodes \cap Foreign = {}
  /\ NULL \notin Typecodes \cup Foreign
  /\ Faults \subseteq FaultKinds

VARIABLE typecodes  \* the typecodes on the heap

-----------------------------------------------------------------------------
(* The class.                                                              *)

SafeTypeCodes ==
  [typecode_ : Typecodes \cup Foreign \cup {PrimitiveTC, NULL},
   is_shared_ : BOOLEAN]

FromNonConst(tc) == [typecode_ |-> tc, is_shared_ |-> FALSE]
FromConst(tc) == [typecode_ |-> tc, is_shared_ |-> TRUE]

(* What the destructor of s deletes.                                       *)
Owned(s) == IF s.is_shared_ THEN {} ELSE {s.typecode_} \ {NULL}

HasRoom == Typecodes \ typecodes # {}

(* What the factory returns for a new typecode.                            *)
New == IF HasRoom THEN CHOOSE tc \in Typecodes \ typecodes : TRUE ELSE NULL

(* Mutant: the copy of an owner is an owner of the same typecode.          *)
ShallowCopy(s) == s

(* The copy constructor: shallow for a shared typecode, a clone for an     *)
(* owned one.                                                              *)
CopyOf(s) == IF s.is_shared_ THEN s ELSE FromNonConst(New)

(* The heap after that.                                                    *)
WithCopyOf(s) == typecodes \cup (IF s.is_shared_ THEN {} ELSE {New})

(* Cloning what was moved away calls a factory_ that is NULL.              *)
MayCopy(s) == s.is_shared_ \/ (s.typecode_ # NULL /\ HasRoom)

(* What the move constructor leaves behind: is_shared_ stays.              *)
MovedFrom(s) == [s EXCEPT !.typecode_ = NULL]

(* Mutant: like that of a smart pointer, release leaves nothing behind.    *)
Emptied(s) == FromConst(NULL)

(* release: the object keeps the pointer but does not own it any more.     *)
Released(s) == [s EXCEPT !.is_shared_ = TRUE]

(* delete_tc of everything in gone, by destructors or delete_typecodes,    *)
(* when the heap is before.  A failure of the factory is printed and       *)
(* forgotten; as no pointer to the typecode is left, no one can tell.      *)
Delete(before, gone) == typecodes' = before \ gone
=============================================================================
