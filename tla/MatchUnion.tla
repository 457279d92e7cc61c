----------------------------- MODULE MatchUnion -----------------------------
(***************************************************************************)
(* Objects of an adapted type and the match::Union members inside them     *)
(* (include/reflex/disc_union.h).                                          *)
(*                                                                         *)
(* An object s of the application is what its parts hold, by their path:   *)
(* a member, element, pointee or case is one more number on the path of    *)
(* what it is in.  Where there is nothing in s.value it holds a default.   *)
(*   leaf                      its value, 0 by default                     *)
(*   sequence, vector, range   its length                                  *)
(*   optional, smart_ptr       1 if it is set                              *)
(*   union                     which() of the variant, 0 when blank        *)
(* The case of number c is in the variant at c, and where its pointer in   *)
(* the tuple of case pointers points to at NCases + c.                     *)
(***************************************************************************)
EXTENDS AdaptedTypes, SequencesExt

CONSTANTS
  Labels,   \* of a union, the labels of each case; <<>> is the default case
  Signed,   \* the unions whose tag type is signed
  TagSize,  \* of a union, how many values its tag type has
  IntSize   \* how many values an int has

(* The values of an int.                                                   *)
Ints == -(IntSize \div 2) .. (IntSize \div 2) - 1

(* Labels are ints.  Sizes are powers of two: of two that differ, twice    *)
(* the smaller divides the larger.                                         *)
ASSUME UnionConstants ==
  /\ IntSize \in Nat \ {0} /\ IntSize % 2 = 0
  /\ Signed \subseteq Types
  /\ \A t \in Types : Kind[t] = "union" =>
       /\ TagSize[t] \in Nat \ {0} /\ TagSize[t] % 2 = 0
       /\ TagSize[t] % IntSize = 0 \/ IntSize % (2 * TagSize[t]) = 0
       /\ Labels[t] \in Seq(Seq(Ints))
       /\ Len(Labels[t]) = Len(Parts[t]) - 1

Paths == Seq(Nat)

-----------------------------------------------------------------------------
(* Partial functions.                                                      *)

At(f, p) == IF p \in DOMAIN f THEN f[p] ELSE 0

Put(f, p, v) == [q \in DOMAIN f \cup {p} |-> IF q = p THEN v ELSE f[q]]

Only(f, S) == [q \in DOMAIN f \cap S |-> f[q]]

(* Whether q is inside p, or p itself.                                     *)
IsAt(q, p) == Len(q) >= Len(p) /\ SubSeq(q, 1, Len(p)) = p
IsIn(q, p) == IsAt(q, p) /\ q # p

-----------------------------------------------------------------------------
(* Objects.  meant is the case the application last put into a union, or   *)
(* the last read put there; mixed, that some union had a case in the       *)
(* variant and case pointers; fresh, that the object is as constructed,    *)
(* lengths of ranges and case pointers for reading aside.                  *)

Default ==
  [value |-> <<>>, active_index_ |-> <<>>, caseptr_tuple_ |-> {},
   meant |-> <<>>, mixed |-> FALSE, fresh |-> TRUE]

(* Where s holds anything but a default, and s without what it holds in G. *)
Held(s) ==
  DOMAIN s.value \cup DOMAIN s.active_index_ \cup DOMAIN s.meant
    \cup s.caseptr_tuple_

Without(s, G) ==
  LET rest == Held(s) \ G
  IN [s EXCEPT !.value = Only(@, rest), !.active_index_ = Only(@, rest),
               !.meant = Only(@, rest), !.caseptr_tuple_ = @ \ G]

NCases(t) == Len(Parts[t]) - 1
CaseType(t, c) == Parts[t][c + 1]

Which(s, o) == At(s.value, o)

ActiveIndex(s, o) ==
  IF o \in DOMAIN s.active_index_ THEN s.active_index_[o] ELSE -1

Pointee(t, o, c) == Append(o, NCases(t) + c)

HasPointer(s, t, o, c) == Pointee(t, o, c) \in s.caseptr_tuple_

(* empty()                                                                 *)
IsEmpty(s, o) == ActiveIndex(s, o) = -1 /\ Which(s, o) = 0

(* Whether s, just changed at the union o, has been mixed.                 *)
Noted(s, t, o) ==
  [s EXCEPT !.mixed = @ \/ ( /\ Which(s, o) # 0
                             /\ \E c \in 1..NCases(t) :
                                  HasPointer(s, t, o, c))]

(* The variant becomes a default CaseI, the number of I being c.           *)
WithVariant(s, t, o, c) ==
  LET old == {q \in Held(s) : IsIn(q, o) /\ q[Len(o) + 1] <= NCases(t)}
  IN Noted([Without(s, old) EXCEPT
              !.value = Put(@, o, c), !.meant = Put(@, o, c),
              !.fresh = FALSE], t, o)

(* The tuple of case pointers: those of the cases in P are not NULL.       *)
WithPointers(s, t, o, P) ==
  [s EXCEPT !.caseptr_tuple_ =
     {q \in @ : ~(IsIn(q, o) /\ q[Len(o) + 1] > NCases(t))}
       \cup {Pointee(t, o, c) : c \in P}]

-----------------------------------------------------------------------------
(* What the application does to a union.                                   *)

(* Union(const Case &) and its assignment: active_index_ is a, which       *)
(* nobody has initialised.                                                 *)
AssignCase(s, t, o, c, a) ==
  LET cleared == WithPointers(s, t, o, {})
  IN WithVariant([cleared EXCEPT !.active_index_ = Put(@, o, a)], t, o, c)

(* operator = (const variant_type &), or an assignment to get_variant().   *)
AssignVariant(s, t, o, c) == WithVariant(s, t, o, c)

(* set_active_index                                                        *)
SetActiveIndex(s, o, i) == [s EXCEPT !.active_index_ = Put(@, o, i)]

(* set_caseptr_tuple_for_writing, with a pointer for the active case c.    *)
SetCaseptrTupleForWriting(s, t, o, P, c) ==
  Noted([SetActiveIndex(WithPointers(s, t, o, P), o, c - 1) EXCEPT
           !.meant = Put(@, o, c), !.fresh = FALSE], t, o)

(* set_caseptr_tuple_for_reading                                           *)
SetCaseptrTupleForReading(s, t, o, P) == Noted(WithPointers(s, t, o, P), t, o)

(* reset_caseptr_tuple                                                     *)
ResetCaseptrTuple(s, o) == SetActiveIndex(s, o, -1)

-----------------------------------------------------------------------------
(* Discriminators.                                                         *)

(* Case::discriminator                                                     *)
Discriminator(t, c) == IF Labels[t][c] = <<>> THEN -1 ELSE Labels[t][c][1]

(* Case::matches                                                           *)
Matches(t, c, d) ==
  IF Labels[t][c] = <<>> THEN d = -1
  ELSE \E k \in DOMAIN Labels[t][c] : Labels[t][c][k] = d

(* n as a signed integer of a type with size values.                       *)
Wrapped(n, size) ==
  LET low == n % size
  IN IF low >= size \div 2 THEN low - size ELSE low

(* static_cast<TagType>(n)                                                 *)
TagCast(t, n) ==
  IF t \in Signed THEN Wrapped(n, TagSize[t]) ELSE n % TagSize[t]

(* The conversion to int.                                                  *)
IntCast(n) == Wrapped(n, IntSize)

-----------------------------------------------------------------------------
(* set_union and get_union visit the cases in order.                       *)

FirstOf(S) ==
  IF \E c \in S : \A d \in S : c <= d
  THEN CHOOSE c \in S : \A d \in S : c <= d
  ELSE 0

(* The case set_union takes, 0 if none.                                    *)
CaseToSet(s, t, o) ==
  FirstOf({c \in 1..NCases(t) : c - 1 = ActiveIndex(s, o) \/ c = Which(s, o)})

(* The data of case c are where its pointer points to, or in the variant.  *)
DataOf(s, t, o, c) ==
  IF HasPointer(s, t, o, c) THEN Pointee(t, o, c) ELSE Append(o, c)

(* set_union throws: no case, or boost::get of another one.                *)
SetUnionThrows(s, t, o) ==
  LET c == CaseToSet(s, t, o)
  IN c = 0 \/ (~HasPointer(s, t, o, c) /\ Which(s, o) # c)

(* The case get_union takes for the discriminator d.                       *)
CaseToGet(t, d) == FirstOf({c \in 1..NCases(t) : Matches(t, c, d)})

(* The case the application finds in a union, 0 if none.                   *)
CaseHeld(s, t, o) ==
  IF Which(s, o) # 0 THEN Which(s, o)
  ELSE FirstOf({c \in 1..NCases(t) :
                  c - 1 = ActiveIndex(s, o) /\ HasPointer(s, t, o, c)})
=============================================================================
