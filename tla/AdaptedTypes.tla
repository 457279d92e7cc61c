---------------------------- MODULE AdaptedTypes ----------------------------
(***************************************************************************)
(* The C++ types RefleX can adapt, as the overloads of get_typecode,       *)
(* set_member_value and get_member_value tell them apart.  A type has a    *)
(* kind and parts:                                                         *)
(*   primitive, string, enum   none                                        *)
(*   struct, sparse            its members; those of a sparse type are raw *)
(*                             in its typecode, optional in its objects    *)
(*   derived                   its base class, then its own members        *)
(*   sequence, range, array    its element type; a sequence is a container *)
(*                             or a Bounded one                            *)
(*   vector                    its element type, a primitive but not bool  *)
(*   optional, smart_ptr       what it holds                               *)
(*   union                     the type of its tags, then those of its     *)
(*                             cases                                       *)
(***************************************************************************)
EXTENDS Integers, Sequences

CONSTANTS
  Types,  \* names of types
  Kind,   \* the kind of every type
  Parts,  \* the types every type is made of
  Keys,   \* the positions of the parts that RTI_ADAPT_STRUCT declares a key
  Depth   \* how deep a type is nested: the get_typecode of a type that
          \* contains itself, be it behind a pointer, never returns

Leaves == {"primitive", "string", "enum"}
Aggregates == {"struct", "sparse", "derived"}
Wrappers ==
  {"sequence", "vector", "range", "array", "optional", "smart_ptr"}
Kinds == Leaves \cup Aggregates \cup Wrappers \cup {"union"}

ASSUME TypesAreAdapted ==
  /\ Kind \in [Types -> Kinds]
  /\ Parts \in [Types -> Seq(Types)]
  /\ Keys \in [Types -> SUBSET Nat]
  /\ \A t \in Types :
       /\ Kind[t] \in Leaves => Parts[t] = <<>>
       /\ Kind[t] \in Wrappers => Len(Parts[t]) = 1
       /\ Kind[t] = "vector" => Kind[Parts[t][1]] = "primitive"
       /\ Kind[t] \in {"derived", "union"} => Len(Parts[t]) > 1
       /\ Kind[t] = "derived" => Kind[Parts[t][1]] \in {"struct", "derived"}
       /\ Kind[t] = "union" => Kind[Parts[t][1]] \in {"primitive", "enum"}

ASSUME TypesAreNested ==
  /\ Depth \in [Types -> Nat]
  /\ \A t \in Types : \A k \in DOMAIN Parts[t] :
       Depth[Parts[t][k]] < Depth[t]
=============================================================================
