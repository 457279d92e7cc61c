---------------------------- MODULE MakeTypecode ----------------------------
(***************************************************************************)
(* make_typecode (include/reflex.h, typecode_manip.h, tuple_iterator.h):   *)
(* the overloads of get_typecode call each other along a type and return   *)
(* SafeTypeCodes.  The factory copies the typecodes it is given into those *)
(* it creates, so the inner ones are deleted on the way.                   *)
(*                                                                         *)
(* A step is a call, a return or a call of the factory.  "return safetc"   *)
(* is a move, or elided: never a copy.                                     *)
(***************************************************************************)
EXTENDS SafeTypeCode, AdaptedTypes

VARIABLES
  calls,      \* the activations of get_typecode, innermost last
  result,     \* what the outermost one returned
  abandoned,  \* the typecodes of union members an exception left behind
  broken      \* the unions that called delete_tc for a primitive type's

(* No object, or one that was moved away.                                  *)
None == FromNonConst(NULL)

(* What get_typecode may return: a new typecode, or that of a primitive.   *)
Made == {FromNonConst(tc) : tc \in Typecodes} \cup {FromConst(PrimitiveTC)}

(* An activation: how many parts it is done with, the locals for its base  *)
(* class or discriminator (baseTc, discTc), for its own typecode (safetc,  *)
(* aggregateTc, sparseTc) and for the next part (innerTc), and the         *)
(* DDS_UnionMember.type of the cases so far, which are raw pointers.       *)
Frames ==
  [type : Types, done : Nat, first : Made \cup {None},
   own : Made \cup {None}, inner : Made \cup {None},
   cases : Seq(Typecodes \cup {PrimitiveTC})]

Call(t) ==
  [type |-> t, done |-> 0, first |-> None, own |-> None, inner |-> None,
   cases |-> <<>>]

Top == calls[Len(calls)]
Below == SubSeq(calls, 1, Len(calls) - 1)
WithTop(c) == Append(Below, c)

LocalsOwn(c) == Owned(c.first) \cup Owned(c.own) \cup Owned(c.inner)
CasesHold(c) == {c.cases[i] : i \in DOMAIN c.cases} \ {PrimitiveTC}

Running(kinds) == calls # <<>> /\ Kind[Top.type] \in kinds

-----------------------------------------------------------------------------
(* Calls and returns.                                                      *)

(* The typecode of a part is what comes next: members are added to a       *)
(* typecode that exists, and that of a derived class needs its base's.     *)
NeedsPart(c) ==
  /\ c.done < Len(Parts[c.type])
  /\ c.inner = None
  /\ Kind[c.type] \in {"struct", "sparse"} => c.own # None
  /\ Kind[c.type] = "derived" => (c.own # None \/ c.done = 0)

(* An optional member declared a key.                                      *)
OptionalKey(c) ==
  /\ Kind[c.type] \in Aggregates
  /\ c.done + 1 \in Keys[c.type]
  /\ Kind[Parts[c.type][c.done + 1]] = "optional"

(* Every overload calls get_typecode of a part first, those of aggregates  *)
(* by TypelistIterator::add.                                               *)
GetPart ==
  /\ calls # <<>>
  /\ NeedsPart(Top)
  /\ ~OptionalKey(Top)
  /\ calls' = Append(calls, Call(Parts[Top.type][Top.done + 1]))
  /\ UNCHANGED <<result, typecodes, abandoned, broken>>

(* The caller receives s.                                                  *)
Deliver(c, s) ==
  IF Kind[c.type] \in {"derived", "union"} /\ c.done = 0
  THEN [c EXCEPT !.first = s, !.done = 1]
  ELSE [c EXCEPT !.inner = s]

Returns(s) ==
  IF Len(calls) = 1
  THEN calls' = <<>> /\ result' = s
  ELSE /\ calls' = [Below EXCEPT ![Len(Below)] = Deliver(@, s)]
       /\ UNCHANGED result

(* The innermost call returns s, which it has just created if it owns it;  *)
(* its locals are destroyed.                                               *)
ReturnNew(s) ==
  /\ s.is_shared_ \/ HasRoom
  /\ Returns(s)
  /\ Delete(typecodes \cup Owned(s), LocalsOwn(Top))
  /\ UNCHANGED <<abandoned, broken>>

-----------------------------------------------------------------------------
(* The overloads for types that are not aggregates.                        *)

GetPrimitive ==
  /\ Running({"primitive"})
  /\ ReturnNew(FromConst(PrimitiveTC))

GetString ==
  /\ Running({"string"})
  /\ ReturnNew(FromNonConst(New))

GetEnum ==
  /\ Running({"enum"})
  /\ ReturnNew(FromNonConst(New))

GetSequence ==
  /\ Running({"sequence", "vector"})
  /\ Top.inner # None
  /\ ReturnNew(FromNonConst(New))

GetRange ==
  /\ Running({"range"})
  /\ Top.inner # None
  /\ ReturnNew(FromNonConst(New))

GetArray ==
  /\ Running({"array"})
  /\ Top.inner # None
  /\ ReturnNew(FromNonConst(New))

(* clone_nonprimitive_tc of s, the typecode of t.                          *)
CloneNonprimitive(t, s) ==
  IF Kind[t] = "primitive" THEN FromConst(s.typecode_) ELSE FromNonConst(New)

GetOptional ==
  /\ Running({"optional"})
  /\ Top.inner # None
  /\ ReturnNew(CloneNonprimitive(Parts[Top.type][1], Top.inner))

GetSmartPtr ==
  /\ Running({"smart_ptr"})
  /\ Top.inner # None
  /\ ReturnNew(CloneNonprimitive(Parts[Top.type][1], Top.inner))

-----------------------------------------------------------------------------
(* Aggregates.                                                             *)

CreateOwn ==
  /\ Top.own = None
  /\ HasRoom
  /\ calls' = WithTop([Top EXCEPT !.own = FromNonConst(New)])
  /\ typecodes' = typecodes \cup {New}
  /\ UNCHANGED <<result, abandoned, broken>>

(* create_struct_tc.                                                       *)
CreateStruct ==
  /\ Running({"struct"})
  /\ CreateOwn

(* create_sparse_tc.                                                       *)
CreateSparse ==
  /\ Running({"sparse"})
  /\ CreateOwn

(* create_value_tc, when there is a baseTc.                                *)
CreateValue ==
  /\ Running({"derived"})
  /\ Top.done = 1
  /\ CreateOwn

(* add_member succeeds; innerTc goes out of scope.                         *)
AddMember ==
  /\ Running(Aggregates)
  /\ Top.inner # None
  /\ calls' = WithTop([Top EXCEPT !.inner = None, !.done = @ + 1])
  /\ Delete(typecodes, Owned(Top.inner))
  /\ UNCHANGED <<result, abandoned, broken>>

ReturnAggregate ==
  /\ Running(Aggregates)
  /\ Top.own # None
  /\ Top.inner = None
  /\ Top.done = Len(Parts[Top.type])
  /\ Returns(Top.own)
  /\ Delete(typecodes, Owned(Top.first))
  /\ UNCHANGED <<abandoned, broken>>

-----------------------------------------------------------------------------
(* Unions.                                                                 *)

(* case_add_impl: umember.type = get_typecode(...).release().              *)
AddCase ==
  /\ Running({"union"})
  /\ Top.inner # None
  /\ calls' = WithTop([Top EXCEPT
       !.inner = None, !.done = @ + 1,
       !.cases = Append(@, Released(Top.inner).typecode_)])
  /\ Delete(typecodes, Owned(Released(Top.inner)))
  /\ UNCHANGED <<result, abandoned, broken>>

(* Mutant: deleteTc_impl has no overload for primitive types.              *)
EveryCase(c) == {c.cases[i] : i \in DOMAIN c.cases}

(* Mutant: delete_typecodes stops before the last case.                    *)
AllButLastCase(c) ==
  {c.cases[i] : i \in {j \in DOMAIN c.cases :
     j < Len(c.cases) /\ Kind[Parts[c.type][j + 1]] # "primitive"}}

(* What delete_typecodes deletes: deleteTc_impl does nothing for a case of *)
(* a primitive type.                                                       *)
CasesToDelete(c) ==
  {c.cases[i] : i \in {j \in DOMAIN c.cases :
                         Kind[Parts[c.type][j + 1]] # "primitive"}}

(* create_union_tc succeeds, the typecodes of the cases are deleted and    *)
(* discTc is destroyed.                                                    *)
CreateUnion ==
  /\ Running({"union"})
  /\ Top.inner = None
  /\ Top.done = Len(Parts[Top.type])
  /\ HasRoom
  /\ Returns(FromNonConst(New))
  /\ Delete(typecodes \cup {New},
            (CasesToDelete(Top) \ {PrimitiveTC}) \cup Owned(Top.first))
  /\ broken' = IF PrimitiveTC \in CasesToDelete(Top)
               THEN broken \cup {Top.type} ELSE broken
  /\ UNCHANGED abandoned

-----------------------------------------------------------------------------
(* Exceptions.                                                             *)

(* The factory may fail, and does when the heap is full.                   *)
Fails(fault) == fault \in Faults \/ ~HasRoom

(* What the code does next may throw: a refused key, or the factory.       *)
MayThrow ==
  \/ NeedsPart(Top) /\ OptionalKey(Top)
  \/ Fails("create_tc") /\
     \/ Running({"string", "enum"})
     \/ Running({"struct", "sparse"}) /\ Top.own = None
     \/ Running({"derived"}) /\ Top.own = None /\ Top.done = 1
     \/ Running({"sequence", "vector", "range", "array"}) /\ Top.inner # None
     \/ Running({"union"}) /\ Top.inner = None
          /\ Top.done = Len(Parts[Top.type])
  \/ /\ Fails("clone_tc")
     /\ Running({"optional", "smart_ptr"})
     /\ Kind[Parts[Top.type][1]] # "primitive"
     /\ Top.inner # None
  \/ /\ "add_member" \in Faults
     /\ Running(Aggregates)
     /\ Top.inner # None

(* The exception leaves make_typecode.  The locals of every activation are *)
(* destroyed, the raw pointers forgotten.                                  *)
Throw ==
  /\ calls # <<>>
  /\ MayThrow
  /\ Delete(typecodes, UNION {LocalsOwn(calls[i]) : i \in DOMAIN calls})
  /\ abandoned' = abandoned
       \cup UNION {CasesHold(calls[i]) : i \in DOMAIN calls}
  /\ calls' = <<>>
  /\ UNCHANGED <<result, broken>>

-----------------------------------------------------------------------------

InitMake ==
  /\ typecodes = {}
  /\ calls = <<>>
  /\ result = None
  /\ abandoned = {}
  /\ broken = {}

(* make_typecode is called.                                                *)
StartMaking(t) ==
  /\ calls = <<>>
  /\ result = None
  /\ calls' = <<Call(t)>>
  /\ UNCHANGED <<result, typecodes, abandoned, broken>>

NextMake ==
  \/ GetPart
  \/ GetPrimitive \/ GetString \/ GetEnum
  \/ GetSequence \/ GetRange \/ GetArray
  \/ GetOptional \/ GetSmartPtr
  \/ CreateStruct \/ CreateSparse \/ CreateValue
  \/ AddMember \/ ReturnAggregate
  \/ AddCase \/ CreateUnion
  \/ Throw
=============================================================================
