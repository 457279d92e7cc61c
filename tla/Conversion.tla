----------------------------- MODULE Conversion -----------------------------
(***************************************************************************)
(* write_dynamicdata and read_dynamicdata (include/reflex.h) and the       *)
(* overloads of set_member_value and get_member_value behind them          *)
(* (dd_manip.h, tuple_iterator.h, dd_extra.cxx): one object of the         *)
(* application is written to and read from one DDS_DynamicData, and both   *)
(* may be used again and again.                                            *)
(*                                                                         *)
(* A step is an overload, up to its next call of set_member_value or       *)
(* get_member_value.  What is left to do is on a stack, with the           *)
(* destructors of the SafeBinders.                                         *)
(*                                                                         *)
(* The DDS_DynamicData (Connext) is what its members hold, by their path:  *)
(* ids of members and indexes of elements, in a union the case selected.   *)
(* A sequence holds its length.  What is not there has never been set.     *)
(***************************************************************************)
EXTENDS MatchUnion, FiniteSets

CONSTANTS
  Roots,     \* the types T that are converted
  Values,    \* the values of leaves other than the default, by type
  MaxLen,    \* bound: the lengths of sequences the application has
  ArrayLen,  \* the length of arrays
  Faults     \* the calls of the middleware that may fail, of FaultKinds

FaultKinds == {"set_member", "get_member"}

ASSUME ConversionConstants ==
  /\ Roots \subseteq {t \in Types : Kind[t] \in {"struct", "derived"}}
  /\ Values \in [Types -> SUBSET (Nat \ {0})]
  /\ MaxLen \in Nat
  /\ ArrayLen \in Nat
  /\ Faults \subseteq FaultKinds
  /\ \A t \in Types : Kind[t] = "sparse" =>
       \A k \in DOMAIN Parts[t] : Kind[Parts[t][k]] = "optional"

VARIABLES
  root,      \* T
  object,    \* the T
  instance,  \* the DDS_DynamicData
  todo,      \* what is left to do, the next step first
  bound,     \* instances bound by bind_complex_member, innermost last
  call,      \* the latest call: what, whether the T was fresh, how it ended
  message    \* history: what was written, how much, whether on a blank one

vars == <<root, object, instance, todo, bound, call, message>>

-----------------------------------------------------------------------------
(* Objects of the application, node by node.  place is the path without    *)
(* regard to where the data of a union's case are.                         *)

Node(t, p, place) == [type |-> t, path |-> p, place |-> place]

Part(n, k, i) ==
  Node(Parts[n.type][k], Append(n.path, i), Append(n.place, i))

LengthOf(s, n) == IF Kind[n.type] = "array" THEN ArrayLen ELSE At(s.value, n.path)

Inside(s, n) ==
  CASE Kind[n.type] \in Leaves -> {}
    [] Kind[n.type] \in Aggregates ->
         {Part(n, k, k) : k \in DOMAIN Parts[n.type]}
    [] Kind[n.type] \in Wrappers -> {Part(n, 1, i) : i \in 1..LengthOf(s, n)}
    [] Kind[n.type] = "union" ->
         {Node(CaseType(n.type, c), DataOf(s, n.type, n.path, c),
               Append(n.place, c)) :
            c \in {CaseHeld(s, n.type, n.path)} \cap 1..NCases(n.type)}

Nodes(s) ==
  LET Reach[n \in [type : Types, path : Paths, place : Paths]] ==
        {n} \cup UNION {Reach[m] : m \in Inside(s, n)}
  IN Reach[Node(root, <<>>, <<>>)]

(* Whether set_member_value sets anything: it does not for an empty vector *)
(* of primitives, nor for an optional, a pointer or a union with one.      *)
Sets(s, n) ==
  LET Something[m \in [type : Types, path : Paths, place : Paths]] ==
        /\ Kind[m.type] = "vector" => LengthOf(s, m) > 0
        /\ Kind[m.type] \in {"optional", "smart_ptr", "union"} =>
             \E k \in Inside(s, m) : Something[k]
  IN Something[n]

ValueOf(s, n) ==
  IF ~Sets(s, n) THEN 0
  ELSE IF Kind[n.type] = "union" THEN CaseHeld(s, n.type, n.path)
  ELSE At(s.value, n.path)

Contents(s) ==
  {[place |-> n.place, type |-> n.type, value |-> ValueOf(s, n)] :
     n \in Nodes(s)}

(* A sequence, optional or smart pointer now has n parts, a leaf value n.  *)
Resized(s, p, n) ==
  LET gone == {q \in Held(s) : IsIn(q, p) /\ q[Len(p) + 1] > n}
  IN [Without(s, gone) EXCEPT
        !.value = IF n = 0 THEN Only(@, DOMAIN @ \ {p}) ELSE Put(@, p, n)]

-----------------------------------------------------------------------------
(* Members.                                                                *)

Inherits(t) == Kind[t] = "derived"
OwnMembers(t) == IF Inherits(t) THEN Tail(Parts[t]) ELSE Parts[t]

(* Mutant: the members of the base's own bases are not counted.            *)
MembersInDirectBase ==
  [t \in Types |-> IF Inherits(t) THEN Len(OwnMembers(Parts[t][1])) ELSE 0]

MembersInBases ==
  LET Count[t \in Types] ==
        IF Inherits(t) THEN Count[Parts[t][1]] + Len(OwnMembers(Parts[t][1]))
        ELSE 0
  IN Count

(* A step: set_member_value or get_member_value of a t at o, and where it  *)
(* is in the DDS_DynamicData; case says that it is the case of a union.    *)
Step(op, t, o, i) == [op |-> op, type |-> t, o |-> o, i |-> i, case |-> FALSE]

(* TypelistIterator::set and get of the members of a class, by its base,   *)
(* for which op is base, on the same instance i; then its own, from id     *)
(* MembersInBases + 1 on.                                                  *)
StepPerMember(op, base, t, o, i) ==
  LET shift == IF Inherits(t) THEN 1 ELSE 0
  IN (IF Inherits(t) THEN <<Step(base, Parts[t][1], Append(o, 1), i)>>
      ELSE <<>>)
     \o [k \in DOMAIN OwnMembers(t) |->
           Step(op, OwnMembers(t)[k], Append(o, k + shift),
                Append(i, MembersInBases[t] + k))]

SetMembers(t, o, i) == StepPerMember("set", "set_base", t, o, i)
GetMembers(t, o, i) == StepPerMember("get", "get_base", t, o, i)

StepPerElement(op, e, n) ==
  [k \in 1..n |-> Step(op, Parts[e.type][1], Append(e.o, k), Append(e.i, k))]

Current == Head(todo)
Doing(op, kinds) ==
  /\ todo # <<>>
  /\ call.ended = "running"
  /\ Current.op = op
  /\ Kind[Current.type] \in kinds

ElementType == Parts[Current.type][1]
Primitive(t) == Kind[t] \in {"primitive", "enum"}

Continue(steps) == todo' = steps \o Tail(todo)

(* The instance with v at Current.i; a case of a union deselects another.  *)
WithMember(v) ==
  LET others ==
        {q \in DOMAIN instance :
           Current.case /\ IsIn(q, Front(Current.i)) /\ ~IsAt(q, Current.i)}
  IN Put(Only(instance, DOMAIN instance \ others), Current.i, v)

(* Mutant: the SafeBinder is a temporary.                                  *)
BindTemporary(steps) ==
  /\ bound' = Append(bound, Current.i)
  /\ Continue(<<[Current EXCEPT !.op = "unbind"]>> \o steps)

(* SafeBinder around steps; the destructor unbinds.  Binding a member to   *)
(* be set makes it exist.                                                  *)
Bind(steps) ==
  /\ bound' = Append(bound, Current.i)
  /\ Continue(Append(steps, [Current EXCEPT !.op = "unbind"]))

BindToSet(steps) ==
  /\ Bind(steps)
  /\ instance' = WithMember(At(instance, Current.i))
  /\ UNCHANGED <<root, object, call, message>>

Unbind ==
  /\ todo # <<>>
  /\ Current.op = "unbind"
  /\ bound' = Front(bound)
  /\ Continue(<<>>)
  /\ UNCHANGED <<root, object, instance, call, message>>

-----------------------------------------------------------------------------
(* set_member_value.                                                       *)

Set(i) ==
  /\ instance' = i
  /\ Continue(<<>>)
  /\ UNCHANGED <<root, object, bound, call, message>>

SetLeaf == Set(WithMember(At(object.value, Current.o)))

SetPrimitive == Doing("set", {"primitive"}) /\ SetLeaf
SetString == Doing("set", {"string"}) /\ SetLeaf
SetEnum == Doing("set", {"enum"}) /\ SetLeaf

(* write_dynamicdata_impl of a base.                                       *)
SetBase ==
  /\ Doing("set_base", {"struct", "derived"})
  /\ Continue(SetMembers(Current.type, Current.o, Current.i))
  /\ UNCHANGED <<root, object, instance, bound, call, message>>

(* The constructor of SafeBinder, then write_dynamicdata of the inner one. *)
SetStruct ==
  /\ Doing("set", {"struct", "derived"})
  /\ BindToSet(SetMembers(Current.type, Current.o, Current.i))

SetSparse ==
  /\ Doing("set", {"sparse"})
  /\ BindToSet(SetMembers(Current.type, Current.o, Current.i))

(* set_sequence, set_array of n values replace what there was.             *)
SetAll(n) ==
  LET i == Current.i
      kept == {q \in DOMAIN instance : ~IsIn(q, i)}
      whole == Only(WithMember(n), kept \cup {i})
      elements == {Append(i, k) : k \in 1..n}
  IN Set([q \in DOMAIN whole \cup elements |->
            IF q \in elements
            THEN At(object.value, Append(Current.o, q[Len(q)]))
            ELSE whole[q]])

SetPrimitiveSequence ==
  /\ Doing("set", {"sequence"})
  /\ Primitive(ElementType)
  /\ SetAll(At(object.value, Current.o))

(* std::vector of primitives.                                              *)
SetVector ==
  /\ Doing("set", {"vector"})
  /\ LET n == At(object.value, Current.o)
     IN IF n > 0 THEN SetAll(n)
        ELSE Continue(<<>>)
             /\ UNCHANGED <<root, object, instance, bound, call, message>>

SetPrimitiveRange ==
  /\ Doing("set", {"range"})
  /\ Primitive(ElementType)
  /\ SetAll(At(object.value, Current.o))

SetPrimitiveArray ==
  /\ Doing("set", {"array"})
  /\ Primitive(ElementType)
  /\ SetAll(ArrayLen)

(* What set_seq_length may make the length, if the container has n         *)
(* elements: binding an element makes the sequence that long, if it stays  *)
(* when nothing is written to it; strings are left alone.  Then elements   *)
(* are written by index.                                                   *)
LengthsFor(n) ==
  LET before == At(instance, Current.i)
      after == IF before > n THEN before ELSE n
  IN IF n = 0 /\ before = 0 /\ Kind[ElementType] # "string" THEN {0, 1}
     ELSE {after}

SetElements ==
  LET n == At(object.value, Current.o)
  IN /\ Bind(StepPerElement("set", Current, n))
     /\ \E length \in LengthsFor(n) : instance' = WithMember(length)
     /\ UNCHANGED <<root, object, call, message>>

SetSequence ==
  /\ Doing("set", {"sequence"})
  /\ ~Primitive(ElementType)
  /\ SetElements

SetRange ==
  /\ Doing("set", {"range"})
  /\ ~Primitive(ElementType)
  /\ SetElements

SetArray ==
  /\ Doing("set", {"array"})
  /\ ~Primitive(ElementType)
  /\ BindToSet(StepPerElement("set", Current, ArrayLen))

(* *opt and *val are set in the same place.                                *)
Pointed ==
  [Current EXCEPT !.type = ElementType, !.o = Append(Current.o, 1)]

SetOptional ==
  /\ Doing("set", {"optional"})
  /\ Continue(IF At(object.value, Current.o) = 1 THEN <<Pointed>> ELSE <<>>)
  /\ UNCHANGED <<root, object, instance, bound, call, message>>

SetSmartPtr ==
  /\ Doing("set", {"smart_ptr"})
  /\ At(object.value, Current.o) = 1
  /\ Continue(<<Pointed>>)
  /\ UNCHANGED <<root, object, instance, bound, call, message>>

(* An empty union is only bound.                                           *)
SetUnion ==
  /\ Doing("set", {"union"})
  /\ BindToSet(IF IsEmpty(object, Current.o) THEN <<>>
               ELSE <<[Current EXCEPT !.op = "set_union", !.case = FALSE]>>)

StepForCase(op, o, c) ==
  [op |-> op, type |-> CaseType(Current.type, c), o |-> o,
   i |-> Append(Current.i, c), case |-> TRUE]

SetUnionCase ==
  /\ Doing("set_union", {"union"})
  /\ ~SetUnionThrows(object, Current.type, Current.o)
  /\ LET c == CaseToSet(object, Current.type, Current.o)
     IN Continue(<<StepForCase(
          "set", DataOf(object, Current.type, Current.o, c), c)>>)
  /\ UNCHANGED <<root, object, instance, bound, call, message>>

-----------------------------------------------------------------------------
(* get_member_value.                                                       *)

Get(s) ==
  /\ object' = s
  /\ Continue(<<>>)
  /\ UNCHANGED <<root, instance, bound, call, message>>

GetLeaf == Get(Resized(object, Current.o, At(instance, Current.i)))

GetPrimitive == Doing("get", {"primitive"}) /\ GetLeaf
GetString == Doing("get", {"string"}) /\ GetLeaf
GetEnum == Doing("get", {"enum"}) /\ GetLeaf

BindToGet(s, steps) ==
  /\ Bind(steps)
  /\ object' = s
  /\ UNCHANGED <<root, instance, call, message>>

(* read_dynamicdata_impl of a base.                                        *)
GetBase ==
  /\ Doing("get_base", {"struct", "derived"})
  /\ Continue(GetMembers(Current.type, Current.o, Current.i))
  /\ UNCHANGED <<root, object, instance, bound, call, message>>

GetStruct ==
  /\ Doing("get", {"struct", "derived"})
  /\ BindToGet(object, GetMembers(Current.type, Current.o, Current.i))

GetSparse ==
  /\ Doing("get", {"sparse"})
  /\ BindToGet(object, GetMembers(Current.type, Current.o, Current.i))

(* Mutant: right_size is forgotten.                                        *)
WrongSize(n) == {object}

(* right_size: a vector or a list keeps the elements it has, other         *)
(* containers are made anew.                                               *)
RightSizes(n) ==
  {Resized(object, Current.o, n),
   Resized(Resized(object, Current.o, 0), Current.o, n)}

(* copy_primitive_seq of n elements, the sequence being as in s.           *)
WithElements(s, n) ==
  LET kept == {q \in DOMAIN s.value : ~IsIn(q, Current.o)
                                      \/ q[Len(Current.o) + 1] > n}
      elements == {Append(Current.o, k) : k \in
                     {k \in 1..n : At(instance, Append(Current.i, k)) # 0}}
  IN [s EXCEPT !.value = [q \in kept \cup elements |->
        IF q \in elements THEN instance[Append(Current.i, q[Len(q)])]
        ELSE @[q]]]

(* What get_sequence or get_array reads there.                             *)
GetAll(n) == Get(WithElements(Resized(object, Current.o, n), n))

GetPrimitiveSequence ==
  /\ Doing("get", {"sequence"})
  /\ Primitive(ElementType)
  /\ GetAll(At(instance, Current.i))

(* std::vector of primitives.                                              *)
GetVector ==
  /\ Doing("get", {"vector"})
  /\ GetAll(At(instance, Current.i))

GetPrimitiveArray ==
  /\ Doing("get", {"array"})
  /\ Primitive(ElementType)
  /\ Get(WithElements(object, ArrayLen))

GetSequence ==
  /\ Doing("get", {"sequence"})
  /\ ~Primitive(ElementType)
  /\ LET n == At(instance, Current.i)
     IN \E s \in RightSizes(n) :
          BindToGet(s, StepPerElement("get", Current, n))

(* The range must be long enough; what is behind the elements stays.       *)
Insufficient(e) ==
  Kind[e.type] = "range" /\ At(object.value, e.o) < At(instance, e.i)

GetPrimitiveRange ==
  /\ Doing("get", {"range"})
  /\ Primitive(ElementType)
  /\ ~Insufficient(Current)
  /\ Get(WithElements(object, At(instance, Current.i)))

GetRange ==
  /\ Doing("get", {"range"})
  /\ ~Primitive(ElementType)
  /\ ~Insufficient(Current)
  /\ BindToGet(object,
               StepPerElement("get", Current, At(instance, Current.i)))

GetArray ==
  /\ Doing("get", {"array"})
  /\ ~Primitive(ElementType)
  /\ BindToGet(object, StepPerElement("get", Current, ArrayLen))

(* Reading into *opt or *val, which is initialised if need be.             *)
GetPointed ==
  /\ object' = IF At(object.value, Current.o) = 1 THEN object
               ELSE Resized(object, Current.o, 1)
  /\ Continue(<<Pointed>>)

(* Mutant: member_exists is not asked.                                     *)
GetOptionalAlways ==
  /\ Doing("get", {"optional"})
  /\ GetPointed
  /\ UNCHANGED <<root, instance, bound, call, message>>

GetOptional ==
  /\ Doing("get", {"optional"})
  /\ IF Current.i \in DOMAIN instance THEN GetPointed
     ELSE Continue(<<>>) /\ UNCHANGED object
  /\ UNCHANGED <<root, instance, bound, call, message>>

GetSmartPtr ==
  /\ Doing("get", {"smart_ptr"})
  /\ GetPointed
  /\ UNCHANGED <<root, instance, bound, call, message>>

GetUnion ==
  /\ Doing("get", {"union"})
  /\ BindToGet(object, <<[Current EXCEPT !.op = "get_union", !.case = FALSE]>>)

(* The case selected in the instance of the union at i, 0 if none.         *)
Selected(t, i) ==
  FirstOf({c \in 1..NCases(t) : Append(i, c) \in DOMAIN instance})

(* get_member_info_by_index gives the discriminator as the bits of a tag.  *)
MemberId(e) ==
  Discriminator(e.type, Selected(e.type, e.i)) % TagSize[e.type]

(* Mutant: no static_cast.                                                 *)
NoCast(e) == IntCast(MemberId(e))

(* static_cast makes it a TagType again, whose value becomes an int.       *)
DiscriminatorValue(e) == IntCast(TagCast(e.type, MemberId(e)))

(* The case it matches, 0 if none.                                         *)
CaseRead(e) ==
  IF Selected(e.type, e.i) = 0 THEN 0
  ELSE CaseToGet(e.type, DiscriminatorValue(e))

GetUnionCase ==
  /\ Doing("get_union", {"union"})
  /\ CaseRead(Current) # 0
  /\ LET t == Current.type
         o == Current.o
         c == CaseRead(Current)
     IN IF HasPointer(object, t, o, c)
        THEN /\ Continue(<<StepForCase("get", Pointee(t, o, c), c),
                           [Current EXCEPT !.op = "activate",
                                           !.i = Append(@, c)]>>)
             /\ UNCHANGED object
        ELSE /\ object' = WithVariant(object, t, o, c)
             /\ Continue(<<StepForCase("get", Append(o, c), c)>>)
  /\ UNCHANGED <<root, instance, bound, call, message>>

(* Mutant: set_active_index is forgotten.                                  *)
ForgetToActivate ==
  /\ Doing("activate", {"union"})
  /\ Get([object EXCEPT !.meant = Put(@, Current.o, Last(Current.i))])

(* set_active_index(I), after the case was read through its pointer.       *)
Activate ==
  /\ Doing("activate", {"union"})
  /\ LET c == Last(Current.i)
     IN Get([SetActiveIndex(object, Current.o, c - 1) EXCEPT
               !.meant = Put(@, Current.o, c)])

-----------------------------------------------------------------------------
(* Exceptions and returns.                                                 *)

NoCall == [what |-> "none", fresh |-> FALSE, ended |-> "returned"]
NoMessage ==
  [written |-> {}, whole |-> FALSE, blank |-> FALSE,
   mixed |-> FALSE]

(* A call of the middleware fails.  Overloads that only look at the object *)
(* make none; get_sequence is called if there is an element.               *)
CallFails ==
  /\ Kind[Current.type] \notin {"optional", "smart_ptr"}
  /\ \/ /\ "set_member" \in Faults
        /\ Current.op = "set"
        /\ Kind[Current.type] = "vector" => At(object.value, Current.o) > 0
     \/ /\ "get_member" \in Faults
        /\ Current.op = "get"
        /\ \/ Kind[Current.type] = "vector"
           \/ Kind[Current.type] \in {"sequence", "range"}
                /\ Primitive(ElementType)
           => At(instance, Current.i) > 0

CodeThrows ==
  \/ /\ Doing("set", {"smart_ptr"})
     /\ At(object.value, Current.o) = 0
  \/ /\ Doing("get", {"range"})
     /\ Insufficient(Current)
  \/ /\ Doing("set_union", {"union"})
     /\ SetUnionThrows(object, Current.type, Current.o)
  \/ /\ Doing("get_union", {"union"})
     /\ CaseRead(Current) = 0

Throw ==
  /\ todo # <<>>
  /\ call.ended = "running"
  /\ CallFails \/ CodeThrows
  /\ call' = [call EXCEPT !.ended = "thrown"]
  /\ message' = IF call.what = "write" THEN NoMessage ELSE message
  /\ Continue(<<>>)
  /\ UNCHANGED <<root, object, instance, bound>>

(* After an exception only the destructors of the SafeBinders run.         *)
Unwind ==
  /\ todo # <<>>
  /\ call.ended = "thrown"
  /\ Current.op # "unbind"
  /\ Continue(<<>>)
  /\ UNCHANGED <<root, object, instance, bound, call, message>>

Return ==
  /\ todo = <<>>
  /\ call.ended = "running"
  /\ call' = [call EXCEPT !.ended = "returned"]
  /\ message' = IF call.what = "write" THEN [message EXCEPT !.whole = TRUE]
                ELSE message
  /\ UNCHANGED <<root, object, instance, todo, bound>>

-----------------------------------------------------------------------------
(* The application, between calls.                                         *)

Idle == todo = <<>> /\ call.ended # "running"

(* write_dynamicdata.                                                      *)
Write ==
  /\ Idle
  /\ todo' = SetMembers(root, <<>>, <<>>)
  /\ call' = [what |-> "write", fresh |-> FALSE, ended |-> "running"]
  /\ message' = [written |-> Contents(object), whole |-> FALSE,
                 blank |-> instance = <<>>, mixed |-> object.mixed]
  /\ UNCHANGED <<root, object, instance, bound>>

(* read_dynamicdata.                                                       *)
Read ==
  /\ Idle
  /\ todo' = GetMembers(root, <<>>, <<>>)
  /\ call' = [what |-> "read", fresh |-> object.fresh, ended |-> "running"]
  /\ object' = [object EXCEPT !.fresh = FALSE]
  /\ UNCHANGED <<root, instance, bound, message>>

NewInstance ==
  /\ Idle
  /\ instance' = <<>>
  /\ message' = NoMessage
  /\ call' = NoCall
  /\ UNCHANGED <<root, object, todo, bound>>

Change(s) ==
  /\ object' = s
  /\ call' = NoCall
  /\ UNCHANGED <<root, instance, todo, bound, message>>

NewObject == Idle /\ Change(Default)

Sizes(t) ==
  CASE Kind[t] \in Leaves -> Values[t] \cup {0}
    [] Kind[t] \in {"sequence", "vector", "range"} -> 0..MaxLen
    [] Kind[t] \in {"optional", "smart_ptr"} -> {0, 1}
    [] OTHER -> {}

Assign(n, v) ==
  /\ v # At(object.value, n.path)
  /\ Change([Resized(object, n.path, v) EXCEPT
               !.fresh = @ /\ Kind[n.type] = "range"])

(* The operations of match::Union.  A Case leaves any index behind: where  *)
(* there is a case in the variant, an index that is none acts like -1.     *)
UseUnion(t, o) ==
  \/ \E c \in 1..NCases(t) :
       \/ Change(AssignVariant(object, t, o, c))
       \/ \E a \in -1..NCases(t) - 1 : Change(AssignCase(object, t, o, c, a))
       \/ \E P \in SUBSET (1..NCases(t)) :
            c \in P /\ Change(SetCaseptrTupleForWriting(object, t, o, P, c))
  \/ \E P \in SUBSET (1..NCases(t)) :
       Change(SetCaseptrTupleForReading(object, t, o, P))
  \/ Change(ResetCaseptrTuple(object, o))

-----------------------------------------------------------------------------

Init ==
  /\ root \in Roots
  /\ object = Default
  /\ instance = <<>>
  /\ todo = <<>>
  /\ bound = <<>>
  /\ call = NoCall
  /\ message = NoMessage

SetMember ==
  \/ SetPrimitive \/ SetString \/ SetEnum
  \/ SetBase \/ SetStruct \/ SetSparse
  \/ SetPrimitiveSequence \/ SetVector \/ SetPrimitiveRange
  \/ SetPrimitiveArray
  \/ SetSequence \/ SetRange \/ SetArray
  \/ SetOptional \/ SetSmartPtr
  \/ SetUnion \/ SetUnionCase

GetMember ==
  \/ GetPrimitive \/ GetString \/ GetEnum
  \/ GetBase \/ GetStruct \/ GetSparse
  \/ GetPrimitiveSequence \/ GetVector \/ GetPrimitiveRange
  \/ GetPrimitiveArray
  \/ GetSequence \/ GetRange \/ GetArray
  \/ GetOptional \/ GetSmartPtr
  \/ GetUnion \/ GetUnionCase \/ Activate

Next ==
  \/ Write \/ SetMember
  \/ Read \/ GetMember
  \/ Unbind \/ Throw \/ Unwind \/ Return
  \/ NewInstance \/ NewObject
  \/ Idle /\ \E n \in Nodes(object), t \in Types :
       /\ n.type = t
       /\ \/ \E v \in Sizes(t) : Assign(n, v)
          \/ Kind[t] = "union" /\ UseUnion(t, n.path)

Spec == Init /\ [][Next]_vars

-----------------------------------------------------------------------------
(* Properties.                                                             *)

Ops ==
  {"set", "get", "set_base", "get_base", "set_union", "get_union", "activate",
   "unbind"}

TypeOK ==
  /\ root \in Roots
  /\ DOMAIN object.value \subseteq Paths
  /\ \A n \in Nodes(object) :
       Kind[n.type] \in Leaves =>
         At(object.value, n.path) \in Values[n.type] \cup {0}
  /\ DOMAIN object.active_index_ \subseteq Paths
  /\ DOMAIN object.meant \subseteq Paths
  /\ object.caseptr_tuple_ \subseteq Paths
  /\ object.mixed \in BOOLEAN
  /\ object.fresh \in BOOLEAN
  /\ DOMAIN instance \subseteq Paths
  /\ todo \in Seq([op : Ops, type : Types, o : Paths, i : Paths,
                   case : BOOLEAN])
  /\ bound \in Seq(Paths)
  /\ call \in [what : {"none", "write", "read"}, fresh : BOOLEAN,
               ended : {"running", "returned", "thrown"}]
  /\ message.whole \in BOOLEAN
  /\ message.blank \in BOOLEAN
  /\ message.mixed \in BOOLEAN

(* The instance a step uses.                                               *)
UsedBy(e) == IF e.op \in {"set", "get", "activate"} THEN Front(e.i) ELSE e.i

Innermost == IF bound = <<>> THEN <<>> ELSE Last(bound)

(* Bound instances are members of each other, only the innermost is used,  *)
(* SafeBinders unbind the one bound last, and all of them do, whether the  *)
(* conversion returns or throws.                                           *)
BindDiscipline ==
  /\ \A k \in DOMAIN bound :
       Front(bound[k]) = IF k = 1 THEN <<>> ELSE bound[k - 1]
  /\ todo # <<>> => UsedBy(Current) = Innermost
  /\ todo = <<>> => bound = <<>>

(* What was written, and is not an empty vector, an optional, a pointer or *)
(* a union with nothing to set.                                            *)
Arrived(x, contents) ==
  CASE Kind[x.type] \in {"sequence", "range"} ->
         \E y \in contents : y.place = x.place /\ y.value >= x.value
    [] Kind[x.type] \in {"vector", "optional", "smart_ptr", "union"} ->
         x.value # 0 => x \in contents
    [] OTHER -> x \in contents

(* The tags a case may be written with, the default case with the -1 of    *)
(* its discriminator.                                                      *)
Tags(t, c) ==
  IF Labels[t][c] = <<>> THEN {TagCast(t, -1)} ELSE Range(Labels[t][c])

(* Labels that are values of the tag type and tell the cases apart; nobody *)
(* checks them.                                                            *)
LabelsTellApart(t) ==
  \A c \in 1..NCases(t) :
    /\ \A tag \in Tags(t, c) : TagCast(t, tag) = tag
    /\ \A d \in 1..NCases(t) \ {c} : Tags(t, c) \cap Tags(t, d) = {}

WholeRead ==
  /\ \A t \in Types : Kind[t] = "union" => LabelsTellApart(t)
  /\ call.what = "read"
  /\ call.ended = "returned"
  /\ message.whole
  /\ ~message.mixed
  /\ ~object.mixed

(* After a write and a read that both return, all that was written is      *)
(* where it was, whatever the instance and the object held before.         *)
AllArrives ==
  WholeRead => \A x \in message.written : Arrived(x, Contents(object))

(* A range may be longer than needed, and set_seq_length leave an element. *)
Slack(y, x) ==
  \/ Kind[x.type] = "range" /\ IsAt(y.place, x.place)
  \/ /\ Kind[x.type] = "sequence"
     /\ x.value = 0
     /\ IsIn(y.place, x.place) \/ (y.place = x.place /\ y.value <= 1)

(* If the instance was blank and the object fresh, there is nothing else.  *)
NothingElseArrives ==
  WholeRead /\ call.fresh /\ message.blank =>
    \A y \in Contents(object) :
      y \in message.written \/ \E x \in message.written : Slack(y, x)

(* As long as no case is in a variant and behind a case pointer at once, a *)
(* union writes the case the application or the last read put into it, or  *)
(* none: an active index that is stale or was never initialised makes      *)
(* set_union throw.                                                        *)
UnionTruth ==
  ~object.mixed =>
    \A n \in Nodes(object) :
      Kind[n.type] = "union" /\ ~SetUnionThrows(object, n.type, n.path) =>
        object.meant[n.path] = CaseToSet(object, n.type, n.path)

(* The -1 of a default case is an int -1 again after it has been a tag,    *)
(* unless the tag is unsigned and narrower than an int.                    *)
DefaultSurvives(t) == t \in Signed \/ TagSize[t] >= IntSize

(* The case that was selected when a union was written is the one that is  *)
(* read, but for the default case of a union whose tag is unsigned and     *)
(* narrower than an int: that is refused.  The labels must tell the cases  *)
(* apart.                                                                  *)
UnionReadsBack ==
  /\ todo # <<>>
  /\ Current.op = "get_union"
  /\ LabelsTellApart(Current.type)
  => LET c == Selected(Current.type, Current.i)
     IN CaseRead(Current) =
          IF c # 0 /\ (Labels[Current.type][c] = <<>>
                         => DefaultSurvives(Current.type))
          THEN c ELSE 0
=============================================================================
