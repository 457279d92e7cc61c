----------------------------- MODULE TypeManager -----------------------------
(***************************************************************************)
(* reflex::TypeManager (include/reflex/type_manager.h) and its clients: a  *)
(* manager owns the typecode make_typecode builds and shares the type      *)
(* support created from it, or borrows the type support of another one;    *)
(* SafeDynamicData objects borrow the type support of a manager.           *)
(*                                                                         *)
(* The application has SafeTypeCode objects of its own, and reaches that   *)
(* of a manager by get_safe_typecode, which is not const.  It creates,     *)
(* copies, moves, assigns, releases and destroys them in any order; a      *)
(* program that is scoped does not assign or move, and destroys its        *)
(* objects in the reverse order of their construction.  Moves are those of *)
(* a build with REFLEX_HAS_RVALUE_REF.                                     *)
(*                                                                         *)
(* DDSDynamicDataTypeSupport (Connext) clones the typecode it is given:    *)
(* that clone lives as long as the support and is represented by its       *)
(* address.                                                                *)
(***************************************************************************)
EXTENDS MakeTypecode

CONSTANTS
  Managers,  \* variables of type TypeManager<T>
  SafeTcs,   \* variables of type SafeTypeCode<T>
  Data,      \* variables of type SafeDynamicData<T>
  Roots,     \* the types T may be
  MaxLeft    \* bound: the typecodes left behind, or with the application

Supports == Foreign
Holders == Managers \cup SafeTcs
Objects == Holders \cup Data

ASSUME TypeManagerConstants ==
  /\ Managers \cap SafeTcs = {}
  /\ Holders \cap Data = {}
  /\ Roots \subseteq Types

VARIABLES
  root,           \* T
  scoped,
  exists,         \* the objects that have been constructed, not destroyed
  order,          \* the same in the order of construction, if scoped
  safe_typecode,  \* _safe_typecode of managers, and the SafeTcs
  type_support,   \* _type_support of managers and of the SafeDynamicData
  counted,        \* managers whose _type_support deletes the support
  raw             \* what release gave the application to delete

building == <<calls, result, abandoned, broken>>
objects == <<exists, order, safe_typecode, type_support, counted>>
vars == <<typecodes, building, root, scoped, objects, raw>>

Idle == calls = <<>> /\ result = None

(* shared_ptr: the support is deleted with the last manager that counts.   *)
Alive(s) ==
  \E m \in counted : type_support[m] = s

UsedBy(x) ==
  (IF x \in Holders /\ safe_typecode[x].typecode_ \in Supports
   THEN {safe_typecode[x].typecode_} ELSE {})
    \cup (IF x \in SafeTcs THEN {} ELSE {type_support[x]} \ {NULL})

FreeSupports == Supports \ UNION {UsedBy(x) : x \in exists}

-----------------------------------------------------------------------------
(* Construction and destruction.                                           *)

Appears(x) ==
  /\ x \notin exists
  /\ exists' = exists \cup {x}
  /\ order' = IF scoped THEN Append(order, x) ELSE order

Disappears(x) ==
  /\ x \in exists
  /\ scoped => x = order[Len(order)]
  /\ exists' = exists \ {x}
  /\ order' = IF scoped THEN SubSeq(order, 1, Len(order) - 1) ELSE order

Making ==
  /\ NextMake
  /\ UNCHANGED <<root, scoped, objects, raw>>

(* TypeManager(props), or an application's make_typecode: the typecode is  *)
(* built first.                                                            *)
BeginConstruct ==
  /\ Holders \ exists # {}
  /\ FreeSupports # {}
  /\ Cardinality(abandoned) < MaxLeft
  /\ StartMaking(root)
  /\ UNCHANGED <<root, scoped, objects, raw>>

(* Mutant: the support is an object of the constructor.                    *)
LocalSupport(m) ==
  /\ type_support' = [type_support EXCEPT
       ![m] = CHOOSE s \in FreeSupports : TRUE]
  /\ UNCHANGED counted

(* std::make_shared<DDSDynamicDataTypeSupport>.                            *)
NewSupport(m) ==
  /\ type_support' = [type_support EXCEPT
       ![m] = CHOOSE s \in FreeSupports : TRUE]
  /\ counted' = counted \cup {m}

Construct(h) ==
  /\ result # None
  /\ Appears(h)
  /\ safe_typecode' = [safe_typecode EXCEPT ![h] = result]
  /\ result' = None
  /\ IF h \in Managers THEN NewSupport(h)
     ELSE UNCHANGED <<type_support, counted>>
  /\ UNCHANGED <<typecodes, calls, abandoned, broken, root, scoped, raw>>

(* TypeManager(support), with the support of n.                            *)
Borrow(m, n) ==
  /\ Idle
  /\ n \in exists
  /\ type_support[n] # NULL
  /\ Alive(type_support[n])
  /\ Appears(m)
  /\ safe_typecode' =
       [safe_typecode EXCEPT ![m] = FromConst(type_support[n])]
  /\ type_support' = [type_support EXCEPT ![m] = type_support[n]]
  /\ UNCHANGED <<typecodes, building, root, scoped, counted, raw>>

(* What the implicit copy and move do to _type_support; a SafeTc has none. *)
ShareSupport(h, g) ==
  IF h \in Managers
  THEN /\ type_support' = [type_support EXCEPT ![h] = type_support[g]]
       /\ counted' = IF g \in counted THEN counted \cup {h} ELSE counted \ {h}
  ELSE UNCHANGED <<type_support, counted>>

TakeSupport(h, g) ==
  IF h \in Managers
  THEN /\ type_support' =
            [type_support EXCEPT ![g] = NULL, ![h] = type_support[g]]
       /\ counted' = IF g \in counted THEN (counted \ {g}) \cup {h}
                     ELSE counted \ {h}
  ELSE UNCHANGED <<type_support, counted>>

(* A SafeTc may also be copied or moved from the typecode of a manager.    *)
Source(h, g) == h \in Managers => g \in Managers

(* The copy constructors.                                                  *)
CopyConstruct(h, g) ==
  /\ Idle
  /\ g \in exists
  /\ Source(h, g)
  /\ MayCopy(safe_typecode[g])
  /\ Appears(h)
  /\ typecodes' = WithCopyOf(safe_typecode[g])
  /\ safe_typecode' =
       [safe_typecode EXCEPT ![h] = CopyOf(safe_typecode[g])]
  /\ ShareSupport(h, g)
  /\ UNCHANGED <<building, root, scoped, raw>>

(* Copy assignment: swap with a copy, which is destroyed.                  *)
CopyAssign(h, g) ==
  /\ Idle
  /\ ~scoped
  /\ h \in exists
  /\ g \in exists
  /\ Source(h, g)
  /\ MayCopy(safe_typecode[g])
  /\ safe_typecode' =
       [safe_typecode EXCEPT ![h] = CopyOf(safe_typecode[g])]
  /\ Delete(WithCopyOf(safe_typecode[g]), Owned(safe_typecode[h]))
  /\ ShareSupport(h, g)
  /\ UNCHANGED <<building, root, scoped, exists, order, raw>>

MoveConstruct(h, g) ==
  /\ Idle
  /\ ~scoped
  /\ g \in exists
  /\ Source(h, g)
  /\ Appears(h)
  /\ safe_typecode' =
       [safe_typecode EXCEPT ![h] = safe_typecode[g],
                             ![g] = MovedFrom(safe_typecode[g])]
  /\ TakeSupport(h, g)
  /\ UNCHANGED <<typecodes, building, root, scoped, raw>>

(* SafeTypeCode::operator = (SafeTypeCode &&) is a swap.                   *)
Swapped(h, g) ==
  [safe_typecode EXCEPT ![h] = safe_typecode[g], ![g] = safe_typecode[h]]

(* Move assignment of a manager, or of a SafeTypeCode, be it a manager's.  *)
MoveAssign(h, g) ==
  /\ Idle
  /\ ~scoped
  /\ h \in exists
  /\ g \in exists
  /\ h # g
  /\ safe_typecode' = Swapped(h, g)
  /\ \/ /\ h \in Managers
        /\ g \in Managers
        /\ TakeSupport(h, g)
     \/ UNCHANGED <<type_support, counted>>
  /\ UNCHANGED <<typecodes, building, root, scoped, exists, order, raw>>

Destroy(h) ==
  /\ Idle
  /\ Disappears(h)
  /\ Delete(typecodes, Owned(safe_typecode[h]))
  /\ safe_typecode' = [safe_typecode EXCEPT ![h] = None]
  /\ type_support' = IF h \in Managers
                     THEN [type_support EXCEPT ![h] = NULL]
                     ELSE type_support
  /\ counted' = counted \ {h}
  /\ UNCHANGED <<building, root, scoped, raw>>

-----------------------------------------------------------------------------
(* Other uses.                                                             *)

(* release, by the application, of an object that owns its typecode: from  *)
(* then on the typecode is the application's.                              *)
Release(h) ==
  /\ Idle
  /\ h \in exists
  /\ Owned(safe_typecode[h]) # {}
  /\ Cardinality(raw) < MaxLeft
  /\ raw' = raw \cup Owned(safe_typecode[h])
  /\ safe_typecode' =
       [safe_typecode EXCEPT ![h] = Released(safe_typecode[h])]
  /\ UNCHANGED <<typecodes, building, root, scoped, exists, order, type_support,
                 counted>>

(* The application deletes it when no object points to it any more.        *)
DeleteRaw(tc) ==
  /\ Idle
  /\ \A h \in exists \cap Holders : safe_typecode[h].typecode_ # tc
  /\ raw' = raw \ {tc}
  /\ Delete(typecodes, {tc})
  /\ UNCHANGED <<building, root, scoped, objects>>

(* create_dynamicdata: the object keeps the pointer _type_support.get().   *)
(* It has no typecode: it matters in scoped programs only.                 *)
CreateDynamicData(x, m) ==
  /\ Idle
  /\ scoped
  /\ m \in exists
  /\ type_support[m] # NULL
  /\ Alive(type_support[m])
  /\ Appears(x)
  /\ type_support' = [type_support EXCEPT ![x] = type_support[m]]
  /\ UNCHANGED <<typecodes, building, root, scoped, safe_typecode, counted, raw>>

DestroyData(x) ==
  /\ Idle
  /\ Disappears(x)
  /\ type_support' = [type_support EXCEPT ![x] = NULL]
  /\ UNCHANGED <<typecodes, building, root, scoped, safe_typecode, counted, raw>>

-----------------------------------------------------------------------------

Init ==
  /\ InitMake
  /\ root \in Roots
  /\ scoped \in BOOLEAN
  /\ exists = {}
  /\ order = <<>>
  /\ safe_typecode = [h \in Holders |-> None]
  /\ type_support = [x \in Managers \cup Data |-> NULL]
  /\ counted = {}
  /\ raw = {}

Next ==
  \/ BeginConstruct
  \/ Making
  \/ \E h \in Holders : Construct(h) \/ Destroy(h) \/ Release(h)
  \/ \E m, n \in Managers : Borrow(m, n)
  \/ \E h, g \in Holders :
       \/ CopyConstruct(h, g)
       \/ CopyAssign(h, g)
       \/ MoveConstruct(h, g)
       \/ MoveAssign(h, g)
  \/ \E tc \in raw : DeleteRaw(tc)
  \/ \E x \in Data :
       DestroyData(x) \/ \E m \in Managers : CreateDynamicData(x, m)

Spec == Init /\ [][Next]_vars

-----------------------------------------------------------------------------
(* Properties.                                                             *)

TypeOK ==
  /\ typecodes \subseteq Typecodes
  /\ calls \in Seq(Frames)
  /\ result \in Made \cup {None}
  /\ abandoned \subseteq Typecodes
  /\ broken \subseteq Types
  /\ root \in Roots
  /\ scoped \in BOOLEAN
  /\ exists \subseteq Objects
  /\ order \in Seq(Objects)
  /\ safe_typecode \in [Holders -> SafeTypeCodes]
  /\ type_support \in [Managers \cup Data -> Supports \cup {NULL}]
  /\ counted \subseteq Managers \cap exists
  /\ raw \subseteq Typecodes

(* The slots that own a typecode: an object, what make_typecode returned,  *)
(* a local or a union member of an activation, the application.            *)
Slots ==
  {<<"object", h>> : h \in Holders}
    \cup {<<"result", 0>>, <<"raw", 0>>, <<"abandoned", 0>>}
    \cup {<<f, i>> : f \in {"first", "own", "inner", "cases"},
                     i \in DOMAIN calls}

OwnedIn(slot) ==
  CASE slot[1] = "object" -> Owned(safe_typecode[slot[2]])
    [] slot[1] = "result" -> Owned(result)
    [] slot[1] = "first" -> Owned(calls[slot[2]].first)
    [] slot[1] = "own" -> Owned(calls[slot[2]].own)
    [] slot[1] = "inner" -> Owned(calls[slot[2]].inner)
    [] slot[1] = "cases" -> CasesHold(calls[slot[2]])
    [] slot[1] = "raw" -> raw
    [] slot[1] = "abandoned" -> abandoned

DistinctCases ==
  \A c \in DOMAIN calls : \A i, j \in DOMAIN calls[c].cases :
    calls[c].cases[i] = calls[c].cases[j] =>
      i = j \/ calls[c].cases[i] = PrimitiveTC

(* Every typecode has at most one owner, and owners have what is on the    *)
(* heap: no copy, move, swap, release or exception of SafeTypeCode, and no *)
(* nesting of unions, leads to a second delete_tc of the same typecode, to *)
(* one of a primitive type, or to a pointer to a deleted one.              *)
OneOwner ==
  /\ \A tc \in typecodes :
       \A a, b \in {a \in Slots : tc \in OwnedIn(a)} : a = b
  /\ \A a \in Slots : OwnedIn(a) \subseteq typecodes
  /\ DistinctCases

(* Every typecode on the heap has an owner, or was left behind by an       *)
(* exception between the creation of the typecodes of a union's cases and  *)
(* delete_typecodes.                                                       *)
NothingLeaks == typecodes \subseteq UNION {OwnedIn(a) : a \in Slots}

(* An optional or a smart pointer to a primitive has the typecode of the   *)
(* primitive; deleteTc_impl only knows that primitive types do.            *)
WrapsPrimitive(t) ==
  Kind[t] \in {"optional", "smart_ptr"} /\ Kind[Parts[t][1]] = "primitive"

(* delete_typecodes calls delete_tc for the typecode of a primitive type   *)
(* only for a union with a case that is an optional or a smart pointer to  *)
(* a primitive.                                                            *)
StaticsStay ==
  \A t \in broken : \E i \in 2..Len(Parts[t]) : WrapsPrimitive(Parts[t][i])

(* In a scoped program everything that points to a type support without    *)
(* counting as its owner, a manager constructed from it, its typecode in a *)
(* copy of that manager or a SafeDynamicData, is destroyed before it.      *)
BorrowedAlive ==
  scoped => \A x \in exists : \A s \in UsedBy(x) : Alive(s)
=============================================================================
