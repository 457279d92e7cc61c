--------------------------- MODULE AutoDynamicData ---------------------------
(***************************************************************************)
(* reflex::AutoDynamicData (include/reflex/auto_dd.h, src/auto_dd.cxx) and *)
(* reflex::SafeDynamicData (include/reflex/safe_dynamicdata.h): objects    *)
(* that own one DDS_DynamicData instance each through the raw pointer      *)
(* instance_ and borrow the type support that creates and deletes it.      *)
(*                                                                         *)
(* One thread runs the operations.  Those that call the middleware more    *)
(* than once (the copy constructor, copy assignment through a temporary,   *)
(* the constructor of SafeDynamicData) take one step per call, recorded in *)
(* the variable frame.                                                     *)
(***************************************************************************)

CONSTANTS
  Objects,       \* the AutoDynamicData variables of the application
  Temp,          \* the unnamed temporary of operator=
  TypeSupports,  \* DDSDynamicDataTypeSupport objects; they outlive Objects
  Instances,     \* addresses of DDS_DynamicData instances: bounds the heap
  Contents,      \* what an instance can be populated with
  Blank,         \* content of an instance create_data has just returned
  Free,          \* no instance lives at this address
  NULL,
  NoObject,      \* for the mapping to ValueObject
  Moved,         \* for the mapping to ValueObject
  Faults,        \* the calls that may fail, of FaultKinds
  HasRvalueRef   \* REFLEX_HAS_RVALUE_REF

FaultKinds == {"copy", "delete_data", "write"}

ASSUME ConstantsOK ==
  /\ Temp \notin Objects
  /\ NULL \notin TypeSupports
  /\ NULL \notin Instances
  /\ Blank \notin Contents
  /\ Free \notin Contents \cup {Blank}
  /\ NoObject \notin Contents \cup {Blank, Moved}
  /\ Moved \notin Contents \cup {Blank}
  /\ Faults \subseteq FaultKinds
  /\ HasRvalueRef \in BOOLEAN

VARIABLES
  lifetime,       \* "none", "building" (inside its constructor) or "live"
  type_support_,  \* the field of every object
  instance_,      \* the field of every object
  heap,           \* content of the instance at every address
  creator,        \* the type support that created the instance at an address
  undeleted,      \* instances for which delete_data failed
  frame           \* the operation in progress: its next step and its objects

vars == <<lifetime, type_support_, instance_, heap, creator, undeleted, frame>>
fields == <<type_support_, instance_>>
middleware == <<heap, creator, undeleted>>

Slots == Objects \cup {Temp}

Idle == [pc |-> "idle", dst |-> Temp, src |-> Temp, lhs |-> Temp]

Frames ==
  [pc : {"idle", "copy", "write", "swap", "destroy"},
   dst : Slots, src : Slots, lhs : Slots]

TypeOK ==
  /\ lifetime \in [Slots -> {"none", "building", "live"}]
  /\ type_support_ \in [Slots -> TypeSupports \cup {NULL}]
  /\ instance_ \in [Slots -> Instances \cup {NULL}]
  /\ heap \in [Instances -> Contents \cup {Blank, Free}]
  /\ creator \in [Instances -> TypeSupports \cup {NULL}]
  /\ undeleted \in SUBSET Instances
  /\ frame \in Frames

Init ==
  /\ lifetime = [o \in Slots |-> "none"]
  /\ type_support_ = [o \in Slots |-> NULL]
  /\ instance_ = [o \in Slots |-> NULL]
  /\ heap = [i \in Instances |-> Free]
  /\ creator = [i \in Instances |-> NULL]
  /\ undeleted = {}
  /\ frame = Idle

-----------------------------------------------------------------------------
(* The pieces the operations share.                                        *)

IsIdle == frame.pc = "idle"

Live(o) == lifetime[o] = "live"

(* AutoDynamicData::init and the initializers of the two fields: o gets a  *)
(* new instance from ts.                                                   *)
InitFields(o, ts) ==
  /\ ts # NULL
  /\ \E i \in Instances :
       /\ heap[i] = Free
       /\ heap' = [heap EXCEPT ![i] = Blank]
       /\ creator' = [creator EXCEPT ![i] = ts]
       /\ instance_' = [instance_ EXCEPT ![o] = i]
  /\ type_support_' = [type_support_ EXCEPT ![o] = ts]
  /\ UNCHANGED undeleted

(* Mutant: only the pointers to the instances are swapped.                 *)
SwapFieldsOneOnly(o, p) ==
  /\ instance_' = [instance_ EXCEPT ![o] = instance_[p], ![p] = instance_[o]]
  /\ UNCHANGED type_support_

SwapFields(o, p) ==
  /\ type_support_' = [type_support_ EXCEPT ![o] = type_support_[p],
                                            ![p] = type_support_[o]]
  /\ instance_' = [instance_ EXCEPT ![o] = instance_[p], ![p] = instance_[o]]

(* Mutant: the destructor does not call delete_data.                       *)
DestructorLeaks(o) ==
  /\ lifetime' = [lifetime EXCEPT ![o] = "none"]
  /\ type_support_' = [type_support_ EXCEPT ![o] = NULL]
  /\ instance_' = [instance_ EXCEPT ![o] = NULL]
  /\ UNCHANGED middleware

(* The destructor.  A failure of delete_data is only reported.             *)
Destructor(o) ==
  /\ \/ /\ instance_[o] = NULL
        /\ UNCHANGED middleware
     \/ /\ instance_[o] # NULL
        /\ heap' = [heap EXCEPT ![instance_[o]] = Free]
        /\ creator' = [creator EXCEPT ![instance_[o]] = NULL]
        /\ UNCHANGED undeleted
     \/ /\ instance_[o] # NULL
        /\ "delete_data" \in Faults
        /\ undeleted' = undeleted \cup {instance_[o]}
        /\ UNCHANGED <<heap, creator>>
  /\ lifetime' = [lifetime EXCEPT ![o] = "none"]
  /\ type_support_' = [type_support_ EXCEPT ![o] = NULL]
  /\ instance_' = [instance_ EXCEPT ![o] = NULL]

-----------------------------------------------------------------------------
(* The operations.                                                         *)

(* AutoDynamicData(typeSupport)                                            *)
Construct(o, ts) ==
  /\ IsIdle
  /\ lifetime[o] = "none"
  /\ InitFields(o, ts)
  /\ lifetime' = [lifetime EXCEPT ![o] = "live"]
  /\ UNCHANGED frame

(* Whichever operation calls it, init throws before the operation has      *)
(* changed anything: the type support is NULL (rhs was moved from), or     *)
(* create_data has failed.                                                 *)
InitThrows ==
  /\ IsIdle
  /\ UNCHANGED vars

(* SafeDynamicData(type_support, src): the base is built first ...         *)
ConstructBase(o, ts) ==
  /\ IsIdle
  /\ lifetime[o] = "none"
  /\ InitFields(o, ts)
  /\ lifetime' = [lifetime EXCEPT ![o] = "building"]
  /\ frame' = [Idle EXCEPT !.pc = "write", !.dst = o]

(* ... then write_dynamicdata populates the instance ...                   *)
WriteSource(v) ==
  /\ frame.pc = "write"
  /\ heap' = [heap EXCEPT ![instance_[frame.dst]] = v]
  /\ lifetime' = [lifetime EXCEPT ![frame.dst] = "live"]
  /\ frame' = Idle
  /\ UNCHANGED <<fields, creator, undeleted>>

(* ... or throws, and only the destructor of the base runs.                *)
WriteThrows ==
  /\ frame.pc = "write"
  /\ "write" \in Faults
  /\ Destructor(frame.dst)
  /\ frame' = Idle

(* AutoDynamicData(const AutoDynamicData & sddi), up to the call of copy.  *)
CopyConstruct(o, p) ==
  /\ IsIdle
  /\ lifetime[o] = "none"
  /\ Live(p)
  /\ InitFields(o, type_support_[p])
  /\ lifetime' = [lifetime EXCEPT ![o] = "building"]
  /\ frame' = [pc |-> "copy", dst |-> o, src |-> p, lhs |-> o]

(* operator=(const AutoDynamicData & rhs): the temporary is a copy of rhs. *)
CopyAssign(o, p) ==
  /\ IsIdle
  /\ Live(o)
  /\ Live(p)
  /\ InitFields(Temp, type_support_[p])
  /\ lifetime' = [lifetime EXCEPT ![Temp] = "building"]
  /\ frame' = [pc |-> "copy", dst |-> Temp, src |-> p, lhs |-> o]

(* The copy constructor returns: operator= goes on to swap.                *)
CopyReturns ==
  /\ lifetime' = [lifetime EXCEPT ![frame.dst] = "live"]
  /\ frame' = IF frame.dst = Temp THEN [frame EXCEPT !.pc = "swap"] ELSE Idle

(* Mutant: source and destination of copy are exchanged.                   *)
CopyInstanceBackwards ==
  /\ frame.pc = "copy"
  /\ heap' = [heap EXCEPT ![instance_[frame.src]] =
                            heap[instance_[frame.dst]]]
  /\ CopyReturns
  /\ UNCHANGED <<fields, creator, undeleted>>

(* instance_->copy from the source's instance                              *)
CopyInstance ==
  /\ frame.pc = "copy"
  /\ heap' = [heap EXCEPT ![instance_[frame.dst]] =
                            heap[instance_[frame.src]]]
  /\ CopyReturns
  /\ UNCHANGED <<fields, creator, undeleted>>

(* The same call fails; the constructor does not look at the return code.  *)
CopyInstanceFails ==
  /\ frame.pc = "copy"
  /\ "copy" \in Faults
  /\ CopyReturns
  /\ UNCHANGED <<fields, middleware>>

(* operator=: the temporary and the left-hand side swap their fields.      *)
AssignSwap ==
  /\ frame.pc = "swap"
  /\ SwapFields(Temp, frame.lhs)
  /\ frame' = [frame EXCEPT !.pc = "destroy"]
  /\ UNCHANGED <<lifetime, middleware>>

(* operator=: the end of the full expression destroys the temporary.       *)
AssignDestroyTemp ==
  /\ frame.pc = "destroy"
  /\ Destructor(Temp)
  /\ frame' = Idle

(* AutoDynamicData(AutoDynamicData && rhs)                                 *)
MoveConstruct(o, p) ==
  /\ HasRvalueRef
  /\ IsIdle
  /\ lifetime[o] = "none"
  /\ Live(p)
  /\ lifetime' = [lifetime EXCEPT ![o] = "live"]
  /\ type_support_' = [type_support_ EXCEPT ![o] = type_support_[p],
                                            ![p] = NULL]
  /\ instance_' = [instance_ EXCEPT ![o] = instance_[p], ![p] = NULL]
  /\ UNCHANGED <<middleware, frame>>

(* swap, the member and the free function                                  *)
Swap(o, p) ==
  /\ IsIdle
  /\ Live(o)
  /\ Live(p)
  /\ SwapFields(o, p)
  /\ UNCHANGED <<lifetime, middleware, frame>>

(* operator=(AutoDynamicData && rhs)                                       *)
MoveAssign(o, p) ==
  /\ HasRvalueRef
  /\ Swap(o, p)

(* The application populates what get() returns (write_dynamicdata).       *)
Populate(o, v) ==
  /\ IsIdle
  /\ Live(o)
  /\ instance_[o] # NULL
  /\ heap' = [heap EXCEPT ![instance_[o]] = v]
  /\ UNCHANGED <<lifetime, fields, creator, undeleted, frame>>

(* The variable goes out of scope.                                         *)
Destroy(o) ==
  /\ IsIdle
  /\ Live(o)
  /\ Destructor(o)
  /\ UNCHANGED frame

Continue ==
  \/ \E v \in Contents : WriteSource(v)
  \/ WriteThrows
  \/ CopyInstance
  \/ CopyInstanceFails
  \/ AssignSwap
  \/ AssignDestroyTemp

Call ==
  \/ \E o \in Objects, ts \in TypeSupports : Construct(o, ts)
  \/ \E o \in Objects, ts \in TypeSupports : ConstructBase(o, ts)
  \/ InitThrows
  \/ \E o, p \in Objects : CopyConstruct(o, p)
  \/ \E o, p \in Objects : CopyAssign(o, p)
  \/ \E o, p \in Objects : MoveConstruct(o, p)
  \/ \E o, p \in Objects : MoveAssign(o, p)
  \/ \E o, p \in Objects : Swap(o, p)
  \/ \E o \in Objects, v \in Contents : Populate(o, v)
  \/ \E o \in Objects : Destroy(o)

Next == Call \/ Continue

(* A program that only constructs, populates, move-assigns and destroys.   *)
NextMoves ==
  \/ \E o \in Objects, ts \in TypeSupports : Construct(o, ts)
  \/ \E o, p \in Objects : MoveAssign(o, p)
  \/ \E o \in Objects, v \in Contents : Populate(o, v)
  \/ \E o \in Objects : Destroy(o)

MoveSpec == Init /\ [][NextMoves]_vars

Spec == Init /\ [][Next]_vars

-----------------------------------------------------------------------------
(* Properties.                                                             *)

(* Every instance create_data ever returned is held by exactly one object, *)
(* the temporary of operator= included, until it is deleted; only an       *)
(* instance whose deletion failed is held by none.  So nothing is leaked,  *)
(* not even when an operation throws, and nothing is shared.               *)
SoleOwner ==
  \A i \in Instances :
    heap[i] # Free /\ i \notin undeleted =>
      \E o \in Slots : /\ instance_[o] = i
                       /\ \A p \in Slots : instance_[p] = i => p = o

(* What an object points to is an existing instance nobody has tried to    *)
(* delete, created by the very type support the destructor will hand it    *)
(* back to: no double deletion, no use after deletion, no foreign deleter. *)
HeldIsDeletable ==
  \A o \in Slots :
    instance_[o] # NULL =>
      /\ heap[instance_[o]] # Free
      /\ instance_[o] \notin undeleted
      /\ creator[instance_[o]] = type_support_[o]

(* Of the objects, only the one frame.dst names is inside its constructor; *)
(* outside operator= there is no temporary; the objects of the operation   *)
(* in progress exist, and the temporary that is about to be swapped in has *)
(* the content of rhs (or Blank, if copy failed).                          *)
FrameOK ==
  /\ \A o \in Slots :
       lifetime[o] = "building" <=>
         frame.pc \in {"copy", "write"} /\ frame.dst = o
  /\ frame.pc \in {"idle", "write"} => lifetime[Temp] = "none"
  /\ frame.pc = "write" => frame.dst \in Objects
  /\ frame.pc = "copy" =>
       /\ heap[instance_[frame.dst]] = Blank
       /\ frame.dst = Temp => frame.lhs \in Objects /\ Live(frame.lhs)
       /\ frame.dst # Temp => lifetime[Temp] = "none"
  /\ frame.pc \in {"copy", "swap"} =>
       /\ frame.src \in Objects
       /\ Live(frame.src)
       /\ instance_[frame.src] # NULL
  /\ frame.pc \in {"swap", "destroy"} => Live(Temp)
  /\ frame.pc = "swap" =>
       /\ frame.lhs \in Objects
       /\ Live(frame.lhs)
       /\ instance_[Temp] # NULL
       /\ \/ heap[instance_[Temp]] = heap[instance_[frame.src]]
          \/ "copy" \in Faults /\ heap[instance_[Temp]] = Blank

(* Which pointers may be NULL: both fields of an object or neither; those  *)
(* of an object that does not exist are; one being built has an instance.  *)
FieldsOK ==
  \A o \in Slots :
    /\ instance_[o] = NULL <=> type_support_[o] = NULL
    /\ lifetime[o] = "none" => instance_[o] = NULL
    /\ lifetime[o] = "building" => instance_[o] # NULL

NoSharing ==
  \A o, p \in Slots : instance_[o] = instance_[p] => o = p \/ instance_[o] = NULL

NoLeak ==
  \A i \in Instances :
    heap[i] # Free /\ i \notin undeleted => \E o \in Slots : instance_[o] = i

UndeletedExist == \A i \in undeleted : heap[i] # Free

(* The inductive invariant: SoleOwner and HeldIsDeletable with what an     *)
(* operation in progress knows about its objects.                          *)
IInv ==
  /\ TypeOK
  /\ FieldsOK
  /\ NoSharing
  /\ NoLeak
  /\ UndeletedExist
  /\ HeldIsDeletable
  /\ FrameOK

(* The objects behave as independent values: the specification of module   *)
(* ValueObject under the mapping that follows instance_.  The temporary of *)
(* operator= and objects inside their constructor are not visible.         *)
ValueOf(o) ==
  IF ~Live(o) THEN NoObject
  ELSE IF instance_[o] = NULL THEN Moved
  ELSE heap[instance_[o]]

Abstract == INSTANCE ValueObject WITH
              val <- [o \in Objects |-> ValueOf(o)],
              LossyCopy <- "copy" \in Faults

ValueSemantics == Abstract!Spec

(* What auto_dd.h says of move assignment: "Deletes the existing           *)
(* DynamicData instance in this".  To be checked of programs that do not   *)
(* call swap themselves (MoveSpec): its steps look the same.               *)
MoveAssignDeletes ==
  [][\A o, p \in Objects :
       MoveAssign(o, p) /\ o # p /\ instance_[o] # NULL =>
         heap'[instance_[o]] = Free]_vars

=============================================================================
