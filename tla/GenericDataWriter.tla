-------------------------- MODULE GenericDataWriter --------------------------
(***************************************************************************)
(* reflex::pub::GenericDataWriter (include/reflex/generic_dw.h,            *)
(* src/generic_dw.cxx): what its objects own, share and borrow.  A writer  *)
(* has three members, in this order:                                       *)
(*   type_manager_     shares the ownership of a type support;             *)
(*   dd_instance_      an AutoDynamicData: owns a DynamicData instance and *)
(*                     borrows, through a raw pointer, the type support    *)
(*                     that created it and has to delete it;               *)
(*   safe_datawriter_  shares the ownership of a DDS DataWriter.           *)
(* Copies, moves and assignments are the compiler's: member by member.     *)
(*                                                                         *)
(* One thread runs the operations.  What an operation does between its     *)
(* call and its return nobody else sees: it is one step per outcome.  What *)
(* goes through the instance is in module DataPath, how AutoDynamicData    *)
(* treats it in module AutoDynamicData.                                    *)
(***************************************************************************)
EXTENDS Naturals, FiniteSets

CONSTANTS
  Writers,      \* GenericDataWriter variables of the application
  NULL,
  Supports,     \* addresses of type supports: bounds the heap
  DataWriters,  \* DDS DataWriters the participant may create: bounds the run
  TopicNames,
  Faults        \* the calls that may fail, of FaultKinds

FaultKinds ==
  {"create_data", "register_type", "create_publisher", "create_datawriter",
   "narrow", "delete_datawriter"}

ASSUME WriterConstants ==
  /\ NULL \notin Writers \cup Supports \cup DataWriters
  /\ Faults \subseteq FaultKinds

VARIABLES
  exists,            \* the objects that are constructed
  type_support_,     \* type_manager_._type_support of every object
  borrowed,          \* dd_instance_.type_support_; NULL if it has no instance
  safe_datawriter_,  \* the field of every object
  datawriters,       \* the DDS DataWriters in existence
  orphans,           \* those no shared_ptr will ever delete
  topics,            \* the topic names in use at the participant
  assigning,         \* whether the application ever assigns one to another
  crashed            \* a type support was called that was destroyed before

vars == <<exists, type_support_, borrowed, safe_datawriter_, datawriters,
          orphans, topics, assigning, crashed>>

TypeOK ==
  /\ exists \subseteq Writers
  /\ type_support_ \in [Writers -> Supports \cup {NULL}]
  /\ borrowed \in [Writers -> Supports \cup {NULL}]
  /\ safe_datawriter_ \in [Writers -> DataWriters \cup {NULL}]
  /\ datawriters \subseteq DataWriters
  /\ orphans \subseteq DataWriters
  /\ topics \subseteq TopicNames
  /\ assigning \in BOOLEAN
  /\ crashed \in BOOLEAN

Init ==
  /\ exists = {}
  /\ type_support_ = [w \in Writers |-> NULL]
  /\ borrowed = [w \in Writers |-> NULL]
  /\ safe_datawriter_ = [w \in Writers |-> NULL]
  /\ datawriters = {}
  /\ orphans = {}
  /\ topics = {}
  /\ assigning \in BOOLEAN
  /\ crashed = FALSE

-----------------------------------------------------------------------------

(* What shared_ptrs own, and nothing else, is alive.                       *)
Owned(owner) == {owner[w] : w \in Writers} \ {NULL}

Alive == Owned(type_support_)

Held == Owned(safe_datawriter_)

(* Type supports whose address no pointer has any more.                    *)
Unused == Supports \ (Alive \cup Owned(borrowed))

(* Mutant: the shared_ptr has no deleter.                                  *)
ReleaseForgets == UNCHANGED <<datawriters, orphans>>

(* dw_deleter, for the DataWriter an assignment or a destructor gave up:   *)
(* a failure is only reported.                                             *)
Release ==
  LET unheld == (datawriters \ orphans) \ Held' IN
  \/ /\ datawriters' = datawriters \ unheld
     /\ UNCHANGED orphans
  \/ /\ "delete_datawriter" \in Faults
     /\ unheld # {}
     /\ orphans' = orphans \cup unheld
     /\ UNCHANGED datawriters

(* create_data and delete_data, which an AutoDynamicData calls through its *)
(* raw pointer to a type support, when type managers own those in alive.   *)
Call(called, alive) == crashed' = ~(called \subseteq alive \cup {NULL})

(* The constructors, which differ in QoS and listener only.                *)
Construct(w, name) ==
  /\ ~crashed
  /\ w \notin exists
  /\ name \notin topics
  /\ \E s \in Unused, dw \in DataWriters \ datawriters :
       /\ type_support_' = [type_support_ EXCEPT ![w] = s]
       /\ borrowed' = [borrowed EXCEPT ![w] = s]
       /\ safe_datawriter_' = [safe_datawriter_ EXCEPT ![w] = dw]
       /\ datawriters' = datawriters \cup {dw}
  /\ exists' = exists \cup {w}
  /\ topics' = topics \cup {name}
  /\ UNCHANGED <<orphans, assigning, crashed>>

(* They throw before initialize_writer has created the topic, or because   *)
(* its name is in use: dd_instance_ and then type_manager_ are destroyed.  *)
ConstructThrows(w, name) ==
  /\ ~crashed
  /\ w \notin exists
  /\ name \in topics \/ Faults \cap {"create_data", "register_type"} # {}
  /\ UNCHANGED vars

(* They throw after that: topic and publisher stay, and the DataWriter, if *)
(* it could not be narrowed.                                               *)
ConstructThrowsLate(w, name) ==
  /\ ~crashed
  /\ w \notin exists
  /\ name \notin topics
  /\ topics' = topics \cup {name}
  /\ \/ /\ Faults \cap {"create_publisher", "create_datawriter"} # {}
        /\ UNCHANGED <<datawriters, orphans>>
     \/ /\ "narrow" \in Faults
        /\ \E dw \in DataWriters \ datawriters :
             /\ datawriters' = datawriters \cup {dw}
             /\ orphans' = orphans \cup {dw}
  /\ UNCHANGED <<exists, type_support_, borrowed, safe_datawriter_, assigning,
                 crashed>>

(* The implicit copy constructor.  Copying dd_instance_ throws when x has  *)
(* no instance, or create_data fails: then nothing has changed.            *)
CopyConstruct(w, x) ==
  /\ ~crashed
  /\ w \notin exists
  /\ x \in exists
  /\ borrowed[x] # NULL
  /\ exists' = exists \cup {w}
  /\ type_support_' = [type_support_ EXCEPT ![w] = type_support_[x]]
  /\ borrowed' = [borrowed EXCEPT ![w] = borrowed[x]]
  /\ Call({borrowed[x]}, Alive)
  /\ safe_datawriter_' = [safe_datawriter_ EXCEPT ![w] = safe_datawriter_[x]]
  /\ UNCHANGED <<datawriters, orphans, topics, assigning>>

(* The implicit move constructor.                                          *)
MoveConstruct(w, x) ==
  /\ ~crashed
  /\ w \notin exists
  /\ x \in exists
  /\ exists' = exists \cup {w}
  /\ type_support_' = [type_support_ EXCEPT ![w] = type_support_[x], ![x] = NULL]
  /\ borrowed' = [borrowed EXCEPT ![w] = borrowed[x], ![x] = NULL]
  /\ safe_datawriter_' =
       [safe_datawriter_ EXCEPT ![w] = safe_datawriter_[x], ![x] = NULL]
  /\ UNCHANGED <<datawriters, orphans, topics, assigning, crashed>>

(* The implicit copy assignment.  type_manager_ goes first and may destroy *)
(* the type support of w; copy-and-swap then deletes the old instance.     *)
CopyAssign(w, x) ==
  /\ ~crashed
  /\ assigning
  /\ {w, x} \subseteq exists
  /\ borrowed[x] # NULL
  /\ type_support_' = [type_support_ EXCEPT ![w] = type_support_[x]]
  /\ borrowed' = [borrowed EXCEPT ![w] = borrowed[x]]
  /\ Call({borrowed[x], borrowed[w]}, Owned(type_support_'))
  /\ safe_datawriter_' = [safe_datawriter_ EXCEPT ![w] = safe_datawriter_[x]]
  /\ Release
  /\ UNCHANGED <<exists, topics, assigning>>

(* dd_instance_ cannot be copied, type_manager_ has been.                  *)
CopyAssignThrows(w, x) ==
  /\ ~crashed
  /\ assigning
  /\ {w, x} \subseteq exists
  /\ borrowed[x] = NULL \/ "create_data" \in Faults
  /\ type_support_' = [type_support_ EXCEPT ![w] = type_support_[x]]
  /\ Call({borrowed[x]}, Owned(type_support_'))
  /\ UNCHANGED <<exists, borrowed, safe_datawriter_, datawriters, orphans, topics,
                 assigning>>

(* The implicit move assignment: shared_ptrs are moved, but dd_instance_   *)
(* is swapped.                                                             *)
MoveAssign(w, x) ==
  /\ ~crashed
  /\ assigning
  /\ {w, x} \subseteq exists
  /\ w # x
  /\ type_support_' = [type_support_ EXCEPT ![w] = type_support_[x], ![x] = NULL]
  /\ borrowed' = [borrowed EXCEPT ![w] = borrowed[x], ![x] = borrowed[w]]
  /\ safe_datawriter_' =
       [safe_datawriter_ EXCEPT ![w] = safe_datawriter_[x], ![x] = NULL]
  /\ Release
  /\ UNCHANGED <<exists, topics, assigning, crashed>>

(* Mutant: dd_instance_ is declared before type_manager_.                  *)
DestroyForwards(w) ==
  /\ ~crashed
  /\ w \in exists
  /\ exists' = exists \ {w}
  /\ safe_datawriter_' = [safe_datawriter_ EXCEPT ![w] = NULL]
  /\ Release
  /\ borrowed' = [borrowed EXCEPT ![w] = NULL]
  /\ type_support_' = [type_support_ EXCEPT ![w] = NULL]
  /\ Call({borrowed[w]}, Owned(type_support_'))
  /\ UNCHANGED <<topics, assigning>>

(* The implicit destructor: the members in reverse order.                  *)
Destroy(w) ==
  /\ ~crashed
  /\ w \in exists
  /\ exists' = exists \ {w}
  /\ safe_datawriter_' = [safe_datawriter_ EXCEPT ![w] = NULL]
  /\ Release
  /\ borrowed' = [borrowed EXCEPT ![w] = NULL]
  /\ Call({borrowed[w]}, Alive)
  /\ type_support_' = [type_support_ EXCEPT ![w] = NULL]
  /\ UNCHANGED <<topics, assigning>>

Next ==
  \/ \E w \in Writers, name \in TopicNames : Construct(w, name)
  \/ \E w \in Writers, name \in TopicNames : ConstructThrows(w, name)
  \/ \E w \in Writers, name \in TopicNames : ConstructThrowsLate(w, name)
  \/ \E w, x \in Writers : CopyConstruct(w, x)
  \/ \E w, x \in Writers : MoveConstruct(w, x)
  \/ \E w, x \in Writers : CopyAssign(w, x)
  \/ \E w, x \in Writers : CopyAssignThrows(w, x)
  \/ \E w, x \in Writers : MoveAssign(w, x)
  \/ \E w \in Writers : Destroy(w)

Spec == Init /\ [][Next]_vars

-----------------------------------------------------------------------------
(* Properties.                                                             *)

(* As long as nothing is assigned, the type support dd_instance_ borrowed  *)
(* is one that a type_manager_ keeps alive, and it is never called when it *)
(* is gone: copies, moves and failing constructors in any order leave no   *)
(* instance behind that outlives its type support.                         *)
SupportOutlivesInstance ==
  ~assigning => ~crashed /\ Owned(borrowed) \subseteq Alive

(* However objects are copied, moved and assigned, a DDS DataWriter is     *)
(* there exactly as long as an object has it, unless narrow or its         *)
(* deletion failed, and two constructors never make the same one.          *)
DataWriterWhileHeld ==
  /\ Held \cap orphans = {}
  /\ datawriters = Held \cup orphans

(* auto_dd.h says of AutoDynamicData: "Automatically manages the memory of *)
(* a DynamicData instance."  The instance of a GenericDataWriter is handed *)
(* back to a type support that exists.                                     *)
InstanceIsDeleted == ~crashed

=============================================================================
