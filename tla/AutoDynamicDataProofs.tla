------------------------ MODULE AutoDynamicDataProofs ------------------------
(***************************************************************************)
(* Machine-checked proofs about AutoDynamicData, for any number of         *)
(* objects, type supports and instances, and any set of calls that fail.   *)
(***************************************************************************)
EXTENDS AutoDynamicData, TLAPS

(* What the pointers and the heap have to do with each other, apart from   *)
(* the operation in progress.                                              *)
HeapInv == NoSharing /\ NoLeak /\ UndeletedExist /\ HeldIsDeletable

LEMMA TypeInit == Init => TypeOK
BY ConstantsOK DEF Init, TypeOK, Slots, Frames, Idle

(* init creates an instance of its own for an object that has none.        *)
LEMMA InitFieldsKeeps ==
  ASSUME TypeOK, HeapInv,
         NEW o \in Slots, NEW ts \in TypeSupports \cup {NULL},
         instance_[o] = NULL, InitFields(o, ts)
  PROVE  /\ HeapInv'
         /\ type_support_' \in [Slots -> TypeSupports \cup {NULL}]
         /\ instance_' \in [Slots -> Instances \cup {NULL}]
         /\ heap' \in [Instances -> Contents \cup {Blank, Free}]
         /\ creator' \in [Instances -> TypeSupports \cup {NULL}]
         /\ undeleted' = undeleted
         /\ instance_'[o] # NULL
         /\ type_support_'[o] # NULL
         /\ \A p \in Slots : p # o => /\ instance_'[p] = instance_[p]
                                      /\ type_support_'[p] = type_support_[p]
         /\ \A p \in Slots : p # o /\ instance_[p] # NULL =>
              heap'[instance_[p]] = heap[instance_[p]]
         /\ heap'[instance_'[o]] = Blank
<1> USE ConstantsOK DEF TypeOK, HeapInv
<1>1. PICK i \in Instances :
        /\ heap[i] = Free
        /\ heap' = [heap EXCEPT ![i] = Blank]
        /\ creator' = [creator EXCEPT ![i] = ts]
        /\ instance_' = [instance_ EXCEPT ![o] = i]
  BY DEF InitFields
<1>2. /\ ts # NULL
      /\ type_support_' = [type_support_ EXCEPT ![o] = ts]
      /\ undeleted' = undeleted
  BY DEF InitFields
<1>3. \A p \in Slots : instance_[p] # i
  BY <1>1 DEF HeldIsDeletable
<1>4. i \notin undeleted
  BY <1>1 DEF UndeletedExist
<1>5. NoSharing'
  BY <1>1, <1>3 DEF NoSharing
<1>6. NoLeak'
  BY <1>1, <1>2 DEF NoLeak
<1>7. UndeletedExist'
  BY <1>1, <1>2, <1>4 DEF UndeletedExist
<1>8. HeldIsDeletable'
  BY <1>1, <1>2, <1>3, <1>4 DEF HeldIsDeletable
<1>9. QED
  BY <1>1, <1>2, <1>3, <1>5, <1>6, <1>7, <1>8

(* The destructor takes the object and its instance away, and no other.    *)
LEMMA DestructorKeeps ==
  ASSUME TypeOK, HeapInv, NEW o \in Slots, Destructor(o)
  PROVE  /\ HeapInv'
         /\ lifetime' = [lifetime EXCEPT ![o] = "none"]
         /\ type_support_' \in [Slots -> TypeSupports \cup {NULL}]
         /\ instance_' \in [Slots -> Instances \cup {NULL}]
         /\ heap' \in [Instances -> Contents \cup {Blank, Free}]
         /\ creator' \in [Instances -> TypeSupports \cup {NULL}]
         /\ undeleted' \in SUBSET Instances
         /\ instance_'[o] = NULL
         /\ type_support_'[o] = NULL
         /\ \A p \in Slots : p # o => /\ instance_'[p] = instance_[p]
                                      /\ type_support_'[p] = type_support_[p]
         /\ \A p \in Slots : p # o /\ instance_[p] # NULL =>
              heap'[instance_[p]] = heap[instance_[p]]
<1> USE ConstantsOK DEF TypeOK, HeapInv
<1>1. /\ lifetime' = [lifetime EXCEPT ![o] = "none"]
      /\ type_support_' = [type_support_ EXCEPT ![o] = NULL]
      /\ instance_' = [instance_ EXCEPT ![o] = NULL]
  BY DEF Destructor
<1>2. CASE instance_[o] = NULL /\ UNCHANGED middleware
  BY <1>1, <1>2
     DEF middleware, NoSharing, NoLeak, UndeletedExist, HeldIsDeletable
<1>3. CASE /\ instance_[o] # NULL
           /\ heap' = [heap EXCEPT ![instance_[o]] = Free]
           /\ creator' = [creator EXCEPT ![instance_[o]] = NULL]
           /\ undeleted' = undeleted
  <2>1. NoSharing'
    BY <1>1 DEF NoSharing
  <2>2. NoLeak'
    BY <1>1, <1>3 DEF NoLeak
  <2>3. UndeletedExist'
    BY <1>3 DEF UndeletedExist, HeldIsDeletable
  <2>4. HeldIsDeletable'
    BY <1>1, <1>3 DEF HeldIsDeletable, NoSharing
  <2>5. QED
    BY <1>1, <1>3, <2>1, <2>2, <2>3, <2>4 DEF NoSharing
<1>4. CASE /\ instance_[o] # NULL
           /\ undeleted' = undeleted \cup {instance_[o]}
           /\ UNCHANGED <<heap, creator>>
  <2>1. NoSharing'
    BY <1>1 DEF NoSharing
  <2>2. NoLeak'
    BY <1>1, <1>4 DEF NoLeak
  <2>3. UndeletedExist'
    BY <1>4 DEF UndeletedExist, HeldIsDeletable
  <2>4. HeldIsDeletable'
    BY <1>1, <1>4 DEF HeldIsDeletable, NoSharing
  <2>5. QED
    BY <1>1, <1>4, <2>1, <2>2, <2>3, <2>4
<1>5. QED
  BY <1>2, <1>3, <1>4 DEF Destructor, middleware

(* Two objects that exchange their fields still hold what they delete.     *)
LEMMA SwapKeeps ==
  ASSUME TypeOK, HeapInv, FieldsOK, NEW o \in Slots, NEW p \in Slots,
         SwapFields(o, p), UNCHANGED middleware
  PROVE  /\ HeapInv'
         /\ type_support_' \in [Slots -> TypeSupports \cup {NULL}]
         /\ instance_' \in [Slots -> Instances \cup {NULL}]
         /\ \A q \in Slots : instance_'[q] = NULL <=> type_support_'[q] = NULL
<1> USE ConstantsOK DEF TypeOK, HeapInv, SwapFields, middleware
<1>1. NoSharing'
  BY DEF NoSharing
<1>2. NoLeak'
  BY DEF NoLeak
<1>3. UndeletedExist'
  BY DEF UndeletedExist
<1>4. HeldIsDeletable'
  BY DEF HeldIsDeletable
<1>5. QED
  BY <1>1, <1>2, <1>3, <1>4 DEF FieldsOK

(* Populating an instance that exists disturbs no pointer.                 *)
LEMMA HeapWriteKeeps ==
  ASSUME TypeOK, HeapInv,
         NEW o \in Slots, instance_[o] # NULL,
         NEW v \in Contents \cup {Blank},
         heap' = [heap EXCEPT ![instance_[o]] = v],
         UNCHANGED <<fields, creator, undeleted>>
  PROVE  /\ HeapInv'
         /\ heap' \in [Instances -> Contents \cup {Blank, Free}]
         /\ \A p \in Slots : p # o /\ instance_[p] # NULL =>
              heap'[instance_[p]] = heap[instance_[p]]
<1> USE ConstantsOK DEF TypeOK, HeapInv, fields
<1>1. NoSharing'
  BY DEF NoSharing
<1>2. NoLeak'
  BY DEF NoLeak, HeldIsDeletable
<1>3. UndeletedExist'
  BY DEF UndeletedExist, HeldIsDeletable
<1>4. HeldIsDeletable'
  BY DEF HeldIsDeletable
<1>5. QED
  BY <1>1, <1>2, <1>3, <1>4 DEF NoSharing

LEMMA InvInit == Init => IInv
<1> SUFFICES ASSUME Init
             PROVE  IInv
  OBVIOUS
<1>1. TypeOK
  BY TypeInit
<1>2. NoSharing /\ NoLeak /\ UndeletedExist /\ HeldIsDeletable
  BY DEF Init, NoSharing, NoLeak, UndeletedExist, HeldIsDeletable
<1>3. FrameOK /\ FieldsOK
  BY DEF Init, FrameOK, FieldsOK, Idle, Slots, Live
<1>4. QED
  BY <1>1, <1>2, <1>3 DEF IInv

(* Every operation keeps the inductive invariant.                          *)
LEMMA InvNext == IInv /\ [Next]_vars => IInv'
<1> SUFFICES ASSUME IInv, [Next]_vars
             PROVE  IInv'
  OBVIOUS
<1> USE ConstantsOK DEF IInv
<1>0. TypeOK /\ HeapInv /\ FieldsOK /\ FrameOK /\ Temp \in Slots
  BY DEF HeapInv, Slots
<1>1. ASSUME NEW o \in Objects, NEW ts \in TypeSupports, Construct(o, ts)
      PROVE  IInv'
  <2>1. /\ o \in Slots
        /\ instance_[o] = NULL
        /\ InitFields(o, ts)
        /\ lifetime' = [lifetime EXCEPT ![o] = "live"]
        /\ frame' = frame
        /\ IsIdle
    BY <1>1 DEF Construct, FieldsOK, Slots
  <2>2. HeapInv' /\ TypeOK'
    BY <1>0, <2>1, InitFieldsKeeps DEF TypeOK
  <2>3. FieldsOK'
    BY <1>0, <2>1, InitFieldsKeeps DEF TypeOK, FieldsOK
  <2>4. FrameOK'
    BY <1>0, <1>1, <2>1 DEF TypeOK, FrameOK, IsIdle
  <2>5. QED
    BY <2>2, <2>3, <2>4 DEF HeapInv
<1>2. ASSUME NEW o \in Objects, NEW ts \in TypeSupports, ConstructBase(o, ts)
      PROVE  IInv'
  <2>1. /\ o \in Slots
        /\ instance_[o] = NULL
        /\ InitFields(o, ts)
        /\ lifetime' = [lifetime EXCEPT ![o] = "building"]
        /\ frame' = [Idle EXCEPT !.pc = "write", !.dst = o]
        /\ IsIdle
    BY <1>2 DEF ConstructBase, FieldsOK, Slots
  <2>2. HeapInv' /\ TypeOK'
    BY <1>0, <2>1, InitFieldsKeeps DEF TypeOK, Frames, Idle
  <2>3. FieldsOK'
    BY <1>0, <2>1, InitFieldsKeeps DEF TypeOK, FieldsOK
  <2>4. FrameOK'
    BY <1>0, <1>2, <2>1 DEF TypeOK, FrameOK, IsIdle, Idle
  <2>5. QED
    BY <2>2, <2>3, <2>4 DEF HeapInv
<1>3. ASSUME NEW v \in Contents, WriteSource(v)
      PROVE  IInv'
  <2>1. /\ frame.dst \in Slots
        /\ instance_[frame.dst] # NULL
        /\ heap' = [heap EXCEPT ![instance_[frame.dst]] = v]
        /\ lifetime' = [lifetime EXCEPT ![frame.dst] = "live"]
        /\ frame' = Idle
        /\ frame.pc = "write"
        /\ UNCHANGED <<fields, creator, undeleted>>
    BY <1>0, <1>3 DEF WriteSource, FieldsOK, FrameOK, TypeOK, Frames
  <2>2. HeapInv' /\ TypeOK'
    BY <1>0, <2>1, HeapWriteKeeps DEF TypeOK, Frames, Idle, fields
  <2>3. FieldsOK'
    BY <1>0, <2>1 DEF TypeOK, FieldsOK, fields
  <2>4. FrameOK'
    BY <1>0, <2>1 DEF TypeOK, FrameOK, Idle
  <2>5. QED
    BY <2>2, <2>3, <2>4 DEF HeapInv
<1>4. ASSUME WriteThrows
      PROVE  IInv'
  <2>1. /\ frame.dst \in Slots
        /\ frame.pc = "write"
        /\ Destructor(frame.dst)
        /\ frame' = Idle
    BY <1>0, <1>4 DEF WriteThrows, TypeOK, Frames
  <2>2. HeapInv' /\ TypeOK'
    BY <1>0, <2>1, DestructorKeeps DEF TypeOK, Frames, Idle
  <2>3. FieldsOK'
    BY <1>0, <2>1, DestructorKeeps DEF TypeOK, FieldsOK
  <2>4. lifetime' = [lifetime EXCEPT ![frame.dst] = "none"]
    BY <1>0, <2>1, DestructorKeeps
  <2>5. FrameOK'
    BY <1>0, <2>1, <2>4 DEF TypeOK, FrameOK, Idle
  <2>6. QED
    BY <2>2, <2>3, <2>5 DEF HeapInv
<1>5. ASSUME NEW o \in Objects, NEW p \in Objects, CopyConstruct(o, p)
      PROVE  IInv'
  <2>1. /\ o \in Slots /\ p \in Slots /\ o # p
        /\ instance_[o] = NULL
        /\ instance_[p] # NULL
        /\ type_support_[p] \in TypeSupports \cup {NULL}
        /\ Live(p)
        /\ InitFields(o, type_support_[p])
        /\ lifetime' = [lifetime EXCEPT ![o] = "building"]
        /\ frame' = [pc |-> "copy", dst |-> o, src |-> p, lhs |-> o]
        /\ IsIdle
    BY <1>0, <1>5 DEF CopyConstruct, FieldsOK, Slots, TypeOK, Live, InitFields
  <2>2. HeapInv' /\ TypeOK'
    BY <1>0, <2>1, InitFieldsKeeps DEF TypeOK, Frames, Idle
  <2>3. FieldsOK'
    BY <1>0, <2>1, InitFieldsKeeps DEF TypeOK, FieldsOK
  <2>4. instance_'[p] = instance_[p] /\ heap'[instance_'[o]] = Blank
    BY <1>0, <2>1, InitFieldsKeeps
  <2>5. FrameOK'
    BY <1>0, <1>5, <2>1, <2>4 DEF TypeOK, FrameOK, IsIdle, Live
  <2>6. QED
    BY <2>2, <2>3, <2>5 DEF HeapInv
<1>6. ASSUME NEW o \in Objects, NEW p \in Objects, CopyAssign(o, p)
      PROVE  IInv'
  <2>1. /\ o \in Slots /\ p \in Slots /\ p # Temp /\ o # Temp
        /\ instance_[Temp] = NULL
        /\ instance_[p] # NULL
        /\ type_support_[p] \in TypeSupports \cup {NULL}
        /\ Live(o) /\ Live(p)
        /\ InitFields(Temp, type_support_[p])
        /\ lifetime' = [lifetime EXCEPT ![Temp] = "building"]
        /\ frame' = [pc |-> "copy", dst |-> Temp, src |-> p, lhs |-> o]
        /\ IsIdle
    BY <1>0, <1>6
       DEF CopyAssign, FieldsOK, Slots, TypeOK, Live, InitFields, IsIdle, FrameOK
  <2>2. HeapInv' /\ TypeOK'
    BY <1>0, <2>1, InitFieldsKeeps DEF TypeOK, Frames, Idle
  <2>3. FieldsOK'
    BY <1>0, <2>1, InitFieldsKeeps DEF TypeOK, FieldsOK
  <2>4. instance_'[p] = instance_[p] /\ heap'[instance_'[Temp]] = Blank
    BY <1>0, <2>1, InitFieldsKeeps
  <2>5. FrameOK'
    BY <1>0, <1>6, <2>1, <2>4 DEF TypeOK, FrameOK, IsIdle, Live
  <2>6. QED
    BY <2>2, <2>3, <2>5 DEF HeapInv
<1>7. ASSUME CopyInstance \/ CopyInstanceFails
      PROVE  IInv'
  <2>1. /\ frame.dst \in Slots /\ frame.src \in Slots
        /\ frame.src \in Objects
        /\ instance_[frame.dst] # NULL
        /\ instance_[frame.src] # NULL
        /\ lifetime[frame.dst] = "building"
        /\ Live(frame.src)
        /\ frame.src # frame.dst
        /\ frame.pc = "copy"
        /\ CopyReturns
        /\ UNCHANGED <<fields, creator, undeleted>>
    BY <1>0, <1>7
       DEF FrameOK, FieldsOK, TypeOK, Frames, CopyInstance, CopyInstanceFails,
           Live, fields, middleware
  <2>2. PICK c \in Contents \cup {Blank} :
          /\ heap' = [heap EXCEPT ![instance_[frame.dst]] = c]
          /\ \/ c = heap[instance_[frame.src]]
             \/ "copy" \in Faults /\ c = Blank
    <3>1. CASE CopyInstance
      <4>1. heap[instance_[frame.src]] \in Contents \cup {Blank}
        BY <1>0, <2>1 DEF TypeOK, HeapInv, HeldIsDeletable
      <4>2. QED
        BY <3>1, <4>1 DEF CopyInstance
    <3>2. CASE CopyInstanceFails
      <4>1. heap' = [heap EXCEPT ![instance_[frame.dst]] = Blank]
        BY <1>0, <2>1, <3>2
           DEF CopyInstanceFails, middleware, FrameOK, TypeOK
      <4>2. QED
        BY <3>2, <4>1 DEF CopyInstanceFails
    <3>3. QED
      BY <1>7, <3>1, <3>2
  <2>3. HeapInv' /\ TypeOK'
    BY <1>0, <2>1, <2>2, HeapWriteKeeps
       DEF TypeOK, Frames, Idle, fields, CopyReturns
  <2>4. FieldsOK'
    BY <1>0, <2>1 DEF TypeOK, FieldsOK, fields, CopyReturns
  <2>5. FrameOK'
    <3>1. CASE frame.dst = Temp
      <4>1. /\ lifetime' = [lifetime EXCEPT ![Temp] = "live"]
            /\ frame' = [frame EXCEPT !.pc = "swap"]
            /\ instance_' = instance_
        BY <2>1, <3>1 DEF CopyReturns, fields
      <4>2. /\ heap'[instance_[Temp]] = c
            /\ heap'[instance_[frame.src]] = heap[instance_[frame.src]]
        BY <1>0, <2>1, <2>2, <3>1 DEF TypeOK, HeapInv, NoSharing
      <4>3. frame' \in Frames /\ frame'.pc = "swap" /\ frame'.dst = Temp
            /\ frame'.src = frame.src /\ frame'.lhs = frame.lhs
        BY <1>0, <3>1, <4>1 DEF TypeOK, Frames
      <4>4. frame.lhs \in Objects /\ Live(frame.lhs) /\ frame.lhs # Temp
        BY <1>0, <2>1, <3>1 DEF FrameOK
      <4>5. \A o \in Slots : lifetime'[o] # "building"
        BY <1>0, <2>1, <3>1, <4>1 DEF FrameOK, TypeOK
      <4>6. Live(Temp)' /\ Live(frame.lhs)' /\ Live(frame.src)'
        BY <1>0, <2>1, <3>1, <4>1, <4>4 DEF Live, TypeOK, Slots
      <4>7. QED
        BY <2>1, <2>2, <3>1, <4>1, <4>2, <4>3, <4>4, <4>5, <4>6
           DEF FrameOK, Live
    <3>2. CASE frame.dst # Temp
      <4>1. /\ lifetime' = [lifetime EXCEPT ![frame.dst] = "live"]
            /\ frame' = Idle
        BY <2>1, <3>2 DEF CopyReturns
      <4>2. QED
        BY <1>0, <2>1, <3>2, <4>1 DEF FrameOK, TypeOK, Idle
    <3>3. QED
      BY <3>1, <3>2
  <2>6. QED
    BY <2>3, <2>4, <2>5 DEF HeapInv
<1>8. ASSUME AssignSwap
      PROVE  IInv'
  <2>1. /\ frame.lhs \in Slots
        /\ frame.lhs # Temp
        /\ frame.pc = "swap"
        /\ Live(Temp) /\ Live(frame.lhs)
        /\ SwapFields(Temp, frame.lhs)
        /\ frame' = [frame EXCEPT !.pc = "destroy"]
        /\ UNCHANGED <<lifetime, middleware>>
    BY <1>0, <1>8 DEF AssignSwap, FrameOK, Slots
  <2>2. HeapInv' /\ TypeOK'
    BY <1>0, <2>1, SwapKeeps DEF TypeOK, Frames, middleware
  <2>3. FieldsOK'
    BY <1>0, <2>1, SwapKeeps DEF TypeOK, FieldsOK, SwapFields, FrameOK, Live
  <2>4. FrameOK'
    BY <1>0, <2>1 DEF TypeOK, FrameOK, Frames, Live
  <2>5. QED
    BY <2>2, <2>3, <2>4 DEF HeapInv
<1>9. ASSUME AssignDestroyTemp
      PROVE  IInv'
  <2>1. /\ frame.pc = "destroy"
        /\ Destructor(Temp)
        /\ frame' = Idle
    BY <1>9 DEF AssignDestroyTemp
  <2>2. HeapInv' /\ TypeOK'
    BY <1>0, <2>1, DestructorKeeps DEF TypeOK, Frames, Idle
  <2>3. FieldsOK'
    BY <1>0, <2>1, DestructorKeeps DEF TypeOK, FieldsOK
  <2>4. lifetime' = [lifetime EXCEPT ![Temp] = "none"]
    BY <1>0, <2>1, DestructorKeeps
  <2>5. FrameOK'
    BY <1>0, <2>1, <2>4 DEF TypeOK, FrameOK, Idle
  <2>6. QED
    BY <2>2, <2>3, <2>5 DEF HeapInv
<1>10. ASSUME NEW o \in Objects, NEW p \in Objects, MoveConstruct(o, p)
       PROVE  IInv'
  <2>1. /\ o \in Slots /\ p \in Slots /\ o # p
        /\ o # Temp /\ p # Temp
        /\ instance_[o] = NULL /\ type_support_[o] = NULL
        /\ Live(p)
        /\ lifetime' = [lifetime EXCEPT ![o] = "live"]
        /\ frame.pc = "idle"
        /\ UNCHANGED <<middleware, frame>>
    BY <1>0, <1>10 DEF MoveConstruct, FieldsOK, Slots, Live, IsIdle
  <2>2. SwapFields(o, p)
    BY <1>0, <1>10, <2>1 DEF MoveConstruct, SwapFields
  <2>3. HeapInv' /\ TypeOK'
    BY <1>0, <2>1, <2>2, SwapKeeps DEF TypeOK, middleware
  <2>4. FieldsOK'
    BY <1>0, <2>1, <2>2, SwapKeeps DEF TypeOK, FieldsOK, SwapFields, FrameOK, Live
  <2>5. FrameOK'
    BY <1>0, <2>1 DEF TypeOK, FrameOK
  <2>6. QED
    BY <2>3, <2>4, <2>5 DEF HeapInv
<1>11. ASSUME NEW o \in Objects, NEW p \in Objects, Swap(o, p)
       PROVE  IInv'
  <2>1. /\ o \in Slots /\ p \in Slots
        /\ Live(o) /\ Live(p)
        /\ SwapFields(o, p)
        /\ frame.pc = "idle"
        /\ UNCHANGED <<lifetime, middleware, frame>>
    BY <1>11 DEF Swap, Slots, IsIdle
  <2>2. HeapInv' /\ TypeOK'
    BY <1>0, <2>1, SwapKeeps DEF TypeOK, middleware
  <2>3. FieldsOK'
    BY <1>0, <2>1, SwapKeeps DEF TypeOK, FieldsOK, SwapFields, FrameOK, Live
  <2>4. FrameOK'
    BY <1>0, <2>1 DEF TypeOK, FrameOK
  <2>5. QED
    BY <2>2, <2>3, <2>4 DEF HeapInv
<1>12. ASSUME NEW o \in Objects, NEW v \in Contents, Populate(o, v)
       PROVE  IInv'
  <2>1. /\ o \in Slots
        /\ instance_[o] # NULL
        /\ heap' = [heap EXCEPT ![instance_[o]] = v]
        /\ frame.pc = "idle"
        /\ UNCHANGED <<lifetime, fields, creator, undeleted, frame>>
    BY <1>12 DEF Populate, Slots, IsIdle
  <2>2. HeapInv' /\ TypeOK'
    BY <1>0, <2>1, HeapWriteKeeps DEF TypeOK, fields
  <2>3. FieldsOK' /\ FrameOK'
    BY <1>0, <2>1 DEF FieldsOK, FrameOK, fields
  <2>4. QED
    BY <2>2, <2>3 DEF HeapInv
<1>13. ASSUME NEW o \in Objects, Destroy(o)
       PROVE  IInv'
  <2>1. /\ o \in Slots
        /\ Destructor(o)
        /\ frame.pc = "idle"
        /\ frame' = frame
    BY <1>13 DEF Destroy, Slots, IsIdle
  <2>2. HeapInv' /\ TypeOK'
    BY <1>0, <2>1, DestructorKeeps DEF TypeOK
  <2>3. FieldsOK'
    BY <1>0, <2>1, DestructorKeeps DEF TypeOK, FieldsOK
  <2>4. lifetime' = [lifetime EXCEPT ![o] = "none"]
    BY <1>0, <2>1, DestructorKeeps
  <2>5. FrameOK'
    BY <1>0, <2>1, <2>4 DEF TypeOK, FrameOK
  <2>6. QED
    BY <2>2, <2>3, <2>5 DEF HeapInv
<1>14. CASE UNCHANGED vars
  BY <1>0, <1>14
     DEF vars, TypeOK, FieldsOK, FrameOK, NoSharing, NoLeak, UndeletedExist,
         HeldIsDeletable, Live
<1>15. QED
  BY <1>1, <1>2, <1>3, <1>4, <1>5, <1>6, <1>7, <1>8, <1>9, <1>10, <1>11,
     <1>12, <1>13, <1>14
     DEF Next, Call, Continue, MoveAssign, InitThrows

(* Every reachable state satisfies the inductive invariant.                *)
THEOREM Invariance == Spec => []IInv
BY InvInit, InvNext, PTL DEF Spec

(* The fields, the heap and the operation in progress keep their types     *)
(* (TypeOK), whichever calls of the middleware fail.                       *)
THEOREM TypeCorrect == Spec => []TypeOK
<1>1. IInv => TypeOK
  BY DEF IInv
<1>2. QED
  BY <1>1, Invariance, PTL

(* Every instance has one owner until it is deleted (SoleOwner): for any   *)
(* number of objects, nothing is leaked or shared by copies, assignments,  *)
(* moves, swaps or throwing constructors.                                  *)
THEOREM InstancesHaveOneOwner == Spec => []SoleOwner
<1>1. IInv => SoleOwner
  <2>1. ASSUME IInv, NEW i \in Instances, heap[i] # Free, i \notin undeleted
        PROVE  \E o \in Slots : /\ instance_[o] = i
                                /\ \A p \in Slots : instance_[p] = i => p = o
    <3>1. PICK o \in Slots : instance_[o] = i
      BY <2>1 DEF IInv, NoLeak
    <3>2. \A p \in Slots : instance_[p] = i => p = o
      BY <2>1, <3>1, ConstantsOK DEF IInv, NoSharing
    <3>3. QED
      BY <3>1, <3>2
  <2>2. QED
    BY <2>1 DEF SoleOwner
<1>2. QED
  BY <1>1, Invariance, PTL

(* What an object holds exists and goes back, once, to the type support it *)
(* came from (HeldIsDeletable).                                            *)
THEOREM HeldInstancesAreDeletable == Spec => []HeldIsDeletable
<1>1. IInv => HeldIsDeletable
  BY DEF IInv
<1>2. QED
  BY <1>1, Invariance, PTL

-----------------------------------------------------------------------------
(* Refinement of ValueObject.                                              *)

absVal == [o \in Objects |-> ValueOf(o)]

(* The value of an object depends on its own fields and instance alone.    *)
LEMMA SameValue ==
  ASSUME NEW o \in Objects,
         Live(o)' = Live(o),
         Live(o) => instance_'[o] = instance_[o],
         Live(o) /\ instance_[o] # NULL =>
           heap'[instance_[o]] = heap[instance_[o]]
  PROVE  ValueOf(o)' = ValueOf(o)
BY DEF ValueOf

LEMMA AbsEqual ==
  ASSUME \A o \in Objects : ValueOf(o)' = ValueOf(o)
  PROVE  absVal' = absVal
BY DEF absVal

(* The object being built, and the temporary, are not visible yet.         *)
LEMMA HiddenInit ==
  ASSUME IInv, NEW o \in Slots, NEW ts \in TypeSupports \cup {NULL},
         lifetime[o] = "none", InitFields(o, ts),
         lifetime' = [lifetime EXCEPT ![o] = "building"]
  PROVE  absVal' = absVal
<1>1. TypeOK /\ HeapInv /\ instance_[o] = NULL
  BY DEF IInv, HeapInv, FieldsOK
<1>2. \A p \in Slots : p # o =>
        /\ instance_'[p] = instance_[p]
        /\ instance_[p] # NULL => heap'[instance_[p]] = heap[instance_[p]]
  BY <1>1, InitFieldsKeeps
<1>3. ASSUME NEW p \in Objects
      PROVE  ValueOf(p)' = ValueOf(p)
  <2>1. CASE p = o
    BY <1>1, <2>1 DEF ValueOf, Live, TypeOK
  <2>2. CASE p # o
    <3>1. Live(p)' = Live(p)
      BY <1>1, <2>2 DEF Live, TypeOK, Slots
    <3>2. QED
      BY <1>2, <2>2, <3>1, SameValue DEF Slots
  <2>3. QED
    BY <2>1, <2>2
<1>4. QED
  BY <1>3, AbsEqual

(* A destructor changes the value of its own object at most.               *)
LEMMA OthersAfterDestructor ==
  ASSUME IInv, NEW o \in Slots, Destructor(o), NEW p \in Objects, p # o
  PROVE  ValueOf(p)' = ValueOf(p)
<1>1. TypeOK /\ HeapInv /\ p \in Slots
  BY DEF IInv, HeapInv, Slots
<1>2. /\ instance_'[p] = instance_[p]
      /\ instance_[p] # NULL => heap'[instance_[p]] = heap[instance_[p]]
      /\ lifetime' = [lifetime EXCEPT ![o] = "none"]
  BY <1>1, DestructorKeeps
<1>3. Live(p)' = Live(p)
  BY <1>1, <1>2 DEF Live, TypeOK
<1>4. QED
  BY <1>2, <1>3, SameValue

(* Writing to the instance of one object changes no other object.          *)
LEMMA OthersAfterWrite ==
  ASSUME IInv, NEW o \in Slots, instance_[o] # NULL,
         NEW v \in Contents \cup {Blank},
         heap' = [heap EXCEPT ![instance_[o]] = v],
         UNCHANGED <<fields, creator, undeleted>>,
         NEW p \in Objects, p # o, Live(p)' = Live(p)
  PROVE  ValueOf(p)' = ValueOf(p)
<1>1. TypeOK /\ HeapInv /\ p \in Slots
  BY DEF IInv, HeapInv, Slots
<1>2. instance_[p] # NULL => heap'[instance_[p]] = heap[instance_[p]]
  BY <1>1, HeapWriteKeeps
<1>3. QED
  BY <1>2, SameValue DEF fields

LEMMA AbsStep == IInv /\ [Next]_vars => [Abstract!Next]_absVal
<1> SUFFICES ASSUME IInv, [Next]_vars
             PROVE  [Abstract!Next]_absVal
  OBVIOUS
<1> USE ConstantsOK
<1>0. TypeOK /\ HeapInv /\ FieldsOK /\ FrameOK /\ Temp \in Slots
  BY DEF IInv, HeapInv, Slots
<1>a. \A o \in Objects : absVal[o] = ValueOf(o) /\ absVal'[o] = ValueOf(o)'
  BY DEF absVal
<1>b. \A v : \A o \in Objects :
        (\A p \in Objects : p # o => ValueOf(p)' = ValueOf(p)) /\ ValueOf(o)' = v
          => absVal' = [absVal EXCEPT ![o] = v]
  BY DEF absVal
<1>c. \A o \in Objects : Live(o) /\ instance_[o] # NULL =>
        ValueOf(o) = heap[instance_[o]] /\ ValueOf(o) \in Contents \cup {Blank}
  BY <1>0 DEF ValueOf, TypeOK, HeapInv, HeldIsDeletable, Slots
<1>1. ASSUME NEW o \in Objects, NEW ts \in TypeSupports, Construct(o, ts)
      PROVE  Abstract!Next
  <2>1. /\ o \in Slots
        /\ instance_[o] = NULL
        /\ InitFields(o, ts)
        /\ lifetime' = [lifetime EXCEPT ![o] = "live"]
    BY <1>0, <1>1 DEF Construct, FieldsOK, Slots
  <2>2. ValueOf(o)' = Blank
    BY <1>0, <2>1, InitFieldsKeeps DEF ValueOf, Live, TypeOK
  <2>3. ASSUME NEW p \in Objects, p # o
        PROVE  ValueOf(p)' = ValueOf(p)
    <3>1. p \in Slots /\ Live(p)' = Live(p)
      BY <1>0, <2>1, <2>3 DEF Live, TypeOK, Slots
    <3>2. /\ instance_'[p] = instance_[p]
          /\ instance_[p] # NULL => heap'[instance_[p]] = heap[instance_[p]]
      BY <1>0, <2>1, <2>3, <3>1, InitFieldsKeeps
    <3>3. QED
      BY <3>1, <3>2, SameValue
  <2>4. absVal[o] = NoObject
    BY <1>a, <1>1 DEF ValueOf, Live, Construct
  <2>5. Abstract!Create(o, Blank)
    BY <1>b, <2>2, <2>3, <2>4 DEF Abstract!Create, Abstract!Exists, absVal
  <2>6. QED
    BY <2>5 DEF Abstract!Next, Abstract!Values
<1>2. ASSUME NEW o \in Objects, NEW ts \in TypeSupports, ConstructBase(o, ts)
      PROVE  absVal' = absVal
  BY <1>2, HiddenInit DEF ConstructBase, Slots
<1>3. ASSUME NEW v \in Contents, WriteSource(v)
      PROVE  Abstract!Next
  <2>1. PICK o \in Objects :
        /\ o \in Slots
        /\ lifetime[o] = "building"
        /\ instance_[o] # NULL
        /\ heap' = [heap EXCEPT ![instance_[o]] = v]
        /\ lifetime' = [lifetime EXCEPT ![o] = "live"]
        /\ UNCHANGED <<fields, creator, undeleted>>
    BY <1>0, <1>3 DEF WriteSource, FieldsOK, FrameOK, Slots
  <2>2. ValueOf(o)' = v
    BY <1>0, <2>1 DEF ValueOf, Live, TypeOK, fields
  <2>3. ASSUME NEW p \in Objects, p # o
        PROVE  ValueOf(p)' = ValueOf(p)
    <3>1. Live(p)' = Live(p)
      BY <1>0, <2>1, <2>3 DEF Live, TypeOK, Slots
    <3>2. QED
      BY <2>1, <2>3, <3>1, OthersAfterWrite
  <2>4. absVal[o] = NoObject
    BY <1>a, <2>1 DEF ValueOf, Live
  <2>5. Abstract!Create(o, v)
    BY <1>b, <2>1, <2>2, <2>3, <2>4 DEF Abstract!Create, Abstract!Exists, absVal
  <2>6. QED
    BY <2>1, <2>5 DEF Abstract!Next, Abstract!Values
<1>4. ASSUME WriteThrows
      PROVE  absVal' = absVal
  <2>1. /\ frame.dst \in Slots
        /\ lifetime[frame.dst] = "building"
        /\ Destructor(frame.dst)
        /\ lifetime' = [lifetime EXCEPT ![frame.dst] = "none"]
    BY <1>0, <1>4 DEF WriteThrows, TypeOK, Frames, FrameOK, Destructor
  <2>2. ASSUME NEW p \in Objects
        PROVE  ValueOf(p)' = ValueOf(p)
    <3>1. CASE p = frame.dst
      BY <1>0, <2>1, <3>1 DEF ValueOf, Live, TypeOK
    <3>2. CASE p # frame.dst
      BY <2>1, <3>2, OthersAfterDestructor
    <3>3. QED
      BY <3>1, <3>2
  <2>3. QED
    BY <2>2, AbsEqual
<1>5. ASSUME NEW o \in Objects, NEW p \in Objects, CopyConstruct(o, p)
      PROVE  absVal' = absVal
  <2>1. o \in Slots /\ type_support_[p] \in TypeSupports \cup {NULL}
    BY <1>0 DEF TypeOK, Slots
  <2>2. QED
    BY <1>5, <2>1, HiddenInit DEF CopyConstruct
<1>6. ASSUME NEW o \in Objects, NEW p \in Objects, CopyAssign(o, p)
      PROVE  absVal' = absVal
  <2>1. type_support_[p] \in TypeSupports \cup {NULL} /\ lifetime[Temp] = "none"
    BY <1>0, <1>6 DEF TypeOK, Slots, FrameOK, CopyAssign, IsIdle
  <2>2. QED
    BY <1>0, <1>6, <2>1, HiddenInit DEF CopyAssign
<1>7. ASSUME CopyInstance \/ CopyInstanceFails
      PROVE  Abstract!Next \/ absVal' = absVal
  <2>1. PICK o \in Slots, p \in Objects :
        /\ o = frame.dst /\ p = frame.src
        /\ p \in Slots /\ o # p
        /\ lifetime[o] = "building" /\ Live(p)
        /\ instance_[o] # NULL /\ instance_[p] # NULL
        /\ heap[instance_[o]] = Blank
        /\ lifetime' = [lifetime EXCEPT ![o] = "live"]
        /\ UNCHANGED <<fields, creator, undeleted>>
    BY <1>0, <1>7
       DEF FrameOK, FieldsOK, TypeOK, Frames, CopyInstance, CopyInstanceFails,
           CopyReturns, Live, fields, middleware
  <2>2. ValueOf(p) \in Contents \cup {Blank} /\ ValueOf(p) = heap[instance_[p]]
    BY <1>c, <2>1
  <2>3. PICK c \in Contents \cup {Blank} :
          /\ heap' = [heap EXCEPT ![instance_[o]] = c]
          /\ \/ c = ValueOf(p)
             \/ "copy" \in Faults /\ c = Blank
    <3>1. CASE CopyInstance
      BY <2>1, <2>2, <3>1 DEF CopyInstance
    <3>2. CASE CopyInstanceFails
      <4>1. heap' = [heap EXCEPT ![instance_[o]] = Blank]
        BY <1>0, <2>1, <3>2 DEF CopyInstanceFails, middleware, TypeOK
      <4>2. QED
        BY <3>2, <4>1 DEF CopyInstanceFails
    <3>3. QED
      BY <1>7, <3>1, <3>2
  <2>4. ASSUME NEW q \in Objects, q # o
        PROVE  ValueOf(q)' = ValueOf(q)
    <3>1. Live(q)' = Live(q)
      BY <1>0, <2>1, <2>4 DEF Live, TypeOK, Slots
    <3>2. QED
      BY <2>1, <2>3, <2>4, <3>1, OthersAfterWrite
  <2>5. CASE o = Temp
    BY <2>4, <2>5, AbsEqual
  <2>6. CASE o \in Objects
    <3>1. ValueOf(o)' = c
      BY <1>0, <2>1, <2>3 DEF ValueOf, Live, TypeOK, fields
    <3>2. absVal' = [absVal EXCEPT ![o] = c]
      BY <1>b, <2>4, <2>6, <3>1
    <3>3. Abstract!CopyTo(o, p)
      BY <1>a, <2>1, <2>2, <2>3, <3>2
         DEF Abstract!CopyTo, Abstract!Values, absVal
    <3>4. QED
      BY <2>1, <2>6, <3>3 DEF Abstract!Next
  <2>7. QED
    BY <2>1, <2>5, <2>6 DEF Slots
<1>8. ASSUME AssignSwap
      PROVE  Abstract!Next
  <2>1. PICK o \in Objects, p \in Objects :
        /\ o \in Slots /\ o # Temp
        /\ Live(p) /\ instance_[p] # NULL
        /\ Live(o)
        /\ instance_[Temp] # NULL
        /\ instance_' = [instance_ EXCEPT ![Temp] = instance_[o],
                                          ![o] = instance_[Temp]]
        /\ UNCHANGED <<lifetime, heap>>
        /\ \/ heap[instance_[Temp]] = heap[instance_[p]]
           \/ "copy" \in Faults /\ heap[instance_[Temp]] = Blank
    BY <1>0, <1>8 DEF AssignSwap, FrameOK, Slots, SwapFields, middleware
  <2>2. ValueOf(o)' = heap[instance_[Temp]]
    BY <1>0, <2>1 DEF ValueOf, Live, TypeOK
  <2>3. ASSUME NEW q \in Objects, q # o
        PROVE  ValueOf(q)' = ValueOf(q)
    BY <1>0, <2>1, <2>3 DEF ValueOf, Live, TypeOK, Slots
  <2>4. absVal' = [absVal EXCEPT ![o] = heap[instance_[Temp]]]
    BY <1>b, <2>1, <2>2, <2>3
  <2>5. ValueOf(p) \in Contents \cup {Blank} /\ ValueOf(p) = heap[instance_[p]]
    BY <1>c, <2>1
  <2>6. Abstract!CopyTo(o, p)
    BY <1>a, <2>1, <2>4, <2>5 DEF Abstract!CopyTo, Abstract!Values, absVal
  <2>7. QED
    BY <2>1, <2>6 DEF Abstract!Next
<1>9. ASSUME AssignDestroyTemp
      PROVE  absVal' = absVal
  <2>1. ASSUME NEW p \in Objects
        PROVE  ValueOf(p)' = ValueOf(p)
    BY <1>0, <1>9, OthersAfterDestructor DEF AssignDestroyTemp
  <2>2. QED
    BY <2>1, AbsEqual
<1>10. ASSUME NEW o \in Objects, NEW p \in Objects, MoveConstruct(o, p)
       PROVE  Abstract!Next
  <2>1. /\ ValueOf(o) = NoObject
        /\ ValueOf(p) # NoObject
        /\ ValueOf(o)' = ValueOf(p)
        /\ ValueOf(p)' = Moved
        /\ \A q \in Objects \ {o, p} : ValueOf(q)' = ValueOf(q)
    <3>1. /\ lifetime[o] = "none" /\ Live(p) /\ o # p
          /\ lifetime' = [lifetime EXCEPT ![o] = "live"]
          /\ instance_' = [instance_ EXCEPT ![o] = instance_[p], ![p] = NULL]
          /\ heap' = heap
      BY <1>10 DEF MoveConstruct, Live, middleware
    <3>2. ValueOf(p) # NoObject
      BY <1>c, <3>1 DEF ValueOf
    <3>3. QED
      BY <1>0, <3>1, <3>2 DEF ValueOf, Live, TypeOK, Slots
  <2>2. absVal' = [absVal EXCEPT ![o] = absVal[p], ![p] = Moved]
    BY <2>1 DEF absVal
  <2>3. Abstract!MoveTo(o, p)
    BY <1>a, <2>1, <2>2 DEF Abstract!MoveTo, Abstract!Exists, absVal
  <2>4. QED
    BY <2>3 DEF Abstract!Next
<1>11. ASSUME NEW o \in Objects, NEW p \in Objects, Swap(o, p)
       PROVE  Abstract!Next
  <2>1. /\ ValueOf(o) # NoObject
        /\ ValueOf(p) # NoObject
        /\ ValueOf(o)' = ValueOf(p)
        /\ ValueOf(p)' = ValueOf(o)
        /\ \A q \in Objects \ {o, p} : ValueOf(q)' = ValueOf(q)
    <3>1. /\ Live(o) /\ Live(p)
          /\ lifetime' = lifetime
          /\ instance_' = [instance_ EXCEPT ![o] = instance_[p],
                                            ![p] = instance_[o]]
          /\ heap' = heap
      BY <1>11 DEF Swap, SwapFields, middleware
    <3>2. ValueOf(p) # NoObject /\ ValueOf(o) # NoObject
      BY <1>c, <3>1 DEF ValueOf
    <3>3. QED
      BY <1>0, <3>1, <3>2 DEF ValueOf, Live, TypeOK, Slots
  <2>2. absVal' = [absVal EXCEPT ![o] = absVal[p], ![p] = absVal[o]]
    BY <2>1 DEF absVal
  <2>3. Abstract!Exchange(o, p)
    BY <1>a, <2>1, <2>2 DEF Abstract!Exchange, Abstract!Exists, absVal
  <2>4. QED
    BY <2>3 DEF Abstract!Next
<1>12. ASSUME NEW o \in Objects, NEW v \in Contents, Populate(o, v)
       PROVE  Abstract!Next
  <2>1. /\ Live(o) /\ instance_[o] # NULL /\ o \in Slots
        /\ heap' = [heap EXCEPT ![instance_[o]] = v]
        /\ UNCHANGED <<lifetime, fields, creator, undeleted>>
    BY <1>12 DEF Populate, Slots
  <2>2. ValueOf(o)' = v
    BY <1>0, <2>1 DEF ValueOf, Live, TypeOK, fields
  <2>3. ASSUME NEW p \in Objects, p # o
        PROVE  ValueOf(p)' = ValueOf(p)
    <3>1. Live(p)' = Live(p)
      BY <2>1 DEF Live
    <3>2. QED
      BY <2>1, <2>3, <3>1, OthersAfterWrite
  <2>4. Abstract!Populate(o, v)
    BY <1>a, <1>b, <1>c, <2>1, <2>2, <2>3
       DEF Abstract!Populate, Abstract!Values, absVal
  <2>5. QED
    BY <2>4 DEF Abstract!Next
<1>13. ASSUME NEW o \in Objects, Destroy(o)
       PROVE  Abstract!Next
  <2>1. /\ Live(o) /\ o \in Slots
        /\ Destructor(o)
        /\ lifetime' = [lifetime EXCEPT ![o] = "none"]
    BY <1>13 DEF Destroy, Slots, Destructor
  <2>2. ValueOf(o)' = NoObject
    BY <1>0, <2>1 DEF ValueOf, Live, TypeOK
  <2>3. \A p \in Objects : p # o => ValueOf(p)' = ValueOf(p)
    BY <2>1, OthersAfterDestructor
  <2>4. absVal[o] # NoObject
    BY <1>a, <1>c, <2>1 DEF ValueOf
  <2>5. Abstract!Destroy(o)
    BY <1>b, <2>2, <2>3, <2>4 DEF Abstract!Destroy, Abstract!Exists, absVal
  <2>6. QED
    BY <2>5 DEF Abstract!Next
<1>14. CASE UNCHANGED vars
  BY <1>14, AbsEqual DEF vars, ValueOf, Live
<1>15. QED
  BY <1>1, <1>2, <1>3, <1>4, <1>5, <1>6, <1>7, <1>8, <1>9, <1>10, <1>11,
     <1>12, <1>13, <1>14
     DEF Next, Call, Continue, MoveAssign, InitThrows

(* AutoDynamicData implements ValueObject (ValueSemantics): for any number *)
(* of objects, no operation on one is visible through another, a failed    *)
(* assignment changes nothing, and a copy has its source's value, or is    *)
(* Blank where DDS_DynamicData::copy may fail.                             *)
THEOREM ImplementsValueObject == Spec => ValueSemantics
<1>1. Init => Abstract!Init
  BY DEF Init, Abstract!Init, ValueOf, Live, Slots
<1>2. IInv /\ [Next]_vars => [Abstract!Next]_absVal
  BY AbsStep
<1>3. QED
  BY <1>1, <1>2, Invariance, PTL
     DEF Spec, ValueSemantics, Abstract!Spec, absVal
=============================================================================
