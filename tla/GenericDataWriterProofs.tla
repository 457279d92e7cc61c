----------------------- MODULE GenericDataWriterProofs -----------------------
(***************************************************************************)
(* What module GenericDataWriter says of its objects, proved for any       *)
(* number of objects, type supports, DataWriters and topic names, and      *)
(* whichever calls may fail.                                               *)
(***************************************************************************)
EXTENDS GenericDataWriter, TLAPS

(* Variables without an object hold nothing: no constructor overwrites a   *)
(* reference.                                                              *)
NothingElsewhere ==
  \A w \in Writers \ exists :
    type_support_[w] = NULL /\ borrowed[w] = NULL /\ safe_datawriter_[w] = NULL

(* Without assignments an instance belongs to the type support its own     *)
(* object shares, which is why that type support is alive.                 *)
BorrowsItsOwn ==
  ~assigning =>
    /\ ~crashed
    /\ \A w \in Writers : borrowed[w] \in {NULL, type_support_[w]}

IInv ==
  /\ TypeOK
  /\ NothingElsewhere
  /\ BorrowsItsOwn
  /\ DataWriterWhileHeld

-----------------------------------------------------------------------------

(* IInv implies the property that is not one of its conjuncts.             *)
LEMMA BorrowedIsAlive ==
  ASSUME TypeOK, BorrowsItsOwn
  PROVE  SupportOutlivesInstance
<1> SUFFICES ASSUME ~assigning
             PROVE  ~crashed /\ Owned(borrowed) \subseteq Alive
  BY DEF SupportOutlivesInstance
<1>1. ~crashed
  BY DEF BorrowsItsOwn
<1>2. ASSUME NEW w \in Writers, borrowed[w] # NULL
      PROVE  borrowed[w] \in Alive
  BY <1>2 DEF BorrowsItsOwn, Alive, Owned
<1> QED
  BY <1>1, <1>2 DEF Owned

(* dw_deleter keeps the books, given that an operation does not invent     *)
(* references.                                                             *)
LEMMA ReleaseKeepsDataWriters ==
  ASSUME DataWriterWhileHeld, Release, Held' \subseteq Held,
         orphans \subseteq DataWriters, datawriters \subseteq DataWriters
  PROVE  /\ DataWriterWhileHeld'
         /\ orphans' \subseteq DataWriters
         /\ datawriters' \subseteq DataWriters
<1> DEFINE unheld == (datawriters \ orphans) \ Held'
<1>1. unheld = Held \ Held'
  BY DEF DataWriterWhileHeld
<1>2. CASE datawriters' = datawriters \ unheld /\ orphans' = orphans
  BY <1>1, <1>2 DEF DataWriterWhileHeld
<1>3. CASE orphans' = orphans \cup unheld /\ datawriters' = datawriters
  BY <1>1, <1>3 DEF DataWriterWhileHeld
<1> QED
  BY <1>2, <1>3 DEF Release

LEMMA InitEstablishesIInv == Init => IInv
  BY WriterConstants
  DEF Init, IInv, TypeOK, NothingElsewhere, BorrowsItsOwn, DataWriterWhileHeld,
      Held, Owned

LEMMA ConstructKeepsIInv ==
  ASSUME IInv, NEW w \in Writers, NEW name \in TopicNames, Construct(w, name)
  PROVE  IInv'
<1> USE DEF IInv
<1>1. PICK s \in Unused, dw \in DataWriters \ datawriters :
        /\ type_support_' = [type_support_ EXCEPT ![w] = s]
        /\ borrowed' = [borrowed EXCEPT ![w] = s]
        /\ safe_datawriter_' = [safe_datawriter_ EXCEPT ![w] = dw]
        /\ datawriters' = datawriters \cup {dw}
  BY DEF Construct
<1>2. TypeOK'
  BY <1>1 DEF Construct, TypeOK, Unused
<1>3. NothingElsewhere'
  BY <1>1 DEF Construct, TypeOK, NothingElsewhere
<1>4. BorrowsItsOwn'
  BY <1>1 DEF Construct, TypeOK, BorrowsItsOwn
<1>5. Held' = Held \cup {dw}
  <2>1. dw # NULL
    BY WriterConstants
  <2>2. safe_datawriter_[w] = NULL
    BY DEF Construct, NothingElsewhere
  <2>3. \A x \in Writers : safe_datawriter_'[x] =
                             IF x = w THEN dw ELSE safe_datawriter_[x]
    BY <1>1 DEF TypeOK
  <2> QED
    BY <2>1, <2>2, <2>3 DEF Held, Owned
<1>6. DataWriterWhileHeld'
  BY <1>1, <1>5 DEF Construct, DataWriterWhileHeld
<1> QED
  BY <1>2, <1>3, <1>4, <1>6

LEMMA ConstructThrowsLateKeepsIInv ==
  ASSUME IInv, NEW w \in Writers, NEW name \in TopicNames,
         ConstructThrowsLate(w, name)
  PROVE  IInv'
<1> USE DEF IInv, ConstructThrowsLate
<1>1. TypeOK'
  BY DEF TypeOK
<1>2. NothingElsewhere' /\ BorrowsItsOwn'
  BY DEF NothingElsewhere, BorrowsItsOwn
<1>3. Held' = Held
  BY DEF Held, Owned
<1>4. DataWriterWhileHeld'
  BY <1>3 DEF DataWriterWhileHeld
<1> QED
  BY <1>1, <1>2, <1>4

LEMMA CopyConstructKeepsIInv ==
  ASSUME IInv, NEW w \in Writers, NEW x \in Writers, CopyConstruct(w, x)
  PROVE  IInv'
<1> USE DEF IInv, CopyConstruct
<1>1. TypeOK'
  BY DEF TypeOK, Call
<1>2. NothingElsewhere'
  BY DEF TypeOK, NothingElsewhere
<1>3. ~assigning => borrowed[x] \in Alive
  BY DEF BorrowsItsOwn, Alive, Owned
<1>4. BorrowsItsOwn'
  BY <1>3 DEF TypeOK, BorrowsItsOwn, Call
<1>5. Held' = Held
  <2>1. safe_datawriter_[w] = NULL
    BY DEF NothingElsewhere
  <2>2. \A y \in Writers : safe_datawriter_'[y] =
                             safe_datawriter_[IF y = w THEN x ELSE y]
    BY DEF TypeOK
  <2> QED
    BY <2>1, <2>2 DEF Held, Owned
<1>6. DataWriterWhileHeld'
  BY <1>5 DEF DataWriterWhileHeld
<1> QED
  BY <1>1, <1>2, <1>4, <1>6

LEMMA MoveConstructKeepsIInv ==
  ASSUME IInv, NEW w \in Writers, NEW x \in Writers, MoveConstruct(w, x)
  PROVE  IInv'
<1> USE DEF IInv, MoveConstruct
<1>1. TypeOK'
  BY DEF TypeOK
<1>2. NothingElsewhere'
  BY DEF TypeOK, NothingElsewhere
<1>3. BorrowsItsOwn'
  BY DEF TypeOK, BorrowsItsOwn
<1>4. Held' = Held
  <2>1. safe_datawriter_[w] = NULL /\ w # x
    BY DEF NothingElsewhere
  <2>2. \A y \in Writers : safe_datawriter_'[y] =
          IF y = x THEN NULL
          ELSE IF y = w THEN safe_datawriter_[x] ELSE safe_datawriter_[y]
    BY <2>1 DEF TypeOK
  <2> QED
    BY <2>1, <2>2 DEF Held, Owned
<1>5. DataWriterWhileHeld'
  BY <1>4 DEF DataWriterWhileHeld
<1> QED
  BY <1>1, <1>2, <1>3, <1>5

LEMMA CopyAssignKeepsIInv ==
  ASSUME IInv, NEW w \in Writers, NEW x \in Writers, CopyAssign(w, x)
  PROVE  IInv'
<1> USE DEF IInv, CopyAssign
<1>1. Held' \subseteq Held
  BY DEF Held, Owned, TypeOK
<1>2. /\ DataWriterWhileHeld'
      /\ orphans' \subseteq DataWriters
      /\ datawriters' \subseteq DataWriters
  BY <1>1, ReleaseKeepsDataWriters DEF TypeOK
<1>3. TypeOK'
  BY <1>2 DEF TypeOK, Call
<1>4. NothingElsewhere' /\ BorrowsItsOwn'
  BY DEF TypeOK, NothingElsewhere, BorrowsItsOwn
<1> QED
  BY <1>2, <1>3, <1>4

LEMMA CopyAssignThrowsKeepsIInv ==
  ASSUME IInv, NEW w \in Writers, NEW x \in Writers, CopyAssignThrows(w, x)
  PROVE  IInv'
<1> USE DEF IInv, CopyAssignThrows
<1>1. TypeOK'
  BY DEF TypeOK, Call
<1>2. NothingElsewhere' /\ BorrowsItsOwn'
  BY DEF TypeOK, NothingElsewhere, BorrowsItsOwn
<1>3. Held' = Held
  BY DEF Held, Owned
<1>4. DataWriterWhileHeld'
  BY <1>3 DEF DataWriterWhileHeld
<1> QED
  BY <1>1, <1>2, <1>4

LEMMA MoveAssignKeepsIInv ==
  ASSUME IInv, NEW w \in Writers, NEW x \in Writers, MoveAssign(w, x)
  PROVE  IInv'
<1> USE DEF IInv, MoveAssign
<1>1. Held' \subseteq Held
  BY DEF Held, Owned, TypeOK
<1>2. /\ DataWriterWhileHeld'
      /\ orphans' \subseteq DataWriters
      /\ datawriters' \subseteq DataWriters
  BY <1>1, ReleaseKeepsDataWriters DEF TypeOK
<1>3. TypeOK'
  BY <1>2 DEF TypeOK
<1>4. NothingElsewhere' /\ BorrowsItsOwn'
  BY DEF TypeOK, NothingElsewhere, BorrowsItsOwn
<1> QED
  BY <1>2, <1>3, <1>4

LEMMA DestroyKeepsIInv ==
  ASSUME IInv, NEW w \in Writers, Destroy(w)
  PROVE  IInv'
<1> USE DEF IInv, Destroy
<1>1. Held' \subseteq Held
  BY DEF Held, Owned, TypeOK
<1>2. /\ DataWriterWhileHeld'
      /\ orphans' \subseteq DataWriters
      /\ datawriters' \subseteq DataWriters
  BY <1>1, ReleaseKeepsDataWriters DEF TypeOK
<1>3. TypeOK'
  BY <1>2 DEF TypeOK, Call
<1>4. NothingElsewhere'
  BY DEF TypeOK, NothingElsewhere
<1>5. ~assigning => borrowed[w] \in Alive \cup {NULL}
  BY DEF BorrowsItsOwn, Alive, Owned
<1>6. BorrowsItsOwn'
  BY <1>5 DEF TypeOK, BorrowsItsOwn, Call
<1> QED
  BY <1>2, <1>3, <1>4, <1>6

LEMMA StutterKeepsIInv ==
  ASSUME IInv, UNCHANGED vars
  PROVE  IInv'
BY DEF IInv, vars, TypeOK, NothingElsewhere, BorrowsItsOwn, DataWriterWhileHeld,
       Held, Owned

LEMMA NextKeepsIInv == IInv /\ [Next]_vars => IInv'
<1> SUFFICES ASSUME IInv, [Next]_vars
             PROVE  IInv'
  OBVIOUS
<1>1. ASSUME NEW w \in Writers, NEW name \in TopicNames, Construct(w, name)
      PROVE  IInv'
  BY <1>1, ConstructKeepsIInv
<1>2. ASSUME NEW w \in Writers, NEW name \in TopicNames, ConstructThrows(w, name)
      PROVE  IInv'
  BY <1>2, StutterKeepsIInv DEF ConstructThrows
<1>3. ASSUME NEW w \in Writers, NEW name \in TopicNames,
             ConstructThrowsLate(w, name)
      PROVE  IInv'
  BY <1>3, ConstructThrowsLateKeepsIInv
<1>4. ASSUME NEW w \in Writers, NEW x \in Writers, CopyConstruct(w, x)
      PROVE  IInv'
  BY <1>4, CopyConstructKeepsIInv
<1>5. ASSUME NEW w \in Writers, NEW x \in Writers, MoveConstruct(w, x)
      PROVE  IInv'
  BY <1>5, MoveConstructKeepsIInv
<1>6. ASSUME NEW w \in Writers, NEW x \in Writers, CopyAssign(w, x)
      PROVE  IInv'
  BY <1>6, CopyAssignKeepsIInv
<1>7. ASSUME NEW w \in Writers, NEW x \in Writers, CopyAssignThrows(w, x)
      PROVE  IInv'
  BY <1>7, CopyAssignThrowsKeepsIInv
<1>8. ASSUME NEW w \in Writers, NEW x \in Writers, MoveAssign(w, x)
      PROVE  IInv'
  BY <1>8, MoveAssignKeepsIInv
<1>9. ASSUME NEW w \in Writers, Destroy(w)
      PROVE  IInv'
  BY <1>9, DestroyKeepsIInv
<1>10. CASE UNCHANGED vars
  BY <1>10, StutterKeepsIInv
<1> QED
  BY <1>1, <1>2, <1>3, <1>4, <1>5, <1>6, <1>7, <1>8, <1>9, <1>10 DEF Next

-----------------------------------------------------------------------------

(* The strengthened invariant holds of every behaviour.                    *)
THEOREM Invariance == Spec => []IInv
BY InitEstablishesIInv, NextKeepsIInv, PTL DEF Spec

(* Without assignments every instance a GenericDataWriter has can be given *)
(* back to its type support: the order in which the members are declared   *)
(* is right for copies, moves, destruction and failing constructors.       *)
THEOREM SupportsOutliveInstances == Spec => []SupportOutlivesInstance
<1>1. IInv => SupportOutlivesInstance
  BY BorrowedIsAlive DEF IInv
<1> QED
  BY <1>1, Invariance, PTL

(* With assignments, too, a DDS DataWriter is there exactly as long as an  *)
(* object shares it, but for those whose deletion failed or that could not *)
(* be narrowed.                                                            *)
THEOREM DataWritersWhileHeld == Spec => []DataWriterWhileHeld
<1>1. IInv => DataWriterWhileHeld
  BY DEF IInv
<1> QED
  BY <1>1, Invariance, PTL

=============================================================================
