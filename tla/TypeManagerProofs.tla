------------------------- MODULE TypeManagerProofs -------------------------
(***************************************************************************)
(* What modules MakeTypecode and TypeManager say of typecodes and type     *)
(* supports, proved for any types that can be adapted, however deep, any   *)
(* number of managers, typecodes and objects, and whichever calls of the   *)
(* factory may fail.                                                       *)
(***************************************************************************)
EXTENDS TypeManager, SequenceTheorems, TLAPS

(* The types whose typecode is the factory's own.                          *)
Static(t) == Kind[t] = "primitive" \/ WrapsPrimitive(t)

(* s is a new typecode of an activation.                                   *)
IsNew(s) == \E tc \in Typecodes : s = FromNonConst(tc)

(* s may be what get_typecode of t returns.                                *)
Fits(s, t) == IF Static(t) THEN s = FromConst(PrimitiveTC) ELSE IsNew(s)

HasFirst(t) == Kind[t] \in {"derived", "union"}

FrameOK(c) ==
  /\ c \in Frames
  /\ c.done \in 0..Len(Parts[c.type])
  /\ c.own = None \/ (IsNew(c.own) /\ Kind[c.type] \in Aggregates)
  /\ c.inner # None =>
       /\ c.done < Len(Parts[c.type])
       /\ Fits(c.inner, Parts[c.type][c.done + 1])
  /\ HasFirst(c.type) /\ c.done = 0 =>
       c.first = None /\ c.inner = None /\ c.cases = <<>>
  /\ Kind[c.type] = "union" /\ c.done > 0 => Len(c.cases) = c.done - 1
  /\ Kind[c.type] # "union" => c.cases = <<>>
  /\ \A j \in 1..Len(c.cases) :
       c.cases[j] = PrimitiveTC <=> Static(Parts[c.type][j + 1])

(* c waits for what d returns.                                             *)
Waits(c, d) ==
  /\ NeedsPart(c)
  /\ d.type = Parts[c.type][c.done + 1]

CallsOK ==
  /\ calls \in Seq(Frames)
  /\ \A i \in 1..Len(calls) : FrameOK(calls[i])
  /\ \A i \in 1..Len(calls) - 1 : Waits(calls[i], calls[i + 1])
  /\ result \in Made \cup {None}
  /\ result # None => calls = <<>>

-----------------------------------------------------------------------------
(* Values.                                                                 *)

LEMMA NoneFacts ==
  /\ None = [typecode_ |-> NULL, is_shared_ |-> FALSE]
  /\ None \notin Made
  /\ Owned(None) = {}
  /\ \A s : IsNew(s) => s \in Made /\ s # None
  /\ \A s, t : Fits(s, t) => s \in Made /\ s # None
<1>1. None = [typecode_ |-> NULL, is_shared_ |-> FALSE]
  BY DEF None, FromNonConst
<1>2. Owned(None) = {}
  BY <1>1 DEF Owned
<1>3. \A tc \in Typecodes : FromNonConst(tc) # None
  BY TypecodeConstants DEF FromNonConst, None
<1>4. FromConst(PrimitiveTC) # None
  <2>1. FromConst(PrimitiveTC).is_shared_ /\ ~None.is_shared_
    BY DEF FromConst, FromNonConst, None
  <2> QED
    BY <2>1
<1>5. \A s : IsNew(s) => s \in Made /\ s # None
  BY <1>3 DEF IsNew, Made
<1>6. None \notin Made
  BY <1>3, <1>4 DEF Made
<1>7. \A s, t : Fits(s, t) => s \in Made /\ s # None
  BY <1>4, <1>5 DEF Fits, Made
<1> QED
  BY <1>1, <1>2, <1>5, <1>6, <1>7

(* The factory has room: the new typecode was not on the heap.             *)
LEMMA NewIsNew ==
  ASSUME HasRoom
  PROVE  New \in Typecodes \ typecodes /\ IsNew(FromNonConst(New))
  BY DEF HasRoom, New, IsNew

(* What a result of get_typecode owns.                                     *)
LEMMA OwnedFacts ==
  ASSUME NEW s \in Made \cup {None}
  PROVE  /\ Owned(s) \subseteq Typecodes
         /\ s.typecode_ \in Typecodes => Owned(s) = {s.typecode_}
         /\ s.typecode_ = PrimitiveTC <=> s = FromConst(PrimitiveTC)
         /\ s.typecode_ \notin Typecodes => Owned(s) = {}
  BY TypecodeConstants DEF Made, None, FromNonConst, FromConst, Owned

(* The parts of a type.                                                    *)
LEMMA PartIsType ==
  ASSUME NEW t \in Types, NEW n \in 1..Len(Parts[t])
  PROVE  Parts[t][n] \in Types
  BY TypesAreAdapted, ElementOfSeq

LEMMA LenParts ==
  ASSUME NEW t \in Types
  PROVE  Len(Parts[t]) \in Nat
  BY TypesAreAdapted, LenProperties

-----------------------------------------------------------------------------
(* The stack of activations.                                               *)

(* The innermost activation, and those below.                              *)
LEMMA TopFacts ==
  ASSUME calls \in Seq(Frames), calls # <<>>
  PROVE  /\ Len(calls) \in Nat /\ Len(calls) > 0
         /\ Top \in Frames
         /\ Below \in Seq(Frames)
         /\ Len(Below) = Len(calls) - 1
         /\ \A k \in 1..Len(calls) - 1 : Below[k] = calls[k]
<1>1. PICK b \in Seq(Frames), c \in Frames : calls = Append(b, c)
  BY SequenceEmptyOrAppend
<1>2. Len(b) \in Nat
  BY LenProperties
<1>3. /\ Len(calls) = Len(b) + 1
      /\ \A k \in 1..Len(b) : calls[k] = b[k]
      /\ calls[Len(b) + 1] = c
  BY <1>1, AppendProperties
<1>4. Below = b
  <2>1. \A i \in 1..Len(b) : calls[i] \in Frames
    BY <1>3, ElementOfSeq
  <2>2. Below = SubSeq(calls, 1, Len(b))
    BY <1>2, <1>3 DEF Below
  <2>3. /\ Below \in Seq(Frames)
        /\ Len(Below) = Len(b)
        /\ \A i \in 1..Len(b) : Below[i] = calls[i]
    BY <1>2, <2>1, <2>2, SubSeqProperties
  <2> QED
    BY <1>3, <2>3, SeqEqual
<1> QED
  BY <1>1, <1>2, <1>3, <1>4 DEF Top

(* The stack with another innermost activation.                            *)
LEMMA WithTopFacts ==
  ASSUME calls \in Seq(Frames), calls # <<>>, NEW c \in Frames
  PROVE  /\ WithTop(c) \in Seq(Frames)
         /\ WithTop(c) # <<>>
         /\ Len(WithTop(c)) = Len(calls)
         /\ WithTop(c)[Len(calls)] = c
         /\ \A k \in 1..Len(calls) - 1 : WithTop(c)[k] = calls[k]
<1>1. /\ Below \in Seq(Frames)
      /\ Len(calls) \in Nat
      /\ Len(Below) = Len(calls) - 1
      /\ \A k \in 1..Len(calls) - 1 : Below[k] = calls[k]
  BY TopFacts
<1>2. /\ WithTop(c) \in Seq(Frames)
      /\ WithTop(c) # <<>>
      /\ Len(WithTop(c)) = Len(Below) + 1
      /\ \A k \in 1..Len(Below) : WithTop(c)[k] = Below[k]
      /\ WithTop(c)[Len(Below) + 1] = c
  BY <1>1, AppendProperties DEF WithTop
<1> QED
  BY <1>1, <1>2

(* The innermost activation changes: those below wait for it still.        *)
LEMMA TopChanges ==
  ASSUME CallsOK, calls # <<>>, NEW c, FrameOK(c), c.type = Top.type,
         calls' = WithTop(c), result' = result
  PROVE  CallsOK'
<1>1. c \in Frames /\ calls \in Seq(Frames)
  BY DEF FrameOK, CallsOK
<1>2. /\ calls' \in Seq(Frames)
      /\ calls' # <<>>
      /\ Len(calls') = Len(calls)
      /\ calls'[Len(calls)] = c
      /\ \A k \in 1..Len(calls) - 1 : calls'[k] = calls[k]
  BY <1>1, WithTopFacts
<1>3. Len(calls) \in Nat /\ Len(calls) > 0
  BY <1>1, TopFacts
<1>4. \A i \in 1..Len(calls') : FrameOK(calls'[i])
  <2> SUFFICES ASSUME NEW i \in 1..Len(calls') PROVE FrameOK(calls'[i])
    OBVIOUS
  <2>1. CASE i = Len(calls)
    BY <1>2, <2>1
  <2>2. CASE i \in 1..Len(calls) - 1
    BY <1>2, <2>2 DEF CallsOK
  <2> QED
    BY <1>2, <1>3, <2>1, <2>2
<1>5. \A i \in 1..Len(calls') - 1 : Waits(calls'[i], calls'[i + 1])
  <2> SUFFICES ASSUME NEW i \in 1..Len(calls) - 1
               PROVE  Waits(calls'[i], calls'[i + 1])
    BY <1>2
  <2>1. Waits(calls[i], calls[i + 1]) /\ calls'[i] = calls[i]
    BY <1>2 DEF CallsOK
  <2>2. CASE i = Len(calls) - 1
    <3>1. calls'[i + 1] = c /\ calls[i + 1] = Top
      BY <1>2, <1>3, <2>2 DEF Top
    <3> QED
      BY <2>1, <3>1 DEF Waits
  <2>3. CASE i # Len(calls) - 1
    <3>1. calls'[i + 1] = calls[i + 1]
      BY <1>2, <1>3, <2>3
    <3> QED
      BY <2>1, <3>1
  <2> QED
    BY <2>2, <2>3
<1>6. result' \in Made \cup {None} /\ result' = None
  <2>1. result = None
    BY DEF CallsOK
  <2> QED
    BY <2>1
<1> QED
  BY <1>2, <1>4, <1>5, <1>6 DEF CallsOK

(* An activation receives the typecode of the part it waits for.           *)
LEMMA DeliverIsOK ==
  ASSUME NEW c, FrameOK(c), NeedsPart(c), NEW s,
         Fits(s, Parts[c.type][c.done + 1])
  PROVE  FrameOK(Deliver(c, s)) /\ Deliver(c, s).type = c.type
<1>1. /\ c \in Frames
      /\ c.type \in Types
      /\ c.done \in Nat
      /\ c.done < Len(Parts[c.type])
      /\ c.inner = None
      /\ s \in Made
      /\ Len(Parts[c.type]) \in Nat
  BY NoneFacts, LenParts DEF FrameOK, Frames, NeedsPart
<1>2. CASE HasFirst(c.type) /\ c.done = 0
  <2> DEFINE d == [c EXCEPT !.first = s, !.done = 1]
  <2>1. Deliver(c, s) = d
    BY <1>2 DEF Deliver, HasFirst
  <2>2. /\ d \in Frames
        /\ d.type = c.type
        /\ d.done = 1
        /\ d.own = c.own
        /\ d.inner = None
        /\ d.cases = <<>>
    BY <1>1, <1>2 DEF Frames, FrameOK
  <2> HIDE DEF d
  <2>3. Len(d.cases) = 0
    BY <2>2, EmptySeq
  <2>4. 1 \in 0..Len(Parts[c.type])
    BY <1>1, <1>2
  <2>5. FrameOK(d)
    BY <2>2, <2>3, <2>4 DEF FrameOK
  <2> QED
    BY <2>1, <2>2, <2>5
<1>3. CASE ~(HasFirst(c.type) /\ c.done = 0)
  <2> DEFINE d == [c EXCEPT !.inner = s]
  <2>1. Deliver(c, s) = d
    BY <1>3 DEF Deliver, HasFirst
  <2>2. /\ d \in Frames
        /\ d.type = c.type
        /\ d.done = c.done
        /\ d.own = c.own
        /\ d.inner = s
        /\ d.cases = c.cases
        /\ d.first = c.first
    BY <1>1 DEF Frames
  <2> HIDE DEF d
  <2>3. FrameOK(d)
    BY <1>1, <1>3, <2>2 DEF FrameOK
  <2> QED
    BY <2>1, <2>2, <2>3
<1> QED
  BY <1>2, <1>3

(* The innermost activation returns, and the one below receives it.        *)
LEMMA ReturnsIsOK ==
  ASSUME CallsOK, calls # <<>>, NEW s, Fits(s, Top.type), Returns(s)
  PROVE  CallsOK'
<1>1. calls \in Seq(Frames) /\ result = None /\ s \in Made
  BY NoneFacts DEF CallsOK
<1>2. /\ Len(calls) \in Nat /\ Len(calls) > 0
      /\ Below \in Seq(Frames)
      /\ Len(Below) = Len(calls) - 1
      /\ \A k \in 1..Len(calls) - 1 : Below[k] = calls[k]
  BY <1>1, TopFacts
<1>3. CASE Len(calls) = 1
  <2>1. calls' = <<>> /\ result' = s
    BY <1>3 DEF Returns
  <2>2. calls' \in Seq(Frames) /\ Len(calls') = 0
    BY <2>1, EmptySeq
  <2>3. result' \in Made \cup {None}
    BY <1>1, <2>1
  <2>4. \A i \in 1..Len(calls') : FALSE
    BY <2>2
  <2>5. \A i \in 1..Len(calls') - 1 : FALSE
    BY <2>2
  <2> QED
    BY <2>1, <2>2, <2>3, <2>4, <2>5 DEF CallsOK
<1>4. CASE Len(calls) # 1
  <2> DEFINE n == Len(calls) - 1
             c == calls[n]
             d == Deliver(c, s)
  <2>1. n \in 1..Len(calls) - 1 /\ n \in 1..Len(calls) /\ n = Len(Below)
        /\ n + 1 = Len(calls)
    BY <1>2, <1>4
  <2>2. Waits(c, Top) /\ FrameOK(c)
    BY <2>1 DEF CallsOK, Top
  <2>3. FrameOK(d) /\ d.type = c.type /\ d \in Frames
    BY <2>2, DeliverIsOK DEF Waits, FrameOK
  <2>4. calls' = [Below EXCEPT ![n] = d] /\ result' = result
    <3>1. calls' = [Below EXCEPT ![n] = Deliver(Below[n], s)]
      BY <1>4, <2>1 DEF Returns
    <3>2. Below[n] = c
      BY <1>2, <2>1
    <3> QED
      BY <1>4, <3>1, <3>2 DEF Returns
  <2> HIDE DEF d
  <2>5. /\ calls' \in Seq(Frames)
        /\ Len(calls') = n
        /\ \A k \in 1..n : calls'[k] = IF k = n THEN d ELSE calls[k]
    BY <1>2, <2>1, <2>3, <2>4, ExceptSeq
  <2>6. \A i \in 1..Len(calls') : FrameOK(calls'[i])
    <3> SUFFICES ASSUME NEW i \in 1..n PROVE FrameOK(calls'[i])
      BY <2>5
    <3>1. i \in 1..Len(calls)
      BY <1>2
    <3> QED
      BY <2>3, <2>5, <3>1 DEF CallsOK
  <2>7. \A i \in 1..Len(calls') - 1 : Waits(calls'[i], calls'[i + 1])
    <3> SUFFICES ASSUME NEW i \in 1..n - 1
                 PROVE  Waits(calls'[i], calls'[i + 1])
      BY <2>5
    <3>1. i \in 1..Len(calls) - 1 /\ i \in 1..n /\ i + 1 \in 1..n /\ i # n
      BY <1>2, <2>1
    <3>2. Waits(calls[i], calls[i + 1]) /\ calls'[i] = calls[i]
      BY <2>5, <3>1 DEF CallsOK
    <3>3. calls'[i + 1].type = calls[i + 1].type
      BY <2>3, <2>5, <3>1
    <3> QED
      BY <3>2, <3>3 DEF Waits
  <2>8. result' \in Made \cup {None} /\ result' = None
    BY <1>1, <2>4
  <2> QED
    BY <2>5, <2>6, <2>7, <2>8 DEF CallsOK
<1> QED
  BY <1>3, <1>4

-----------------------------------------------------------------------------
(* make_typecode.                                                          *)

BuildOK ==
  /\ CallsOK
  /\ typecodes \subseteq Typecodes
  /\ abandoned \subseteq Typecodes
  /\ broken \subseteq Types
  /\ StaticsStay

LEMMA TopIsOK ==
  ASSUME CallsOK, calls # <<>>
  PROVE  FrameOK(Top) /\ Top \in Frames /\ Top.type \in Types
<1>1. Len(calls) \in 1..Len(calls)
  BY TopFacts DEF CallsOK
<1> QED
  BY <1>1 DEF CallsOK, Top, FrameOK, Frames

(* A call puts an activation on the stack, which waits for nothing yet.    *)
LEMMA GetPartIsOK ==
  ASSUME CallsOK, GetPart
  PROVE  CallsOK'
<1> DEFINE t == Parts[Top.type][Top.done + 1]
           c == Call(t)
           n == Len(calls)
<1>1. calls # <<>> /\ NeedsPart(Top) /\ calls' = Append(calls, c)
      /\ result' = result
  BY DEF GetPart
<1>2. FrameOK(Top) /\ Top \in Frames /\ Top.type \in Types
  BY <1>1, TopIsOK
<1>3. t \in Types
  <2>1. Top.done \in Nat /\ Len(Parts[Top.type]) \in Nat
        /\ Top.done < Len(Parts[Top.type])
    BY <1>1, <1>2, LenParts DEF Frames, NeedsPart
  <2>2. Top.done + 1 \in 1..Len(Parts[Top.type])
    BY <2>1
  <2> QED
    BY <1>2, <2>2, PartIsType
<1> HIDE DEF t
<1>4. FrameOK(c) /\ c.type = t
  <2>1. Len(Parts[t]) \in Nat
    BY <1>3, LenParts
  <2>2. c \in Frames /\ c.cases = <<>> /\ Len(c.cases) = 0
    BY <1>3, EmptySeq DEF Call, Frames
  <2> QED
    BY <2>1, <2>2, NoneFacts DEF Call, FrameOK
<1> HIDE DEF c
<1>5. calls \in Seq(Frames) /\ n \in Nat /\ n > 0 /\ result = None
  BY <1>1, TopFacts DEF CallsOK
<1>6. /\ calls' \in Seq(Frames)
      /\ calls' # <<>>
      /\ Len(calls') = n + 1
      /\ \A k \in 1..n : calls'[k] = calls[k]
      /\ calls'[n + 1] = c
  BY <1>1, <1>4, <1>5, AppendProperties DEF FrameOK
<1>7. \A i \in 1..Len(calls') : FrameOK(calls'[i])
  <2> SUFFICES ASSUME NEW i \in 1..n + 1 PROVE FrameOK(calls'[i])
    BY <1>6
  <2>1. CASE i \in 1..n
    BY <1>6, <2>1 DEF CallsOK
  <2>2. CASE i = n + 1
    BY <1>4, <1>6, <2>2
  <2> QED
    BY <1>5, <2>1, <2>2
<1>8. \A i \in 1..Len(calls') - 1 : Waits(calls'[i], calls'[i + 1])
  <2> SUFFICES ASSUME NEW i \in 1..n PROVE Waits(calls'[i], calls'[i + 1])
    BY <1>5, <1>6
  <2>1. CASE i = n
    <3>1. calls'[i] = Top /\ calls'[i + 1] = c
      BY <1>5, <1>6, <2>1 DEF Top
    <3> QED
      BY <1>1, <1>4, <3>1 DEF Waits, t
  <2>2. CASE i # n
    <3>1. i \in 1..n - 1 /\ calls'[i] = calls[i] /\ calls'[i + 1] = calls[i + 1]
      BY <1>5, <1>6, <2>2
    <3> QED
      BY <3>1 DEF CallsOK
  <2> QED
    BY <2>1, <2>2
<1> QED
  BY <1>1, <1>5, <1>6, <1>7, <1>8 DEF CallsOK

(* The overloads that create their typecode as they return.                *)
LEMMA ReturnNewIsOK ==
  ASSUME BuildOK, calls # <<>>, NEW s, Fits(s, Top.type), ReturnNew(s)
  PROVE  BuildOK'
<1>1. CallsOK'
  BY ReturnsIsOK DEF BuildOK, ReturnNew
<1>2. Owned(s) \subseteq Typecodes
  BY NoneFacts, OwnedFacts
<1> QED
  BY <1>1, <1>2 DEF BuildOK, ReturnNew, Delete, StaticsStay

(* create_struct_tc, create_sparse_tc and create_value_tc.                 *)
LEMMA CreateOwnIsOK ==
  ASSUME BuildOK, Running(Aggregates), CreateOwn
  PROVE  BuildOK'
<1> DEFINE c == [Top EXCEPT !.own = FromNonConst(New)]
<1>1. FrameOK(Top) /\ Top \in Frames
  BY TopIsOK DEF BuildOK, Running
<1>2. New \in Typecodes /\ IsNew(FromNonConst(New))
      /\ FromNonConst(New) \in Made
  BY NewIsNew, NoneFacts DEF CreateOwn
<1>3. /\ c \in Frames
      /\ c.type = Top.type
      /\ c.done = Top.done
      /\ c.first = Top.first
      /\ c.own = FromNonConst(New)
      /\ c.inner = Top.inner
      /\ c.cases = Top.cases
  BY <1>1, <1>2 DEF Frames
<1>4. calls' = WithTop(c) /\ result' = result
  BY DEF CreateOwn
<1> HIDE DEF c
<1>5. FrameOK(c)
  BY <1>1, <1>2, <1>3 DEF FrameOK, Running
<1>6. CallsOK'
  BY <1>3, <1>4, <1>5, TopChanges DEF BuildOK, Running
<1> QED
  BY <1>2, <1>6 DEF BuildOK, CreateOwn, StaticsStay

LEMMA NextPart ==
  ASSUME NEW c \in Frames, NEW q \in Seq(Typecodes \cup {PrimitiveTC})
  PROVE  LET d == [c EXCEPT !.inner = None, !.done = c.done + 1, !.cases = q]
         IN /\ d \in Frames
            /\ d.type = c.type
            /\ d.done = c.done + 1
            /\ d.first = c.first
            /\ d.own = c.own
            /\ d.inner = None
            /\ d.cases = q
<1>1. c.done + 1 \in Nat
  BY DEF Frames
<1> QED
  BY <1>1 DEF Frames

(* add_member.                                                             *)
LEMMA AddMemberIsOK ==
  ASSUME BuildOK, AddMember
  PROVE  BuildOK'
<1> DEFINE c == [Top EXCEPT !.inner = None, !.done = Top.done + 1]
           d == [Top EXCEPT !.inner = None, !.done = Top.done + 1,
                            !.cases = Top.cases]
<1>1. calls # <<>> /\ Kind[Top.type] \in Aggregates /\ Top.inner # None
  BY DEF AddMember, Running
<1>2. FrameOK(Top) /\ Top \in Frames /\ Top.type \in Types
  BY <1>1, TopIsOK DEF BuildOK
<1>3. /\ c \in Frames
      /\ c.type = Top.type
      /\ c.done = Top.done + 1
      /\ c.own = Top.own
      /\ c.inner = None
      /\ c.cases = Top.cases
  <2>1. c = d
    BY <1>2 DEF Frames
  <2>2. Top.cases \in Seq(Typecodes \cup {PrimitiveTC})
    BY <1>2 DEF Frames
  <2> HIDE DEF c
  <2> QED
    BY <1>2, <2>1, <2>2, NextPart
<1>4. calls' = WithTop(c) /\ result' = result
  BY DEF AddMember
<1> HIDE DEF c
<1>5. Top.done \in Nat /\ Top.done < Len(Parts[Top.type])
      /\ Len(Parts[Top.type]) \in Nat
  BY <1>1, <1>2, LenParts DEF FrameOK, Frames
<1>6. Kind[Top.type] # "union" /\ Top.cases = <<>> /\ Len(Top.cases) = 0
  BY <1>1, <1>2, EmptySeq DEF Aggregates, FrameOK
<1>7. FrameOK(c)
  BY <1>2, <1>3, <1>5, <1>6 DEF FrameOK
<1>8. CallsOK'
  BY <1>1, <1>3, <1>4, <1>7, TopChanges DEF BuildOK
<1> QED
  BY <1>8 DEF BuildOK, AddMember, Delete, StaticsStay

(* The raw pointer of a case is that of a primitive only if the type of    *)
(* the case is static.                                                     *)
LEMMA AddCaseIsOK ==
  ASSUME BuildOK, AddCase
  PROVE  BuildOK'
<1> DEFINE tc == Top.inner.typecode_
           new == Append(Top.cases, tc)
           c == [Top EXCEPT !.inner = None, !.done = Top.done + 1,
                            !.cases = new]
           m == Len(Top.cases)
<1>1. calls # <<>> /\ Kind[Top.type] = "union" /\ Top.inner # None
  BY DEF AddCase, Running
<1>2. FrameOK(Top) /\ Top \in Frames /\ Top.type \in Types
  BY <1>1, TopIsOK DEF BuildOK
<1>3. /\ Top.done \in Nat
      /\ Top.done > 0
      /\ Top.done < Len(Parts[Top.type])
      /\ Len(Parts[Top.type]) \in Nat
      /\ Fits(Top.inner, Parts[Top.type][Top.done + 1])
      /\ m = Top.done - 1
  BY <1>1, <1>2, LenParts DEF FrameOK, Frames, HasFirst
<1>4. /\ tc \in Typecodes \cup {PrimitiveTC}
      /\ tc = PrimitiveTC <=> Static(Parts[Top.type][Top.done + 1])
  <2>1. CASE Static(Parts[Top.type][Top.done + 1])
    <3>1. Top.inner = FromConst(PrimitiveTC)
      BY <1>3, <2>1 DEF Fits
    <3> QED
      BY <2>1, <3>1 DEF FromConst
  <2>2. CASE ~Static(Parts[Top.type][Top.done + 1])
    <3>1. IsNew(Top.inner)
      BY <1>3, <2>2 DEF Fits
    <3>2. tc \in Typecodes
      BY <3>1 DEF IsNew, FromNonConst
    <3> QED
      BY <2>2, <3>2, TypecodeConstants
  <2> QED
    BY <2>1, <2>2
<1>5. /\ new \in Seq(Typecodes \cup {PrimitiveTC})
      /\ Len(new) = m + 1
      /\ \A j \in 1..m : new[j] = Top.cases[j]
      /\ new[m + 1] = tc
  BY <1>2, <1>4, AppendProperties DEF Frames
<1>6. calls' = WithTop(c) /\ result' = result
  <2>1. Released(Top.inner).typecode_ = tc
    <3>1. Top.inner \in Made
      BY <1>3, NoneFacts
    <3> QED
      BY <3>1 DEF Released, Made, FromConst, FromNonConst
  <2> QED
    BY <2>1 DEF AddCase
<1> HIDE DEF tc, new
<1>7. /\ c \in Frames
      /\ c.type = Top.type
      /\ c.done = Top.done + 1
      /\ c.own = Top.own
      /\ c.inner = None
      /\ c.cases = new
  BY <1>2, <1>5, NextPart
<1> HIDE DEF c
<1>8. \A j \in 1..Len(new) :
        new[j] = PrimitiveTC <=> Static(Parts[Top.type][j + 1])
  <2> SUFFICES ASSUME NEW j \in 1..m + 1
               PROVE  new[j] = PrimitiveTC <=> Static(Parts[Top.type][j + 1])
    BY <1>5
  <2>1. CASE j \in 1..m
    BY <1>2, <1>5, <2>1 DEF FrameOK
  <2>2. CASE j = m + 1
    BY <1>3, <1>4, <1>5, <2>2
  <2> QED
    BY <1>3, <2>1, <2>2
<1>9. FrameOK(c)
  <2>1. c.done \in 0..Len(Parts[c.type]) /\ c.done > 0
        /\ Len(c.cases) = c.done - 1
    BY <1>3, <1>5, <1>7
  <2> QED
    BY <1>1, <1>2, <1>7, <1>8, <2>1 DEF FrameOK
<1>10. CallsOK'
  BY <1>1, <1>6, <1>7, <1>9, TopChanges DEF BuildOK
<1> QED
  BY <1>10 DEF BuildOK, AddCase, Delete, StaticsStay

(* The typecodes of the cases: a primitive's is deleted only if the case   *)
(* has it although its type is not primitive.                              *)
LEMMA CreateUnionIsOK ==
  ASSUME BuildOK, CreateUnion
  PROVE  BuildOK'
<1>1. /\ calls # <<>>
      /\ Kind[Top.type] = "union"
      /\ Top.done = Len(Parts[Top.type])
      /\ Returns(FromNonConst(New))
      /\ HasRoom
  BY DEF CreateUnion, Running
<1>2. FrameOK(Top) /\ Top \in Frames /\ Top.type \in Types
  BY <1>1, TopIsOK DEF BuildOK
<1>3. New \in Typecodes /\ IsNew(FromNonConst(New))
  BY <1>1, NewIsNew
<1>4. ~Static(Top.type)
  BY <1>1 DEF Static, WrapsPrimitive
<1>5. CallsOK'
  BY <1>1, <1>3, <1>4, ReturnsIsOK DEF BuildOK, Fits
<1>6. ASSUME PrimitiveTC \in CasesToDelete(Top)
      PROVE  \E i \in 2..Len(Parts[Top.type]) :
               WrapsPrimitive(Parts[Top.type][i])
  <2>1. PICK j \in DOMAIN Top.cases :
          /\ Kind[Parts[Top.type][j + 1]] # "primitive"
          /\ Top.cases[j] = PrimitiveTC
    BY <1>6 DEF CasesToDelete
  <2>2. Top.cases \in Seq(Typecodes \cup {PrimitiveTC})
    BY <1>2 DEF Frames
  <2>3. j \in 1..Len(Top.cases) /\ Len(Top.cases) \in Nat
    BY <2>2, LenProperties
  <2>4. WrapsPrimitive(Parts[Top.type][j + 1])
    BY <1>2, <2>1, <2>3 DEF FrameOK, Static
  <2>5. Len(Top.cases) = Len(Parts[Top.type]) - 1
        /\ Len(Parts[Top.type]) \in Nat
    <3>1. Len(Parts[Top.type]) > 1 /\ Len(Parts[Top.type]) \in Nat
      BY <1>1, <1>2, TypesAreAdapted, LenParts
    <3> QED
      BY <1>1, <1>2, <3>1 DEF FrameOK
  <2>6. j + 1 \in 2..Len(Parts[Top.type])
    BY <2>3, <2>5
  <2> QED
    BY <2>4, <2>6
<1>7. broken' \subseteq Types /\ StaticsStay'
  BY <1>2, <1>6 DEF CreateUnion, BuildOK, StaticsStay
<1> QED
  BY <1>3, <1>5, <1>7 DEF BuildOK, CreateUnion, Delete

(* An exception leaves make_typecode.                                      *)
LEMMA ThrowIsOK ==
  ASSUME BuildOK, Throw
  PROVE  BuildOK'
<1>1. CallsOK'
  <2>1. calls' = <<>> /\ result' = result
    BY DEF Throw
  <2>2. calls' \in Seq(Frames) /\ Len(calls') = 0
    BY <2>1, EmptySeq
  <2>3. \A i \in 1..Len(calls') : FALSE
    BY <2>2
  <2>4. \A i \in 1..Len(calls') - 1 : FALSE
    BY <2>2
  <2> QED
    BY <2>1, <2>2, <2>3, <2>4 DEF BuildOK, CallsOK
<1>2. ASSUME NEW i \in DOMAIN calls
      PROVE  CasesHold(calls[i]) \subseteq Typecodes
  <2>1. calls[i] \in Frames
    BY LenProperties, ElementOfSeq DEF BuildOK, CallsOK
  <2>2. calls[i].cases \in Seq(Typecodes \cup {PrimitiveTC})
    BY <2>1 DEF Frames
  <2>3. \A j \in DOMAIN calls[i].cases :
          calls[i].cases[j] \in Typecodes \cup {PrimitiveTC}
    BY <2>2, LenProperties, ElementOfSeq
  <2> QED
    BY <2>3 DEF CasesHold
<1>3. abandoned' \subseteq Typecodes
  BY <1>2 DEF Throw, BuildOK
<1> QED
  BY <1>1, <1>3 DEF BuildOK, Throw, Delete, StaticsStay

(* No step of make_typecode disturbs the invariant.                        *)
LEMMA MakeIsOK ==
  ASSUME BuildOK, NextMake
  PROVE  BuildOK'
<1>1. CASE GetPart
  BY <1>1, GetPartIsOK DEF BuildOK, GetPart, StaticsStay
<1>2. CASE GetPrimitive
  <2>1. Fits(FromConst(PrimitiveTC), Top.type)
    BY <1>2 DEF GetPrimitive, Running, Fits, Static
  <2> QED
    BY <1>2, <2>1, ReturnNewIsOK DEF GetPrimitive, Running
<1>3. CASE GetString \/ GetEnum \/ GetSequence \/ GetRange \/ GetArray
  <2>1. /\ ReturnNew(FromNonConst(New))
        /\ calls # <<>>
        /\ Kind[Top.type] \in
             {"string", "enum", "sequence", "vector", "range", "array"}
    BY <1>3 DEF GetString, GetEnum, GetSequence, GetRange, GetArray, Running
  <2>2. ~FromNonConst(New).is_shared_
    BY DEF FromNonConst
  <2>3. IsNew(FromNonConst(New))
    BY <2>1, <2>2, NewIsNew DEF ReturnNew
  <2>4. ~Static(Top.type)
    BY <2>1 DEF Static, WrapsPrimitive
  <2> QED
    BY <2>1, <2>3, <2>4, ReturnNewIsOK DEF Fits
<1>4. CASE GetOptional \/ GetSmartPtr
  <2> DEFINE p == Parts[Top.type][1]
             s == CloneNonprimitive(p, Top.inner)
  <2>1. /\ ReturnNew(s)
        /\ calls # <<>>
        /\ Kind[Top.type] \in {"optional", "smart_ptr"}
        /\ Top.inner # None
    BY <1>4 DEF GetOptional, GetSmartPtr, Running
  <2>2. FrameOK(Top) /\ Top \in Frames /\ Top.type \in Types
    BY <2>1, TopIsOK DEF BuildOK
  <2>3. Len(Parts[Top.type]) = 1 /\ Top.done = 0
        /\ Fits(Top.inner, p)
    <3>1. Len(Parts[Top.type]) = 1
      BY <2>1, <2>2, TypesAreAdapted DEF Wrappers
    <3>2. Top.done \in Nat /\ Top.done < 1
      BY <2>1, <2>2, <3>1 DEF FrameOK, Frames
    <3>3. Top.done = 0
      BY <3>2
    <3> QED
      BY <2>1, <2>2, <3>1, <3>3 DEF FrameOK
  <2>4. CASE Kind[p] = "primitive"
    <3>1. Static(Top.type) /\ Top.inner = FromConst(PrimitiveTC)
      BY <2>1, <2>3, <2>4 DEF Static, WrapsPrimitive, Fits
    <3>2. s = FromConst(PrimitiveTC)
      BY <2>4, <3>1 DEF CloneNonprimitive, FromConst
    <3> QED
      BY <2>1, <3>1, <3>2, ReturnNewIsOK DEF Fits
  <2>5. CASE Kind[p] # "primitive"
    <3>1. s = FromNonConst(New) /\ ~s.is_shared_
      BY <2>5 DEF CloneNonprimitive, FromNonConst
    <3>2. IsNew(s)
      BY <2>1, <3>1, NewIsNew DEF ReturnNew
    <3>3. ~Static(Top.type)
      BY <2>1, <2>5 DEF Static, WrapsPrimitive
    <3> QED
      BY <2>1, <3>2, <3>3, ReturnNewIsOK DEF Fits
  <2> QED
    BY <2>4, <2>5
<1>5. CASE CreateStruct \/ CreateSparse \/ CreateValue
  BY <1>5, CreateOwnIsOK DEF CreateStruct, CreateSparse, CreateValue, Running,
     Aggregates
<1>6. CASE AddMember
  BY <1>6, AddMemberIsOK
<1>7. CASE ReturnAggregate
  <2>1. /\ Returns(Top.own)
        /\ calls # <<>>
        /\ Kind[Top.type] \in Aggregates
        /\ Top.own # None
    BY <1>7 DEF ReturnAggregate, Running
  <2>2. FrameOK(Top)
    BY <2>1, TopIsOK DEF BuildOK
  <2>3. Fits(Top.own, Top.type)
    BY <2>1, <2>2 DEF Aggregates, FrameOK, Fits, Static, WrapsPrimitive
  <2>4. CallsOK'
    BY <2>1, <2>3, ReturnsIsOK DEF BuildOK
  <2> QED
    BY <1>7, <2>4 DEF BuildOK, ReturnAggregate, Delete, StaticsStay
<1>8. CASE AddCase
  BY <1>8, AddCaseIsOK
<1>9. CASE CreateUnion
  BY <1>9, CreateUnionIsOK
<1>10. CASE Throw
  BY <1>10, ThrowIsOK
<1> QED
  BY <1>1, <1>2, <1>3, <1>4, <1>5, <1>6, <1>7, <1>8, <1>9, <1>10 DEF NextMake

-----------------------------------------------------------------------------
(* The objects.                                                            *)

(* What the destructor of a holder deletes is a typecode of the heap.      *)
Holdings ==
  {s \in SafeTypeCodes : ~s.is_shared_ => s.typecode_ \in Typecodes \cup {NULL}}

ObjectsOK ==
  /\ root \in Roots
  /\ scoped \in BOOLEAN
  /\ exists \subseteq Objects
  /\ order \in Seq(Objects)
  /\ safe_typecode \in [Holders -> Holdings]
  /\ type_support \in [Managers \cup Data -> Supports \cup {NULL}]
  /\ counted \subseteq Managers \cap exists
  /\ raw \subseteq Typecodes
  /\ \A h \in Holders \ exists : safe_typecode[h] = None
  /\ ~Idle => FreeSupports # {}

(* What a SafeTypeCode may hold.                                           *)
LEMMA HoldingFacts ==
  /\ Holdings \subseteq SafeTypeCodes
  /\ None \in Holdings
  /\ Made \subseteq Holdings
  /\ \A x \in Supports : FromConst(x) \in Holdings
<1>1. \A tc \in Typecodes \cup {NULL} : FromNonConst(tc) \in Holdings
  BY DEF FromNonConst, Holdings, SafeTypeCodes
<1>2. \A tc \in Supports \cup {PrimitiveTC} : FromConst(tc) \in Holdings
  BY DEF FromConst, Holdings, SafeTypeCodes, Supports
<1> QED
  BY <1>1, <1>2 DEF Made, None, Holdings

LEMMA HoldingOperations ==
  ASSUME NEW s \in Holdings
  PROVE  /\ MovedFrom(s) \in Holdings
         /\ Released(s) \in Holdings
         /\ MayCopy(s) => CopyOf(s) \in Holdings
         /\ Owned(s) \subseteq Typecodes
<1>1. MovedFrom(s) \in Holdings
  BY DEF MovedFrom, SafeTypeCodes, Holdings
<1>2. Released(s) \in Holdings
  BY DEF Released, SafeTypeCodes, Holdings
<1>3. MayCopy(s) => CopyOf(s) \in Holdings
  <2>1. CASE s.is_shared_
    BY <2>1 DEF CopyOf
  <2>2. CASE ~s.is_shared_
    <3>1. MayCopy(s) => New \in Typecodes
      BY <2>2, NewIsNew DEF MayCopy
    <3>2. CopyOf(s) = FromNonConst(New)
      BY <2>2 DEF CopyOf
    <3> QED
      BY <3>1, <3>2 DEF FromNonConst, SafeTypeCodes, Holdings
  <2> QED
    BY <2>1, <2>2
<1>4. Owned(s) \subseteq Typecodes
  BY DEF Owned, Holdings
<1> QED
  BY <1>1, <1>2, <1>3, <1>4

LEMMA ObjectSets ==
  /\ Holders = Managers \cup SafeTcs
  /\ Objects = Holders \cup Data
  /\ \A h \in Holders : h \notin Managers => h \in SafeTcs
  /\ \A m \in Managers : m \notin SafeTcs /\ m \notin Data
  BY TypeManagerConstants DEF Holders, Objects

(* An object is constructed.                                               *)
LEMMA AppearsIsOK ==
  ASSUME ObjectsOK, NEW x \in Objects, Appears(x)
  PROVE  /\ exists' \subseteq Objects
         /\ order' \in Seq(Objects)
         /\ x \notin exists
         /\ exists' = exists \cup {x}
  BY AppendProperties DEF ObjectsOK, Appears

(* An object is destroyed.                                                 *)
LEMMA DisappearsIsOK ==
  ASSUME ObjectsOK, NEW x, Disappears(x)
  PROVE  /\ exists' \subseteq Objects
         /\ order' \in Seq(Objects)
         /\ x \in exists
         /\ exists' = exists \ {x}
<1>1. \A i \in 1..Len(order) - 1 : order[i] \in Objects
  BY LenProperties, ElementOfSeq DEF ObjectsOK
<1>2. SubSeq(order, 1, Len(order) - 1) \in Seq(Objects)
  <2>1. Len(order) - 1 \in Int
    BY LenProperties DEF ObjectsOK
  <2> QED
    BY <1>1, <2>1, SubSeqProperties
<1> QED
  BY <1>2 DEF ObjectsOK, Disappears

(* While a typecode is made, nothing else happens to the objects.          *)
LEMMA MakingObjects ==
  ASSUME ObjectsOK, BeginConstruct \/ Making
  PROVE  ObjectsOK'
<1>1. UNCHANGED <<root, scoped, objects, raw>>
  BY DEF BeginConstruct, Making
<1>2. ~Idle' => FreeSupports # {}
  <2>1. CASE BeginConstruct
    BY <2>1 DEF BeginConstruct
  <2>2. CASE Making
    <3>1. ~Idle
      BY <2>2 DEF Making, NextMake, GetPart, GetPrimitive, GetString, GetEnum,
         GetSequence, GetRange, GetArray, GetOptional, GetSmartPtr,
         CreateStruct, CreateSparse, CreateValue, AddMember, ReturnAggregate,
         AddCase, CreateUnion, Throw, Running, Idle
    <3> QED
      BY <3>1 DEF ObjectsOK
  <2> QED
    BY <2>1, <2>2
<1>3. FreeSupports' = FreeSupports
  BY <1>1 DEF FreeSupports, UsedBy, objects
<1> QED
  BY <1>1, <1>2, <1>3 DEF ObjectsOK, objects

(* Every other step leaves nothing under construction.                     *)
LEMMA IdleObjects ==
  ASSUME ObjectsOK, Idle', root' = root, scoped' = scoped,
         exists' \subseteq Objects, order' \in Seq(Objects),
         safe_typecode' \in [Holders -> Holdings],
         type_support' \in [Managers \cup Data -> Supports \cup {NULL}],
         counted' \subseteq Managers \cap exists', raw' \subseteq Typecodes,
         \A h \in Holders \ exists' : safe_typecode'[h] = None
  PROVE  ObjectsOK'
  BY DEF ObjectsOK

(* ObjectsOK, one constructor or operation after the other.                *)
LEMMA ConstructObjects ==
  ASSUME BuildOK, ObjectsOK, NEW h \in Holders, Construct(h)
  PROVE  ObjectsOK'
<1>1. /\ exists' \subseteq Objects
      /\ order' \in Seq(Objects)
      /\ exists' = exists \cup {h}
  BY ObjectSets, AppearsIsOK DEF Construct
<1>2. Idle'
  BY DEF Construct, BuildOK, CallsOK, Idle
<1>3. result \in Holdings
  BY HoldingFacts DEF BuildOK, CallsOK, Construct
<1>4. /\ safe_typecode' \in [Holders -> Holdings]
      /\ \A g \in Holders \ exists' : safe_typecode'[g] = None
  BY <1>1, <1>3 DEF Construct, ObjectsOK
<1>5. /\ type_support' \in [Managers \cup Data -> Supports \cup {NULL}]
      /\ counted' \subseteq Managers \cap exists'
  <2>1. CASE h \in Managers
    <3>1. FreeSupports # {}
      BY DEF ObjectsOK, Construct, Idle
    <3>2. (CHOOSE s \in FreeSupports : TRUE) \in Supports
      BY <3>1 DEF FreeSupports
    <3> QED
      BY <1>1, <2>1, <3>2 DEF Construct, NewSupport, ObjectsOK
  <2>2. CASE h \notin Managers
    BY <1>1, <2>2 DEF Construct, ObjectsOK
  <2> QED
    BY <2>1, <2>2
<1>6. root' = root /\ scoped' = scoped /\ raw' \subseteq Typecodes
  BY DEF Construct, ObjectsOK
<1> QED
  BY <1>1, <1>2, <1>4, <1>5, <1>6, IdleObjects

LEMMA BorrowObjects ==
  ASSUME ObjectsOK, NEW m \in Managers, NEW n \in Managers, Borrow(m, n)
  PROVE  ObjectsOK'
<1>1. /\ exists' \subseteq Objects
      /\ order' \in Seq(Objects)
      /\ exists' = exists \cup {m}
  BY ObjectSets, AppearsIsOK DEF Borrow
<1>2. type_support[n] \in Supports
  BY DEF Borrow, ObjectsOK
<1>3. FromConst(type_support[n]) \in Holdings
  BY <1>2, HoldingFacts
<1>4. /\ safe_typecode' \in [Holders -> Holdings]
      /\ \A g \in Holders \ exists' : safe_typecode'[g] = None
  BY <1>1, <1>3 DEF Borrow, ObjectsOK
<1>5. /\ type_support' \in [Managers \cup Data -> Supports \cup {NULL}]
      /\ counted' \subseteq Managers \cap exists'
  BY <1>1, <1>2 DEF Borrow, ObjectsOK
<1>6. Idle' /\ root' = root /\ scoped' = scoped /\ raw' \subseteq Typecodes
  BY DEF Borrow, ObjectsOK, Idle, building
<1> QED
  BY <1>1, <1>4, <1>5, <1>6, IdleObjects

(* Copies and moves of _type_support: who counts exists.                   *)
LEMMA SupportsAreKept ==
  ASSUME ObjectsOK, NEW h \in Holders, NEW g \in Holders \cap exists,
         Source(h, g), ShareSupport(h, g) \/ TakeSupport(h, g)
  PROVE  /\ type_support' \in [Managers \cup Data -> Supports \cup {NULL}]
         /\ counted' \subseteq Managers \cap (exists \cup {h})
<1>1. CASE h \in Managers
  <2>1. g \in Managers
    BY <1>1 DEF Source
  <2>2. CASE ShareSupport(h, g)
    BY <1>1, <2>1, <2>2 DEF ShareSupport, ObjectsOK
  <2>3. CASE TakeSupport(h, g)
    BY <1>1, <2>1, <2>3 DEF TakeSupport, ObjectsOK
  <2> QED
    BY <2>2, <2>3
<1>2. CASE h \notin Managers
  BY <1>2 DEF ShareSupport, TakeSupport, ObjectsOK
<1> QED
  BY <1>1, <1>2

LEMMA CopyObjects ==
  ASSUME ObjectsOK, NEW h \in Holders, NEW g \in Holders,
         CopyConstruct(h, g) \/ CopyAssign(h, g)
  PROVE  ObjectsOK'
<1>1. /\ g \in exists
      /\ Source(h, g)
      /\ MayCopy(safe_typecode[g])
      /\ safe_typecode' =
           [safe_typecode EXCEPT ![h] = CopyOf(safe_typecode[g])]
      /\ ShareSupport(h, g)
      /\ Idle /\ UNCHANGED <<building, root, scoped, raw>>
  BY DEF CopyConstruct, CopyAssign
<1>2. /\ exists' \subseteq Objects
      /\ order' \in Seq(Objects)
      /\ exists' = exists \cup {h}
  <2>1. CASE CopyConstruct(h, g)
    BY <2>1, ObjectSets, AppearsIsOK DEF CopyConstruct
  <2>2. CASE CopyAssign(h, g)
    BY <2>2 DEF CopyAssign, ObjectsOK
  <2> QED
    BY <2>1, <2>2
<1>3. CopyOf(safe_typecode[g]) \in Holdings
  BY <1>1, HoldingOperations DEF ObjectsOK
<1>4. /\ safe_typecode' \in [Holders -> Holdings]
      /\ \A f \in Holders \ exists' : safe_typecode'[f] = None
  BY <1>1, <1>2, <1>3 DEF ObjectsOK
<1>5. /\ type_support' \in [Managers \cup Data -> Supports \cup {NULL}]
      /\ counted' \subseteq Managers \cap exists'
  BY <1>1, <1>2, SupportsAreKept
<1>6. Idle' /\ root' = root /\ scoped' = scoped /\ raw' \subseteq Typecodes
  BY <1>1 DEF ObjectsOK, Idle, building
<1> QED
  BY <1>2, <1>4, <1>5, <1>6, IdleObjects

LEMMA MoveObjects ==
  ASSUME ObjectsOK, NEW h \in Holders, NEW g \in Holders,
         MoveConstruct(h, g) \/ MoveAssign(h, g)
  PROVE  ObjectsOK'
<1>1. Idle' /\ root' = root /\ scoped' = scoped /\ raw' \subseteq Typecodes
  BY DEF MoveConstruct, MoveAssign, ObjectsOK, Idle, building
<1>2. /\ g \in exists
      /\ exists' \subseteq Objects
      /\ order' \in Seq(Objects)
      /\ exists' = exists \cup {h}
  <2>1. CASE MoveConstruct(h, g)
    BY <2>1, ObjectSets, AppearsIsOK DEF MoveConstruct
  <2>2. CASE MoveAssign(h, g)
    BY <2>2 DEF MoveAssign, ObjectsOK
  <2> QED
    BY <2>1, <2>2
<1>3. /\ safe_typecode[g] \in Holdings
      /\ safe_typecode[h] \in Holdings
      /\ MovedFrom(safe_typecode[g]) \in Holdings
  BY HoldingOperations DEF ObjectsOK
<1>4. /\ safe_typecode' \in [Holders -> Holdings]
      /\ \A f \in Holders \ exists' : safe_typecode'[f] = None
  <2>1. CASE MoveConstruct(h, g)
    BY <1>2, <1>3, <2>1 DEF MoveConstruct, ObjectsOK
  <2>2. CASE MoveAssign(h, g)
    BY <1>2, <1>3, <2>2 DEF MoveAssign, Swapped, ObjectsOK
  <2> QED
    BY <2>1, <2>2
<1>5. /\ type_support' \in [Managers \cup Data -> Supports \cup {NULL}]
      /\ counted' \subseteq Managers \cap exists'
  <2>1. CASE MoveConstruct(h, g)
    BY <1>2, <2>1, SupportsAreKept DEF MoveConstruct
  <2>2. CASE h \in Managers /\ g \in Managers /\ TakeSupport(h, g)
    BY <1>2, <2>2, SupportsAreKept DEF Source
  <2>3. CASE UNCHANGED <<type_support, counted>>
    BY <1>2, <2>3 DEF ObjectsOK
  <2> QED
    BY <2>1, <2>2, <2>3 DEF MoveAssign
<1> QED
  BY <1>1, <1>2, <1>4, <1>5, IdleObjects

LEMMA DestroyObjects ==
  ASSUME ObjectsOK, NEW h \in Holders, Destroy(h)
  PROVE  ObjectsOK'
<1>1. /\ exists' \subseteq Objects
      /\ order' \in Seq(Objects)
      /\ exists' = exists \ {h}
  BY DisappearsIsOK DEF Destroy
<1>2. None \in Holdings
  BY HoldingFacts
<1>3. /\ safe_typecode' \in [Holders -> Holdings]
      /\ \A f \in Holders \ exists' : safe_typecode'[f] = None
  BY <1>1, <1>2 DEF Destroy, ObjectsOK
<1>4. /\ type_support' \in [Managers \cup Data -> Supports \cup {NULL}]
      /\ counted' \subseteq Managers \cap exists'
  BY <1>1 DEF Destroy, ObjectsOK
<1>5. Idle' /\ root' = root /\ scoped' = scoped /\ raw' \subseteq Typecodes
  BY DEF Destroy, ObjectsOK, Idle, building
<1> QED
  BY <1>1, <1>3, <1>4, <1>5, IdleObjects

LEMMA ReleaseObjects ==
  ASSUME ObjectsOK, NEW h \in Holders, Release(h)
  PROVE  ObjectsOK'
<1>1. h \in exists /\ UNCHANGED <<root, scoped, exists, order, type_support, counted>>
  BY DEF Release
<1>2. safe_typecode[h] \in Holdings
      /\ Released(safe_typecode[h]) \in Holdings
  BY HoldingOperations DEF ObjectsOK
<1>3. /\ safe_typecode' \in [Holders -> Holdings]
      /\ \A f \in Holders \ exists' : safe_typecode'[f] = None
  BY <1>1, <1>2 DEF Release, ObjectsOK
<1>4. Idle' /\ raw' \subseteq Typecodes
  <2>1. Owned(safe_typecode[h]) \subseteq Typecodes
    BY <1>2, HoldingOperations DEF ObjectsOK
  <2> QED
    BY <2>1 DEF Release, ObjectsOK, Idle, building
<1> QED
  BY <1>1, <1>3, <1>4, IdleObjects DEF ObjectsOK

LEMMA DataObjects ==
  ASSUME ObjectsOK, NEW x \in Data,
         DestroyData(x) \/ \E m \in Managers : CreateDynamicData(x, m)
  PROVE  ObjectsOK'
<1>1. x \in Objects /\ x \notin Managers /\ x \notin Holders
  BY TypeManagerConstants DEF Objects, Holders
<1>2. /\ Idle'
      /\ UNCHANGED <<root, scoped, safe_typecode, counted, raw>>
  BY DEF DestroyData, CreateDynamicData, Idle, building
<1>3. CASE DestroyData(x)
  <2>1. /\ exists' \subseteq Objects
        /\ order' \in Seq(Objects)
        /\ exists' = exists \ {x}
    BY <1>3, DisappearsIsOK DEF DestroyData
  <2>2. type_support' \in [Managers \cup Data -> Supports \cup {NULL}]
    BY <1>3 DEF DestroyData, ObjectsOK
  <2> QED
    BY <1>1, <1>2, <2>1, <2>2, IdleObjects DEF ObjectsOK
<1>4. ASSUME NEW m \in Managers, CreateDynamicData(x, m)
      PROVE  ObjectsOK'
  <2>1. /\ exists' \subseteq Objects
        /\ order' \in Seq(Objects)
        /\ exists' = exists \cup {x}
    BY <1>1, <1>4, AppearsIsOK DEF CreateDynamicData
  <2>2. type_support' \in [Managers \cup Data -> Supports \cup {NULL}]
    BY <1>4 DEF CreateDynamicData, ObjectsOK
  <2> QED
    BY <1>2, <2>1, <2>2, IdleObjects DEF ObjectsOK
<1> QED
  BY <1>3, <1>4

LEMMA DeleteRawObjects ==
  ASSUME ObjectsOK, NEW tc \in raw, DeleteRaw(tc)
  PROVE  ObjectsOK'
<1>1. Idle' /\ UNCHANGED <<root, scoped, objects>> /\ raw' \subseteq raw
  BY DEF DeleteRaw, Idle, building
<1> QED
  BY <1>1 DEF ObjectsOK, objects

(* Steps outside make_typecode leave it alone, but for the heap.           *)
LEMMA HeapIsOK ==
  ASSUME BuildOK, UNCHANGED building, typecodes' \subseteq Typecodes
  PROVE  BuildOK'
  BY DEF BuildOK, CallsOK, StaticsStay, building

(* make_typecode is called.                                                *)
LEMMA BeginIsOK ==
  ASSUME BuildOK, root \in Types, BeginConstruct
  PROVE  BuildOK'
<1> DEFINE c == Call(root)
<1>1. calls' = <<c>> /\ UNCHANGED <<result, typecodes, abandoned, broken>>
      /\ result = None
  BY DEF BeginConstruct, StartMaking
<1>2. FrameOK(c)
  <2>1. Len(Parts[root]) \in Nat
    BY LenParts
  <2>2. c \in Frames /\ c.cases = <<>> /\ Len(c.cases) = 0
    BY EmptySeq DEF Call, Frames
  <2> QED
    BY <2>1, <2>2, NoneFacts DEF Call, FrameOK
<1> HIDE DEF c
<1>3. calls' \in Seq(Frames) /\ Len(calls') = 1 /\ calls'[1] = c
  BY <1>1, <1>2 DEF FrameOK
<1>4. \A i \in 1..Len(calls') : FrameOK(calls'[i])
  <2> SUFFICES ASSUME NEW i \in 1..1 PROVE FrameOK(calls'[i])
    BY <1>3
  <2>1. i = 1
    OBVIOUS
  <2> QED
    BY <1>2, <1>3, <2>1
<1>5. \A i \in 1..Len(calls') - 1 : FALSE
  BY <1>3
<1> QED
  BY <1>1, <1>3, <1>4, <1>5 DEF BuildOK, CallsOK, StaticsStay

LEMMA CopyIsOK ==
  ASSUME BuildOK, NEW s \in Holdings, MayCopy(s)
  PROVE  WithCopyOf(s) \subseteq Typecodes
  BY NewIsNew DEF BuildOK, WithCopyOf, MayCopy

-----------------------------------------------------------------------------
(* Scoped programs.                                                        *)

(* The objects are in the order of their construction, and what an object  *)
(* uses is kept by one that is not younger.                                *)
KeptAt(p, s) ==
  \E q \in 1..p : order[q] \in counted /\ type_support[order[q]] = s

ScopeOK ==
  scoped =>
    /\ \A p \in 1..Len(order) : order[p] \in exists
    /\ \A x \in exists : \E p \in 1..Len(order) : order[p] = x
    /\ \A p, q \in 1..Len(order) : order[p] = order[q] => p = q
    /\ \A p \in 1..Len(order) : \A s \in UsedBy(order[p]) : KeptAt(p, s)

(* The last part of ScopeOK says more than BorrowedAlive.                  *)
LEMMA ScopeKeepsAlive ==
  ASSUME ObjectsOK, ScopeOK
  PROVE  BorrowedAlive
<1> SUFFICES ASSUME scoped, NEW x \in exists, NEW s \in UsedBy(x)
             PROVE  Alive(s)
  BY DEF BorrowedAlive
<1>1. PICK p \in 1..Len(order) : order[p] = x
  BY DEF ScopeOK
<1>2. KeptAt(p, s)
  BY <1>1 DEF ScopeOK
<1> QED
  BY <1>2 DEF KeptAt, Alive

(* A new object comes last; what it uses is alive.                         *)
LEMMA ScopeGrows ==
  ASSUME ObjectsOK, ScopeOK, ObjectsOK', NEW x \in Objects, Appears(x),
         scoped' = scoped,
         scoped => \A y \in exists : UsedBy(y)' \subseteq UsedBy(y),
         scoped => \A m \in counted :
                     m \in counted' /\ type_support'[m] = type_support[m],
         scoped => \A s \in UsedBy(x)' : Alive(s)'
  PROVE  ScopeOK'
<1> SUFFICES ASSUME scoped PROVE ScopeOK'
  BY DEF ScopeOK
<1> DEFINE n == Len(order)
<1>1. /\ n \in Nat
      /\ Len(order') = n + 1
      /\ \A p \in 1..n : order'[p] = order[p]
      /\ order'[n + 1] = x
      /\ exists' = exists \cup {x}
      /\ x \notin exists
  BY AppendProperties DEF ObjectsOK, Appears
<1>2. /\ \A p \in 1..n : order[p] \in exists
      /\ \A y \in exists : \E p \in 1..n : order[p] = y
      /\ \A p, q \in 1..n : order[p] = order[q] => p = q
      /\ \A p \in 1..n : \A s \in UsedBy(order[p]) : KeptAt(p, s)
  BY DEF ScopeOK
<1> HIDE DEF n
<1>3. \A p \in 1..n + 1 : order'[p] \in exists'
  BY <1>1, <1>2
<1>4. \A y \in exists' : \E p \in 1..n + 1 : order'[p] = y
  <2> SUFFICES ASSUME NEW y \in exists'
               PROVE  \E p \in 1..n + 1 : order'[p] = y
    OBVIOUS
  <2>1. CASE y = x
    BY <1>1, <2>1
  <2>2. CASE y \in exists
    <3>1. PICK p \in 1..n : order[p] = y
      BY <1>2, <2>2
    <3> QED
      BY <1>1, <3>1
  <2> QED
    BY <1>1, <2>1, <2>2
<1>5. \A p, q \in 1..n + 1 : order'[p] = order'[q] => p = q
  BY <1>1, <1>2
<1>6. \A p \in 1..n + 1 : \A s \in UsedBy(order[p])' : KeptAt(p, s)'
  <2> SUFFICES ASSUME NEW p \in 1..n + 1, NEW s \in UsedBy(order[p])'
               PROVE  KeptAt(p, s)'
    OBVIOUS
  <2>1. CASE p \in 1..n
    <3>1. order'[p] = order[p] /\ order[p] \in exists
      BY <1>1, <1>2, <2>1
    <3>2. s \in UsedBy(order[p])
      <4> DEFINE y == order[p]
      <4>1. s \in UsedBy(y)'
        BY <3>1 DEF UsedBy
      <4> QED
        BY <3>1, <4>1
    <3>3. PICK q \in 1..p : order[q] \in counted /\ type_support[order[q]] = s
      BY <1>2, <2>1, <3>2 DEF KeptAt
    <3>4. order'[q] = order[q]
      BY <1>1, <2>1
    <3> QED
      BY <3>3, <3>4 DEF KeptAt
  <2>2. CASE p = n + 1
    <3>1. s \in UsedBy(x)'
      BY <1>1, <2>2 DEF UsedBy
    <3>2. PICK m \in counted' : type_support'[m] = s
      BY <3>1 DEF Alive
    <3>3. PICK q \in 1..n + 1 : order'[q] = m
      BY <1>4, <3>2 DEF ObjectsOK
    <3> QED
      BY <2>2, <3>2, <3>3 DEF KeptAt
  <2> QED
    BY <1>1, <2>1, <2>2
<1> QED
  BY <1>1, <1>3, <1>4, <1>5, <1>6 DEF ScopeOK

(* The last object goes; no other was kept by it.                          *)
LEMMA ScopeShrinks ==
  ASSUME ObjectsOK, ScopeOK, NEW x \in Objects, Disappears(x),
         scoped' = scoped,
         \A y \in exists \ {x} : UsedBy(y)' \subseteq UsedBy(y),
         \A m \in counted \ {x} :
           m \in counted' /\ type_support'[m] = type_support[m]
  PROVE  ScopeOK'
<1> SUFFICES ASSUME scoped PROVE ScopeOK'
  BY DEF ScopeOK
<1> DEFINE n == Len(order)
<1>1. /\ \A p \in 1..n : order[p] \in exists
      /\ \A y \in exists : \E p \in 1..n : order[p] = y
      /\ \A p, q \in 1..n : order[p] = order[q] => p = q
      /\ \A p \in 1..n : \A s \in UsedBy(order[p]) : KeptAt(p, s)
  BY DEF ScopeOK
<1>2. x \in exists /\ x = order[n] /\ exists' = exists \ {x}
      /\ order' = SubSeq(order, 1, n - 1)
  BY DEF Disappears
<1>3. n \in Nat /\ n > 0
  <2>1. n \in Nat
    BY LenProperties DEF ObjectsOK
  <2>2. 1..n # {}
    BY <1>1, <1>2
  <2> QED
    BY <2>1, <2>2
<1>4. /\ Len(order') = n - 1
      /\ \A p \in 1..n - 1 : order'[p] = order[p]
  <2>1. \A p \in 1..n - 1 : order[p] \in Objects
    BY <1>3, ElementOfSeq DEF ObjectsOK
  <2> HIDE DEF n
  <2>2. n - 1 \in Int /\ n - 1 >= 0
    BY <1>3
  <2> QED
    BY <1>2, <2>1, <2>2, SubSeqProperties
<1> HIDE DEF n
<1>5. \A p \in 1..n - 1 : order[p] # x
  BY <1>1, <1>2, <1>3
<1>6. \A p \in 1..n - 1 : order'[p] \in exists'
  BY <1>1, <1>2, <1>3, <1>4, <1>5
<1>7. \A y \in exists' : \E p \in 1..n - 1 : order'[p] = y
  <2> SUFFICES ASSUME NEW y \in exists'
               PROVE  \E p \in 1..n - 1 : order'[p] = y
    OBVIOUS
  <2>1. PICK p \in 1..n : order[p] = y
    BY <1>1, <1>2
  <2>2. p \in 1..n - 1
    BY <1>2, <1>3, <2>1
  <2> QED
    BY <1>4, <2>1, <2>2
<1>8. \A p, q \in 1..n - 1 : order'[p] = order'[q] => p = q
  BY <1>1, <1>3, <1>4
<1>9. \A p \in 1..n - 1 : \A s \in UsedBy(order[p])' : KeptAt(p, s)'
  <2> SUFFICES ASSUME NEW p \in 1..n - 1, NEW s \in UsedBy(order[p])'
               PROVE  KeptAt(p, s)'
    OBVIOUS
  <2>1. p \in 1..n /\ order'[p] = order[p] /\ order[p] \in exists \ {x}
    BY <1>1, <1>3, <1>4, <1>5
  <2>2. s \in UsedBy(order[p])
    <3> DEFINE y == order[p]
    <3>1. s \in UsedBy(y)'
      BY <2>1 DEF UsedBy
    <3> QED
      BY <2>1, <3>1
  <2>3. PICK q \in 1..p : order[q] \in counted /\ type_support[order[q]] = s
    BY <1>1, <2>1, <2>2 DEF KeptAt
  <2>4. q \in 1..n - 1 /\ order'[q] = order[q] /\ order[q] # x
    BY <1>3, <1>4, <1>5
  <2> QED
    BY <2>3, <2>4 DEF KeptAt
<1> QED
  BY <1>4, <1>6, <1>7, <1>8, <1>9 DEF ScopeOK

(* The same objects point to the same typecodes.                           *)
LEMMA ScopeStays ==
  ASSUME ScopeOK, UNCHANGED <<scoped, exists, order, type_support, counted>>,
         \A y \in Holders : safe_typecode'[y].typecode_ = safe_typecode[y].typecode_
  PROVE  ScopeOK'
<1>1. \A y : UsedBy(y)' = UsedBy(y)
  BY DEF UsedBy
<1>2. \A p, s : KeptAt(p, s)' = KeptAt(p, s)
  BY DEF KeptAt
<1> SUFFICES ASSUME scoped PROVE ScopeOK'
  BY DEF ScopeOK
<1>3. \A p \in 1..Len(order) : \A s \in UsedBy(order[p])' : KeptAt(p, s)'
  BY <1>1, <1>2 DEF ScopeOK, UsedBy
<1> QED
  BY <1>3 DEF ScopeOK

-----------------------------------------------------------------------------

(* make_typecode does not return the typecode of a type support.           *)
LEMMA MadeIsNotForeign ==
  \A s \in Made \cup {None} : s.typecode_ \notin Supports
  BY TypecodeConstants DEF Made, None, FromNonConst, FromConst, Supports

(* A manager counts for the type support it uses.                          *)
LEMMA ConstructScope ==
  ASSUME BuildOK, ObjectsOK, ScopeOK, ObjectsOK', NEW h \in Holders,
         Construct(h)
  PROVE  ScopeOK'
<1>1. /\ h \in Objects
      /\ Appears(h)
      /\ scoped' = scoped
      /\ h \notin exists
      /\ h \notin counted
      /\ safe_typecode' = [safe_typecode EXCEPT ![h] = result]
  BY ObjectSets DEF Construct, Appears, ObjectsOK
<1>2. safe_typecode'[h] = result /\ result.typecode_ \notin Supports
  BY <1>1, MadeIsNotForeign DEF ObjectsOK, BuildOK, CallsOK
<1>3. CASE h \in Managers
  <2> DEFINE s == CHOOSE s \in FreeSupports : TRUE
  <2>1. /\ type_support' = [type_support EXCEPT ![h] = s]
        /\ counted' = counted \cup {h}
    BY <1>3 DEF Construct, NewSupport
  <2> HIDE DEF s
  <2>2. \A y \in exists : UsedBy(y)' = UsedBy(y)
    BY <1>1, <2>1 DEF UsedBy, ObjectsOK, Objects
  <2>3. \A m \in counted : type_support'[m] = type_support[m]
    BY <1>1, <2>1 DEF ObjectsOK
  <2>4. UsedBy(h)' \subseteq {type_support'[h]}
    BY <1>2 DEF UsedBy
  <2> QED
    BY <1>1, <2>1, <2>2, <2>3, <2>4, ScopeGrows DEF Alive
<1>4. CASE h \notin Managers
  <2>1. type_support' = type_support /\ counted' = counted
    BY <1>4 DEF Construct
  <2>2. \A y \in exists : UsedBy(y)' = UsedBy(y)
    BY <1>1, <2>1 DEF UsedBy, ObjectsOK, Objects
  <2>3. UsedBy(h)' = {}
    BY <1>2, <1>4, ObjectSets DEF UsedBy
  <2> QED
    BY <1>1, <2>1, <2>2, <2>3, ScopeGrows
<1> QED
  BY <1>3, <1>4

(* A manager that borrows uses what another keeps alive.                   *)
LEMMA BorrowScope ==
  ASSUME ObjectsOK, ScopeOK, ObjectsOK', NEW m \in Managers,
         NEW n \in Managers, Borrow(m, n)
  PROVE  ScopeOK'
<1>1. /\ m \in Objects
      /\ Appears(m)
      /\ scoped' = scoped
      /\ m \notin exists
      /\ m \notin counted
      /\ counted' = counted
      /\ safe_typecode' = [safe_typecode EXCEPT ![m] = FromConst(type_support[n])]
      /\ type_support' = [type_support EXCEPT ![m] = type_support[n]]
      /\ Alive(type_support[n])
  BY ObjectSets DEF Borrow, Appears, ObjectsOK
<1>2. \A y \in exists : UsedBy(y)' = UsedBy(y)
  BY <1>1 DEF UsedBy, ObjectsOK, Objects
<1>3. \A k \in counted : type_support'[k] = type_support[k]
  BY <1>1 DEF ObjectsOK
<1>4. UsedBy(m)' \subseteq {type_support[n]}
  <2>1. safe_typecode'[m].typecode_ = type_support[n]
        /\ type_support'[m] = type_support[n]
    BY <1>1, ObjectSets DEF ObjectsOK, FromConst
  <2> QED
    BY <2>1 DEF UsedBy
<1>5. \A s \in UsedBy(m)' : Alive(s)'
  <2> SUFFICES ASSUME NEW s \in UsedBy(m)' PROVE Alive(s)'
    OBVIOUS
  <2>1. PICK k \in counted : type_support[k] = s
    BY <1>1, <1>4 DEF Alive
  <2> QED
    BY <1>1, <1>3, <2>1 DEF Alive
<1> QED
  BY <1>1, <1>2, <1>3, <1>5, ScopeGrows

(* A copy points to what the original points to, or to a new typecode.     *)
LEMMA CopyScope ==
  ASSUME ObjectsOK, ScopeOK, ObjectsOK', NEW h \in Holders,
         NEW g \in Holders, CopyConstruct(h, g)
  PROVE  ScopeOK'
<1>1. /\ h \in Objects
      /\ Appears(h)
      /\ scoped' = scoped
      /\ h \notin exists
      /\ h \notin counted
      /\ g \in exists
      /\ g # h
      /\ Source(h, g)
      /\ MayCopy(safe_typecode[g])
      /\ safe_typecode' = [safe_typecode EXCEPT ![h] = CopyOf(safe_typecode[g])]
      /\ ShareSupport(h, g)
  BY ObjectSets DEF CopyConstruct, Appears, ObjectsOK
<1>2. \A k \in counted : k \in counted' /\ type_support'[k] = type_support[k]
  BY <1>1 DEF ShareSupport, ObjectsOK
<1>3. \A y \in exists : UsedBy(y)' = UsedBy(y)
  <2>1. \A y \in exists : y \in Managers \cup Data =>
          type_support'[y] = type_support[y]
    BY <1>1 DEF ShareSupport, ObjectsOK
  <2>2. \A y \in exists : y \in Holders => safe_typecode'[y] = safe_typecode[y]
    BY <1>1 DEF ObjectsOK
  <2> QED
    BY <2>1, <2>2, ObjectSets DEF UsedBy, ObjectsOK
<1>4. UsedBy(h)' \subseteq UsedBy(g)
  <2>1. safe_typecode'[h] = CopyOf(safe_typecode[g])
    BY <1>1 DEF ObjectsOK
  <2>2. safe_typecode'[h].typecode_ \in Supports =>
          safe_typecode'[h].typecode_ = safe_typecode[g].typecode_
    <3>1. CASE safe_typecode[g].is_shared_
      BY <2>1, <3>1 DEF CopyOf
    <3>2. CASE ~safe_typecode[g].is_shared_
      <4>1. New \notin Supports
        BY <1>1, <3>2, NewIsNew, TypecodeConstants DEF MayCopy, Supports
      <4> QED
        BY <2>1, <3>2, <4>1 DEF CopyOf, FromNonConst
    <3> QED
      BY <3>1, <3>2
  <2>3. CASE h \in Managers
    <3>1. g \in Managers /\ type_support'[h] = type_support[g]
      BY <1>1, <2>3 DEF Source, ShareSupport, ObjectsOK
    <3> QED
      BY <2>2, <2>3, <3>1, ObjectSets DEF UsedBy
  <2>4. CASE h \notin Managers
    <3>1. h \in SafeTcs
      BY <2>4, ObjectSets
    <3> QED
      BY <2>2, <3>1 DEF UsedBy
  <2> QED
    BY <2>3, <2>4
<1>5. scoped => \A s \in UsedBy(h)' : Alive(s)'
  <2> SUFFICES ASSUME scoped, NEW s \in UsedBy(h)' PROVE Alive(s)'
    OBVIOUS
  <2>1. Alive(s)
    BY <1>1, <1>4, ScopeKeepsAlive DEF BorrowedAlive
  <2>2. PICK k \in counted : type_support[k] = s
    BY <2>1 DEF Alive
  <2> QED
    BY <1>2, <2>2 DEF Alive
<1> QED
  BY <1>1, <1>2, <1>3, <1>5, ScopeGrows

(* Destructors of managers, SafeTypeCodes and SafeDynamicData.             *)
LEMMA DestroyScope ==
  ASSUME ObjectsOK, ScopeOK, NEW h \in Holders, Destroy(h)
  PROVE  ScopeOK'
<1>1. /\ h \in Objects
      /\ Disappears(h)
      /\ scoped' = scoped
      /\ safe_typecode' = [safe_typecode EXCEPT ![h] = None]
      /\ counted' = counted \ {h}
      /\ \A y \in (Managers \cup Data) \ {h} : type_support'[y] = type_support[y]
  BY ObjectSets DEF Destroy, ObjectsOK
<1>2. \A y \in exists \ {h} : UsedBy(y)' = UsedBy(y)
  <2>1. \A y \in exists \ {h} : y \in Holders =>
          safe_typecode'[y] = safe_typecode[y]
    BY <1>1 DEF ObjectsOK
  <2> QED
    BY <1>1, <2>1, ObjectSets DEF UsedBy, ObjectsOK
<1>3. \A k \in counted \ {h} :
        k \in counted' /\ type_support'[k] = type_support[k]
  BY <1>1 DEF ObjectsOK
<1> QED
  BY <1>1, <1>2, <1>3, ScopeShrinks

(* release keeps the pointer.                                              *)
LEMMA ReleaseScope ==
  ASSUME ObjectsOK, ScopeOK, NEW h \in Holders, Release(h)
  PROVE  ScopeOK'
<1>1. safe_typecode' = [safe_typecode EXCEPT ![h] = Released(safe_typecode[h])]
  BY DEF Release
<1>2. Released(safe_typecode[h]).typecode_ = safe_typecode[h].typecode_
  BY DEF Released, ObjectsOK, Holdings, SafeTypeCodes
<1>3. \A y \in Holders : safe_typecode'[y].typecode_ = safe_typecode[y].typecode_
  BY <1>1, <1>2 DEF ObjectsOK
<1> QED
  BY <1>3, ScopeStays DEF Release

LEMMA DataScope ==
  ASSUME ObjectsOK, ScopeOK, ObjectsOK', NEW x \in Data,
         DestroyData(x) \/ \E m \in Managers : CreateDynamicData(x, m)
  PROVE  ScopeOK'
<1>1. x \in Objects /\ x \notin Managers /\ x \notin Holders /\ x \notin counted
  BY TypeManagerConstants DEF Objects, Holders, ObjectsOK
<1>2. UNCHANGED <<scoped, safe_typecode, counted>>
  BY DEF DestroyData, CreateDynamicData
<1>3. ASSUME NEW s, type_support' = [type_support EXCEPT ![x] = s]
      PROVE  /\ \A y \in exists \ {x} : UsedBy(y)' = UsedBy(y)
             /\ \A k \in counted : type_support'[k] = type_support[k]
  BY <1>1, <1>2, <1>3 DEF UsedBy, ObjectsOK, Objects
<1>4. CASE DestroyData(x)
  <2>1. type_support' = [type_support EXCEPT ![x] = NULL] /\ Disappears(x)
    BY <1>4 DEF DestroyData
  <2> QED
    BY <1>1, <1>2, <1>3, <2>1, ScopeShrinks
<1>5. ASSUME NEW m \in Managers, CreateDynamicData(x, m)
      PROVE  ScopeOK'
  <2>1. /\ type_support' = [type_support EXCEPT ![x] = type_support[m]]
        /\ Appears(x) /\ x \notin exists
        /\ Alive(type_support[m])
    BY <1>5 DEF CreateDynamicData, Appears
  <2>2. /\ \A y \in exists : UsedBy(y)' = UsedBy(y)
        /\ \A k \in counted : type_support'[k] = type_support[k]
    BY <1>3, <2>1
  <2>3. \A s \in UsedBy(x)' : Alive(s)'
    <3> SUFFICES ASSUME NEW s \in UsedBy(x)' PROVE Alive(s)'
      OBVIOUS
    <3>1. s = type_support[m]
      BY <1>1, <2>1 DEF UsedBy, ObjectsOK
    <3>2. PICK k \in counted : type_support[k] = s
      BY <2>1, <3>1 DEF Alive
    <3> QED
      BY <1>2, <2>2, <3>2 DEF Alive
  <2> QED
    BY <1>1, <1>2, <2>1, <2>2, <2>3, ScopeGrows
<1> QED
  BY <1>4, <1>5

-----------------------------------------------------------------------------
(* The specification.                                                      *)

IInv == BuildOK /\ ObjectsOK /\ ScopeOK

LEMMA InitOK == Init => IInv
<1> SUFFICES ASSUME Init PROVE IInv
  OBVIOUS
<1>1. calls \in Seq(Frames) /\ Len(calls) = 0 /\ order \in Seq(Objects)
      /\ Len(order) = 0
  BY EmptySeq DEF Init, InitMake
<1>2. BuildOK
  BY <1>1 DEF Init, InitMake, BuildOK, CallsOK, StaticsStay
<1>3. ObjectsOK
  BY <1>1, HoldingFacts DEF Init, InitMake, ObjectsOK, Idle
<1>4. ScopeOK
  BY <1>1 DEF Init, ScopeOK
<1> QED
  BY <1>2, <1>3, <1>4 DEF IInv

(* Every action keeps the invariant.                                       *)
LEMMA StepOK == IInv /\ [Next]_vars => IInv'
<1> SUFFICES ASSUME IInv, [Next]_vars PROVE IInv'
  OBVIOUS
<1>1. BuildOK /\ ObjectsOK /\ ScopeOK /\ root \in Types
  BY TypeManagerConstants DEF IInv, ObjectsOK
<1>2. CASE UNCHANGED vars
  <2>1. BuildOK'
    BY <1>1, <1>2, HeapIsOK DEF vars, BuildOK
  <2>2. ObjectsOK'
    BY <1>1, <1>2 DEF vars, building, objects, ObjectsOK, Idle,
       FreeSupports, UsedBy
  <2>3. ScopeOK'
    BY <1>1, <1>2, ScopeStays DEF vars, objects
  <2> QED
    BY <2>1, <2>2, <2>3 DEF IInv
<1>3. CASE BeginConstruct \/ Making
  <2>1. ObjectsOK'
    BY <1>1, <1>3, MakingObjects
  <2>2. BuildOK'
    BY <1>1, <1>3, BeginIsOK, MakeIsOK DEF Making
  <2>3. ScopeOK'
    BY <1>1, <1>3, ScopeStays DEF BeginConstruct, Making, objects
  <2> QED
    BY <2>1, <2>2, <2>3 DEF IInv
<1>4. ASSUME NEW h \in Holders, Construct(h)
      PROVE  IInv'
  <2>1. ObjectsOK'
    BY <1>1, <1>4, ConstructObjects
  <2>2. BuildOK'
    BY <1>1, <1>4 DEF Construct, BuildOK, CallsOK, StaticsStay
  <2>3. ScopeOK'
    BY <1>1, <1>4, <2>1, ConstructScope
  <2> QED
    BY <2>1, <2>2, <2>3 DEF IInv
<1>5. ASSUME NEW h \in Holders, Destroy(h)
      PROVE  IInv'
  <2>1. BuildOK'
    BY <1>1, <1>5, HeapIsOK DEF Destroy, Delete, BuildOK
  <2> QED
    BY <1>1, <1>5, <2>1, DestroyObjects, DestroyScope DEF IInv
<1>6. ASSUME NEW h \in Holders, Release(h)
      PROVE  IInv'
  <2>1. BuildOK'
    BY <1>1, <1>6, HeapIsOK DEF Release, BuildOK
  <2> QED
    BY <1>1, <1>6, <2>1, ReleaseObjects, ReleaseScope DEF IInv
<1>7. ASSUME NEW m \in Managers, NEW n \in Managers, Borrow(m, n)
      PROVE  IInv'
  <2>1. BuildOK'
    BY <1>1, <1>7, HeapIsOK DEF Borrow, BuildOK
  <2> QED
    BY <1>1, <1>7, <2>1, BorrowObjects, BorrowScope DEF IInv
<1>8. ASSUME NEW h \in Holders, NEW g \in Holders,
             CopyConstruct(h, g) \/ CopyAssign(h, g)
      PROVE  IInv'
  <2>1. WithCopyOf(safe_typecode[g]) \subseteq Typecodes
    BY <1>1, <1>8, CopyIsOK DEF CopyConstruct, CopyAssign, ObjectsOK
  <2>2. BuildOK'
    BY <1>1, <1>8, <2>1, HeapIsOK DEF CopyConstruct, CopyAssign, Delete
  <2>3. ObjectsOK'
    BY <1>1, <1>8, CopyObjects
  <2>4. ScopeOK'
    BY <1>1, <1>8, <2>3, CopyScope DEF CopyAssign, ScopeOK
  <2> QED
    BY <2>2, <2>3, <2>4 DEF IInv
<1>9. ASSUME NEW h \in Holders, NEW g \in Holders,
             MoveConstruct(h, g) \/ MoveAssign(h, g)
      PROVE  IInv'
  <2>1. BuildOK'
    BY <1>1, <1>9, HeapIsOK DEF MoveConstruct, MoveAssign, BuildOK
  <2>2. ObjectsOK'
    BY <1>1, <1>9, MoveObjects
  <2>3. ScopeOK'
    BY <1>1, <1>9 DEF MoveConstruct, MoveAssign, ScopeOK
  <2> QED
    BY <2>1, <2>2, <2>3 DEF IInv
<1>10. ASSUME NEW tc \in raw, DeleteRaw(tc)
       PROVE  IInv'
  <2>1. BuildOK'
    BY <1>1, <1>10, HeapIsOK DEF DeleteRaw, Delete, BuildOK
  <2>2. ScopeOK'
    BY <1>1, <1>10, ScopeStays DEF DeleteRaw, objects
  <2> QED
    BY <1>1, <1>10, <2>1, <2>2, DeleteRawObjects DEF IInv
<1>11. ASSUME NEW x \in Data,
              DestroyData(x) \/ \E m \in Managers : CreateDynamicData(x, m)
       PROVE  IInv'
  <2>1. BuildOK'
    BY <1>1, <1>11, HeapIsOK DEF DestroyData, CreateDynamicData, BuildOK
  <2>2. ObjectsOK'
    BY <1>1, <1>11, DataObjects
  <2>3. ScopeOK'
    BY <1>1, <1>11, <2>2, DataScope
  <2> QED
    BY <2>1, <2>2, <2>3 DEF IInv
<1> QED
  BY <1>2, <1>3, <1>4, <1>5, <1>6, <1>7, <1>8, <1>9, <1>10, <1>11 DEF Next

(* Whatever is constructed, copied, moved, released and destroyed, and     *)
(* whatever the factory refuses: every activation of get_typecode has a    *)
(* typecode, or none yet, in each of its locals, every SafeTypeCode that   *)
(* owns points to a typecode of the heap, and only managers that exist     *)
(* count as owners of a type support.                                      *)
THEOREM TypeCorrect == Spec => []TypeOK
<1>1. IInv => TypeOK
  BY HoldingFacts DEF IInv, BuildOK, CallsOK, ObjectsOK, TypeOK
<1> QED
  BY <1>1, InitOK, StepOK, PTL DEF Spec

(* For every type that can be adapted, delete_typecodes calls delete_tc    *)
(* for the typecode of a primitive type only if a case of the union is an  *)
(* optional or a smart pointer to a primitive.                             *)
THEOREM OnlyWrappedPrimitives == Spec => []StaticsStay
<1>1. IInv => StaticsStay
  BY DEF IInv, BuildOK
<1> QED
  BY <1>1, InitOK, StepOK, PTL DEF Spec

(* In a program whose objects are destroyed in the reverse order of their  *)
(* construction, with any number of them, no manager, copy of a typecode   *)
(* or SafeDynamicData outlives the type support it points to.              *)
THEOREM ScopedIsSafe == Spec => []BorrowedAlive
<1>1. IInv => BorrowedAlive
  BY ScopeKeepsAlive DEF IInv
<1> QED
  BY <1>1, InitOK, StepOK, PTL DEF Spec

-----------------------------------------------------------------------------
(* Who owns typecodes, proved for any types, heap, managers and            *)
(* SafeTypeCodes: every typecode on the heap is owned by exactly one       *)
(* object, local variable, union member or application, and nothing else   *)
(* is owned.                                                               *)
(*                                                                         *)
(* All steps exchange what some owners have for something one of them has  *)
(* afterwards; lemma Exchange says when that keeps typecodes owned once.   *)

(* What an activation holds in one of its fields.                          *)
Fields == {"first", "own", "inner", "cases"}

FrameOwns(c, f) ==
  IF f = "first" THEN Owned(c.first)
  ELSE IF f = "own" THEN Owned(c.own)
  ELSE IF f = "inner" THEN Owned(c.inner)
  ELSE CasesHold(c)

(* The slots of a stack of any height.                                     *)
Positive == Nat \ {0}

AllSlots ==
  {<<"object", h>> : h \in Holders}
    \cup {<<"result", 0>>, <<"raw", 0>>, <<"abandoned", 0>>}
    \cup {<<f, i>> : f \in Fields, i \in Positive}

OwnsOf(st, res, rw, ab, cs) ==
  [a \in AllSlots |->
     IF a[1] = "object" THEN Owned(st[a[2]])
     ELSE IF a[1] = "result" THEN Owned(res)
     ELSE IF a[1] = "raw" THEN rw
     ELSE IF a[1] = "abandoned" THEN ab
     ELSE IF a[2] \in DOMAIN cs THEN FrameOwns(cs[a[2]], a[1]) ELSE {}]

Owns == OwnsOf(safe_typecode, result, raw, abandoned, calls)

(* Everything in T is owned once, according to f, and nothing else is.     *)
Exact(T, f) ==
  /\ \A a \in AllSlots : f[a] \subseteq T
  /\ \A tc \in T : \E a \in AllSlots : tc \in f[a]
  /\ \A a, b \in AllSlots : \A tc : tc \in f[a] /\ tc \in f[b] => a = b

OwnersOK == Exact(typecodes, Owns) /\ DistinctCases

-----------------------------------------------------------------------------
(* Slots.                                                                  *)

(* Every slot is one of these.                                             *)
LEMMA SlotCases ==
  /\ \A h \in Holders : <<"object", h>> \in AllSlots
  /\ <<"result", 0>> \in AllSlots
  /\ <<"raw", 0>> \in AllSlots
  /\ <<"abandoned", 0>> \in AllSlots
  /\ \A f \in Fields, i \in Positive : <<f, i>> \in AllSlots
  /\ \A a \in AllSlots :
       \/ \E h \in Holders : a = <<"object", h>>
       \/ a = <<"result", 0>> \/ a = <<"raw", 0>> \/ a = <<"abandoned", 0>>
       \/ \E f \in Fields, i \in Positive : a = <<f, i>>
  BY DEF AllSlots

(* What the slots own, kind by kind.                                       *)
LEMMA OwnsFacts ==
  ASSUME NEW st, NEW res, NEW rw, NEW ab, NEW cs
  PROVE  LET g == OwnsOf(st, res, rw, ab, cs)
         IN /\ \A h \in Holders : g[<<"object", h>>] = Owned(st[h])
            /\ g[<<"result", 0>>] = Owned(res)
            /\ g[<<"raw", 0>>] = rw
            /\ g[<<"abandoned", 0>>] = ab
            /\ \A f \in Fields, i \in Positive :
                 g[<<f, i>>] =
                   IF i \in DOMAIN cs THEN FrameOwns(cs[i], f) ELSE {}
<1> DEFINE g == OwnsOf(st, res, rw, ab, cs)
<1>1. \A h \in Holders : g[<<"object", h>>] = Owned(st[h])
  BY SlotCases DEF OwnsOf
<1>2. /\ g[<<"result", 0>>] = Owned(res)
      /\ g[<<"raw", 0>>] = rw
      /\ g[<<"abandoned", 0>>] = ab
  BY SlotCases DEF OwnsOf
<1>3. ASSUME NEW f \in Fields, NEW i \in Positive
      PROVE  g[<<f, i>>] = IF i \in DOMAIN cs THEN FrameOwns(cs[i], f) ELSE {}
  <2>1. <<f, i>> \in AllSlots
    BY SlotCases
  <2>2. f # "object" /\ f # "result" /\ f # "raw" /\ f # "abandoned"
    BY DEF Fields
  <2> QED
    BY <2>1, <2>2 DEF OwnsOf
<1> QED
  BY <1>1, <1>2, <1>3

(* From f to g, what is in the slots of S, which is G, is given up, but    *)
(* for X, which goes to d.                                                 *)
Exchanged(f, g, S, d, T, G, X) ==
  /\ S \subseteq AllSlots
  /\ d \in S
  /\ \A tc : tc \in G <=> \E a \in S : tc \in f[a]
  /\ X \cap (T \ G) = {}
  /\ \A a \in AllSlots \ S : g[a] = f[a]
  /\ g[d] = X
  /\ \A a \in S \ {d} : g[a] = {}

(* Then everything is still owned once.                                    *)
LEMMA Exchange ==
  ASSUME NEW T, NEW f, Exact(T, f), NEW S, NEW d, NEW X, NEW G, NEW g,
         Exchanged(f, g, S, d, T, G, X)
  PROVE  Exact((T \ G) \cup X, g)
<1> DEFINE U == (T \ G) \cup X
<1>0. /\ S \subseteq AllSlots /\ d \in S
      /\ \A tc : tc \in G <=> \E a \in S : tc \in f[a]
      /\ X \cap (T \ G) = {}
      /\ \A a \in AllSlots \ S : g[a] = f[a]
      /\ g[d] = X
      /\ \A a \in S \ {d} : g[a] = {}
  BY DEF Exchanged
<1>1. \A a \in AllSlots \ S : f[a] \cap G = {}
  BY <1>0 DEF Exact
<1>2. \A a \in AllSlots : g[a] \subseteq U
  BY <1>0, <1>1 DEF Exact
<1>3. \A tc \in U : \E a \in AllSlots : tc \in g[a]
  <2> SUFFICES ASSUME NEW tc \in U PROVE \E a \in AllSlots : tc \in g[a]
    OBVIOUS
  <2>1. CASE tc \in X
    BY <1>0, <2>1
  <2>2. CASE tc \in T \ G
    <3>1. PICK a \in AllSlots : tc \in f[a]
      BY <2>2 DEF Exact
    <3> QED
      BY <1>0, <2>2, <3>1
  <2> QED
    BY <2>1, <2>2
<1>4. ASSUME NEW a \in AllSlots, NEW b \in AllSlots, NEW tc,
             tc \in g[a], tc \in g[b]
      PROVE  a = b
  <2>1. a \in S => a = d /\ tc \in X
    BY <1>0, <1>4
  <2>2. b \in S => b = d /\ tc \in X
    BY <1>0, <1>4
  <2>3. a \notin S => tc \in f[a] /\ tc \in T \ G
    BY <1>0, <1>1, <1>4 DEF Exact
  <2>4. b \notin S => tc \in f[b] /\ tc \in T \ G
    BY <1>0, <1>1, <1>4 DEF Exact
  <2> QED
    BY <1>0, <2>1, <2>2, <2>3, <2>4 DEF Exact
<1> QED
  BY <1>2, <1>3, <1>4 DEF Exact

(* Two slots exchange what they own.                                       *)
LEMMA Swap ==
  ASSUME NEW T, NEW f, Exact(T, f), NEW x \in AllSlots, NEW y \in AllSlots,
         NEW g, \A a \in AllSlots \ {x, y} : g[a] = f[a],
         g[x] = f[y], g[y] = f[x]
  PROVE  Exact(T, g)
<1>1. \A a \in AllSlots : g[a] \subseteq T
  BY DEF Exact
<1>2. ASSUME NEW tc \in T
      PROVE  \E a \in AllSlots : tc \in g[a]
  <2>1. PICK a \in AllSlots : tc \in f[a]
    BY DEF Exact
  <2>2. CASE a = x
    BY <2>1, <2>2
  <2>3. CASE a = y
    BY <2>1, <2>3
  <2>4. CASE a \notin {x, y}
    BY <2>1, <2>4
  <2> QED
    BY <2>2, <2>3, <2>4
<1>3. ASSUME NEW a \in AllSlots, NEW b \in AllSlots, NEW tc,
             tc \in g[a], tc \in g[b]
      PROVE  a = b
  BY <1>3 DEF Exact
<1> QED
  BY <1>1, <1>2, <1>3 DEF Exact

-----------------------------------------------------------------------------
(* The slots before and after a step.                                      *)

(* The slots in both states of a step.                                     *)
LEMMA OwnsAre ==
  /\ \A h \in Holders :
       /\ Owns[<<"object", h>>] = Owned(safe_typecode[h])
       /\ Owns'[<<"object", h>>] = Owned(safe_typecode'[h])
  /\ Owns[<<"result", 0>>] = Owned(result)
  /\ Owns'[<<"result", 0>>] = Owned(result')
  /\ Owns[<<"raw", 0>>] = raw
  /\ Owns'[<<"raw", 0>>] = raw'
  /\ Owns[<<"abandoned", 0>>] = abandoned
  /\ Owns'[<<"abandoned", 0>>] = abandoned'
  /\ \A f \in Fields, i \in Positive :
       /\ Owns[<<f, i>>] =
            IF i \in DOMAIN calls THEN FrameOwns(calls[i], f) ELSE {}
       /\ Owns'[<<f, i>>] =
            IF i \in DOMAIN calls' THEN FrameOwns(calls'[i], f) ELSE {}
  BY OwnsFacts DEF Owns

(* The positions of the stack.                                             *)
LEMMA CallPositions ==
  ASSUME calls \in Seq(Frames)
  PROVE  DOMAIN calls = 1..Len(calls) /\ Len(calls) \in Nat
  BY LenProperties

(* The innermost activation has another frame.                             *)
LEMMA TopOwns ==
  ASSUME CallsOK, calls # <<>>, NEW c \in Frames, calls' = WithTop(c),
         UNCHANGED <<safe_typecode, raw, result, abandoned>>
  PROVE  LET n == Len(calls)
         IN /\ \A f \in Fields :
                 /\ <<f, n>> \in AllSlots
                 /\ Owns[<<f, n>>] = FrameOwns(Top, f)
                 /\ Owns'[<<f, n>>] = FrameOwns(c, f)
            /\ \A a \in AllSlots \ {<<f, n>> : f \in Fields} :
                 Owns'[a] = Owns[a]
<1> DEFINE n == Len(calls)
<1>1. /\ n \in Nat /\ n > 0
      /\ calls \in Seq(Frames)
      /\ DOMAIN calls = 1..n
      /\ calls[n] = Top
  BY TopFacts, CallPositions DEF CallsOK, Top
<1>2. /\ calls' \in Seq(Frames)
      /\ Len(calls') = n
      /\ calls'[n] = c
      /\ \A k \in 1..n - 1 : calls'[k] = calls[k]
  BY <1>1, WithTopFacts
<1>3. DOMAIN calls' = 1..n
  BY <1>2, LenProperties
<1> HIDE DEF n
<1>4. n \in Positive /\ n \in DOMAIN calls /\ n \in DOMAIN calls'
  BY <1>1, <1>3 DEF Positive
<1>5. \A f \in Fields :
        /\ <<f, n>> \in AllSlots
        /\ Owns[<<f, n>>] = FrameOwns(Top, f)
        /\ Owns'[<<f, n>>] = FrameOwns(c, f)
  BY <1>1, <1>2, <1>4, OwnsAre, SlotCases
<1>6. \A i \in Positive \ {n}, f \in Fields : Owns'[<<f, i>>] = Owns[<<f, i>>]
  <2> SUFFICES ASSUME NEW i \in Positive \ {n}, NEW f \in Fields
               PROVE  Owns'[<<f, i>>] = Owns[<<f, i>>]
    OBVIOUS
  <2>1. CASE i \in 1..n - 1
    <3>1. i \in DOMAIN calls /\ i \in DOMAIN calls' /\ calls'[i] = calls[i]
      BY <1>1, <1>2, <1>3, <2>1
    <3> QED
      BY <3>1, OwnsAre
  <2>2. CASE i \notin 1..n
    BY <1>1, <1>3, <2>2, OwnsAre
  <2> QED
    BY <1>1, <2>1, <2>2 DEF Positive
<1>7. \A a \in AllSlots \ {<<f, n>> : f \in Fields} : Owns'[a] = Owns[a]
  <2> SUFFICES ASSUME NEW a \in AllSlots, a \notin {<<f, n>> : f \in Fields}
               PROVE  Owns'[a] = Owns[a]
    OBVIOUS
  <2>1. CASE \E f \in Fields, i \in Positive : a = <<f, i>>
    BY <1>6, <2>1
  <2>2. CASE ~\E f \in Fields, i \in Positive : a = <<f, i>>
    BY <2>2, SlotCases, OwnsAre
  <2> QED
    BY <2>1, <2>2
<1> QED
  BY <1>5, <1>7 DEF n

(* Where the caller of the innermost activation puts what it returns.      *)
Destination ==
  LET n == Len(calls)
      c == calls[n - 1]
  IN IF n = 1 THEN <<"result", 0>>
     ELSE IF HasFirst(c.type) /\ c.done = 0 THEN <<"first", n - 1>>
     ELSE <<"inner", n - 1>>

(* The innermost activation is gone, and its caller has s.                 *)
LEMMA ReturnOwns ==
  ASSUME CallsOK, calls # <<>>, NEW s, Fits(s, Top.type) \/ s \in Made,
         Returns(s), UNCHANGED <<safe_typecode, raw, abandoned>>
  PROVE  LET n == Len(calls)
         IN /\ \A f \in Fields :
                 /\ <<f, n>> \in AllSlots
                 /\ Destination # <<f, n>>
                 /\ Owns[<<f, n>>] = FrameOwns(Top, f)
                 /\ Owns'[<<f, n>>] = {}
            /\ Destination \in AllSlots
            /\ Owns[Destination] = {}
            /\ Owns'[Destination] = Owned(s)
            /\ \A a \in AllSlots \ ({<<f, n>> : f \in Fields} \cup {Destination}) :
                 Owns'[a] = Owns[a]
<1> DEFINE n == Len(calls)
<1>1. /\ n \in Nat /\ n > 0
      /\ calls \in Seq(Frames)
      /\ DOMAIN calls = 1..n
      /\ calls[n] = Top
      /\ Below \in Seq(Frames)
      /\ Len(Below) = n - 1
      /\ \A k \in 1..n - 1 : Below[k] = calls[k]
  BY TopFacts, CallPositions DEF CallsOK, Top
<1>2. s \in Made
  BY NoneFacts
<1>3. n \in Positive /\ n \in DOMAIN calls
  BY <1>1 DEF Positive
<1>4. \A f \in Fields :
        <<f, n>> \in AllSlots /\ Owns[<<f, n>>] = FrameOwns(Top, f)
  <2> HIDE DEF n
  <2> QED
    BY <1>1, <1>3, OwnsAre, SlotCases
<1>5. CASE n = 1
  <2>1. calls' = <<>> /\ result' = s /\ Destination = <<"result", 0>>
    BY <1>5 DEF Returns, Destination
  <2>2. DOMAIN calls' = {}
    BY <2>1
  <2>3. result = None
    BY DEF CallsOK
  <2>4. Owns[Destination] = {} /\ Owns'[Destination] = Owned(s)
        /\ Destination \in AllSlots
    BY <2>1, <2>3, OwnsAre, NoneFacts, SlotCases
  <2>5. \A f \in Fields, i \in Positive : Owns'[<<f, i>>] = {}
    BY <2>2, OwnsAre
  <2>6. \A f \in Fields, i \in Positive \ {1} : Owns[<<f, i>>] = {}
    <3>1. \A i \in Positive \ {1} : i \notin DOMAIN calls
      BY <1>1, <1>5 DEF Positive
    <3> QED
      BY <3>1, OwnsAre
  <2>7. \A f \in Fields : Destination # <<f, n>>
    BY <2>1 DEF Fields
  <2> HIDE DEF n
  <2>8. \A a \in AllSlots \ ({<<f, n>> : f \in Fields} \cup {Destination}) :
          Owns'[a] = Owns[a]
    <3> SUFFICES ASSUME NEW a \in AllSlots, a # Destination,
                        a \notin {<<f, n>> : f \in Fields}
                 PROVE  Owns'[a] = Owns[a]
      OBVIOUS
    <3>1. CASE \E f \in Fields, i \in Positive : a = <<f, i>>
      BY <1>5, <2>5, <2>6, <3>1
    <3>2. CASE ~\E f \in Fields, i \in Positive : a = <<f, i>>
      BY <2>1, <3>2, SlotCases, OwnsAre
    <3> QED
      BY <3>1, <3>2
  <2> QED
    BY <1>3, <1>4, <2>4, <2>5, <2>7, <2>8 DEF n
<1>6. CASE n # 1
  <2> DEFINE c == calls[n - 1]
             d == Deliver(c, s)
  <2>1. n - 1 \in Positive /\ n - 1 \in 1..n - 1 /\ n - 1 \in DOMAIN calls
    BY <1>1, <1>6 DEF Positive
  <2>2. /\ calls' = [Below EXCEPT ![n - 1] = d]
        /\ result' = result
    <3>1. calls' = [Below EXCEPT ![n - 1] = Deliver(Below[n - 1], s)]
      BY <1>1, <1>6 DEF Returns
    <3> QED
      BY <1>1, <1>6, <2>1, <3>1 DEF Returns
  <2>3. FrameOK(c) /\ NeedsPart(c) /\ c \in Frames
    <3>1. n - 1 \in 1..Len(calls) - 1 /\ n - 1 \in 1..Len(calls)
      BY <1>1, <2>1
    <3> QED
      BY <3>1 DEF CallsOK, Waits, FrameOK
  <2>4. DOMAIN calls' = 1..n - 1
    <3>1. DOMAIN Below = 1..n - 1
      BY <1>1, LenProperties
    <3> QED
      BY <2>2, <3>1
  <2>5. /\ calls'[n - 1] = d
        /\ \A k \in 1..n - 1 : k # n - 1 => calls'[k] = calls[k]
    <3>1. DOMAIN Below = 1..n - 1
      BY <1>1, LenProperties
    <3> HIDE DEF d
    <3> QED
      BY <1>1, <2>1, <2>2, <3>1
  <2>6. /\ HasFirst(c.type) /\ c.done = 0 =>
             /\ \A f \in Fields \ {"first"} : FrameOwns(d, f) = FrameOwns(c, f)
             /\ FrameOwns(c, "first") = {} /\ FrameOwns(d, "first") = Owned(s)
        /\ ~(HasFirst(c.type) /\ c.done = 0) =>
             /\ \A f \in Fields \ {"inner"} : FrameOwns(d, f) = FrameOwns(c, f)
             /\ FrameOwns(c, "inner") = {} /\ FrameOwns(d, "inner") = Owned(s)
    <3>1. CASE HasFirst(c.type) /\ c.done = 0
      <4>1. d = [c EXCEPT !.first = s, !.done = 1]
        BY <3>1 DEF HasFirst, Deliver
      <4>2. d.first = s /\ d.own = c.own /\ d.inner = c.inner
            /\ d.cases = c.cases
        BY <2>3, <4>1 DEF Frames
      <4>3. Owned(c.first) = {}
        BY <2>3, <3>1, NoneFacts DEF FrameOK
      <4> HIDE DEF c, d
      <4> QED
        BY <3>1, <4>2, <4>3 DEF FrameOwns, Fields, CasesHold
    <3>2. CASE ~(HasFirst(c.type) /\ c.done = 0)
      <4>1. d = [c EXCEPT !.inner = s]
        BY <3>2 DEF HasFirst, Deliver
      <4>2. d.first = c.first /\ d.own = c.own /\ d.inner = s
            /\ d.cases = c.cases
        BY <2>3, <4>1 DEF Frames
      <4>3. Owned(c.inner) = {}
        BY <2>3, NoneFacts DEF NeedsPart
      <4> HIDE DEF c, d
      <4> QED
        BY <3>2, <4>2, <4>3 DEF FrameOwns, Fields, CasesHold
    <3> QED
      BY <3>1, <3>2
  <2>7. Destination = IF HasFirst(c.type) /\ c.done = 0 THEN <<"first", n - 1>>
                      ELSE <<"inner", n - 1>>
    BY <1>6 DEF Destination
  <2> HIDE DEF c, d
  <2>8. \A f \in Fields :
          /\ Owns[<<f, n - 1>>] = FrameOwns(c, f)
          /\ Owns'[<<f, n - 1>>] = FrameOwns(d, f)
    <3> HIDE DEF n
    <3> QED
      BY <2>1, <2>4, <2>5, OwnsAre DEF c
  <2>9. /\ Destination \in AllSlots
        /\ Owns[Destination] = {}
        /\ Owns'[Destination] = Owned(s)
        /\ \A f \in Fields : Destination # <<f, n>>
    <3>1. "first" \in Fields /\ "inner" \in Fields
      BY DEF Fields
    <3> HIDE DEF n
    <3> QED
      BY <1>1, <2>1, <2>6, <2>7, <2>8, <3>1, SlotCases
  <2>10. \A f \in Fields : Owns'[<<f, n>>] = {}
    <3>1. n \notin DOMAIN calls'
      BY <1>1, <2>4
    <3> HIDE DEF n
    <3> QED
      BY <1>3, <3>1, OwnsAre
  <2>11. \A a \in AllSlots \ ({<<f, n>> : f \in Fields} \cup {Destination}) :
           Owns'[a] = Owns[a]
    <3> HIDE DEF n
    <3> SUFFICES ASSUME NEW a \in AllSlots, a # Destination,
                        a \notin {<<f, n>> : f \in Fields}
                 PROVE  Owns'[a] = Owns[a]
      OBVIOUS
    <3>1. ASSUME NEW f \in Fields, NEW i \in Positive, a = <<f, i>>
          PROVE  Owns'[a] = Owns[a]
      <4>1. CASE i = n - 1
        BY <2>6, <2>7, <2>8, <3>1, <4>1
      <4>2. CASE i \in 1..n - 1 /\ i # n - 1
        <5>1. i \in DOMAIN calls /\ i \in DOMAIN calls' /\ calls'[i] = calls[i]
          BY <1>1, <2>4, <2>5, <4>2
        <5> QED
          BY <3>1, <5>1, OwnsAre
      <4>3. CASE i \notin 1..n
        BY <1>1, <2>4, <3>1, <4>3, OwnsAre
      <4>4. i # n
        BY <3>1
      <4> QED
        BY <1>1, <4>1, <4>2, <4>3, <4>4 DEF Positive
    <3>2. CASE ~\E f \in Fields, i \in Positive : a = <<f, i>>
      BY <2>2, <3>2, SlotCases, OwnsAre
    <3> QED
      BY <3>1, <3>2
  <2> QED
    BY <1>4, <2>9, <2>10, <2>11
<1> QED
  BY <1>5, <1>6

(* The slots of the innermost activation.                                  *)
TopSlots == {<<f, Len(calls)>> : f \in Fields}

(* Together they own the locals and the cases.                             *)
LEMMA TopSlotsHold ==
  ASSUME \A f \in Fields : Owns[<<f, Len(calls)>>] = FrameOwns(Top, f)
  PROVE  \A tc : (\E a \in TopSlots : tc \in Owns[a]) <=>
                 tc \in LocalsOwn(Top) \cup CasesHold(Top)
<1> DEFINE n == Len(calls)
<1>1. /\ Owns[<<"first", n>>] = Owned(Top.first)
      /\ Owns[<<"own", n>>] = Owned(Top.own)
      /\ Owns[<<"inner", n>>] = Owned(Top.inner)
      /\ Owns[<<"cases", n>>] = CasesHold(Top)
  BY DEF Fields, FrameOwns
<1>2. TopSlots = {<<"first", n>>, <<"own", n>>, <<"inner", n>>, <<"cases", n>>}
  BY DEF TopSlots, Fields
<1> HIDE DEF n
<1> QED
  BY <1>1, <1>2 DEF LocalsOwn

(* The innermost activation gives up what its slots hold, but for X, which *)
(* its caller has.                                                         *)
LEMMA ReturnExchange ==
  ASSUME CallsOK, calls # <<>>, OwnersOK, NEW s \in Made, Returns(s),
         UNCHANGED <<safe_typecode, raw, abandoned>>,
         Owned(s) \cap (typecodes \ (LocalsOwn(Top) \cup CasesHold(Top))) = {}
  PROVE  Exact((typecodes \ (LocalsOwn(Top) \cup CasesHold(Top))) \cup Owned(s),
               Owns')
<1> DEFINE n == Len(calls)
           S == TopSlots \cup {Destination}
           G == LocalsOwn(Top) \cup CasesHold(Top)
<1>1. /\ \A f \in Fields :
           /\ <<f, n>> \in AllSlots
           /\ Destination # <<f, n>>
           /\ Owns[<<f, n>>] = FrameOwns(Top, f)
           /\ Owns'[<<f, n>>] = {}
      /\ Destination \in AllSlots
      /\ Owns[Destination] = {}
      /\ Owns'[Destination] = Owned(s)
      /\ \A a \in AllSlots \ ({<<f, n>> : f \in Fields} \cup {Destination}) :
           Owns'[a] = Owns[a]
  BY ReturnOwns
<1>2. S \in SUBSET AllSlots /\ Destination \in S
  BY <1>1 DEF TopSlots
<1>3. \A tc : tc \in G <=> \E a \in S : tc \in Owns[a]
  BY <1>1, TopSlotsHold
<1>4. /\ \A a \in AllSlots \ S : Owns'[a] = Owns[a]
      /\ \A a \in S \ {Destination} : Owns'[a] = {}
  BY <1>1 DEF TopSlots
<1>5. Exact(typecodes, Owns)
  BY DEF OwnersOK
<1> HIDE DEF S, G
<1>6. Owned(s) \cap (typecodes \ G) = {}
  BY DEF G
<1>7. Owns'[Destination] = Owned(s)
  BY <1>1
<1>8. Exchanged(Owns, Owns', S, Destination, typecodes, G, Owned(s))
  BY <1>2, <1>3, <1>4, <1>6, <1>7 DEF Exchanged
<1>9. Exact((typecodes \ G) \cup Owned(s), Owns')
  BY <1>5, <1>8, Exchange
<1> QED
  BY <1>9 DEF G

(* Activations that are there already keep their cases.                    *)
LEMMA SameCases ==
  ASSUME DistinctCases, calls \in Seq(Frames), calls' \in Seq(Frames),
         \A i \in DOMAIN calls' :
           \/ calls'[i].cases = <<>>
           \/ i \in DOMAIN calls /\ calls'[i].cases = calls[i].cases
  PROVE  DistinctCases'
<1> SUFFICES ASSUME NEW c \in DOMAIN calls',
                    NEW i \in DOMAIN calls'[c].cases,
                    NEW j \in DOMAIN calls'[c].cases,
                    calls'[c].cases[i] = calls'[c].cases[j]
             PROVE  i = j \/ calls'[c].cases[i] = PrimitiveTC
  BY DEF DistinctCases
<1>1. CASE calls'[c].cases = <<>>
  BY <1>1
<1>2. CASE c \in DOMAIN calls /\ calls'[c].cases = calls[c].cases
  BY <1>2 DEF DistinctCases
<1> QED
  BY <1>1, <1>2

(* A return leaves the cases of the callers alone.                         *)
LEMMA ReturnKeepsCases ==
  ASSUME CallsOK, calls # <<>>, DistinctCases, NEW s \in Made, Returns(s),
         CallsOK'
  PROVE  DistinctCases'
<1> DEFINE n == Len(calls)
<1>1. /\ n \in Nat /\ n > 0
      /\ calls \in Seq(Frames)
      /\ DOMAIN calls = 1..n
      /\ Below \in Seq(Frames)
      /\ Len(Below) = n - 1
      /\ DOMAIN Below = 1..n - 1
      /\ \A k \in 1..n - 1 : Below[k] = calls[k]
  BY TopFacts, CallPositions, LenProperties DEF CallsOK
<1>2. CASE n = 1
  BY <1>1, <1>2, SameCases DEF Returns, CallsOK
<1>3. CASE n # 1
  <2> DEFINE d == Deliver(Below[n - 1], s)
  <2>1. calls' = [Below EXCEPT ![n - 1] = d]
    BY <1>1, <1>3 DEF Returns
  <2>2. n - 1 \in 1..n - 1 /\ Below[n - 1] \in Frames
    BY <1>1, <1>3, ElementOfSeq
  <2>3. d.cases = Below[n - 1].cases
    BY <2>2 DEF Deliver, Frames
  <2> HIDE DEF d
  <2>4. DOMAIN calls' = 1..n - 1
        /\ \A i \in 1..n - 1 : calls'[i].cases = Below[i].cases
    BY <1>1, <2>1, <2>2, <2>3
  <2>5. \A i \in DOMAIN calls' :
          i \in DOMAIN calls /\ calls'[i].cases = calls[i].cases
    BY <1>1, <2>4
  <2> QED
    BY <1>1, <2>5, SameCases DEF CallsOK
<1> QED
  BY <1>2, <1>3

(* A new typecode has an owner.                                            *)
LEMMA NewIsOwned ==
  ASSUME NEW tc \in Typecodes
  PROVE  Owned(FromNonConst(tc)) = {tc}
  BY TypecodeConstants DEF Owned, FromNonConst

(* The slots of an activation, and what the heap has of them.              *)
LEMMA TopIsOnHeap ==
  ASSUME CallsOK, calls # <<>>, OwnersOK
  PROVE  /\ LocalsOwn(Top) \subseteq typecodes
         /\ CasesHold(Top) \subseteq typecodes
         /\ Owned(Top.first) \cap Owned(Top.own) = {}
         /\ Owned(Top.inner) \cap CasesHold(Top) = {}
         /\ Owned(Top.first) \cap CasesHold(Top) = {}
<1> DEFINE n == Len(calls)
<1>1. n \in Positive /\ n \in DOMAIN calls /\ calls[n] = Top
  BY TopFacts, CallPositions DEF CallsOK, Top, Positive
<1> HIDE DEF n
<1>2. /\ Owns[<<"first", n>>] = Owned(Top.first)
      /\ Owns[<<"own", n>>] = Owned(Top.own)
      /\ Owns[<<"inner", n>>] = Owned(Top.inner)
      /\ Owns[<<"cases", n>>] = CasesHold(Top)
      /\ <<"first", n>> \in AllSlots /\ <<"own", n>> \in AllSlots
      /\ <<"inner", n>> \in AllSlots /\ <<"cases", n>> \in AllSlots
  <2>1. "first" \in Fields /\ "own" \in Fields /\ "inner" \in Fields
        /\ "cases" \in Fields
    BY DEF Fields
  <2> QED
    BY <1>1, <2>1, OwnsAre, SlotCases DEF FrameOwns
<1>3. /\ <<"first", n>> # <<"own", n>>
      /\ <<"inner", n>> # <<"cases", n>>
      /\ <<"first", n>> # <<"cases", n>>
  OBVIOUS
<1>4. Exact(typecodes, Owns)
  BY DEF OwnersOK
<1> QED
  BY <1>2, <1>3, <1>4 DEF Exact, LocalsOwn

(* The innermost activation gives up what its fields in F hold, G, but for *)
(* what it has in d then.                                                  *)
LEMMA TopExchange ==
  ASSUME CallsOK, calls # <<>>, OwnersOK, NEW c \in Frames,
         calls' = WithTop(c), UNCHANGED <<safe_typecode, raw, result, abandoned>>,
         NEW F \in SUBSET Fields, NEW d \in F, NEW G,
         \A tc : tc \in G <=> \E f \in F : tc \in FrameOwns(Top, f),
         FrameOwns(c, d) \cap (typecodes \ G) = {},
         \A f \in F \ {d} : FrameOwns(c, f) = {},
         \A f \in Fields \ F : FrameOwns(c, f) = FrameOwns(Top, f)
  PROVE  Exact((typecodes \ G) \cup FrameOwns(c, d), Owns')
<1> DEFINE n == Len(calls)
           S == {<<f, n>> : f \in F}
           X == FrameOwns(c, d)
<1>1. /\ \A f \in Fields :
           /\ <<f, n>> \in AllSlots
           /\ Owns[<<f, n>>] = FrameOwns(Top, f)
           /\ Owns'[<<f, n>>] = FrameOwns(c, f)
      /\ \A a \in AllSlots \ {<<f, n>> : f \in Fields} : Owns'[a] = Owns[a]
  BY TopOwns
<1> HIDE DEF n
<1>2. S \subseteq AllSlots /\ <<d, n>> \in S
  BY <1>1
<1>3. \A tc : tc \in G <=> \E a \in S : tc \in Owns[a]
  <2>1. \A tc : (\E a \in S : tc \in Owns[a]) <=>
               \E f \in F : tc \in Owns[<<f, n>>]
    OBVIOUS
  <2>2. \A f \in F : Owns[<<f, n>>] = FrameOwns(Top, f)
    BY <1>1
  <2> QED
    BY <2>1, <2>2
<1>4. \A a \in AllSlots \ S : Owns'[a] = Owns[a]
  BY <1>1
<1>5. \A a \in S \ {<<d, n>>} : Owns'[a] = {}
  BY <1>1
<1>6. Owns'[<<d, n>>] = X
  BY <1>1
<1>7. Exact(typecodes, Owns) /\ X \cap (typecodes \ G) = {}
  BY DEF OwnersOK
<1> HIDE DEF S, X
<1>8. Exchanged(Owns, Owns', S, <<d, n>>, typecodes, G, X)
  BY <1>2, <1>3, <1>4, <1>5, <1>6, <1>7 DEF Exchanged
<1>9. Exact((typecodes \ G) \cup X, Owns')
  BY <1>7, <1>8, Exchange
<1> QED
  BY <1>9 DEF X

(* A change of the innermost activation that leaves its cases alone.       *)
LEMMA TopKeepsCases ==
  ASSUME CallsOK, calls # <<>>, DistinctCases, NEW c \in Frames,
         calls' = WithTop(c), c.cases = Top.cases
  PROVE  DistinctCases'
<1> DEFINE n == Len(calls)
<1>1. /\ n \in Nat /\ n > 0
      /\ calls \in Seq(Frames)
      /\ DOMAIN calls = 1..n
      /\ calls[n] = Top
  BY TopFacts, CallPositions DEF CallsOK, Top
<1>2. /\ calls' \in Seq(Frames)
      /\ Len(calls') = n
      /\ calls'[n] = c
      /\ \A k \in 1..n - 1 : calls'[k] = calls[k]
  BY <1>1, WithTopFacts
<1>3. DOMAIN calls' = 1..n
  BY <1>2, LenProperties
<1> HIDE DEF n
<1>4. \A i \in DOMAIN calls' :
        i \in DOMAIN calls /\ calls'[i].cases = calls[i].cases
  BY <1>1, <1>2, <1>3
<1> QED
  BY <1>1, <1>2, <1>4, SameCases

(* A step after which every slot owns the same.                            *)
LEMMA SameOwns ==
  ASSUME OwnersOK, typecodes' = typecodes,
         \A a \in AllSlots : Owns'[a] = Owns[a], DistinctCases'
  PROVE  OwnersOK'
  BY DEF OwnersOK, Exact

-----------------------------------------------------------------------------
(* make_typecode.                                                          *)

(* A new activation owns nothing yet.                                      *)
LEMMA GetPartOwns ==
  ASSUME CallsOK, OwnersOK, CallsOK', GetPart, UNCHANGED <<safe_typecode, raw>>
  PROVE  OwnersOK'
<1> DEFINE n == Len(calls)
           c == Call(Parts[Top.type][Top.done + 1])
<1>1. /\ calls' = Append(calls, c)
      /\ UNCHANGED <<result, typecodes, abandoned>>
  BY DEF GetPart
<1>2. /\ c.first = None /\ c.own = None /\ c.inner = None /\ c.cases = <<>>
  BY DEF Call
<1> HIDE DEF c
<1>3. /\ calls \in Seq(Frames) /\ calls' \in Seq(Frames)
      /\ n \in Nat /\ DOMAIN calls = 1..n
  BY CallPositions DEF CallsOK
<1>4. /\ Len(calls') = n + 1
      /\ \A k \in 1..n : calls'[k] = calls[k]
      /\ calls'[n + 1] = c
  BY <1>1, <1>3, AppendProperties
<1>5. DOMAIN calls' = 1..n + 1
  BY <1>3, <1>4, LenProperties
<1>6. \A f : FrameOwns(c, f) = {}
  <2>1. CasesHold(c) = {}
    BY <1>2 DEF CasesHold
  <2> QED
    BY <1>2, <2>1, NoneFacts DEF FrameOwns
<1> HIDE DEF n
<1>7. ASSUME NEW f \in Fields, NEW i \in Positive
      PROVE  Owns'[<<f, i>>] = Owns[<<f, i>>]
  <2>1. CASE i \in 1..n
    <3>1. i \in DOMAIN calls /\ i \in DOMAIN calls' /\ calls'[i] = calls[i]
      BY <1>3, <1>4, <1>5, <2>1
    <3> QED
      BY <3>1, OwnsAre
  <2>2. CASE i = n + 1
    <3>1. i \notin DOMAIN calls /\ i \in DOMAIN calls' /\ calls'[i] = c
      BY <1>3, <1>4, <1>5, <2>2
    <3> QED
      BY <1>6, <3>1, OwnsAre
  <2>3. CASE i \notin 1..n + 1
    <3>1. i \notin DOMAIN calls /\ i \notin DOMAIN calls'
      BY <1>3, <1>5, <2>3
    <3> QED
      BY <3>1, OwnsAre
  <2> QED
    BY <1>3, <2>1, <2>2, <2>3 DEF Positive
<1>8. ASSUME NEW a \in AllSlots
      PROVE  Owns'[a] = Owns[a]
  <2>1. CASE \E f \in Fields, i \in Positive : a = <<f, i>>
    BY <1>7, <2>1
  <2>2. CASE ~\E f \in Fields, i \in Positive : a = <<f, i>>
    <3>1. UNCHANGED <<safe_typecode, result, raw, abandoned>>
      BY <1>1
    <3> QED
      BY <2>2, <3>1, SlotCases, OwnsAre
  <2> QED
    BY <2>1, <2>2
<1>9. DistinctCases'
  <2>1. \A i \in DOMAIN calls' :
          \/ calls'[i].cases = <<>>
          \/ i \in DOMAIN calls /\ calls'[i].cases = calls[i].cases
    BY <1>2, <1>3, <1>4, <1>5
  <2> QED
    BY <1>3, <2>1, SameCases DEF OwnersOK
<1> QED
  BY <1>1, <1>8, <1>9, SameOwns

(* The locals are destroyed, the caller owns the new typecode.             *)
LEMMA ReturnNewOwns ==
  ASSUME CallsOK, OwnersOK, CallsOK', calls # <<>>,
         Kind[Top.type] # "union", NEW s, s = FromConst(PrimitiveTC) \/ s = FromNonConst(New),
         ReturnNew(s), UNCHANGED <<safe_typecode, raw>>
  PROVE  OwnersOK'
<1> DEFINE G == LocalsOwn(Top)
<1>1. /\ Returns(s)
      /\ s.is_shared_ \/ HasRoom
      /\ typecodes' = (typecodes \cup Owned(s)) \ G
      /\ abandoned' = abandoned
  BY DEF ReturnNew, Delete
<1>2. s \in Made /\ Owned(s) \cap typecodes = {}
  <2>1. CASE s = FromConst(PrimitiveTC)
    BY <2>1 DEF Made, FromConst, Owned
  <2>2. CASE s = FromNonConst(New)
    <3>1. HasRoom
      BY <1>1, <2>2 DEF FromNonConst
    <3> QED
      BY <2>2, <3>1, NewIsNew, NewIsOwned DEF Made
  <2> QED
    BY <2>1, <2>2
<1>3. CasesHold(Top) = {}
  <2>1. Top.cases = <<>>
    BY TopIsOK DEF FrameOK
  <2> QED
    BY <2>1 DEF CasesHold
<1>4. G \subseteq typecodes
  BY TopIsOnHeap
<1> HIDE DEF G
<1>5. Exact((typecodes \ G) \cup Owned(s), Owns')
  BY <1>1, <1>2, <1>3, ReturnExchange DEF G
<1>6. typecodes' = (typecodes \ G) \cup Owned(s)
  BY <1>1, <1>2, <1>4
<1>7. DistinctCases'
  BY <1>1, <1>2, ReturnKeepsCases DEF OwnersOK
<1> QED
  BY <1>5, <1>6, <1>7 DEF OwnersOK

(* A new typecode goes to the local that had none.                         *)
LEMMA CreateOwnOwns ==
  ASSUME CallsOK, OwnersOK, calls # <<>>, CreateOwn,
         UNCHANGED <<safe_typecode, raw>>
  PROVE  OwnersOK'
<1> DEFINE c == [Top EXCEPT !.own = FromNonConst(New)]
<1>1. /\ Top.own = None
      /\ New \in Typecodes \ typecodes
      /\ FromNonConst(New) \in Made
      /\ Owned(FromNonConst(New)) = {New}
      /\ typecodes' = typecodes \cup {New}
      /\ calls' = WithTop(c)
      /\ UNCHANGED <<result, abandoned>>
  BY NewIsNew, NewIsOwned DEF CreateOwn, Made
<1>2. Top \in Frames
  BY TopIsOK
<1>3. /\ c \in Frames
      /\ c.first = Top.first
      /\ c.own = FromNonConst(New)
      /\ c.inner = Top.inner
      /\ c.cases = Top.cases
  BY <1>1, <1>2 DEF Frames
<1> HIDE DEF c
<1>4. /\ FrameOwns(Top, "own") = {}
      /\ FrameOwns(c, "own") = {New}
      /\ \A f \in Fields \ {"own"} : FrameOwns(c, f) = FrameOwns(Top, f)
  BY <1>1, <1>3, NoneFacts DEF FrameOwns, CasesHold
<1>5. Exact((typecodes \ {}) \cup FrameOwns(c, "own"), Owns')
  <2>1. {"own"} \in SUBSET Fields /\ "own" \in {"own"}
    BY DEF Fields
  <2>2. \A tc : tc \in {} <=> \E f \in {"own"} : tc \in FrameOwns(Top, f)
    BY <1>4
  <2>3. \A f \in {"own"} \ {"own"} : FrameOwns(c, f) = {}
    OBVIOUS
  <2>4. FrameOwns(c, "own") \cap (typecodes \ {}) = {}
    BY <1>1, <1>4
  <2> QED
    BY <1>1, <1>3, <1>4, <2>1, <2>2, <2>3, <2>4, TopExchange
<1>6. typecodes' = (typecodes \ {}) \cup FrameOwns(c, "own")
  BY <1>1, <1>4
<1>7. DistinctCases'
  BY <1>1, <1>3, TopKeepsCases DEF OwnersOK
<1> QED
  BY <1>5, <1>6, <1>7 DEF OwnersOK

(* The typecode of the member is deleted: the factory has copied it.       *)
LEMMA AddMemberOwns ==
  ASSUME CallsOK, OwnersOK, AddMember, UNCHANGED <<safe_typecode, raw>>
  PROVE  OwnersOK'
<1> DEFINE c == [Top EXCEPT !.inner = None, !.done = Top.done + 1]
           G == Owned(Top.inner)
<1>1. /\ calls # <<>>
      /\ calls' = WithTop(c)
      /\ typecodes' = typecodes \ G
      /\ UNCHANGED <<result, abandoned>>
  BY DEF AddMember, Running, Delete
<1>2. Top \in Frames
  BY <1>1, TopIsOK
<1>3. /\ c \in Frames
      /\ c.first = Top.first
      /\ c.own = Top.own
      /\ c.inner = None
      /\ c.cases = Top.cases
  <2>1. Top.done + 1 \in Nat
    BY <1>2 DEF Frames
  <2> QED
    BY <1>2, <2>1 DEF Frames
<1> HIDE DEF c
<1>4. /\ FrameOwns(Top, "inner") = G
      /\ FrameOwns(c, "inner") = {}
      /\ \A f \in Fields \ {"inner"} : FrameOwns(c, f) = FrameOwns(Top, f)
  BY <1>3, NoneFacts DEF FrameOwns, CasesHold
<1> HIDE DEF G
<1>5. Exact((typecodes \ G) \cup FrameOwns(c, "inner"), Owns')
  <2>1. {"inner"} \in SUBSET Fields /\ "inner" \in {"inner"}
    BY DEF Fields
  <2>2. \A tc : tc \in G <=> \E f \in {"inner"} : tc \in FrameOwns(Top, f)
    BY <1>4
  <2>3. \A f \in {"inner"} \ {"inner"} : FrameOwns(c, f) = {}
    OBVIOUS
  <2>4. FrameOwns(c, "inner") \cap (typecodes \ G) = {}
    BY <1>4
  <2> QED
    BY <1>1, <1>3, <1>4, <2>1, <2>2, <2>3, <2>4, TopExchange
<1>6. typecodes' = (typecodes \ G) \cup FrameOwns(c, "inner")
  BY <1>1, <1>4
<1>7. DistinctCases'
  BY <1>1, <1>3, TopKeepsCases DEF OwnersOK
<1> QED
  BY <1>5, <1>6, <1>7 DEF OwnersOK

(* The local becomes the result, that of the base is destroyed.            *)
LEMMA ReturnAggregateOwns ==
  ASSUME CallsOK, OwnersOK, CallsOK', ReturnAggregate,
         UNCHANGED <<safe_typecode, raw>>
  PROVE  OwnersOK'
<1> DEFINE G == LocalsOwn(Top)
           s == Top.own
<1>1. /\ calls # <<>>
      /\ Kind[Top.type] # "union"
      /\ Returns(s)
      /\ s # None
      /\ Top.inner = None
      /\ typecodes' = typecodes \ Owned(Top.first)
      /\ abandoned' = abandoned
  BY DEF ReturnAggregate, Running, Delete, Aggregates
<1>2. FrameOK(Top)
  BY <1>1, TopIsOK
<1>3. s \in Made
  BY <1>1, <1>2, NoneFacts DEF FrameOK
<1>4. CasesHold(Top) = {}
  <2>1. Top.cases = <<>>
    BY <1>1, <1>2 DEF FrameOK
  <2> QED
    BY <2>1 DEF CasesHold
<1>5. /\ G \subseteq typecodes
      /\ Owned(Top.first) \cap Owned(s) = {}
      /\ G = Owned(Top.first) \cup Owned(s)
  BY <1>1, TopIsOnHeap, NoneFacts DEF LocalsOwn
<1> HIDE DEF G, s
<1>6. Exact((typecodes \ G) \cup Owned(s), Owns')
  <2>1. Owned(s) \cap (typecodes \ G) = {}
    BY <1>5
  <2> QED
    BY <1>1, <1>3, <1>4, <2>1, ReturnExchange DEF G
<1>7. typecodes' = (typecodes \ G) \cup Owned(s)
  BY <1>1, <1>5
<1>8. DistinctCases'
  BY <1>1, <1>3, ReturnKeepsCases DEF OwnersOK
<1> QED
  BY <1>6, <1>7, <1>8 DEF OwnersOK

(* The typecodes delete_typecodes deletes, but for the factory's, are      *)
(* those of the cases.                                                     *)
LEMMA CasesAreDeleted ==
  ASSUME NEW c, FrameOK(c)
  PROVE  CasesToDelete(c) \ {PrimitiveTC} = CasesHold(c)
<1>1. c.cases \in Seq(Typecodes \cup {PrimitiveTC})
  BY DEF FrameOK, Frames
<1>2. DOMAIN c.cases = 1..Len(c.cases)
  BY <1>1, LenProperties
<1>3. \A j \in DOMAIN c.cases :
        Kind[Parts[c.type][j + 1]] = "primitive" => c.cases[j] = PrimitiveTC
  BY <1>2 DEF FrameOK, Static
<1> QED
  BY <1>3 DEF CasesToDelete, CasesHold

(* Every typecode of a case is deleted, once.                              *)
LEMMA CreateUnionOwns ==
  ASSUME CallsOK, OwnersOK, CallsOK', CreateUnion,
         UNCHANGED <<safe_typecode, raw>>
  PROVE  OwnersOK'
<1> DEFINE G == LocalsOwn(Top) \cup CasesHold(Top)
           s == FromNonConst(New)
<1>1. /\ calls # <<>>
      /\ Kind[Top.type] = "union"
      /\ Returns(s)
      /\ Top.inner = None
      /\ HasRoom
      /\ typecodes' = (typecodes \cup {New}) \ ((CasesToDelete(Top) \ {PrimitiveTC})
                                                 \cup Owned(Top.first))
      /\ abandoned' = abandoned
  BY DEF CreateUnion, Running, Delete
<1>2. FrameOK(Top)
  BY <1>1, TopIsOK
<1>3. /\ s \in Made
      /\ Owned(s) = {New}
      /\ New \notin typecodes
  BY <1>1, NewIsNew, NewIsOwned DEF Made
<1>4. Top.own = None
  BY <1>1, <1>2 DEF FrameOK, Aggregates
<1>5. /\ G \subseteq typecodes
      /\ G = Owned(Top.first) \cup CasesHold(Top)
  BY <1>1, <1>4, TopIsOnHeap, NoneFacts DEF LocalsOwn
<1>6. typecodes' = (typecodes \cup {New}) \ G
  BY <1>1, <1>2, <1>5, CasesAreDeleted
<1> HIDE DEF G, s
<1>7. Exact((typecodes \ G) \cup Owned(s), Owns')
  <2>1. Owned(s) \cap (typecodes \ G) = {}
    BY <1>3
  <2> QED
    BY <1>1, <1>3, <2>1, ReturnExchange DEF G
<1>8. typecodes' = (typecodes \ G) \cup Owned(s)
  BY <1>3, <1>5, <1>6
<1>9. DistinctCases'
  BY <1>1, <1>3, ReturnKeepsCases DEF OwnersOK
<1> QED
  BY <1>7, <1>8, <1>9 DEF OwnersOK

(* release: what the local owned is now in a union member.                 *)
LEMMA AddCaseOwns ==
  ASSUME CallsOK, OwnersOK, AddCase, UNCHANGED <<safe_typecode, raw>>
  PROVE  OwnersOK'
<1> DEFINE tc == Top.inner.typecode_
           new == Append(Top.cases, tc)
           m == Len(Top.cases)
           c == [Top EXCEPT !.inner = None, !.done = Top.done + 1,
                            !.cases = new]
           G == Owned(Top.inner) \cup CasesHold(Top)
<1>1. calls # <<>> /\ Top.inner # None
  BY DEF AddCase, Running
<1>2. FrameOK(Top) /\ Top \in Frames
  BY <1>1, TopIsOK
<1>3. /\ Top.inner \in Made
      /\ tc \in Typecodes => Owned(Top.inner) = {tc}
      /\ tc \notin Typecodes => Owned(Top.inner) = {} /\ tc = PrimitiveTC
  <2>1. Top.inner \in Made
    BY <1>1, <1>2, NoneFacts DEF FrameOK
  <2>2. tc \in Typecodes \cup {PrimitiveTC}
    BY <2>1 DEF Made, FromConst, FromNonConst
  <2> QED
    BY <2>1, <2>2, OwnedFacts
<1>4. Released(Top.inner).typecode_ = tc /\ Owned(Released(Top.inner)) = {}
  BY <1>3 DEF Released, Made, FromConst, FromNonConst, Owned
<1>5. /\ calls' = WithTop(c)
      /\ typecodes' = typecodes
      /\ UNCHANGED <<result, abandoned>>
  BY <1>4 DEF AddCase, Delete
<1>6. /\ new \in Seq(Typecodes \cup {PrimitiveTC})
      /\ m \in Nat
      /\ DOMAIN Top.cases = 1..m
      /\ DOMAIN new = 1..m + 1
      /\ \A j \in 1..m : new[j] = Top.cases[j]
      /\ new[m + 1] = tc
  <2>1. Top.cases \in Seq(Typecodes \cup {PrimitiveTC})
        /\ tc \in Typecodes \cup {PrimitiveTC}
    BY <1>2, <1>3 DEF Frames
  <2>2. new \in Seq(Typecodes \cup {PrimitiveTC}) /\ Len(new) = m + 1
        /\ \A j \in 1..m : new[j] = Top.cases[j]
        /\ new[m + 1] = tc
    BY <2>1, AppendProperties
  <2> QED
    BY <2>1, <2>2, LenProperties
<1> HIDE DEF tc, new, m
<1>7. /\ c \in Frames
      /\ c.first = Top.first
      /\ c.own = Top.own
      /\ c.inner = None
      /\ c.cases = new
  BY <1>2, <1>6, NextPart
<1> HIDE DEF c
<1>8. CasesHold(c) = G
  <2>1. \A x : x \in CasesHold(c) <=>
               x # PrimitiveTC /\ \E j \in 1..m + 1 : x = new[j]
    BY <1>6, <1>7 DEF CasesHold
  <2>2. \A x : (\E j \in 1..m + 1 : x = new[j]) <=>
               x = tc \/ \E j \in 1..m : x = Top.cases[j]
    BY <1>6
  <2>3. \A x : x \in CasesHold(Top) <=>
               x # PrimitiveTC /\ \E j \in 1..m : x = Top.cases[j]
    BY <1>6 DEF CasesHold
  <2>4. \A x : x \in Owned(Top.inner) <=> x = tc /\ x # PrimitiveTC
    BY <1>3, TypecodeConstants
  <2> QED
    BY <2>1, <2>2, <2>3, <2>4
<1>9. /\ FrameOwns(Top, "inner") = Owned(Top.inner)
      /\ FrameOwns(c, "inner") = {}
      /\ FrameOwns(Top, "cases") = CasesHold(Top)
      /\ FrameOwns(c, "cases") = G
      /\ \A f \in Fields \ {"inner", "cases"} : FrameOwns(c, f) = FrameOwns(Top, f)
  BY <1>7, <1>8, NoneFacts DEF FrameOwns, Fields
<1>10. G \subseteq typecodes /\ Owned(Top.inner) \cap CasesHold(Top) = {}
  BY <1>1, TopIsOnHeap DEF LocalsOwn
<1>11. \A x : x \in G <=> \E f \in {"inner", "cases"} : x \in FrameOwns(Top, f)
  BY <1>9
<1> HIDE DEF G
<1>12. Exact((typecodes \ G) \cup FrameOwns(c, "cases"), Owns')
  <2>1. {"inner", "cases"} \in SUBSET Fields /\ "cases" \in {"inner", "cases"}
    BY DEF Fields
  <2>2. \A f \in {"inner", "cases"} \ {"cases"} : FrameOwns(c, f) = {}
    BY <1>9
  <2>3. FrameOwns(c, "cases") \cap (typecodes \ G) = {}
    BY <1>9
  <2> QED
    BY <1>1, <1>5, <1>7, <1>9, <1>11, <2>1, <2>2, <2>3, TopExchange
<1>13. typecodes' = (typecodes \ G) \cup FrameOwns(c, "cases")
  BY <1>5, <1>9, <1>10
<1>14. DistinctCases'
  <2> DEFINE n == Len(calls)
  <2>1. /\ n \in Nat /\ n > 0
        /\ calls \in Seq(Frames)
        /\ DOMAIN calls = 1..n
        /\ calls[n] = Top
    BY <1>1, TopFacts, CallPositions DEF CallsOK, Top
  <2>2. /\ calls' \in Seq(Frames)
        /\ Len(calls') = n
        /\ calls'[n] = c
        /\ \A k \in 1..n - 1 : calls'[k] = calls[k]
    BY <1>1, <1>5, <1>7, <2>1, WithTopFacts
  <2>3. DOMAIN calls' = 1..n
    BY <2>2, LenProperties
  <2> HIDE DEF n
  <2> SUFFICES ASSUME NEW k \in 1..n,
                      NEW i \in DOMAIN calls'[k].cases,
                      NEW j \in DOMAIN calls'[k].cases,
                      calls'[k].cases[i] = calls'[k].cases[j]
               PROVE  i = j \/ calls'[k].cases[i] = PrimitiveTC
    BY <2>3 DEF DistinctCases
  <2>4. CASE k # n
    <3>1. k \in DOMAIN calls /\ calls'[k] = calls[k]
      BY <2>1, <2>2, <2>4
    <3> QED
      BY <3>1 DEF OwnersOK, DistinctCases
  <2>5. CASE k = n
    <3>1. i \in 1..m + 1 /\ j \in 1..m + 1 /\ new[i] = new[j]
          /\ calls'[k].cases[i] = new[i]
      BY <1>6, <1>7, <2>2, <2>5
    <3>2. \A x \in 1..m : new[x] = PrimitiveTC \/ new[x] \in CasesHold(Top)
      BY <1>6 DEF CasesHold
    <3>3. tc = PrimitiveTC \/ tc \notin CasesHold(Top)
      BY <1>3, <1>10
    <3>4. CASE i \in 1..m /\ j \in 1..m
      <4>1. n \in DOMAIN calls /\ i \in DOMAIN calls[n].cases
            /\ j \in DOMAIN calls[n].cases
            /\ calls[n].cases[i] = calls[n].cases[j]
            /\ calls[n].cases[i] = new[i]
        BY <1>6, <2>1, <3>1, <3>4
      <4> QED
        BY <3>1, <4>1 DEF OwnersOK, DistinctCases
    <3>5. CASE i = m + 1 \/ j = m + 1
      BY <1>6, <3>1, <3>2, <3>3, <3>5
    <3> QED
      BY <1>6, <3>1, <3>4, <3>5
  <2> QED
    BY <2>4, <2>5
<1> QED
  BY <1>12, <1>13, <1>14 DEF OwnersOK

(* The locals of all activations are destroyed, the cases of all unions    *)
(* left behind.                                                            *)
LEMMA ThrowOwns ==
  ASSUME CallsOK, OwnersOK, CallsOK', Throw, UNCHANGED <<safe_typecode, raw>>
  PROVE  OwnersOK'
<1> DEFINE L == UNION {LocalsOwn(calls[i]) : i \in DOMAIN calls}
           X == abandoned \cup UNION {CasesHold(calls[i]) : i \in DOMAIN calls}
           G == L \cup X
           F == {<<f, i>> : f \in Fields, i \in Positive}
           S == F \cup {<<"abandoned", 0>>}
<1>1. /\ typecodes' = typecodes \ L
      /\ abandoned' = X
      /\ calls' = <<>>
      /\ result' = result
  BY DEF Throw, Delete
<1>2. DOMAIN calls \subseteq Positive
  BY CallPositions DEF CallsOK, Positive
<1>3. ASSUME NEW i \in DOMAIN calls
      PROVE  /\ Owns[<<"first", i>>] = Owned(calls[i].first)
             /\ Owns[<<"own", i>>] = Owned(calls[i].own)
             /\ Owns[<<"inner", i>>] = Owned(calls[i].inner)
             /\ Owns[<<"cases", i>>] = CasesHold(calls[i])
             /\ i \in Positive
  <2>1. "first" \in Fields /\ "own" \in Fields /\ "inner" \in Fields
        /\ "cases" \in Fields
    BY DEF Fields
  <2>2. i \in Positive
    BY <1>2
  <2> QED
    BY <2>1, <2>2, OwnsAre DEF FrameOwns
<1>4. Owns[<<"abandoned", 0>>] = abandoned
  BY OwnsAre
<1>5. \A tc : tc \in L <=>
        \E i \in DOMAIN calls, f \in Fields \ {"cases"} : tc \in Owns[<<f, i>>]
  <2>1. \A tc : tc \in L <=> \E i \in DOMAIN calls : tc \in LocalsOwn(calls[i])
    OBVIOUS
  <2>2. ASSUME NEW i \in DOMAIN calls, NEW tc
        PROVE  tc \in LocalsOwn(calls[i]) <=>
                 \E f \in Fields \ {"cases"} : tc \in Owns[<<f, i>>]
    <3>1. tc \in LocalsOwn(calls[i]) <=>
            \/ tc \in Owns[<<"first", i>>]
            \/ tc \in Owns[<<"own", i>>]
            \/ tc \in Owns[<<"inner", i>>]
      BY <1>3 DEF LocalsOwn
    <3>2. \A f : f \in Fields \ {"cases"} <=>
                f = "first" \/ f = "own" \/ f = "inner"
      BY DEF Fields
    <3> QED
      BY <3>1, <3>2
  <2> HIDE DEF L
  <2> QED
    BY <2>1, <2>2
<1>6. \A tc : tc \in X <=>
        \/ tc \in Owns[<<"abandoned", 0>>]
        \/ \E i \in DOMAIN calls : tc \in Owns[<<"cases", i>>]
  <2>1. \A tc : tc \in X <=>
          \/ tc \in abandoned
          \/ \E i \in DOMAIN calls : tc \in CasesHold(calls[i])
    OBVIOUS
  <2> HIDE DEF X
  <2> QED
    BY <1>3, <1>4, <2>1
<1>7. \A f \in Fields, i \in Positive : i \notin DOMAIN calls => Owns[<<f, i>>] = {}
  BY OwnsAre
<1> HIDE DEF L, X
<1>8. \A tc : tc \in G <=> \E a \in S : tc \in Owns[a]
  <2>1. \A a : a \in S <=>
               a = <<"abandoned", 0>> \/ \E f \in Fields, i \in Positive : a = <<f, i>>
    OBVIOUS
  <2> HIDE DEF S, F
  <2>2. \A tc : (\E a \in S : tc \in Owns[a]) <=>
          \/ tc \in Owns[<<"abandoned", 0>>]
          \/ \E f \in Fields, i \in Positive : tc \in Owns[<<f, i>>]
    BY <2>1
  <2>3. \A tc : (\E f \in Fields, i \in Positive : tc \in Owns[<<f, i>>]) <=>
          \/ \E i \in DOMAIN calls, f \in Fields \ {"cases"} : tc \in Owns[<<f, i>>]
          \/ \E i \in DOMAIN calls : tc \in Owns[<<"cases", i>>]
    BY <1>2, <1>7 DEF Fields
  <2>4. \A tc : tc \in G <=> tc \in L \/ tc \in X
    OBVIOUS
  <2> HIDE DEF G
  <2> QED
    BY <1>5, <1>6, <2>2, <2>3, <2>4
<1>9. \A a \in AllSlots \ S : Owns'[a] = Owns[a]
  BY <1>1, SlotCases, OwnsAre
<1>10. /\ S \subseteq AllSlots
       /\ Owns'[<<"abandoned", 0>>] = X
       /\ \A a \in S \ {<<"abandoned", 0>>} : Owns'[a] = {}
  <2>1. DOMAIN calls' = {}
    BY <1>1
  <2>2. \A f \in Fields, i \in Positive : Owns'[<<f, i>>] = {}
    BY <2>1, OwnsAre
  <2> QED
    BY <1>1, <2>2, SlotCases, OwnsAre
<1>11. Exact(typecodes, Owns)
  BY DEF OwnersOK
<1>12. L \cap X = {} /\ G \subseteq typecodes
  <2>1. \A i \in DOMAIN calls, f \in Fields : <<f, i>> \in AllSlots
    BY <1>2, SlotCases
  <2>2. G \subseteq typecodes
    BY <1>5, <1>6, <1>11, <2>1, SlotCases DEF Exact, Fields
  <2>3. ASSUME NEW tc \in L, tc \in X
        PROVE  FALSE
    <3>1. PICK i \in DOMAIN calls, f \in Fields \ {"cases"} : tc \in Owns[<<f, i>>]
      BY <1>5
    <3>2. CASE tc \in Owns[<<"abandoned", 0>>]
      <4>1. <<f, i>> = <<"abandoned", 0>>
        BY <1>11, <2>1, <3>1, <3>2, SlotCases DEF Exact
      <4> QED
        BY <4>1 DEF Fields
    <3>3. CASE \E j \in DOMAIN calls : tc \in Owns[<<"cases", j>>]
      <4>1. PICK j \in DOMAIN calls : tc \in Owns[<<"cases", j>>]
        BY <3>3
      <4>2. <<f, i>> = <<"cases", j>>
        BY <1>11, <2>1, <3>1, <4>1 DEF Exact, Fields
      <4> QED
        BY <3>1, <4>2
    <3> QED
      BY <1>6, <2>3, <3>2, <3>3
  <2> QED
    BY <2>2, <2>3
<1> HIDE DEF S, F
<1>13. Exchanged(Owns, Owns', S, <<"abandoned", 0>>, typecodes, G, X)
  BY <1>8, <1>9, <1>10 DEF Exchanged, S
<1> HIDE DEF G
<1>14. Exact((typecodes \ G) \cup X, Owns')
  BY <1>11, <1>13, Exchange
<1>15. typecodes' = (typecodes \ G) \cup X
  BY <1>1, <1>12 DEF G
<1>16. DistinctCases'
  BY <1>1 DEF DistinctCases
<1> QED
  BY <1>14, <1>15, <1>16 DEF OwnersOK

(* A step of make_typecode.                                                *)
LEMMA MakeOwns ==
  ASSUME CallsOK, OwnersOK, CallsOK', NextMake, UNCHANGED <<safe_typecode, raw>>
  PROVE  OwnersOK'
<1>1. CASE GetPart
  BY <1>1, GetPartOwns
<1>2. CASE GetPrimitive
  BY <1>2, ReturnNewOwns DEF GetPrimitive, Running
<1>3. CASE GetString \/ GetEnum \/ GetSequence \/ GetRange \/ GetArray
  <2>1. /\ ReturnNew(FromNonConst(New))
        /\ calls # <<>>
        /\ Kind[Top.type] # "union"
    BY <1>3 DEF GetString, GetEnum, GetSequence, GetRange, GetArray, Running
  <2> QED
    BY <2>1, ReturnNewOwns
<1>4. CASE GetOptional \/ GetSmartPtr
  <2> DEFINE p == Parts[Top.type][1]
             s == CloneNonprimitive(p, Top.inner)
  <2>1. /\ ReturnNew(s)
        /\ calls # <<>>
        /\ Kind[Top.type] \in {"optional", "smart_ptr"}
        /\ Top.inner # None
    BY <1>4 DEF GetOptional, GetSmartPtr, Running
  <2>2. FrameOK(Top) /\ Top \in Frames /\ Top.type \in Types
    BY <2>1, TopIsOK DEF Frames
  <2>3. Fits(Top.inner, p)
    <3>1. Len(Parts[Top.type]) = 1
      BY <2>1, <2>2, TypesAreAdapted DEF Wrappers
    <3>2. Top.done \in Nat /\ Top.done < 1
      BY <2>1, <2>2, <3>1 DEF FrameOK, Frames
    <3>3. Top.done = 0
      BY <3>2
    <3> QED
      BY <2>1, <2>2, <3>1, <3>3 DEF FrameOK
  <2>4. s = FromConst(PrimitiveTC) \/ s = FromNonConst(New)
    <3>1. Kind[p] = "primitive" => Top.inner = FromConst(PrimitiveTC)
      BY <2>3 DEF Fits, Static
    <3>2. FromConst(PrimitiveTC).typecode_ = PrimitiveTC
      BY DEF FromConst
    <3> HIDE DEF p
    <3> QED
      BY <3>1, <3>2 DEF CloneNonprimitive
  <2> QED
    BY <2>1, <2>4, ReturnNewOwns
<1>5. CASE CreateStruct \/ CreateSparse \/ CreateValue
  BY <1>5, CreateOwnOwns DEF CreateStruct, CreateSparse, CreateValue, Running
<1>6. CASE AddMember
  BY <1>6, AddMemberOwns
<1>7. CASE ReturnAggregate
  BY <1>7, ReturnAggregateOwns
<1>8. CASE AddCase
  BY <1>8, AddCaseOwns
<1>9. CASE CreateUnion
  BY <1>9, CreateUnionOwns
<1>10. CASE Throw
  BY <1>10, ThrowOwns
<1> QED
  BY <1>1, <1>2, <1>3, <1>4, <1>5, <1>6, <1>7, <1>8, <1>9, <1>10 DEF NextMake

(* make_typecode is called: its activation holds nothing yet.              *)
LEMMA BeginOwns ==
  ASSUME OwnersOK, BeginConstruct
  PROVE  OwnersOK'
<1> DEFINE c == Call(root)
<1>1. /\ calls = <<>>
      /\ calls' = <<c>>
      /\ UNCHANGED <<result, typecodes, abandoned, safe_typecode, raw>>
  BY DEF BeginConstruct, StartMaking, objects
<1>2. c.first = None /\ c.own = None /\ c.inner = None /\ c.cases = <<>>
  BY DEF Call
<1> HIDE DEF c
<1>3. \A f : FrameOwns(c, f) = {}
  <2>1. CasesHold(c) = {}
    BY <1>2 DEF CasesHold
  <2> QED
    BY <1>2, <2>1, NoneFacts DEF FrameOwns
<1>4. DOMAIN calls = {} /\ DOMAIN calls' = {1} /\ calls'[1] = c
  BY <1>1
<1>5. \A f \in Fields, i \in Positive : Owns'[<<f, i>>] = Owns[<<f, i>>]
  <2> SUFFICES ASSUME NEW f \in Fields, NEW i \in Positive
               PROVE  Owns'[<<f, i>>] = Owns[<<f, i>>]
    OBVIOUS
  <2>1. Owns[<<f, i>>] = {}
    BY <1>4, OwnsAre
  <2>2. CASE i = 1
    <3>1. i \in DOMAIN calls' /\ calls'[i] = c
      BY <1>4, <2>2
    <3> QED
      BY <1>3, <2>1, <3>1, OwnsAre
  <2>3. CASE i # 1
    <3>1. i \notin DOMAIN calls'
      BY <1>4, <2>3
    <3> QED
      BY <2>1, <3>1, OwnsAre
  <2> QED
    BY <2>2, <2>3
<1>6. ASSUME NEW a \in AllSlots
      PROVE  Owns'[a] = Owns[a]
  <2>1. CASE \E f \in Fields, i \in Positive : a = <<f, i>>
    BY <1>5, <2>1
  <2>2. CASE ~\E f \in Fields, i \in Positive : a = <<f, i>>
    BY <1>1, <2>2, SlotCases, OwnsAre
  <2> QED
    BY <2>1, <2>2
<1>7. DistinctCases'
  BY <1>2, <1>4 DEF DistinctCases
<1> QED
  BY <1>1, <1>6, <1>7, SameOwns

-----------------------------------------------------------------------------
(* The objects.                                                            *)

(* No activation is involved, and nothing outside S.                       *)
LEMMA Elsewhere ==
  ASSUME calls' = calls, NEW S,
         \A h \in Holders :
           <<"object", h>> \in S \/ Owned(safe_typecode'[h]) = Owned(safe_typecode[h]),
         <<"result", 0>> \in S \/ result' = result,
         <<"raw", 0>> \in S \/ raw' = raw,
         abandoned' = abandoned
  PROVE  \A a \in AllSlots \ S : Owns'[a] = Owns[a]
<1> SUFFICES ASSUME NEW a \in AllSlots, a \notin S PROVE Owns'[a] = Owns[a]
  OBVIOUS
<1>1. CASE \E h \in Holders : a = <<"object", h>>
  BY <1>1, OwnsAre
<1>2. CASE a = <<"result", 0>> \/ a = <<"raw", 0>> \/ a = <<"abandoned", 0>>
  BY <1>2, OwnsAre
<1>3. CASE \E f \in Fields, i \in Positive : a = <<f, i>>
  BY <1>3, OwnsAre
<1> QED
  BY <1>1, <1>2, <1>3, SlotCases

(* No activation changes.                                                  *)
LEMMA SameCalls ==
  ASSUME OwnersOK, calls' = calls
  PROVE  DistinctCases'
  BY DEF OwnersOK, DistinctCases

(* One object gives up what it owns, and owns something new or nothing.    *)
LEMMA OneObject ==
  ASSUME ObjectsOK, OwnersOK, NEW h \in Holders, NEW s,
         safe_typecode' = [safe_typecode EXCEPT ![h] = s],
         UNCHANGED <<calls, result, raw, abandoned>>,
         Owned(s) \cap (typecodes \ Owned(safe_typecode[h])) = {},
         typecodes' = (typecodes \ Owned(safe_typecode[h])) \cup Owned(s)
  PROVE  OwnersOK'
<1> DEFINE d == <<"object", h>>
           G == Owned(safe_typecode[h])
           X == Owned(s)
<1>1. safe_typecode'[h] = s
      /\ \A g \in Holders \ {h} : safe_typecode'[g] = safe_typecode[g]
  BY DEF ObjectsOK
<1>2. d \in AllSlots /\ Owns[d] = G /\ Owns'[d] = X
  BY <1>1, OwnsAre, SlotCases
<1>3. \A a \in AllSlots \ {d} : Owns'[a] = Owns[a]
  BY <1>1, Elsewhere
<1>4. Exact(typecodes, Owns) /\ X \cap (typecodes \ G) = {}
  BY DEF OwnersOK
<1> HIDE DEF d, G, X
<1>5. Exchanged(Owns, Owns', {d}, d, typecodes, G, X)
  BY <1>2, <1>3, <1>4 DEF Exchanged
<1>6. Exact((typecodes \ G) \cup X, Owns')
  BY <1>4, <1>5, Exchange
<1> QED
  BY <1>6, SameCalls DEF OwnersOK, G, X

(* Another slot hands what it owns to object h, which owned nothing.       *)
LEMMA HandedOver ==
  ASSUME OwnersOK, typecodes' = typecodes,
         UNCHANGED <<calls, abandoned>>,
         NEW a \in AllSlots, NEW b \in AllSlots, a # b,
         Owns[b] = {}, Owns'[a] = {}, Owns'[b] = Owns[a],
         \A x \in AllSlots \ {a, b} : Owns'[x] = Owns[x]
  PROVE  OwnersOK'
<1>1. Exact(typecodes, Owns)
  BY DEF OwnersOK
<1>2. Owns'[a] = Owns[b] /\ Owns'[b] = Owns[a]
  OBVIOUS
<1>3. Exact(typecodes, Owns')
  BY <1>1, <1>2, Swap
<1> QED
  BY <1>3, SameCalls DEF OwnersOK

(* Nothing changes hands.                                                  *)
LEMMA NothingMoves ==
  ASSUME OwnersOK, UNCHANGED <<typecodes, calls, result, raw, abandoned>>,
         \A h \in Holders : Owned(safe_typecode'[h]) = Owned(safe_typecode[h])
  PROVE  OwnersOK'
<1>1. \A a \in AllSlots \ {} : Owns'[a] = Owns[a]
  BY Elsewhere
<1>2. DistinctCases'
  BY SameCalls
<1> QED
  BY <1>1, <1>2, SameOwns

(* The result becomes the typecode of an object.                           *)
LEMMA ConstructOwns ==
  ASSUME ObjectsOK, OwnersOK, NEW h \in Holders, Construct(h)
  PROVE  OwnersOK'
<1> DEFINE a == <<"result", 0>>
           b == <<"object", h>>
<1>1. /\ h \notin exists
      /\ safe_typecode' = [safe_typecode EXCEPT ![h] = result]
      /\ result' = None
      /\ UNCHANGED <<typecodes, calls, abandoned, raw>>
  BY DEF Construct, Appears
<1>2. /\ safe_typecode[h] = None
      /\ safe_typecode'[h] = result
      /\ \A g \in Holders \ {h} : safe_typecode'[g] = safe_typecode[g]
  BY <1>1 DEF ObjectsOK
<1>3. a \in AllSlots /\ b \in AllSlots /\ a # b
  BY SlotCases
<1>4. Owns[b] = {} /\ Owns'[a] = {} /\ Owns'[b] = Owns[a]
  BY <1>1, <1>2, OwnsAre, NoneFacts
<1>5. \A x \in AllSlots \ {a, b} : Owns'[x] = Owns[x]
  <2>1. \A g \in Holders : <<"object", g>> \in {a, b}
                           \/ Owned(safe_typecode'[g]) = Owned(safe_typecode[g])
    BY <1>2
  <2> QED
    BY <1>1, <2>1, Elsewhere
<1> HIDE DEF a, b
<1> QED
  BY <1>1, <1>3, <1>4, <1>5, HandedOver

(* What was moved from owns nothing.                                       *)
LEMMA MoveConstructOwns ==
  ASSUME ObjectsOK, OwnersOK, NEW h \in Holders, NEW g \in Holders,
         MoveConstruct(h, g)
  PROVE  OwnersOK'
<1> DEFINE a == <<"object", g>>
           b == <<"object", h>>
           s == MovedFrom(safe_typecode[g])
<1>1. /\ h \notin exists
      /\ g \in exists
      /\ safe_typecode' = [safe_typecode EXCEPT ![h] = safe_typecode[g], ![g] = s]
      /\ UNCHANGED <<typecodes, calls, result, abandoned, raw>>
  BY DEF MoveConstruct, Appears, building
<1>2. Owned(s) = {}
  <2>1. s.typecode_ = NULL
    BY DEF MovedFrom, ObjectsOK, Holdings, SafeTypeCodes
  <2> QED
    BY <2>1 DEF Owned
<1> HIDE DEF s
<1>3. /\ safe_typecode[h] = None
      /\ safe_typecode'[h] = safe_typecode[g]
      /\ safe_typecode'[g] = s
      /\ \A x \in Holders \ {g, h} : safe_typecode'[x] = safe_typecode[x]
  BY <1>1 DEF ObjectsOK
<1>4. a \in AllSlots /\ b \in AllSlots /\ a # b
  BY <1>1, SlotCases
<1>5. Owns[b] = {} /\ Owns'[a] = {} /\ Owns'[b] = Owns[a]
  BY <1>2, <1>3, OwnsAre, NoneFacts
<1>6. \A x \in AllSlots \ {a, b} : Owns'[x] = Owns[x]
  <2>1. \A x \in Holders : <<"object", x>> \in {a, b}
                           \/ Owned(safe_typecode'[x]) = Owned(safe_typecode[x])
    BY <1>3
  <2> QED
    BY <1>1, <2>1, Elsewhere
<1> HIDE DEF a, b
<1> QED
  BY <1>1, <1>4, <1>5, <1>6, HandedOver

(* Move assignment is a swap.                                              *)
LEMMA MoveAssignOwns ==
  ASSUME ObjectsOK, OwnersOK, NEW h \in Holders, NEW g \in Holders,
         MoveAssign(h, g)
  PROVE  OwnersOK'
<1> DEFINE a == <<"object", g>>
           b == <<"object", h>>
<1>1. /\ safe_typecode' = Swapped(h, g)
      /\ UNCHANGED <<typecodes, calls, result, abandoned, raw>>
  BY DEF MoveAssign, building
<1>2. /\ safe_typecode'[h] = safe_typecode[g]
      /\ safe_typecode'[g] = safe_typecode[h]
      /\ \A x \in Holders \ {g, h} : safe_typecode'[x] = safe_typecode[x]
  BY <1>1 DEF ObjectsOK, Swapped
<1>3. a \in AllSlots /\ b \in AllSlots
  BY SlotCases
<1>4. Owns'[a] = Owns[b] /\ Owns'[b] = Owns[a]
  BY <1>2, OwnsAre
<1>5. \A x \in AllSlots \ {a, b} : Owns'[x] = Owns[x]
  <2>1. \A x \in Holders : <<"object", x>> \in {a, b}
                           \/ Owned(safe_typecode'[x]) = Owned(safe_typecode[x])
    BY <1>2
  <2> QED
    BY <1>1, <2>1, Elsewhere
<1>6. Exact(typecodes, Owns)
  BY DEF OwnersOK
<1> HIDE DEF a, b
<1>7. Exact(typecodes, Owns')
  BY <1>3, <1>4, <1>5, <1>6, Swap
<1> QED
  BY <1>1, <1>7, SameCalls DEF OwnersOK

(* A copy owns a typecode of its own, or none; what the object owned is    *)
(* deleted.                                                                *)
LEMMA CopyOwns ==
  ASSUME ObjectsOK, OwnersOK, NEW h \in Holders, NEW g \in Holders,
         CopyConstruct(h, g) \/ CopyAssign(h, g)
  PROVE  OwnersOK'
<1> DEFINE s == CopyOf(safe_typecode[g])
           G == Owned(safe_typecode[h])
<1>1. /\ MayCopy(safe_typecode[g])
      /\ safe_typecode' = [safe_typecode EXCEPT ![h] = s]
      /\ UNCHANGED <<calls, result, abandoned, raw>>
  BY DEF CopyConstruct, CopyAssign, building
<1>2. typecodes' = WithCopyOf(safe_typecode[g]) \ G
  <2>1. CASE CopyConstruct(h, g)
    <3>1. safe_typecode[h] = None
      BY <2>1 DEF CopyConstruct, Appears, ObjectsOK
    <3> QED
      BY <2>1, <3>1, NoneFacts DEF CopyConstruct
  <2>2. CASE CopyAssign(h, g)
    BY <2>2 DEF CopyAssign, Delete
  <2> QED
    BY <2>1, <2>2
<1>3. G \subseteq typecodes
  <2>1. Owns[<<"object", h>>] = G /\ <<"object", h>> \in AllSlots
    BY OwnsAre, SlotCases
  <2> QED
    BY <2>1 DEF OwnersOK, Exact
<1>4. /\ Owned(s) \cap typecodes = {}
      /\ WithCopyOf(safe_typecode[g]) = typecodes \cup Owned(s)
  <2>1. CASE safe_typecode[g].is_shared_
    BY <2>1 DEF CopyOf, WithCopyOf, Owned
  <2>2. CASE ~safe_typecode[g].is_shared_
    <3>1. New \in Typecodes \ typecodes
      BY <1>1, <2>2, NewIsNew DEF MayCopy
    <3>2. s = FromNonConst(New) /\ WithCopyOf(safe_typecode[g]) = typecodes \cup {New}
      BY <2>2 DEF CopyOf, WithCopyOf
    <3> QED
      BY <3>1, <3>2, NewIsOwned
  <2> QED
    BY <2>1, <2>2
<1> HIDE DEF s
<1>5. typecodes' = (typecodes \ G) \cup Owned(s)
      /\ Owned(s) \cap (typecodes \ G) = {}
  BY <1>2, <1>3, <1>4
<1> QED
  BY <1>1, <1>5, OneObject

(* The destructor deletes what the object owns, and only that.             *)
LEMMA DestroyOwns ==
  ASSUME ObjectsOK, OwnersOK, NEW h \in Holders, Destroy(h)
  PROVE  OwnersOK'
<1>1. /\ safe_typecode' = [safe_typecode EXCEPT ![h] = None]
      /\ typecodes' = typecodes \ Owned(safe_typecode[h])
      /\ UNCHANGED <<calls, result, abandoned, raw>>
  BY DEF Destroy, Delete, building
<1>2. typecodes' = (typecodes \ Owned(safe_typecode[h])) \cup Owned(None)
      /\ Owned(None) \cap (typecodes \ Owned(safe_typecode[h])) = {}
  BY <1>1, NoneFacts
<1> QED
  BY <1>1, <1>2, OneObject

(* The application has what the object owned, which keeps the pointer.     *)
LEMMA ReleaseOwns ==
  ASSUME ObjectsOK, OwnersOK, NEW h \in Holders, Release(h)
  PROVE  OwnersOK'
<1> DEFINE a == <<"object", h>>
           d == <<"raw", 0>>
           s == Released(safe_typecode[h])
           X == raw \cup Owned(safe_typecode[h])
<1>1. /\ safe_typecode' = [safe_typecode EXCEPT ![h] = s]
      /\ raw' = X
      /\ UNCHANGED <<typecodes, calls, result, abandoned>>
  BY DEF Release, building
<1>2. Owned(s) = {}
  BY DEF Released, ObjectsOK, Holdings, SafeTypeCodes, Owned
<1> HIDE DEF s
<1>3. safe_typecode'[h] = s
      /\ \A g \in Holders \ {h} : safe_typecode'[g] = safe_typecode[g]
  BY <1>1 DEF ObjectsOK
<1>4. a \in AllSlots /\ d \in AllSlots /\ a # d
  BY SlotCases
<1>5. /\ Owns[a] = Owned(safe_typecode[h])
      /\ Owns[d] = raw
      /\ Owns'[a] = {}
      /\ Owns'[d] = X
  BY <1>1, <1>2, <1>3, OwnsAre
<1>6. \A x \in AllSlots \ {a, d} : Owns'[x] = Owns[x]
  <2>1. \A g \in Holders : <<"object", g>> \in {a, d}
                           \/ Owned(safe_typecode'[g]) = Owned(safe_typecode[g])
    BY <1>3
  <2> QED
    BY <1>1, <2>1, Elsewhere
<1>7. Exact(typecodes, Owns)
  BY DEF OwnersOK
<1>8. \A tc : tc \in X <=> \E x \in {a, d} : tc \in Owns[x]
  BY <1>5
<1>9. X \subseteq typecodes
  BY <1>4, <1>5, <1>7 DEF Exact
<1> HIDE DEF a, d, X
<1>10. Exchanged(Owns, Owns', {a, d}, d, typecodes, X, X)
  BY <1>4, <1>5, <1>6, <1>8 DEF Exchanged
<1>11. Exact((typecodes \ X) \cup X, Owns')
  BY <1>7, <1>10, Exchange
<1>12. typecodes' = (typecodes \ X) \cup X
  BY <1>1, <1>9
<1> QED
  BY <1>1, <1>11, <1>12, SameCalls DEF OwnersOK

(* The application deletes what release gave it.                           *)
LEMMA DeleteRawOwns ==
  ASSUME OwnersOK, NEW tc \in raw, DeleteRaw(tc)
  PROVE  OwnersOK'
<1> DEFINE d == <<"raw", 0>>
           X == raw \ {tc}
<1>1. /\ raw' = X
      /\ typecodes' = typecodes \ {tc}
      /\ UNCHANGED <<calls, result, abandoned, safe_typecode>>
  BY DEF DeleteRaw, Delete, building, objects
<1>2. d \in AllSlots /\ Owns[d] = raw /\ Owns'[d] = X
  BY <1>1, OwnsAre, SlotCases
<1>3. \A x \in AllSlots \ {d} : Owns'[x] = Owns[x]
  BY <1>1, Elsewhere
<1>4. Exact(typecodes, Owns)
  BY DEF OwnersOK
<1>5. raw \subseteq typecodes
  BY <1>2, <1>4 DEF Exact
<1>6. X \cap (typecodes \ raw) = {}
  OBVIOUS
<1>7. typecodes' = (typecodes \ raw) \cup X
  BY <1>1, <1>5
<1> HIDE DEF d, X
<1>8. Exchanged(Owns, Owns', {d}, d, typecodes, raw, X)
  BY <1>2, <1>3, <1>6 DEF Exchanged
<1>9. Exact((typecodes \ raw) \cup X, Owns')
  BY <1>4, <1>8, Exchange
<1> QED
  BY <1>1, <1>7, <1>9, SameCalls DEF OwnersOK

-----------------------------------------------------------------------------
(* The specification.                                                      *)

OInv == IInv /\ OwnersOK

(* At first there is no typecode.                                          *)
LEMMA OwnersInit == Init => OInv
<1> SUFFICES ASSUME Init PROVE OInv
  OBVIOUS
<1>1. IInv
  BY InitOK
<1>2. /\ typecodes = {} /\ calls = <<>> /\ result = None
      /\ abandoned = {} /\ raw = {}
      /\ \A h \in Holders : safe_typecode[h] = None
  BY DEF Init, InitMake
<1>3. \A f \in Fields, i \in Positive : Owns[<<f, i>>] = {}
  <2>1. DOMAIN calls = {}
    BY <1>2
  <2> QED
    BY <2>1, OwnsAre
<1>4. \A a \in AllSlots : Owns[a] = {}
  BY <1>2, <1>3, OwnsAre, SlotCases, NoneFacts
<1>5. DistinctCases
  BY <1>2 DEF DistinctCases
<1> QED
  BY <1>1, <1>2, <1>4, <1>5 DEF OInv, OwnersOK, Exact

(* Every action keeps it.                                                  *)
LEMMA OwnersStep == OInv /\ [Next]_vars => OInv'
<1> SUFFICES ASSUME OInv, [Next]_vars PROVE OwnersOK'
  BY StepOK DEF OInv
<1>1. OwnersOK /\ ObjectsOK /\ CallsOK /\ CallsOK'
  <2>1. IInv'
    BY StepOK DEF OInv
  <2> QED
    BY <2>1 DEF OInv, IInv, BuildOK
<1>2. CASE UNCHANGED vars
  BY <1>1, <1>2, NothingMoves DEF vars, building, objects
<1>3. CASE BeginConstruct
  BY <1>1, <1>3, BeginOwns
<1>4. CASE Making
  BY <1>1, <1>4, MakeOwns DEF Making, objects
<1>5. ASSUME NEW h \in Holders, Construct(h) \/ Destroy(h) \/ Release(h)
      PROVE  OwnersOK'
  BY <1>1, <1>5, ConstructOwns, DestroyOwns, ReleaseOwns
<1>6. ASSUME NEW m \in Managers, NEW n \in Managers, Borrow(m, n)
      PROVE  OwnersOK'
  <2>1. /\ m \in Holders /\ m \notin exists
        /\ safe_typecode' = [safe_typecode EXCEPT ![m] = FromConst(type_support[n])]
        /\ UNCHANGED <<typecodes, calls, result, raw, abandoned>>
    BY <1>6, ObjectSets DEF Borrow, Appears, building
  <2>2. safe_typecode[m] = None
    BY <1>1, <2>1 DEF ObjectsOK
  <2>3. Owned(FromConst(type_support[n])) = {}
    BY DEF FromConst, Owned
  <2>4. \A h \in Holders : Owned(safe_typecode'[h]) = Owned(safe_typecode[h])
    BY <1>1, <2>1, <2>2, <2>3, NoneFacts DEF ObjectsOK
  <2> QED
    BY <1>1, <2>1, <2>4, NothingMoves
<1>7. ASSUME NEW h \in Holders, NEW g \in Holders,
             \/ CopyConstruct(h, g) \/ CopyAssign(h, g)
             \/ MoveConstruct(h, g) \/ MoveAssign(h, g)
      PROVE  OwnersOK'
  BY <1>1, <1>7, CopyOwns, MoveConstructOwns, MoveAssignOwns
<1>8. ASSUME NEW tc \in raw, DeleteRaw(tc)
      PROVE  OwnersOK'
  BY <1>1, <1>8, DeleteRawOwns
<1>9. ASSUME NEW x \in Data,
             DestroyData(x) \/ \E m \in Managers : CreateDynamicData(x, m)
      PROVE  OwnersOK'
  BY <1>1, <1>9, NothingMoves DEF DestroyData, CreateDynamicData, building
<1> QED
  BY <1>2, <1>3, <1>4, <1>5, <1>6, <1>7, <1>8, <1>9 DEF Next

(* The slots of the properties.                                            *)
LEMMA SlotsHold ==
  ASSUME CallsOK
  PROVE  /\ Slots \subseteq AllSlots
         /\ \A a \in Slots : OwnedIn(a) = Owns[a]
         /\ \A a \in AllSlots \ Slots : Owns[a] = {}
<1>1. DOMAIN calls \subseteq Positive
  BY CallPositions DEF CallsOK, Positive
<1>2. \A a : a \in Slots <=>
        \/ \E h \in Holders : a = <<"object", h>>
        \/ a = <<"result", 0>> \/ a = <<"raw", 0>> \/ a = <<"abandoned", 0>>
        \/ \E f \in Fields, i \in DOMAIN calls : a = <<f, i>>
  BY DEF Slots, Fields
<1>3. Slots \subseteq AllSlots
  BY <1>1, <1>2, SlotCases
<1>4. \A h \in Holders : OwnedIn(<<"object", h>>) = Owned(safe_typecode[h])
  BY DEF OwnedIn
<1>5. /\ OwnedIn(<<"result", 0>>) = Owned(result)
      /\ OwnedIn(<<"raw", 0>>) = raw
      /\ OwnedIn(<<"abandoned", 0>>) = abandoned
  BY DEF OwnedIn
<1>6. \A f \in Fields, i \in DOMAIN calls : OwnedIn(<<f, i>>) = FrameOwns(calls[i], f)
  BY DEF OwnedIn, Fields, FrameOwns
<1>7. \A a \in Slots : OwnedIn(a) = Owns[a]
  BY <1>1, <1>2, <1>4, <1>5, <1>6, OwnsAre
<1>8. \A a \in AllSlots \ Slots : Owns[a] = {}
  <2> SUFFICES ASSUME NEW a \in AllSlots, a \notin Slots PROVE Owns[a] = {}
    OBVIOUS
  <2>1. PICK f \in Fields, i \in Positive : a = <<f, i>>
    BY <1>2, SlotCases
  <2>2. i \notin DOMAIN calls
    BY <1>2, <2>1
  <2> QED
    BY <2>1, <2>2, OwnsAre
<1> QED
  BY <1>3, <1>7, <1>8

(* Whatever types are nested in each other, whichever call of the factory  *)
(* throws, and however SafeTypeCodes and managers are copied, moved,       *)
(* swapped and released: no typecode is deleted twice, and no one who has  *)
(* to delete a typecode points to one that is gone.                        *)
THEOREM TypecodesHaveOneOwner == Spec => []OneOwner
<1>1. OInv => OneOwner
  <2> SUFFICES ASSUME OInv PROVE OneOwner
    OBVIOUS
  <2>1. CallsOK /\ Exact(typecodes, Owns) /\ DistinctCases
    BY DEF OInv, IInv, BuildOK, OwnersOK
  <2> QED
    BY <2>1, SlotsHold DEF OneOwner, Exact
<1> QED
  BY <1>1, OwnersInit, OwnersStep, PTL DEF Spec

(* No typecode is lost but those that an exception leaves in the members   *)
(* of a union: everything on the heap is some destructor's, the            *)
(* application's, or one of these.                                         *)
THEOREM NothingElseLeaks == Spec => []NothingLeaks
<1>1. OInv => NothingLeaks
  <2> SUFFICES ASSUME OInv, NEW tc \in typecodes
               PROVE  \E a \in Slots : tc \in OwnedIn(a)
    BY DEF NothingLeaks
  <2>1. CallsOK /\ Exact(typecodes, Owns)
    BY DEF OInv, IInv, BuildOK, OwnersOK
  <2>2. PICK a \in AllSlots : tc \in Owns[a]
    BY <2>1 DEF Exact
  <2> QED
    BY <2>1, <2>2, SlotsHold
<1> QED
  BY <1>1, OwnersInit, OwnersStep, PTL DEF Spec
=============================================================================
