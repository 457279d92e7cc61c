------------------------------ MODULE DataPath ------------------------------
(***************************************************************************)
(* What becomes of the value of a user's type T on its way from            *)
(* GenericDataWriter<T>::write through write_dynamicdata, the middleware   *)
(* and read_dynamicdata into the vector given to GenericDataReader<T>::    *)
(* take.  Two buffers are reused on the way: the one dd_instance_ of a     *)
(* writer object, and the vector, if the application reuses it.            *)
(*                                                                         *)
(* T is a list of members; what matters of a member is its kind:           *)
(*   "plain"     a number, string, enum, array, or a container other than  *)
(*               those below: set and read unconditionally;                *)
(*   "vector"    std::vector of a primitive: not set when empty;           *)
(*   "optional"  not set when absent, not read when absent;                *)
(*   "pointer"   a smart pointer: NULL makes the write throw.              *)
(* None stands for the empty vector, the absent optional and NULL.         *)
(*                                                                         *)
(* A writer object is used by one thread at a time, distinct ones (copies  *)
(* of each other included) concurrently; one step sets one member.  A      *)
(* taking thread converts one sample per step.  The middleware is          *)
(* external: it may refuse, lose or delay a sample, not alter it.          *)
(***************************************************************************)
EXTENDS Naturals, Sequences

CONSTANTS
  Writers,      \* GenericDataWriter variables of the application
  Kind,         \* the kinds of the members of T, bases' members first
  Values,       \* what a member may hold
  Zero,         \* a member nobody has set
  None,
  Faults,       \* the calls that may fail, of FaultKinds
  ReuseWriter,  \* whether a writer object writes more than once
  ReuseVector,  \* whether a vector is given to take more than once
  MaxWrites,    \* bounds the calls of write
  MaxQueue      \* bounds the samples under way

MemberKinds == {"plain", "vector", "optional", "pointer"}

FaultKinds == {"copy", "set_member", "write", "get_member", "lose", "dispose"}

ASSUME PathConstants ==
  /\ Kind \in Seq(MemberKinds)
  /\ Zero \notin Values
  /\ None \notin Values \cup {Zero}
  /\ Faults \subseteq FaultKinds
  /\ ReuseWriter \in BOOLEAN
  /\ ReuseVector \in BOOLEAN
  /\ MaxWrites \in Nat
  /\ MaxQueue \in Nat

Members == 1 .. Len(Kind)

(* What the application may hand to write.                                 *)
Data ==
  {d \in [Members -> Values \cup {None}] :
     \A m \in Members : Kind[m] = "plain" => d[m] # None}

(* An instance fresh from create_data: no optional is present, sequences   *)
(* are empty, other members (the target of a pointer is one) are zero.     *)
Blank ==
  [m \in Members |-> IF Kind[m] \in {"plain", "pointer"} THEN Zero ELSE None]

(* T()                                                                     *)
Default == [m \in Members |-> IF Kind[m] = "plain" THEN Zero ELSE None]

(* set_member_value does nothing for an empty vector of primitives and for *)
(* an absent optional; for a NULL pointer it throws.                       *)
EmptyVector(m, v) == Kind[m] = "vector" /\ v = None
AbsentOptional(m, v) == Kind[m] = "optional" /\ v = None
NullPointer(m, v) == Kind[m] = "pointer" /\ v = None

SetMemberValue(instance, m, v) ==
  IF EmptyVector(m, v) \/ AbsentOptional(m, v) THEN instance
  ELSE [instance EXCEPT ![m] = v]

(* Mutant: an optional that has a value is not read again.                 *)
GetMemberValueOnce(instance, m, old) ==
  IF Kind[m] = "optional" /\ old # None THEN old ELSE instance[m]

(* get_member_value into the member old; a vector is resized, an optional  *)
(* left alone when the instance has no such member.                        *)
GetMemberValue(instance, m, old) ==
  IF Kind[m] = "optional" /\ instance[m] = None THEN old ELSE instance[m]

(* read_dynamicdata, up to and including member last                       *)
ReadDynamicData(instance, old, last) ==
  [m \in Members |-> IF m <= last THEN GetMemberValue(instance, m, old[m])
                     ELSE old[m]]

VARIABLES
  exists,        \* the writer objects that are constructed
  dd_instance_,  \* content of the field of every object
  call,          \* the call of write in progress on every object
  used,          \* the objects that have been written to
  writes,        \* number of calls of write so far
  queue,         \* samples published and not yet taken
  data,          \* the application's vector
  take           \* the call of take in progress, or the last one

writing == <<exists, dd_instance_, call, used, writes>>
reading == <<data, take>>
vars == <<writing, queue, reading>>

Idle == [next |-> 0, given |-> Default, blank |-> FALSE]

Contents == [Members -> Values \cup {Zero, None}]

Samples ==
  [valid : BOOLEAN, given : Data \cup {Default}, content : Contents,
   blank : BOOLEAN]

Calls ==
  [next : 0 .. Len(Kind) + 1, given : Data \cup {Default}, blank : BOOLEAN]

Takes ==
  [next : Nat, batch : Seq(Samples), fresh : BOOLEAN,
   result : {"none", "OK", "thrown"}]

TypeOK ==
  /\ exists \subseteq Writers
  /\ dd_instance_ \in [Writers -> Contents]
  /\ call \in [Writers -> Calls]
  /\ \A w \in Writers : call[w].next # 0 => w \in exists
  /\ used \subseteq Writers
  /\ writes \in 0 .. MaxWrites
  /\ queue \in Seq(Samples)
  /\ Len(queue) <= MaxQueue
  /\ data \in Seq(Contents)
  /\ take \in Takes
  /\ take.next <= Len(take.batch) + 1
  /\ take.next # 0 => Len(data) = Len(take.batch)

NoTake == [next |-> 0, batch |-> <<>>, fresh |-> TRUE, result |-> "none"]

Init ==
  /\ exists = {}
  /\ dd_instance_ = [w \in Writers |-> Blank]
  /\ call = [w \in Writers |-> Idle]
  /\ used = {}
  /\ writes = 0
  /\ queue = <<>>
  /\ data = <<>>
  /\ take = NoTake

-----------------------------------------------------------------------------
(* Writing.                                                                *)

WriterIdle(w) == call[w].next = 0

ConstructWriter(w) ==
  /\ w \notin exists
  /\ exists' = exists \cup {w}
  /\ dd_instance_' = [dd_instance_ EXCEPT ![w] = Blank]
  /\ UNCHANGED <<call, used, writes, queue, reading>>

(* The implicit copy constructor makes a copy of dd_instance_, Blank if    *)
(* DDS_DynamicData::copy failed.                                           *)
CopyWriter(w, x) ==
  /\ ReuseWriter
  /\ w \notin exists
  /\ x \in exists
  /\ WriterIdle(x)
  /\ exists' = exists \cup {w}
  /\ \E c \in {dd_instance_[x]} \cup (IF "copy" \in Faults THEN {Blank} ELSE {}) :
       dd_instance_' = [dd_instance_ EXCEPT ![w] = c]
  /\ UNCHANGED <<call, used, writes, queue, reading>>

DestroyWriter(w) ==
  /\ w \in exists
  /\ WriterIdle(w)
  /\ exists' = exists \ {w}
  /\ dd_instance_' = [dd_instance_ EXCEPT ![w] = Blank]
  /\ used' = used \ {w}
  /\ UNCHANGED <<call, writes, queue, reading>>

(* write(d) or write_w_params(d, params) is called: the first member next. *)
Write(w, d) ==
  /\ w \in exists
  /\ WriterIdle(w)
  /\ w \in used => ReuseWriter
  /\ writes < MaxWrites
  /\ writes' = writes + 1
  /\ used' = used \cup {w}
  /\ call' = [call EXCEPT ![w] = [next |-> 1, given |-> d,
                                  blank |-> dd_instance_[w] = Blank]]
  /\ UNCHANGED <<exists, dd_instance_, queue, reading>>

(* TypelistIterator::set                                                   *)
SetMember(w) ==
  /\ call[w].next \in Members
  /\ LET m == call[w].next
         v == call[w].given[m]
     IN  /\ ~NullPointer(m, v)
         /\ dd_instance_' = [dd_instance_ EXCEPT ![w] =
                               SetMemberValue(@, m, v)]
         /\ call' = [call EXCEPT ![w].next = m + 1]
  /\ UNCHANGED <<exists, used, writes, queue, reading>>

(* Mutant: the exception is swallowed, the loop goes on.                   *)
SetMemberSkips(w) ==
  /\ call[w].next \in Members
  /\ NullPointer(call[w].next, call[w].given[call[w].next])
  /\ call' = [call EXCEPT ![w].next = @ + 1]
  /\ UNCHANGED <<exists, dd_instance_, used, writes, queue, reading>>

(* The exception leaves write: the members before stay set, nothing is     *)
(* published.                                                              *)
SetMemberThrows(w) ==
  /\ call[w].next \in Members
  /\ \/ NullPointer(call[w].next, call[w].given[call[w].next])
     \/ "set_member" \in Faults
  /\ call' = [call EXCEPT ![w] = Idle]
  /\ UNCHANGED <<exists, dd_instance_, used, writes, queue, reading>>

(* DDSDynamicDataWriter::write takes a copy of the instance.               *)
Publish(w) ==
  /\ call[w].next = Len(Kind) + 1
  /\ Len(queue) < MaxQueue
  /\ queue' = Append(queue, [valid |-> TRUE,
                             given |-> call[w].given,
                             content |-> dd_instance_[w],
                             blank |-> call[w].blank])
  /\ call' = [call EXCEPT ![w] = Idle]
  /\ UNCHANGED <<exists, dd_instance_, used, writes, reading>>

(* Its return code, an error, becomes that of write.                       *)
PublishFails(w) ==
  /\ call[w].next = Len(Kind) + 1
  /\ "write" \in Faults
  /\ call' = [call EXCEPT ![w] = Idle]
  /\ UNCHANGED <<exists, dd_instance_, used, writes, queue, reading>>

-----------------------------------------------------------------------------
(* The middleware.                                                         *)

(* Best-effort delivery, or a history depth that is exceeded.              *)
Lose ==
  /\ "lose" \in Faults
  /\ queue # <<>>
  /\ queue' = Tail(queue)
  /\ UNCHANGED <<writing, reading>>

(* The instance was disposed: a sample without valid data arrives.         *)
Dispose ==
  /\ "dispose" \in Faults
  /\ Len(queue) < MaxQueue
  /\ queue' = Append(queue, [valid |-> FALSE, given |-> Default,
                             content |-> Blank, blank |-> FALSE])
  /\ UNCHANGED <<writing, reading>>

-----------------------------------------------------------------------------
(* Taking.                                                                 *)

(* Mutant: the vector is only ever enlarged.                               *)
ResizeGrows(vector, size) ==
  [i \in 1 .. (IF size < Len(vector) THEN Len(vector) ELSE size) |->
     IF i <= Len(vector) THEN vector[i] ELSE Default]

Resize(vector, size) ==
  [i \in 1 .. size |-> IF i <= Len(vector) THEN vector[i] ELSE Default]

(* take lends n samples, which the caller's vector is resized for.         *)
Lend(n, fresh) ==
  /\ take.next = 0
  /\ n \in 1 .. Len(queue)
  /\ fresh \/ ReuseVector
  /\ data' = Resize(IF fresh THEN <<>> ELSE data, n)
  /\ take' = [next |-> 1, batch |-> SubSeq(queue, 1, n), fresh |-> fresh,
              result |-> "none"]
  /\ UNCHANGED writing

(* Mutant: read is called, not take.                                       *)
Read(n, fresh) == Lend(n, fresh) /\ UNCHANGED queue

Take(n, fresh) ==
  /\ Lend(n, fresh)
  /\ queue' = SubSeq(queue, n + 1, Len(queue))

Converting == take.next \in 1 .. Len(take.batch)

(* One turn of the loop of take_impl: a sample without valid data becomes  *)
(* a default T.                                                            *)
ConvertSample ==
  /\ Converting
  /\ LET i == take.next
         sample == take.batch[i]
     IN  data' = [data EXCEPT ![i] =
                    IF sample.valid
                    THEN ReadDynamicData(sample.content, @, Len(Kind))
                    ELSE Default]
  /\ take' = [take EXCEPT !.next = @ + 1]
  /\ UNCHANGED <<writing, queue>>

(* get_member_value throws for the member after last; the vector keeps     *)
(* what it has.                                                            *)
ConvertThrows(last) ==
  /\ Converting
  /\ "get_member" \in Faults
  /\ last + 1 \in Members
  /\ take.batch[take.next].valid
  /\ data' = [data EXCEPT ![take.next] =
                ReadDynamicData(take.batch[take.next].content, @, last)]
  /\ take' = [take EXCEPT !.next = 0, !.result = "thrown"]
  /\ UNCHANGED <<writing, queue>>

(* The loan goes back; take returns.                                       *)
ReturnLoan ==
  /\ take.next # 0
  /\ take.next = Len(take.batch) + 1
  /\ take' = [take EXCEPT !.next = 0, !.result = "OK"]
  /\ UNCHANGED <<writing, queue, data>>

Next ==
  \/ \E w \in Writers : ConstructWriter(w)
  \/ \E w, x \in Writers : CopyWriter(w, x)
  \/ \E w \in Writers : DestroyWriter(w)
  \/ \E w \in Writers, d \in Data : Write(w, d)
  \/ \E w \in Writers : SetMember(w)
  \/ \E w \in Writers : SetMemberThrows(w)
  \/ \E w \in Writers : Publish(w)
  \/ \E w \in Writers : PublishFails(w)
  \/ Lose
  \/ Dispose
  \/ \E n \in 1 .. MaxQueue, fresh \in BOOLEAN : Take(n, fresh)
  \/ ConvertSample
  \/ \E last \in 0 .. Len(Kind) : ConvertThrows(last)
  \/ ReturnLoan

Spec == Init /\ [][Next]_vars

-----------------------------------------------------------------------------
(* Properties.                                                             *)

(* The samples the last take has handed to its caller.                     *)
Returned ==
  IF take.result = "OK" THEN {i \in DOMAIN take.batch : take.batch[i].valid}
  ELSE {}

(* A member that was there when the value was written is there, and the    *)
(* same, when it is taken: whatever earlier calls of write that threw      *)
(* left in dd_instance_, whatever was in the vector before, and however    *)
(* the writers' steps interleave.                                          *)
PresentMembersArrive ==
  \A i \in Returned, m \in Members :
    take.batch[i].given[m] # None => data[i][m] = take.batch[i].given[m]

(* The test test/shape_type.cxx demands that "round-tripping must work!":  *)
(* between a blank dd_instance_ and a new vector it does, for members that *)
(* are empty or absent, too.                                               *)
RoundTrip ==
  \A i \in Returned :
    take.fresh /\ take.batch[i].blank => data[i] = take.batch[i].given

(* A queue of values: what module ValueQueue specifies.  Whatever fails,   *)
(* whichever writers and calls of take interleave, a write that returns    *)
(* publishes its value as a whole, one that throws nothing, a value with a *)
(* NULL pointer never leaves, and a take that returns has removed the      *)
(* samples it hands over, in their order, and no others.  Until it does,   *)
(* the samples it has borrowed count as under way.                         *)
Sendable == {d \in Data : \A m \in Members : ~NullPointer(m, d[m])}

UnderWay == IF take.next # 0 THEN take.batch \o queue ELSE queue

Abstract == INSTANCE ValueQueue WITH
              Data <- Sendable,
              queue <- [i \in 1 .. Len(UnderWay) |->
                          [valid |-> UnderWay[i].valid,
                           value |-> UnderWay[i].given]],
              vector <- IF take.result = "OK" THEN data ELSE <<>>

QueueOfValues == Abstract!Spec

(* reflex_fwd.h says of write_dynamicdata: "Copies source data into the    *)
(* destination".  A sample is published with the members it was given: an  *)
(* absent one is absent.                                                   *)
WriteCopiesData ==
  \A i \in DOMAIN queue, m \in Members :
    queue[i].valid /\ queue[i].given[m] = None => queue[i].content[m] = None

=============================================================================
