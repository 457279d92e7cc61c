--------------------------- MODULE DataPathProofs ---------------------------
(***************************************************************************)
(* What DataPath says of values, proved for any list of members, any       *)
(* number of writers, values, calls and samples under way, whichever calls *)
(* may fail and whatever is reused; and that it implements ValueQueue, a   *)
(* queue of values without buffers.                                        *)
(***************************************************************************)
EXTENDS DataPath, TLAPS, SequenceTheorems

(* A write in progress: the members before call.next are set; if the       *)
(* instance was blank at the call, the others still are.                   *)
CallOK(c, instance) ==
  /\ \A m \in Members : m < c.next /\ c.given[m] # None => instance[m] = c.given[m]
  /\ c.blank =>
       \A m \in Members :
         instance[m] = IF m < c.next THEN c.given[m] ELSE Blank[m]

CallsOK == \A w \in Writers : call[w].next # 0 => CallOK(call[w], dd_instance_[w])

(* What a sample that was published holds.                                 *)
SampleOK(s) ==
  s.valid =>
    /\ \A m \in Members : s.given[m] # None => s.content[m] = s.given[m]
    /\ s.blank => s.content = s.given

QueueOK == \A i \in 1 .. Len(queue) : SampleOK(queue[i])

BatchOK == \A i \in 1 .. Len(take.batch) : SampleOK(take.batch[i])

(* What a sample that was converted gives.                                 *)
ElementOK(s, fresh, t) ==
  s.valid =>
    /\ \A m \in Members : s.given[m] # None => t[m] = s.given[m]
    /\ fresh /\ s.blank => t = s.given

(* A take in progress has converted the samples before take.next; a new    *)
(* vector holds default values behind them.  A take that returned has      *)
(* converted all.                                                          *)
DataOK ==
  /\ take.result # "none" => take.next = 0
  /\ \A i \in 1 .. Len(take.batch) :
       i < take.next \/ take.result = "OK" =>
         ElementOK(take.batch[i], take.fresh, data[i])
  /\ \A i \in 1 .. Len(take.batch) :
       take.next # 0 /\ take.fresh /\ i >= take.next => data[i] = Default

IInv ==
  /\ TypeOK
  /\ CallsOK
  /\ QueueOK
  /\ BatchOK
  /\ DataOK

-----------------------------------------------------------------------------
(* The conversions.                                                        *)

LEMMA BlankAndDefault == Blank \in Contents /\ Default \in Contents
  BY DEF Blank, Default, Contents

LEMMA DataAreContents == Data \cup {Default} \subseteq Contents
  BY BlankAndDefault DEF Data, Contents

(* One turn of TypelistIterator::set, whatever the instance held before.   *)
LEMMA SetMemberValueGives ==
  ASSUME NEW c \in Calls, NEW instance \in Contents, CallOK(c, instance),
         c.next \in Members, ~NullPointer(c.next, c.given[c.next]),
         NEW d, d = [c EXCEPT !.next = c.next + 1],
         NEW new, new = SetMemberValue(instance, c.next, c.given[c.next])
  PROVE  new \in Contents /\ CallOK(d, new)
<1> DEFINE m == c.next
           v == c.given[m]
<1>1. m \in Members /\ m \in Nat /\ c.given \in Contents
  BY DataAreContents DEF Calls, Members
<1>2. d.next = m + 1 /\ d.given = c.given /\ d.blank = c.blank
  BY DEF Calls
<1>3. CASE EmptyVector(m, v) \/ AbsentOptional(m, v)
  <2>1. new = instance /\ v = None
    BY <1>3 DEF SetMemberValue, EmptyVector, AbsentOptional
  <2>2. Blank[m] = None
    BY <1>1, <1>3 DEF Blank, EmptyVector, AbsentOptional
  <2>3. \A k \in Members : k < m + 1 <=> k < m \/ k = m
    BY <1>1 DEF Members
  <2> QED
    BY <1>1, <1>2, <2>1, <2>2, <2>3 DEF CallOK
<1>4. CASE ~(EmptyVector(m, v) \/ AbsentOptional(m, v))
  <2>1. new = [instance EXCEPT ![m] = v]
    BY <1>4 DEF SetMemberValue
  <2>2. v \in Values \cup {Zero, None}
    BY <1>1 DEF Contents
  <2>3. new \in Contents
    BY <1>1, <2>1, <2>2 DEF Contents
  <2>4. \A k \in Members : new[k] = IF k = m THEN v ELSE instance[k]
    BY <2>1 DEF Contents
  <2>5. \A k \in Members : k < m + 1 <=> k < m \/ k = m
    BY <1>1 DEF Members
  <2> QED
    BY <1>1, <1>2, <2>3, <2>4, <2>5 DEF CallOK
<1> QED
  BY <1>3, <1>4

(* read_dynamicdata, whatever the object read into held before.            *)
LEMMA ReadDynamicDataGives ==
  ASSUME NEW s \in Samples, NEW old \in Contents, NEW last \in Nat
  PROVE  /\ ReadDynamicData(s.content, old, last) \in Contents
         /\ SampleOK(s) /\ last = Len(Kind) =>
              ElementOK(s, old = Default,
                        ReadDynamicData(s.content, old, last))
<1> DEFINE t == ReadDynamicData(s.content, old, last)
<1>1. s.content \in Contents /\ s.given \in Contents
  BY DataAreContents DEF Samples
<1>2. t \in Contents
  BY <1>1 DEF ReadDynamicData, GetMemberValue, Contents
<1>3. ASSUME SampleOK(s), last = Len(Kind), s.valid
      PROVE  /\ \A m \in Members : s.given[m] # None => t[m] = s.given[m]
             /\ old = Default /\ s.blank => t = s.given
  <2>1. \A m \in Members : t[m] = GetMemberValue(s.content, m, old[m])
    BY <1>3 DEF ReadDynamicData, Members
  <2>2. \A m \in Members : s.given[m] # None => t[m] = s.given[m]
    BY <1>3, <2>1 DEF SampleOK, GetMemberValue
  <2>3. ASSUME old = Default, s.blank
        PROVE  t = s.given
    <3>1. s.content = s.given
      BY <1>3, <2>3 DEF SampleOK
    <3>2. \A m \in Members : t[m] = s.given[m]
      BY <2>1, <2>3, <3>1 DEF GetMemberValue, Default
    <3> QED
      BY <1>1, <1>2, <3>2 DEF Contents
  <2> QED
    BY <2>2, <2>3
<1> QED
  BY <1>2, <1>3 DEF ElementOK

-----------------------------------------------------------------------------
(* Every action keeps IInv.                                                *)

LEMMA InitEstablishesIInv == Init => IInv
<1> SUFFICES ASSUME Init
             PROVE  IInv
  OBVIOUS
<1>1. TypeOK
  BY BlankAndDefault, PathConstants
  DEF Init, TypeOK, Idle, NoTake, Calls, Takes
<1>2. CallsOK /\ QueueOK /\ BatchOK /\ DataOK
  BY DEF Init, Idle, NoTake, CallsOK, QueueOK, BatchOK, DataOK
<1> QED
  BY <1>1, <1>2 DEF IInv

LEMMA ConstructWriterKeepsIInv ==
  ASSUME IInv, NEW w \in Writers, ConstructWriter(w)
  PROVE  IInv'
<1> USE DEF IInv, ConstructWriter, reading
<1>1. TypeOK'
  BY BlankAndDefault DEF TypeOK
<1>2. CallsOK'
  BY DEF CallsOK, TypeOK
<1>3. QueueOK' /\ BatchOK' /\ DataOK'
  BY DEF QueueOK, BatchOK, DataOK
<1> QED
  BY <1>1, <1>2, <1>3

LEMMA CopyWriterKeepsIInv ==
  ASSUME IInv, NEW w \in Writers, NEW x \in Writers, CopyWriter(w, x)
  PROVE  IInv'
<1> USE DEF IInv, reading
<1>1. PICK c \in Contents : dd_instance_' = [dd_instance_ EXCEPT ![w] = c]
  BY BlankAndDefault DEF CopyWriter, TypeOK
<1>2. TypeOK'
  BY <1>1 DEF CopyWriter, TypeOK
<1>3. CallsOK'
  BY <1>1 DEF CopyWriter, CallsOK, TypeOK
<1>4. QueueOK' /\ BatchOK' /\ DataOK'
  BY DEF CopyWriter, QueueOK, BatchOK, DataOK
<1> QED
  BY <1>2, <1>3, <1>4

LEMMA DestroyWriterKeepsIInv ==
  ASSUME IInv, NEW w \in Writers, DestroyWriter(w)
  PROVE  IInv'
<1> USE DEF IInv, DestroyWriter, reading
<1>1. TypeOK'
  BY BlankAndDefault DEF TypeOK, WriterIdle
<1>2. CallsOK'
  BY DEF CallsOK, TypeOK, WriterIdle
<1>3. QueueOK' /\ BatchOK' /\ DataOK'
  BY DEF QueueOK, BatchOK, DataOK
<1> QED
  BY <1>1, <1>2, <1>3

LEMMA WriteKeepsIInv ==
  ASSUME IInv, NEW w \in Writers, NEW d \in Data, Write(w, d)
  PROVE  IInv'
<1> USE DEF IInv, Write, reading
<1> DEFINE c == [next |-> 1, given |-> d, blank |-> dd_instance_[w] = Blank]
<1>1. c \in Calls /\ CallOK(c, dd_instance_[w])
  <2>1. \A m \in Members : ~(m < 1)
    BY DEF Members
  <2>2. 1 \in 0 .. Len(Kind) + 1
    BY PathConstants
  <2>3. c.blank \in BOOLEAN /\ (c.blank => dd_instance_[w] = Blank)
    OBVIOUS
  <2>4. c \in Calls
    BY <2>2, <2>3 DEF Calls
  <2> QED
    BY <2>1, <2>3, <2>4 DEF CallOK
<1>2. TypeOK'
  BY <1>1, PathConstants DEF TypeOK
<1>3. CallsOK'
  BY <1>1 DEF CallsOK, TypeOK
<1>4. QueueOK' /\ BatchOK' /\ DataOK'
  BY DEF QueueOK, BatchOK, DataOK
<1> QED
  BY <1>2, <1>3, <1>4

LEMMA SetMemberKeepsIInv ==
  ASSUME IInv, NEW w \in Writers, SetMember(w)
  PROVE  IInv'
<1> USE DEF IInv, SetMember, reading
<1> DEFINE c == call[w]
           d == [c EXCEPT !.next = c.next + 1]
           new == SetMemberValue(dd_instance_[w], c.next, c.given[c.next])
<1>1. c \in Calls /\ dd_instance_[w] \in Contents /\ c.next # 0
  BY DEF TypeOK, Members
<1>2. CallOK(c, dd_instance_[w])
  BY <1>1 DEF CallsOK
<1>3. new \in Contents /\ CallOK(d, new)
  BY <1>1, <1>2, SetMemberValueGives
<1>4. d \in Calls
  <2>1. c.next \in 1 .. Len(Kind) /\ Len(Kind) \in Nat
    BY PathConstants DEF Members
  <2>2. c.next + 1 \in 0 .. Len(Kind) + 1
    BY <2>1
  <2> QED
    BY <1>1, <2>2 DEF Calls
<1>5. call' = [call EXCEPT ![w] = d] /\ dd_instance_' = [dd_instance_ EXCEPT ![w] = new]
  OBVIOUS
<1>6. TypeOK'
  BY <1>1, <1>3, <1>4, <1>5 DEF TypeOK
<1>7. CallsOK'
  BY <1>3, <1>5 DEF CallsOK, TypeOK
<1>8. QueueOK' /\ BatchOK' /\ DataOK'
  BY DEF QueueOK, BatchOK, DataOK
<1> QED
  BY <1>6, <1>7, <1>8

(* SetMemberThrows, PublishFails: the call is over.                        *)
LEMMA EndOfCallKeepsIInv ==
  ASSUME IInv, NEW w \in Writers, call' = [call EXCEPT ![w] = Idle],
         UNCHANGED <<exists, dd_instance_, used, writes, queue, reading>>
  PROVE  IInv'
<1> USE DEF IInv, reading
<1>1. TypeOK'
  BY PathConstants DEF TypeOK, Idle, Calls
<1>2. CallsOK'
  BY DEF CallsOK, TypeOK, Idle
<1>3. QueueOK' /\ BatchOK' /\ DataOK'
  BY DEF QueueOK, BatchOK, DataOK
<1> QED
  BY <1>1, <1>2, <1>3

LEMMA PublishKeepsIInv ==
  ASSUME IInv, NEW w \in Writers, Publish(w)
  PROVE  IInv'
<1> USE DEF IInv, Publish, reading
<1> DEFINE s == [valid |-> TRUE, given |-> call[w].given,
                 content |-> dd_instance_[w], blank |-> call[w].blank]
<1>1. Len(Kind) \in Nat /\ call[w] \in Calls /\ dd_instance_[w] \in Contents
  BY PathConstants DEF TypeOK
<1>2. CallOK(call[w], dd_instance_[w])
  BY <1>1 DEF CallsOK
<1>3. s \in Samples
  BY <1>1 DEF Samples, Calls
<1>4. SampleOK(s)
  <2>1. \A m \in Members : m < call[w].next
    BY <1>1 DEF Members
  <2>2. \A m \in Members :
          call[w].given[m] # None => dd_instance_[w][m] = call[w].given[m]
    BY <1>2, <2>1 DEF CallOK
  <2>3. ASSUME call[w].blank
        PROVE  dd_instance_[w] = call[w].given
    <3>1. \A m \in Members : dd_instance_[w][m] = call[w].given[m]
      BY <1>2, <2>1, <2>3 DEF CallOK
    <3>2. call[w].given \in Contents
      BY <1>1, DataAreContents DEF Calls
    <3> QED
      BY <1>1, <3>1, <3>2 DEF Contents
  <2> QED
    BY <2>2, <2>3 DEF SampleOK
<1>5. /\ queue \in Seq(Samples)
      /\ queue' = Append(queue, s)
      /\ call' = [call EXCEPT ![w] = Idle]
  BY DEF TypeOK
<1>6. TypeOK'
  BY <1>1, <1>3, <1>5, PathConstants DEF TypeOK, Idle, Calls
<1>7. CallsOK'
  BY <1>5 DEF CallsOK, TypeOK, Idle
<1>8. QueueOK'
  BY <1>3, <1>4, <1>5 DEF QueueOK
<1>9. BatchOK' /\ DataOK'
  BY DEF BatchOK, DataOK
<1> QED
  BY <1>6, <1>7, <1>8, <1>9

LEMMA LoseKeepsIInv ==
  ASSUME IInv, Lose
  PROVE  IInv'
<1> USE DEF IInv, Lose, writing, reading
<1>1. queue \in Seq(Samples) /\ queue # <<>> /\ queue' = Tail(queue)
  BY DEF TypeOK
<1>2. /\ queue' \in Seq(Samples)
      /\ Len(queue') = Len(queue) - 1
      /\ \A i \in 1 .. Len(queue') : queue'[i] = queue[i + 1]
  BY <1>1
<1>3. TypeOK'
  BY <1>1, <1>2, PathConstants DEF TypeOK
<1>4. QueueOK'
  BY <1>1, <1>2 DEF QueueOK
<1>5. CallsOK' /\ BatchOK' /\ DataOK'
  BY DEF CallsOK, BatchOK, DataOK
<1> QED
  BY <1>3, <1>4, <1>5

LEMMA DisposeKeepsIInv ==
  ASSUME IInv, Dispose
  PROVE  IInv'
<1> USE DEF IInv, Dispose, writing, reading
<1> DEFINE s == [valid |-> FALSE, given |-> Default, content |-> Blank,
                 blank |-> FALSE]
<1>1. s \in Samples /\ SampleOK(s)
  BY BlankAndDefault DEF Samples, SampleOK
<1>2. queue \in Seq(Samples) /\ queue' = Append(queue, s)
  BY DEF TypeOK
<1>3. TypeOK'
  BY <1>1, <1>2, PathConstants DEF TypeOK
<1>4. QueueOK'
  BY <1>1, <1>2 DEF QueueOK
<1>5. CallsOK' /\ BatchOK' /\ DataOK'
  BY DEF CallsOK, BatchOK, DataOK
<1> QED
  BY <1>3, <1>4, <1>5

(* The vector take works on: of the right length, and, if it is a new one, *)
(* of default values.                                                      *)
LEMMA ResizeGives ==
  ASSUME NEW vector \in Seq(Contents), NEW size \in Nat
  PROVE  /\ Resize(vector, size) \in Seq(Contents)
         /\ Len(Resize(vector, size)) = size
         /\ vector = <<>> =>
              \A i \in 1 .. size : Resize(vector, size)[i] = Default
<1>1. \A i \in 1 .. size :
        (IF i <= Len(vector) THEN vector[i] ELSE Default) \in Contents
  BY BlankAndDefault
<1>2. Resize(vector, size) \in [1 .. size -> Contents]
  BY <1>1 DEF Resize
<1>3. Resize(vector, size) \in Seq(Contents) /\ Len(Resize(vector, size)) = size
  BY <1>2
<1>4. vector = <<>> => \A i \in 1 .. size : Resize(vector, size)[i] = Default
  BY DEF Resize
<1> QED
  BY <1>3, <1>4

LEMMA TakeKeepsIInv ==
  ASSUME IInv, NEW n \in 1 .. MaxQueue, NEW fresh \in BOOLEAN, Take(n, fresh)
  PROVE  IInv'
<1> USE DEF IInv, writing
<1> DEFINE batch == SubSeq(queue, 1, n)
           rest == SubSeq(queue, n + 1, Len(queue))
           vector == IF fresh THEN <<>> ELSE data
<1>1. /\ queue \in Seq(Samples)
      /\ n \in 1 .. Len(queue)
      /\ data \in Seq(Contents)
      /\ vector \in Seq(Contents)
  BY DEF Take, Lend, TypeOK
<1>2. /\ data' = Resize(vector, n)
      /\ take' = [next |-> 1, batch |-> batch, fresh |-> fresh,
                  result |-> "none"]
      /\ queue' = rest
  BY DEF Take, Lend
<1>3. /\ batch \in Seq(Samples)
      /\ Len(batch) = n
      /\ \A i \in 1 .. n : batch[i] = queue[i]
  BY <1>1
<1>4. /\ rest \in Seq(Samples)
      /\ Len(rest) = Len(queue) - n
      /\ \A i \in 1 .. Len(rest) : rest[i] = queue[i + n]
  BY <1>1
<1>5. /\ data' \in Seq(Contents)
      /\ Len(data') = n
      /\ fresh => \A i \in 1 .. n : data'[i] = Default
  <2>1. n \in Nat
    BY <1>1
  <2>2. /\ Resize(vector, n) \in Seq(Contents)
        /\ Len(Resize(vector, n)) = n
        /\ vector = <<>> =>
             \A i \in 1 .. n : Resize(vector, n)[i] = Default
    BY <1>1, <2>1, ResizeGives
  <2>3. fresh => vector = <<>>
    OBVIOUS
  <2> HIDE DEF vector
  <2> QED
    BY <1>2, <2>2, <2>3
<1>6. TypeOK'
  <2>1. take' \in Takes
    BY <1>2, <1>3 DEF Takes
  <2>2. Len(rest) <= MaxQueue
    BY <1>1, <1>4, PathConstants DEF TypeOK
  <2> QED
    BY <1>1, <1>2, <1>3, <1>4, <1>5, <2>1, <2>2 DEF TypeOK, Take, Lend
<1>7. CallsOK'
  BY DEF Take, Lend, CallsOK
<1>8. QueueOK'
  BY <1>1, <1>2, <1>4 DEF QueueOK
<1>9. BatchOK'
  BY <1>1, <1>2, <1>3 DEF QueueOK, BatchOK
<1>10. DataOK'
  BY <1>2, <1>3, <1>5 DEF DataOK
<1> QED
  BY <1>6, <1>7, <1>8, <1>9, <1>10

LEMMA ConvertSampleKeepsIInv ==
  ASSUME IInv, ConvertSample
  PROVE  IInv'
<1> USE DEF IInv, writing
<1> DEFINE k == take.next
           s == take.batch[k]
           new == IF s.valid THEN ReadDynamicData(s.content, data[k], Len(Kind))
                  ELSE Default
<1>1. /\ take \in Takes
      /\ k \in 1 .. Len(take.batch)
      /\ data \in Seq(Contents)
      /\ Len(data) = Len(take.batch)
  BY DEF ConvertSample, Converting, TypeOK
<1>2. s \in Samples /\ data[k] \in Contents /\ SampleOK(s) /\ Len(Kind) \in Nat
  BY <1>1, PathConstants DEF Takes, BatchOK
<1>3. /\ data' = [data EXCEPT ![k] = new]
      /\ take' = [take EXCEPT !.next = k + 1]
      /\ queue' = queue
  BY DEF ConvertSample
<1>4. take.result = "none"
  BY <1>1 DEF DataOK, Takes
<1>5. new \in Contents
  BY <1>2, ReadDynamicDataGives, BlankAndDefault
<1>6. ElementOK(s, take.fresh, new)
  <2>1. take.fresh => data[k] = Default
    BY <1>1 DEF DataOK
  <2>2. s.valid => ElementOK(s, data[k] = Default, new)
    BY <1>2, ReadDynamicDataGives
  <2> QED
    BY <2>1, <2>2 DEF ElementOK
<1>7. /\ data' \in Seq(Contents)
      /\ Len(data') = Len(data)
      /\ \A i \in 1 .. Len(data) : data'[i] = IF i = k THEN new ELSE data[i]
  BY <1>1, <1>3, <1>5
<1>8. /\ take' \in Takes
      /\ take'.next = k + 1
      /\ take'.batch = take.batch
      /\ take'.fresh = take.fresh
      /\ take'.result = take.result
  BY <1>1, <1>3 DEF Takes
<1>9. TypeOK'
  BY <1>1, <1>3, <1>7, <1>8 DEF TypeOK, ConvertSample
<1>10. CallsOK' /\ QueueOK'
  BY DEF ConvertSample, CallsOK, QueueOK
<1>11. BatchOK'
  BY <1>8 DEF BatchOK
<1>12. DataOK'
  <2>1. take'.result = "none"
    BY <1>4, <1>8
  <2>2. ASSUME NEW i \in 1 .. Len(take.batch), i < k + 1
        PROVE  ElementOK(take.batch[i], take.fresh, data'[i])
    <3>1. CASE i = k
      BY <1>1, <1>6, <1>7, <3>1
    <3>2. CASE i < k
      BY <1>1, <1>7, <3>2 DEF DataOK
    <3> QED
      BY <1>1, <2>2, <3>1, <3>2
  <2>3. ASSUME NEW i \in 1 .. Len(take.batch), take.fresh, i >= k + 1
        PROVE  data'[i] = Default
    BY <1>1, <1>7, <2>3 DEF DataOK
  <2> HIDE DEF s, new
  <2> QED
    BY <1>1, <1>8, <2>1, <2>2, <2>3 DEF DataOK
<1> QED
  BY <1>9, <1>10, <1>11, <1>12

LEMMA ConvertThrowsKeepsIInv ==
  ASSUME IInv, NEW last \in 0 .. Len(Kind), ConvertThrows(last)
  PROVE  IInv'
<1> USE DEF IInv, writing
<1> DEFINE k == take.next
           s == take.batch[k]
           new == ReadDynamicData(s.content, data[k], last)
<1>1. /\ take \in Takes
      /\ k \in 1 .. Len(take.batch)
      /\ data \in Seq(Contents)
      /\ Len(data) = Len(take.batch)
  BY DEF ConvertThrows, Converting, TypeOK
<1>2. s \in Samples /\ data[k] \in Contents /\ last \in Nat
  BY <1>1 DEF Takes
<1>3. /\ data' = [data EXCEPT ![k] = new]
      /\ take' = [take EXCEPT !.next = 0, !.result = "thrown"]
      /\ queue' = queue
  BY DEF ConvertThrows
<1>4. new \in Contents
  BY <1>2, ReadDynamicDataGives
<1>5. data' \in Seq(Contents)
  BY <1>1, <1>3, <1>4
<1>6. /\ take' \in Takes
      /\ take'.next = 0
      /\ take'.batch = take.batch
      /\ take'.result = "thrown"
  BY <1>1, <1>3 DEF Takes
<1>7. TypeOK'
  BY <1>1, <1>3, <1>5, <1>6 DEF TypeOK, ConvertThrows, Takes
<1>8. CallsOK' /\ QueueOK'
  BY DEF ConvertThrows, CallsOK, QueueOK
<1>9. BatchOK' /\ DataOK'
  BY <1>1, <1>6 DEF BatchOK, DataOK, Takes
<1> QED
  BY <1>7, <1>8, <1>9

LEMMA ReturnLoanKeepsIInv ==
  ASSUME IInv, ReturnLoan
  PROVE  IInv'
<1> USE DEF IInv, ReturnLoan, writing
<1>1. /\ take \in Takes
      /\ take' \in Takes
      /\ take'.next = 0
      /\ take'.batch = take.batch
      /\ take'.fresh = take.fresh
      /\ take'.result = "OK"
  BY DEF TypeOK, Takes
<1>2. TypeOK'
  BY <1>1 DEF TypeOK, Takes
<1>3. CallsOK' /\ QueueOK'
  BY DEF CallsOK, QueueOK
<1>4. BatchOK' /\ DataOK'
  BY <1>1 DEF BatchOK, DataOK, Takes
<1> QED
  BY <1>2, <1>3, <1>4

LEMMA NextKeepsIInv == IInv /\ [Next]_vars => IInv'
<1> SUFFICES ASSUME IInv, [Next]_vars
             PROVE  IInv'
  OBVIOUS
<1>1. ASSUME NEW w \in Writers, ConstructWriter(w)
      PROVE  IInv'
  BY <1>1, ConstructWriterKeepsIInv
<1>2. ASSUME NEW w \in Writers, NEW x \in Writers, CopyWriter(w, x)
      PROVE  IInv'
  BY <1>2, CopyWriterKeepsIInv
<1>3. ASSUME NEW w \in Writers, DestroyWriter(w)
      PROVE  IInv'
  BY <1>3, DestroyWriterKeepsIInv
<1>4. ASSUME NEW w \in Writers, NEW d \in Data, Write(w, d)
      PROVE  IInv'
  BY <1>4, WriteKeepsIInv
<1>5. ASSUME NEW w \in Writers, SetMember(w)
      PROVE  IInv'
  BY <1>5, SetMemberKeepsIInv
<1>6. ASSUME NEW w \in Writers, SetMemberThrows(w) \/ PublishFails(w)
      PROVE  IInv'
  BY <1>6, EndOfCallKeepsIInv DEF SetMemberThrows, PublishFails
<1>7. ASSUME NEW w \in Writers, Publish(w)
      PROVE  IInv'
  BY <1>7, PublishKeepsIInv
<1>8. CASE Lose \/ Dispose
  BY <1>8, LoseKeepsIInv, DisposeKeepsIInv
<1>9. ASSUME NEW n \in 1 .. MaxQueue, NEW fresh \in BOOLEAN, Take(n, fresh)
      PROVE  IInv'
  BY <1>9, TakeKeepsIInv
<1>10. CASE ConvertSample \/ ReturnLoan
  BY <1>10, ConvertSampleKeepsIInv, ReturnLoanKeepsIInv
<1>11. ASSUME NEW last \in 0 .. Len(Kind), ConvertThrows(last)
       PROVE  IInv'
  BY <1>11, ConvertThrowsKeepsIInv
<1>12. CASE UNCHANGED vars
  BY <1>12 DEF IInv, TypeOK, CallsOK, QueueOK, BatchOK, DataOK, vars, writing,
               reading
<1> QED
  BY <1>1, <1>2, <1>3, <1>4, <1>5, <1>6, <1>7, <1>8, <1>9, <1>10, <1>11, <1>12
  DEF Next

-----------------------------------------------------------------------------

(* The strengthened invariant holds of every behaviour.                    *)
THEOREM Invariance == Spec => []IInv
BY InitEstablishesIInv, NextKeepsIInv, PTL DEF Spec

(* The buffers keep their types, and the vector the length of the batch.   *)
THEOREM TypeCorrect == Spec => []TypeOK
<1>1. IInv => TypeOK
  BY DEF IInv
<1> QED
  BY <1>1, Invariance, PTL

(* What is there when write is called arrives: neither what earlier calls  *)
(* left in dd_instance_ nor what the vector held can get in its way.       *)
THEOREM PresentMembersDoArrive == Spec => []PresentMembersArrive
<1>1. ASSUME IInv
      PROVE  PresentMembersArrive
  <2>1. \A i \in Returned : /\ i \in 1 .. Len(take.batch)
                            /\ take.batch[i].valid
                            /\ take.result = "OK"
    BY <1>1 DEF Returned, IInv, TypeOK, Takes
  <2> QED
    BY <1>1, <2>1 DEF PresentMembersArrive, IInv, DataOK, ElementOK
<1> QED
  BY <1>1, Invariance, PTL

(* From a blank instance to a new vector a value of any type goes whole.   *)
THEOREM ValuesRoundTrip == Spec => []RoundTrip
<1>1. ASSUME IInv
      PROVE  RoundTrip
  <2>1. \A i \in Returned : /\ i \in 1 .. Len(take.batch)
                            /\ take.batch[i].valid
                            /\ take.result = "OK"
    BY <1>1 DEF Returned, IInv, TypeOK, Takes
  <2> QED
    BY <1>1, <2>1 DEF RoundTrip, IInv, DataOK, ElementOK
<1> QED
  BY <1>1, Invariance, PTL

-----------------------------------------------------------------------------
(* DataPath implements ValueQueue.                                         *)

(* What write has passed has no NULL pointer.                              *)
SendingOK ==
  \A w \in Writers : call[w].next # 0 =>
    /\ call[w].given \in Data
    /\ \A m \in Members : m < call[w].next => ~NullPointer(m, call[w].given[m])

(* A take in progress has samples; those without valid data have become    *)
(* default values.                                                         *)
TakingOK ==
  take.next # 0 =>
    /\ Len(take.batch) > 0
    /\ \A i \in 1 .. Len(take.batch) :
         i < take.next /\ ~take.batch[i].valid => data[i] = Default

LEMMA InitSending == Init => SendingOK /\ TakingOK
BY DEF Init, SendingOK, TakingOK, Idle, NoTake

LEMMA StepSending == IInv /\ SendingOK /\ [Next]_vars => SendingOK'
<1> SUFFICES ASSUME IInv, SendingOK, [Next]_vars
             PROVE  SendingOK'
  OBVIOUS
<1>1. /\ call \in [Writers -> Calls]
      /\ \A w \in Writers : call[w].next # 0 => w \in exists
  BY DEF IInv, TypeOK
<1>2. ASSUME NEW w \in Writers, call' = [call EXCEPT ![w] = Idle]
      PROVE  SendingOK'
  BY <1>1, <1>2 DEF SendingOK, Idle
<1>3. ASSUME NEW w \in Writers, NEW d \in Data, Write(w, d)
      PROVE  SendingOK'
  <2>1. \A m \in Members : ~(m < 1)
    BY DEF Members
  <2> QED
    BY <1>1, <1>3, <2>1 DEF SendingOK, Write
<1>4. ASSUME NEW w \in Writers, SetMember(w)
      PROVE  SendingOK'
  <2> DEFINE c == call[w]
             n == c.next
  <2>1. n \in Members /\ n # 0 /\ ~NullPointer(n, c.given[n])
    BY <1>4 DEF SetMember, Members
  <2>2. /\ c.given \in Data
        /\ \A m \in Members : m < n => ~NullPointer(m, c.given[m])
    BY <2>1 DEF SendingOK
  <2>3. call' = [call EXCEPT ![w].next = n + 1]
    BY <1>4 DEF SetMember
  <2>4. call'[w].next = n + 1 /\ call'[w].given = c.given
    BY <1>1, <2>3 DEF Calls
  <2>5. \A v \in Writers : v # w => call'[v] = call[v]
    BY <1>1, <2>3
  <2>6. \A m \in Members : m < n + 1 => m < n \/ m = n
    BY <2>1 DEF Members
  <2> HIDE DEF c, n
  <2> QED
    BY <2>1, <2>2, <2>4, <2>5, <2>6 DEF SendingOK
<1>5. CASE UNCHANGED call
  BY <1>5 DEF SendingOK
<1> QED
  BY <1>2, <1>3, <1>4, <1>5
     DEF Next, vars, writing, ConstructWriter, CopyWriter, DestroyWriter,
         SetMemberThrows, Publish, PublishFails, Lose, Dispose, Take, Lend,
         ConvertSample, ConvertThrows, ReturnLoan

LEMMA StepTaking == IInv /\ TakingOK /\ [Next]_vars => TakingOK'
<1> SUFFICES ASSUME IInv, TakingOK, [Next]_vars
             PROVE  TakingOK'
  OBVIOUS
<1>1. /\ take \in Takes
      /\ data \in Seq(Contents)
      /\ queue \in Seq(Samples)
      /\ take.next # 0 => Len(data) = Len(take.batch)
  BY DEF IInv, TypeOK
<1>2. ASSUME NEW n \in 1 .. MaxQueue, NEW fresh \in BOOLEAN, Take(n, fresh)
      PROVE  TakingOK'
  <2>1. n \in 1 .. Len(queue) /\ take'.next = 1
        /\ take'.batch = SubSeq(queue, 1, n)
    BY <1>2 DEF Take, Lend
  <2>2. Len(SubSeq(queue, 1, n)) = n
    BY <1>1, <2>1
  <2> QED
    BY <2>1, <2>2 DEF TakingOK
<1>3. CASE ConvertSample
  <2> DEFINE k == take.next
             s == take.batch[k]
             new == IF s.valid THEN ReadDynamicData(s.content, data[k], Len(Kind))
                    ELSE Default
  <2>1. k \in 1 .. Len(take.batch) /\ k # 0
    BY <1>1, <1>3 DEF ConvertSample, Converting, Takes
  <2>2. data' = [data EXCEPT ![k] = new]
    BY <1>3 DEF ConvertSample
  <2>3. take'.next = k + 1 /\ take'.batch = take.batch
    BY <1>1, <1>3 DEF ConvertSample, Takes
  <2>4. \A i \in 1 .. Len(take.batch) :
          data'[i] = IF i = k THEN new ELSE data[i]
    BY <1>1, <2>1, <2>2
  <2>5. ~s.valid => new = Default
    OBVIOUS
  <2>6. \A i \in 1 .. Len(take.batch) : i < k + 1 => i < k \/ i = k
    BY <2>1
  <2> HIDE DEF new
  <2> QED
    BY <2>1, <2>3, <2>4, <2>5, <2>6 DEF TakingOK
<1>4. ASSUME NEW last \in 0 .. Len(Kind), ConvertThrows(last)
      PROVE  TakingOK'
  BY <1>1, <1>4 DEF ConvertThrows, TakingOK, Takes
<1>5. CASE ReturnLoan
  BY <1>1, <1>5 DEF ReturnLoan, TakingOK, Takes
<1>6. CASE UNCHANGED <<data, take>>
  BY <1>6 DEF TakingOK
<1> QED
  BY <1>2, <1>3, <1>4, <1>5, <1>6
     DEF Next, vars, reading, ConstructWriter, CopyWriter, DestroyWriter, Write,
         SetMember, SetMemberThrows, Publish, PublishFails, Lose, Dispose

-----------------------------------------------------------------------------
(* The samples under way and the messages they stand for.                  *)

Message(s) == [valid |-> s.valid, value |-> s.given]
Messages(q) == [i \in 1 .. Len(q) |-> Message(q[i])]

Sent == [valid : BOOLEAN, value : Data \cup {Default}]

absVector == IF take.result = "OK" THEN data ELSE <<>>

LEMMA MessagesFacts ==
  ASSUME NEW q \in Seq(Samples)
  PROVE  /\ Messages(q) \in Seq(Sent)
         /\ Len(Messages(q)) = Len(q)
         /\ \A i \in 1 .. Len(q) : Messages(q)[i] = Message(q[i])
<1>1. Len(q) \in Nat /\ \A i \in 1 .. Len(q) : q[i] \in Samples
  BY LenProperties, ElementOfSeq
<1>2. \A i \in 1 .. Len(q) : Message(q[i]) \in Sent
  BY <1>1 DEF Samples, Message, Sent
<1>3. Messages(q) \in [1 .. Len(q) -> Sent]
  BY <1>2 DEF Messages
<1> QED
  BY <1>1, <1>3 DEF Messages

LEMMA MessagesAppend ==
  ASSUME NEW q \in Seq(Samples), NEW s \in Samples
  PROVE  Messages(Append(q, s)) = Append(Messages(q), Message(s))
<1> DEFINE r == Append(q, s)
           t == Append(Messages(q), Message(s))
<1>1. /\ Messages(q) \in Seq(Sent)
      /\ Len(Messages(q)) = Len(q)
      /\ \A i \in 1 .. Len(q) : Messages(q)[i] = Message(q[i])
  BY MessagesFacts
<1>2. Message(s) \in Sent
  BY DEF Message, Samples, Sent
<1>3. /\ r \in Seq(Samples)
      /\ Len(r) = Len(q) + 1
      /\ \A i \in 1 .. Len(q) : r[i] = q[i]
      /\ r[Len(q) + 1] = s
  BY AppendProperties
<1>4. /\ t \in Seq(Sent)
      /\ Len(t) = Len(q) + 1
      /\ \A i \in 1 .. Len(q) : t[i] = Message(q[i])
      /\ t[Len(q) + 1] = Message(s)
  BY <1>1, <1>2, AppendProperties
<1> HIDE DEF r, t
<1>5. /\ Messages(r) \in Seq(Sent)
      /\ Len(Messages(r)) = Len(r)
      /\ \A i \in 1 .. Len(r) : Messages(r)[i] = Message(r[i])
  BY <1>3, MessagesFacts
<1>6. \A i \in 1 .. Len(r) : Messages(r)[i] = t[i]
  <2> TAKE i \in 1 .. Len(r)
  <2>1. Len(q) \in Nat
    BY LenProperties
  <2>2. i \in 1 .. Len(q) \/ i = Len(q) + 1
    BY <1>3, <2>1
  <2> QED
    BY <1>3, <1>4, <1>5, <2>2
<1>7. Messages(r) = t
  BY <1>3, <1>4, <1>5, <1>6, SeqEqual
<1> QED
  BY <1>7 DEF r, t

(* A part of the samples.                                                  *)
LEMMA MessagesSubSeq ==
  ASSUME NEW q \in Seq(Samples), NEW m \in 1 .. Len(q) + 1, NEW n \in 0 .. Len(q)
  PROVE  Messages(SubSeq(q, m, n)) = SubSeq(Messages(q), m, n)
<1> DEFINE r == SubSeq(q, m, n)
           t == SubSeq(Messages(q), m, n)
<1>1. /\ Messages(q) \in Seq(Sent)
      /\ Len(Messages(q)) = Len(q)
      /\ \A i \in 1 .. Len(q) : Messages(q)[i] = Message(q[i])
      /\ Len(q) \in Nat
  BY MessagesFacts, LenProperties
<1>2. \A i \in m .. n : q[i] \in Samples /\ Messages(q)[i] \in Sent
  BY <1>1, ElementOfSeq
<1>3. /\ r \in Seq(Samples)
      /\ Len(r) = IF m <= n THEN n - m + 1 ELSE 0
      /\ \A i \in 1 .. n - m + 1 : r[i] = q[m + i - 1]
  BY <1>1, <1>2, SubSeqProperties
<1>4. /\ t \in Seq(Sent)
      /\ Len(t) = IF m <= n THEN n - m + 1 ELSE 0
      /\ \A i \in 1 .. n - m + 1 : t[i] = Messages(q)[m + i - 1]
  BY <1>1, <1>2, SubSeqProperties
<1> HIDE DEF r, t
<1>5. /\ Messages(r) \in Seq(Sent)
      /\ Len(Messages(r)) = Len(r)
      /\ \A i \in 1 .. Len(r) : Messages(r)[i] = Message(r[i])
  BY <1>3, MessagesFacts
<1>6. \A i \in 1 .. Len(r) : Messages(r)[i] = t[i]
  <2> TAKE i \in 1 .. Len(r)
  <2>1. i \in 1 .. n - m + 1
    BY <1>1, <1>3
  <2>2. m + i - 1 \in 1 .. Len(q)
    BY <1>1, <2>1
  <2> QED
    BY <1>1, <1>3, <1>4, <1>5, <2>1, <2>2
<1>7. Messages(r) = t
  BY <1>3, <1>4, <1>5, <1>6, SeqEqual
<1> QED
  BY <1>7 DEF r, t
LEMMA MessagesConcat ==
  ASSUME NEW q \in Seq(Samples), NEW r \in Seq(Samples)
  PROVE  Messages(q \o r) = Messages(q) \o Messages(r)
<1> DEFINE l == q \o r
           t == Messages(q) \o Messages(r)
<1>1. /\ Messages(q) \in Seq(Sent)
      /\ Len(Messages(q)) = Len(q)
      /\ \A i \in 1 .. Len(q) : Messages(q)[i] = Message(q[i])
      /\ Len(q) \in Nat
  BY MessagesFacts, LenProperties
<1>2. /\ Messages(r) \in Seq(Sent)
      /\ Len(Messages(r)) = Len(r)
      /\ \A i \in 1 .. Len(r) : Messages(r)[i] = Message(r[i])
      /\ Len(r) \in Nat
  BY MessagesFacts, LenProperties
<1>3. /\ l \in Seq(Samples)
      /\ Len(l) = Len(q) + Len(r)
      /\ \A i \in 1 .. Len(q) + Len(r) :
           l[i] = IF i <= Len(q) THEN q[i] ELSE r[i - Len(q)]
  BY ConcatProperties
<1>4. /\ t \in Seq(Sent)
      /\ Len(t) = Len(q) + Len(r)
      /\ \A i \in 1 .. Len(q) + Len(r) :
           t[i] = IF i <= Len(q) THEN Messages(q)[i] ELSE Messages(r)[i - Len(q)]
  BY <1>1, <1>2, ConcatProperties
<1> HIDE DEF l, t
<1>5. /\ Messages(l) \in Seq(Sent)
      /\ Len(Messages(l)) = Len(l)
      /\ \A i \in 1 .. Len(l) : Messages(l)[i] = Message(l[i])
  BY <1>3, MessagesFacts
<1>6. \A i \in 1 .. Len(l) : Messages(l)[i] = t[i]
  <2> TAKE i \in 1 .. Len(l)
  <2>1. ~(i <= Len(q)) => i - Len(q) \in 1 .. Len(r)
    BY <1>1, <1>2, <1>3
  <2>2. i <= Len(q) => i \in 1 .. Len(q)
    BY <1>1, <1>2, <1>3
  <2> QED
    BY <1>1, <1>2, <1>3, <1>4, <1>5, <2>1, <2>2
<1>7. Messages(l) = t
  BY <1>3, <1>4, <1>5, <1>6, SeqEqual
<1> QED
  BY <1>7 DEF l, t

absQueue == Messages(UnderWay)

AbsVars == <<absQueue, absVector>>

(* The steps of ValueQueue in these terms.                                 *)
LEMMA AbstractInit ==
  absQueue = <<>> /\ absVector = <<>> => Abstract!Init
BY DEF absQueue, absVector, Messages, Message, Abstract!Init

LEMMA AbstractWrite ==
  ASSUME NEW d \in Sendable, UNCHANGED absVector,
         absQueue' = Append(absQueue, [valid |-> TRUE, value |-> d])
  PROVE  Abstract!Next
<1>1. Abstract!Write(d)
  BY DEF absQueue, absVector, Messages, Message, Abstract!Write
<1> QED
  BY <1>1 DEF Abstract!Next

LEMMA AbstractDispose ==
  ASSUME UNCHANGED absVector,
         absQueue' = Append(absQueue, [valid |-> FALSE, value |-> Default])
  PROVE  Abstract!Next
<1>1. Abstract!Dispose
  BY DEF absQueue, absVector, Messages, Message, Abstract!Dispose
<1> QED
  BY <1>1 DEF Abstract!Next

LEMMA AbstractLose ==
  ASSUME NEW i \in 1 .. Len(absQueue), UNCHANGED absVector,
         absQueue' = SubSeq(absQueue, 1, i - 1)
                       \o SubSeq(absQueue, i + 1, Len(absQueue))
  PROVE  Abstract!Next
<1>1. Abstract!Lose(i)
  BY DEF absQueue, absVector, Messages, Message, Abstract!Lose
<1> QED
  BY <1>1 DEF absQueue, Messages, Message, Abstract!Next

LEMMA AbstractGiveVector ==
  ASSUME UNCHANGED absQueue, absVector' = <<>>
  PROVE  Abstract!Next
<1>1. Abstract!GiveVector
  BY DEF absQueue, absVector, Messages, Message, Abstract!GiveVector
<1> QED
  BY <1>1 DEF Abstract!Next

LEMMA AbstractTake ==
  ASSUME NEW n \in 1 .. Len(absQueue),
         absQueue' = SubSeq(absQueue, n + 1, Len(absQueue)),
         Len(absVector') = n,
         \A i \in 1 .. n : Abstract!HandedOver(absVector'[i], absQueue[i])
  PROVE  Abstract!Next
<1>1. Abstract!Take(n)
  BY DEF absQueue, absVector, Messages, Message, Abstract!Take, Abstract!Remove
<1> QED
  BY <1>1 DEF absQueue, Messages, Message, Abstract!Next

LEMMA AbstractTakeThrows ==
  ASSUME NEW n \in 1 .. Len(absQueue), UNCHANGED absVector,
         absQueue' = SubSeq(absQueue, n + 1, Len(absQueue))
  PROVE  Abstract!Next
<1>1. Abstract!TakeThrows(n)
  BY DEF absQueue, absVector, Messages, Message, Abstract!TakeThrows,
         Abstract!Remove
<1> QED
  BY <1>1 DEF absQueue, Messages, Message, Abstract!Next

LEMMA UnderWayFacts ==
  ASSUME IInv
  PROVE  /\ UnderWay \in Seq(Samples)
         /\ queue \in Seq(Samples)
         /\ take.batch \in Seq(Samples)
         /\ Len(queue) \in Nat
         /\ Len(take.batch) \in Nat
<1>1. queue \in Seq(Samples) /\ take.batch \in Seq(Samples)
  BY DEF IInv, TypeOK, Takes
<1>2. take.batch \o queue \in Seq(Samples)
  BY <1>1, ConcatProperties
<1> QED
  BY <1>1, <1>2, LenProperties DEF UnderWay

-----------------------------------------------------------------------------
(* Sequences.                                                              *)

LEMMA AppendToConcat ==
  ASSUME NEW S, NEW a \in Seq(S), NEW b \in Seq(S), NEW e \in S
  PROVE  a \o Append(b, e) = Append(a \o b, e)
<1>1. <<e>> \in Seq(S) /\ a \o b \in Seq(S)
  BY ConcatProperties
<1>2. Append(b, e) = b \o <<e>> /\ Append(a \o b, e) = (a \o b) \o <<e>>
  BY <1>1, AppendIsConcat
<1>3. (a \o b) \o <<e>> = a \o (b \o <<e>>)
  BY <1>1, ConcatAssociative
<1> QED
  BY <1>2, <1>3

LEMMA TakenApart ==
  ASSUME NEW S, NEW q \in Seq(S), NEW n \in 0 .. Len(q)
  PROVE  SubSeq(q, 1, n) \o SubSeq(q, n + 1, Len(q)) = q
<1>1. Len(q) \in Nat
  BY LenProperties
<1>2. SubSeq(q, 1, n) \o SubSeq(q, n + 1, Len(q)) = SubSeq(q, 1, Len(q))
  <2>1. /\ 1 \in 1 .. Len(q) + 1
        /\ n \in 1 - 1 .. Len(q)
        /\ Len(q) \in n .. Len(q)
    BY <1>1
  <2> QED
    BY <2>1, ConcatAdjacentSubSeq
<1> QED
  BY <1>2, SubSeqFull

(* The front and the back of a concatenation.                              *)
LEMMA FrontOfConcat ==
  ASSUME NEW S, NEW a \in Seq(S), NEW b \in Seq(S)
  PROVE  SubSeq(a \o b, 1, Len(a)) = a
<1>1. Len(a) \in Nat
  BY LenProperties
<1>2. CASE Len(a) = 0
  <2>1. a = <<>>
    BY <1>2, EmptySeq, SeqEqual
  <2>2. SubSeq(a \o b, 1, 0) = <<>>
    BY SubSeqEmpty
  <2> QED
    BY <1>2, <2>1, <2>2
<1>3. CASE Len(a) # 0
  <2>1. 1 \in 1 .. Len(a) /\ Len(a) \in 1 .. Len(a)
    BY <1>1, <1>3
  <2>2. SubSeq(a \o b, 1, Len(a)) = SubSeq(a, 1, Len(a))
    BY <2>1, SubSeqOfConcat1
  <2> QED
    BY <2>2, SubSeqFull
<1> QED
  BY <1>2, <1>3

LEMMA BackOfConcat ==
  ASSUME NEW S, NEW a \in Seq(S), NEW b \in Seq(S), NEW i \in 1 .. Len(b) + 1
  PROVE  SubSeq(a \o b, Len(a) + i, Len(a \o b)) = SubSeq(b, i, Len(b))
<1>1. /\ Len(a) \in Nat
      /\ Len(b) \in Nat
      /\ Len(a \o b) = Len(a) + Len(b)
  BY LenProperties, ConcatProperties
<1>2. CASE i = Len(b) + 1
  <2>1. /\ Len(a) + i \in Int
        /\ Len(a) + Len(b) \in Int
        /\ Len(a) + Len(b) < Len(a) + i
        /\ Len(b) \in Int
        /\ i \in Int
        /\ Len(b) < i
    BY <1>1, <1>2
  <2>2. SubSeq(a \o b, Len(a) + i, Len(a) + Len(b)) = <<>>
    BY <2>1, SubSeqEmpty
  <2>3. SubSeq(b, i, Len(b)) = <<>>
    BY <2>1, SubSeqEmpty
  <2> QED
    BY <1>1, <2>2, <2>3
<1>3. CASE i # Len(b) + 1
  <2>1. /\ Len(a) + i \in Len(a) + 1 .. Len(a) + Len(b)
        /\ Len(a) + Len(b) \in Len(a) + 1 .. Len(a) + Len(b)
    BY <1>1, <1>3
  <2>2. SubSeq(a \o b, Len(a) + i, Len(a) + Len(b)) =
          SubSeq(b, Len(a) + i - Len(a), Len(a) + Len(b) - Len(a))
    BY <2>1, SubSeqOfConcat2
  <2>3. Len(a) + i - Len(a) = i /\ Len(a) + Len(b) - Len(a) = Len(b)
    BY <1>1
  <2> QED
    BY <1>1, <2>2, <2>3
<1> QED
  BY <1>2, <1>3

-----------------------------------------------------------------------------
(* What the steps do to the samples under way.                             *)

(* A sample is published.                                                  *)
LEMMA UnderWayAppend ==
  ASSUME IInv, NEW s \in Samples, queue' = Append(queue, s), UNCHANGED take
  PROVE  UnderWay' = Append(UnderWay, s)
<1> DEFINE b == take.batch
<1>1. queue \in Seq(Samples) /\ b \in Seq(Samples)
  BY UnderWayFacts
<1>2. UnderWay = (IF take.next # 0 THEN b \o queue ELSE queue)
  BY DEF UnderWay
<1>3. UnderWay' = (IF take.next # 0 THEN b \o Append(queue, s)
                   ELSE Append(queue, s))
  BY DEF UnderWay
<1> HIDE DEF b
<1>4. b \o Append(queue, s) = Append(b \o queue, s)
  BY <1>1, AppendToConcat
<1> QED
  BY <1>2, <1>3, <1>4

(* The first sample of queue is lost, which is behind those borrowed.      *)
LEMMA UnderWayLose ==
  ASSUME IInv, Lose
  PROVE  \E i \in 1 .. Len(UnderWay) :
           UnderWay' = SubSeq(UnderWay, 1, i - 1)
                         \o SubSeq(UnderWay, i + 1, Len(UnderWay))
<1> DEFINE b == IF take.next # 0 THEN take.batch ELSE <<>>
           u == b \o queue
           t == Tail(queue)
           k == Len(b) + 1
<1>1. /\ b \in Seq(Samples)
      /\ queue \in Seq(Samples)
      /\ queue # <<>>
      /\ queue' = t
      /\ UNCHANGED take
  BY UnderWayFacts, EmptySeq DEF Lose, reading
<1>2. t \in Seq(Samples) /\ t = SubSeq(queue, 2, Len(queue))
  BY <1>1, HeadTailProperties, TailIsSubSeq
<1> HIDE DEF t
<1>3. UnderWay = u /\ UnderWay' = b \o t
  BY <1>1, <1>2, ConcatEmptySeq DEF UnderWay
<1> HIDE DEF b
<1>4. /\ Len(b) \in Nat
      /\ Len(queue) \in Nat
      /\ Len(queue) # 0
      /\ Len(u) = Len(b) + Len(queue)
  BY <1>1, LenProperties, EmptySeq, SeqEqual, ConcatProperties
<1>5. SubSeq(u, 1, Len(b)) = b
  BY <1>1, FrontOfConcat
<1>6. SubSeq(u, Len(b) + 2, Len(u)) = t
  <2>1. 2 \in 1 .. Len(queue) + 1
    BY <1>4
  <2> QED
    BY <1>1, <1>2, <2>1, BackOfConcat
<1> HIDE DEF u
<1>7. k \in 1 .. Len(u) /\ k - 1 = Len(b) /\ k + 1 = Len(b) + 2
  BY <1>4
<1> HIDE DEF k
<1>8. UnderWay' = SubSeq(u, 1, k - 1) \o SubSeq(u, k + 1, Len(u))
  BY <1>3, <1>5, <1>6, <1>7
<1> QED
  BY <1>3, <1>7, <1>8

(* What is borrowed is given up.                                           *)
LEMMA UnderWayEnd ==
  ASSUME IInv, take.next # 0, take'.next = 0, UNCHANGED queue
  PROVE  /\ UnderWay' = SubSeq(UnderWay, Len(take.batch) + 1, Len(UnderWay))
         /\ Len(take.batch) \in 0 .. Len(UnderWay)
         /\ \A i \in 1 .. Len(take.batch) : UnderWay[i] = take.batch[i]
<1> DEFINE b == take.batch
           u == b \o queue
<1>1. /\ b \in Seq(Samples)
      /\ queue \in Seq(Samples)
      /\ Len(queue) \in Nat
      /\ Len(b) \in Nat
  BY UnderWayFacts
<1>2. UnderWay = u /\ UnderWay' = queue
  BY DEF UnderWay
<1> HIDE DEF b
<1>3. SubSeq(u, Len(b) + 1, Len(u)) = queue
  <2>1. 1 \in 1 .. Len(queue) + 1
    BY <1>1
  <2> QED
    BY <1>1, <2>1, BackOfConcat, SubSeqFull
<1>4. Len(b) \in 0 .. Len(u) /\ \A i \in 1 .. Len(b) : u[i] = b[i]
  <2>1. /\ Len(u) = Len(b) + Len(queue)
        /\ \A i \in 1 .. Len(b) + Len(queue) :
             u[i] = IF i <= Len(b) THEN b[i] ELSE queue[i - Len(b)]
    BY <1>1, ConcatProperties
  <2> HIDE DEF u
  <2> QED
    BY <1>1, <2>1
<1> QED
  BY <1>2, <1>3, <1>4 DEF b

(* Samples are borrowed.                                                   *)
LEMMA UnderWayTake ==
  ASSUME IInv, NEW n \in 1 .. MaxQueue, NEW fresh \in BOOLEAN, Take(n, fresh)
  PROVE  UnderWay' = UnderWay
<1>1. /\ queue \in Seq(Samples)
      /\ Len(queue) \in Nat
      /\ n \in 1 .. Len(queue)
      /\ UnderWay = queue
      /\ UnderWay' = SubSeq(queue, 1, n) \o SubSeq(queue, n + 1, Len(queue))
  BY UnderWayFacts DEF Take, Lend, UnderWay
<1>2. n \in 0 .. Len(queue)
  BY <1>1
<1> QED
  BY <1>1, <1>2, TakenApart

Inv == IInv /\ SendingOK /\ TakingOK

LEMMA SameUnderWay ==
  ASSUME UNCHANGED <<queue, take, data>>
  PROVE  UNCHANGED AbsVars
<1>1. UNCHANGED UnderWay /\ UNCHANGED absVector
  BY DEF UnderWay, absVector
<1> QED
  BY <1>1 DEF AbsVars, absQueue, Messages, Message

LEMMA MapPublish ==
  ASSUME Inv, NEW w \in Writers, Publish(w)
  PROVE  Abstract!Next
<1> DEFINE c == call[w]
           s == [valid |-> TRUE, given |-> c.given, content |-> dd_instance_[w],
                 blank |-> c.blank]
<1>1. /\ c \in Calls
      /\ dd_instance_[w] \in Contents
      /\ c.next = Len(Kind) + 1
      /\ Len(Kind) \in Nat
      /\ queue' = Append(queue, s)
      /\ UNCHANGED <<take, data>>
  BY PathConstants DEF Inv, IInv, TypeOK, Publish, reading
<1>2. s \in Samples
  BY <1>1 DEF Samples, Calls
<1>3. c.given \in Sendable
  <2>1. \A m \in Members : m < c.next
    BY <1>1 DEF Members
  <2> QED
    BY <1>1, <2>1 DEF Inv, SendingOK, Sendable
<1>4. Message(s) = [valid |-> TRUE, value |-> c.given]
  BY DEF Message
<1> HIDE DEF s, c
<1>5. UnderWay' = Append(UnderWay, s) /\ UnderWay \in Seq(Samples)
  BY <1>1, <1>2, UnderWayAppend, UnderWayFacts DEF Inv
<1>6. absQueue' = Append(absQueue, Message(s))
  BY <1>2, <1>5, MessagesAppend DEF absQueue
<1>7. UNCHANGED absVector
  BY <1>1 DEF absVector
<1> QED
  BY <1>3, <1>4, <1>6, <1>7, AbstractWrite

LEMMA MapDispose ==
  ASSUME Inv, Dispose
  PROVE  Abstract!Next
<1> DEFINE s == [valid |-> FALSE, given |-> Default, content |-> Blank,
                 blank |-> FALSE]
<1>1. s \in Samples /\ Message(s) = [valid |-> FALSE, value |-> Default]
  BY BlankAndDefault DEF Samples, Message
<1>2. queue' = Append(queue, s) /\ UNCHANGED <<take, data>>
  BY DEF Dispose, reading
<1> HIDE DEF s
<1>3. UnderWay' = Append(UnderWay, s) /\ UnderWay \in Seq(Samples)
  BY <1>1, <1>2, UnderWayAppend, UnderWayFacts DEF Inv
<1>4. absQueue' = Append(absQueue, Message(s))
  BY <1>1, <1>3, MessagesAppend DEF absQueue
<1>5. UNCHANGED absVector
  BY <1>2 DEF absVector
<1> QED
  BY <1>1, <1>4, <1>5, AbstractDispose

LEMMA MapLose ==
  ASSUME Inv, Lose
  PROVE  Abstract!Next
<1> DEFINE u == UnderWay
<1>1. u \in Seq(Samples) /\ Len(u) \in Nat
  BY UnderWayFacts, LenProperties DEF Inv
<1>2. PICK i \in 1 .. Len(u) :
        UnderWay' = SubSeq(u, 1, i - 1) \o SubSeq(u, i + 1, Len(u))
  BY UnderWayLose DEF Inv
<1> HIDE DEF u
<1> DEFINE a == SubSeq(u, 1, i - 1)
           b == SubSeq(u, i + 1, Len(u))
<1>3. i - 1 \in 0 .. Len(u) /\ i + 1 \in 1 .. Len(u) + 1 /\ Len(u) \in 0 .. Len(u)
      /\ 1 \in 1 .. Len(u) + 1
  BY <1>1
<1>4. /\ Messages(a) = SubSeq(Messages(u), 1, i - 1)
      /\ Messages(b) = SubSeq(Messages(u), i + 1, Len(u))
  BY <1>1, <1>3, MessagesSubSeq
<1>5. a \in Seq(Samples) /\ b \in Seq(Samples)
  BY <1>1, <1>3
<1> HIDE DEF a, b
<1>6. Messages(a \o b) = Messages(a) \o Messages(b)
  BY <1>5, MessagesConcat
<1>7. Len(Messages(u)) = Len(u)
  BY <1>1, MessagesFacts
<1>8. absQueue = Messages(u) /\ absQueue' = Messages(a \o b)
  BY <1>2 DEF absQueue, u, a, b
<1>9. UNCHANGED absVector
  BY DEF Lose, reading, absVector
<1> QED
  BY <1>4, <1>6, <1>7, <1>8, <1>9, AbstractLose

(* take returns what it has converted.                                     *)
LEMMA MapReturnLoan ==
  ASSUME Inv, ReturnLoan
  PROVE  Abstract!Next
<1> DEFINE b == take.batch
           u == UnderWay
           n == Len(b)
<1>1. /\ take \in Takes
      /\ take.next # 0
      /\ take.next = n + 1
      /\ take' = [take EXCEPT !.next = 0, !.result = "OK"]
      /\ UNCHANGED <<queue, data>>
      /\ data \in Seq(Contents)
      /\ Len(data) = n
      /\ n \in Nat
      /\ n > 0
  BY UnderWayFacts DEF Inv, IInv, TypeOK, TakingOK, ReturnLoan
<1>2. take'.next = 0 /\ take'.result = "OK"
  BY <1>1 DEF Takes
<1>3. /\ UnderWay' = SubSeq(u, n + 1, Len(u))
      /\ n \in 0 .. Len(u)
      /\ \A i \in 1 .. n : u[i] = b[i]
      /\ u \in Seq(Samples)
      /\ Len(u) \in Nat
  BY <1>1, <1>2, UnderWayEnd, UnderWayFacts, LenProperties DEF Inv
<1>4. absVector' = data
  BY <1>1, <1>2 DEF absVector
<1>5. \A i \in 1 .. n : data[i] \in Contents
  BY <1>1, ElementOfSeq
<1>6. \A i \in 1 .. n : b[i].valid =>
        \A m \in Members : b[i].given[m] # None => data[i][m] = b[i].given[m]
  BY <1>1 DEF Inv, IInv, DataOK, ElementOK
<1>7. \A i \in 1 .. n : ~b[i].valid => data[i] = Default
  BY <1>1 DEF Inv, TakingOK
<1> HIDE DEF u, b
<1>8. absQueue = Messages(u) /\ absQueue' = Messages(SubSeq(u, n + 1, Len(u)))
  BY <1>3 DEF absQueue, u
<1>9. /\ Len(Messages(u)) = Len(u)
      /\ \A i \in 1 .. Len(u) : Messages(u)[i] = Message(u[i])
  BY <1>3, MessagesFacts
<1>10. absQueue' = SubSeq(absQueue, n + 1, Len(absQueue))
  <2>1. n + 1 \in 1 .. Len(u) + 1 /\ Len(u) \in 0 .. Len(u)
    BY <1>3
  <2> QED
    BY <1>3, <1>8, <1>9, <2>1, MessagesSubSeq
<1>11. \A i \in 1 .. n : Abstract!HandedOver(absVector'[i], absQueue[i])
  <2> TAKE i \in 1 .. n
  <2>1. absQueue[i] = [valid |-> b[i].valid, value |-> b[i].given]
    BY <1>3, <1>8, <1>9 DEF Message
  <2> QED
    BY <1>4, <1>5, <1>6, <1>7, <2>1 DEF Abstract!HandedOver
<1>12. n \in 1 .. Len(absQueue) /\ Len(absVector') = n
  BY <1>1, <1>3, <1>4, <1>8, <1>9
<1> QED
  BY <1>10, <1>11, <1>12, AbstractTake

(* take throws: what it had borrowed is gone.                              *)
LEMMA MapConvertThrows ==
  ASSUME Inv, NEW last \in 0 .. Len(Kind), ConvertThrows(last)
  PROVE  Abstract!Next
<1> DEFINE b == take.batch
           u == UnderWay
           n == Len(b)
<1>1. /\ take \in Takes
      /\ take.next # 0
      /\ take' = [take EXCEPT !.next = 0, !.result = "thrown"]
      /\ UNCHANGED queue
      /\ take.result # "OK"
      /\ n \in Nat
      /\ n > 0
  BY UnderWayFacts
     DEF Inv, IInv, TypeOK, DataOK, TakingOK, ConvertThrows, Converting
<1>2. take'.next = 0 /\ take'.result = "thrown"
  BY <1>1 DEF Takes
<1>3. /\ UnderWay' = SubSeq(u, n + 1, Len(u))
      /\ n \in 0 .. Len(u)
      /\ u \in Seq(Samples)
      /\ Len(u) \in Nat
  BY <1>1, <1>2, UnderWayEnd, UnderWayFacts, LenProperties DEF Inv
<1>4. UNCHANGED absVector
  BY <1>1, <1>2 DEF absVector
<1> HIDE DEF u, b
<1>5. absQueue = Messages(u) /\ absQueue' = Messages(SubSeq(u, n + 1, Len(u)))
  BY <1>3 DEF absQueue, u
<1>6. Len(Messages(u)) = Len(u)
  BY <1>3, MessagesFacts
<1>7. absQueue' = SubSeq(absQueue, n + 1, Len(absQueue))
  <2>1. n + 1 \in 1 .. Len(u) + 1 /\ Len(u) \in 0 .. Len(u)
    BY <1>3
  <2> QED
    BY <1>3, <1>5, <1>6, <2>1, MessagesSubSeq
<1>8. n \in 1 .. Len(absQueue)
  BY <1>1, <1>3, <1>5, <1>6
<1> QED
  BY <1>4, <1>7, <1>8, AbstractTakeThrows

LEMMA MapTake ==
  ASSUME Inv, NEW n \in 1 .. MaxQueue, NEW fresh \in BOOLEAN, Take(n, fresh)
  PROVE  Abstract!Next
<1>1. UNCHANGED absQueue
  BY UnderWayTake DEF Inv, absQueue, Messages, Message
<1>2. absVector' = <<>>
  BY DEF Take, Lend, absVector
<1> QED
  BY <1>1, <1>2, AbstractGiveVector

(* What a take in progress has converted is not handed over yet.           *)
LEMMA MapConvertSample ==
  ASSUME Inv, ConvertSample
  PROVE  UNCHANGED AbsVars
<1>1. /\ take \in Takes
      /\ take.next \in Nat
      /\ take.next # 0
      /\ take.result # "OK"
      /\ take' = [take EXCEPT !.next = take.next + 1]
      /\ UNCHANGED queue
  BY DEF Inv, IInv, TypeOK, DataOK, ConvertSample, Converting, Takes
<1>2. /\ take'.next # 0
      /\ take'.batch = take.batch
      /\ take'.result = take.result
  BY <1>1 DEF Takes
<1>3. UNCHANGED UnderWay
  BY <1>1, <1>2 DEF UnderWay
<1>4. UNCHANGED absVector
  BY <1>1, <1>2 DEF absVector
<1> QED
  BY <1>3, <1>4 DEF AbsVars, absQueue, Messages, Message

LEMMA MapStep == Inv /\ [Next]_vars => [Abstract!Next]_AbsVars
<1> SUFFICES ASSUME Inv, [Next]_vars
             PROVE  Abstract!Next \/ UNCHANGED AbsVars
  OBVIOUS
<1>1. ASSUME NEW w \in Writers, Publish(w)
      PROVE  Abstract!Next
  BY <1>1, MapPublish
<1>2. ASSUME NEW n \in 1 .. MaxQueue, NEW fresh \in BOOLEAN, Take(n, fresh)
      PROVE  Abstract!Next
  BY <1>2, MapTake
<1>3. ASSUME NEW last \in 0 .. Len(Kind), ConvertThrows(last)
      PROVE  Abstract!Next
  BY <1>3, MapConvertThrows
<1>4. CASE Dispose
  BY <1>4, MapDispose
<1>5. CASE Lose
  BY <1>5, MapLose
<1>6. CASE ReturnLoan
  BY <1>6, MapReturnLoan
<1>7. CASE ConvertSample
  BY <1>7, MapConvertSample
<1>8. CASE UNCHANGED <<queue, take, data>>
  BY <1>8, SameUnderWay
<1> QED
  BY <1>1, <1>2, <1>3, <1>4, <1>5, <1>6, <1>7, <1>8
     DEF Next, vars, reading, ConstructWriter, CopyWriter, DestroyWriter, Write,
         SetMember, SetMemberThrows, PublishFails

(* DataPath implements ValueQueue (QueueOfValues): whatever fails and      *)
(* however the steps of writers and of take interleave, a write that       *)
(* returns puts its value as a whole at the end of the queue, one that     *)
(* throws puts nothing there, and a take that returns hands over as many   *)
(* values as it removes from the front, in their order, as they were       *)
(* given but for absent members.                                           *)
THEOREM ImplementsValueQueue == Spec => QueueOfValues
<1>1. Init => Inv
  BY InitEstablishesIInv, InitSending DEF Inv
<1>2. Inv /\ [Next]_vars => Inv'
  BY NextKeepsIInv, StepSending, StepTaking DEF Inv
<1>3. Init => Abstract!Init
  <2> SUFFICES ASSUME Init
               PROVE  absQueue = <<>> /\ absVector = <<>>
    BY AbstractInit
  <2>1. UnderWay = <<>> /\ absVector = <<>>
    BY DEF Init, NoTake, UnderWay, absVector
  <2> QED
    BY <2>1 DEF absQueue, Messages
<1>4. Inv /\ [Next]_vars => [Abstract!Next]_AbsVars
  BY MapStep
<1> QED
  BY <1>1, <1>2, <1>3, <1>4, PTL
     DEF Spec, QueueOfValues, Abstract!Spec, AbsVars, absQueue, absVector,
         Messages, Message
=============================================================================
