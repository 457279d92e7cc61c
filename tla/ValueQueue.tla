----------------------------- MODULE ValueQueue -----------------------------
(***************************************************************************)
(* What GenericDataWriter and GenericDataReader promise for values, with   *)
(* no DDS_DynamicData, no half-written instance and no half-read vector in *)
(* sight: writers put whole values at the end of a queue, a take removes   *)
(* some from its front and hands them to its caller, in order and as they  *)
(* were given, but for members that were absent then.  DataPath implements *)
(* this specification: see QueueOfValues there.                            *)
(***************************************************************************)
EXTENDS Naturals, Sequences

CONSTANTS
  Members,   \* of the user's type
  Data,      \* the values that can be sent
  Contents,  \* the values an object can have
  Default,   \* that of a new one
  None       \* a member that is absent, or an empty vector

VARIABLES
  queue,     \* the values on their way; what is not valid carries none
  vector     \* what the last take handed to its caller

Init == queue = <<>> /\ vector = <<>>

(* The value v is handed over for the message m.                           *)
HandedOver(v, m) ==
  IF m.valid
  THEN v \in Contents /\ \A k \in Members : m.value[k] # None => v[k] = m.value[k]
  ELSE v = Default

Write(d) ==
  /\ queue' = Append(queue, [valid |-> TRUE, value |-> d])
  /\ UNCHANGED vector

Dispose ==
  /\ queue' = Append(queue, [valid |-> FALSE, value |-> Default])
  /\ UNCHANGED vector

Lose(i) ==
  /\ queue' = SubSeq(queue, 1, i - 1) \o SubSeq(queue, i + 1, Len(queue))
  /\ UNCHANGED vector

(* take is called: it has the vector from now on.                          *)
GiveVector == vector' = <<>> /\ UNCHANGED queue

Remove(n) == queue' = SubSeq(queue, n + 1, Len(queue))

Take(n) ==
  /\ Remove(n)
  /\ Len(vector') = n
  /\ \A i \in 1 .. n : HandedOver(vector'[i], queue[i])

(* What a take that throws has removed is gone.                            *)
TakeThrows(n) == Remove(n) /\ UNCHANGED vector

Next ==
  \/ \E d \in Data : Write(d)
  \/ Dispose
  \/ \E i \in 1 .. Len(queue) : Lose(i)
  \/ GiveVector
  \/ \E n \in 1 .. Len(queue) : Take(n) \/ TakeThrows(n)

Spec == Init /\ [][Next]_<<queue, vector>>
=============================================================================
