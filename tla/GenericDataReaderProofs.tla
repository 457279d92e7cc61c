----------------------- MODULE GenericDataReaderProofs -----------------------
(***************************************************************************)
(* The safety properties of GenericDataReader, proved for any number of    *)
(* GenericDataReader variables and samples, any limit on loans, whichever  *)
(* calls may fail, and whatever the application and the publishers do when.*)
(***************************************************************************)
EXTENDS GenericDataReader, FiniteSetTheorems, TLAPS

One(p) == IF p THEN 1 ELSE 0

(* Who has samples in take: LoansAccounted without Cardinality, and a      *)
(* thread outside take has none.                                           *)
TakesOK ==
  /\ loans = One(taking["app"]) + One(taking["mw"]) + leaked
  /\ \A t \in Threads : ~taking[t] => batch[t] = {}
  /\ NoSampleVanishes

SomeLive == \E h \in Handles : Live(h)

(* How far the constructor is.  A constructor that got past create_topic   *)
(* is the first one: there is no object yet.                               *)
CtorOK ==
  /\ ctor.step = "none" <=> ctor.self = NULL
  /\ \A h \in Handles : handle[h] = "building" <=> ctor.self = h
  /\ "topic" \notin entities => reader = "none"
  /\ ctor.step \in {"create_subscriber", "create_datareader"} =>
       "topic" \in entities /\ reader = "none"
  /\ reader = "none" => safe_datareader_ = "none" /\ listener = NULL
  /\ ctor.step = "narrow" => safe_datareader_ = "none"
  /\ ctor.step = "set_datareader" => safe_datareader_ = "held"
  /\ ctor.step \in {"narrow", "set_datareader"} =>
       reader = "enabled" /\ listener = shares[ctor.self]
  /\ safe_datareader_ = "none" \/ ctor.step = "set_datareader" =>
       /\ \A h \in Handles : handle[h] \in {"none", "building"}
       /\ \A t \in Threads : ~taking[t]

(* All objects share one adapter, the one the DataReader calls, and it is  *)
(* there as long as they are.                                              *)
AdaptersOK ==
  /\ \A h \in Handles :
       /\ handle[h] = "none" => shares[h] = NULL
       /\ handle[h] = "building" => shares[h] \in {NULL, h}
       /\ handle[h] \in {"live", "dying"} => shares[h] = listener
       /\ shares[h] # NULL => adapter[shares[h]] = "alive"
  /\ listener # NULL => adapter[listener] # "none"
  /\ ctor.step \in {"register_type", "create_topic", "create_subscriber",
                    "create_datareader"} => listener # ctor.self

(* The application does one thing at a time.                               *)
OneDestructor ==
  \A h \in Handles :
    handle[h] = "dying" =>
      /\ ctor = NoCtor
      /\ ~taking["app"]
      /\ \A g \in Handles : handle[g] = "dying" => g = h

(* Who keeps the DataReader: an object, or a take in a callback.           *)
SharesOK ==
  /\ safe_datareader_ = "held" =>
       ctor.step = "set_datareader" \/ SomeLive \/ taking["mw"]
  /\ SomeLive => safe_datareader_ = "held" /\ reader = "enabled"
  /\ taking["app"] => SomeLive
  /\ taking["mw"] => callback # NULL /\ safe_datareader_ = "held"
  /\ callback # NULL => listener # NULL
  /\ safe_datareader_ = "expiring" =>
       \E h \in Handles : handle[h] = "dying"
  /\ safe_datareader_ = "released" => reader = "deleted" \/ LoanLeaked
  /\ safe_datareader_ = "abandoned" => listener # NULL /\ ~QuietStop
  /\ QuietStop /\ callback # NULL => Live(callback)

IInv ==
  /\ TypeOK
  /\ TakesOK
  /\ CtorOK
  /\ AdaptersOK
  /\ OneDestructor
  /\ SharesOK
  /\ ListenerOutlivesReader

-----------------------------------------------------------------------------
(* What IInv says of the properties that are not conjuncts of it.          *)

LEMMA TakingCount ==
  ASSUME TypeOK
  PROVE  Cardinality({t \in Threads : taking[t]}) =
           One(taking["app"]) + One(taking["mw"])
<1> DEFINE T == {t \in Threads : taking[t]}
<1>1. CASE ~taking["app"] /\ ~taking["mw"]
  <2>1. T = {}
    BY <1>1 DEF Threads
  <2> QED
    BY <1>1, <2>1, FS_EmptySet DEF One
<1>2. CASE taking["app"] /\ ~taking["mw"]
  <2>1. T = {"app"}
    BY <1>2 DEF Threads
  <2> QED
    BY <1>2, <2>1, FS_Singleton DEF One
<1>3. CASE ~taking["app"] /\ taking["mw"]
  <2>1. T = {"mw"}
    BY <1>3 DEF Threads
  <2>2. Cardinality(T) = 1
    BY <2>1, FS_Singleton
  <2>3. One(taking["app"]) = 0 /\ One(taking["mw"]) = 1
    BY <1>3 DEF One
  <2> QED
    BY <2>2, <2>3
<1>4. CASE taking["app"] /\ taking["mw"]
  <2>1. T = {"app"} \cup {"mw"} /\ "mw" \notin {"app"}
    BY <1>4 DEF Threads
  <2>2. Cardinality({"app"}) = 1 /\ IsFiniteSet({"app"})
    BY FS_Singleton
  <2>3. Cardinality({"app"} \cup {"mw"}) = 2
    BY <2>1, <2>2, FS_AddElement
  <2> QED
    BY <1>4, <2>1, <2>3 DEF One
<1> QED
  BY <1>1, <1>2, <1>3, <1>4

LEMMA LoansFollow == IInv => LoansAccounted
  BY TakingCount DEF IInv, TakesOK, LoansAccounted

LEMMA CleanShutdownFollows == IInv => CleanShutdown
  BY DEF IInv, SharesOK, CleanShutdown, SomeLive

LEMMA InitEstablishesIInv == Init => IInv
<1> SUFFICES ASSUME Init
             PROVE  IInv
  OBVIOUS
<1> USE ReaderConstants DEF Init, NoCtor
<1>1. TypeOK
  BY DEF TypeOK, CtorSteps
<1>2. TakesOK
  BY DEF TakesOK, NoSampleVanishes, Threads, One
<1>3. CtorOK /\ AdaptersOK /\ OneDestructor
  BY DEF CtorOK, AdaptersOK, OneDestructor, Threads
<1>4. SharesOK
  BY DEF SharesOK, SomeLive, Live, Threads
<1>5. ListenerOutlivesReader
  BY DEF ListenerOutlivesReader
<1> QED
  BY <1>1, <1>2, <1>3, <1>4, <1>5 DEF IInv

-----------------------------------------------------------------------------
(* Every action keeps IInv.                                                *)

LEMMA ConstructKeepsIInv ==
  ASSUME IInv, NEW h \in Handles, NEW l \in BOOLEAN, Construct(h, l)
  PROVE  IInv'
<1> USE ReaderConstants DEF IInv, Construct, AppIdle, Running, dds, arrivals,
        takes
<1>1. TypeOK'
  BY DEF TypeOK, CtorSteps
<1>2. TakesOK'
  BY DEF TakesOK, NoSampleVanishes
<1>3. CtorOK'
  BY DEF CtorOK, TypeOK, NoCtor
<1>4. AdaptersOK'
  BY DEF AdaptersOK, TypeOK
<1>5. OneDestructor'
  BY DEF OneDestructor
<1>6. SharesOK'
  BY DEF SharesOK, TypeOK, LoanLeaked, SomeLive, Live, NoCtor
<1>7. ListenerOutlivesReader'
  BY DEF ListenerOutlivesReader, AdaptersOK, LoanLeaked
<1> QED
  BY <1>1, <1>2, <1>3, <1>4, <1>5, <1>6, <1>7

LEMMA RegisterTypeKeepsIInv ==
  ASSUME IInv, RegisterType
  PROVE  IInv'
<1> USE ReaderConstants DEF IInv, RegisterType, At, GoTo, Running, objects,
        dds, arrivals, takes
<1>1. TypeOK'
  BY DEF TypeOK, CtorSteps
<1>2. TakesOK'
  BY DEF TakesOK, NoSampleVanishes
<1>3. CtorOK'
  BY DEF CtorOK
<1>4. AdaptersOK'
  BY DEF AdaptersOK
<1>5. OneDestructor'
  BY DEF OneDestructor, NoCtor
<1>6. SharesOK'
  BY DEF SharesOK, LoanLeaked, SomeLive, Live
<1>7. ListenerOutlivesReader'
  BY DEF ListenerOutlivesReader, LoanLeaked
<1> QED
  BY <1>1, <1>2, <1>3, <1>4, <1>5, <1>6, <1>7

LEMMA CreateTopicKeepsIInv ==
  ASSUME IInv, CreateTopic
  PROVE  IInv'
<1> USE ReaderConstants DEF IInv, CreateTopic, At, GoTo, Running, objects,
        arrivals, takes
<1>1. TypeOK'
  BY DEF TypeOK, CtorSteps
<1>2. TakesOK'
  BY DEF TakesOK, NoSampleVanishes
<1>3. CtorOK'
  BY DEF CtorOK
<1>4. AdaptersOK'
  BY DEF AdaptersOK
<1>5. OneDestructor'
  BY DEF OneDestructor, CtorOK
<1>6. SharesOK'
  BY DEF SharesOK, LoanLeaked, SomeLive, Live
<1>7. ListenerOutlivesReader'
  BY DEF ListenerOutlivesReader, LoanLeaked
<1> QED
  BY <1>1, <1>2, <1>3, <1>4, <1>5, <1>6, <1>7

LEMMA CreateSubscriberKeepsIInv ==
  ASSUME IInv, CreateSubscriber
  PROVE  IInv'
<1> USE ReaderConstants DEF IInv, CreateSubscriber, At, GoTo, Running,
        objects, arrivals, takes
<1>1. TypeOK'
  BY DEF TypeOK, CtorSteps
<1>2. TakesOK'
  BY DEF TakesOK, NoSampleVanishes
<1>3. CtorOK'
  BY DEF CtorOK
<1>4. AdaptersOK'
  BY DEF AdaptersOK
<1>5. OneDestructor'
  BY DEF OneDestructor, CtorOK
<1>6. SharesOK'
  BY DEF SharesOK, LoanLeaked, SomeLive, Live
<1>7. ListenerOutlivesReader'
  BY DEF ListenerOutlivesReader, LoanLeaked
<1> QED
  BY <1>1, <1>2, <1>3, <1>4, <1>5, <1>6, <1>7

LEMMA CreateDataReaderKeepsIInv ==
  ASSUME IInv, CreateDataReader
  PROVE  IInv'
<1> USE ReaderConstants DEF IInv, CreateDataReader, At, GoTo, Running,
        objects, arrivals, takes
<1>1. /\ ctor.self \in Handles
      /\ ctor' = [step |-> "narrow", self |-> ctor.self]
  BY DEF TypeOK, CtorOK
<1>2. TypeOK'
  BY <1>1 DEF TypeOK, CtorSteps
<1>3. TakesOK'
  BY DEF TakesOK, NoSampleVanishes
<1>4. CtorOK'
  BY <1>1 DEF CtorOK
<1>5. AdaptersOK'
  BY <1>1 DEF AdaptersOK, CtorOK
<1>6. OneDestructor'
  BY DEF OneDestructor, CtorOK
<1>7. SharesOK'
  BY DEF SharesOK, CtorOK, SomeLive, Live
<1>8. ListenerOutlivesReader'
  BY DEF ListenerOutlivesReader, CtorOK, AdaptersOK, TypeOK
<1> QED
  BY <1>2, <1>3, <1>4, <1>5, <1>6, <1>7, <1>8

LEMMA NarrowKeepsIInv ==
  ASSUME IInv, Narrow
  PROVE  IInv'
<1> USE ReaderConstants DEF IInv, Narrow, At, GoTo, Running, objects,
        arrivals, takes
<1>1. TypeOK'
  BY DEF TypeOK, CtorSteps
<1>2. TakesOK'
  BY DEF TakesOK, NoSampleVanishes
<1>3. CtorOK'
  BY DEF CtorOK
<1>4. AdaptersOK'
  BY DEF AdaptersOK
<1>5. OneDestructor'
  BY DEF OneDestructor, CtorOK
<1>6. SharesOK'
  BY DEF SharesOK, SomeLive, Live
<1>7. ListenerOutlivesReader'
  BY DEF ListenerOutlivesReader, CtorOK, AdaptersOK, TypeOK
<1> QED
  BY <1>1, <1>2, <1>3, <1>4, <1>5, <1>6, <1>7

LEMMA SetDataReaderKeepsIInv ==
  ASSUME IInv, SetDataReader
  PROVE  IInv'
<1> USE ReaderConstants DEF IInv, SetDataReader, At, Running, dds, arrivals,
        takes
<1>1. TypeOK'
  BY DEF TypeOK, CtorSteps, NoCtor
<1>2. TakesOK'
  BY DEF TakesOK, NoSampleVanishes
<1>3. CtorOK'
  BY DEF CtorOK, TypeOK, NoCtor
<1>4. AdaptersOK'
  BY DEF AdaptersOK, CtorOK, NoCtor
<1>5. OneDestructor'
  BY DEF OneDestructor
<1>6. SharesOK'
  BY DEF SharesOK, CtorOK, SomeLive, Live, TypeOK
<1>7. ListenerOutlivesReader'
  BY DEF ListenerOutlivesReader, CtorOK, LoanLeaked
<1> QED
  BY <1>1, <1>2, <1>3, <1>4, <1>5, <1>6, <1>7

LEMMA ConstructThrowsKeepsIInv ==
  ASSUME IInv, ConstructThrows
  PROVE  IInv'
<1> USE ReaderConstants DEF IInv, ConstructThrows, Running, dds, arrivals,
        takes
<1>1. /\ ctor.self \in Handles
      /\ ctor.step \in CtorSteps \ {"none", "set_datareader"}
  BY DEF TypeOK, CtorOK, FaultKinds
<1>2. listener = ctor.self => safe_datareader_ = "none"
  BY <1>1 DEF AdaptersOK, CtorOK, CtorSteps
<1>3. TypeOK'
  BY DEF TypeOK, CtorSteps, NoCtor
<1>4. TakesOK'
  BY DEF TakesOK, NoSampleVanishes
<1>5. CtorOK'
  BY DEF CtorOK, TypeOK, NoCtor
<1>6. AdaptersOK'
  BY DEF AdaptersOK, CtorOK, TypeOK, NoCtor, CtorSteps
<1>7. OneDestructor'
  BY DEF OneDestructor
<1>8. SharesOK'
  BY DEF SharesOK, CtorOK, LoanLeaked, SomeLive, Live, TypeOK, FaultKinds
<1>9. ListenerOutlivesReader'
  BY <1>1, <1>2 DEF ListenerOutlivesReader, LoanLeaked, NoCtor
<1> QED
  BY <1>3, <1>4, <1>5, <1>6, <1>7, <1>8, <1>9

LEMMA CopyKeepsIInv ==
  ASSUME IInv, NEW h \in Handles, NEW g \in Handles, Copy(h, g)
  PROVE  IInv'
<1> USE ReaderConstants DEF IInv, Copy, AppIdle, Running, dds, arrivals, takes
<1>1. TypeOK'
  BY DEF TypeOK
<1>2. TakesOK'
  BY DEF TakesOK, NoSampleVanishes
<1>3. CtorOK'
  BY DEF CtorOK, Live
<1>4. AdaptersOK'
  BY DEF AdaptersOK, TypeOK, Live
<1>5. OneDestructor'
  BY DEF OneDestructor
<1>6. SharesOK'
  BY DEF SharesOK, SomeLive, Live
<1>7. ListenerOutlivesReader'
  BY DEF ListenerOutlivesReader, LoanLeaked
<1> QED
  BY <1>1, <1>2, <1>3, <1>4, <1>5, <1>6, <1>7

LEMMA DestroyReaderKeepsIInv ==
  ASSUME IInv, NEW h \in Handles, DestroyReader(h)
  PROVE  IInv'
<1> USE ReaderConstants DEF IInv, DestroyReader, AppIdle, Referenced, Running,
        arrivals, takes
<1>1. TypeOK'
  BY DEF TypeOK
<1>2. TakesOK'
  BY DEF TakesOK, NoSampleVanishes
<1>3. CtorOK'
  BY DEF CtorOK, Live
<1>4. AdaptersOK'
  BY DEF AdaptersOK, Live
<1>5. OneDestructor'
  BY DEF OneDestructor
<1>6. SharesOK'
  BY DEF SharesOK, SomeLive, Live, TypeOK, Threads
<1>7. ListenerOutlivesReader'
  BY DEF ListenerOutlivesReader, SharesOK, LoanLeaked, SomeLive
<1> QED
  BY <1>1, <1>2, <1>3, <1>4, <1>5, <1>6, <1>7

LEMMA DeleteDataReaderKeepsIInv ==
  ASSUME IInv, DeleteDataReader
  PROVE  IInv'
<1> USE ReaderConstants DEF IInv, DeleteDataReader, Running, objects,
        arrivals, takes
<1>1. TypeOK'
  BY DEF TypeOK
<1>2. TakesOK'
  BY DEF TakesOK, NoSampleVanishes
<1>3. CtorOK'
  BY DEF CtorOK
<1>4. AdaptersOK'
  BY DEF AdaptersOK
<1>5. OneDestructor'
  BY DEF OneDestructor
<1>6. SharesOK'
  BY DEF SharesOK, TakesOK, LoanLeaked, SomeLive, Live, TypeOK, One
<1>7. ListenerOutlivesReader'
  BY DEF ListenerOutlivesReader, LoanLeaked
<1> QED
  BY <1>1, <1>2, <1>3, <1>4, <1>5, <1>6, <1>7

LEMMA DestroyAdapterKeepsIInv ==
  ASSUME IInv, NEW h \in Handles, DestroyAdapter(h)
  PROVE  IInv'
<1> USE ReaderConstants DEF IInv, DestroyAdapter, Running, dds, arrivals,
        takes
<1>1. TypeOK'
  BY DEF TypeOK
<1>2. TakesOK'
  BY DEF TakesOK, NoSampleVanishes
<1>3. CtorOK'
  BY DEF CtorOK
<1>4. AdaptersOK'
  BY DEF AdaptersOK, CtorOK, OneDestructor, TypeOK, NoCtor, Live
<1>5. OneDestructor'
  BY DEF OneDestructor
<1>6. SharesOK'
  BY DEF SharesOK, LoanLeaked, SomeLive, Live
<1>7. ListenerOutlivesReader'
  BY DEF ListenerOutlivesReader, CtorOK, SharesOK, LoanLeaked, SomeLive,
      TypeOK
<1> QED
  BY <1>1, <1>2, <1>3, <1>4, <1>5, <1>6, <1>7

LEMMA AppTakeKeepsIInv ==
  ASSUME IInv, NEW h \in Handles, NEW s \in SUBSET cache, AppTake(h, s)
  PROVE  IInv'
<1> USE ReaderConstants DEF IInv, AppTake, AppIdle, Lend, Running, objects,
        dds
<1>1. TypeOK'
  BY DEF TypeOK, Threads
<1>2. TakesOK'
  BY DEF TakesOK, TypeOK, NoSampleVanishes, Threads, One
<1>3. CtorOK'
  BY DEF CtorOK, Live
<1>4. AdaptersOK'
  BY DEF AdaptersOK
<1>5. OneDestructor'
  BY DEF OneDestructor
<1>6. SharesOK'
  BY DEF SharesOK, SomeLive, Live
<1>7. ListenerOutlivesReader'
  BY DEF ListenerOutlivesReader, LoanLeaked
<1> QED
  BY <1>1, <1>2, <1>3, <1>4, <1>5, <1>6, <1>7

LEMMA ReadSampleKeepsIInv ==
  ASSUME IInv, NEW t \in Threads, NEW s \in Samples, ReadSample(t, s)
  PROVE  IInv'
<1> USE ReaderConstants DEF IInv, ReadSample, Running, objects, dds, arrivals
<1>1. TypeOK'
  BY DEF TypeOK
<1>2. TakesOK'
  BY DEF TakesOK, NoSampleVanishes
<1>3. CtorOK'
  BY DEF CtorOK
<1>4. AdaptersOK'
  BY DEF AdaptersOK
<1>5. OneDestructor'
  BY DEF OneDestructor
<1>6. SharesOK'
  BY DEF SharesOK, LoanLeaked, SomeLive, Live
<1>7. ListenerOutlivesReader'
  BY DEF ListenerOutlivesReader, LoanLeaked
<1> QED
  BY <1>1, <1>2, <1>3, <1>4, <1>5, <1>6, <1>7

LEMMA ReadThrowsKeepsIInv ==
  ASSUME IInv, NEW t \in Threads, NEW s \in Samples, ReadThrows(t, s)
  PROVE  IInv'
<1> USE ReaderConstants DEF IInv, ReadThrows, Leave, Referenced, Running,
        objects, arrivals
<1>1. TypeOK'
  BY DEF TypeOK
<1>2. TakesOK'
  BY DEF TakesOK, TypeOK, NoSampleVanishes, Threads, One
<1>3. CtorOK'
  BY DEF CtorOK
<1>4. AdaptersOK'
  BY DEF AdaptersOK
<1>5. OneDestructor'
  BY DEF OneDestructor
<1>6. SharesOK'
  BY DEF SharesOK, SomeLive, Live, TypeOK, Threads
<1>7. ListenerOutlivesReader'
  BY DEF ListenerOutlivesReader, AdaptersOK, SharesOK, SomeLive, Live, Threads
<1> QED
  BY <1>1, <1>2, <1>3, <1>4, <1>5, <1>6, <1>7

LEMMA ReturnLoanKeepsIInv ==
  ASSUME IInv, NEW t \in Threads, ReturnLoan(t)
  PROVE  IInv'
<1> USE ReaderConstants DEF IInv, ReturnLoan, Leave, Referenced, Running,
        objects, arrivals
<1>1. TypeOK'
  BY DEF TypeOK, TakesOK, Threads, One
<1>2. TakesOK'
  BY DEF TakesOK, TypeOK, NoSampleVanishes, Threads, One
<1>3. CtorOK'
  BY DEF CtorOK
<1>4. AdaptersOK'
  BY DEF AdaptersOK
<1>5. OneDestructor'
  BY DEF OneDestructor
<1>6. SharesOK'
  BY DEF SharesOK, SomeLive, Live, TypeOK, Threads
<1>7. ListenerOutlivesReader'
  BY DEF ListenerOutlivesReader, AdaptersOK, SharesOK, SomeLive, Live, Threads
<1> QED
  BY <1>1, <1>2, <1>3, <1>4, <1>5, <1>6, <1>7

LEMMA ArriveKeepsIInv ==
  ASSUME IInv, NEW s \in Samples, Arrive(s)
  PROVE  IInv'
<1> USE ReaderConstants DEF IInv, Arrive, Running, objects, dds, takes
<1>1. TypeOK'
  BY DEF TypeOK
<1>2. TakesOK'
  BY DEF TakesOK, NoSampleVanishes
<1>3. CtorOK'
  BY DEF CtorOK
<1>4. AdaptersOK'
  BY DEF AdaptersOK
<1>5. OneDestructor'
  BY DEF OneDestructor
<1>6. SharesOK'
  BY DEF SharesOK, LoanLeaked, SomeLive, Live
<1>7. ListenerOutlivesReader'
  BY DEF ListenerOutlivesReader, LoanLeaked
<1> QED
  BY <1>1, <1>2, <1>3, <1>4, <1>5, <1>6, <1>7

LEMMA OnDataAvailableKeepsIInv ==
  ASSUME IInv, OnDataAvailable
  PROVE  IInv'
<1> USE ReaderConstants DEF IInv, OnDataAvailable, Running, objects, dds,
        takes
<1>1. TypeOK'
  BY DEF TypeOK, Defect
<1>2. TakesOK'
  BY DEF TakesOK, NoSampleVanishes
<1>3. CtorOK'
  BY DEF CtorOK
<1>4. AdaptersOK'
  BY DEF AdaptersOK
<1>5. OneDestructor'
  BY DEF OneDestructor
<1>6. SharesOK'
  BY DEF SharesOK, LoanLeaked, SomeLive, Live, Defect
<1>7. ListenerOutlivesReader'
  BY DEF ListenerOutlivesReader, LoanLeaked
<1> QED
  BY <1>1, <1>2, <1>3, <1>4, <1>5, <1>6, <1>7

LEMMA CallbackTakeKeepsIInv ==
  ASSUME IInv, CallbackTake
  PROVE  IInv'
<1> USE ReaderConstants DEF IInv, CallbackTake, Lend, Running, objects, dds
<1>1. TypeOK'
  BY DEF TypeOK, Threads
<1>2. TakesOK'
  BY DEF TakesOK, TypeOK, NoSampleVanishes, Threads, One
<1>3. CtorOK'
  BY DEF CtorOK, TypeOK, Live
<1>4. AdaptersOK'
  BY DEF AdaptersOK
<1>5. OneDestructor'
  BY DEF OneDestructor
<1>6. SharesOK'
  BY DEF SharesOK, SomeLive, Live, TypeOK
<1>7. ListenerOutlivesReader'
  BY DEF ListenerOutlivesReader, LoanLeaked
<1> QED
  BY <1>1, <1>2, <1>3, <1>4, <1>5, <1>6, <1>7

LEMMA CallbackNoDataKeepsIInv ==
  ASSUME IInv, CallbackNoData
  PROVE  IInv'
<1> USE ReaderConstants DEF IInv, CallbackNoData, Running, objects, dds,
        arrivals, takes
<1>1. TypeOK'
  BY DEF TypeOK
<1>2. TakesOK'
  BY DEF TakesOK, NoSampleVanishes
<1>3. CtorOK'
  BY DEF CtorOK
<1>4. AdaptersOK'
  BY DEF AdaptersOK
<1>5. OneDestructor'
  BY DEF OneDestructor
<1>6. SharesOK'
  BY DEF SharesOK, LoanLeaked, SomeLive, Live
<1>7. ListenerOutlivesReader'
  BY DEF ListenerOutlivesReader, LoanLeaked
<1> QED
  BY <1>1, <1>2, <1>3, <1>4, <1>5, <1>6, <1>7

LEMMA CallbackDeadReaderKeepsIInv ==
  ASSUME IInv, CallbackDeadReader
  PROVE  IInv'
<1> USE ReaderConstants DEF IInv, CallbackDeadReader, Running, objects, dds,
        arrivals, takes
<1>1. TypeOK'
  BY DEF TypeOK
<1>2. TakesOK'
  BY DEF TakesOK, NoSampleVanishes
<1>3. CtorOK'
  BY DEF CtorOK
<1>4. AdaptersOK'
  BY DEF AdaptersOK
<1>5. OneDestructor'
  BY DEF OneDestructor
<1>6. SharesOK'
  BY DEF SharesOK, LoanLeaked, SomeLive, Live
<1>7. ListenerOutlivesReader'
  BY DEF ListenerOutlivesReader, LoanLeaked
<1> QED
  BY <1>1, <1>2, <1>3, <1>4, <1>5, <1>6, <1>7

LEMMA StutterKeepsIInv ==
  ASSUME IInv, UNCHANGED vars
  PROVE  IInv'
<1> USE DEF IInv, vars, objects, dds, arrivals, takes
<1>1. TypeOK'
  BY DEF TypeOK
<1>2. TakesOK'
  BY DEF TakesOK, NoSampleVanishes
<1>3. CtorOK'
  BY DEF CtorOK
<1>4. AdaptersOK'
  BY DEF AdaptersOK
<1>5. OneDestructor'
  BY DEF OneDestructor
<1>6. SharesOK'
  BY DEF SharesOK, SomeLive, Live, LoanLeaked
<1>7. ListenerOutlivesReader'
  BY DEF ListenerOutlivesReader, LoanLeaked
<1> QED
  BY <1>1, <1>2, <1>3, <1>4, <1>5, <1>6, <1>7

LEMMA InConstructorKeepsIInv ==
  ASSUME IInv, InConstructor
  PROVE  IInv'
BY RegisterTypeKeepsIInv, CreateTopicKeepsIInv, CreateSubscriberKeepsIInv,
   CreateDataReaderKeepsIInv, NarrowKeepsIInv, SetDataReaderKeepsIInv,
   ConstructThrowsKeepsIInv
DEF InConstructor

LEMMA AppNextKeepsIInv ==
  ASSUME IInv, AppNext
  PROVE  IInv'
<1>1. ASSUME NEW h \in Handles, NEW l \in BOOLEAN, Construct(h, l)
      PROVE  IInv'
  BY <1>1, ConstructKeepsIInv
<1>2. CASE InConstructor
  BY <1>2, InConstructorKeepsIInv
<1>3. ASSUME NEW h \in Handles, NEW g \in Handles, Copy(h, g)
      PROVE  IInv'
  BY <1>3, CopyKeepsIInv
<1>4. ASSUME NEW h \in Handles, DestroyReader(h)
      PROVE  IInv'
  BY <1>4, DestroyReaderKeepsIInv
<1>5. CASE InDestructor
  BY <1>5, DeleteDataReaderKeepsIInv, DestroyAdapterKeepsIInv DEF InDestructor
<1>6. ASSUME NEW h \in Handles, NEW s \in SUBSET cache, AppTake(h, s)
      PROVE  IInv'
  BY <1>6, AppTakeKeepsIInv
<1> QED
  BY <1>1, <1>2, <1>3, <1>4, <1>5, <1>6 DEF AppNext

LEMMA ReadingKeepsIInv ==
  ASSUME IInv, NEW t \in Threads, Reading(t)
  PROVE  IInv'
BY ReadSampleKeepsIInv, ReadThrowsKeepsIInv, ReturnLoanKeepsIInv DEF Reading

LEMMA NextKeepsIInv == IInv /\ [Next]_vars => IInv'
<1> SUFFICES ASSUME IInv, [Next]_vars
             PROVE  IInv'
  OBVIOUS
<1>1. CASE AppNext
  BY <1>1, AppNextKeepsIInv
<1>2. CASE Reading("app") \/ Reading("mw")
  BY <1>2, ReadingKeepsIInv DEF Threads
<1>3. ASSUME NEW s \in Samples, Arrive(s)
      PROVE  IInv'
  BY <1>3, ArriveKeepsIInv
<1>4. CASE OnDataAvailable
  BY <1>4, OnDataAvailableKeepsIInv
<1>5. CASE CallbackTake \/ CallbackNoData \/ CallbackDeadReader
  BY <1>5, CallbackTakeKeepsIInv, CallbackNoDataKeepsIInv,
     CallbackDeadReaderKeepsIInv
<1>6. CASE UNCHANGED vars
  BY <1>6, StutterKeepsIInv
<1> QED
  BY <1>1, <1>2, <1>3, <1>4, <1>5, <1>6 DEF Next, InCallback

-----------------------------------------------------------------------------
(* What a callback finds.                                                  *)

(* Somebody holds an adapter that is alive, and it knows its reader once   *)
(* the constructor is through.  A callback is for that reader, and does    *)
(* not go on without an object, unless it is in take.                      *)
CallbackOK ==
  /\ \A a \in Handles : adapter[a] = "alive" => \E h \in Handles : shares[h] = a
  /\ \A a \in Handles :
       /\ data_reader_[a] \in {NULL, a}
       /\ adapter[a] = "none" \/ handle[a] = "building" => data_reader_[a] = NULL
  /\ \A h \in Handles :
       handle[h] \in {"live", "dying"} /\ shares[h] # NULL =>
         data_reader_[shares[h]] # NULL
  /\ callback # NULL =>
       /\ callback = data_reader_[listener]
       /\ safe_datareader_ \in {"held", "expiring"}
       /\ taking["mw"] \/ \E h \in Handles : handle[h] \in {"live", "dying"}

LEMMA InitCallback == Init => CallbackOK /\ DefectHasCause
BY DEF Init, CallbackOK, DefectHasCause

(* Construction, copies and destruction.                                   *)
LEMMA ConstructKeepsCallbackOK ==
  ASSUME IInv, CallbackOK, NEW h \in Handles, NEW l \in BOOLEAN, Construct(h, l)
  PROVE  CallbackOK'
<1> USE DEF Construct, AppIdle, dds, arrivals, takes
<1>1. \A a \in Handles : adapter'[a] = "alive" => \E g \in Handles : shares'[g] = a
  BY ReaderConstants DEF IInv, TypeOK, AdaptersOK, CallbackOK
<1>2. \A a \in Handles :
        /\ data_reader_'[a] \in {NULL, a}
        /\ adapter'[a] = "none" \/ handle'[a] = "building" =>
             data_reader_'[a] = NULL
  BY DEF IInv, TypeOK, CallbackOK
<1>3. callback' # NULL =>
        /\ callback' = data_reader_'[listener']
        /\ safe_datareader_' \in {"held", "expiring"}
        /\ taking'["mw"] \/ \E g \in Handles : handle'[g] \in {"live", "dying"}
  BY DEF IInv, TypeOK, CallbackOK
<1>4. \A g \in Handles :
        handle'[g] \in {"live", "dying"} /\ shares'[g] # NULL =>
          data_reader_'[shares'[g]] # NULL
  BY DEF IInv, TypeOK, CallbackOK
<1> QED
  BY <1>1, <1>2, <1>3, <1>4 DEF CallbackOK

LEMMA InConstructorKeepsCallbackOK ==
  ASSUME IInv, CallbackOK, InConstructor
  PROVE  CallbackOK'
<1> USE DEF At, GoTo, objects, arrivals, takes
<1>1. CASE RegisterType \/ CreateTopic \/ CreateSubscriber
  BY <1>1 DEF RegisterType, CreateTopic, CreateSubscriber, CallbackOK, dds
<1>2. CASE CreateDataReader
  <2>1. reader = "none"
    BY <1>2 DEF CreateDataReader, IInv, CtorOK
  <2>2. callback = NULL
    BY <2>1 DEF IInv, CtorOK, SharesOK
  <2> QED
    BY <1>2, <2>2 DEF CreateDataReader, CallbackOK
<1>3. CASE Narrow
  BY <1>3 DEF Narrow, CallbackOK
<1>4. CASE SetDataReader
  <2>1. ctor.self \in Handles /\ shares[ctor.self] \in {NULL, ctor.self}
    BY <1>4 DEF SetDataReader, IInv, TypeOK, CtorOK, AdaptersOK
  <2>2. callback = NULL
    BY <1>4 DEF SetDataReader, IInv, CtorOK, CallbackOK, Threads
  <2>3. shares[ctor.self] # NULL => adapter[ctor.self] = "alive"
    BY <2>1 DEF IInv, AdaptersOK
  <2>4. \A a \in Handles :
          /\ data_reader_'[a] \in {NULL, a}
          /\ adapter'[a] = "none" \/ handle'[a] = "building" =>
               data_reader_'[a] = NULL
    BY <1>4, <2>1, <2>3, ReaderConstants
       DEF SetDataReader, CallbackOK, IInv, TypeOK
  <2>5. \A g \in Handles \ {ctor.self} : handle'[g] \notin {"live", "dying"}
    BY <1>4, <2>1 DEF SetDataReader, IInv, TypeOK, CtorOK
  <2>6. shares'[ctor.self] # NULL => data_reader_'[shares'[ctor.self]] # NULL
    BY <1>4, <2>1, ReaderConstants DEF SetDataReader
  <2>7. \A g \in Handles :
          handle'[g] \in {"live", "dying"} /\ shares'[g] # NULL =>
            data_reader_'[shares'[g]] # NULL
    BY <2>5, <2>6
  <2> QED
    BY <1>4, <2>2, <2>4, <2>7 DEF SetDataReader, CallbackOK, dds
<1>5. CASE ConstructThrows
  <2>1. ctor.self \in Handles /\ handle[ctor.self] = "building"
    BY <1>5, ReaderConstants DEF ConstructThrows, IInv, TypeOK, CtorOK, FaultKinds
  <2>2. \A a \in Handles :
          adapter'[a] = "alive" => \E g \in Handles : shares'[g] = a
    BY <1>5, <2>1 DEF ConstructThrows, IInv, TypeOK, AdaptersOK, CallbackOK
  <2>3. \A g \in Handles :
          handle'[g] = IF g = ctor.self THEN "none" ELSE handle[g]
    BY <1>5, <2>1 DEF ConstructThrows, IInv, TypeOK
  <2>4. \A a \in Handles :
          /\ data_reader_'[a] \in {NULL, a}
          /\ adapter'[a] = "none" \/ handle'[a] = "building" =>
               data_reader_'[a] = NULL
    BY <1>5, <2>1, <2>3 DEF ConstructThrows, CallbackOK, IInv, TypeOK
  <2>5. \A g \in Handles :
          handle'[g] \in {"live", "dying"} /\ shares'[g] # NULL =>
            data_reader_'[shares'[g]] # NULL
    BY <1>5, <2>1, <2>3 DEF ConstructThrows, CallbackOK, IInv, TypeOK
  <2>6. callback' # NULL =>
          /\ callback' = data_reader_'[listener']
          /\ safe_datareader_' \in {"held", "expiring"}
          /\ taking'["mw"] \/ \E g \in Handles : handle'[g] \in {"live", "dying"}
    BY <1>5, <2>1, <2>3 DEF ConstructThrows, CallbackOK, dds, takes
  <2> QED
    BY <2>2, <2>4, <2>5, <2>6 DEF CallbackOK
<1> QED
  BY <1>1, <1>2, <1>3, <1>4, <1>5 DEF InConstructor

LEMMA CopyKeepsCallbackOK ==
  ASSUME IInv, CallbackOK, NEW h \in Handles, NEW g \in Handles, Copy(h, g)
  PROVE  CallbackOK'
<1> USE DEF Copy, AppIdle, dds, arrivals, takes
<1>1. \A a \in Handles : adapter'[a] = "alive" => \E f \in Handles : shares'[f] = a
  BY ReaderConstants DEF IInv, TypeOK, AdaptersOK, CallbackOK
<1>2. \A f \in Handles :
        /\ handle'[f] = IF f = h THEN "live" ELSE handle[f]
        /\ shares'[f] = IF f = h THEN shares[g] ELSE shares[f]
  BY DEF IInv, TypeOK
<1>3. \A f \in Handles :
        handle'[f] \in {"live", "dying"} /\ shares'[f] # NULL =>
          data_reader_'[shares'[f]] # NULL
  BY <1>2 DEF CallbackOK, Live
<1> QED
  BY <1>1, <1>2, <1>3 DEF CallbackOK

LEMMA DestroyReaderKeepsCallbackOK ==
  ASSUME IInv, CallbackOK, NEW h \in Handles, DestroyReader(h)
  PROVE  CallbackOK'
<1> USE DEF DestroyReader, AppIdle, arrivals, takes
<1>1. \A f \in Handles :
        handle'[f] = IF f = h THEN "dying" ELSE handle[f]
  BY DEF IInv, TypeOK
<1>2. \A f \in Handles : handle'[f] \in {"live", "dying"} <=>
                            handle[f] \in {"live", "dying"}
  BY <1>1 DEF Live
<1>3. safe_datareader_' \in {safe_datareader_, "expiring"}
  OBVIOUS
<1> QED
  BY <1>1, <1>2, <1>3 DEF CallbackOK

(* What keeps the DataReader when an object is destroyed is another one,   *)
(* or a callback's take.                                                   *)
LEMMA DestroyAdapterKeepsCallbackOK ==
  ASSUME IInv, CallbackOK, NEW h \in Handles, DestroyAdapter(h)
  PROVE  CallbackOK'
<1> USE DEF DestroyAdapter, dds, arrivals, takes
<1>1. \A g \in Handles \ {h} : Live(g) => handle'[g] = "live"
  BY DEF Live
<1>2. \A a \in Handles :
        adapter'[a] = "alive" => \E g \in Handles : shares'[g] = a
  <2> SUFFICES ASSUME NEW a \in Handles, adapter'[a] = "alive"
               PROVE  \E g \in Handles : shares'[g] = a
    OBVIOUS
  <2>1. adapter[a] = "alive"
    BY DEF IInv, TypeOK
  <2>2. PICK g \in Handles : shares[g] = a
    BY <2>1 DEF CallbackOK
  <2>3. CASE g # h
    BY <2>2, <2>3 DEF IInv, TypeOK
  <2>4. CASE g = h
    <3>1. PICK f \in Handles : Live(f)
      BY <2>2, <2>4 DEF IInv, TypeOK
    <3>2. f # h /\ shares[f] = listener /\ shares[h] = listener
      BY <3>1 DEF IInv, AdaptersOK, Live
    <3> QED
      BY <2>2, <2>4, <3>1, <3>2 DEF IInv, TypeOK
  <2> QED
    BY <2>3, <2>4
<1>3. callback # NULL /\ ~taking["mw"] =>
        \E g \in Handles : handle'[g] \in {"live", "dying"}
  <2> SUFFICES ASSUME callback # NULL, ~taking["mw"]
               PROVE  \E g \in Handles : handle'[g] \in {"live", "dying"}
    OBVIOUS
  <2>1. safe_datareader_ = "held"
    BY DEF CallbackOK
  <2>2. ctor.step # "set_datareader"
    BY DEF IInv, OneDestructor, NoCtor
  <2>3. PICK g \in Handles : Live(g)
    BY <2>1, <2>2 DEF IInv, SharesOK, SomeLive
  <2> QED
    BY <1>1, <2>3 DEF Live
<1> QED
  BY <1>2, <1>3 DEF CallbackOK, IInv, TypeOK

LEMMA AppKeepsCallbackOK ==
  ASSUME IInv, CallbackOK, AppNext
  PROVE  CallbackOK'
<1>1. CASE DeleteDataReader
  BY <1>1 DEF DeleteDataReader, CallbackOK, objects, takes
<1>2. ASSUME NEW h \in Handles, NEW s \in SUBSET cache, AppTake(h, s)
      PROVE  CallbackOK'
  BY <1>2 DEF AppTake, Lend, CallbackOK, IInv, TypeOK, objects, dds
<1> QED
  BY <1>1, <1>2, ConstructKeepsCallbackOK, InConstructorKeepsCallbackOK,
     CopyKeepsCallbackOK, DestroyReaderKeepsCallbackOK,
     DestroyAdapterKeepsCallbackOK
     DEF AppNext, InDestructor

(* take.  As long as a callback has no samples, an object is there.        *)
LEMMA LeaveKeepsCallbackOK ==
  ASSUME IInv, CallbackOK, NEW t \in Threads, taking[t], Leave(t),
         UNCHANGED <<objects, listener>>
  PROVE  CallbackOK'
<1>1. CASE t = "mw"
  BY <1>1 DEF Leave, CallbackOK, objects
<1>2. CASE t = "app"
  <2>1. PICK h \in Handles : Live(h)
    BY <1>2 DEF IInv, SharesOK, SomeLive
  <2>2. UNCHANGED <<callback, safe_datareader_>>
    BY <1>2, <2>1 DEF Leave, Referenced
  <2> QED
    BY <2>1, <2>2 DEF CallbackOK, Live, objects
<1> QED
  BY <1>1, <1>2 DEF Threads

LEMMA ReadingKeepsCallbackOK ==
  ASSUME IInv, CallbackOK, NEW t \in Threads, Reading(t)
  PROVE  CallbackOK'
<1>1. ASSUME NEW s \in Samples, ReadSample(t, s)
      PROVE  CallbackOK'
  BY <1>1 DEF ReadSample, CallbackOK, objects, dds
<1>2. ASSUME NEW s \in Samples, ReadThrows(t, s)
      PROVE  CallbackOK'
  BY <1>2, LeaveKeepsCallbackOK DEF ReadThrows
<1>3. CASE ReturnLoan(t)
  BY <1>3, LeaveKeepsCallbackOK DEF ReturnLoan
<1> QED
  BY <1>1, <1>2, <1>3 DEF Reading

LEMMA InCallbackKeepsCallbackOK ==
  ASSUME IInv, CallbackOK, InCallback
  PROVE  CallbackOK'
<1>1. CASE CallbackTake
  BY <1>1 DEF CallbackTake, Lend, CallbackOK, IInv, TypeOK, Threads, objects, dds
<1>2. CASE CallbackNoData
  BY <1>2 DEF CallbackNoData, CallbackOK, objects, dds, takes
<1>3. CASE CallbackDeadReader
  BY <1>3 DEF CallbackDeadReader, CallbackOK, objects, dds, takes
<1> QED
  BY <1>1, <1>2, <1>3, ReadingKeepsCallbackOK DEF InCallback, Threads

LEMMA OnDataAvailableKeepsCallbackOK ==
  ASSUME IInv, CallbackOK, OnDataAvailable
  PROVE  CallbackOK'
<1>1. Defect = "no" =>
        data_reader_[listener] \in Handles /\ Live(data_reader_[listener])
  BY DEF Defect, OnDataAvailable, IInv, TypeOK
<1>2. Defect = "no" => SomeLive
  BY <1>1 DEF SomeLive
<1>3. SomeLive => safe_datareader_ = "held"
  BY DEF IInv, SharesOK
<1> QED
  BY <1>1, <1>2, <1>3
     DEF OnDataAvailable, CallbackOK, SomeLive, Live, objects, dds, takes

LEMMA NextKeepsCallbackOK == IInv /\ CallbackOK /\ [Next]_vars => CallbackOK'
<1> SUFFICES ASSUME IInv, CallbackOK, [Next]_vars
             PROVE  CallbackOK'
  OBVIOUS
<1>1. ASSUME NEW s \in Samples, Arrive(s)
      PROVE  CallbackOK'
  BY <1>1 DEF Arrive, CallbackOK, objects, dds, takes
<1>2. CASE UNCHANGED vars
  BY <1>2 DEF vars, CallbackOK, objects, dds, takes
<1> QED
  BY <1>1, <1>2, AppKeepsCallbackOK, ReadingKeepsCallbackOK,
     OnDataAvailableKeepsCallbackOK, InCallbackKeepsCallbackOK
     DEF Next, Threads

(* The middleware calls the adapter: what it can find there.               *)
LEMMA OnDataAvailableHasCause ==
  ASSUME IInv, CallbackOK, OnDataAvailable
  PROVE  DefectHasCause'
<1>1. /\ listener \in Handles
      /\ crashed' = Defect
      /\ UNCHANGED <<objects, ctor, dds, leaked>>
      /\ ~taking["mw"]
  BY DEF OnDataAvailable, IInv, TypeOK, SharesOK, takes
<1> DEFINE d == data_reader_[listener]
<1>2. d \in {NULL, listener}
  BY <1>1 DEF CallbackOK
<1>3. CASE adapter[listener] = "freed"
  <2>1. Defect = "freed_adapter"
    BY <1>3 DEF Defect
  <2>2. \/ LoanLeaked
        \/ safe_datareader_ = "none" /\ ctor.self # listener
        \/ safe_datareader_ = "abandoned"
    BY <1>1, <1>3 DEF IInv, ListenerOutlivesReader, OnDataAvailable
  <2> QED
    BY <1>1, <2>1, <2>2 DEF DefectHasCause, LoanLeaked, dds
<1>4. CASE adapter[listener] # "freed"
  <2>1. PICK h \in Handles : shares[h] = listener
    BY <1>1, <1>4 DEF IInv, TypeOK, AdaptersOK, CallbackOK
  <2>2. handle[h] \in {"building", "live", "dying"}
    BY <1>1, <2>1, ReaderConstants DEF IInv, TypeOK, AdaptersOK
  <2>3. CASE handle[h] = "building"
    <3>1. h = listener /\ ctor.self = listener
      BY <1>1, <2>1, <2>3, ReaderConstants DEF IInv, AdaptersOK, CtorOK
    <3>2. d = NULL
      BY <1>1, <2>3, <3>1 DEF CallbackOK
    <3>3. ctor.step \in {"narrow", "set_datareader"}
      BY <1>1, <3>1, ReaderConstants DEF IInv, TypeOK, CtorSteps, CtorOK, AdaptersOK
    <3>4. Defect = "null_reader"
      BY <1>4, <3>2 DEF Defect
    <3> QED
      BY <1>1, <3>1, <3>3, <3>4 DEF DefectHasCause, dds
  <2>4. CASE handle[h] \in {"live", "dying"}
    <3>1. d # NULL
      BY <1>1, <2>1, <2>4, ReaderConstants DEF CallbackOK
    <3>2. Defect \in {"no", "dead_reader"}
      BY <1>4, <3>1 DEF Defect
    <3>3. Defect = "dead_reader" => handle[d] = "dying" \/ h # d
      BY <1>4, <2>4, <3>1 DEF Defect, Live
    <3> QED
      BY <1>1, <2>4, <3>2, <3>3 DEF DefectHasCause, objects, dds
  <2> QED
    BY <2>2, <2>3, <2>4
<1> QED
  BY <1>3, <1>4

(* A callback for a dead reader is outside take, so an object is left: the *)
(* reader itself, dying, or a copy.                                        *)
LEMMA CallbackDeadReaderHasCause ==
  ASSUME IInv, CallbackOK, CallbackDeadReader
  PROVE  DefectHasCause'
<1>1. /\ callback = data_reader_[listener]
      /\ ~Live(callback)
      /\ crashed' = "dead_reader"
      /\ UNCHANGED <<objects, ctor, dds, leaked>>
  BY DEF CallbackDeadReader, CallbackOK, takes
<1>2. PICK h \in Handles : handle[h] \in {"live", "dying"}
  BY DEF CallbackDeadReader, CallbackOK
<1>3. handle[callback] = "dying" \/ h # callback
  BY <1>1, <1>2 DEF Live
<1> QED
  BY <1>1, <1>2, <1>3 DEF DefectHasCause, objects, dds

(* No other step finds a defect.                                           *)
LEMMA OthersFindNone ==
  ASSUME Next, ~OnDataAvailable, ~CallbackDeadReader
  PROVE  crashed' = "no"
<1>1. CASE AppNext
  BY <1>1
     DEF AppNext, Construct, AppIdle, InConstructor, At, RegisterType, CreateTopic,
         CreateSubscriber, CreateDataReader, Narrow, SetDataReader,
         ConstructThrows, Copy, DestroyReader, InDestructor, DeleteDataReader,
         DestroyAdapter, AppTake, Running
<1>2. ASSUME NEW t \in Threads, Reading(t)
      PROVE  crashed' = "no"
  BY <1>2 DEF Reading, ReadSample, ReadThrows, ReturnLoan, Running
<1>3. CASE CallbackTake \/ CallbackNoData
  BY <1>3 DEF CallbackTake, CallbackNoData, Running
<1>4. ASSUME NEW s \in Samples, Arrive(s)
      PROVE  crashed' = "no"
  BY <1>4 DEF Arrive, Running
<1> QED
  BY <1>1, <1>2, <1>3, <1>4 DEF Next, InCallback, Threads

LEMMA NextKeepsCause ==
  IInv /\ CallbackOK /\ DefectHasCause /\ [Next]_vars => DefectHasCause'
<1> SUFFICES ASSUME IInv, CallbackOK, DefectHasCause, [Next]_vars
             PROVE  DefectHasCause'
  OBVIOUS
<1>1. CASE Next /\ ~OnDataAvailable /\ ~CallbackDeadReader
  BY <1>1, OthersFindNone DEF DefectHasCause
<1>2. CASE UNCHANGED vars
  BY <1>2 DEF vars, DefectHasCause, LoanLeaked, objects, dds, takes
<1> QED
  BY <1>1, <1>2, OnDataAvailableHasCause, CallbackDeadReaderHasCause
-----------------------------------------------------------------------------

(* The strengthened invariant holds of every behaviour.                    *)
THEOREM Invariance == Spec => []IInv
BY InitEstablishesIInv, NextKeepsIInv, PTL DEF Spec

(* Fields, loans and samples keep their types.                             *)
THEOREM TypeCorrect == Spec => []TypeOK
<1>1. IInv => TypeOK
  BY DEF IInv
<1> QED
  BY <1>1, Invariance, PTL

(* Loans are returned at most once; those that stay out are in take, or    *)
(* were leaked by an exception or a failing return_loan.                   *)
THEOREM LoansAreAccounted == Spec => []LoansAccounted
BY LoansFollow, Invariance, PTL

(* Polls, callbacks and exceptions may interleave in any way: no sample    *)
(* that arrived is dropped silently, and none goes to two callers.         *)
THEOREM SamplesDoNotVanish == Spec => []NoSampleVanishes
<1>1. IInv => NoSampleVanishes
  BY DEF IInv, TakesOK
<1> QED
  BY <1>1, Invariance, PTL

(* The DataReader never calls an adapter that has been freed, but for the  *)
(* failures the property names.                                            *)
THEOREM ListenersOutliveReaders == Spec => []ListenerOutlivesReader
<1>1. IInv => ListenerOutlivesReader
  BY DEF IInv
<1> QED
  BY <1>1, Invariance, PTL

(* The DataReader is there as long as an object is, and goes with the last *)
(* one, but for the failures the property names.                           *)
THEOREM ShutdownIsClean == Spec => []CleanShutdown
BY CleanShutdownFollows, Invariance, PTL

(* With nothing assumed of when samples arrive, what is copied, destroyed  *)
(* or polled meanwhile, and which calls fail: a callback that misses its   *)
(* reader does so during construction, behind the destruction of the       *)
(* original object, or after one of three failures; never otherwise.       *)
THEOREM DefectsHaveCauses == Spec => []DefectHasCause
<1>1. Init => IInv /\ CallbackOK /\ DefectHasCause
  BY InitEstablishesIInv, InitCallback
<1>2. IInv /\ CallbackOK /\ DefectHasCause /\ [Next]_vars
        => (IInv /\ CallbackOK /\ DefectHasCause)'
  BY NextKeepsIInv, NextKeepsCallbackOK, NextKeepsCause
<1> QED
  BY <1>1, <1>2, PTL DEF Spec
=============================================================================
