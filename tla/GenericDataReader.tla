-------------------------- MODULE GenericDataReader --------------------------
(***************************************************************************)
(* reflex::sub::GenericDataReader (include/reflex/generic_dr.h,            *)
(* src/generic_dr.cxx): its construction on top of the DDS entities, the   *)
(* listener adapter through which the middleware calls back, take with its *)
(* loans, implicit copies, and destruction.                                *)
(*                                                                         *)
(* Two threads: "app" constructs, copies, destroys and polls; "mw" is the  *)
(* middleware's receive thread, which runs on_data_available.  One step is *)
(* one call into the middleware or one access to shared memory.  The       *)
(* participant has one topic name, hence at most one DataReader: nothing   *)
(* ever deletes a topic, and create_topic refuses a name in use.           *)
(*                                                                         *)
(* The middleware is external, modelled from its use here: it keeps the    *)
(* samples that arrived, lends them out, calls the listener again whenever *)
(* something arrived since the last call began, does not delete a reader   *)
(* during its callback, and refuses to delete one with loans outstanding.  *)
(***************************************************************************)
EXTENDS Naturals, FiniteSets

CONSTANTS
  Handles,      \* GenericDataReader variables of the application
  NULL,
  Samples,      \* the samples that may arrive: bounds the run
  BadSamples,   \* those read_dynamicdata throws on
  MaxLoans,     \* max_outstanding_reads of the DataReader
  Faults,       \* the calls that may fail, of FaultKinds
  Copying,      \* whether the application copies GenericDataReader objects
  QuietStart,   \* whether publishers wait until the constructor is through
  QuietStop     \* whether the application destroys an object only when no
                \* callback is running or due, and publishers pause meanwhile

FaultKinds ==
  {"register_type", "create_topic", "create_subscriber", "create_datareader",
   "narrow", "return_loan"}

ASSUME ReaderConstants ==
  /\ NULL \notin Handles
  /\ BadSamples \subseteq Samples
  /\ MaxLoans \in Nat \ {0}
  /\ Faults \subseteq FaultKinds
  /\ Copying \in BOOLEAN
  /\ QuietStart \in BOOLEAN
  /\ QuietStop \in BOOLEAN

Threads == {"app", "mw"}

VARIABLES
  handle,        \* "none", "building", "live" or "dying", of every variable
  adapter,       \* the listener adapter made for a variable: "none", "alive", "freed"
  shares,        \* safe_listener_adapter_: the variable whose adapter is shared
  data_reader_,  \* the field of every adapter
  ctor,          \* the next call of the constructor in progress, and its object
  entities,      \* the topic and the subscriber, once created
  reader,        \* the DDS DataReader: "none", "enabled" or "deleted"
  listener,      \* the adapter (its variable) attached to the DataReader
  safe_datareader_,  \* the shared_ptr to it: "none" yet, "held", "expiring"
                 \* (the count is zero, dr_deleter is about to run),
                 \* "released", "abandoned" (dr_deleter ran in a callback)
  cache,         \* samples the DataReader holds
  unseen,        \* samples that have not arrived yet
  notify,        \* DATA_AVAILABLE changed since the last callback began
  callback,      \* the variable on_data_available was called for, or NULL
  taking,        \* whether a thread is between take and return_loan
  batch,         \* the samples lent to a thread
  unread,        \* those of them it has not converted yet
  loans,         \* loans outstanding at the DataReader
  leaked,        \* how many of them no thread will return
  taken,         \* samples a completed take handed to its caller
  lost,          \* samples of a take that ended with an exception
  crashed        \* "no", or what the callback dereferenced

objects == <<handle, adapter, shares, data_reader_>>
dds == <<entities, reader, listener, safe_datareader_>>
arrivals == <<cache, unseen, notify>>
takes == <<taking, batch, unread, loans, leaked, taken, lost>>
vars == <<objects, ctor, dds, arrivals, callback, takes, crashed>>

CtorSteps ==
  {"none", "register_type", "create_topic", "create_subscriber",
   "create_datareader", "narrow", "set_datareader"}

NoCtor == [step |-> "none", self |-> NULL]

TypeOK ==
  /\ handle \in [Handles -> {"none", "building", "live", "dying"}]
  /\ adapter \in [Handles -> {"none", "alive", "freed"}]
  /\ shares \in [Handles -> Handles \cup {NULL}]
  /\ data_reader_ \in [Handles -> Handles \cup {NULL}]
  /\ ctor \in [step : CtorSteps, self : Handles \cup {NULL}]
  /\ entities \subseteq {"topic", "subscriber"}
  /\ reader \in {"none", "enabled", "deleted"}
  /\ listener \in Handles \cup {NULL}
  /\ safe_datareader_ \in
       {"none", "held", "expiring", "released", "abandoned"}
  /\ cache \subseteq Samples
  /\ unseen \subseteq Samples
  /\ notify \in BOOLEAN
  /\ callback \in Handles \cup {NULL}
  /\ taking \in [Threads -> BOOLEAN]
  /\ batch \in [Threads -> SUBSET Samples]
  /\ unread \in [Threads -> SUBSET Samples]
  /\ loans \in Nat
  /\ leaked \in Nat
  /\ taken \subseteq Samples
  /\ lost \subseteq Samples
  /\ crashed \in {"no", "null_reader", "dead_reader", "freed_adapter"}

Init ==
  /\ handle = [h \in Handles |-> "none"]
  /\ adapter = [h \in Handles |-> "none"]
  /\ shares = [h \in Handles |-> NULL]
  /\ data_reader_ = [h \in Handles |-> NULL]
  /\ ctor = NoCtor
  /\ entities = {}
  /\ reader = "none"
  /\ listener = NULL
  /\ safe_datareader_ = "none"
  /\ cache = {}
  /\ unseen = Samples
  /\ notify = FALSE
  /\ callback = NULL
  /\ taking = [t \in Threads |-> FALSE]
  /\ batch = [t \in Threads |-> {}]
  /\ unread = [t \in Threads |-> {}]
  /\ loans = 0
  /\ leaked = 0
  /\ taken = {}
  /\ lost = {}
  /\ crashed = "no"

Running == crashed = "no"

Live(h) == handle[h] = "live"

(* The application thread is not inside one of the operations below.       *)
AppIdle ==
  /\ Running
  /\ ctor = NoCtor
  /\ ~taking["app"]
  /\ \A h \in Handles : handle[h] # "dying"

-----------------------------------------------------------------------------
(* Construction.                                                           *)

(* The initializer of safe_listener_adapter_; the application may pass no  *)
(* listener.                                                               *)
Construct(h, withListener) ==
  /\ AppIdle
  /\ handle[h] = "none"
  /\ adapter[h] = "none"
  /\ handle' = [handle EXCEPT ![h] = "building"]
  /\ adapter' = [adapter EXCEPT ![h] = IF withListener THEN "alive" ELSE @]
  /\ shares' = [shares EXCEPT ![h] = IF withListener THEN h ELSE NULL]
  /\ ctor' = [step |-> "register_type", self |-> h]
  /\ UNCHANGED <<data_reader_, dds, arrivals, callback, takes, crashed>>

At(step) ==
  /\ Running
  /\ ctor.step = step

GoTo(step) == ctor' = [ctor EXCEPT !.step = step]

RegisterType ==
  /\ At("register_type")
  /\ GoTo("create_topic")
  /\ UNCHANGED <<objects, dds, arrivals, callback, takes, crashed>>

CreateTopic ==
  /\ At("create_topic")
  /\ "topic" \notin entities
  /\ entities' = entities \cup {"topic"}
  /\ GoTo("create_subscriber")
  /\ UNCHANGED <<objects, reader, listener, safe_datareader_, arrivals, callback,
                 takes, crashed>>

CreateSubscriber ==
  /\ At("create_subscriber")
  /\ entities' = entities \cup {"subscriber"}
  /\ GoTo("create_datareader")
  /\ UNCHANGED <<objects, reader, listener, safe_datareader_, arrivals, callback,
                 takes, crashed>>

(* The DataReader is enabled, with the listener attached, on return.       *)
CreateDataReader ==
  /\ At("create_datareader")
  /\ reader' = "enabled"
  /\ listener' = shares[ctor.self]
  /\ GoTo("narrow")
  /\ UNCHANGED <<objects, entities, safe_datareader_, arrivals, callback, takes,
                 crashed>>

(* Only now does a shared_ptr take charge of the DataReader.               *)
Narrow ==
  /\ At("narrow")
  /\ safe_datareader_' = "held"
  /\ GoTo("set_datareader")
  /\ UNCHANGED <<objects, entities, reader, listener, arrivals, callback, takes,
                 crashed>>

(* Mutant: the adapter is not told its reader.                             *)
SetDataReaderForgets ==
  /\ At("set_datareader")
  /\ handle' = [handle EXCEPT ![ctor.self] = "live"]
  /\ ctor' = NoCtor
  /\ UNCHANGED <<adapter, shares, data_reader_, dds, arrivals, callback, takes,
                 crashed>>

(* The body of the constructor.                                            *)
SetDataReader ==
  /\ At("set_datareader")
  /\ data_reader_' = [a \in Handles |->
                        IF a = shares[ctor.self] THEN ctor.self
                        ELSE data_reader_[a]]
  /\ handle' = [handle EXCEPT ![ctor.self] = "live"]
  /\ ctor' = NoCtor
  /\ UNCHANGED <<adapter, shares, dds, arrivals, callback, takes, crashed>>

(* initialize_reader throws: what it has created so far stays, the members *)
(* built before safe_datareader_ are destroyed.                            *)
ConstructThrows ==
  /\ Running
  /\ \/ ctor.step \in Faults
     \/ ctor.step = "create_topic" /\ "topic" \in entities
  /\ handle' = [handle EXCEPT ![ctor.self] = "none"]
  /\ adapter' = [adapter EXCEPT ![ctor.self] = IF @ = "alive" THEN "freed" ELSE @]
  /\ shares' = [shares EXCEPT ![ctor.self] = NULL]
  /\ ctor' = NoCtor
  /\ UNCHANGED <<data_reader_, dds, arrivals, callback, takes, crashed>>

-----------------------------------------------------------------------------
(* Copies and destruction.                                                 *)

(* The implicit copy constructor: h shares the adapter and the DataReader  *)
(* of g; data_reader_ of the adapter is not touched.                       *)
Copy(h, g) ==
  /\ AppIdle
  /\ Copying
  /\ handle[h] = "none"
  /\ Live(g)
  /\ handle' = [handle EXCEPT ![h] = "live"]
  /\ shares' = [shares EXCEPT ![h] = shares[g]]
  /\ UNCHANGED <<adapter, data_reader_, ctor, dds, arrivals, callback, takes,
                 crashed>>

(* The references to the DataReader: one per live object, one per thread   *)
(* inside take_impl, which has the shared_ptr by value.                    *)
Referenced(others, threads) ==
  (\E g \in others : Live(g)) \/ (\E t \in threads : taking[t])

(* ~GenericDataReader drops safe_datareader_ first ...                     *)
DestroyReader(h) ==
  /\ AppIdle
  /\ Live(h)
  /\ QuietStop => callback = NULL /\ ~notify
  /\ handle' = [handle EXCEPT ![h] = "dying"]
  /\ safe_datareader_' = IF Referenced(Handles \ {h}, Threads)
                         THEN safe_datareader_ ELSE "expiring"
  /\ UNCHANGED <<adapter, shares, data_reader_, ctor, entities, reader, listener,
                 arrivals, callback, takes, crashed>>

(* Mutant: the shared_ptr has no deleter.                                  *)
DeleteDataReaderForgets ==
  /\ Running
  /\ safe_datareader_ = "expiring"
  /\ safe_datareader_' = "released"
  /\ UNCHANGED <<objects, ctor, entities, reader, listener, arrivals, callback,
                 takes, crashed>>

(* ... whose deleter, if the reference was the last one, waits for a       *)
(* callback to end; a refusal of the middleware is only reported ...       *)
DeleteDataReader ==
  /\ Running
  /\ safe_datareader_ = "expiring"
  /\ callback = NULL
  /\ reader' = IF loans = 0 THEN "deleted" ELSE reader
  /\ safe_datareader_' = "released"
  /\ UNCHANGED <<objects, ctor, entities, listener, arrivals, callback, takes,
                 crashed>>

(* Mutant: the two members are declared in the opposite order.             *)
DestroyAdapterFirst(h) ==
  /\ Running
  /\ handle[h] = "dying"
  /\ adapter' = [a \in Handles |->
                   IF a = shares[h] /\ ~ \E g \in Handles : Live(g)
                   THEN "freed" ELSE adapter[a]]
  /\ handle' = [handle EXCEPT ![h] = "none"]
  /\ shares' = [shares EXCEPT ![h] = NULL]
  /\ UNCHANGED <<data_reader_, ctor, dds, arrivals, callback, takes, crashed>>

(* ... and then safe_listener_adapter_.                                    *)
DestroyAdapter(h) ==
  /\ Running
  /\ handle[h] = "dying"
  /\ safe_datareader_ # "expiring"
  /\ adapter' = [a \in Handles |->
                   IF a = shares[h] /\ ~ \E g \in Handles : Live(g)
                   THEN "freed" ELSE adapter[a]]
  /\ handle' = [handle EXCEPT ![h] = "none"]
  /\ shares' = [shares EXCEPT ![h] = NULL]
  /\ UNCHANGED <<data_reader_, ctor, dds, arrivals, callback, takes, crashed>>

-----------------------------------------------------------------------------
(* take.                                                                   *)

(* dr->take: the DataReader lends the thread the samples s.  It lends none *)
(* when it has none (NO_DATA) or too many loans are out: see Callback.     *)
Lend(t, s) ==
  /\ loans < MaxLoans
  /\ cache' = cache \ s
  /\ loans' = loans + 1
  /\ taking' = [taking EXCEPT ![t] = TRUE]
  /\ batch' = [batch EXCEPT ![t] = s]
  /\ unread' = [unread EXCEPT ![t] = s]
  /\ UNCHANGED <<leaked, taken, lost>>

(* The application polls: max_samples, the state masks or the condition    *)
(* select some of the samples.                                             *)
AppTake(h, s) ==
  /\ AppIdle
  /\ Live(h)
  /\ s \subseteq cache
  /\ s # {}
  /\ Lend("app", s)
  /\ UNCHANGED <<objects, ctor, dds, unseen, notify, callback, crashed>>

(* Mutant: the loan is returned inside the loop, too.                      *)
ReadSampleReturns(t, s) ==
  /\ Running
  /\ taking[t]
  /\ s \in unread[t] \ BadSamples
  /\ unread' = [unread EXCEPT ![t] = @ \ {s}]
  /\ loans' = loans - 1
  /\ UNCHANGED <<objects, ctor, dds, arrivals, callback, taking, batch, leaked,
                 taken, lost, crashed>>

(* One turn of the loop of take_impl.                                      *)
ReadSample(t, s) ==
  /\ Running
  /\ taking[t]
  /\ s \in unread[t]
  /\ s \notin BadSamples
  /\ unread' = [unread EXCEPT ![t] = @ \ {s}]
  /\ UNCHANGED <<objects, ctor, dds, arrivals, callback, taking, batch, loans,
                 leaked, taken, lost, crashed>>

(* Mutant: take_impl does not leave after return_loan.                     *)
LeaveTwice(t) ==
  /\ UNCHANGED <<taking, batch, callback, safe_datareader_>>
  /\ unread' = [unread EXCEPT ![t] = {}]

(* take_impl returns or throws, and drops its shared_ptr.  If no object is *)
(* left the deleter runs right here, in the callback: the middleware       *)
(* refuses.  The call of on_data_available is over when its take is.       *)
Leave(t) ==
  /\ taking' = [taking EXCEPT ![t] = FALSE]
  /\ batch' = [batch EXCEPT ![t] = {}]
  /\ unread' = [unread EXCEPT ![t] = {}]
  /\ callback' = IF t = "mw" THEN NULL ELSE callback
  /\ safe_datareader_' = IF Referenced(Handles, Threads \ {t})
                         THEN safe_datareader_ ELSE "abandoned"

(* read_dynamicdata throws out of take_impl; return_loan is never called.  *)
(* A listener is expected to catch what its call of take throws.           *)
ReadThrows(t, s) ==
  /\ Running
  /\ taking[t]
  /\ s \in unread[t] \cap BadSamples
  /\ Leave(t)
  /\ leaked' = leaked + 1
  /\ lost' = lost \cup batch[t]
  /\ UNCHANGED <<objects, ctor, entities, reader, listener, arrivals, loans,
                 taken, crashed>>

(* Mutant: the loop may stop before the last sample.                       *)
ReturnLoanEarly(t) ==
  /\ Running
  /\ taking[t]
  /\ Leave(t)
  /\ loans' = loans - 1
  /\ taken' = taken \cup (batch[t] \ unread[t])
  /\ UNCHANGED <<objects, ctor, entities, reader, listener, arrivals, leaked,
                 lost, crashed>>

(* Mutant: take_impl returns without return_loan.                          *)
ReturnLoanForgets(t) ==
  /\ Running
  /\ taking[t]
  /\ unread[t] = {}
  /\ Leave(t)
  /\ leaked' = leaked + 1
  /\ taken' = taken \cup batch[t]
  /\ UNCHANGED <<objects, ctor, entities, reader, listener, arrivals, loans,
                 lost, crashed>>

(* After the loop; a failure of return_loan is reported to the caller.     *)
ReturnLoan(t) ==
  /\ Running
  /\ taking[t]
  /\ unread[t] = {}
  /\ Leave(t)
  /\ \/ /\ loans' = loans - 1
        /\ UNCHANGED leaked
     \/ /\ "return_loan" \in Faults
        /\ leaked' = leaked + 1
        /\ UNCHANGED loans
  /\ taken' = taken \cup batch[t]
  /\ UNCHANGED <<objects, ctor, entities, reader, listener, arrivals, lost,
                 crashed>>

-----------------------------------------------------------------------------
(* The middleware thread.                                                  *)

Arrive(s) ==
  /\ Running
  /\ reader = "enabled"
  /\ QuietStart => ctor = NoCtor
  /\ QuietStop => \A h \in Handles : handle[h] # "dying"
  /\ s \in unseen
  /\ unseen' = unseen \ {s}
  /\ cache' = cache \cup {s}
  /\ notify' = TRUE
  /\ UNCHANGED <<objects, ctor, dds, callback, takes, crashed>>

(* What on_data_available of the adapter finds at the end of its pointers. *)
Defect ==
  CASE adapter[listener] = "freed" -> "freed_adapter"
    [] adapter[listener] # "freed" /\ data_reader_[listener] = NULL ->
         "null_reader"
    [] OTHER ->
         IF Live(data_reader_[listener]) THEN "no" ELSE "dead_reader"

(* The middleware calls the adapter, the adapter calls the listener.       *)
OnDataAvailable ==
  /\ Running
  /\ notify
  /\ reader = "enabled"
  /\ listener # NULL
  /\ callback = NULL
  /\ notify' = FALSE
  /\ crashed' = Defect
  /\ callback' = IF Defect = "no" THEN data_reader_[listener] ELSE NULL
  /\ UNCHANGED <<objects, ctor, dds, cache, unseen, takes>>

(* The listener calls dr.take(samples), without limits: its reference dr   *)
(* is still good ...                                                       *)
CallbackTake ==
  /\ Running
  /\ callback # NULL
  /\ ~taking["mw"]
  /\ Live(callback)
  /\ cache # {}
  /\ Lend("mw", cache)
  /\ UNCHANGED <<objects, ctor, dds, unseen, notify, callback, crashed>>

(* ... or take returns at once: NO_DATA, since a poll came first, or       *)
(* OUT_OF_RESOURCES.                                                       *)
CallbackNoData ==
  /\ Running
  /\ callback # NULL
  /\ ~taking["mw"]
  /\ Live(callback)
  /\ cache = {} \/ loans >= MaxLoans
  /\ callback' = NULL
  /\ UNCHANGED <<objects, ctor, dds, arrivals, takes, crashed>>

(* ... or dr was destroyed while the listener was getting ready.           *)
CallbackDeadReader ==
  /\ Running
  /\ callback # NULL
  /\ ~taking["mw"]
  /\ ~Live(callback)
  /\ crashed' = "dead_reader"
  /\ UNCHANGED <<objects, ctor, dds, arrivals, callback, takes>>

-----------------------------------------------------------------------------

InConstructor ==
  \/ RegisterType
  \/ CreateTopic
  \/ CreateSubscriber
  \/ CreateDataReader
  \/ Narrow
  \/ SetDataReader
  \/ ConstructThrows

InDestructor ==
  \/ DeleteDataReader
  \/ \E h \in Handles : DestroyAdapter(h)

AppNext ==
  \/ \E h \in Handles, l \in BOOLEAN : Construct(h, l)
  \/ InConstructor
  \/ \E h, g \in Handles : Copy(h, g)
  \/ \E h \in Handles : DestroyReader(h)
  \/ InDestructor
  \/ \E h \in Handles, s \in SUBSET cache : AppTake(h, s)

Reading(t) ==
  \/ \E s \in Samples : ReadSample(t, s)
  \/ \E s \in Samples : ReadThrows(t, s)
  \/ ReturnLoan(t)

InCallback ==
  \/ CallbackTake
  \/ CallbackNoData
  \/ CallbackDeadReader
  \/ Reading("mw")

Next ==
  \/ AppNext
  \/ Reading("app")
  \/ \E s \in Samples : Arrive(s)
  \/ OnDataAvailable
  \/ InCallback

Spec == Init /\ [][Next]_vars

(* The middleware thread goes on as long as it has something to do: it     *)
(* dispatches notifications, and the listener's calls return.  A take the  *)
(* application began and a constructor it entered run to their end, too;   *)
(* nothing else the application does is promised.                          *)
Fairness ==
  /\ WF_vars(OnDataAvailable)
  /\ WF_vars(InCallback)
  /\ WF_vars(Reading("app"))
  /\ WF_vars(InConstructor)
  /\ WF_vars(InDestructor)

FairSpec == Spec /\ Fairness

-----------------------------------------------------------------------------
(* Properties.                                                             *)

(* An exception skipped return_loan, or return_loan failed.                *)
LoanLeaked == leaked > 0

(* generic_dr.h says of on_data_available that it is invoked "when new     *)
(* data is available to read from GenericDataReader": the callback always  *)
(* reaches a live adapter and a live GenericDataReader.                    *)
CallbackHasReader == crashed = "no"

(* The adapter outlives the DataReader that calls it, whatever is copied,  *)
(* whichever call fails and whenever objects are destroyed, unless a loan  *)
(* was leaked (the middleware then refuses to delete the DataReader), or   *)
(* narrow failed (then no shared_ptr ever held it), or the last object was *)
(* destroyed in the middle of a callback's take, which then has the last   *)
(* reference and drops it where the DataReader cannot be deleted.          *)
ListenerOutlivesReader ==
  reader = "enabled" /\ listener # NULL =>
    \/ adapter[listener] = "alive"
    \/ LoanLeaked
    \/ safe_datareader_ = "none" /\ ctor.self # listener
    \/ taking["mw"]
    \/ safe_datareader_ = "abandoned"

(* With no restriction on what is done when, a callback can go wrong in    *)
(* three ways, and each has a cause.  The adapter does not know its reader *)
(* only until the constructor has reached its body.  The adapter has been  *)
(* freed only if a loan was leaked, or narrow failed, or the DataReader    *)
(* was dropped inside a callback.  The reader is dead only if the object   *)
(* the constructor ran for is being destroyed, or has been and a copy of   *)
(* it is left; no callback comes, or goes on, after the last one is gone.  *)
DefectHasCause ==
  /\ crashed = "null_reader" =>
       ctor.self = listener /\ ctor.step \in {"narrow", "set_datareader"}
  /\ crashed = "freed_adapter" =>
       \/ LoanLeaked
       \/ safe_datareader_ = "none" /\ ctor.self # listener
       \/ safe_datareader_ = "abandoned"
  /\ crashed = "dead_reader" =>
       \/ handle[data_reader_[listener]] = "dying"
       \/ \E h \in Handles :
            h # data_reader_[listener] /\ handle[h] \in {"live", "dying"}

(* Every loan is held by a thread inside take or was leaked; nothing is    *)
(* returned twice.                                                         *)
LoansAccounted ==
  loans = Cardinality({t \in Threads : taking[t]}) + leaked

(* A sample that has arrived is in the DataReader, or lent to exactly one  *)
(* thread, or was handed to exactly one caller of take, or was part of a   *)
(* take that threw.                                                        *)
NoSampleVanishes ==
  /\ Samples = unseen \cup cache \cup batch["app"] \cup batch["mw"]
                \cup taken \cup lost
  /\ unseen \cap (cache \cup batch["app"] \cup batch["mw"] \cup taken \cup lost) = {}
  /\ cache \cap (batch["app"] \cup batch["mw"] \cup taken \cup lost) = {}
  /\ batch["app"] \cap (batch["mw"] \cup taken \cup lost) = {}
  /\ batch["mw"] \cap (taken \cup lost) = {}
  /\ taken \cap lost = {}

(* When the last GenericDataReader is gone, so is the DataReader, although *)
(* dr_deleter cannot report a failure: unless a loan was leaked, or the    *)
(* deleter ran inside a callback, which takes a listener and an object     *)
(* destroyed while it runs.  While an object is left, the DataReader is.   *)
CleanShutdown ==
  /\ safe_datareader_ = "released" => reader = "deleted" \/ LoanLeaked
  /\ safe_datareader_ = "abandoned" => listener # NULL /\ ~QuietStop
  /\ (\E h \in Handles : Live(h)) =>
       safe_datareader_ = "held" /\ reader = "enabled"

(* With a listener, a sample does not stay in the DataReader for ever,     *)
(* even if it arrives while a callback is running, as long as a            *)
(* GenericDataReader with a listener is there.                             *)
EventuallyTaken ==
  \A s \in Samples :
    s \in cache ~> s \notin cache \/ reader # "enabled" \/ listener = NULL

=============================================================================
