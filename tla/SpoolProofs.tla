----------------------------- MODULE SpoolProofs -----------------------------
(***************************************************************************)
(* Proofs about Spool.  The cache behind the forwarder is still the cache  *)
(* of DiskCache, so what is proved of that one holds here; and what the    *)
(* callback submits is accounted for sample by sample.                     *)
(***************************************************************************)
EXTENDS Spool, DiskCacheProofs, OriginLemmas

(* Every step of the cache and the forwarder together is a step of the cache
   alone, or leaves the cache as it is. *)
LEMMA SpoolStepIsCacheStep == [SpoolNext]_spoolVars => [Next]_vars
  <1> SUFFICES ASSUME [SpoolNext]_spoolVars PROVE [Next]_vars
    OBVIOUS
  <1>1. CASE PipelineSubmit \/ CallbackSubmit \/ ForwarderStep \/ CloseForwarder
    BY <1>1 DEF PipelineSubmit, CallbackSubmit, ForwarderStep, CloseForwarder, ForwarderAlone,
                cacheVars
  <1>2. CASE Callback \/ RemoveHanded
    BY <1>2 DEF Callback, RemoveHanded, Next, Retry, ReplayStep
  <1>3. CASE CacheStep
    BY <1>3 DEF CacheStep, Next, Retry, ReplayStep
  <1>4. CASE CloseCache \/ SpoolCrash
    BY <1>4 DEF CloseCache, SpoolCrash, Next
  <1>5. CASE UNCHANGED spoolVars
    BY <1>5 DEF spoolVars, cacheVars
  <1> QED BY <1>1, <1>2, <1>3, <1>4, <1>5 DEF SpoolNext

(* The retry callbacks, the flushes they are drawn into and the order in which
   main closes the two parts add no behaviour to the cache: everything proved
   of the cache with callbacks that return at once holds of the cache behind a
   forwarder. *)
THEOREM SpoolImplementsCache == SpoolSpec => Spec
  <1>1. SpoolInit => Init
    BY DEF SpoolInit
  <1> QED BY <1>1, SpoolStepIsCacheStep, PTL DEF SpoolSpec, Spec

-----------------------------------------------------------------------------
(* The samples of an entry *)

(* The history of origins has one element for each accepted sample, and a
   sample comes from the pipeline or from an entry that was handed over. *)
OriginsKnown ==
  /\ fAccepted \in Nat /\ origin \in [1..fAccepted -> Nat]
  /\ \A s \in 1..fAccepted : origin[s] # 0 => \E e \in handed : e.id = origin[s]

(* The callback works on the entry retryLoop is about to delete, which only a
   writer that makes room can take off the disk meanwhile. *)
CallbackAtWork ==
  /\ unsubmitted \in Nat
  /\ rpc # "remove" => submitting = {} /\ unsubmitted = 0
  /\ rpc = "remove" =>
       \E e \in handed : /\ submitting = {e} /\ NameOf(e) = Path /\ unsubmitted <= e.samples
                         /\ OnDisk(e) \/ e \in evicted

(* Until a crash an entry that was handed over has been submitted but for what
   the callback still has to submit of it. *)
Tallied ==
  crashes = 0 =>
    \A e \in handed :
      Cardinality(SamplesOf(e.id)) = e.samples - (IF e \in submitting THEN unsubmitted ELSE 0)

(* Inductive, given what is proved of the cache. *)
TallyInv == OriginsKnown /\ CallbackAtWork /\ Tallied

(* What is proved of the cache *)
CacheInv == SizeInv /\ NameInv /\ IdsUnique

(* The samples of an entry are finitely many. *)
LEMMA SamplesFinite ==
  ASSUME OriginsKnown, NEW id
  PROVE  IsFiniteSet(SamplesOf(id)) /\ Cardinality(SamplesOf(id)) \in Nat
  <1>1. SamplesOf(id) = Places(origin, fAccepted, id) /\ fAccepted \in Nat
    BY DEF SamplesOf, Places, OriginsKnown
  <1> QED BY <1>1, PlacesFinite

(* A Submit of n samples out of one entry adds n to its samples and none to
   those of another. *)
LEMMA SubmittedSamples ==
  ASSUME OriginsKnown, NEW n \in Nat, NEW id \in Nat,
         fAccepted' = fAccepted + n, origin' = origin \o [i \in 1..n |-> id]
  PROVE  /\ fAccepted' \in Nat /\ origin' \in [1..fAccepted' -> Nat]
         /\ \A s \in 1..fAccepted : origin'[s] = origin[s]
         /\ \A s \in (fAccepted + 1)..fAccepted' : origin'[s] = id
         /\ \A k : k # id => SamplesOf(k)' = SamplesOf(k)
         /\ Cardinality(SamplesOf(id)') = Cardinality(SamplesOf(id)) + n
  <1>1. fAccepted \in Nat /\ origin \in [1..fAccepted -> Nat] /\ fAccepted' \in Nat
    BY DEF OriginsKnown
  <1>2. ExtendedByRun(origin', origin, fAccepted, Nat, n, id)
    <2>1. origin' = origin \o Run(n, id)
      BY DEF Run
    <2> QED BY <1>1, <2>1, RunAppended
  <1>3. \A k : /\ SamplesOf(k) = Places(origin, fAccepted, k)
               /\ SamplesOf(k)' = Places(origin', fAccepted + n, k)
    BY DEF SamplesOf, Places
  <1> QED BY <1>1, <1>2, <1>3 DEF ExtendedByRun

(* Every other step of the forwarder leaves the accepted samples alone. *)
LEMMA ForwarderStepAccepts ==
  ASSUME ForwarderStep \/ CloseForwarder
  PROVE  UNCHANGED <<fAccepted, cacheVars, callbackVars, origin>>
  BY DEF ForwarderStep, CloseForwarder, ForwarderAlone, F!Flush, F!TakeBatch, F!EncodeAndSend,
         F!EncodeFail, F!SendOk, F!SendFail, F!Backend, F!Tick, F!LoopOnTick, F!LoopOnDone, F!Close

-----------------------------------------------------------------------------
(* TallyInv is kept by every step *)

(* Steps that neither submit nor have to do with the callback *)
Aside ==
  ForwarderStep \/ CloseForwarder \/ CacheStep \/ CloseCache \/ UNCHANGED spoolVars

(* They leave the samples, the callback and what was handed over alone. *)
LEMMA AsideSteps ==
  ASSUME Aside
  PROVE  UNCHANGED <<fAccepted, origin, submitting, unsubmitted, handed, crashes>>
  <1>1. CASE ForwarderStep \/ CloseForwarder
    BY <1>1, ForwarderStepAccepts DEF cacheVars, vars, lifeVars, history, callbackVars
  <1>2. CASE CacheStep \/ CloseCache
    <2>1. UNCHANGED <<fAccepted, origin, submitting, unsubmitted>>
      BY <1>2 DEF CacheStep, CloseCache, CacheAlone, fVars, callbackVars
    <2>2. UNCHANGED <<handed, crashes>>
      BY <1>2 DEF CacheStep, CloseCache, Store, Clock, Writer, Lock, Scan, ScanEnd, Evict,
                  EvictEnd, MarshalFail, Create, WriteOk, WriteFail, Tick, LoopOnTick, LoopOnDone,
                  List, ReadFail, Corrupt, Expire, Skip, PassEnd, Wire, Close, lifeVars, history
    <2> QED BY <2>1, <2>2
  <1>3. CASE UNCHANGED spoolVars
    BY <1>3 DEF spoolVars, cacheVars, vars, fVars, callbackVars, lifeVars, history
  <1> QED BY <1>1, <1>2, <1>3 DEF Aside

(* A Submit of the callback takes some of what is left. *)
LEMMA CallbackSubmits ==
  ASSUME CallbackAtWork, CallbackSubmit, NEW e \in submitting
  PROVE  \E n \in 1..unsubmitted :
           /\ fAccepted' = fAccepted + n /\ origin' = origin \o [i \in 1..n |-> e.id]
           /\ unsubmitted' = unsubmitted - n /\ UNCHANGED <<cacheVars, submitting>>
           /\ rpc = "remove" /\ submitting = {e} /\ e \in handed
  <1>1. /\ rpc = "remove" /\ unsubmitted \in Nat /\ submitting = {e} /\ e \in handed
    BY DEF CallbackAtWork
  <1>2. PICK f \in submitting :
          LET n == AtOnce(f.kind, unsubmitted) IN
          /\ unsubmitted > 0
          /\ SubmitFrom(Retrier, n, f.id)
          /\ unsubmitted' = unsubmitted - n
          /\ UNCHANGED <<cacheVars, submitting>>
    BY DEF CallbackSubmit
  <1>3. AtOnce(f.kind, unsubmitted) \in 1..unsubmitted /\ f = e
    BY <1>1, <1>2 DEF AtOnce
  <1> DEFINE k == AtOnce(f.kind, unsubmitted)
  <1>4. fAccepted' = fAccepted + k /\ origin' = origin \o [i \in 1..k |-> e.id]
    BY <1>2, <1>3 DEF SubmitFrom, F!Submit
  <1> QED BY <1>1, <1>2, <1>3, <1>4

(* Every sample keeps an origin. *)
LEMMA OriginsStep ==
  ASSUME CacheInv, TallyInv, [SpoolNext]_spoolVars
  PROVE  OriginsKnown'
  <1> USE DEF TallyInv
  <1>1. CASE Aside
    BY <1>1, AsideSteps DEF OriginsKnown
  <1>2. CASE Callback \/ RemoveHanded \/ SpoolCrash
    <2>1. UNCHANGED <<fAccepted, origin>> /\ handed \subseteq handed'
      BY <1>2 DEF Callback, HandOver, RemoveHanded, RemoveReplayed, SpoolCrash, Crash, fVars, history
    <2> QED BY <2>1 DEF OriginsKnown
  <1>3. ASSUME NEW n \in Nat, NEW id \in Nat, handed' = handed,
               fAccepted' = fAccepted + n, origin' = origin \o [i \in 1..n |-> id],
               id # 0 => \E e \in handed : e.id = id
        PROVE  OriginsKnown'
    <2>1. /\ fAccepted' \in Nat /\ origin' \in [1..fAccepted' -> Nat]
          /\ \A s \in 1..fAccepted : origin'[s] = origin[s]
          /\ \A s \in (fAccepted + 1)..fAccepted' : origin'[s] = id
      BY <1>3, SubmittedSamples
    <2>2. \A s \in 1..fAccepted' : s \in 1..fAccepted \/ s \in (fAccepted + 1)..fAccepted'
      BY <1>3, <2>1 DEF OriginsKnown
    <2> QED BY <1>3, <2>1, <2>2 DEF OriginsKnown
  <1>4. CASE PipelineSubmit
    <2>1. fAccepted' = fAccepted + 1 /\ origin' = origin \o [i \in 1..1 |-> 0] /\ handed' = handed
      BY <1>4 DEF PipelineSubmit, SubmitFrom, F!Submit, cacheVars, vars, history
    <2> QED BY <1>3, <2>1
  <1>5. CASE CallbackSubmit
    <2>1. PICK e \in submitting : TRUE
      BY <1>5 DEF CallbackSubmit
    <2>2. PICK n \in 1..unsubmitted :
            /\ fAccepted' = fAccepted + n /\ origin' = origin \o [i \in 1..n |-> e.id]
            /\ UNCHANGED cacheVars /\ e \in handed
      BY <1>5, <2>1, CallbackSubmits
    <2>3. n \in Nat /\ e.id \in Nat /\ handed' = handed
      BY <2>2, DiskCacheAssumption DEF CallbackAtWork, CacheInv, SizeInv, TypeOK, Entry,
                                       cacheVars, vars, history
    <2> QED BY <1>3, <2>2, <2>3
  <1> QED BY <1>1, <1>2, <1>4, <1>5 DEF SpoolNext, Aside

(* While the callback runs, the entry it was given is on the disk until a
   writer that makes room evicts it; the writer's own file is another one. *)
LEMMA HeldEntryStep ==
  ASSUME CacheInv, Aside, rpc = "remove", NEW e \in handed, NameOf(e) = Path,
         OnDisk(e) \/ e \in evicted
  PROVE  rpc' = "remove" /\ Path' = Path /\ (OnDisk(e)' \/ e \in evicted')
  <1>1. ASSUME UNCHANGED <<rpc, paths, disk, evicted>>
        PROVE  rpc' = "remove" /\ Path' = Path /\ (OnDisk(e)' \/ e \in evicted')
    BY <1>1 DEF Path, OnDisk, Listing
  <1>2. CASE ForwarderStep \/ CloseForwarder \/ UNCHANGED spoolVars
    <2>1. UNCHANGED vars
      BY <1>2, ForwarderStepAccepts DEF spoolVars, cacheVars
    <2> QED BY <1>1, <2>1 DEF vars, retryVars, history
  <1>3. CASE CloseCache
    BY <1>1, <1>3 DEF CloseCache, Close, retryVars, history
  <1>4. CASE CacheStep
    <2>1. CASE \/ (\E kind \in Kinds, n \in BatchSizes : Store(kind, n)) \/ Clock
               \/ (\E f \in calls : Lock(f)) \/ Scan \/ ScanEnd \/ EvictEnd
               \/ MarshalFail \/ WriteFail \/ Tick \/ Wire
      <3>1. UNCHANGED <<rpc, paths, disk, evicted>>
        BY <2>1 DEF Store, Clock, Lock, Scan, ScanEnd, EvictEnd, MarshalFail, WriteFail, Tick,
                    Wire, retryVars, history
      <3> QED BY <1>1, <3>1
    <2>2. CASE Evict
      <3>1. /\ UNCHANGED <<rpc, paths>> /\ Remove(Victim)
            /\ evicted' = evicted \cup (IF Victim \in Listing THEN {disk[Victim].entry} ELSE {})
        BY <2>2 DEF Evict, retryVars
      <3>2. OnDisk(e) /\ Victim = NameOf(e) => e \in evicted'
        BY <3>1 DEF OnDisk
      <3>3. OnDisk(e) /\ Victim # NameOf(e) => OnDisk(e)'
        BY <3>1, RemoveProperties DEF OnDisk
      <3> QED BY <3>1, <3>2, <3>3 DEF Path
    <2>3. CASE Create \/ WriteOk
      <3>1. UNCHANGED <<rpc, paths, evicted>>
        BY <2>3 DEF Create, WriteOk, retryVars, history
      <3>2. PICK f \in writing : Put(f, FALSE) \/ Put(f, TRUE) \/ disk' = disk
        BY <2>3 DEF Create, WriteOk
      <3>3. NameOf(f) # Path
        BY PathProperties DEF CacheInv, SizeInv, NameInv, NamesFresh, RemovesHanded
      <3>4. Path \in Listing => Path \in Listing' /\ disk'[Path] = disk[Path]
        BY <3>2, <3>3 DEF Put, Listing
      <3> QED BY <3>1, <3>4 DEF Path, OnDisk
    <2>4. ~ (LoopOnTick \/ LoopOnDone \/ (\E slow \in BOOLEAN : List(slow))
             \/ ReadFail \/ Corrupt \/ Expire \/ Skip \/ PassEnd)
      BY DEF LoopOnTick, LoopOnDone, List, ReadFail, Corrupt, Expire, Skip, PassEnd, Looking
    <2> QED BY <1>4, <2>1, <2>2, <2>3, <2>4 DEF CacheStep, Writer
  <1> QED BY <1>2, <1>3, <1>4 DEF Aside

(* Outside a callback, nothing but HandOver starts one. *)
LEMMA NoCallbackStep ==
  ASSUME Aside, rpc # "remove"
  PROVE  rpc' # "remove"
  <1>1. CASE ForwarderStep \/ CloseForwarder \/ UNCHANGED spoolVars
    BY <1>1, ForwarderStepAccepts DEF spoolVars, cacheVars, vars, retryVars
  <1>2. CASE CacheStep \/ CloseCache
    BY <1>2 DEF CacheStep, CloseCache, Store, Clock, Writer, Lock, Scan, ScanEnd, Evict,
                EvictEnd, MarshalFail, Create, WriteOk, WriteFail, Tick, LoopOnTick, LoopOnDone,
                List, AfterEmptyListing, ReadFail, Corrupt, Expire, Skip, PassEnd, Wire, Close,
                retryVars
  <1> QED BY <1>1, <1>2 DEF Aside

(* What a callback is given: an entry on the disk that was, short of a crash,
   never handed over before. *)
LEMMA CallbackStarts ==
  ASSUME CacheInv, TallyInv, Callback
  PROVE  \E e \in Entry :
           /\ submitting = {} /\ submitting' = {e} /\ unsubmitted' = e.samples
           /\ e.samples \in Nat /\ handed' = handed \cup {e} /\ rpc' = "remove"
           /\ NameOf(e) = Path' /\ OnDisk(e)' /\ e \in Known
           /\ crashes = 0 => e \notin handed
           /\ UNCHANGED <<fAccepted, origin, crashes>>
  <1> DEFINE e == disk[Path].entry
  <1>1. /\ Path \in Listing /\ disk[Path].whole /\ rpc = "loop" /\ paths # {}
        /\ handed' = handed \cup {e} /\ rpc' = "remove"
        /\ UNCHANGED <<disk, paths, crashes, fAccepted, origin>>
        /\ submitting' = {e} /\ unsubmitted' = e.samples
    BY DEF Callback, HandOver, Looking, lifeVars, fVars
  <1>2. disk[Path] \in File /\ NameOf(e) = Path /\ submitting = {} /\ replayed = {}
    BY <1>1 DEF CacheInv, SizeInv, TypeOK, NamesMatch, NameInv, RemovesHanded, TallyInv,
                CallbackAtWork
  <1>3. e \in Entry /\ e.samples \in Nat /\ disk[Path] = [entry |-> e, whole |-> TRUE]
    BY <1>1, <1>2, DiskCacheAssumption DEF File, Entry
  <1>4. OnDisk(e)' /\ Path' = Path
    BY <1>1, <1>2, <1>3 DEF OnDisk, Listing, Path
  <1>5. e \in Known /\ (crashes = 0 => e \notin handed)
    <2>1. IsFiniteSet(ToBeRepeated)
      BY FS_Subset DEF CacheInv, SizeInv, RoomMade, ToBeRepeated
    <2>2. crashes = 0 => ToBeRepeated = {}
      BY <2>1, FS_EmptySet, FS_CardinalityType DEF CacheInv, NameInv, ReplayedOnce
    <2> QED BY <1>1, <1>2, <2>2 DEF Known, ToBeRepeated
  <1> QED BY <1>1, <1>2, <1>3, <1>4, <1>5

(* The callback keeps to its entry. *)
LEMMA CallbackStep ==
  ASSUME CacheInv, TallyInv, [SpoolNext]_spoolVars
  PROVE  CallbackAtWork'
  <1> USE DEF TallyInv
  <1>1. CASE Aside
    <2>1. UNCHANGED <<submitting, unsubmitted, handed>>
      BY <1>1, AsideSteps
    <2>2. CASE rpc # "remove"
      BY <1>1, <2>1, <2>2, NoCallbackStep DEF CallbackAtWork
    <2>3. CASE rpc = "remove"
      <3>1. PICK e \in handed :
              /\ submitting = {e} /\ NameOf(e) = Path /\ unsubmitted <= e.samples
              /\ OnDisk(e) \/ e \in evicted
        BY <2>3 DEF CallbackAtWork
      <3>2. rpc' = "remove" /\ Path' = Path /\ (OnDisk(e)' \/ e \in evicted')
        BY <1>1, <2>3, <3>1, HeldEntryStep
      <3> QED BY <2>1, <3>1, <3>2 DEF CallbackAtWork
    <2> QED BY <2>2, <2>3
  <1>2. CASE PipelineSubmit
    <2>1. UNCHANGED <<submitting, unsubmitted, handed, rpc, paths, disk, evicted>>
      BY <1>2 DEF PipelineSubmit, callbackVars, cacheVars, vars, history, retryVars
    <2> QED BY <2>1 DEF CallbackAtWork, Path, OnDisk, Listing
  <1>3. CASE CallbackSubmit
    <2>1. PICK e \in submitting : TRUE
      BY <1>3 DEF CallbackSubmit
    <2>2. PICK n \in 1..unsubmitted :
            unsubmitted' = unsubmitted - n /\ UNCHANGED <<cacheVars, submitting>> /\ rpc = "remove"
      BY <1>3, <2>1, CallbackSubmits
    <2>3. UNCHANGED <<submitting, handed, rpc, paths, disk, evicted>>
      BY <2>2 DEF cacheVars, vars, history, retryVars
    <2>4. PICK f \in handed :
            /\ submitting = {f} /\ NameOf(f) = Path /\ unsubmitted <= f.samples
            /\ OnDisk(f) \/ f \in evicted
      BY <2>2 DEF CallbackAtWork
    <2>5. f.samples \in Nat /\ unsubmitted \in Nat
      BY <2>4, DiskCacheAssumption DEF CacheInv, SizeInv, TypeOK, Entry, CallbackAtWork
    <2>6. unsubmitted' \in Nat /\ unsubmitted' <= f.samples
      BY <2>2, <2>4, <2>5
    <2>7. Path' = Path /\ OnDisk(f)' = OnDisk(f)
      BY <2>3 DEF Path, OnDisk, Listing
    <2> QED BY <2>2, <2>3, <2>4, <2>6, <2>7 DEF CallbackAtWork
  <1>4. CASE Callback
    <2>1. PICK e \in Entry :
            /\ submitting' = {e} /\ unsubmitted' = e.samples /\ e.samples \in Nat
            /\ handed' = handed \cup {e} /\ rpc' = "remove" /\ NameOf(e) = Path' /\ OnDisk(e)'
      BY <1>4, CallbackStarts
    <2> QED BY <2>1 DEF CallbackAtWork
  <1>5. CASE RemoveHanded \/ SpoolCrash
    BY <1>5 DEF RemoveHanded, CallbackReturned, RemoveReplayed, SpoolCrash, Crash, CallbackAtWork
  <1> QED BY <1>1, <1>2, <1>3, <1>4, <1>5 DEF SpoolNext, Aside

(* Each Submit moves as many samples as the callback has less to submit. *)
LEMMA TallyStep ==
  ASSUME CacheInv, TallyInv, [SpoolNext]_spoolVars
  PROVE  Tallied'
  <1> USE DEF TallyInv
  <1>0. \A e \in handed : e.samples \in Nat /\ e.id \in Nat /\ e.id # 0 /\ e \in Known
    <2>1. handed \subseteq Entry /\ handed \subseteq Known
      BY DEF CacheInv, SizeInv, TypeOK, Known
    <2>2. \A e \in Entry : e.samples \in Nat /\ e.id \in 1..MaxStores
      BY DiskCacheAssumption DEF Entry
    <2>3. \A i \in 1..MaxStores : i \in Nat /\ i # 0
      BY DiskCacheAssumption
    <2> QED BY <2>1, <2>2, <2>3, Zenon
  <1>1. CASE Aside
    <2>1. UNCHANGED <<fAccepted, origin, submitting, unsubmitted, handed, crashes>>
      BY <1>1, AsideSteps
    <2>2. \A id : SamplesOf(id)' = SamplesOf(id)
      BY <2>1 DEF SamplesOf
    <2> QED BY <2>1, <2>2 DEF Tallied
  <1>2. CASE PipelineSubmit
    <2>1. /\ fAccepted' = fAccepted + 1 /\ origin' = origin \o [i \in 1..1 |-> 0]
          /\ UNCHANGED <<submitting, unsubmitted, handed, crashes>>
      BY <1>2 DEF PipelineSubmit, SubmitFrom, F!Submit, callbackVars, cacheVars, vars, lifeVars,
                  history
    <2>2. \A k : k # 0 => SamplesOf(k)' = SamplesOf(k)
      BY <2>1, SubmittedSamples
    <2>3. \A e \in handed : SamplesOf(e.id)' = SamplesOf(e.id)
      BY <1>0, <2>2
    <2> QED BY <2>1, <2>3 DEF Tallied
  <1>3. CASE CallbackSubmit
    <2>1. PICK e \in submitting : TRUE
      BY <1>3 DEF CallbackSubmit
    <2>2. PICK n \in 1..unsubmitted :
            /\ fAccepted' = fAccepted + n /\ origin' = origin \o [i \in 1..n |-> e.id]
            /\ unsubmitted' = unsubmitted - n /\ UNCHANGED <<cacheVars, submitting>>
            /\ rpc = "remove" /\ submitting = {e} /\ e \in handed
      BY <1>3, <2>1, CallbackSubmits
    <2>3. UNCHANGED <<handed, crashes>> /\ unsubmitted \in Nat /\ n \in Nat
      BY <2>2 DEF cacheVars, vars, lifeVars, history, CallbackAtWork
    <2>4. /\ \A k : k # e.id => SamplesOf(k)' = SamplesOf(k)
          /\ Cardinality(SamplesOf(e.id)') = Cardinality(SamplesOf(e.id)) + n
      BY <1>0, <2>2, <2>3, SubmittedSamples
    <2> SUFFICES ASSUME crashes = 0, NEW f \in handed
                 PROVE  Cardinality(SamplesOf(f.id)') =
                          f.samples - (IF f \in submitting THEN unsubmitted' ELSE 0)
      BY <2>2, <2>3 DEF Tallied
    <2>5. CASE f = e
      <3> DEFINE c == Cardinality(SamplesOf(e.id))
      <3>1. c = e.samples - unsubmitted /\ e.samples \in Nat
        BY <1>0, <2>2 DEF Tallied
      <3>2. Cardinality(SamplesOf(f.id)') = c + n
        BY <2>4, <2>5
      <3> HIDE DEF c
      <3>3. c + n = e.samples - unsubmitted'
        BY <2>2, <2>3, <3>1
      <3> QED BY <2>2, <2>5, <3>2, <3>3
    <2>6. CASE f # e
      <3>1. f.id # e.id
        BY <1>0, <2>2, <2>6 DEF CacheInv, IdsUnique
      <3> QED BY <2>2, <2>4, <2>6, <3>1 DEF Tallied
    <2> QED BY <2>5, <2>6
  <1>4. CASE Callback
    <2>1. PICK e \in Entry :
            /\ submitting = {} /\ submitting' = {e} /\ unsubmitted' = e.samples
            /\ e.samples \in Nat /\ handed' = handed \cup {e} /\ e \in Known
            /\ crashes = 0 => e \notin handed
            /\ UNCHANGED <<fAccepted, origin, crashes>>
      BY <1>4, CallbackStarts
    <2>2. \A id : SamplesOf(id)' = SamplesOf(id)
      BY <2>1 DEF SamplesOf
    <2> SUFFICES ASSUME crashes = 0
                 PROVE  \A f \in handed' :
                          Cardinality(SamplesOf(f.id)) =
                            f.samples - (IF f \in submitting' THEN unsubmitted' ELSE 0)
      BY <2>1, <2>2 DEF Tallied
    <2>3. SamplesOf(e.id) = {}
      <3>1. \A f \in handed : f.id # e.id
        BY <1>0, <2>1 DEF CacheInv, IdsUnique
      <3>2. e.id # 0
        BY <2>1, DiskCacheAssumption DEF Entry
      <3> QED BY <3>1, <3>2 DEF OriginsKnown, SamplesOf
    <2>4. Cardinality(SamplesOf(e.id)) = 0
      BY <2>3, FS_EmptySet, Zenon
    <2>5. \A f \in handed : Cardinality(SamplesOf(f.id)) = f.samples - 0 /\ f # e
      BY <2>1 DEF Tallied
    <2> QED BY <1>0, <2>1, <2>4, <2>5
  <1>5. CASE RemoveHanded
    <2>1. /\ UNCHANGED <<fAccepted, origin, handed, crashes, unsubmitted>> /\ unsubmitted = 0
          /\ submitting' = {}
      BY <1>5 DEF RemoveHanded, CallbackReturned, RemoveReplayed, fVars, lifeVars, history
    <2>2. \A id : SamplesOf(id)' = SamplesOf(id)
      BY <2>1 DEF SamplesOf
    <2> QED BY <2>1, <2>2 DEF Tallied
  <1>6. CASE SpoolCrash
    BY <1>6 DEF SpoolCrash, Crash, Tallied, CacheInv, SizeInv, TypeOK
  <1> QED BY <1>1, <1>2, <1>3, <1>4, <1>5, <1>6 DEF SpoolNext, Aside

(* TallyInv is an invariant when no two Store calls read the same nanosecond. *)
LEMMA TallyInvariant ==
  ASSUME ClockMayRepeat = FALSE
  PROVE  SpoolSpec => [](CacheInv /\ TallyInv)
  <1>1. SpoolSpec => []CacheInv
    BY SpoolImplementsCache, SizeInvariant, NameInvariant, IdsInvariant, PTL DEF CacheInv
  <1>2. SpoolInit => TallyInv
    BY DEF SpoolInit, Init, Started, RetryIdle, F!Init, TallyInv, OriginsKnown, CallbackAtWork,
           Tallied
  <1>3. CacheInv /\ TallyInv /\ [SpoolNext]_spoolVars => TallyInv'
    BY OriginsStep, CallbackStep, TallyStep DEF TallyInv
  <1> QED BY <1>1, <1>2, <1>3, PTL DEF SpoolSpec

(* A file that was handed to a callback is off the disk only when every sample
   in it has been through Submit, unless a writer had to make room: for any
   number of entries of any sizes, whatever flush the callback was drawn into
   and whatever the pipeline submits in between. *)
THEOREM HandedAreSubmitted ==
  ASSUME ClockMayRepeat = FALSE
  PROVE  SpoolSpec => []HandedIsSubmitted
  <1>1. CacheInv /\ TallyInv => HandedIsSubmitted
    <2> SUFFICES ASSUME CacheInv, TallyInv, NEW e \in handed, ~OnDisk(e), crashes = 0,
                        e \notin evicted
                 PROVE  Cardinality(SamplesOf(e.id)) = e.samples
      BY DEF HandedIsSubmitted
    <2>1. e \notin submitting
      BY DEF TallyInv, CallbackAtWork
    <2>2. e.samples \in Nat
      BY DiskCacheAssumption DEF CacheInv, SizeInv, TypeOK, Entry
    <2> QED BY <2>1, <2>2 DEF TallyInv, Tallied
  <1> QED BY <1>1, TallyInvariant, PTL

(* Short of a crash the backend stores the samples of a spooled batch once at
   most: no more of them get into the forwarder than the batch has. *)
THEOREM SpooledAreStoredOnce ==
  ASSUME ClockMayRepeat = FALSE
  PROVE  SpoolSpec => []SpooledStoredOnce
  <1>1. CacheInv /\ TallyInv => SpooledStoredOnce
    <2> SUFFICES ASSUME CacheInv, TallyInv, NEW e \in handed, crashes = 0
                 PROVE  Cardinality(SamplesOf(e.id) \cap fStored) <= e.samples
      BY DEF SpooledStoredOnce
    <2> DEFINE all == Cardinality(SamplesOf(e.id))
               some == Cardinality(SamplesOf(e.id) \cap fStored)
    <2>1. IsFiniteSet(SamplesOf(e.id)) /\ all \in Nat
      BY SamplesFinite DEF TallyInv
    <2>2. some <= all /\ some \in Nat
      BY <2>1, FS_Subset, FS_CardinalityType
    <2>3. e.samples \in Nat /\ unsubmitted \in Nat
      BY DiskCacheAssumption DEF CacheInv, SizeInv, TypeOK, Entry, TallyInv, CallbackAtWork
    <2>4. all = e.samples - (IF e \in submitting THEN unsubmitted ELSE 0)
      BY DEF TallyInv, Tallied
    <2> HIDE DEF all, some
    <2>5. some <= e.samples
      BY <2>1, <2>2, <2>3, <2>4
    <2> QED BY <2>5 DEF some
  <1> QED BY <1>1, TallyInvariant, PTL
=============================================================================
