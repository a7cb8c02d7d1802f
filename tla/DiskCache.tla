------------------------------ MODULE DiskCache ------------------------------
(***************************************************************************)
(* The disk-backed queue of internal/cache/cache.go: StoreMetrics and      *)
(* StoreLogs write one JSON file per batch and make room for it by         *)
(* deleting the first files of the directory; retryLoop hands the files to *)
(* the retry callbacks and deletes them.                                   *)
(*                                                                         *)
(* c.mu is held throughout write, but replayAll holds it only to list the  *)
(* directory: reading, handing over and deleting files run unlocked        *)
(* against a writer.  A crash loses everything but the directory, which    *)
(* may then hold a half-written file.                                      *)
(*                                                                         *)
(* listEntries is sorted, so a list of paths is modelled by their set and  *)
(* its head by the least name.                                             *)
(***************************************************************************)
EXTENDS Naturals, FiniteSets, FiniteSetsExt, Functions

CONSTANTS
  MaxBytes,       \* cfg.MaxSizeMB, in the units of Bytes
  MaxAge,         \* cfg.MaxAge, in readings of the clock
  BatchSizes,     \* numbers of samples a stored batch may have
  Kinds,          \* the entry kinds in use, from {"logs", "metrics"}
  ClockMayRepeat, \* whether two Store calls may read the same nanosecond
  IoMayFail,      \* whether reading and writing a file can fail
  MaxStores,      \* bound: Store calls in a behaviour
  MaxTime,        \* bound: the clock's last reading
  MaxCrashes      \* bound: crashes in a behaviour

ASSUME DiskCacheAssumption ==
  /\ MaxBytes \in Nat /\ MaxAge \in Nat
  /\ BatchSizes \subseteq Nat /\ IsFiniteSet(BatchSizes) /\ BatchSizes # {}
  /\ Kinds \subseteq {"logs", "metrics"}
  /\ ClockMayRepeat \in BOOLEAN /\ IoMayFail \in BOOLEAN
  /\ MaxStores \in Nat /\ MaxTime \in Nat /\ MaxCrashes \in Nat

VARIABLES
  now,      \* the clock
  issued,   \* history: Store calls made
  calls,    \* entries whose Store call waits for c.mu
  wpc,      \* where the holder of c.mu stands in write
  writing,  \* its entry, in a set, or {}
  unsized,  \* evictIfNeeded: paths not yet in totalBytes
  evictees, \* evictIfNeeded: entries
  total,    \* evictIfNeeded: totalBytes
  disk,     \* cfg.Dir: the file each name in it stands for
  rpc,      \* where retryLoop stands
  paths,    \* replayAll: paths not yet looked at
  cutoff,   \* replayAll: cutoff
  late,     \* replayAll: its context may have timed out
  replayed, \* replayAll: the path just handed over, in a set, or {}
  tick,     \* retryTicker.C holds a tick
  wired,    \* main has set the retry callbacks
  closed,   \* c.done is closed
  crashes,  \* history: crashes
  stored,   \* history: entries whose Store call returned nil
  handed,   \* history: entries passed to a callback
  evicted,  \* history: entries deleted for size
  expired   \* history: entries deleted for age

callVars   == <<now, issued, calls>>
writerVars == <<wpc, writing, unsized, evictees, total>>
retryVars  == <<rpc, paths, cutoff, late, replayed>>
lifeVars   == <<tick, wired, closed, crashes>>
history    == <<stored, handed, evicted, expired>>
vars == <<callVars, writerVars, disk, retryVars, lifeVars, history>>

Times == 0..MaxTime

(* CachedEntry; id is the number of the Store call. *)
Entry == [id: 1..MaxStores, kind: Kinds, at: Times, samples: BatchSizes]

(* A file is not whole while os.WriteFile runs, and for good when a crash or
   an I/O error cut it short. *)
File == [entry: Entry, whole: BOOLEAN]

(* entry.ID, the name of its file *)
Name == [kind: Kinds, at: Times]
NameOf(e) == [kind |-> e.kind, at |-> e.at]

(* sort.Strings on "logs_<nanos>" and "metrics_<nanos>" *)
NameLess(p, q) ==
  \/ p.kind = "logs" /\ q.kind = "metrics"
  \/ p.kind = q.kind /\ p.at < q.at
FirstOf(names) == CHOOSE p \in names : \A q \in names : p = q \/ NameLess(p, q)

(* info.Size(), in units that tell the batches apart *)
Bytes(f) == IF f.whole THEN 1 + f.entry.samples ELSE 1

(* listEntries *)
Listing == DOMAIN disk
Remove(p) == disk' = Restrict(disk, Listing \ {p})
Put(e, whole) ==
  disk' = [p \in Listing \cup {NameOf(e)} |->
             IF p = NameOf(e) THEN [entry |-> e, whole |-> whole] ELSE disk[p]]

LockFree == wpc = "none"

TypeOK ==
  /\ now \in Times /\ issued \in 0..MaxStores /\ calls \subseteq Entry
  /\ wpc \in {"none", "scan", "evict", "encode", "write"}
  /\ writing \subseteq Entry /\ (LockFree <=> writing = {})
  /\ unsized \subseteq Name /\ evictees \subseteq Name /\ total \in Nat
  /\ Listing \subseteq Name /\ \A p \in Listing : disk[p] \in File
  /\ rpc \in {"select", "list", "loop", "remove", "returned"}
  /\ paths \subseteq Name /\ cutoff \in 0..now /\ late \in BOOLEAN
  /\ replayed \subseteq Name
  /\ tick \in BOOLEAN /\ wired \in BOOLEAN /\ closed \in BOOLEAN
  /\ crashes \in 0..MaxCrashes
  /\ stored \subseteq Entry /\ handed \subseteq Entry
  /\ evicted \subseteq Entry /\ expired \subseteq Entry

WriterIdle ==
  /\ wpc = "none" /\ writing = {}
  /\ unsized = {} /\ evictees = {} /\ total = 0
RetryIdle ==
  /\ rpc = "select" /\ paths = {} /\ cutoff = 0 /\ late = FALSE /\ replayed = {}
Started ==
  /\ calls = {} /\ WriterIdle /\ RetryIdle
  /\ tick = FALSE /\ wired = FALSE /\ closed = FALSE

(* New on an empty directory *)
Init ==
  /\ Started
  /\ now = 0 /\ issued = 0 /\ crashes = 0
  /\ disk = <<>>
  /\ stored = {} /\ handed = {} /\ evicted = {} /\ expired = {}

-----------------------------------------------------------------------------
(* StoreMetrics, StoreLogs *)

(* A Store call takes its name from the clock before it waits for c.mu. *)
Store(kind, samples) ==
  LET e == [id |-> issued + 1, kind |-> kind, at |-> now, samples |-> samples] IN
  /\ issued < MaxStores
  /\ now < MaxTime
  /\ issued' = issued + 1
  /\ calls' = calls \cup {e}
  /\ now' = IF ClockMayRepeat THEN now ELSE now + 1
  /\ UNCHANGED <<writerVars, disk, retryVars, lifeVars, history>>

Clock ==
  /\ now < MaxTime
  /\ now' = now + 1
  /\ UNCHANGED <<issued, calls, writerVars, disk, retryVars, lifeVars, history>>

-----------------------------------------------------------------------------
(* write and evictIfNeeded, under c.mu *)

Lock(e) ==
  /\ LockFree
  /\ e \in calls
  /\ calls' = calls \ {e}
  /\ wpc' = "scan" /\ writing' = {e}
  /\ unsized' = Listing /\ evictees' = Listing /\ total' = 0
  /\ UNCHANGED <<now, issued, disk, retryVars, lifeVars, history>>

SizeAt(p) == IF p \in Listing THEN Bytes(disk[p]) ELSE 0

(* One os.Stat of the summing loop; retryLoop may have deleted the file. *)
Scan ==
  /\ wpc = "scan" /\ unsized # {}
  /\ total' = total + SizeAt(FirstOf(unsized))
  /\ unsized' = unsized \ {FirstOf(unsized)}
  /\ UNCHANGED <<callVars, wpc, writing, evictees, disk, retryVars, lifeVars, history>>

ScanEnd ==
  /\ wpc = "scan" /\ unsized = {}
  /\ wpc' = "evict"
  /\ UNCHANGED <<callVars, writing, unsized, evictees, total, disk, retryVars,
                 lifeVars, history>>

EvictDue == total > MaxBytes /\ evictees # {}

(* The paths evictIfNeeded goes on with *)
Evictees_Once == {}
Evictees == evictees \ {FirstOf(evictees)}

(* oldest, the first of them by name: any log entry goes before any metrics *)
Victim == FirstOf(evictees)

(* One turn of the deleting loop.  When retryLoop has deleted the file since
   the sum was taken, its size stays in total. *)
Evict ==
  /\ wpc = "evict" /\ EvictDue
  /\ total' = total - SizeAt(Victim)
  /\ Remove(Victim)
  /\ evicted' = evicted \cup (IF Victim \in Listing THEN {disk[Victim].entry} ELSE {})
  /\ evictees' = Evictees
  /\ UNCHANGED <<callVars, wpc, writing, unsized, retryVars, lifeVars,
                 stored, handed, expired>>

EvictEnd ==
  /\ wpc = "evict" /\ ~EvictDue
  /\ wpc' = "encode"
  /\ UNCHANGED <<callVars, writing, unsized, evictees, total, disk, retryVars,
                 lifeVars, history>>

(* The deferred c.mu.Unlock, and the end of the call *)
Unlock ==
  /\ wpc' = "none" /\ writing' = {}
  /\ unsized' = {} /\ evictees' = {} /\ total' = 0

(* json.Marshal refuses a NaN or an infinite value; room was made all the
   same. *)
MarshalFail ==
  /\ wpc = "encode"
  /\ Unlock
  /\ UNCHANGED <<callVars, disk, retryVars, lifeVars, history>>

(* os.WriteFile creates or truncates the file ... *)
Create ==
  /\ wpc = "encode"
  /\ \E e \in writing : Put(e, FALSE)
  /\ wpc' = "write"
  /\ UNCHANGED <<callVars, writing, unsized, evictees, total, retryVars, lifeVars, history>>

(* ... and writes the data, to no avail if the name is gone by now ... *)
WriteOk ==
  /\ wpc = "write"
  /\ \E e \in writing :
       /\ IF NameOf(e) \in Listing THEN Put(e, TRUE) ELSE disk' = disk
       /\ stored' = stored \cup {e}
  /\ Unlock
  /\ UNCHANGED <<callVars, retryVars, lifeVars, handed, evicted, expired>>

(* ... or fails, leaving what it had written. *)
WriteFail ==
  /\ IoMayFail
  /\ wpc = "write"
  /\ Unlock
  /\ UNCHANGED <<callVars, disk, retryVars, lifeVars, history>>

Writer ==
  \/ \E e \in calls : Lock(e)
  \/ Scan \/ ScanEnd \/ Evict \/ EvictEnd
  \/ MarshalFail \/ Create \/ WriteOk \/ WriteFail

-----------------------------------------------------------------------------
(* retryLoop and replayAll *)

(* The ticker's channel holds one tick; Stop does not drain it. *)
Tick ==
  /\ ~closed /\ ~tick
  /\ tick' = TRUE
  /\ UNCHANGED <<callVars, writerVars, disk, retryVars, wired, closed, crashes, history>>

LoopOnTick ==
  /\ rpc = "select" /\ tick
  /\ tick' = FALSE
  /\ rpc' = "list"
  /\ UNCHANGED <<callVars, writerVars, disk, paths, cutoff, late, replayed,
                 wired, closed, crashes, history>>

LoopOnDone ==
  /\ rpc = "select" /\ closed
  /\ rpc' = "returned"
  /\ UNCHANGED <<callVars, writerVars, disk, paths, cutoff, late, replayed,
                 lifeVars, history>>

(* time.Now().Add(-MaxAge), and without the minus sign *)
Cutoff_Future == now + MaxAge
Cutoff == IF now > MaxAge THEN now - MaxAge ELSE 0

(* When the directory may be listed *)
ListUnder_NoLock == TRUE
ListUnder == LockFree

(* What retryLoop does after replayAll finds nothing *)
AfterEmptyListing_Quit == "returned"
AfterEmptyListing == "select"

(* The listing, under c.mu.  Waiting for the lock may take the whole minute
   replayAll has: slow. *)
List(slow) ==
  /\ rpc = "list" /\ ListUnder
  /\ IF Listing = {}
     THEN rpc' = AfterEmptyListing /\ UNCHANGED <<paths, cutoff, late>>
     ELSE rpc' = "loop" /\ paths' = Listing /\ cutoff' = Cutoff /\ late' = slow
  /\ UNCHANGED <<callVars, writerVars, disk, replayed, lifeVars, history>>

Path == FirstOf(paths)
Looking == rpc = "loop" /\ paths # {}
NextPath == paths' = paths \ {Path}

(* os.ReadFile fails: evicted meanwhile, or an I/O error. *)
ReadFail ==
  /\ Looking
  /\ Path \notin Listing \/ IoMayFail
  /\ NextPath
  /\ UNCHANGED <<callVars, writerVars, disk, rpc, cutoff, late, replayed, lifeVars, history>>

Corrupt ==
  /\ Looking /\ Path \in Listing /\ ~disk[Path].whole
  /\ Remove(Path)
  /\ NextPath
  /\ UNCHANGED <<callVars, writerVars, rpc, cutoff, late, replayed, lifeVars, history>>

(* entry.CreatedAt.Before(cutoff) *)
TooOld(e) == e.at < cutoff

Expire ==
  /\ Looking /\ Path \in Listing /\ disk[Path].whole /\ TooOld(disk[Path].entry)
  /\ Remove(Path)
  /\ expired' = expired \cup {disk[Path].entry}
  /\ NextPath
  /\ UNCHANGED <<callVars, writerVars, rpc, cutoff, late, replayed, lifeVars,
                 stored, handed, evicted>>

(* The entry is fit to be replayed: the callback is set and the batch is not
   empty. *)
Replayable(e) == wired /\ e.samples > 0

Skip ==
  /\ Looking /\ Path \in Listing /\ disk[Path].whole
  /\ ~TooOld(disk[Path].entry) /\ ~Replayable(disk[Path].entry)
  /\ NextPath
  /\ UNCHANGED <<callVars, writerVars, disk, rpc, cutoff, late, replayed, lifeVars, history>>

(* OnRetryMetrics / OnRetryLogs.  The callbacks call Submit, which may stay in
   a flush for a whole request timeout, so the minute may be over after one. *)
HandOver ==
  /\ Looking /\ Path \in Listing /\ disk[Path].whole
  /\ ~TooOld(disk[Path].entry) /\ Replayable(disk[Path].entry)
  /\ handed' = handed \cup {disk[Path].entry}
  /\ replayed' = {Path}
  /\ late' = TRUE
  /\ rpc' = "remove"
  /\ UNCHANGED <<callVars, writerVars, disk, paths, cutoff, lifeVars,
                 stored, evicted, expired>>

(* The os.Remove that follows the callback *)
RemoveReplayed_Forgotten ==
  /\ rpc = "remove"
  /\ NextPath
  /\ replayed' = {} /\ rpc' = "loop"
  /\ UNCHANGED <<callVars, writerVars, disk, cutoff, late, lifeVars, history>>

RemoveReplayed ==
  /\ rpc = "remove"
  /\ Remove(Path)
  /\ NextPath
  /\ replayed' = {} /\ rpc' = "loop"
  /\ UNCHANGED <<callVars, writerVars, cutoff, late, lifeVars, history>>

(* The end of the list, or ctx.Done() *)
PassEnd ==
  /\ rpc = "loop"
  /\ paths = {} \/ late
  /\ rpc' = "select" /\ paths' = {} /\ cutoff' = 0 /\ late' = FALSE
  /\ UNCHANGED <<callVars, writerVars, disk, replayed, lifeVars, history>>

ReplayStep ==
  ReadFail \/ Corrupt \/ Expire \/ Skip \/ HandOver \/ RemoveReplayed \/ PassEnd

Retry ==
  LoopOnTick \/ LoopOnDone \/ (\E slow \in BOOLEAN : List(slow)) \/ ReplayStep

-----------------------------------------------------------------------------
(* main *)

(* main sets the callbacks after New has started retryLoop. *)
Wire ==
  /\ ~wired
  /\ wired' = TRUE
  /\ UNCHANGED <<callVars, writerVars, disk, retryVars, tick, closed, crashes, history>>

Close ==
  /\ ~closed /\ wired
  /\ closed' = TRUE
  /\ UNCHANGED <<callVars, writerVars, disk, retryVars, tick, wired, crashes, history>>

(* The process ends at any point, during a shutdown too, and is started
   again on the directory it leaves. *)
Crash ==
  /\ crashes < MaxCrashes
  /\ crashes' = crashes + 1
  /\ calls' = {}
  /\ wpc' = "none" /\ writing' = {} /\ unsized' = {} /\ evictees' = {} /\ total' = 0
  /\ rpc' = "select" /\ paths' = {} /\ cutoff' = 0 /\ late' = FALSE /\ replayed' = {}
  /\ tick' = FALSE /\ wired' = FALSE /\ closed' = FALSE
  /\ UNCHANGED <<now, issued, disk, history>>

Next ==
  \/ \E kind \in Kinds, n \in BatchSizes : Store(kind, n)
  \/ Clock
  \/ Writer
  \/ Tick \/ Retry
  \/ Wire \/ Close \/ Crash

Spec == Init /\ [][Next]_vars

(* The scheduler runs the holder of c.mu and retryLoop, the ticker fires, main
   reaches the assignments of the callbacks, a waiting retryLoop gets the mutex,
   and waiting for it does not take a minute every time. *)
Fairness ==
  /\ WF_vars(Writer) /\ WF_vars(Tick) /\ WF_vars(Wire)
  /\ WF_vars(LoopOnTick \/ LoopOnDone)
  /\ SF_vars(List(FALSE))
  /\ WF_vars(ReplayStep)

FairSpec == Spec /\ Fairness

-----------------------------------------------------------------------------
(* Properties *)

OnDisk(e) ==
  /\ NameOf(e) \in Listing
  /\ disk[NameOf(e)] = [entry |-> e, whole |-> TRUE]
Gone == handed \cup evicted \cup expired

(* An entry whose Store call returned nil leaves the directory only by being
   handed to a callback, evicted for size or discarded for age: through
   crashes and restarts, and although replayAll reads and deletes files
   without the lock, it never takes a file that is still being written for a
   corrupt one. *)
NoEntryVanishes == \A e \in stored : OnDisk(e) \/ e \in Gone

(* Files whose entries have been handed over and that retryLoop is not about to
   delete: their entries will be replayed again. *)
ToBeRepeated == {p \in Listing : disk[p].entry \in handed} \ replayed

(* An entry is replayed once, and every crash, falling between the callback
   and os.Remove, makes one entry at most be replayed again. *)
ReplayedOnce == Cardinality(ToBeRepeated) <= crashes

(* The bytes of some files, each a name and a position in the file *)
BytesIn(d, names) == UNION {{p} \X (1..Bytes(d[p])) : p \in names}
DiskBytes == Cardinality(BytesIn(disk, Listing))

(* Whatever retryLoop deletes while evictIfNeeded works on the sizes it has
   summed up, the directory exceeds max_size_mb by one entry at most. *)
SizeBounded == DiskBytes <= MaxBytes + 1 + Max(BatchSizes)

(* A stored batch that is not empty leaves the directory, unless the cache is
   closed: no entry is overlooked for ever, although a pass may end after the
   first one and the callbacks are set after the loop was started. *)
SpooledIsRetried ==
  \A i \in 1..MaxStores :
    (\E p \in Listing : disk[p].entry.id = i /\ disk[p].whole /\ disk[p].entry.samples > 0)
      ~> (closed \/ \A p \in Listing : disk[p].entry.id # i)
=============================================================================
