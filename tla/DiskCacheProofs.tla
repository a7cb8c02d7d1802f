-------------------------- MODULE DiskCacheProofs --------------------------
(***************************************************************************)
(* Proofs about DiskCache for any size limit, age limit and batch sizes,   *)
(* any number of Store calls, readings of the clock and crashes.           *)
(***************************************************************************)
EXTENDS DiskCache, FiniteSetTheorems, WellFoundedInduction, TLAPS

(* A set of numbers that is not empty has a least one. *)
LEMMA LeastNumber ==
  ASSUME NEW T \in SUBSET Nat, T # {}
  PROVE  \E x \in T : \A y \in T : x <= y
  <1> DEFINE R == {ss \in Nat \X Nat : ss[1] < ss[2]}
  <1>1. IsWellFoundedOn(R, Nat)
    BY NatLessThanWellFounded, Zenon DEF OpToRel
  <1> HIDE DEF R
  <1>2. PICK x \in T : \A y \in T : ~(<<y, x>> \in R)
    BY <1>1, WFMin
  <1>3. ASSUME NEW y \in T PROVE x <= y
    <2>1. x \in Nat /\ y \in Nat /\ <<y, x>> \notin R
      BY <1>2
    <2>2. ~(y < x)
      BY <2>1 DEF R
    <2> QED BY <2>1, <2>2
  <1> QED BY <1>3

(* The head of a sorted list that is not empty is one of its names, and the
   others sort after it. *)
LEMMA FirstOfProperties ==
  ASSUME NEW S \in SUBSET Name, S # {}
  PROVE  /\ FirstOf(S) \in S
         /\ \A q \in S : FirstOf(S) = q \/ NameLess(FirstOf(S), q)
  <1> USE DiskCacheAssumption
  <1>1. \A p \in S : /\ p = [kind |-> p.kind, at |-> p.at]
                     /\ p.at \in Nat /\ p.kind \in {"logs", "metrics"}
    <2>1. \A p \in S : p \in [kind: Kinds, at: 0..MaxTime]
      BY DEF Name, Times
    <2> QED BY <2>1
  <1>2. ASSUME NEW k \in {"logs", "metrics"}, \E p \in S : p.kind = k
        PROVE  \E p \in S : p.kind = k /\ \A q \in S : q.kind = k => p = q \/ p.at < q.at
    <2> DEFINE T == {p.at : p \in {x \in S : x.kind = k}}
    <2>1. T \in SUBSET Nat /\ T # {}
      BY <1>1, <1>2
    <2>2. PICK t \in T : \A u \in T : t <= u
      BY <2>1, LeastNumber
    <2>3. PICK p \in S : p.kind = k /\ p.at = t
      OBVIOUS
    <2>4. ASSUME NEW q \in S, q.kind = k PROVE p = q \/ p.at < q.at
      <3>1. t <= q.at
        BY <2>2, <2>4
      <3>2. p.at = q.at => p = q
        BY <1>1, <2>3, <2>4
      <3> QED BY <1>1, <2>3, <3>1, <3>2
    <2> QED BY <2>3, <2>4
  <1>3. \E p \in S : \A q \in S : p = q \/ NameLess(p, q)
    <2>1. CASE \E p \in S : p.kind = "logs"
      BY <1>1, <1>2, <2>1 DEF NameLess
    <2>2. CASE ~ \E p \in S : p.kind = "logs"
      BY <1>1, <1>2, <2>2 DEF NameLess
    <2> QED BY <2>1, <2>2
  <1> QED BY <1>3 DEF FirstOf

-----------------------------------------------------------------------------
(* The bytes of finitely many files *)

(* Every file has a size. *)
LEMMA BytesType ==
  ASSUME NEW f \in File
  PROVE  Bytes(f) \in Nat /\ (~f.whole => Bytes(f) = 1)
  <1> USE DiskCacheAssumption
  <1>1. f.whole \in BOOLEAN /\ f.entry.samples \in Nat
    BY DEF File, Entry
  <1> QED BY <1>1 DEF Bytes

(* The bytes of one file *)
LEMMA OneFile ==
  ASSUME NEW p, NEW n \in Nat
  PROVE  IsFiniteSet({p} \X (1..n)) /\ Cardinality({p} \X (1..n)) = n
  <1> DEFINE A == {p}
             B == 1..n
  <1>1. IsFiniteSet(A) /\ Cardinality(A) = 1
    BY FS_Singleton
  <1>2. IsFiniteSet(B) /\ Cardinality(B) = n
    BY FS_Interval
  <1> HIDE DEF A, B
  <1>3. IsFiniteSet(A \X B) /\ Cardinality(A \X B) = Cardinality(A) * Cardinality(B)
    BY <1>1, <1>2, FS_Product
  <1>4. Cardinality(A \X B) = n
    BY <1>1, <1>2, <1>3
  <1> QED BY <1>3, <1>4 DEF A, B

(* Finitely many files hold finitely many bytes. *)
LEMMA BytesFinite ==
  ASSUME NEW S, IsFiniteSet(S), NEW d, \A p \in S : d[p] \in File
  PROVE  IsFiniteSet(BytesIn(d, S)) /\ Cardinality(BytesIn(d, S)) \in Nat
  <1> DEFINE g == [p \in S |-> {p} \X (1..Bytes(d[p]))]
             T == {{p} \X (1..Bytes(d[p])) : p \in S}
  <1>1. g \in Surjection(S, T)
    BY DEF Surjection
  <1> HIDE DEF g
  <1>2. IsFiniteSet(T)
    BY <1>1, FS_Surjection
  <1>3. \A b \in T : IsFiniteSet(b)
    <2>1. \A p \in S : IsFiniteSet({p} \X (1..Bytes(d[p])))
      BY BytesType, OneFile
    <2> QED BY <2>1
  <1>4. IsFiniteSet(UNION T)
    BY <1>2, <1>3, FS_UNION
  <1> QED BY <1>4, FS_CardinalityType DEF BytesIn

(* Fewer files have no more bytes. *)
LEMMA BytesMonotone ==
  ASSUME NEW T, IsFiniteSet(T), NEW S \in SUBSET T, NEW d, \A p \in T : d[p] \in File
  PROVE  Cardinality(BytesIn(d, S)) <= Cardinality(BytesIn(d, T))
  <1>1. BytesIn(d, S) \in SUBSET BytesIn(d, T)
    BY DEF BytesIn
  <1> QED BY <1>1, BytesFinite, FS_Subset

(* One more file adds its own bytes. *)
LEMMA BytesAdd ==
  ASSUME NEW S, IsFiniteSet(S), NEW q, q \notin S, NEW d,
         d[q] \in File, \A p \in S : d[p] \in File
  PROVE  Cardinality(BytesIn(d, S \cup {q})) = Cardinality(BytesIn(d, S)) + Bytes(d[q])
  <1> DEFINE A == BytesIn(d, S)
             B == {q} \X (1..Bytes(d[q]))
  <1>1. IsFiniteSet(A) /\ Cardinality(A) \in Nat
    BY BytesFinite
  <1>2. IsFiniteSet(B) /\ Cardinality(B) = Bytes(d[q]) /\ Bytes(d[q]) \in Nat
    BY BytesType, OneFile
  <1>3. BytesIn(d, S \cup {q}) = A \cup B
    BY DEF BytesIn
  <1>4. A \cap B = {}
    BY DEF BytesIn
  <1> HIDE DEF A, B
  <1>5. Cardinality(A \cup B) = Cardinality(A) + Cardinality(B) - Cardinality(A \cap B)
    BY <1>1, <1>2, FS_Union
  <1>6. Cardinality(A \cap B) = 0
    BY <1>4, FS_EmptySet
  <1>7. Cardinality(A \cup B) = Cardinality(A) + Bytes(d[q])
    BY <1>1, <1>2, <1>5, <1>6
  <1> QED BY <1>3, <1>7 DEF A

(* Files that do not change keep their bytes. *)
LEMMA BytesSame ==
  ASSUME NEW S, NEW d, NEW e, \A p \in S : d[p] = e[p]
  PROVE  BytesIn(d, S) = BytesIn(e, S)
  BY DEF BytesIn

(* A finite set of numbers that is not empty has a greatest one. *)
LEMMA GreatestNumber ==
  ASSUME NEW S \in SUBSET Nat, IsFiniteSet(S), S # {}
  PROVE  Max(S) \in S /\ \A n \in S : n <= Max(S)
  <1> DEFINE NoMax(X) == X \in SUBSET Nat /\ IsFiniteSet(X) /\ X # {}
                           /\ ~ \E x \in X : \A y \in X : y <= x
             T == {n \in Nat : \E X \in SUBSET Nat : NoMax(X) /\ Cardinality(X) = n}
  <1>1. T = {}
    <2> SUFFICES ASSUME T # {} PROVE FALSE
      OBVIOUS
    <2>1. PICK n \in T : \A m \in T : n <= m
      BY LeastNumber
    <2>2. PICK X \in SUBSET Nat : NoMax(X) /\ Cardinality(X) = n
      OBVIOUS
    <2>3. PICK x \in X : TRUE
      BY <2>2
    <2> DEFINE Y == X \ {x}
    <2>4. IsFiniteSet(Y) /\ Cardinality(Y) = n - 1
      BY <2>2, <2>3, FS_RemoveElement
    <2>5. Y # {}
      <3>1. x <= x /\ \E y \in X : ~(y <= x)
        BY <2>2, <2>3
      <3> QED BY <3>1
    <2>6. n - 1 \in Nat /\ n - 1 \notin T
      <3>1. n - 1 \in Nat /\ n \in Nat
        BY <2>4, FS_CardinalityType
      <3>2. ~(n <= n - 1)
        BY <3>1
      <3> QED BY <2>1, <3>1, <3>2
    <2>7. PICK y \in Y : \A z \in Y : z <= y
      BY <2>4, <2>5, <2>6
    <2>8. x <= y \/ y <= x
      BY <2>2
    <2>9. \E m \in X : \A z \in X : z <= m
      <3>1. CASE x <= y
        BY <2>7, <3>1
      <3>2. CASE y <= x
        BY <2>2, <2>7, <3>2
      <3> QED BY <2>8, <3>1, <3>2
    <2> QED BY <2>2, <2>9
  <1>2. \E x \in S : \A y \in S : y <= x
    BY <1>1, FS_CardinalityType
  <1>3. \E x \in S : \A y \in S : x >= y
    BY <1>2
  <1> QED BY <1>3 DEF Max

-----------------------------------------------------------------------------
(* Types and sizes *)

(* A file holds the entry its name was made for. *)
NamesMatch == \A p \in Listing : NameOf(disk[p].entry) = p

(* c.mu is held by one writer at most. *)
OneWriter == \A e, f \in writing : e = f

(* While room is made nothing is added to the directory, so what evictIfNeeded
   listed covers it. *)
ListedAll == wpc \in {"scan", "evict"} => Listing \subseteq evictees

(* total covers what has been summed up, although retryLoop deletes files, and
   then what is there to be evicted; after that there is room. *)
RoomMade ==
  /\ IsFiniteSet(Listing)
  /\ wpc = "scan" => Cardinality(BytesIn(disk, Listing \ unsized)) <= total
  /\ wpc = "evict" => DiskBytes <= total
  /\ wpc = "encode" => DiskBytes <= MaxBytes
  /\ wpc = "write" =>
       \A e \in writing : Cardinality(BytesIn(disk, Listing \ {NameOf(e)})) <= MaxBytes

(* Inductive.  total is a natural number only because it covers what is
   subtracted from it, so the types and the sizes go together. *)
SizeInv == TypeOK /\ OneWriter /\ NamesMatch /\ ListedAll /\ RoomMade /\ SizeBounded

-----------------------------------------------------------------------------
(* Names, when no two Store calls read the same nanosecond *)

(* Every name in use was taken before now, and no two pending calls share one;
   a pending call's name is neither in the directory nor in a list retryLoop
   works on. *)
NamesFresh ==
  /\ \A e \in calls \cup writing : e.at < now /\ e \notin handed
  /\ \A e \in handed : e.at < now
  /\ \A p \in Listing \cup paths : p.at < now
  /\ \A e, f \in calls \cup writing : e.at = f.at => e = f
  /\ calls \cap writing = {}
  /\ \A e \in calls : NameOf(e) \notin Listing \cup paths
  /\ \A e \in writing : NameOf(e) \notin paths

(* The file being written is not there before it is created, and stays there
   half-written until the write ends. *)
WritingAlone ==
  \A e \in writing :
    /\ wpc \in {"scan", "evict", "encode"} => NameOf(e) \notin Listing
    /\ wpc = "write" => /\ NameOf(e) \in Listing
                        /\ disk[NameOf(e)] = [entry |-> e, whole |-> FALSE]

(* retryLoop is about to delete the file it has just handed over. *)
RemovesHanded ==
  /\ replayed = IF rpc = "remove" THEN {Path} ELSE {}
  /\ rpc = "remove" => /\ paths # {}
                       /\ Path \in Listing => disk[Path].entry \in handed

(* Inductive, and the reason why deleting without the lock is harmless. *)
NameInv == NamesFresh /\ WritingAlone /\ RemovesHanded /\ NoEntryVanishes /\ ReplayedOnce

-----------------------------------------------------------------------------
(* What deleting and writing a file do to the directory *)

(* os.Remove takes one name out and leaves the other files alone. *)
LEMMA RemoveProperties ==
  ASSUME NEW p, Remove(p)
  PROVE  Listing' = Listing \ {p} /\ \A q \in Listing' : disk'[q] = disk[q]
  BY DEF Remove, Restrict, Listing

(* os.WriteFile changes the file of one name. *)
LEMMA PutProperties ==
  ASSUME NEW e, NEW w, Put(e, w)
  PROVE  /\ Listing' = Listing \cup {NameOf(e)}
         /\ disk'[NameOf(e)] = [entry |-> e, whole |-> w]
         /\ \A q \in Listing' : q # NameOf(e) => disk'[q] = disk[q]
  BY DEF Put, Listing

(* The name and the file of an entry *)
LEMMA EntryProperties ==
  ASSUME NEW e \in Entry
  PROVE  /\ NameOf(e) \in Name /\ NameOf(e).at = e.at /\ NameOf(e).kind = e.kind
         /\ e.at \in Nat /\ e.samples \in BatchSizes
         /\ \A w \in BOOLEAN : [entry |-> e, whole |-> w] \in File
  BY DiskCacheAssumption DEF Entry, NameOf, Name, File, Times

(* Writing an entry keeps the directory one of entries. *)
LEMMA PutTyped ==
  ASSUME TypeOK, NEW e \in Entry, NEW w \in BOOLEAN, Put(e, w)
  PROVE  Listing' \subseteq Name /\ \A p \in Listing' : disk'[p] \in File
  <1>1. /\ Listing' = Listing \cup {NameOf(e)}
        /\ disk'[NameOf(e)] = [entry |-> e, whole |-> w]
        /\ \A q \in Listing' : q # NameOf(e) => disk'[q] = disk[q]
    BY PutProperties
  <1>2. NameOf(e) \in Name /\ [entry |-> e, whole |-> w] \in File
    BY EntryProperties
  <1> QED BY <1>1, <1>2 DEF TypeOK

(* retryLoop's list, when it is not empty, has a first path. *)
LEMMA PathProperties ==
  ASSUME TypeOK, paths # {}
  PROVE  Path \in paths /\ Path \in Name
  BY FirstOfProperties DEF TypeOK, Path

(* Types, but for total *)
LEMMA TypeStep ==
  ASSUME TypeOK, [Next]_vars, total' \in Nat
  PROVE  TypeOK'
  <1> USE DiskCacheAssumption
  <1>1. ASSUME NEW kind \in Kinds, NEW n \in BatchSizes, Store(kind, n) PROVE TypeOK'
    <2>1. [id |-> issued + 1, kind |-> kind, at |-> now, samples |-> n] \in Entry
      BY <1>1 DEF Store, TypeOK, Entry
    <2>2. now' \in Times /\ issued' \in 0..MaxStores /\ calls' \subseteq Entry
      BY <1>1, <2>1 DEF Store, TypeOK, Times
    <2>3. UNCHANGED <<writerVars, disk, retryVars, lifeVars, history>>
      BY <1>1 DEF Store
    <2>4. cutoff' \in 0..now'
      BY <1>1 DEF Store, TypeOK, Times, retryVars
    <2> QED BY <2>2, <2>3, <2>4 DEF TypeOK, LockFree, Listing, writerVars, retryVars, lifeVars, history
  <1>2. CASE Clock
    <2>1. now' \in Times /\ UNCHANGED <<issued, calls, writerVars, disk, retryVars, lifeVars, history>>
      BY <1>2 DEF Clock, TypeOK, Times
    <2>2. cutoff' \in 0..now'
      BY <1>2 DEF Clock, TypeOK, Times, retryVars
    <2> QED BY <2>1, <2>2 DEF TypeOK, LockFree, Listing, writerVars, retryVars, lifeVars, history
  <1>3. ASSUME NEW e \in calls, Lock(e) PROVE TypeOK'
    <2>1. /\ calls' \subseteq Entry /\ wpc' = "scan" /\ writing' = {e} /\ e \in Entry
          /\ unsized' \subseteq Name /\ evictees' \subseteq Name
          /\ UNCHANGED <<now, issued, disk, retryVars, lifeVars, history>>
      BY <1>3 DEF Lock, TypeOK
    <2> QED BY <2>1 DEF TypeOK, LockFree, Listing, retryVars, lifeVars, history
  <1>4. CASE Scan
    <2>1. /\ unsized' \subseteq Name
          /\ UNCHANGED <<callVars, wpc, writing, evictees, disk, retryVars, lifeVars, history>>
      BY <1>4 DEF Scan, TypeOK
    <2> QED BY <2>1 DEF TypeOK, LockFree, Listing, callVars, retryVars, lifeVars, history
  <1>5. CASE ScanEnd \/ EvictEnd
    <2>1. /\ wpc # "none" /\ wpc' \in {"evict", "encode"}
          /\ UNCHANGED <<callVars, writing, unsized, evictees, disk, retryVars, lifeVars, history>>
      BY <1>5 DEF ScanEnd, EvictEnd
    <2> QED BY <2>1 DEF TypeOK, LockFree, Listing, callVars, retryVars, lifeVars, history
  <1>6. CASE Evict
    <2>1. /\ UNCHANGED <<callVars, wpc, writing, unsized, retryVars, lifeVars, stored, handed, expired>>
          /\ evictees' \subseteq Name /\ Remove(Victim)
          /\ evicted' = evicted \cup (IF Victim \in Listing THEN {disk[Victim].entry} ELSE {})
      BY <1>6 DEF Evict, Evictees, TypeOK
    <2>2. evicted' \subseteq Entry
      BY <2>1 DEF TypeOK, File
    <2>3. Listing' \subseteq Name /\ \A p \in Listing' : disk'[p] \in File
      BY <2>1, RemoveProperties DEF TypeOK
    <2> QED BY <2>1, <2>2, <2>3 DEF TypeOK, LockFree, callVars, retryVars, lifeVars
  <1>7. CASE MarshalFail \/ WriteFail
    <2>1. Unlock /\ UNCHANGED <<callVars, disk, retryVars, lifeVars, history>>
      BY <1>7 DEF MarshalFail, WriteFail
    <2> QED BY <2>1 DEF Unlock, TypeOK, LockFree, Listing, callVars, retryVars, lifeVars, history
  <1>8. CASE Create
    <2>1. PICK e \in writing : Put(e, FALSE)
      BY <1>8 DEF Create
    <2>2. /\ wpc # "none" /\ wpc' = "write"
          /\ UNCHANGED <<callVars, writing, unsized, evictees, retryVars, lifeVars, history>>
      BY <1>8 DEF Create
    <2>3. Listing' \subseteq Name /\ \A p \in Listing' : disk'[p] \in File
      BY <2>1, PutTyped DEF TypeOK
    <2> QED BY <2>2, <2>3 DEF TypeOK, LockFree, callVars, retryVars, lifeVars, history
  <1>9. CASE WriteOk
    <2>1. PICK e \in writing : /\ IF NameOf(e) \in Listing THEN Put(e, TRUE) ELSE disk' = disk
                               /\ stored' = stored \cup {e}
      BY <1>9 DEF WriteOk
    <2>2. Unlock /\ UNCHANGED <<callVars, retryVars, lifeVars, handed, evicted, expired>>
      BY <1>9 DEF WriteOk
    <2>3. Listing' \subseteq Name /\ \A p \in Listing' : disk'[p] \in File
      <3>1. CASE NameOf(e) \in Listing
        BY <2>1, <3>1, PutTyped DEF TypeOK
      <3>2. CASE NameOf(e) \notin Listing
        BY <2>1, <3>2 DEF TypeOK, Listing
      <3> QED BY <3>1, <3>2
    <2>4. stored' \subseteq Entry
      BY <2>1 DEF TypeOK
    <2> QED BY <2>2, <2>3, <2>4 DEF Unlock, TypeOK, LockFree, callVars, retryVars, lifeVars
  <1>10. CASE Tick \/ Wire \/ Close
    BY <1>10 DEF Tick, Wire, Close, TypeOK, LockFree, Listing, callVars, writerVars, retryVars, history
  <1>11. CASE LoopOnTick \/ LoopOnDone
    BY <1>11 DEF LoopOnTick, LoopOnDone, TypeOK, LockFree, Listing, callVars, writerVars,
                 lifeVars, history
  <1>12. ASSUME NEW slow \in BOOLEAN, List(slow) PROVE TypeOK'
    <2>1. /\ UNCHANGED <<callVars, writerVars, disk, replayed, lifeVars, history>>
          /\ rpc' \in {"select", "loop"} /\ paths' \subseteq Name /\ late' \in BOOLEAN
      BY <1>12 DEF List, AfterEmptyListing, TypeOK
    <2>2. cutoff' \in 0..now'
      BY <1>12 DEF List, Cutoff, TypeOK, Times, callVars
    <2> QED BY <2>1, <2>2 DEF TypeOK, LockFree, Listing, callVars, writerVars, lifeVars, history
  <1>13. CASE ReadFail \/ Skip
    <2>1. /\ UNCHANGED <<callVars, writerVars, disk, rpc, cutoff, late, replayed, lifeVars, history>>
          /\ paths' \subseteq Name
      BY <1>13 DEF ReadFail, Skip, NextPath, TypeOK
    <2> QED BY <2>1 DEF TypeOK, LockFree, Listing, callVars, writerVars, lifeVars, history
  <1>14. CASE Corrupt \/ Expire \/ RemoveReplayed
    <2>1. /\ UNCHANGED <<callVars, writerVars, cutoff, late, lifeVars, stored, handed, evicted>>
          /\ rpc' \in {rpc, "loop"} /\ replayed' \subseteq Name
          /\ paths' \subseteq Name /\ Remove(Path)
      BY <1>14 DEF Corrupt, Expire, RemoveReplayed, NextPath, TypeOK, history
    <2>2. expired' \subseteq Entry
      BY <1>14 DEF Corrupt, Expire, RemoveReplayed, TypeOK, history, File
    <2>3. Listing' \subseteq Name /\ \A p \in Listing' : disk'[p] \in File
      BY <2>1, RemoveProperties DEF TypeOK
    <2> QED BY <2>1, <2>2, <2>3 DEF TypeOK, LockFree, callVars, writerVars, lifeVars
  <1>15. CASE HandOver
    <2>1. /\ UNCHANGED <<callVars, writerVars, disk, paths, cutoff, lifeVars, stored, evicted, expired>>
          /\ rpc' = "remove" /\ late' = TRUE /\ replayed' = {Path}
          /\ handed' = handed \cup {disk[Path].entry} /\ Path \in Listing /\ paths # {}
      BY <1>15 DEF HandOver, Looking
    <2>2. handed' \subseteq Entry /\ replayed' \subseteq Name
      BY <2>1, PathProperties DEF TypeOK, File
    <2> QED BY <2>1, <2>2 DEF TypeOK, LockFree, Listing, callVars, writerVars, lifeVars
  <1>16. CASE PassEnd
    <2>1. /\ rpc' = "select" /\ paths' = {} /\ cutoff' \in 0..now /\ late' = FALSE
          /\ UNCHANGED <<callVars, writerVars, disk, replayed, lifeVars, history>>
      BY <1>16 DEF PassEnd, TypeOK, Times
    <2> QED BY <2>1 DEF TypeOK, LockFree, Listing, callVars, writerVars, lifeVars, history
  <1>17. CASE Crash
    <2>1. crashes' \in 0..MaxCrashes /\ 0 \in 0..now
      BY <1>17 DEF Crash, TypeOK, Times
    <2> QED BY <1>17, <2>1 DEF Crash, TypeOK, LockFree, Listing, history
  <1>18. CASE UNCHANGED vars
    BY <1>18 DEF vars, TypeOK, LockFree, Listing, callVars, writerVars, retryVars, lifeVars, history
  <1> QED BY <1>1, <1>2, <1>3, <1>4, <1>5, <1>6, <1>7, <1>8, <1>9, <1>10, <1>11, <1>12,
             <1>13, <1>14, <1>15, <1>16, <1>17, <1>18 DEF Next, Writer, Retry, ReplayStep

(* The parts of SizeInv that depend on the directory and the writer *)
RoomInv == OneWriter /\ NamesMatch /\ ListedAll /\ RoomMade /\ SizeBounded

(* Deleting a file, whoever does it, leaves no more bytes behind in any part of
   the directory. *)
LEMMA RemoveBytes ==
  ASSUME SizeInv, NEW p, Remove(p), NEW S
  PROVE  /\ IsFiniteSet(Listing')
         /\ Cardinality(BytesIn(disk', Listing' \ S)) <= Cardinality(BytesIn(disk, Listing \ S))
         /\ NamesMatch'
  <1>1. Listing' = Listing \ {p} /\ \A q \in Listing' : disk'[q] = disk[q]
    BY RemoveProperties
  <1>2. IsFiniteSet(Listing) /\ \A q \in Listing : disk[q] \in File
    BY DEF SizeInv, RoomMade, TypeOK
  <1>3. BytesIn(disk', Listing' \ S) = BytesIn(disk, Listing' \ S)
    BY <1>1, BytesSame
  <1>4. IsFiniteSet(Listing \ S) /\ IsFiniteSet(Listing')
    BY <1>1, <1>2, FS_Difference
  <1>5. Cardinality(BytesIn(disk, Listing' \ S)) <= Cardinality(BytesIn(disk, Listing \ S))
    BY <1>1, <1>2, <1>4, BytesMonotone
  <1>6. NamesMatch'
    BY <1>1 DEF SizeInv, NamesMatch
  <1> QED BY <1>3, <1>4, <1>5, <1>6

(* What is on the disk is a number of bytes within the bound. *)
LEMMA DiskBytesType ==
  ASSUME SizeInv
  PROVE  /\ DiskBytes \in Nat
         /\ \A S : Cardinality(BytesIn(disk, Listing \ S)) \in Nat
         /\ Max(BatchSizes) \in Nat /\ \A n \in BatchSizes : n <= Max(BatchSizes)
  <1> USE DiskCacheAssumption
  <1>1. IsFiniteSet(Listing) /\ \A q \in Listing : disk[q] \in File
    BY DEF SizeInv, RoomMade, TypeOK
  <1>2. DiskBytes \in Nat
    BY <1>1, BytesFinite DEF DiskBytes
  <1>3. ASSUME NEW S PROVE Cardinality(BytesIn(disk, Listing \ S)) \in Nat
    <2>1. IsFiniteSet(Listing \ S)
      BY <1>1, FS_Difference
    <2> QED BY <1>1, <2>1, BytesFinite
  <1>4. Max(BatchSizes) \in BatchSizes /\ \A n \in BatchSizes : n <= Max(BatchSizes)
    BY GreatestNumber
  <1> QED BY <1>2, <1>3, <1>4

(* retryLoop's deletions *)
LEMMA RetryRemovesBytes ==
  ASSUME SizeInv, NEW p, Remove(p), UNCHANGED writerVars
  PROVE  total' \in Nat /\ RoomInv'
  <1>1. /\ IsFiniteSet(Listing') /\ NamesMatch'
        /\ \A S : Cardinality(BytesIn(disk', Listing' \ S)) <= Cardinality(BytesIn(disk, Listing \ S))
    BY RemoveBytes
  <1>2. /\ wpc' = wpc /\ total' = total /\ total \in Nat
        /\ writing' = writing /\ unsized' = unsized /\ evictees' = evictees
    BY DEF writerVars, SizeInv, TypeOK
  <1>3. DiskBytes' <= DiskBytes
    <2>1. Listing \ {} = Listing /\ Listing' \ {} = Listing'
      OBVIOUS
    <2> QED BY <1>1, <2>1 DEF DiskBytes
  <1>4. IsFiniteSet(Listing') /\ Listing' \subseteq Listing /\ \A q \in Listing' : disk'[q] \in File
    BY <1>1, RemoveProperties DEF SizeInv, TypeOK
  <1>5. /\ DiskBytes' \in Nat
        /\ \A S : Cardinality(BytesIn(disk', Listing' \ S)) \in Nat
    <2>1. ASSUME NEW S PROVE Cardinality(BytesIn(disk', Listing' \ S)) \in Nat
      <3>1. IsFiniteSet(Listing' \ S)
        BY <1>4, FS_Difference
      <3> QED BY <1>4, <3>1, BytesFinite
    <2> QED BY <1>4, <2>1, BytesFinite DEF DiskBytes
  <1>6. ListedAll'
    BY <1>2, <1>4 DEF SizeInv, ListedAll
  <1>7. RoomMade'
    <2>1. wpc = "scan" => Cardinality(BytesIn(disk', Listing' \ unsized)) <= total
      BY <1>1, <1>2, <1>5, DiskBytesType DEF SizeInv, RoomMade
    <2>2. /\ wpc = "evict" => DiskBytes' <= total
          /\ wpc = "encode" => DiskBytes' <= MaxBytes
      BY <1>2, <1>3, <1>5, DiskBytesType, DiskCacheAssumption DEF SizeInv, RoomMade
    <2>3. wpc = "write" =>
            \A e \in writing : Cardinality(BytesIn(disk', Listing' \ {NameOf(e)})) <= MaxBytes
      <3> SUFFICES ASSUME wpc = "write", NEW e \in writing
                   PROVE  Cardinality(BytesIn(disk', Listing' \ {NameOf(e)})) <= MaxBytes
        OBVIOUS
      <3> DEFINE after == Cardinality(BytesIn(disk', Listing' \ {NameOf(e)}))
                 before == Cardinality(BytesIn(disk, Listing \ {NameOf(e)}))
      <3>1. after <= before /\ after \in Nat /\ before \in Nat
        BY <1>1, <1>5, DiskBytesType
      <3>2. before <= MaxBytes /\ MaxBytes \in Nat
        BY DiskCacheAssumption DEF SizeInv, RoomMade
      <3> HIDE DEF after, before
      <3>3. after <= MaxBytes
        BY <3>1, <3>2
      <3> QED BY <3>3 DEF after
    <2> QED BY <1>2, <1>4, <2>1, <2>2, <2>3 DEF RoomMade
  <1>8. SizeBounded'
    BY <1>3, <1>5, DiskBytesType, DiskCacheAssumption DEF SizeInv, SizeBounded
  <1>9. OneWriter'
    BY <1>2 DEF SizeInv, OneWriter
  <1> QED BY <1>1, <1>2, <1>6, <1>7, <1>8, <1>9 DEF RoomInv

(* The sum covers one file more with each os.Stat. *)
LEMMA ScanStep ==
  ASSUME SizeInv, Scan
  PROVE  total' \in Nat /\ RoomInv'
  <1> DEFINE p == FirstOf(unsized)
             done == Cardinality(BytesIn(disk, Listing \ unsized))
  <1>1. /\ wpc = "scan" /\ unsized # {} /\ wpc' = wpc
        /\ total' = total + SizeAt(p) /\ unsized' = unsized \ {p}
        /\ UNCHANGED <<writing, evictees, disk>>
    BY DEF Scan
  <1>2. p \in unsized /\ total \in Nat /\ \A q \in Listing : disk[q] \in File
    BY <1>1, FirstOfProperties DEF SizeInv, TypeOK
  <1>3. SizeAt(p) \in Nat
    BY <1>2, BytesType DEF SizeAt
  <1>4. IsFiniteSet(Listing) /\ IsFiniteSet(Listing \ unsized) /\ done <= total /\ done \in Nat
    BY <1>1, FS_Difference, DiskBytesType DEF SizeInv, RoomMade
  <1>5. Listing' = Listing /\ DiskBytes' = DiskBytes
    BY <1>1 DEF Listing, DiskBytes
  <1>6. Cardinality(BytesIn(disk, Listing \ unsized')) <= total'
    <2>1. CASE p \in Listing
      <3>1. Listing \ unsized' = (Listing \ unsized) \cup {p} /\ p \notin Listing \ unsized
        BY <1>1, <1>2, <2>1
      <3>2. Cardinality(BytesIn(disk, (Listing \ unsized) \cup {p})) = done + Bytes(disk[p])
        BY <1>2, <1>4, <2>1, <3>1, BytesAdd
      <3>3. total' = total + Bytes(disk[p]) /\ Bytes(disk[p]) \in Nat
        BY <1>1, <1>2, <2>1, BytesType DEF SizeAt
      <3>4. Cardinality(BytesIn(disk, Listing \ unsized')) = done + Bytes(disk[p])
        BY <3>1, <3>2, Zenon
      <3> HIDE DEF done
      <3> QED BY <1>2, <1>4, <3>3, <3>4
    <2>2. CASE p \notin Listing
      <3>1. Listing \ unsized' = Listing \ unsized /\ total' = total
        BY <1>1, <1>2, <2>2 DEF SizeAt
      <3>2. Cardinality(BytesIn(disk, Listing \ unsized')) = done
        BY <3>1, Zenon
      <3> HIDE DEF done
      <3> QED BY <1>4, <3>1, <3>2
    <2> QED BY <2>1, <2>2
  <1>7. RoomMade'
    BY <1>1, <1>4, <1>5, <1>6 DEF RoomMade
  <1>8. OneWriter' /\ NamesMatch' /\ ListedAll' /\ SizeBounded'
    BY <1>1, <1>5 DEF SizeInv, OneWriter, NamesMatch, ListedAll, SizeBounded
  <1> QED BY <1>1, <1>2, <1>3, <1>7, <1>8 DEF RoomInv

(* An eviction takes as much from the sum as from the directory, or nothing
   from either when retryLoop was first. *)
LEMMA EvictStep ==
  ASSUME SizeInv, Evict
  PROVE  total' \in Nat /\ RoomInv'
  <1> DEFINE p == Victim
             rest == Cardinality(BytesIn(disk, Listing \ {p}))
  <1>1. /\ wpc = "evict" /\ evictees # {} /\ wpc' = wpc
        /\ total' = total - SizeAt(p) /\ Remove(p)
        /\ evictees' = evictees \ {p}
        /\ UNCHANGED <<writing, unsized>>
    BY DEF Evict, EvictDue, Evictees, Victim
  <1>2. /\ Listing' = Listing \ {p} /\ IsFiniteSet(Listing') /\ NamesMatch'
        /\ \A q \in Listing' : disk'[q] = disk[q]
    BY <1>1, RemoveBytes, RemoveProperties
  <1>3. /\ total \in Nat /\ DiskBytes <= total /\ Listing \subseteq evictees
        /\ IsFiniteSet(Listing) /\ \A q \in Listing : disk[q] \in File
    BY <1>1 DEF SizeInv, TypeOK, RoomMade, ListedAll
  <1>4. DiskBytes' = rest /\ rest \in Nat /\ DiskBytes \in Nat
    BY <1>2, BytesSame, DiskBytesType DEF DiskBytes
  <1>5. rest <= total' /\ total' \in Int /\ rest <= DiskBytes
    <2>1. CASE p \in Listing
      <3>1. Listing = (Listing \ {p}) \cup {p} /\ p \notin Listing \ {p}
        BY <2>1
      <3>2. DiskBytes = rest + Bytes(disk[p])
        BY <1>2, <1>3, <2>1, <3>1, BytesAdd DEF DiskBytes
      <3>3. total' = total - Bytes(disk[p]) /\ Bytes(disk[p]) \in Nat
        BY <1>1, <1>3, <2>1, BytesType DEF SizeAt
      <3> HIDE DEF rest
      <3> QED BY <1>3, <1>4, <3>2, <3>3
    <2>2. CASE p \notin Listing
      <3>1. Listing \ {p} = Listing /\ total' = total
        BY <1>1, <1>3, <2>2 DEF SizeAt
      <3>2. rest = DiskBytes
        BY <3>1 DEF DiskBytes
      <3> HIDE DEF rest
      <3> QED BY <1>3, <1>4, <3>1, <3>2
    <2> QED BY <2>1, <2>2
  <1> HIDE DEF rest
  <1>6. total' \in Nat
    BY <1>4, <1>5
  <1>7. RoomMade'
    BY <1>1, <1>2, <1>4, <1>5 DEF RoomMade
  <1>8. ListedAll'
    BY <1>1, <1>2, <1>3 DEF ListedAll
  <1>9. SizeBounded'
    BY <1>4, <1>5, DiskBytesType, DiskCacheAssumption DEF SizeInv, SizeBounded
  <1>10. OneWriter'
    BY <1>1 DEF SizeInv, OneWriter
  <1> QED BY <1>2, <1>6, <1>7, <1>8, <1>9, <1>10 DEF RoomInv

(* The new file fits into the room that was made, but for its own size. *)
LEMMA WriteStep ==
  ASSUME SizeInv, NEW e \in writing, NEW w \in BOOLEAN, Put(e, w),
         Cardinality(BytesIn(disk, Listing \ {NameOf(e)})) <= MaxBytes
  PROVE  /\ IsFiniteSet(Listing') /\ NamesMatch' /\ SizeBounded'
         /\ Cardinality(BytesIn(disk', Listing' \ {NameOf(e)})) <= MaxBytes
  <1> USE DiskCacheAssumption
  <1> DEFINE p == NameOf(e)
             rest == Cardinality(BytesIn(disk, Listing \ {p}))
  <1>1. /\ Listing' = Listing \cup {p} /\ disk'[p] = [entry |-> e, whole |-> w]
        /\ \A q \in Listing' : q # p => disk'[q] = disk[q]
    BY PutProperties
  <1>2. /\ e \in Entry /\ IsFiniteSet(Listing) /\ \A q \in Listing : disk[q] \in File
    BY DEF SizeInv, TypeOK, RoomMade
  <1>3. \A q \in Listing' : disk'[q] \in File
    BY <1>2, PutTyped DEF SizeInv
  <1>4. IsFiniteSet(Listing') /\ IsFiniteSet(Listing' \ {p})
    BY <1>1, <1>2, FS_AddElement, FS_RemoveElement
  <1>5. Listing' \ {p} = Listing \ {p} /\ Listing' = (Listing' \ {p}) \cup {p}
    BY <1>1
  <1>6. BytesIn(disk', Listing' \ {p}) = BytesIn(disk, Listing \ {p})
    BY <1>1, <1>5, BytesSame
  <1>7. DiskBytes' = rest + Bytes(disk'[p])
    <2>1. p \in Listing' /\ p \notin Listing' \ {p}
      BY <1>1
    <2>2. Cardinality(BytesIn(disk', (Listing' \ {p}) \cup {p}))
            = Cardinality(BytesIn(disk', Listing' \ {p})) + Bytes(disk'[p])
      BY <1>3, <1>4, <2>1, BytesAdd
    <2> QED BY <1>5, <1>6, <2>2 DEF DiskBytes
  <1>8. Bytes(disk'[p]) \in Nat /\ Bytes(disk'[p]) <= 1 + Max(BatchSizes)
    <2>1. e.samples \in BatchSizes /\ e.samples \in Nat
      BY <1>2, EntryProperties
    <2>2. Max(BatchSizes) \in Nat /\ e.samples <= Max(BatchSizes)
      BY <2>1, DiskBytesType
    <2> QED BY <1>1, <2>1, <2>2 DEF Bytes
  <1>9. rest \in Nat /\ rest <= MaxBytes
    BY DiskBytesType
  <1>10. NamesMatch'
    BY <1>1 DEF SizeInv, NamesMatch
  <1>11. SizeBounded'
    <2>1. Max(BatchSizes) \in Nat
      BY DiskBytesType
    <2> HIDE DEF rest
    <2> QED BY <1>7, <1>8, <1>9, <2>1 DEF SizeBounded
  <1> QED BY <1>4, <1>6, <1>9, <1>10, <1>11

(* One step of a writer, of retryLoop or of the environment *)
LEMMA RoomStep ==
  ASSUME SizeInv, [Next]_vars
  PROVE  total' \in Nat /\ RoomInv'
  <1> USE DiskCacheAssumption
  <1>1. ASSUME UNCHANGED <<writerVars, disk>> PROVE total' \in Nat /\ RoomInv'
    BY <1>1 DEF SizeInv, TypeOK, RoomInv, OneWriter, NamesMatch, ListedAll, RoomMade, SizeBounded,
                DiskBytes, Listing, writerVars
  <1>2. CASE \/ \E kind \in Kinds, n \in BatchSizes : Store(kind, n)
             \/ Clock \/ Tick \/ LoopOnTick \/ LoopOnDone
             \/ \E slow \in BOOLEAN : List(slow)
             \/ ReadFail \/ Skip \/ HandOver \/ PassEnd \/ Wire \/ Close \/ UNCHANGED vars
    <2>1. UNCHANGED <<writerVars, disk>>
      BY <1>2 DEF Store, Clock, Tick, LoopOnTick, LoopOnDone, List, ReadFail, Skip, HandOver,
                  PassEnd, Wire, Close, vars
    <2> QED BY <1>1, <2>1
  <1>3. CASE Corrupt \/ Expire \/ RemoveReplayed
    <2>1. Remove(Path) /\ UNCHANGED writerVars
      BY <1>3 DEF Corrupt, Expire, RemoveReplayed
    <2> QED BY <2>1, RetryRemovesBytes
  <1>4. ASSUME NEW e \in calls, Lock(e) PROVE total' \in Nat /\ RoomInv'
    <2>1. /\ wpc' = "scan" /\ unsized' = Listing /\ evictees' = Listing /\ total' = 0
          /\ writing' = {e} /\ disk' = disk /\ Listing' = Listing /\ DiskBytes' = DiskBytes
      BY <1>4 DEF Lock, Listing, DiskBytes
    <2>2. BytesIn(disk, Listing \ Listing) = {}
      BY DEF BytesIn
    <2>3. Cardinality(BytesIn(disk, Listing \ Listing)) = 0
      BY <2>2, FS_EmptySet
    <2>4. RoomMade'
      BY <2>1, <2>3 DEF SizeInv, RoomMade
    <2> QED BY <2>1, <2>4 DEF SizeInv, RoomInv, OneWriter, NamesMatch, ListedAll, SizeBounded
  <1>5. CASE ScanEnd
    <2>1. /\ wpc = "scan" /\ wpc' = "evict" /\ unsized = {}
          /\ UNCHANGED <<writing, evictees, total, disk>> /\ Listing' = Listing /\ DiskBytes' = DiskBytes
      BY <1>5 DEF ScanEnd, Listing, DiskBytes
    <2>2. DiskBytes <= total
      <3>1. Listing \ unsized = Listing
        BY <2>1
      <3> QED BY <2>1, <3>1 DEF SizeInv, RoomMade, DiskBytes
    <2>3. RoomMade'
      BY <2>1, <2>2 DEF SizeInv, RoomMade
    <2> QED BY <2>1, <2>3 DEF SizeInv, TypeOK, RoomInv, OneWriter, NamesMatch, ListedAll, SizeBounded
  <1>6. CASE EvictEnd
    <2>1. /\ wpc = "evict" /\ wpc' = "encode" /\ ~EvictDue
          /\ UNCHANGED <<writing, total, disk>> /\ Listing' = Listing /\ DiskBytes' = DiskBytes
      BY <1>6 DEF EvictEnd, Listing, DiskBytes
    <2>2. DiskBytes <= MaxBytes
      <3>1. CASE total <= MaxBytes
        BY <2>1, <3>1, DiskBytesType DEF SizeInv, RoomMade, TypeOK
      <3>2. CASE evictees = {}
        <4>1. Listing = {}
          BY <2>1, <3>2 DEF SizeInv, ListedAll
        <4>2. BytesIn(disk, Listing) = {}
          BY <4>1 DEF BytesIn
        <4>3. DiskBytes = 0
          BY <4>2, FS_EmptySet DEF DiskBytes
        <4> QED BY <4>3
      <3> QED BY <2>1, <3>1, <3>2 DEF EvictDue, SizeInv, TypeOK
    <2>3. RoomMade'
      BY <2>1, <2>2 DEF SizeInv, RoomMade
    <2> QED BY <2>1, <2>3 DEF SizeInv, TypeOK, RoomInv, OneWriter, NamesMatch, ListedAll, SizeBounded
  <1>7. CASE MarshalFail \/ WriteFail \/ Crash
    <2>1. /\ wpc' = "none" /\ writing' = {} /\ total' = 0
          /\ disk' = disk /\ Listing' = Listing /\ DiskBytes' = DiskBytes
      BY <1>7 DEF MarshalFail, WriteFail, Crash, Unlock, Listing, DiskBytes
    <2> QED BY <2>1 DEF SizeInv, RoomInv, OneWriter, NamesMatch, ListedAll, RoomMade, SizeBounded
  <1>8. CASE Create
    <2>1. PICK e \in writing : Put(e, FALSE)
      BY <1>8 DEF Create
    <2>2. wpc = "encode" /\ wpc' = "write" /\ UNCHANGED <<writing, total>>
      BY <1>8 DEF Create
    <2>3. ASSUME NEW f \in writing
          PROVE  Cardinality(BytesIn(disk, Listing \ {NameOf(f)})) <= MaxBytes
      <3>1. Cardinality(BytesIn(disk, Listing \ {NameOf(f)})) <= DiskBytes
        BY BytesMonotone DEF SizeInv, RoomMade, TypeOK, DiskBytes
      <3>2. DiskBytes <= MaxBytes
        BY <2>2 DEF SizeInv, RoomMade
      <3> DEFINE rest == Cardinality(BytesIn(disk, Listing \ {NameOf(f)}))
      <3>3. rest \in Nat /\ DiskBytes \in Nat
        BY DiskBytesType
      <3> HIDE DEF rest
      <3>4. rest <= MaxBytes
        BY <3>1, <3>2, <3>3 DEF rest
      <3> QED BY <3>4 DEF rest
    <2>4. writing = {e}
      BY DEF SizeInv, OneWriter
    <2>5. /\ IsFiniteSet(Listing') /\ NamesMatch' /\ SizeBounded'
          /\ Cardinality(BytesIn(disk', Listing' \ {NameOf(e)})) <= MaxBytes
      BY <2>1, <2>3, WriteStep
    <2>6. RoomMade'
      BY <2>2, <2>4, <2>5 DEF RoomMade
    <2> QED BY <2>2, <2>5, <2>6 DEF SizeInv, TypeOK, RoomInv, OneWriter, ListedAll
  <1>9. CASE WriteOk
    <2>1. PICK e \in writing : IF NameOf(e) \in Listing THEN Put(e, TRUE) ELSE disk' = disk
      BY <1>9 DEF WriteOk
    <2>2. wpc = "write" /\ wpc' = "none" /\ writing' = {} /\ total' = 0
      BY <1>9 DEF WriteOk, Unlock
    <2>3. CASE NameOf(e) \in Listing
      <3>1. IsFiniteSet(Listing') /\ NamesMatch' /\ SizeBounded'
        BY <2>1, <2>2, <2>3, WriteStep DEF SizeInv, RoomMade
      <3> QED BY <2>2, <3>1 DEF RoomInv, OneWriter, RoomMade, ListedAll
    <2>4. CASE NameOf(e) \notin Listing
      <3>1. disk' = disk /\ Listing' = Listing /\ DiskBytes' = DiskBytes
        BY <2>1, <2>4 DEF Listing, DiskBytes
      <3> QED BY <2>2, <3>1 DEF SizeInv, RoomInv, OneWriter, NamesMatch, ListedAll, RoomMade, SizeBounded
    <2> QED BY <2>3, <2>4
  <1> QED BY <1>2, <1>3, <1>4, <1>5, <1>6, <1>7, <1>8, <1>9, ScanStep, EvictStep
          DEF Next, Writer, Retry, ReplayStep

(* SizeInv is an invariant. *)
LEMMA SizeInvariant == Spec => []SizeInv
  <1> USE DiskCacheAssumption
  <1>1. Init => SizeInv
    <2> SUFFICES ASSUME Init PROVE SizeInv
      OBVIOUS
    <2>1. Listing = {}
      BY DEF Init, Listing
    <2>2. wpc = "none" /\ writing = {} /\ total = 0 /\ unsized = {} /\ evictees = {}
      BY DEF Init, Started, WriterIdle
    <2>3. TypeOK
      <3>1. now \in Times /\ issued \in 0..MaxStores /\ crashes \in 0..MaxCrashes
            /\ cutoff \in 0..now
        BY DEF Init, Started, RetryIdle, Times
      <3> QED BY <2>1, <2>2, <3>1 DEF Init, Started, RetryIdle, TypeOK, LockFree
    <2>4. BytesIn(disk, Listing) = {}
      BY <2>1 DEF BytesIn
    <2>5. DiskBytes = 0
      BY <2>4, FS_EmptySet DEF DiskBytes
    <2>6. Max(BatchSizes) \in Nat
      BY GreatestNumber
    <2>7. SizeBounded
      BY <2>5, <2>6 DEF SizeBounded
    <2>8. RoomMade
      BY <2>1, <2>2, FS_EmptySet DEF RoomMade
    <2>9. OneWriter /\ NamesMatch /\ ListedAll
      BY <2>1, <2>2 DEF OneWriter, NamesMatch, ListedAll
    <2> QED BY <2>3, <2>7, <2>8, <2>9 DEF SizeInv
  <1>2. SizeInv /\ [Next]_vars => SizeInv'
    <2> SUFFICES ASSUME SizeInv, [Next]_vars PROVE SizeInv'
      OBVIOUS
    <2>1. total' \in Nat /\ RoomInv'
      BY RoomStep
    <2>2. TypeOK'
      BY <2>1, TypeStep DEF SizeInv
    <2> QED BY <2>1, <2>2 DEF SizeInv, RoomInv
  <1> QED BY <1>1, <1>2, PTL DEF Spec

(* The cache's state has its types: totalBytes, for one, never becomes
   negative. *)
THEOREM TypeCorrect == Spec => []TypeOK
  BY SizeInvariant, PTL DEF SizeInv

(* The directory exceeds max_size_mb by one entry at most, for any limit and
   any sizes, however retryLoop's deletions fall between the sum and the
   evictions. *)
THEOREM SizeStaysBounded == Spec => []SizeBounded
  BY SizeInvariant, PTL DEF SizeInv

-----------------------------------------------------------------------------
(* Nothing vanishes and nothing is replayed twice *)

(* Steps that take no new name, list nothing and hand nothing over keep the
   names apart. *)
LEMMA FreshShrinks ==
  ASSUME TypeOK, TypeOK', NamesFresh, now <= now',
         calls' \subseteq calls, writing' \subseteq writing,
         Listing' \subseteq Listing, paths' \subseteq paths, handed' = handed
  PROVE  NamesFresh'
  <1>1. now \in Nat /\ now' \in Nat
    BY DiskCacheAssumption DEF TypeOK, Times
  <1>2. \A e \in calls \cup writing \cup handed : e.at \in Nat
    BY EntryProperties DEF TypeOK
  <1>3. \A p \in Listing \cup paths : p.at \in Nat
    BY DiskCacheAssumption DEF TypeOK, Name, Times
  <1> QED BY <1>1, <1>2, <1>3 DEF NamesFresh

(* No step makes a name that is in use. *)
LEMMA FreshStep ==
  ASSUME ClockMayRepeat = FALSE, SizeInv, SizeInv', NamesFresh, WritingAlone, RemovesHanded,
         [Next]_vars
  PROVE  NamesFresh'
  <1> USE DiskCacheAssumption
  <1>1. TypeOK /\ TypeOK'
    BY DEF SizeInv
  <1>2. /\ now \in Nat /\ now' \in Nat
        /\ \A e \in calls \cup writing \cup handed : e \in Entry /\ e.at \in Nat
        /\ \A p \in Listing \cup paths : p.at \in Nat
    BY <1>1, EntryProperties DEF TypeOK, Name, Times
  <1>3. ASSUME NEW kind \in Kinds, NEW n \in BatchSizes, Store(kind, n) PROVE NamesFresh'
    <2> DEFINE e == [id |-> issued + 1, kind |-> kind, at |-> now, samples |-> n]
    <2>1. /\ now' = now + 1 /\ calls' = calls \cup {e}
          /\ writing' = writing /\ disk' = disk /\ paths' = paths /\ handed' = handed
          /\ Listing' = Listing
      BY <1>3 DEF Store, writerVars, retryVars, history, Listing
    <2>2. e.at = now /\ NameOf(e).at = now
      BY DEF NameOf
    <2> HIDE DEF e
    <2>3. e \notin calls \cup writing \cup handed /\ NameOf(e) \notin Listing \cup paths
      BY <1>2, <2>2 DEF NamesFresh
    <2> QED BY <1>2, <2>1, <2>2, <2>3 DEF NamesFresh
  <1>4. ASSUME NEW e \in calls, Lock(e) PROVE NamesFresh'
    <2>1. /\ writing = {} /\ writing' = {e} /\ calls' = calls \ {e}
          /\ UNCHANGED <<now, disk, paths, handed>> /\ Listing' = Listing
      BY <1>1, <1>4 DEF Lock, TypeOK, retryVars, history, Listing
    <2> QED BY <2>1 DEF NamesFresh
  <1>5. CASE Create \/ WriteOk
    <2>1. /\ UNCHANGED <<now, calls, paths, handed>> /\ writing' \subseteq writing
      BY <1>5 DEF Create, WriteOk, Unlock, callVars, retryVars, history
    <2>2. PICK e \in writing : Listing' \subseteq Listing \cup {NameOf(e)}
      BY <1>5, PutProperties DEF Create, WriteOk, Listing
    <2>3. NameOf(e).at = e.at /\ \A f \in calls : NameOf(f).at = f.at
      BY DEF NameOf
    <2>4. \A f \in calls : f.at # e.at
      BY DEF NamesFresh
    <2> QED BY <2>1, <2>2, <2>3, <2>4 DEF NamesFresh
  <1>6. ASSUME NEW slow \in BOOLEAN, List(slow) PROVE NamesFresh'
    <2>1. /\ UNCHANGED <<now, calls, writing, disk, handed>> /\ Listing' = Listing
          /\ paths' \in {paths, Listing} /\ writing = {}
      BY <1>1, <1>6 DEF List, ListUnder, TypeOK, callVars, writerVars, history, Listing
    <2> QED BY <2>1 DEF NamesFresh
  <1>7. CASE HandOver
    <2>1. /\ UNCHANGED <<now, calls, writing, disk, paths>> /\ Listing' = Listing
          /\ handed' = handed \cup {disk[Path].entry} /\ Path \in Listing /\ paths # {}
      BY <1>7 DEF HandOver, Looking, callVars, writerVars, Listing
    <2>2. Path \in paths /\ NameOf(disk[Path].entry) = Path
      BY <1>1, <2>1, PathProperties DEF SizeInv, NamesMatch
    <2>3. disk[Path].entry.at < now /\ disk[Path].entry \notin calls \cup writing
      BY <2>1, <2>2 DEF NamesFresh, NameOf
    <2> QED BY <2>1, <2>3 DEF NamesFresh
  <1>8. ASSUME now <= now', calls' \subseteq calls, writing' \subseteq writing,
               Listing' \subseteq Listing, paths' \subseteq paths, handed' = handed
        PROVE  NamesFresh'
    BY <1>1, <1>8, FreshShrinks
  <1>9. CASE \/ Clock \/ Scan \/ ScanEnd \/ EvictEnd \/ MarshalFail \/ WriteFail
             \/ Tick \/ LoopOnTick \/ LoopOnDone \/ ReadFail \/ Skip \/ PassEnd
             \/ Wire \/ Close \/ Crash \/ UNCHANGED vars
    <2>1. disk' = disk /\ handed' = handed /\ calls' \subseteq calls /\ writing' \subseteq writing
          /\ paths' \subseteq paths
      BY <1>9 DEF Clock, Scan, ScanEnd, EvictEnd, MarshalFail, WriteFail, Unlock, Tick,
                  LoopOnTick, LoopOnDone, ReadFail, Skip, NextPath, PassEnd, Wire, Close, Crash,
                  vars, callVars, writerVars, retryVars, history
    <2>2. now <= now'
      BY <1>2, <1>9 DEF Clock, Scan, ScanEnd, EvictEnd, MarshalFail, WriteFail, Tick,
                  LoopOnTick, LoopOnDone, ReadFail, Skip, PassEnd, Wire, Close, Crash,
                  vars, callVars
    <2> QED BY <1>8, <2>1, <2>2 DEF Listing
  <1>10. CASE Evict \/ Corrupt \/ Expire \/ RemoveReplayed
    <2>1. /\ UNCHANGED <<now, calls, writing, handed>> /\ paths' \subseteq paths
          /\ \E p : Remove(p)
      BY <1>10 DEF Evict, Corrupt, Expire, RemoveReplayed, NextPath, callVars, writerVars,
                   retryVars, history
    <2>2. Listing' \subseteq Listing
      BY <2>1, RemoveProperties
    <2> QED BY <1>2, <1>8, <2>1, <2>2
  <1> QED BY <1>3, <1>4, <1>5, <1>6, <1>7, <1>9, <1>10 DEF Next, Writer, Retry, ReplayStep

(* The file a writer is at is touched by nobody else. *)
LEMMA WritingStep ==
  ASSUME SizeInv, NamesFresh, WritingAlone, RemovesHanded, [Next]_vars
  PROVE  WritingAlone'
  <1>1. ASSUME UNCHANGED <<wpc, writing, disk>> PROVE WritingAlone'
    BY <1>1 DEF WritingAlone, Listing
  <1>2. CASE \/ \E kind \in Kinds, n \in BatchSizes : Store(kind, n)
             \/ Clock \/ Tick \/ LoopOnTick \/ LoopOnDone
             \/ \E slow \in BOOLEAN : List(slow)
             \/ ReadFail \/ Skip \/ HandOver \/ PassEnd \/ Wire \/ Close \/ UNCHANGED vars
    <2>1. UNCHANGED <<wpc, writing, disk>>
      BY <1>2 DEF Store, Clock, Tick, LoopOnTick, LoopOnDone, List, ReadFail, Skip, HandOver,
                  PassEnd, Wire, Close, vars, writerVars
    <2> QED BY <1>1, <2>1
  <1>3. CASE Corrupt \/ Expire \/ RemoveReplayed
    <2>1. UNCHANGED <<wpc, writing>> /\ Remove(Path) /\ paths # {}
      BY <1>3 DEF Corrupt, Expire, RemoveReplayed, Looking, writerVars, RemovesHanded
    <2>2. \A e \in writing : NameOf(e) # Path
      BY <2>1, PathProperties DEF SizeInv, NamesFresh
    <2> QED BY <2>1, <2>2, RemoveProperties DEF WritingAlone
  <1>4. CASE Evict
    <2>1. wpc = "evict" /\ UNCHANGED <<wpc, writing>> /\ Listing' \subseteq Listing
      BY <1>4, RemoveProperties DEF Evict
    <2> QED BY <2>1 DEF WritingAlone
  <1>5. ASSUME NEW e \in calls, Lock(e) PROVE WritingAlone'
    BY <1>5 DEF Lock, WritingAlone, NamesFresh, Listing
  <1>6. CASE Scan \/ ScanEnd \/ EvictEnd
    BY <1>6 DEF Scan, ScanEnd, EvictEnd, WritingAlone, Listing
  <1>7. CASE Create
    <2>1. PICK e \in writing : Put(e, FALSE)
      BY <1>7 DEF Create
    <2>2. writing' = {e} /\ wpc' = "write"
      BY <1>7, <2>1 DEF Create, SizeInv, OneWriter
    <2> QED BY <2>1, <2>2, PutProperties DEF WritingAlone
  <1>8. CASE MarshalFail \/ WriteOk \/ WriteFail \/ Crash
    BY <1>8 DEF MarshalFail, WriteOk, WriteFail, Crash, Unlock, WritingAlone
  <1> QED BY <1>2, <1>3, <1>4, <1>5, <1>6, <1>7, <1>8 DEF Next, Writer, Retry, ReplayStep

(* What retryLoop is about to delete is what it handed over, although writers
   evict and create files meanwhile. *)
LEMMA RemovesStep ==
  ASSUME SizeInv, NamesFresh, RemovesHanded, [Next]_vars
  PROVE  RemovesHanded'
  <1>1. ASSUME UNCHANGED <<rpc, paths, replayed>>, handed' = handed,
               paths # {} /\ Path \in Listing' => Path \in Listing /\ disk'[Path] = disk[Path]
        PROVE  RemovesHanded'
    BY <1>1 DEF RemovesHanded, Path
  <1>2. CASE \/ \E kind \in Kinds, n \in BatchSizes : Store(kind, n)
             \/ Clock \/ Tick \/ Wire \/ Close
             \/ \E e \in calls : Lock(e)
             \/ Scan \/ ScanEnd \/ EvictEnd \/ MarshalFail \/ WriteFail \/ UNCHANGED vars
    <2>1. UNCHANGED <<rpc, paths, replayed, handed, disk>>
      BY <1>2 DEF Store, Clock, Tick, Wire, Close, Lock, Scan, ScanEnd, EvictEnd, MarshalFail,
                  WriteFail, vars, retryVars, history
    <2> QED BY <1>1, <2>1 DEF Listing
  <1>3. CASE Evict
    <2>1. UNCHANGED <<rpc, paths, replayed, handed>> /\ Remove(Victim)
      BY <1>3 DEF Evict, retryVars
    <2> QED BY <1>1, <2>1, RemoveProperties
  <1>4. CASE Create \/ WriteOk
    <2>1. UNCHANGED <<rpc, paths, replayed, handed>>
      BY <1>4 DEF Create, WriteOk, retryVars, history
    <2>2. PICK e \in writing : Put(e, FALSE) \/ Put(e, TRUE) \/ disk' = disk
      BY <1>4 DEF Create, WriteOk
    <2>3. NameOf(e) \notin paths
      BY DEF NamesFresh
    <2>4. paths # {} => Path # NameOf(e)
      BY <2>3, PathProperties DEF SizeInv
    <2>5. paths # {} /\ Path \in Listing' => Path \in Listing /\ disk'[Path] = disk[Path]
      <3>1. ASSUME NEW w, Put(e, w)
            PROVE  paths # {} /\ Path \in Listing' => Path \in Listing /\ disk'[Path] = disk[Path]
        BY <2>4, <3>1 DEF Put, Listing
      <3> QED BY <2>2, <3>1 DEF Listing
    <2> QED BY <1>1, <2>1, <2>5
  <1>5. CASE HandOver
    BY <1>5 DEF HandOver, Looking, RemovesHanded, Path, Listing
  <1>6. CASE RemoveReplayed \/ Crash
    BY <1>6 DEF RemoveReplayed, Crash, RemovesHanded
  <1>7. CASE \/ LoopOnTick \/ LoopOnDone \/ \E slow \in BOOLEAN : List(slow)
             \/ ReadFail \/ Corrupt \/ Expire \/ Skip \/ PassEnd
    <2>1. rpc # "remove" /\ rpc' # "remove" /\ replayed' = replayed
      BY <1>7 DEF LoopOnTick, LoopOnDone, List, AfterEmptyListing, ReadFail, Corrupt, Expire,
                  Skip, PassEnd, Looking
    <2> QED BY <2>1 DEF RemovesHanded
  <1> QED BY <1>2, <1>3, <1>4, <1>5, <1>6, <1>7 DEF Next, Writer, Retry, ReplayStep

(* An entry leaves the directory only for a reason the cache records. *)
LEMMA VanishStep ==
  ASSUME SizeInv, NamesFresh, WritingAlone, RemovesHanded, NoEntryVanishes, [Next]_vars
  PROVE  NoEntryVanishes'
  <1>1. ASSUME UNCHANGED <<disk, stored>>, Gone \subseteq Gone' PROVE NoEntryVanishes'
    BY <1>1 DEF NoEntryVanishes, OnDisk, Listing
  <1>2. CASE \/ \E kind \in Kinds, n \in BatchSizes : Store(kind, n)
             \/ Clock \/ (\E e \in calls : Lock(e))
             \/ Scan \/ ScanEnd \/ EvictEnd \/ MarshalFail \/ WriteFail
             \/ Tick \/ LoopOnTick \/ LoopOnDone \/ \E slow \in BOOLEAN : List(slow)
             \/ ReadFail \/ Skip \/ HandOver \/ PassEnd
             \/ Wire \/ Close \/ Crash \/ UNCHANGED vars
    <2>1. /\ UNCHANGED <<disk, stored, evicted, expired>> /\ handed \subseteq handed'
      BY <1>2 DEF Store, Clock, Lock, Scan, ScanEnd, EvictEnd, MarshalFail, WriteFail, Tick,
                  LoopOnTick, LoopOnDone, List, ReadFail, Skip, HandOver, PassEnd, Wire, Close,
                  Crash, vars, history
    <2> QED BY <1>1, <2>1 DEF Gone
  <1>3. ASSUME NEW p, Remove(p), stored' = stored, Gone \subseteq Gone',
               p \in Listing /\ disk[p].whole => disk[p].entry \in Gone'
        PROVE  NoEntryVanishes'
    <2> SUFFICES ASSUME NEW e \in stored PROVE OnDisk(e)' \/ e \in Gone'
      BY <1>3 DEF NoEntryVanishes
    <2>1. CASE e \in Gone
      BY <1>3, <2>1
    <2>2. CASE OnDisk(e) /\ NameOf(e) = p
      BY <1>3, <2>2 DEF OnDisk
    <2>3. CASE OnDisk(e) /\ NameOf(e) # p
      BY <1>3, <2>3, RemoveProperties DEF OnDisk
    <2> QED BY <2>1, <2>2, <2>3 DEF NoEntryVanishes
  <1>4. CASE Evict
    <2>1. /\ Remove(Victim) /\ UNCHANGED <<stored, handed, expired>>
          /\ evicted' = evicted \cup (IF Victim \in Listing THEN {disk[Victim].entry} ELSE {})
      BY <1>4 DEF Evict
    <2> QED BY <1>3, <2>1 DEF Gone
  <1>5. CASE Corrupt
    <2>1. Remove(Path) /\ ~disk[Path].whole /\ UNCHANGED <<stored, handed, evicted, expired>>
      BY <1>5 DEF Corrupt, history
    <2> QED BY <1>3, <2>1 DEF Gone
  <1>6. CASE Expire
    <2>1. /\ Remove(Path) /\ UNCHANGED <<stored, handed, evicted>>
          /\ expired' = expired \cup {disk[Path].entry}
      BY <1>6 DEF Expire
    <2> QED BY <1>3, <2>1 DEF Gone
  <1>7. CASE RemoveReplayed
    <2>1. Remove(Path) /\ rpc = "remove" /\ UNCHANGED <<stored, handed, evicted, expired>>
      BY <1>7 DEF RemoveReplayed, history
    <2>2. Path \in Listing => disk[Path].entry \in Gone'
      BY <2>1 DEF RemovesHanded, Gone
    <2> QED BY <1>3, <2>1, <2>2 DEF Gone
  <1>8. CASE Create
    <2>1. PICK e \in writing : Put(e, FALSE)
      BY <1>8 DEF Create
    <2>2. wpc = "encode" /\ UNCHANGED <<stored, handed, evicted, expired>>
      BY <1>8 DEF Create, history
    <2>3. NameOf(e) \notin Listing
      BY <2>2 DEF WritingAlone
    <2> QED BY <2>1, <2>2, <2>3, PutProperties DEF NoEntryVanishes, OnDisk, Gone
  <1>9. CASE WriteOk
    <2>1. PICK e \in writing : /\ IF NameOf(e) \in Listing THEN Put(e, TRUE) ELSE disk' = disk
                               /\ stored' = stored \cup {e}
      BY <1>9 DEF WriteOk
    <2>2. wpc = "write" /\ UNCHANGED <<handed, evicted, expired>>
      BY <1>9 DEF WriteOk
    <2>3. NameOf(e) \in Listing /\ disk[NameOf(e)] = [entry |-> e, whole |-> FALSE]
      BY <2>2 DEF WritingAlone
    <2>4. Put(e, TRUE)
      BY <2>1, <2>3
    <2>5. \A f \in stored : OnDisk(f) => NameOf(f) # NameOf(e)
      BY <2>3 DEF OnDisk
    <2>6. OnDisk(e)'
      BY <2>4, PutProperties DEF OnDisk
    <2>7. \A f \in stored : OnDisk(f) => OnDisk(f)'
      <3>1. \A q \in Listing : q # NameOf(e) => q \in Listing' /\ disk'[q] = disk[q]
        BY <2>4 DEF Put, Listing
      <3> QED BY <2>5, <3>1 DEF OnDisk
    <2> QED BY <2>1, <2>2, <2>6, <2>7 DEF NoEntryVanishes, Gone
  <1> QED BY <1>2, <1>4, <1>5, <1>6, <1>7, <1>8, <1>9 DEF Next, Writer, Retry, ReplayStep

(* No step but a crash leaves another file to be replayed again: there is one
   less or as many, which bounds their number. *)
LEMMA FewerRepeated ==
  ASSUME SizeInv, ReplayedOnce, crashes' = crashes, ToBeRepeated' \subseteq ToBeRepeated
  PROVE  ReplayedOnce'
  <1>1. IsFiniteSet(ToBeRepeated) /\ crashes \in Nat
    BY FS_Subset, DiskCacheAssumption DEF SizeInv, RoomMade, TypeOK, ToBeRepeated
  <1>2. Cardinality(ToBeRepeated') <= Cardinality(ToBeRepeated) /\ IsFiniteSet(ToBeRepeated')
    BY <1>1, FS_Subset
  <1>3. Cardinality(ToBeRepeated) \in Nat /\ Cardinality(ToBeRepeated') \in Nat
    BY <1>1, <1>2, FS_CardinalityType
  <1> QED BY <1>1, <1>2, <1>3 DEF ReplayedOnce

(* A file whose entry was handed over is there only while it is about to be
   deleted, or because of a crash, which leaves one at most. *)
LEMMA OnceStep ==
  ASSUME SizeInv, NamesFresh, WritingAlone, RemovesHanded, ReplayedOnce, [Next]_vars
  PROVE  ReplayedOnce'
  <1>1. ASSUME UNCHANGED <<handed, crashes>>, replayed \subseteq replayed',
               Listing' \subseteq Listing, \A p \in Listing' : disk'[p] = disk[p]
        PROVE  ReplayedOnce'
    BY <1>1, FewerRepeated DEF ToBeRepeated
  <1>2. CASE \/ \E kind \in Kinds, n \in BatchSizes : Store(kind, n)
             \/ Clock \/ (\E e \in calls : Lock(e))
             \/ Scan \/ ScanEnd \/ EvictEnd \/ MarshalFail \/ WriteFail
             \/ Tick \/ LoopOnTick \/ LoopOnDone \/ \E slow \in BOOLEAN : List(slow)
             \/ ReadFail \/ Skip \/ PassEnd \/ Wire \/ Close \/ UNCHANGED vars
    <2>1. UNCHANGED <<disk, handed, crashes, replayed>>
      BY <1>2 DEF Store, Clock, Lock, Scan, ScanEnd, EvictEnd, MarshalFail, WriteFail, Tick,
                  LoopOnTick, LoopOnDone, List, ReadFail, Skip, PassEnd, Wire, Close,
                  vars, retryVars, lifeVars, history
    <2> QED BY <1>1, <2>1 DEF Listing
  <1>3. CASE Evict \/ Corrupt \/ Expire
    <2>1. UNCHANGED <<handed, crashes, replayed>> /\ \E p : Remove(p)
      BY <1>3 DEF Evict, Corrupt, Expire, retryVars, lifeVars, history
    <2> QED BY <1>1, <2>1, RemoveProperties
  <1>4. CASE HandOver
    <2>1. /\ UNCHANGED <<disk, crashes>> /\ handed' = handed \cup {disk[Path].entry}
          /\ replayed' = {Path} /\ rpc = "loop" /\ Path \in Listing /\ Listing' = Listing
      BY <1>4 DEF HandOver, Looking, lifeVars, Listing
    <2>2. \A p \in Listing : disk[p].entry = disk[Path].entry => p = Path
      BY <2>1 DEF SizeInv, NamesMatch
    <2>3. replayed = {}
      BY <2>1 DEF RemovesHanded
    <2>4. ToBeRepeated' \subseteq ToBeRepeated
      BY <2>1, <2>2, <2>3 DEF ToBeRepeated
    <2> QED BY <2>1, <2>4, FewerRepeated
  <1>5. CASE RemoveReplayed
    <2>1. /\ UNCHANGED <<handed, crashes>> /\ rpc = "remove" /\ Remove(Path)
      BY <1>5 DEF RemoveReplayed, lifeVars, history
    <2>2. replayed = {Path}
      BY <2>1 DEF RemovesHanded
    <2>3. Listing' = Listing \ {Path} /\ \A q \in Listing' : disk'[q] = disk[q]
      BY <2>1, RemoveProperties
    <2>4. ToBeRepeated' \subseteq ToBeRepeated
      BY <2>1, <2>2, <2>3 DEF ToBeRepeated
    <2> QED BY <2>1, <2>4, FewerRepeated
  <1>6. CASE Create \/ WriteOk
    <2>1. UNCHANGED <<handed, crashes, replayed>>
      BY <1>6 DEF Create, WriteOk, retryVars, lifeVars, history
    <2>2. PICK e \in writing : Put(e, FALSE) \/ Put(e, TRUE) \/ disk' = disk
      BY <1>6 DEF Create, WriteOk
    <2>3. e \notin handed
      BY DEF NamesFresh
    <2>4. CASE disk' = disk
      BY <1>1, <2>1, <2>4 DEF Listing
    <2>5. ASSUME NEW w, Put(e, w) PROVE ReplayedOnce'
      <3>1. /\ Listing' = Listing \cup {NameOf(e)} /\ disk'[NameOf(e)].entry = e
            /\ \A q \in Listing' : q # NameOf(e) => disk'[q] = disk[q]
        BY <2>5 DEF Put, Listing
      <3>2. ToBeRepeated' \subseteq ToBeRepeated
        BY <2>1, <2>3, <3>1 DEF ToBeRepeated
      <3> QED BY <2>1, <3>2, FewerRepeated
    <2> QED BY <2>2, <2>4, <2>5
  <1>7. CASE Crash
    <2>1. /\ UNCHANGED <<disk, handed>> /\ Listing' = Listing
          /\ replayed' = {} /\ crashes' = crashes + 1
      BY <1>7 DEF Crash, history, Listing
    <2>2. PICK q : replayed \subseteq {q}
      BY DEF RemovesHanded
    <2>3. ToBeRepeated' \subseteq ToBeRepeated \cup {q}
      BY <2>1, <2>2 DEF ToBeRepeated
    <2>4. IsFiniteSet(ToBeRepeated) /\ crashes \in Nat
      BY FS_Subset, DiskCacheAssumption DEF SizeInv, RoomMade, TypeOK, ToBeRepeated
    <2>5. /\ IsFiniteSet(ToBeRepeated \cup {q})
          /\ Cardinality(ToBeRepeated \cup {q}) <= Cardinality(ToBeRepeated) + 1
      <3>1. Cardinality(ToBeRepeated) \in Nat
        BY <2>4, FS_CardinalityType
      <3>2. /\ IsFiniteSet(ToBeRepeated \cup {q})
            /\ Cardinality(ToBeRepeated \cup {q}) =
                 IF q \in ToBeRepeated THEN Cardinality(ToBeRepeated) ELSE Cardinality(ToBeRepeated) + 1
        BY <2>4, FS_AddElement, Zenon
      <3> QED BY <3>1, <3>2
    <2>6. /\ IsFiniteSet(ToBeRepeated')
          /\ Cardinality(ToBeRepeated') <= Cardinality(ToBeRepeated \cup {q})
      BY <2>3, <2>5, FS_Subset
    <2>7. /\ Cardinality(ToBeRepeated) \in Nat /\ Cardinality(ToBeRepeated') \in Nat
          /\ Cardinality(ToBeRepeated \cup {q}) \in Nat
      BY <2>4, <2>5, <2>6, FS_CardinalityType
    <2> QED BY <2>1, <2>4, <2>5, <2>6, <2>7 DEF ReplayedOnce
  <1> QED BY <1>2, <1>3, <1>4, <1>5, <1>6, <1>7 DEF Next, Writer, Retry, ReplayStep

(* The entries the program or the directory holds, and those it handed over *)
Known == calls \cup writing \cup handed \cup {disk[p].entry : p \in Listing}

(* No two of them come from the same Store call.  Inductive. *)
IdsUnique ==
  /\ \A e \in Known : e.id <= issued
  /\ \A e, f \in Known : e.id = f.id => e = f

(* Only a Store call makes an entry, under the next number; every other step
   copies or drops entries that are known. *)
LEMMA IdsInvariant == Spec => []IdsUnique
  <1>1. Init => IdsUnique
    <2> SUFFICES ASSUME Init PROVE IdsUnique
      OBVIOUS
    <2>1. Listing = {} /\ calls = {} /\ writing = {} /\ handed = {}
      BY DEF Init, Started, WriterIdle, Listing
    <2> QED BY <2>1 DEF IdsUnique, Known
  <1>2. TypeOK /\ IdsUnique /\ [Next]_vars => IdsUnique'
    <2> SUFFICES ASSUME TypeOK, IdsUnique, [Next]_vars PROVE IdsUnique'
      OBVIOUS
    <2>1. issued \in Nat /\ \A e \in Known : e.id \in Nat
      BY DiskCacheAssumption DEF TypeOK, Known, Entry, File
    <2>2. ASSUME issued' = issued, Known' \subseteq Known PROVE IdsUnique'
      BY <2>2 DEF IdsUnique
    <2>3. ASSUME NEW kind \in Kinds, NEW n \in BatchSizes, Store(kind, n) PROVE IdsUnique'
      <3> DEFINE e == [id |-> issued + 1, kind |-> kind, at |-> now, samples |-> n]
      <3>1. Known' = Known \cup {e} /\ issued' = issued + 1
        BY <2>3 DEF Store, Known, Listing, writerVars, history
      <3>2. e.id = issued + 1
        OBVIOUS
      <3> HIDE DEF e
      <3> QED BY <2>1, <3>1, <3>2 DEF IdsUnique
    <2>4. CASE \/ Clock \/ (\E e \in calls : Lock(e)) \/ Scan \/ ScanEnd \/ EvictEnd
               \/ MarshalFail \/ WriteFail \/ Tick \/ LoopOnTick \/ LoopOnDone
               \/ (\E slow \in BOOLEAN : List(slow)) \/ ReadFail \/ Skip \/ HandOver \/ PassEnd
               \/ Wire \/ Close \/ Crash \/ UNCHANGED vars
      <3>1. issued' = issued /\ disk' = disk /\ calls' \cup writing' \subseteq calls \cup writing
        BY <2>4 DEF Clock, Lock, Scan, ScanEnd, EvictEnd, MarshalFail, WriteFail, Unlock, Tick,
                    LoopOnTick, LoopOnDone, List, ReadFail, Skip, HandOver, PassEnd, Wire, Close,
                    Crash, vars, callVars, writerVars
      <3>2. handed' \subseteq handed \cup {disk[p].entry : p \in Listing}
        BY <2>4 DEF Clock, Lock, Scan, ScanEnd, EvictEnd, MarshalFail, WriteFail, Tick,
                    LoopOnTick, LoopOnDone, List, ReadFail, Skip, HandOver, PassEnd, Wire, Close,
                    Crash, vars, history
      <3> QED BY <2>2, <3>1, <3>2 DEF Known, Listing
    <2>5. CASE Evict \/ Corrupt \/ Expire \/ RemoveReplayed
      <3>1. UNCHANGED <<issued, calls, writing, handed>> /\ \E p : Remove(p)
        BY <2>5 DEF Evict, Corrupt, Expire, RemoveReplayed, callVars, writerVars, history
      <3>2. Listing' \subseteq Listing /\ \A q \in Listing' : disk'[q] = disk[q]
        BY <3>1, RemoveProperties
      <3> QED BY <2>2, <3>1, <3>2 DEF Known
    <2>6. CASE Create \/ WriteOk
      <3>1. UNCHANGED <<issued, calls, handed>> /\ writing' \subseteq writing
        BY <2>6 DEF Create, WriteOk, Unlock, callVars, history
      <3>2. PICK e \in writing : Put(e, FALSE) \/ Put(e, TRUE) \/ disk' = disk
        BY <2>6 DEF Create, WriteOk
      <3>3. \A q \in Listing' : disk'[q].entry = e \/ (q \in Listing /\ disk'[q] = disk[q])
        BY <3>2 DEF Put, Listing
      <3> QED BY <2>2, <3>1, <3>3 DEF Known
    <2> QED BY <2>3, <2>4, <2>5, <2>6 DEF Next, Writer, Retry, ReplayStep
  <1> QED BY <1>1, <1>2, TypeCorrect, PTL DEF Spec

(* NameInv is an invariant when no two Store calls read the same nanosecond. *)
LEMMA NameInvariant ==
  ASSUME ClockMayRepeat = FALSE
  PROVE  Spec => []NameInv
  <1>1. Init => NameInv
    <2> SUFFICES ASSUME Init PROVE NameInv
      OBVIOUS
    <2>1. Listing = {}
      BY DEF Init, Listing
    <2>2. /\ calls = {} /\ writing = {} /\ paths = {} /\ replayed = {} /\ rpc = "select"
          /\ handed = {} /\ stored = {}
      BY DEF Init, Started, WriterIdle, RetryIdle
    <2>3. ReplayedOnce
      <3>1. ToBeRepeated = {} /\ crashes = 0
        BY <2>1 DEF ToBeRepeated, Init
      <3> QED BY <3>1, FS_EmptySet DEF ReplayedOnce
    <2> QED BY <2>1, <2>2, <2>3 DEF NameInv, NamesFresh, WritingAlone, RemovesHanded,
                                    NoEntryVanishes
  <1>2. SizeInv /\ SizeInv' /\ NameInv /\ [Next]_vars => NameInv'
    BY FreshStep, WritingStep, RemovesStep, VanishStep, OnceStep DEF NameInv
  <1> QED BY <1>1, <1>2, SizeInvariant, PTL DEF Spec

(* An entry whose Store call returned nil leaves the directory only by being
   handed over, evicted or discarded for age: for any number of writers, through
   any number of crashes and I/O errors, provided that no two Store calls read
   the same nanosecond. *)
THEOREM NothingVanishes ==
  ASSUME ClockMayRepeat = FALSE
  PROVE  Spec => []NoEntryVanishes
  BY NameInvariant, PTL DEF NameInv

(* An entry is replayed once, and one more for every crash, under the same
   proviso. *)
THEOREM NothingReplayedTwice ==
  ASSUME ClockMayRepeat = FALSE
  PROVE  Spec => []ReplayedOnce
  BY NameInvariant, PTL DEF NameInv
=============================================================================
