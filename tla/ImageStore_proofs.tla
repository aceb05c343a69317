-------------------------- MODULE ImageStore_proofs --------------------------
(***************************************************************************)
(* What holds of ImageStore for every number of workers, tags and images,  *)
(* and any number of crashes and failed writes.                            *)
(***************************************************************************)
EXTENDS ImageStore, TLAPS

-------------------------------------------------------------------------------
(* The types of the data.                                                  *)

LEMMA WithEntryType ==
    ASSUME NEW ix \in SUBSET Entry, NEW t \in Tag, NEW i \in Image
    PROVE  WithEntry(ix, t, i) \in SUBSET Entry
BY DEF WithEntry, Entry

LEMMA WithoutTagType ==
    ASSUME NEW ix \in SUBSET Entry, NEW t
    PROVE  WithoutTag(ix, t) \in SUBSET Entry
BY DEF WithoutTag, Entry

LEMMA LoadType ==
    ASSUME TypeOK
    PROVE  LoadIndex \in SUBSET Entry /\ LoadMeta \in TagMap
BY DEF TypeOK, FilesOK, WorkersOK, LoadIndex, LoadMeta, NoTags, TagMap, Entry

LEMMA TagMapExcept ==
    ASSUME NEW m \in TagMap, NEW t \in Tag, NEW i \in Image \cup {NoImage}
    PROVE  [m EXCEPT ![t] = i] \in TagMap
BY DEF TagMap

LEMMA BlobsOfType ==
    ASSUME TypeOK, NEW i \in Image
    PROVE  BlobsOf(i) \in SUBSET Blob
BY DEF TypeOK, FilesOK, WorkersOK, BlobsOf, Blob, Layer, Config, Manifest

LEMMA NextBlobsType ==
    ASSUME NEW S \in SUBSET Blob, NEW b \in NextBlobs(S)
    PROVE  b \in S
BY DEF NextBlobs

-------------------------------------------------------------------------------
(* Where a worker is, what it was asked for and what it holds.             *)

CacheSteps == {"getIndex", "getManifest", "getConfig", "getLayers", "pull"}
StoreSteps == {"store", "storing", "readMeta"}
LockedSteps == StoreSteps \cup {"drop", "dropEntry", "clear", "rmtree", "relayout",
                                "list", "scan", "unlink"}
WriteSteps == {"openIndex", "closeIndex", "openMeta", "closeMeta"}

\* The request of a worker that is not idle is well formed.
RequestOK(w) ==
    pc[w] # "idle" =>
        /\ op[w] \in Request
        /\ op[w].kind \in {"build", "remove", "delete"} => op[w].tag \in Tag
        /\ op[w].from # NoTag => op[w].kind = "build"

\* A worker takes only the steps of its kind of request.
StepOK(w) ==
    /\ pc[w] \in CacheSteps \cup {"wantCache"} => op[w].from \in Tag
    /\ pc[w] \in {"getManifest", "getConfig", "getLayers"} => img[w] \in Image
    /\ pc[w] \in StoreSteps \cup {"execute"} => op[w].kind = "build"
    /\ pc[w] = "wantStorage" /\ op[w].kind = "build" => img[w] \in Image
    /\ pc[w] = "drop" => op[w].kind \in {"remove", "delete"}
    /\ pc[w] = "dropEntry" => op[w].kind = "remove"
    /\ pc[w] \in {"clear", "rmtree", "relayout"} => op[w].kind = "purge"
    /\ pc[w] = "list" => op[w].kind = "list"
    /\ pc[w] \in {"scan", "unlink"} => op[w].kind = "cleanup"

\* The steps behind a lock are taken by its holder; a holder is behind the lock.
LocksOK(w) ==
    /\ pc[w] \in LockedSteps => storageLock = w
    /\ storageLock = w => pc[w] \in LockedSteps \cup WriteSteps
    /\ storageLock = w /\ op[w].kind = "build" => img[w] \in Image
    /\ pc[w] \in CacheSteps => cacheLock = w
    /\ cacheLock = w =>
          /\ op[w].kind = "build" /\ op[w].from \in Tag
          /\ pc[w] \in CacheSteps \cup StoreSteps \cup WriteSteps \cup {"wantStorage"}
          /\ pc[w] \in WriteSteps => storageLock = w

Control == \A w \in Worker : RequestOK(w) /\ StepOK(w) /\ LocksOK(w)

\* The registry serves images, all of them bases.
LEMMA ServesType ==
    /\ Bases \in SUBSET Image
    /\ \A t \in Tag : Serves[t] \in SUBSET Image /\ Serves[t] \subseteq Bases
BY NamesAssumption DEF Bases

LEMMA InitTypeOK == Init => TypeOK /\ Control
BY ServesType, NamesAssumption, FreshAssumption, FaultsAssumption
   DEF Init, TypeOK, FilesOK, WorkersOK, Control, RequestOK, StepOK, LocksOK, FileState, Blob, Entry, TagMap,
       NoTags, NoRequest, NoBlob, Steps, Outcomes, StoreSteps, LockedSteps, CacheSteps,
       WriteSteps


-------------------------------------------------------------------------------
(* Every step keeps the types and the control.                             *)

LEMMA ReplyType ==
    ASSUME WorkersOK, NEW w \in Worker, NEW how \in Outcomes, Reply(w, how)
    PROVE  WorkersOK'
BY DEF WorkersOK, Reply, Goto, Forget, Release, Steps, NoTags, TagMap

LEMMA StoreEndsType ==
    ASSUME WorkersOK, NEW w \in Worker, NEW how \in Outcomes, StoreEnds(w, how)
    PROVE  WorkersOK'
<1>t. NoTags \in TagMap
  BY DEF NoTags, TagMap
<1>1. CASE Pulled(w)
  BY <1>1, <1>t DEF StoreEnds, WorkersOK, Goto, Release, Steps
<1>2. CASE ~Pulled(w)
  BY <1>2, ReplyType DEF StoreEnds
<1> QED BY <1>1, <1>2

LEMMA WorkTypeOK ==
    ASSUME TypeOK, Control, NEW w \in Worker, Begin(w) \/ Work(w) \/ IOFails(w)
    PROVE  TypeOK'
<1>c. RequestOK(w) /\ StepOK(w) /\ LocksOK(w)
  BY DEF Control
<1>t. NoTags \in TagMap
  BY DEF NoTags, TagMap
<1> USE <1>t DEF TypeOK, FilesOK, WorkersOK, Goto, files, locks, hands, images,
        FileState, Steps, Outcomes
<1>1. CASE Begin(w)
  BY <1>1 DEF Begin
<1>2. CASE EnsureLayout(w)
  BY <1>2 DEF EnsureLayout, InitializeMeta, FirstStep
<1>3. CASE OpenIndex(w)
  BY <1>3, LoadType DEF OpenIndex
<1>4. CASE CloseIndex(w)
  BY <1>4, ReplyType DEF CloseIndex, InitializeMeta, FirstStep
<1>5. CASE OpenMeta(w)
  BY <1>5, LoadType DEF OpenMeta
<1>6. CASE CloseMeta(w)
  BY <1>6, ReplyType, StoreEndsType DEF CloseMeta, FirstStep
<1>7. CASE LockCache(w)
  BY <1>7 DEF LockCache
<1>8. CASE GetIndex(w)
  BY <1>8, LoadType DEF GetIndex, IsFirstWithTag, Entry
<1>9. CASE GetManifest(w)
  BY <1>9, ReplyType DEF GetManifest, GetDescription
<1>10. CASE GetConfig(w)
  BY <1>10, ReplyType DEF GetConfig, GetDescription
<1>11. CASE GetLayers(w)
  BY <1>11, <1>c, ReplyType DEF GetLayers, Release, StepOK
<1>12. CASE Pull(w)
  <2>1. op[w].from \in Tag
    BY <1>12, <1>c DEF Pull, StepOK, CacheSteps
  <2> QED BY <1>12, <2>1, ServesType, NamesAssumption, ReplyType DEF Pull
<1>13. CASE ExtractFails(w)
  BY <1>13, ReplyType DEF ExtractFails
<1>14. CASE Execute(w)
  BY <1>14, <1>c, ReplyType DEF Execute, RequestOK, StepOK, LocksOK, StoreSteps, LockedSteps, CacheSteps, WriteSteps
<1>15. CASE LockStorage(w)
  BY <1>15, <1>c, BlobsOfType, KindsAssumption DEF LockStorage, Request, OpKinds, RequestOK, StepOK, LocksOK, StoreSteps, LockedSteps, CacheSteps, WriteSteps
<1>16. CASE RefuseCaching(w)
  BY <1>16, ReplyType, StoreEndsType DEF RefuseCaching
<1>17. CASE SkipLayer(w)
  BY <1>17, NextBlobsType DEF SkipLayer
<1>18. CASE StoreRefused(w)
  BY <1>18, ReplyType, StoreEndsType DEF StoreRefused
<1>19. CASE OpenBlob(w)
  BY <1>19, NextBlobsType DEF OpenBlob
<1>20. CASE CloseBlob(w)
  BY <1>20, <1>c DEF CloseBlob, RequestOK, StepOK, LocksOK, StoreSteps, LockedSteps, CacheSteps, WriteSteps
<1>21. CASE AddEntry(w)
  BY <1>21, <1>c, LoadType, WithEntryType DEF AddEntry, StoreTag, Pulled, RequestOK, StepOK, LocksOK, StoreSteps, LockedSteps, CacheSteps, WriteSteps
<1>22. CASE ReadMeta(w)
  BY <1>22, <1>c, LoadType, TagMapExcept DEF ReadMeta, StoreTag, Pulled, RequestOK, StepOK, LocksOK, StoreSteps, LockedSteps, CacheSteps, WriteSteps
<1>23. CASE Drop(w)
  <2>1. op[w].tag \in Tag
    BY <1>23, <1>c DEF Drop, RequestOK, StepOK
  <2>2. [LoadMeta EXCEPT ![op[w].tag] = NoImage] \in TagMap
    BY <2>1, LoadType, TagMapExcept
  <2>3. CASE LoadMeta[op[w].tag] = NoImage
    BY <1>23, <2>3, ReplyType DEF Drop
  <2>4. CASE LoadMeta[op[w].tag] # NoImage
    <3> DEFINE m == [LoadMeta EXCEPT ![op[w].tag] = NoImage]
    <3>1. tags' = [tags EXCEPT ![w] = m] /\ m \in TagMap
      BY <1>23, <2>2, <2>4 DEF Drop
    <3> HIDE DEF m
    <3> QED BY <1>23, <2>4, <3>1 DEF Drop
  <2> QED BY <2>3, <2>4
<1>24. CASE DropEntry(w)
  BY <1>24, LoadType, WithoutTagType, ReplyType DEF DropEntry
<1>25. CASE Clear(w)
  BY <1>25 DEF Clear
<1>26. CASE Rmtree(w)
  <2>1. CASE UNCHANGED <<pc, blobsDir>>
    BY <1>26, <2>1 DEF Rmtree
  <2>2. CASE UNCHANGED blobs
    BY <1>26, <2>2 DEF Rmtree
  <2> QED BY <1>26, <2>1, <2>2 DEF Rmtree
<1>27. CASE Relayout(w)
  BY <1>27 DEF Relayout
<1>28. CASE List(w)
  BY <1>28, ReplyType DEF List
<1>29. CASE Scan(w)
  BY <1>29 DEF Scan
<1>30. CASE Unlink(w)
  BY <1>30, ReplyType DEF Unlink
<1>31. CASE IOFails(w)
  BY <1>31, StoreEndsType, FaultsAssumption DEF IOFails
<1> QED
  BY <1>1, <1>2, <1>3, <1>4, <1>5, <1>6, <1>7, <1>8, <1>9, <1>10, <1>11, <1>12, <1>13, <1>14, <1>15, <1>16, <1>17, <1>18, <1>19, <1>20, <1>21, <1>22, <1>23, <1>24, <1>25, <1>26, <1>27, <1>28, <1>29, <1>30, <1>31 DEF Work

LEMMA ReplyControl ==
    ASSUME WorkersOK, Control, NEW w \in Worker, NEW how, Reply(w, how)
    PROVE  Control'
BY NamesAssumption DEF WorkersOK, Control, Reply, Goto, Forget, Release, NoRequest, RequestOK, StepOK, LocksOK, CacheSteps, StoreSteps, LockedSteps,
   WriteSteps

LEMMA StoreEndsControl ==
    ASSUME WorkersOK, Control, NEW w \in Worker, NEW how, StoreEnds(w, how)
    PROVE  Control'
<1>1. CASE Pulled(w)
  BY <1>1, NamesAssumption DEF StoreEnds, Pulled, WorkersOK, Control, Goto, Release,
     RequestOK, StepOK, LocksOK, CacheSteps, StoreSteps, LockedSteps,
     WriteSteps
<1>2. CASE ~Pulled(w)
  BY <1>2, ReplyControl DEF StoreEnds
<1> QED BY <1>1, <1>2

LEMMA WorkControl ==
    ASSUME TypeOK, Control, NEW w \in Worker, Begin(w) \/ Work(w) \/ IOFails(w)
    PROVE  Control'
<1> USE NamesAssumption DEF TypeOK, WorkersOK, Control, Goto, locks, hands, RequestOK, StepOK, LocksOK, CacheSteps, StoreSteps, LockedSteps,
            WriteSteps
<1>1. CASE Begin(w)
  BY <1>1, KindsAssumption DEF Begin, Request, OpKinds
<1>2. CASE EnsureLayout(w)
  BY <1>2, KindsAssumption DEF EnsureLayout, InitializeMeta, FirstStep, Request
<1>3. CASE OpenIndex(w)
  BY <1>3 DEF OpenIndex
<1>4. CASE CloseIndex(w)
  BY <1>4, ReplyControl DEF CloseIndex, InitializeMeta, FirstStep, Request
<1>5. CASE OpenMeta(w)
  BY <1>5 DEF OpenMeta
<1>6. CASE CloseMeta(w)
  BY <1>6, ReplyControl, StoreEndsControl DEF CloseMeta, FirstStep, Request
<1>7. CASE LockCache(w)
  BY <1>7 DEF LockCache
<1>8. CASE GetIndex(w)
  BY <1>8, LoadType DEF GetIndex, IsFirstWithTag, Entry
<1>9. CASE GetManifest(w)
  BY <1>9, ReplyControl DEF GetManifest, GetDescription
<1>10. CASE GetConfig(w)
  BY <1>10, ReplyControl DEF GetConfig, GetDescription
<1>11. CASE GetLayers(w)
  BY <1>11, ReplyControl DEF GetLayers, Release
<1>12. CASE Pull(w)
  BY <1>12, ReplyControl DEF Pull
<1>13. CASE ExtractFails(w)
  BY <1>13, ReplyControl DEF ExtractFails
<1>14. CASE Execute(w)
  BY <1>14, ReplyControl DEF Execute
<1>15. CASE LockStorage(w)
  BY <1>15, KindsAssumption DEF LockStorage, Request, OpKinds
<1>16. CASE RefuseCaching(w)
  BY <1>16, ReplyControl, StoreEndsControl DEF RefuseCaching
<1>17. CASE SkipLayer(w)
  BY <1>17 DEF SkipLayer
<1>18. CASE StoreRefused(w)
  BY <1>18, ReplyControl, StoreEndsControl DEF StoreRefused
<1>19. CASE OpenBlob(w)
  BY <1>19 DEF OpenBlob
<1>20. CASE CloseBlob(w)
  BY <1>20 DEF CloseBlob
<1>21. CASE AddEntry(w)
  BY <1>21 DEF AddEntry, StoreTag, Pulled
<1>22. CASE ReadMeta(w)
  BY <1>22 DEF ReadMeta, StoreTag, Pulled
<1>23. CASE Drop(w)
  BY <1>23, ReplyControl DEF Drop
<1>24. CASE DropEntry(w)
  BY <1>24, ReplyControl DEF DropEntry
<1>25. CASE Clear(w)
  BY <1>25 DEF Clear
<1>26. CASE Rmtree(w)
  BY <1>26 DEF Rmtree
<1>27. CASE Relayout(w)
  BY <1>27 DEF Relayout
<1>28. CASE List(w)
  BY <1>28, ReplyControl DEF List
<1>29. CASE Scan(w)
  BY <1>29 DEF Scan
<1>30. CASE Unlink(w)
  BY <1>30, ReplyControl DEF Unlink
<1>31. CASE IOFails(w)
  BY <1>31, ReplyControl, StoreEndsControl DEF IOFails
<1> QED
  BY <1>1, <1>2, <1>3, <1>4, <1>5, <1>6, <1>7, <1>8, <1>9, <1>10, <1>11, <1>12, <1>13, <1>14, <1>15, <1>16, <1>17, <1>18, <1>19, <1>20, <1>21, <1>22, <1>23, <1>24, <1>25, <1>26, <1>27, <1>28, <1>29, <1>30, <1>31 DEF Work

LEMMA CrashOK == TypeOK /\ Crash => TypeOK' /\ Control'
BY NamesAssumption, FaultsAssumption
   DEF TypeOK, FilesOK, WorkersOK, Control, Crash, files, images, Steps, Outcomes, NoTags, TagMap,
       RequestOK, StepOK, LocksOK, CacheSteps, StoreSteps, LockedSteps, WriteSteps, NoRequest

LEMMA StutterOK == TypeOK /\ Control /\ UNCHANGED vars => TypeOK' /\ Control'
BY DEF TypeOK, FilesOK, WorkersOK, Control, vars, files, locks, hands, images,
       RequestOK, StepOK, LocksOK

\* No worker ever works on a tag or an image that does not exist, indexes or lists
\* one, or writes under a tag it was not asked for; and whoever is between a `with
\* lock:` and its end is the one holder of the lock (storage/manager.py as called
\* by daemon/handlers.py).
THEOREM TypeCorrect == Spec => [](TypeOK /\ Control)
<1>1. TypeOK /\ Control /\ [Next]_vars => TypeOK' /\ Control'
  BY WorkTypeOK, WorkControl, CrashOK, StutterOK DEF Next
<1> QED
  BY InitTypeOK, <1>1, PTL DEF Spec

\* The two locks cannot hold each other up, and none is left behind: the holder of
\* storage_lock waits for nothing, and that of base_image_cache_lock for storage_lock
\* only.
THEOREM NobodyWaitsInACircle == Spec => []WaitsEnd
<1>1. TypeOK /\ Control => WaitsEnd
  <2> SUFFICES ASSUME TypeOK, Control, NEW w \in Worker, NEW v, v = WaitsFor(w), v # NoWorker
               PROVE  Running(v) \/ Running(WaitsFor(v))
    BY DEF WaitsEnd
  <2>1. v \in Worker /\ (storageLock = v \/ cacheLock = v)
    BY DEF WaitsFor, TypeOK, WorkersOK
  <2>2. ASSUME NEW u \in Worker, storageLock = u
        PROVE  Running(u)
    BY <2>2
       DEF Control, LocksOK, LockedSteps, StoreSteps, WriteSteps, Running, WaitsFor
  <2>3. CASE cacheLock = v /\ storageLock # v
    <3>1. pc[v] \in CacheSteps \cup StoreSteps \cup WriteSteps \cup {"wantStorage"}
      BY <2>1, <2>3 DEF Control, LocksOK
    <3>2. CASE pc[v] # "wantStorage"
      BY <2>1, <3>1, <3>2 DEF CacheSteps, StoreSteps, WriteSteps, Running, WaitsFor
    <3>3. CASE pc[v] = "wantStorage" /\ storageLock # NoWorker
      BY <2>2, <3>3 DEF TypeOK, WorkersOK, WaitsFor
    <3>4. CASE pc[v] = "wantStorage" /\ storageLock = NoWorker
      BY <2>1, <3>4 DEF Running, WaitsFor
    <3> QED BY <3>2, <3>3, <3>4
  <2> QED BY <2>1, <2>2, <2>3
<1> QED
  BY <1>1, TypeCorrect, PTL

-------------------------------------------------------------------------------
(* The listing is what one map would be: ImageStore implements TagStore.    *)

\* A step of worker w leaves the rest of the workers as they are.
Others(w) ==
    \A v \in Worker \ {w} :
        /\ pc'[v] = pc[v] /\ op'[v] = op[v] /\ img'[v] = img[v] /\ cur'[v] = cur[v]
        /\ tags'[v] = tags[v] /\ todo'[v] = todo[v] /\ repo'[v] = repo[v]
        /\ entries'[v] = entries[v] /\ outcome'[v] = outcome[v]
        /\ cacheLock' = v <=> cacheLock = v
        /\ storageLock' = v <=> storageLock = v

LEMMA ReplyOthers ==
    ASSUME WorkersOK, NEW w \in Worker, NEW how, Reply(w, how)
    PROVE  Others(w)
BY NamesAssumption DEF WorkersOK, Others, Reply, Goto, Forget, Release

LEMMA StoreEndsOthers ==
    ASSUME WorkersOK, NEW w \in Worker, NEW how, StoreEnds(w, how)
    PROVE  Others(w)
<1>1. CASE Pulled(w)
  BY <1>1, NamesAssumption DEF StoreEnds, WorkersOK, Others, Goto, Release
<1>2. CASE ~Pulled(w)
  BY <1>2, ReplyOthers DEF StoreEnds
<1> QED BY <1>1, <1>2

LEMMA WorkOthers ==
    ASSUME TypeOK, NEW w \in Worker, Begin(w) \/ Work(w) \/ IOFails(w)
    PROVE  Others(w)
<1> USE NamesAssumption DEF TypeOK, WorkersOK, Others, Goto, locks, hands
<1>1. CASE Begin(w)
  BY <1>1 DEF Begin
<1>2. CASE EnsureLayout(w)
  BY <1>2 DEF EnsureLayout, InitializeMeta
<1>3. CASE OpenIndex(w)
  BY <1>3 DEF OpenIndex
<1>4. CASE CloseIndex(w)
  BY <1>4, ReplyOthers DEF CloseIndex, InitializeMeta
<1>5. CASE OpenMeta(w)
  BY <1>5 DEF OpenMeta
<1>6. CASE CloseMeta(w)
  BY <1>6, ReplyOthers, StoreEndsOthers DEF CloseMeta
<1>7. CASE LockCache(w)
  BY <1>7 DEF LockCache
<1>8. CASE GetIndex(w)
  BY <1>8 DEF GetIndex
<1>9. CASE GetManifest(w)
  BY <1>9, ReplyOthers DEF GetManifest, GetDescription
<1>10. CASE GetConfig(w)
  BY <1>10, ReplyOthers DEF GetConfig, GetDescription
<1>11. CASE GetLayers(w)
  BY <1>11, ReplyOthers DEF GetLayers, Release
<1>12. CASE Pull(w)
  BY <1>12, ReplyOthers DEF Pull
<1>13. CASE ExtractFails(w)
  BY <1>13, ReplyOthers DEF ExtractFails
<1>14. CASE Execute(w)
  BY <1>14, ReplyOthers DEF Execute
<1>15. CASE LockStorage(w)
  BY <1>15 DEF LockStorage
<1>16. CASE RefuseCaching(w)
  BY <1>16, ReplyOthers, StoreEndsOthers DEF RefuseCaching
<1>17. CASE SkipLayer(w)
  BY <1>17 DEF SkipLayer
<1>18. CASE StoreRefused(w)
  BY <1>18, ReplyOthers, StoreEndsOthers DEF StoreRefused
<1>19. CASE OpenBlob(w)
  BY <1>19 DEF OpenBlob
<1>20. CASE CloseBlob(w)
  BY <1>20 DEF CloseBlob
<1>21. CASE AddEntry(w)
  BY <1>21 DEF AddEntry
<1>22. CASE ReadMeta(w)
  BY <1>22 DEF ReadMeta
<1>23. CASE Drop(w)
  BY <1>23, ReplyOthers DEF Drop
<1>24. CASE DropEntry(w)
  BY <1>24, ReplyOthers DEF DropEntry
<1>25. CASE Clear(w)
  BY <1>25 DEF Clear
<1>26. CASE Rmtree(w)
  BY <1>26 DEF Rmtree
<1>27. CASE Relayout(w)
  BY <1>27 DEF Relayout
<1>28. CASE List(w)
  BY <1>28, ReplyOthers DEF List
<1>29. CASE Scan(w)
  BY <1>29 DEF Scan
<1>30. CASE Unlink(w)
  BY <1>30, ReplyOthers DEF Unlink
<1>31. CASE IOFails(w)
  BY <1>31, ReplyOthers, StoreEndsOthers DEF IOFails
<1> QED
  BY <1>1, <1>2, <1>3, <1>4, <1>5, <1>6, <1>7, <1>8, <1>9, <1>10, <1>11, <1>12, <1>13, <1>14, <1>15, <1>16, <1>17, <1>18, <1>19, <1>20, <1>21, <1>22, <1>23, <1>24, <1>25, <1>26, <1>27, <1>28, <1>29, <1>30, <1>31 DEF Work

LEMMA StoreEndsAt ==
    ASSUME WorkersOK, NEW w \in Worker, NEW how, Reply(w, how) \/ StoreEnds(w, how)
    PROVE  pc'[w] \in {"idle", "execute"}
BY DEF WorkersOK, StoreEnds, Reply, Goto

\* The update that w is about to save is one of the operations of TagStore.
Update(w) ==
    \/ /\ op[w].kind = "build"
       /\ tags[w] = [ListedMap EXCEPT ![StoreTag(w)] = img[w]]
    \/ /\ op[w].kind \in {"remove", "delete"}
       /\ ListedMap[op[w].tag] # NoImage
       /\ tags[w] = [ListedMap EXCEPT ![op[w].tag] = NoImage]
    \/ /\ op[w].kind = "purge"
       /\ tags[w] = NoTags

\* The files are there, so the constructor writes neither; a writer therefore has the
\* lock, and the dict it read before is still what the file holds.
WriterOK(w) ==
    /\ pc[w] \in WriteSteps => storageLock = w
    /\ pc[w] = "closeMeta" => meta.state = "torn"
    /\ pc[w] \in {"openMeta", "closeMeta"} => Update(w)

MetaInv ==
    /\ index.state # "missing" /\ meta.state # "missing"
    /\ \A w \in Worker : WriterOK(w)

LEMMA InitMetaInv ==
    ASSUME Fresh = FALSE, Init
    PROVE  MetaInv /\ ListedMap = NoTags
BY DEF Init, MetaInv, WriterOK, WriteSteps, ListedMap, LoadMeta

LEMMA OneWriter ==
    ASSUME MetaInv, NEW w \in Worker, pc[w] \in WriteSteps, NEW v \in Worker, v # w
    PROVE  pc[v] \notin WriteSteps
BY DEF MetaInv, WriterOK

\* A worker that neither is nor comes to be writing metadata.json ...
Quiet(w) ==
    /\ pc[w] # "closeMeta" /\ pc'[w] \notin {"openMeta", "closeMeta"}
    /\ pc'[w] \in {"openIndex", "closeIndex"} => storageLock' = w
    /\ index'.state # "missing"
    /\ UNCHANGED meta

\* ... changes nothing about the listing, for itself or for those who are.
LEMMA OthersKeepUpdate ==
    ASSUME NEW w \in Worker, Others(w), ListedMap' = ListedMap, UNCHANGED meta,
           MetaInv, NEW v \in Worker \ {w}
    PROVE  WriterOK(v)'
<1>1. /\ pc'[v] = pc[v] /\ op'[v] = op[v] /\ img'[v] = img[v] /\ tags'[v] = tags[v]
      /\ cacheLock' = v <=> cacheLock = v
      /\ storageLock' = v <=> storageLock = v
  BY DEF Others
<1>2. StoreTag(v)' = StoreTag(v)
  BY <1>1 DEF StoreTag, Pulled
<1>3. Update(v) => Update(v)'
  BY <1>1, <1>2 DEF Update
<1> QED BY <1>1, <1>3 DEF MetaInv, WriterOK

LEMMA QuietKeepsMap ==
    ASSUME MetaInv, NEW w \in Worker, Others(w), Quiet(w)
    PROVE  MetaInv' /\ ListedMap' = ListedMap
<1>1. ListedMap' = ListedMap
  BY DEF Others, Quiet, ListedMap, LoadMeta
<1>2. \A v \in Worker \ {w} : WriterOK(v)'
  BY <1>1, OthersKeepUpdate DEF Quiet
<1>3. WriterOK(w)'
  BY DEF Quiet, WriterOK, WriteSteps
<1> QED BY <1>1, <1>2, <1>3 DEF MetaInv, Quiet

LEMMA QuietSteps ==
    ASSUME TypeOK, Control, MetaInv, NEW w \in Worker, Begin(w) \/ Work(w)
    PROVE  \/ Quiet(w) /\ UNCHANGED faults
           \/ OpenMeta(w) \/ CloseMeta(w) \/ ReadMeta(w) \/ Drop(w) \/ Clear(w)
<1>c. RequestOK(w) /\ StepOK(w) /\ LocksOK(w) /\ WriterOK(w)
  BY DEF Control, MetaInv
<1> USE StoreEndsAt DEF TypeOK, WorkersOK, Quiet, Goto, files, locks, hands
<1>1. CASE Begin(w)
  BY <1>1 DEF Begin, MetaInv
<1>2. CASE EnsureLayout(w)
  BY <1>2 DEF EnsureLayout, InitializeMeta, FirstStep, MetaInv
<1>3. CASE OpenIndex(w)
  BY <1>3, <1>c DEF OpenIndex, MetaInv, WriterOK, WriteSteps, LocksOK, StoreSteps, LockedSteps
<1>4. CASE CloseIndex(w)
  BY <1>4, <1>c DEF CloseIndex, InitializeMeta, FirstStep, MetaInv, WriterOK, WriteSteps, LocksOK, StoreSteps, LockedSteps, StepOK, RequestOK
<1>5. CASE LockCache(w)
  BY <1>5 DEF LockCache, MetaInv
<1>6. CASE GetIndex(w)
  BY <1>6 DEF GetIndex, MetaInv
<1>7. CASE GetManifest(w)
  BY <1>7 DEF GetManifest, GetDescription, MetaInv
<1>8. CASE GetConfig(w)
  BY <1>8 DEF GetConfig, GetDescription, MetaInv
<1>9. CASE GetLayers(w)
  BY <1>9 DEF GetLayers, MetaInv
<1>10. CASE Pull(w)
  BY <1>10 DEF Pull, MetaInv
<1>11. CASE ExtractFails(w)
  BY <1>11 DEF ExtractFails, MetaInv
<1>12. CASE Execute(w)
  BY <1>12 DEF Execute, MetaInv
<1>13. CASE LockStorage(w)
  BY <1>13, <1>c, KindsAssumption DEF LockStorage, MetaInv, RequestOK, Request, OpKinds
<1>14. CASE RefuseCaching(w)
  BY <1>14 DEF RefuseCaching, MetaInv
<1>15. CASE SkipLayer(w)
  BY <1>15 DEF SkipLayer, MetaInv
<1>16. CASE StoreRefused(w)
  BY <1>16 DEF StoreRefused, MetaInv
<1>17. CASE OpenBlob(w)
  BY <1>17 DEF OpenBlob, MetaInv
<1>18. CASE CloseBlob(w)
  BY <1>18 DEF CloseBlob, MetaInv
<1>19. CASE AddEntry(w)
  BY <1>19, <1>c DEF AddEntry, MetaInv, WriterOK, WriteSteps, LocksOK, StoreSteps, LockedSteps
<1>20. CASE DropEntry(w)
  BY <1>20, <1>c DEF DropEntry, MetaInv, WriterOK, WriteSteps, LocksOK, StoreSteps, LockedSteps
<1>21. CASE Rmtree(w)
  BY <1>21 DEF Rmtree, MetaInv
<1>22. CASE Relayout(w)
  BY <1>22, <1>c DEF Relayout, MetaInv, WriterOK, WriteSteps, LocksOK, StoreSteps, LockedSteps
<1>23. CASE List(w)
  BY <1>23 DEF List, MetaInv
<1>24. CASE Scan(w)
  BY <1>24 DEF Scan, MetaInv
<1>25. CASE Unlink(w)
  BY <1>25 DEF Unlink, MetaInv
<1> QED
  BY <1>1, <1>2, <1>3, <1>4, <1>5, <1>6, <1>7, <1>8, <1>9, <1>10, <1>11, <1>12, <1>13, <1>14, <1>15, <1>16, <1>17, <1>18, <1>19, <1>20, <1>21, <1>22, <1>23, <1>24, <1>25 DEF Work

\* The steps that read, write or fail to write metadata.json, one by one.
MapStep == (ListedMap' = ListedMap /\ UNCHANGED faults) \/ TS!Next

LEMMA LockedReadsMap ==
    ASSUME MetaInv, NEW w \in Worker, storageLock = w, pc[w] # "closeMeta"
    PROVE  ListedMap = LoadMeta /\ \A v \in Worker \ {w} : pc[v] \notin WriteSteps
BY DEF MetaInv, WriterOK, WriteSteps, ListedMap

\* Having read the dict and changed it, the worker goes on to write it.
LEMMA ToWrite ==
    ASSUME TypeOK, Control, MetaInv, NEW w \in Worker, Others(w),
           pc[w] \in LockedSteps, pc' = [pc EXCEPT ![w] = "openMeta"],
           UNCHANGED <<meta, index, faults, storageLock>>, Update(w)'
    PROVE  MetaInv' /\ MapStep
<1>1. storageLock = w /\ pc[w] \notin WriteSteps /\ pc[w] \in Steps
  BY DEF Control, LocksOK, LockedSteps, StoreSteps, WriteSteps, TypeOK, WorkersOK
<1>2. ListedMap = LoadMeta /\ \A v \in Worker \ {w} : pc[v] \notin WriteSteps
  BY <1>1, LockedReadsMap DEF WriteSteps
<1>3. ListedMap' = ListedMap
  BY <1>1, <1>2 DEF ListedMap, LoadMeta, WriteSteps, Others, TypeOK, WorkersOK
<1>4. \A v \in Worker \ {w} : WriterOK(v)'
  BY <1>2 DEF Others, WriterOK, WriteSteps
<1>5. WriterOK(w)'
  BY <1>1 DEF WriterOK, WriteSteps, TypeOK, WorkersOK
<1> QED BY <1>3, <1>4, <1>5 DEF MetaInv, MapStep

LEMMA ReadMetaStep ==
    ASSUME TypeOK, Control, MetaInv, NEW w \in Worker, ReadMeta(w), Others(w)
    PROVE  MetaInv' /\ MapStep
<1>1. storageLock = w /\ op[w].kind = "build" /\ pc[w] \in LockedSteps
  BY DEF Control, StepOK, LocksOK, LockedSteps, StoreSteps, ReadMeta
<1>2. ListedMap = LoadMeta /\ ListedMap' = ListedMap
  <2>1. ListedMap = LoadMeta /\ \A v \in Worker \ {w} : pc[v] \notin WriteSteps
    BY <1>1, LockedReadsMap DEF ReadMeta
  <2> QED BY <2>1 DEF ListedMap, LoadMeta, WriteSteps, Others, ReadMeta, Goto, files, TypeOK,
             WorkersOK
<1>3. Update(w)'
  BY <1>1, <1>2 DEF Update, ReadMeta, StoreTag, Pulled, locks, TypeOK, WorkersOK
<1> QED BY <1>1, <1>3, ToWrite DEF ReadMeta, Goto, files, locks

LEMMA ClearStep ==
    ASSUME TypeOK, Control, MetaInv, NEW w \in Worker, Clear(w), Others(w)
    PROVE  MetaInv' /\ MapStep
<1>1. op[w].kind = "purge" /\ pc[w] \in LockedSteps
  BY DEF Control, StepOK, LockedSteps, StoreSteps, Clear
<1>2. Update(w)'
  BY <1>1 DEF Update, Clear, TypeOK, WorkersOK
<1> QED BY <1>1, <1>2, ToWrite DEF Clear, Goto, files, locks

LEMMA DropStep ==
    ASSUME TypeOK, Control, MetaInv, NEW w \in Worker, Drop(w), Others(w)
    PROVE  MetaInv' /\ MapStep
<1>1. storageLock = w /\ op[w].kind \in {"remove", "delete"} /\ pc[w] \in LockedSteps
  BY DEF Control, StepOK, LocksOK, LockedSteps, StoreSteps, Drop
<1>2. ListedMap = LoadMeta /\ \A v \in Worker \ {w} : pc[v] \notin WriteSteps
  BY <1>1, LockedReadsMap DEF Drop
<1>3. CASE LoadMeta[op[w].tag] = NoImage
  <2>1. Quiet(w) /\ UNCHANGED faults
    BY <1>3 DEF Drop, Quiet, Reply, Goto, files, TypeOK, WorkersOK, MetaInv
  <2> QED BY <2>1, QuietKeepsMap DEF MapStep
<1>4. CASE LoadMeta[op[w].tag] # NoImage
  <2>1. ListedMap' = ListedMap
    BY <1>2, <1>4 DEF ListedMap, LoadMeta, WriteSteps, Others, Drop, Goto, files, TypeOK,
       WorkersOK
  <2>2. Update(w)'
    BY <1>1, <1>2, <1>4, <2>1 DEF Update, Drop, TypeOK, WorkersOK
  <2> QED BY <1>1, <1>4, <2>2, ToWrite DEF Drop, Goto, files, locks
<1> QED BY <1>3, <1>4

LEMMA OpenMetaStep ==
    ASSUME TypeOK, Control, MetaInv, NEW w \in Worker, OpenMeta(w), Others(w)
    PROVE  MetaInv' /\ MapStep
<1>1. storageLock = w /\ Update(w)
  BY DEF MetaInv, WriterOK, WriteSteps, OpenMeta
<1>2. ListedMap = LoadMeta /\ \A v \in Worker \ {w} : pc[v] \notin WriteSteps
  BY <1>1, LockedReadsMap DEF OpenMeta
<1>3. pc'[w] = "closeMeta" /\ meta' = [state |-> "torn", tags |-> LoadMeta]
  BY DEF OpenMeta, Goto, TypeOK, WorkersOK
<1>4. ListedMap' = ListedMap
  BY <1>2, <1>3 DEF ListedMap
<1>5. Update(w)'
  BY <1>1, <1>4 DEF Update, StoreTag, Pulled, OpenMeta, locks, hands
<1>6. WriterOK(w)'
  BY <1>1, <1>3, <1>5 DEF WriterOK, OpenMeta, locks
<1>7. \A v \in Worker \ {w} : WriterOK(v)'
  BY <1>2 DEF Others, WriterOK, WriteSteps
<1> QED BY <1>3, <1>4, <1>6, <1>7 DEF MetaInv, MapStep, OpenMeta

LEMMA CloseMetaStep ==
    ASSUME TypeOK, Control, MetaInv, NEW w \in Worker, CloseMeta(w), Others(w)
    PROVE  MetaInv' /\ MapStep
<1>1. /\ storageLock = w /\ Update(w)
      /\ \A v \in Worker \ {w} : pc[v] \notin WriteSteps
  BY DEF MetaInv, WriterOK, WriteSteps, CloseMeta
<1>2. pc'[w] \notin WriteSteps
  BY <1>1, StoreEndsAt DEF CloseMeta, Goto, WriteSteps, TypeOK, WorkersOK
<1>3. ListedMap' = tags[w]
  BY <1>1, <1>2 DEF ListedMap, LoadMeta, CloseMeta, Others, WriteSteps
<1>4. MetaInv'
  BY <1>1, <1>2 DEF MetaInv, WriterOK, WriteSteps, Others, CloseMeta
<1>5. TS!Next
  <2>1. CASE op[w].kind = "build"
    <3>1. StoreTag(w) \in Tag /\ img[w] \in Image
      BY <1>1, <2>1 DEF Control, RequestOK, LocksOK, StoreTag, Pulled, CloseMeta
    <3>2. TS!Put(StoreTag(w), img[w])
      BY <1>1, <1>3, <2>1 DEF Update, TS!Put, CloseMeta
    <3> QED BY <3>1, <3>2 DEF TS!Next
  <2>2. CASE op[w].kind \in {"remove", "delete"}
    <3>1. op[w].tag \in Tag
      BY <2>2 DEF Control, RequestOK, CloseMeta
    <3>2. TS!Drop(op[w].tag)
      BY <1>1, <1>3, <2>2 DEF Update, TS!Drop, CloseMeta
    <3> QED BY <3>1, <3>2 DEF TS!Next
  <2>3. CASE op[w].kind = "purge"
    BY <1>1, <1>3, <2>3 DEF Update, TS!Next, TS!Clear, TS!EmptyMap, NoTags, CloseMeta
  <2> QED BY <1>1, <2>1, <2>2, <2>3 DEF Update
<1> QED BY <1>4, <1>5 DEF MapStep

\* A failed write leaves the old content, or a torn file that reads as empty.
LEMMA IOFailsStep ==
    ASSUME TypeOK, Control, MetaInv, NEW w \in Worker, IOFails(w), Others(w)
    PROVE  MetaInv' /\ MapStep
<1>1. pc'[w] \in {"idle", "execute"}
  BY StoreEndsAt DEF IOFails, TypeOK
<1>2. CASE pc[w] = "closeMeta"
  <2>1. meta.state = "torn" /\ \A v \in Worker \ {w} : pc[v] \notin WriteSteps
    BY <1>2, OneWriter DEF MetaInv, WriterOK, WriteSteps
  <2>2. ListedMap' = NoTags
    BY <1>1, <2>1 DEF ListedMap, LoadMeta, IOFails, files, Others, WriteSteps
  <2>3. MetaInv'
    BY <1>1, <2>1 DEF MetaInv, WriterOK, WriteSteps, Others, IOFails, files
  <2> QED BY <2>2, <2>3 DEF MapStep, TS!Next, TS!Fault, TS!EmptyMap, NoTags, IOFails
<1>3. CASE pc[w] # "closeMeta"
  <2>1. Quiet(w)
    BY <1>1, <1>3 DEF Quiet, IOFails, files, MetaInv
  <2>2. MetaInv' /\ ListedMap' = ListedMap
    BY <2>1, QuietKeepsMap
  <2> QED BY <2>2 DEF MapStep, TS!Next, TS!Fault, IOFails
<1> QED BY <1>2, <1>3

LEMMA CrashStep ==
    ASSUME MetaInv, Crash
    PROVE  MetaInv' /\ MapStep
<1>1. MetaInv'
  BY DEF MetaInv, WriterOK, WriteSteps, Crash, files
<1>2. ListedMap' \in {ListedMap, NoTags}
  BY DEF MetaInv, WriterOK, Crash, files, ListedMap, LoadMeta
<1> QED BY <1>1, <1>2 DEF MapStep, TS!Next, TS!Fault, TS!EmptyMap, NoTags, Crash

\* The local image store behaves as one map from tags to images: whatever the other
\* threads do, store_image, remove_image, delete_image and remove_all_images each
\* have exactly the effect asked for, on no other tag, and only a crash or a failed
\* write may cost the map.  The repository must have been initialised before: its
\* constructor overwrites both files without the lock when it finds them missing.
THEOREM StoreImplementsMap ==
    ASSUME Fresh = FALSE
    PROVE  Spec => TagStoreSpec
<1> DEFINE Inv == TypeOK /\ Control /\ MetaInv
<1>1. Init => Inv /\ TS!Init
  BY InitTypeOK, InitMetaInv DEF TS!Init, TS!EmptyMap, NoTags, Init
<1>2. Inv /\ [Next]_vars => Inv' /\ [TS!Next]_(TS!vars)
  <2> SUFFICES ASSUME Inv, [Next]_vars
               PROVE  MetaInv' /\ MapStep
    BY WorkTypeOK, WorkControl, CrashOK, StutterOK DEF Next, MapStep, TS!vars
  <2>1. ASSUME NEW w \in Worker, Begin(w) \/ Work(w)
        PROVE  MetaInv' /\ MapStep
    BY <2>1, WorkOthers, QuietSteps, QuietKeepsMap, OpenMetaStep, CloseMetaStep, ReadMetaStep,
       DropStep, ClearStep DEF MapStep
  <2>2. ASSUME NEW w \in Worker, IOFails(w)
        PROVE  MetaInv' /\ MapStep
    BY <2>2, WorkOthers, IOFailsStep
  <2>3. CASE Crash
    BY <2>3, CrashStep
  <2>4. CASE UNCHANGED vars
    BY <2>4 DEF vars, files, locks, hands, MetaInv, WriterOK, Update, StoreTag, Pulled,
       ListedMap, LoadMeta, MapStep
  <2> QED BY <2>1, <2>2, <2>3, <2>4 DEF Next
<1> QED
  BY <1>1, <1>2, PTL DEF Spec, TagStoreSpec, TS!Spec

-------------------------------------------------------------------------------
(* What is listed is stored.                                              *)

Stored(b) == blobs[b] # "missing" /\ (faults = 0 => Settled(b))
Has(i) == Stored(Config(i)) /\ Stored(Manifest(i))

LEMMA ListedIsStoredIs ==
    ListedIsStored <=> \A t \in Tag : LoadMeta[t] # NoImage => Has(LoadMeta[t])
BY DEF ListedIsStored, Has, Stored

\* A dict about to be saved lists only what is stored: it is the empty one of a
\* constructor or of a purge, or the dict of the file without a tag, or that with the
\* image whose blobs the same worker has written just before.
BufferOK(w) ==
    /\ pc[w] # "storing" => cur[w] = NoBlob
    /\ pc[w] \in {"idle", "layout"} => tags[w] = NoTags
    /\ pc[w] \in WriteSteps /\ storageLock # w => tags[w] = NoTags
    /\ pc[w] \in {"openMeta", "closeMeta"} =>
          /\ \A t \in Tag : tags[w][t] # NoImage => Has(tags[w][t])
          /\ op[w].kind = "purge" => tags[w] = NoTags
    /\ pc[w] \in {"store", "storing"} =>
          \A b \in {Config(img[w]), Manifest(img[w])} \ todo[w] : Stored(b)
    /\ pc[w] = "readMeta" => Has(img[w])
    /\ pc[w] \in {"openIndex", "closeIndex"} /\ storageLock = w /\ op[w].kind = "build" =>
          Has(img[w])
    /\ pc[w] \in {"rmtree", "relayout"} => LoadMeta = NoTags

StoreInv == ListedIsStored /\ \A w \in Worker : BufferOK(w)

LEMMA InitStoreInv == Init => StoreInv
BY DEF Init, StoreInv, ListedIsStored, BufferOK, WriteSteps, LoadMeta, NoTags

LEMMA BlobNames ==
    ASSUME NEW i \in Image
    PROVE  /\ Config(i) \in Blob /\ Manifest(i) \in Blob
           /\ Config(i)[1] = "config" /\ Manifest(i)[1] = "manifest"
           /\ NoBlob \notin Blob
BY DEF Config, Manifest, Blob, NoBlob

\* Only remove_all_images unlinks what is stored, where nobody calls
\* cleanup_orphaned_blobs.
StillStored == \A b \in Blob : Stored(b) => Stored(b)'

LEMMA StoredStays ==
    ASSUME TypeOK, Control, StoreInv, NEW w \in Worker, Others(w),
           Begin(w) \/ Work(w) \/ IOFails(w), pc[w] \notin {"rmtree", "unlink"}
    PROVE  StillStored
<1> USE DEF TypeOK, WorkersOK, FilesOK, StillStored, Stored, Settled, files
<1>1. CASE OpenBlob(w)
  <2>1. PICK b \in Blob : blobs' = [blobs EXCEPT ![b] = "torn"] /\ cur' = [cur EXCEPT ![w] = b]
    BY <1>1, NextBlobsType DEF OpenBlob
  <2>2. cur[w] = NoBlob /\ NoBlob \notin Blob
    BY <1>1 DEF OpenBlob, StoreInv, BufferOK, NoBlob, Blob
  <2> QED BY <1>1, <2>1, <2>2 DEF OpenBlob
<1>2. CASE CloseBlob(w)
  BY <1>2 DEF CloseBlob, NoBlob, Blob
<1>3. CASE /\ UNCHANGED blobs /\ faults' \in Nat
           /\ faults' = 0 => faults = 0 /\ (cur[w] = NoBlob \/ UNCHANGED cur)
  <2>1. NoBlob \notin Blob
    BY DEF NoBlob, Blob
  <2> QED BY <1>3, <2>1 DEF Others
<1>4. faults \in Nat
  BY FaultsAssumption
<1>5. CASE IOFails(w)
  <2>1. faults' # 0 /\ faults' \in Nat /\ UNCHANGED blobs
    BY <1>4, <1>5 DEF IOFails
  <2> QED BY <1>3, <2>1
<1>6. pc[w] # "storing" => cur[w] = NoBlob
  BY DEF StoreInv, BufferOK
<1> HIDE DEF TypeOK, WorkersOK, FilesOK, StillStored, Stored, Settled
<1>7. CASE Begin(w)
  BY <1>3, <1>4, <1>6, <1>7 DEF Begin, files, hands
<1>8. CASE EnsureLayout(w)
  BY <1>3, <1>4, <1>6, <1>8 DEF EnsureLayout, files, hands
<1>9. CASE OpenIndex(w)
  BY <1>3, <1>4, <1>6, <1>9 DEF OpenIndex, files, hands
<1>10. CASE CloseIndex(w)
  BY <1>3, <1>4, <1>6, <1>10 DEF CloseIndex, files, hands
<1>11. CASE OpenMeta(w)
  BY <1>3, <1>4, <1>6, <1>11 DEF OpenMeta, files, hands
<1>12. CASE CloseMeta(w)
  BY <1>3, <1>4, <1>6, <1>12 DEF CloseMeta, files, hands
<1>13. CASE LockCache(w)
  BY <1>3, <1>4, <1>6, <1>13 DEF LockCache, files, hands
<1>14. CASE GetIndex(w)
  BY <1>3, <1>4, <1>6, <1>14 DEF GetIndex, files, hands
<1>15. CASE GetManifest(w)
  BY <1>3, <1>4, <1>6, <1>15 DEF GetManifest, GetDescription, files, hands
<1>16. CASE GetConfig(w)
  BY <1>3, <1>4, <1>6, <1>16 DEF GetConfig, GetDescription, files, hands
<1>17. CASE GetLayers(w)
  BY <1>3, <1>4, <1>6, <1>17 DEF GetLayers, files, hands
<1>18. CASE Pull(w)
  BY <1>3, <1>4, <1>6, <1>18 DEF Pull, files, hands
<1>19. CASE ExtractFails(w)
  BY <1>3, <1>4, <1>6, <1>19 DEF ExtractFails, files, hands
<1>20. CASE Execute(w)
  BY <1>3, <1>4, <1>6, <1>20 DEF Execute, files, hands
<1>21. CASE LockStorage(w)
  BY <1>3, <1>4, <1>6, <1>21 DEF LockStorage, files, hands
<1>22. CASE RefuseCaching(w)
  BY <1>3, <1>4, <1>6, <1>22 DEF RefuseCaching, files, hands
<1>23. CASE SkipLayer(w)
  BY <1>3, <1>4, <1>6, <1>23 DEF SkipLayer, files, hands
<1>24. CASE StoreRefused(w)
  BY <1>3, <1>4, <1>6, <1>24 DEF StoreRefused, files, hands
<1>25. CASE AddEntry(w)
  BY <1>3, <1>4, <1>6, <1>25 DEF AddEntry, files, hands
<1>26. CASE ReadMeta(w)
  BY <1>3, <1>4, <1>6, <1>26 DEF ReadMeta, files, hands
<1>27. CASE Drop(w)
  BY <1>3, <1>4, <1>6, <1>27 DEF Drop, files, hands
<1>28. CASE DropEntry(w)
  BY <1>3, <1>4, <1>6, <1>28 DEF DropEntry, files, hands
<1>29. CASE Clear(w)
  BY <1>3, <1>4, <1>6, <1>29 DEF Clear, files, hands
<1>30. CASE Relayout(w)
  BY <1>3, <1>4, <1>6, <1>30 DEF Relayout, files, hands
<1>31. CASE List(w)
  BY <1>3, <1>4, <1>6, <1>31 DEF List, files, hands
<1>32. CASE Scan(w)
  BY <1>3, <1>4, <1>6, <1>32 DEF Scan, files, hands
<1> QED
  BY <1>1, <1>2, <1>5, <1>7, <1>8, <1>9, <1>10, <1>11, <1>12, <1>13, <1>14, <1>15, <1>16, <1>17, <1>18, <1>19, <1>20, <1>21, <1>22, <1>23, <1>24, <1>25, <1>26, <1>27, <1>28, <1>29, <1>30, <1>31, <1>32 DEF Work, Rmtree, Unlink

LEMMA StoreEndsBuffer ==
    ASSUME WorkersOK, NEW w \in Worker, NEW how, Reply(w, how) \/ StoreEnds(w, how)
    PROVE  BufferOK(w)'
<1>1. CASE Reply(w, how)
  BY <1>1 DEF Reply, Goto, Forget, BufferOK, WriteSteps, WorkersOK
<1>2. CASE StoreEnds(w, how) /\ Pulled(w)
  BY <1>2 DEF StoreEnds, Goto, BufferOK, WriteSteps, WorkersOK
<1> QED BY <1>1, <1>2 DEF StoreEnds

\* The worker that makes the step: its own dict stays as described ...
LEMMA OwnBuffer ==
    ASSUME TypeOK, Control, StoreInv, NEW w \in Worker, Begin(w) \/ Work(w) \/ IOFails(w),
           StillStored \/ pc[w] = "rmtree", pc[w] # "unlink"
    PROVE  BufferOK(w)'
<1>c. RequestOK(w) /\ StepOK(w) /\ LocksOK(w) /\ BufferOK(w)
  BY DEF Control, StoreInv
<1> USE <1>c, StoreEndsBuffer DEF TypeOK, WorkersOK, Goto, BufferOK, files, locks, hands
<1>1. CASE Begin(w)
  BY <1>1 DEF Begin, WriteSteps
<1>2. CASE EnsureLayout(w)
  <2>1. storageLock # w
    BY <1>2 DEF EnsureLayout, LocksOK, LockedSteps, StoreSteps, WriteSteps
  <2>2. tags[w] = NoTags /\ \A t \in Tag : NoTags[t] = NoImage
    BY <1>2 DEF EnsureLayout, NoTags
  <2>3. pc'[w] \in {"openIndex", "openMeta", "wantStorage", "execute", "wantCache"}
    BY <1>2 DEF EnsureLayout, InitializeMeta, FirstStep
  <2> QED BY <1>2, <2>1, <2>2, <2>3 DEF EnsureLayout, WriteSteps
<1>3. CASE OpenIndex(w)
  BY <1>3, BlobNames DEF OpenIndex, WriteSteps, StillStored, Has, StepOK, LocksOK, RequestOK, StoreSteps, LockedSteps
<1>4. CASE CloseIndex(w)
  <2>1. CASE storageLock = w /\ op[w].kind # "build"
    BY <1>4, <2>1 DEF CloseIndex
  <2>2. CASE storageLock = w /\ op[w].kind = "build"
    <3>1. Has(img[w])' /\ pc'[w] = "readMeta"
      BY <1>4, <2>2, BlobNames DEF CloseIndex, StillStored, Has, LocksOK, RequestOK
    <3> QED BY <1>4, <2>2, <3>1 DEF CloseIndex, WriteSteps
  <2>3. CASE storageLock # w
    <3>1. tags[w] = NoTags /\ \A t \in Tag : NoTags[t] = NoImage
      BY <1>4, <2>3 DEF CloseIndex, WriteSteps, NoTags
    <3>2. pc'[w] \in {"openMeta", "wantStorage", "execute", "wantCache"}
      BY <1>4, <2>3 DEF CloseIndex, InitializeMeta, FirstStep
    <3> QED BY <1>4, <2>3, <3>1, <3>2 DEF CloseIndex, WriteSteps
  <2> QED BY <2>1, <2>2, <2>3
<1>5. CASE OpenMeta(w)
  <2>1. pc'[w] = "closeMeta" /\ UNCHANGED <<op, tags, cur, storageLock>>
    BY <1>5 DEF OpenMeta
  <2>2. ASSUME NEW t \in Tag, tags[w][t] # NoImage
        PROVE  Has(tags[w][t])'
    <3>1. Has(tags[w][t]) /\ tags[w][t] \in Image
      BY <1>5, <2>2 DEF OpenMeta, TagMap
    <3> QED BY <1>5, <3>1, BlobNames DEF StillStored, Has, OpenMeta
  <2> QED BY <1>5, <2>1, <2>2 DEF OpenMeta, WriteSteps
<1>6. CASE CloseMeta(w)
  <2>1. CASE storageLock # w
    BY <1>6, <2>1 DEF CloseMeta, FirstStep, WriteSteps
  <2>2. CASE storageLock = w /\ op[w].kind \in {"build", "delete"}
    BY <1>6, <2>2 DEF CloseMeta
  <2>3. CASE storageLock = w /\ op[w].kind \in {"remove", "purge"}
    <3>1. op[w].kind = "purge" => LoadMeta' = NoTags
      BY <1>6, <2>3 DEF CloseMeta, LoadMeta
    <3> QED BY <1>6, <2>3, <3>1 DEF CloseMeta, WriteSteps
  <2> QED BY <1>6, <2>1, <2>2, <2>3 DEF CloseMeta
<1>7. CASE LockCache(w)
  BY <1>7 DEF LockCache, WriteSteps
<1>8. CASE GetIndex(w)
  BY <1>8 DEF GetIndex, WriteSteps
<1>9. CASE GetManifest(w)
  BY <1>9 DEF GetManifest, GetDescription, WriteSteps
<1>10. CASE GetConfig(w)
  BY <1>10 DEF GetConfig, GetDescription, WriteSteps
<1>11. CASE GetLayers(w)
  BY <1>11 DEF GetLayers, WriteSteps
<1>12. CASE Pull(w)
  BY <1>12 DEF Pull, WriteSteps
<1>13. CASE ExtractFails(w)
  BY <1>13 DEF ExtractFails, WriteSteps
<1>14. CASE Execute(w)
  BY <1>14 DEF Execute, WriteSteps
<1>15. CASE LockStorage(w)
  <2>1. op[w].kind = "build" =>
            Config(img[w]) \in BlobsOf(img[w]) /\ Manifest(img[w]) \in BlobsOf(img[w])
    BY DEF BlobsOf
  <2>2. /\ pc'[w] \in {"store", "drop", "clear", "list", "scan"}
        /\ pc'[w] = "store" => op[w].kind = "build"
    BY <1>15, KindsAssumption DEF LockStorage, RequestOK, Request, OpKinds
  <2>3. op[w].kind = "build" => todo'[w] = BlobsOf(img[w])
    BY <1>15 DEF LockStorage
  <2> QED BY <1>15, <2>1, <2>2, <2>3 DEF LockStorage, WriteSteps
<1>16. CASE RefuseCaching(w)
  BY <1>16 DEF RefuseCaching, WriteSteps
<1>17. CASE SkipLayer(w)
  BY <1>17, BlobNames DEF SkipLayer, Inherited, WriteSteps, StillStored, Has, StepOK, LocksOK, RequestOK, StoreSteps, LockedSteps
<1>18. CASE StoreRefused(w)
  BY <1>18 DEF StoreRefused, WriteSteps
<1>19. CASE OpenBlob(w)
  BY <1>19, BlobNames DEF OpenBlob, WriteSteps, StillStored, Has, StepOK, LocksOK, RequestOK, StoreSteps, LockedSteps
<1>20. CASE CloseBlob(w)
  <2>1. pc'[w] = "store" /\ storageLock = w /\ op[w].kind = "build" /\ img[w] \in Image
    BY <1>20 DEF CloseBlob, StepOK, LocksOK, StoreSteps, LockedSteps
  <2>2. ASSUME NEW b \in {Config(img[w]), Manifest(img[w])} \ todo'[w]
        PROVE  Stored(b)'
    <3>1. b \in Blob
      BY <2>1, <2>2, BlobNames
    <3>2. CASE b = cur[w]
      BY <1>20, <3>1, <3>2 DEF CloseBlob, Stored, Settled, FilesOK
    <3>3. CASE b # cur[w]
      <4>1. b \notin todo[w]
        BY <1>20, <2>2, <3>3 DEF CloseBlob
      <4>2. Stored(b)
        BY <1>20, <2>2, <4>1 DEF CloseBlob
      <4> QED BY <1>20, <3>1, <4>2 DEF StillStored, CloseBlob
    <3> QED BY <3>2, <3>3
  <2> QED BY <1>20, <2>1, <2>2 DEF CloseBlob, WriteSteps
<1>21. CASE AddEntry(w)
  BY <1>21, BlobNames DEF AddEntry, WriteSteps, StillStored, Has, StepOK, LocksOK, RequestOK, StoreSteps, LockedSteps
<1>22. CASE ReadMeta(w)
  <2>1. pc'[w] = "openMeta" /\ storageLock = w /\ op[w].kind = "build" /\ img[w] \in Image
    BY <1>22 DEF ReadMeta, StepOK, LocksOK, StoreSteps, LockedSteps
  <2>2. ASSUME NEW t \in Tag, tags'[w][t] # NoImage
        PROVE  Has(tags[w][t])'
    <3>1. Has(img[w]) /\ UNCHANGED img
      BY <1>22 DEF ReadMeta
    <3>2. LoadMeta[t] # NoImage => Has(LoadMeta[t]) /\ LoadMeta[t] \in Image
      BY ListedIsStoredIs, LoadType DEF StoreInv, TagMap
    <3>3. tags'[w][t] \in {LoadMeta[t], img[w]}
      BY <1>22, LoadType DEF ReadMeta, TagMap
    <3>4. PICK i \in Image : i = tags'[w][t] /\ Has(i)
      BY <2>1, <2>2, <3>1, <3>2, <3>3
    <3>5. Stored(Config(i))' /\ Stored(Manifest(i))'
      BY <1>22, <3>4, BlobNames DEF StillStored, Has, ReadMeta
    <3> QED BY <3>4, <3>5 DEF Has, Config, Manifest, Stored, Settled
  <2> QED BY <1>22, <2>1, <2>2 DEF ReadMeta, WriteSteps
<1>23. CASE Drop(w)
  <2>1. CASE LoadMeta[op[w].tag] = NoImage
    BY <1>23, <2>1 DEF Drop
  <2>2. CASE LoadMeta[op[w].tag] # NoImage
    <3>1. pc'[w] = "openMeta" /\ storageLock = w /\ op[w].kind \in {"remove", "delete"}
      BY <1>23, <2>2 DEF Drop, StepOK, LocksOK, LockedSteps
    <3>2. ASSUME NEW t \in Tag, tags'[w][t] # NoImage
          PROVE  Has(tags[w][t])'
      <4>1. tags'[w][t] = LoadMeta[t]
        BY <1>23, <2>2, <3>2, LoadType DEF Drop, TagMap
      <4>2. LoadMeta[t] # NoImage
        BY <3>2, <4>1
      <4>3. PICK i \in Image : i = LoadMeta[t] /\ Has(i)
        BY <4>2, ListedIsStoredIs, LoadType DEF StoreInv, TagMap
      <4>4. Stored(Config(i))' /\ Stored(Manifest(i))'
        BY <1>23, <4>3, BlobNames DEF StillStored, Has, Drop
      <4> QED BY <4>1, <4>3, <4>4 DEF Has, Config, Manifest, Stored, Settled
    <3> QED BY <1>23, <2>2, <3>1, <3>2 DEF Drop, WriteSteps
  <2> QED BY <2>1, <2>2
<1>24. CASE DropEntry(w)
  BY <1>24 DEF DropEntry, LocksOK, LockedSteps, StoreSteps, WriteSteps, StepOK
<1>25. CASE Clear(w)
  <2>1. \A t \in Tag : NoTags[t] = NoImage
    BY DEF NoTags
  <2>2. storageLock = w /\ pc'[w] = "openMeta" /\ tags'[w] = NoTags
    BY <1>25 DEF Clear, LocksOK, LockedSteps
  <2> QED BY <1>25, <2>1, <2>2 DEF Clear, WriteSteps
<1>26. CASE Rmtree(w)
  <2>1. pc'[w] \in {"rmtree", "relayout"} /\ LoadMeta' = LoadMeta
    BY <1>26 DEF Rmtree, LoadMeta
  <2> QED BY <1>26, <2>1 DEF Rmtree, WriteSteps
<1>27. CASE Relayout(w)
  <2>1. storageLock = w /\ op[w].kind = "purge"
    BY <1>27 DEF Relayout, LocksOK, StepOK, LockedSteps
  <2> QED BY <1>27, <2>1 DEF Relayout, WriteSteps
<1>28. CASE List(w)
  BY <1>28 DEF List, WriteSteps
<1>29. CASE Scan(w)
  BY <1>29 DEF Scan, WriteSteps
<1>30. CASE IOFails(w)
  BY <1>30 DEF IOFails, WriteSteps
<1> QED
  BY <1>1, <1>2, <1>3, <1>4, <1>5, <1>6, <1>7, <1>8, <1>9, <1>10, <1>11, <1>12, <1>13, <1>14, <1>15, <1>16, <1>17, <1>18, <1>19, <1>20, <1>21, <1>22, <1>23, <1>24, <1>25, <1>26, <1>27, <1>28, <1>29, <1>30 DEF Work, Unlink

LEMMA MetaChange ==
    ASSUME TypeOK, NEW w \in Worker, Begin(w) \/ Work(w) \/ IOFails(w)
    PROVE  \/ UNCHANGED meta
           \/ LoadMeta' = NoTags
           \/ pc[w] = "closeMeta" /\ LoadMeta' = tags[w]
<1> USE DEF files
<1>1. CASE OpenMeta(w)
  BY <1>1 DEF OpenMeta, LoadMeta
<1>2. CASE CloseMeta(w)
  BY <1>2 DEF CloseMeta, LoadMeta
<1>3. CASE Begin(w) \/ IOFails(w)
  BY <1>3 DEF Begin, IOFails
<1>4. CASE \/ EnsureLayout(w) \/ OpenIndex(w) \/ CloseIndex(w) \/ LockCache(w) \/ GetIndex(w)
           \/ GetManifest(w) \/ GetConfig(w) \/ GetLayers(w) \/ Pull(w) \/ ExtractFails(w)
           \/ Execute(w) \/ LockStorage(w) \/ RefuseCaching(w)
  BY <1>4 DEF EnsureLayout, OpenIndex, CloseIndex, LockCache, GetIndex, GetManifest, GetConfig,
     GetDescription, GetLayers, Pull, ExtractFails, Execute, LockStorage, RefuseCaching
<1>5. CASE \/ SkipLayer(w) \/ StoreRefused(w) \/ OpenBlob(w) \/ CloseBlob(w) \/ AddEntry(w)
           \/ ReadMeta(w) \/ Drop(w) \/ DropEntry(w) \/ Clear(w) \/ Rmtree(w) \/ Relayout(w)
           \/ List(w) \/ Scan(w) \/ Unlink(w)
  BY <1>5 DEF SkipLayer, StoreRefused, OpenBlob, CloseBlob, AddEntry, ReadMeta, Drop, DropEntry,
     Clear, Rmtree, Relayout, List, Scan, Unlink
<1> QED BY <1>1, <1>2, <1>3, <1>4, <1>5 DEF Work

LEMMA HasStays ==
    ASSUME StillStored, NEW i \in Image, Has(i)
    PROVE  Stored(Config(i))' /\ Stored(Manifest(i))'
BY BlobNames DEF StillStored, Has

\* ... and the dicts of the other workers do too: the one that removes blobs holds the
\* lock, so that whoever else is writing metadata.json writes an empty dict.
LEMMA OthersBuffer ==
    ASSUME TypeOK, Control, StoreInv, NEW w \in Worker, Begin(w) \/ Work(w) \/ IOFails(w),
           Others(w), StillStored \/ pc[w] = "rmtree", NEW v \in Worker \ {w}
    PROVE  BufferOK(v)'
<1>1. LocksOK(w) /\ LocksOK(v) /\ BufferOK(w) /\ BufferOK(v)
  BY DEF Control, StoreInv
<1>2. /\ pc'[v] = pc[v] /\ op'[v] = op[v] /\ img'[v] = img[v] /\ cur'[v] = cur[v]
      /\ tags'[v] = tags[v] /\ todo'[v] = todo[v]
      /\ storageLock' = v <=> storageLock = v
  BY DEF Others
<1>3. storageLock = v => StillStored
  BY <1>1 DEF LocksOK, LockedSteps
<1>4. \A t \in Tag : NoTags[t] = NoImage
  BY DEF NoTags
<1>5. ASSUME pc[v] \in {"openMeta", "closeMeta"}, NEW t \in Tag, tags[v][t] # NoImage
      PROVE  Has(tags[v][t])'
  <2>1. StillStored
    BY <1>1, <1>3, <1>4, <1>5 DEF BufferOK, WriteSteps
  <2>2. PICK i \in Image : i = tags[v][t] /\ Has(i)
    BY <1>1, <1>5 DEF BufferOK, TypeOK, WorkersOK, TagMap
  <2>3. Stored(Config(i))' /\ Stored(Manifest(i))'
    BY <2>1, <2>2, HasStays
  <2> QED BY <1>2, <2>2, <2>3 DEF Has, Config, Manifest, Stored, Settled
<1>6. ASSUME pc[v] \in {"store", "storing"},
             NEW b \in {Config(img[v]), Manifest(img[v])} \ todo[v]
      PROVE  Stored(b)'
  <2>1. storageLock = v /\ img[v] \in Image
    BY <1>1, <1>6 DEF LocksOK, LockedSteps, StoreSteps, Control, StepOK
  <2>2. b \in Blob /\ Stored(b)
    BY <1>1, <1>6, <2>1, BlobNames DEF BufferOK
  <2> QED BY <1>3, <2>1, <2>2 DEF StillStored
<1>7. ASSUME \/ pc[v] = "readMeta"
             \/ pc[v] \in {"openIndex", "closeIndex"} /\ storageLock = v /\ op[v].kind = "build"
      PROVE  Has(img[v])'
  <2>1. storageLock = v /\ img[v] \in Image /\ Has(img[v])
    BY <1>1, <1>7 DEF LocksOK, LockedSteps, StoreSteps, Control, StepOK, BufferOK
  <2>2. Stored(Config(img[v]))' /\ Stored(Manifest(img[v]))'
    BY <1>2, <1>3, <2>1, BlobNames DEF StillStored, Has, Config, Manifest, Stored, Settled
  <2> QED BY <2>2 DEF Has
<1>8. ASSUME pc[v] \in {"rmtree", "relayout"}
      PROVE  LoadMeta' = NoTags
  <2>1. storageLock = v /\ LoadMeta = NoTags
    BY <1>1, <1>8 DEF LocksOK, LockedSteps, BufferOK
  <2>2. pc[w] = "closeMeta" => tags[w] = NoTags
    BY <1>1, <2>1 DEF BufferOK, WriteSteps
  <2> QED BY <2>1, <2>2, MetaChange DEF LoadMeta
<1> QED
  BY <1>1, <1>2, <1>5, <1>6, <1>7, <1>8 DEF BufferOK

LEMMA ListedStays ==
    ASSUME TypeOK, StoreInv, NEW w \in Worker, Begin(w) \/ Work(w) \/ IOFails(w),
           StillStored \/ pc[w] = "rmtree"
    PROVE  ListedIsStored'
<1>0. \A t \in Tag : NoTags[t] = NoImage
  BY DEF NoTags
<1> SUFFICES ASSUME NEW t \in Tag, LoadMeta'[t] # NoImage
             PROVE  Has(LoadMeta[t])'
  BY DEF ListedIsStored, Has, Stored
<1>1. PICK i \in Image : i = LoadMeta'[t] /\ Has(i) /\ StillStored
  <2>1. CASE UNCHANGED meta
    <3>1. LoadMeta' = LoadMeta
      BY <2>1 DEF LoadMeta
    <3>2. pc[w] # "rmtree"
      BY <1>0, <3>1 DEF StoreInv, BufferOK
    <3>3. LoadMeta[t] \in Image /\ Has(LoadMeta[t])
      BY <3>1, LoadType, ListedIsStoredIs DEF StoreInv, TagMap
    <3> QED BY <3>1, <3>2, <3>3
  <2>2. CASE pc[w] = "closeMeta" /\ LoadMeta' = tags[w]
    BY <2>2 DEF StoreInv, BufferOK, TypeOK, WorkersOK, TagMap
  <2> QED BY <1>0, <2>1, <2>2, MetaChange
<1>2. Stored(Config(i))' /\ Stored(Manifest(i))'
  BY <1>1, HasStays
<1> QED BY <1>1, <1>2 DEF Has, Config, Manifest, Stored, Settled

LEMMA CrashStoreInv ==
    ASSUME TypeOK, StoreInv, Crash
    PROVE  StoreInv'
<1>1. \A w \in Worker : BufferOK(w)'
  BY DEF Crash, BufferOK, WriteSteps
<1>2. faults' # 0 /\ UNCHANGED <<blobs, meta>>
  BY FaultsAssumption DEF Crash, files, TypeOK, FilesOK
<1>3. ListedIsStored'
  BY <1>2 DEF StoreInv, ListedIsStored, LoadMeta, Config, Manifest
<1> QED BY <1>1, <1>3 DEF StoreInv

\* Every image that `derpy ls` shows has its config and its manifest in the blob
\* store, and unless something crashed or failed they are intact: storing writes the
\* metadata last, purging clears it first, and no constructor that comes upon a
\* missing file brings an old listing back.  This needs that nobody calls
\* cleanup_orphaned_blobs (the daemon has no request for it): after a crash that has
\* torn the index it would take every blob for an orphan.
THEOREM ListedImagesAreStored ==
    ASSUME "cleanup" \notin Kinds
    PROVE  Spec => []ListedIsStored
<1> DEFINE Inv == TypeOK /\ Control /\ StoreInv
<1>1. Init => Inv
  BY InitTypeOK, InitStoreInv
<1>2. Inv /\ [Next]_vars => Inv'
  <2> SUFFICES ASSUME Inv, [Next]_vars
               PROVE  StoreInv'
    BY WorkTypeOK, WorkControl, CrashOK, StutterOK DEF Next
  <2>1. ASSUME NEW w \in Worker, Begin(w) \/ Work(w) \/ IOFails(w)
        PROVE  StoreInv'
    <3>1. pc[w] # "unlink"
      BY DEF Control, RequestOK, StepOK, Request
    <3>2. Others(w)
      BY <2>1, WorkOthers
    <3>3. StillStored \/ pc[w] = "rmtree"
      BY <2>1, <3>1, <3>2, StoredStays
    <3> QED BY <2>1, <3>1, <3>2, <3>3, OwnBuffer, OthersBuffer, ListedStays DEF StoreInv
  <2>2. CASE Crash
    BY <2>2, CrashStoreInv
  <2>3. CASE UNCHANGED vars
    <3> USE <2>3 DEF vars, files, locks, hands
    <3>1. LoadMeta' = LoadMeta /\ UNCHANGED <<pc, op, img, cur, tags, todo, storageLock>>
      BY DEF LoadMeta
    <3>2. ListedIsStored'
      BY <3>1 DEF StoreInv, ListedIsStored, Settled, Config, Manifest
    <3>3. ASSUME NEW w \in Worker
          PROVE  BufferOK(w)'
      <4>1. ASSUME NEW b, Stored(b)
            PROVE  Stored(b)'
        BY <3>1, <4>1 DEF Stored, Settled
      <4>2. ASSUME NEW i, Has(i)
            PROVE  Has(i)'
        BY <4>1, <4>2 DEF Has, Config, Manifest
      <4>3. /\ pc'[w] = pc[w] /\ op'[w] = op[w] /\ img'[w] = img[w] /\ cur'[w] = cur[w]
            /\ tags'[w] = tags[w] /\ todo'[w] = todo[w] /\ storageLock' = storageLock
        BY <3>1
      <4>4. BufferOK(w)
        BY DEF StoreInv
      <4>5. ASSUME pc[w] \in {"openMeta", "closeMeta"}, NEW t \in Tag, tags[w][t] # NoImage
            PROVE  Has(tags[w][t])'
        <5>1. PICK i : i = tags[w][t] /\ Has(i)
          BY <4>4, <4>5 DEF BufferOK
        <5>2. Stored(Config(i))' /\ Stored(Manifest(i))'
          BY <4>1, <5>1 DEF Has, Config, Manifest
        <5> QED BY <4>3, <5>1, <5>2 DEF Has, Config, Manifest, Stored, Settled
      <4>6. ASSUME pc[w] \in {"store", "storing"},
                   NEW b \in {Config(img[w]), Manifest(img[w])} \ todo[w]
            PROVE  Stored(b)'
        BY <4>1, <4>4, <4>6 DEF BufferOK
      <4>7. Has(img[w]) => Has(img[w])'
        BY <4>1, <4>3 DEF Has, Config, Manifest, Stored, Settled
      <4> QED BY <3>1, <4>3, <4>4, <4>5, <4>6, <4>7 DEF BufferOK
    <3> QED BY <3>2, <3>3 DEF StoreInv
  <2> QED BY <2>1, <2>2, <2>3 DEF Next
<1>3. Inv => ListedIsStored
  BY DEF StoreInv
<1> QED
  BY <1>1, <1>2, <1>3, PTL DEF Spec

-------------------------------------------------------------------------------
(* index.json, which is written before metadata.json and cleaned after it. *)

\* The repository has one user.
Alone == \A v, w \in Worker : v = w

\* Nobody comes upon a half-initialised repository: the constructor, which writes
\* without the lock, has nothing to write or nobody to disturb.
Undisturbed == Alone \/ MetaInv

\* The worker is storing an image.
Storing(w) ==
    /\ op[w].kind = "build"
    /\ \/ pc[w] \in {"wantStorage"} \cup StoreSteps
       \/ pc[w] \in WriteSteps /\ storageLock = w

\* An image is stored by the one worker that has made it, or is the base just pulled.
OwnOK(w) ==
    Storing(w) =>
        /\ img[w] \in used
        /\ Pulled(w) => op[w].from \in Tag /\ img[w] \in Serves[op[w].from]
        /\ ~Pulled(w) =>
              img[w] \notin Bases /\ \A v \in Worker \ {w} : Storing(v) => img[v] # img[w]

\* The digest of an image is indexed under no tag but that of the build that made it, or one
\* under which the registry serves it.
EntryOK(e) ==
    /\ e.image \in used
    /\ e.image \in Bases => e.tag \in Tag /\ e.image \in Serves[e.tag]
    /\ \A w \in Worker : Storing(w) /\ ~Pulled(w) /\ e.image = img[w] => e.tag = op[w].tag

NameInv ==
    /\ \A w \in Worker : OwnOK(w) /\ \A e \in entries[w] : EntryOK(e)
    /\ \A e \in index.entries : EntryOK(e)
    /\ Bases \subseteq used

Holds(ix, t, i) == \E e \in ix : e.tag = t /\ e.image = i
Covers(ix, m) ==
    \A t \in Tag : m[t] # NoImage => Holds(ix, t, m[t]) \/ Shared(m[t])

\* What a constructor writes is empty, and the listing exists once it is done.
ConstructorOK(w) ==
    /\ pc[w] \in {"idle", "layout"} \/ (pc[w] \in WriteSteps /\ storageLock # w) =>
          entries[w] = {} /\ tags[w] = NoTags
    /\ pc[w] \notin {"idle", "layout"} \cup WriteSteps \/ storageLock = w =>
          meta.state # "missing"

\* What w has read, and is to save, keeps the two files in agreement.
SaveOK(w) ==
    /\ pc[w] \in {"openIndex", "closeIndex"} =>
          /\ Covers(entries[w], meta.tags)
          /\ storageLock = w /\ op[w].kind = "build" => Holds(entries[w], StoreTag(w), img[w])
          /\ storageLock = w /\ op[w].kind = "purge" =>
                entries[w] = {} /\ meta.tags = NoTags
    /\ pc[w] = "readMeta" => Holds(index.entries, StoreTag(w), img[w]) \/ Shared(img[w])
    /\ pc[w] \in {"openMeta", "closeMeta"} =>
          /\ Covers(index.entries, tags[w])
          /\ op[w].kind = "purge" => tags[w] = NoTags
    /\ pc[w] = "dropEntry" => meta.tags[op[w].tag] = NoImage
    /\ pc[w] \in {"rmtree", "relayout"} => meta.tags = NoTags
    /\ outcome[w] # "unreadable"

CoverInv ==
    faults = 0 =>
        /\ index.state = "missing" => index.entries = {}
        /\ meta.state = "missing" => meta.tags = NoTags
        /\ index.state = "torn" => \E w \in Worker : pc[w] = "closeIndex"
        /\ meta.state = "torn" => \E w \in Worker : pc[w] = "closeMeta"
        /\ Covers(index.entries, meta.tags)
        /\ \A w \in Worker : ConstructorOK(w) /\ SaveOK(w)

\* A removal has not answered yet, and what it has saved or is to save lacks the tag.
RemovalOK(w) ==
    /\ pc[w] # "idle" => outcome[w] = "none"
    /\ storageLock = w /\ op[w].kind = "remove" =>
          /\ pc[w] \in {"openMeta", "closeMeta"} => tags[w][op[w].tag] = NoImage
          /\ pc[w] \in {"dropEntry", "openIndex", "closeIndex"} =>
                LoadMeta[op[w].tag] = NoImage
          /\ pc[w] \in {"openIndex", "closeIndex"} =>
                \A e \in entries[w] : e.tag # op[w].tag

RemovalInv == \A w \in Worker : RemovalOK(w)

LEMMA InitNaming ==
    ASSUME Init
    PROVE  NameInv /\ CoverInv /\ RemovalInv
BY NamesAssumption
   DEF Init, NameInv, OwnOK, Storing, StoreSteps, WriteSteps, EntryOK, CoverInv, ConstructorOK, SaveOK,
       Covers, RemovalInv, RemovalOK, NoTags, NoRequest

\* Whoever writes, or holds the lock, is undisturbed.
LEMMA WritesAlone ==
    ASSUME Control, Undisturbed, NEW w \in Worker, pc[w] \in WriteSteps \/ storageLock = w,
           NEW v \in Worker \ {w}
    PROVE  pc[v] \notin LockedSteps \cup WriteSteps
BY DEF Control, LocksOK, Undisturbed, Alone, MetaInv, WriterOK

\* What w stores, if it stores anything after its step, it was storing before.
StoringStays(w) ==
    /\ Storing(w)' => /\ Storing(w) /\ img'[w] = img[w] /\ op'[w] = op[w]
                      /\ Pulled(w)' = Pulled(w)
    /\ UNCHANGED used

LEMMA StoringSteps ==
    ASSUME TypeOK, Control, NEW w \in Worker, Begin(w) \/ Work(w) \/ IOFails(w)
    PROVE  StoringStays(w) \/ Pull(w) \/ Execute(w)
<1>c. RequestOK(w) /\ StepOK(w) /\ LocksOK(w)
  BY DEF Control
<1> USE StoreEndsAt DEF TypeOK, WorkersOK, StoringStays, Storing, Pulled, Goto, files, locks, hands,
        images, WriteSteps, StoreSteps
<1>1. CASE Begin(w)
  BY <1>1 DEF Begin
<1>2. CASE EnsureLayout(w)
  BY <1>2, <1>c DEF EnsureLayout, InitializeMeta, FirstStep, LocksOK, LockedSteps
<1>3. CASE OpenIndex(w)
  BY <1>3 DEF OpenIndex
<1>4. CASE CloseIndex(w)
  BY <1>4 DEF CloseIndex, InitializeMeta, FirstStep
<1>5. CASE OpenMeta(w)
  BY <1>5 DEF OpenMeta
<1>6. CASE CloseMeta(w)
  BY <1>6 DEF CloseMeta, FirstStep
<1>7. CASE LockCache(w)
  BY <1>7 DEF LockCache
<1>8. CASE GetIndex(w)
  BY <1>8 DEF GetIndex
<1>9. CASE GetManifest(w)
  BY <1>9 DEF GetManifest, GetDescription
<1>10. CASE GetConfig(w)
  BY <1>10 DEF GetConfig, GetDescription
<1>11. CASE GetLayers(w)
  BY <1>11 DEF GetLayers
<1>12. CASE ExtractFails(w)
  BY <1>12 DEF ExtractFails
<1>13. CASE LockStorage(w)
  BY <1>13 DEF LockStorage
<1>14. CASE RefuseCaching(w)
  BY <1>14 DEF RefuseCaching
<1>15. CASE SkipLayer(w)
  BY <1>15 DEF SkipLayer
<1>16. CASE StoreRefused(w)
  BY <1>16 DEF StoreRefused
<1>17. CASE OpenBlob(w)
  BY <1>17 DEF OpenBlob
<1>18. CASE CloseBlob(w)
  BY <1>18 DEF CloseBlob
<1>19. CASE AddEntry(w)
  BY <1>19 DEF AddEntry
<1>20. CASE ReadMeta(w)
  BY <1>20 DEF ReadMeta
<1>21. CASE Drop(w)
  BY <1>21, <1>c DEF Drop, StepOK
<1>22. CASE DropEntry(w)
  BY <1>22, <1>c DEF DropEntry, StepOK
<1>23. CASE Clear(w)
  BY <1>23, <1>c DEF Clear, StepOK
<1>24. CASE Rmtree(w)
  BY <1>24 DEF Rmtree
<1>25. CASE Relayout(w)
  BY <1>25, <1>c DEF Relayout, StepOK
<1>26. CASE List(w)
  BY <1>26 DEF List
<1>27. CASE Scan(w)
  BY <1>27 DEF Scan
<1>28. CASE Unlink(w)
  BY <1>28 DEF Unlink
<1>29. CASE IOFails(w)
  BY <1>29 DEF IOFails
<1> QED
  BY <1>1, <1>2, <1>3, <1>4, <1>5, <1>6, <1>7, <1>8, <1>9, <1>10, <1>11, <1>12, <1>13, <1>14, <1>15, <1>16, <1>17, <1>18, <1>19, <1>20, <1>21, <1>22, <1>23, <1>24, <1>25, <1>26, <1>27, <1>28, <1>29 DEF Work

\* The two files and the entries in w's hands: which steps touch them.
LEMMA FileSteps ==
    ASSUME TypeOK, NEW w \in Worker, Begin(w) \/ Work(w)
    PROVE  \/ OpenIndex(w) \/ CloseIndex(w) \/ OpenMeta(w) \/ CloseMeta(w)
           \/ UNCHANGED <<index, meta>> /\ pc[w] \notin {"closeIndex", "closeMeta"}
<1> USE DEF files
<1>1. CASE \/ Begin(w) \/ EnsureLayout(w) \/ LockCache(w) \/ GetIndex(w)
           \/ GetManifest(w) \/ GetConfig(w) \/ GetLayers(w) \/ Pull(w) \/ ExtractFails(w)
           \/ Execute(w) \/ LockStorage(w) \/ RefuseCaching(w)
  BY <1>1 DEF Begin, EnsureLayout, LockCache, GetIndex, GetManifest, GetConfig,
     GetDescription, GetLayers, Pull, ExtractFails, Execute, LockStorage, RefuseCaching
<1>2. CASE \/ SkipLayer(w) \/ StoreRefused(w) \/ OpenBlob(w) \/ CloseBlob(w) \/ AddEntry(w)
           \/ ReadMeta(w) \/ Drop(w) \/ DropEntry(w) \/ Clear(w) \/ Rmtree(w) \/ Relayout(w)
           \/ List(w) \/ Scan(w) \/ Unlink(w)
  BY <1>2 DEF SkipLayer, StoreRefused, OpenBlob, CloseBlob, AddEntry, ReadMeta, Drop, DropEntry,
     Clear, Rmtree, Relayout, List, Scan, Unlink
<1> QED BY <1>1, <1>2 DEF Work

LEMMA EntriesSteps ==
    ASSUME TypeOK, NEW w \in Worker, Begin(w) \/ Work(w) \/ IOFails(w)
    PROVE  entries'[w] \subseteq entries[w] \/ AddEntry(w) \/ DropEntry(w)
<1>1. ASSUME NEW how, Reply(w, how) \/ StoreEnds(w, how)
      PROVE  entries'[w] \subseteq entries[w]
  BY <1>1 DEF Reply, StoreEnds, Forget, TypeOK, WorkersOK
<1> USE <1>1 DEF hands
<1>2. CASE \/ Begin(w) \/ IOFails(w) \/ EnsureLayout(w) \/ LockCache(w) \/ GetIndex(w)
           \/ GetManifest(w) \/ GetConfig(w) \/ GetLayers(w) \/ Pull(w) \/ ExtractFails(w)
           \/ Execute(w) \/ LockStorage(w) \/ RefuseCaching(w)
  BY <1>2 DEF Begin, IOFails, EnsureLayout, LockCache, GetIndex, GetManifest, GetConfig,
     GetDescription, GetLayers, Pull, ExtractFails, Execute, LockStorage, RefuseCaching
<1>3. CASE \/ SkipLayer(w) \/ StoreRefused(w) \/ OpenBlob(w) \/ CloseBlob(w)
           \/ ReadMeta(w) \/ Drop(w) \/ Clear(w) \/ Rmtree(w) \/ List(w) \/ Scan(w) \/ Unlink(w)
  BY <1>3 DEF SkipLayer, StoreRefused, OpenBlob, CloseBlob, ReadMeta, Drop,
     Clear, Rmtree, List, Scan, Unlink
<1>4. CASE OpenIndex(w) \/ CloseIndex(w) \/ OpenMeta(w) \/ CloseMeta(w) \/ Relayout(w)
  BY <1>4 DEF OpenIndex, CloseIndex, OpenMeta, CloseMeta, Relayout, TypeOK, WorkersOK
<1> QED BY <1>2, <1>3, <1>4 DEF Work

LEMMA WithEntryNames ==
    ASSUME NEW ix, NEW t, NEW i, NEW e \in WithEntry(ix, t, i)
    PROVE  e \in ix \/ (e.tag = t /\ e.image = i)
BY DEF WithEntry

LEMMA WithoutTagNames ==
    ASSUME NEW ix \in SUBSET Entry, NEW t, NEW e \in WithoutTag(ix, t)
    PROVE  \E f \in ix : e.tag = f.tag /\ e.image = f.image /\ f.tag # t
BY DEF WithoutTag, Entry

LEMMA WithoutTagKeeps ==
    ASSUME NEW ix \in SUBSET Entry, NEW t, NEW e \in ix, e.tag # t
    PROVE  \E f \in WithoutTag(ix, t) : f.tag = e.tag /\ f.image = e.image
<1> DEFINE gone == {f.image : f \in {g \in ix : g.tag = t}}
<1> DEFINE kept == [e EXCEPT !.ahead = @ \ gone]
<1>1. kept \in WithoutTag(ix, t)
  BY DEF WithoutTag
<1>2. kept.tag = e.tag /\ kept.image = e.image
  BY DEF Entry
<1> QED BY <1>1, <1>2

\* The entries a step of w leaves in its hands or in the file: their names are in order.
LEMMA NamesInHands ==
    ASSUME TypeOK, Control, NameInv, NEW w \in Worker,
           Begin(w) \/ Work(w) \/ IOFails(w), NEW e \in entries'[w]
    PROVE  EntryOK([tag |-> e.tag, image |-> e.image])
<1>1. CASE e \in entries[w]
  BY <1>1 DEF NameInv, EntryOK
<1>2. \A f \in LoadIndex : EntryOK(f)
  BY DEF NameInv, LoadIndex
<1>3. CASE AddEntry(w)
  <2>1. Storing(w) /\ OwnOK(w)
    BY <1>3 DEF AddEntry, Control, StepOK, StoreSteps, Storing, NameInv
  <2>2. e \in entries[w] \/ e \in WithEntry(LoadIndex, StoreTag(w), img[w])
    BY <1>3 DEF AddEntry, TypeOK, WorkersOK
  <2>3. e \in entries[w] \/ e \in LoadIndex \/ (e.tag = StoreTag(w) /\ e.image = img[w])
    BY <2>2, WithEntryNames
  <2>4. CASE e.tag = StoreTag(w) /\ e.image = img[w]
    <3>1. ASSUME NEW v \in Worker, Storing(v), ~Pulled(v), img[w] = img[v]
          PROVE  StoreTag(w) = op[v].tag
      <4>1. CASE v = w
        BY <3>1, <4>1 DEF StoreTag
      <4>2. CASE v # w
        BY <2>1, <3>1, <4>2 DEF NameInv, OwnOK
      <4> QED BY <4>1, <4>2
    <3>2. img[w] \in used /\ (img[w] \in Bases => StoreTag(w) \in Tag /\ img[w] \in Serves[StoreTag(w)])
      BY <2>1 DEF OwnOK, StoreTag
    <3> QED BY <2>4, <3>1, <3>2 DEF EntryOK
  <2> QED BY <1>1, <1>2, <2>3, <2>4 DEF EntryOK
<1>4. CASE DropEntry(w)
  <2>1. e \in entries[w] \/ e \in WithoutTag(LoadIndex, op[w].tag)
        \/ entries'[w] = {}
    BY <1>4 DEF DropEntry, Reply, Forget, TypeOK, WorkersOK
  <2>2. CASE e \in WithoutTag(LoadIndex, op[w].tag)
    BY <1>2, <2>2, LoadType, WithoutTagNames DEF EntryOK
  <2> QED BY <1>1, <2>1, <2>2
<1> QED BY <1>1, <1>3, <1>4, EntriesSteps

LEMMA NamesInIndex ==
    ASSUME TypeOK, NameInv, NEW w \in Worker,
           Begin(w) \/ Work(w) \/ IOFails(w), NEW e \in index'.entries
    PROVE  EntryOK(e)
<1>1. index'.entries \subseteq index.entries \cup entries[w]
  BY FileSteps DEF OpenIndex, CloseIndex, OpenMeta, CloseMeta, LoadIndex, IOFails, files
<1> QED BY <1>1 DEF NameInv

\* A new image has a new digest, and a base just pulled is not the worker's own.
LEMMA NamesKept ==
    ASSUME TypeOK, Control, NameInv, NEW w \in Worker, Others(w),
           Begin(w) \/ Work(w) \/ IOFails(w)
    PROVE  /\ \A v \in Worker : OwnOK(v)'
           /\ \A e : EntryOK(e) => EntryOK(e)'
           /\ (Bases \subseteq used)'
<1>o. \A v \in Worker \ {w} :
         /\ img'[v] = img[v] /\ op'[v] = op[v]
         /\ Storing(v)' = Storing(v) /\ Pulled(v)' = Pulled(v)
  BY DEF Others, Storing, Pulled
<1>i. \A v \in Worker : Storing(v) => img[v] \in used
  BY DEF NameInv, OwnOK
<1>1. CASE StoringStays(w)
  <2>1. \A v \in Worker : Storing(v)' =>
           Storing(v) /\ img'[v] = img[v] /\ op'[v] = op[v] /\ Pulled(v)' = Pulled(v)
    BY <1>o, <1>1 DEF StoringStays
  <2>2. \A v \in Worker : OwnOK(v)'
    BY <1>1, <2>1 DEF OwnOK, NameInv, StoringStays
  <2>3. \A e : EntryOK(e) => EntryOK(e)'
    BY <1>1, <2>1 DEF EntryOK, StoringStays
  <2> QED BY <1>1, <2>2, <2>3 DEF StoringStays, NameInv
<1>2. CASE Pull(w) /\ ~StoringStays(w)
  <2>1. /\ cacheLock = w /\ UNCHANGED <<used, op, cacheLock>>
        /\ op[w].from \in Tag /\ img'[w] \in Serves[op[w].from]
    <3>1. cacheLock = w /\ UNCHANGED used
      BY <1>2 DEF Pull, Control, LocksOK, CacheSteps, images
    <3>2. ~Storing(w)' => StoringStays(w)
      BY <3>1 DEF StoringStays
    <3>3. pc'[w] # "idle"
      BY <1>2, <3>2 DEF Storing, StoreSteps, WriteSteps
    <3>4. op[w].from \in Tag
      BY <1>2 DEF Pull, Control, StepOK, CacheSteps
    <3> QED BY <1>2, <3>1, <3>3, <3>4 DEF Pull, Reply, Goto, locks, TypeOK, WorkersOK
  <2>2. Pulled(w)'
    BY <2>1 DEF Pulled
  <2>3. \A v \in Worker : OwnOK(v)'
    <3>1. img'[w] \in Bases /\ img'[w] \in used
      BY <2>1, ServesType DEF NameInv
    <3> QED BY <1>o, <2>1, <2>2, <3>1 DEF OwnOK, NameInv
  <2>4. \A e : EntryOK(e) => EntryOK(e)'
    BY <1>o, <2>1, <2>2 DEF EntryOK
  <2> QED BY <2>1, <2>3, <2>4 DEF NameInv
<1>3. CASE Execute(w) /\ ~StoringStays(w)
  <2>1. PICK i \in Image \ used : used' = used \cup {i} /\ img'[w] = i
    <3>1. pc[w] # "idle" /\ (Reply(w, "error") /\ UNCHANGED used => StoringStays(w))
      BY <1>3 DEF Execute, Reply, Goto, StoringStays, Storing, StoreSteps, WriteSteps, TypeOK, WorkersOK
    <3> QED BY <1>3, <3>1 DEF Execute, images, TypeOK, WorkersOK
  <2>2. i \notin used /\ Bases \subseteq used
    BY DEF NameInv
  <2>3. cacheLock # w
    BY <1>3 DEF Execute, Control, LocksOK, CacheSteps, StoreSteps, WriteSteps
  <2>4. ~Pulled(w)'
    BY <1>3, <2>1, <2>3 DEF Execute, Pulled, locks, Reply, Release, NameInv
  <2>5. \A v \in Worker : OwnOK(v)'
    BY <1>o, <1>i, <2>1, <2>2, <2>4 DEF OwnOK, NameInv
  <2>6. \A e : EntryOK(e) => EntryOK(e)'
    BY <1>o, <2>1, <2>2 DEF EntryOK
  <2> QED BY <2>1, <2>2, <2>5, <2>6
<1> QED BY <1>1, <1>2, <1>3, StoringSteps

LEMMA NextNameInv ==
    ASSUME TypeOK, Control, NameInv, NEW w \in Worker, Others(w),
           Begin(w) \/ Work(w) \/ IOFails(w)
    PROVE  NameInv'
<1>1. \A e : EntryOK(e) => EntryOK(e)'
  BY NamesKept
<1>2. \A e \in entries'[w] : EntryOK(e)'
  <2> SUFFICES ASSUME NEW e \in entries'[w]
               PROVE  EntryOK(e)'
    OBVIOUS
  <2>1. EntryOK([tag |-> e.tag, image |-> e.image])'
    BY <1>1, NamesInHands
  <2> QED BY <2>1 DEF EntryOK
<1>3. \A v \in Worker \ {w} : \A e \in entries'[v] : EntryOK(e)'
  BY <1>1 DEF Others, NameInv
<1>4. \A e \in index'.entries : EntryOK(e)'
  BY <1>1, NamesInIndex
<1> QED BY <1>2, <1>3, <1>4, NamesKept DEF NameInv

\* The holder of the lock, and the constructor, find both files whole or missing, as
\* long as nothing has failed.
LEMMA LockedSeesWhole ==
    ASSUME TypeOK, Control, Undisturbed, CoverInv, faults = 0,
           NEW w \in Worker, pc[w] \in WriteSteps \/ storageLock = w
    PROVE  /\ pc[w] # "closeIndex" => index.state # "torn" /\ LoadIndex = index.entries
           /\ pc[w] # "closeMeta" => meta.state # "torn" /\ LoadMeta = meta.tags
<1>1. \A v \in Worker \ {w} : pc[v] \notin WriteSteps
  BY WritesAlone
<1>2. /\ pc[w] # "closeIndex" => index.state # "torn"
      /\ pc[w] # "closeMeta" => meta.state # "torn"
  BY <1>1 DEF CoverInv, WriteSteps
<1>3. index.state \in FileState /\ meta.state \in FileState
  BY DEF TypeOK, FilesOK
<1> QED BY <1>2, <1>3 DEF FileState, LoadIndex, LoadMeta, CoverInv

LEMMA MetaExists ==
    ASSUME TypeOK, NEW w \in Worker, Begin(w) \/ Work(w), meta.state # "missing"
    PROVE  meta'.state # "missing"
BY FileSteps DEF OpenIndex, CloseIndex, OpenMeta, CloseMeta

\* A worker that is not making the step either has not got the lock, or nobody else
\* touches the files.
LEMMA OthersSave ==
    ASSUME TypeOK, Control, Undisturbed, NEW w \in Worker, Others(w), Begin(w) \/ Work(w),
           NEW v \in Worker \ {w}, ConstructorOK(v), SaveOK(v)
    PROVE  ConstructorOK(v)' /\ SaveOK(v)'
<1>1. /\ pc'[v] = pc[v] /\ op'[v] = op[v] /\ img'[v] = img[v] /\ tags'[v] = tags[v]
      /\ entries'[v] = entries[v] /\ outcome'[v] = outcome[v]
      /\ StoreTag(v)' = StoreTag(v) /\ (storageLock' = v <=> storageLock = v)
  BY DEF Others, StoreTag, Pulled
<1>m. meta.state # "missing" => meta'.state # "missing"
  BY MetaExists
<1>2. ConstructorOK(v)'
  BY <1>1, <1>m DEF ConstructorOK
<1>3. CASE UNCHANGED <<index, meta>>
  BY <1>1, <1>2, <1>3 DEF SaveOK, Covers, Holds
<1>4. CASE pc[w] \in WriteSteps
  <2>1. pc[v] \notin LockedSteps \cup WriteSteps
    BY <1>4, WritesAlone
  <2> QED BY <1>1, <1>2, <2>1 DEF SaveOK, LockedSteps, StoreSteps, WriteSteps
<1> QED
  BY <1>3, <1>4, FileSteps DEF OpenIndex, CloseIndex, OpenMeta, CloseMeta, WriteSteps

LEMMA EndsConstructor ==
    ASSUME WorkersOK, NEW w \in Worker, NEW how, meta'.state # "missing",
           Reply(w, how) \/ StoreEnds(w, how)
    PROVE  ConstructorOK(w)'
BY NamesAssumption
   DEF ConstructorOK, StoreEnds, Reply, Forget, Release, Goto, WorkersOK, WriteSteps, NoTags

LEMMA OwnConstructor ==
    ASSUME TypeOK, Control, NEW w \in Worker, ConstructorOK(w), Begin(w) \/ Work(w)
    PROVE  ConstructorOK(w)'
<1>c. LocksOK(w) /\ RequestOK(w)
  BY DEF Control
<1>m. meta.state # "missing" => meta'.state # "missing"
  BY MetaExists
<1> USE <1>c, <1>m, EndsConstructor
    DEF TypeOK, WorkersOK, Goto, files, locks, hands, ConstructorOK, WriteSteps
<1>1. CASE Begin(w)
  BY <1>1 DEF Begin, LocksOK, LockedSteps, StoreSteps
<1>2. CASE EnsureLayout(w)
  BY <1>2 DEF EnsureLayout, InitializeMeta, FirstStep, LocksOK, LockedSteps, StoreSteps
<1>3. CASE OpenIndex(w)
  BY <1>3 DEF OpenIndex
<1>4. CASE CloseIndex(w)
  BY <1>4 DEF CloseIndex, InitializeMeta, FirstStep
<1>5. CASE OpenMeta(w)
  BY <1>5 DEF OpenMeta
<1>6. CASE CloseMeta(w)
  BY <1>6 DEF CloseMeta, FirstStep
<1>7. CASE LockCache(w)
  BY <1>7 DEF LockCache
<1>8. CASE GetIndex(w)
  BY <1>8 DEF GetIndex
<1>9. CASE GetManifest(w)
  BY <1>9 DEF GetManifest, GetDescription
<1>10. CASE GetConfig(w)
  BY <1>10 DEF GetConfig, GetDescription
<1>11. CASE GetLayers(w)
  BY <1>11 DEF GetLayers
<1>12. CASE Pull(w)
  BY <1>12 DEF Pull
<1>13. CASE ExtractFails(w)
  BY <1>13 DEF ExtractFails
<1>14. CASE Execute(w)
  BY <1>14 DEF Execute
<1>15. CASE LockStorage(w)
  BY <1>15, KindsAssumption DEF LockStorage, RequestOK, Request, OpKinds
<1>16. CASE RefuseCaching(w)
  BY <1>16 DEF RefuseCaching
<1>17. CASE SkipLayer(w)
  BY <1>17 DEF SkipLayer
<1>18. CASE StoreRefused(w)
  BY <1>18 DEF StoreRefused
<1>19. CASE OpenBlob(w)
  BY <1>19 DEF OpenBlob
<1>20. CASE CloseBlob(w)
  BY <1>20 DEF CloseBlob
<1>21. CASE AddEntry(w)
  BY <1>21 DEF AddEntry, LocksOK, LockedSteps, StoreSteps
<1>22. CASE ReadMeta(w)
  BY <1>22 DEF ReadMeta, LocksOK, LockedSteps, StoreSteps
<1>23. CASE Drop(w)
  BY <1>23 DEF Drop, LocksOK, LockedSteps
<1>24. CASE DropEntry(w)
  BY <1>24 DEF DropEntry, LocksOK, LockedSteps
<1>25. CASE Clear(w)
  BY <1>25 DEF Clear, LocksOK, LockedSteps
<1>26. CASE Rmtree(w)
  BY <1>26 DEF Rmtree, LocksOK, LockedSteps
<1>27. CASE Relayout(w)
  BY <1>27 DEF Relayout, LocksOK, LockedSteps
<1>28. CASE List(w)
  BY <1>28 DEF List
<1>29. CASE Scan(w)
  BY <1>29 DEF Scan
<1>30. CASE Unlink(w)
  BY <1>30 DEF Unlink
<1> QED
  BY <1>1, <1>2, <1>3, <1>4, <1>5, <1>6, <1>7, <1>8, <1>9, <1>10, <1>11, <1>12, <1>13, <1>14, <1>15, <1>16, <1>17, <1>18, <1>19, <1>20, <1>21, <1>22, <1>23, <1>24, <1>25, <1>26, <1>27, <1>28, <1>29, <1>30 DEF Work

LEMMA EndsSave ==
    ASSUME WorkersOK, NEW w \in Worker, NEW how, how # "unreadable", SaveOK(w),
           Reply(w, how) \/ StoreEnds(w, how)
    PROVE  SaveOK(w)'
BY DEF SaveOK, StoreEnds, Reply, Goto, WorkersOK

LEMMA OwnSave ==
    ASSUME TypeOK, Control, Undisturbed, NameInv, CoverInv, RemovalInv, faults = 0,
           NEW w \in Worker, Begin(w) \/ Work(w)
    PROVE  SaveOK(w)'
<1>c. /\ RequestOK(w) /\ StepOK(w) /\ LocksOK(w) /\ ConstructorOK(w) /\ SaveOK(w)
      /\ RemovalOK(w) /\ Covers(index.entries, meta.tags)
      /\ index.state = "missing" => index.entries = {}
  BY DEF Control, CoverInv, RemovalInv
<1>l. pc[w] \in WriteSteps \/ storageLock = w =>
         /\ pc[w] # "closeIndex" => index.state # "torn" /\ LoadIndex = index.entries
         /\ pc[w] # "closeMeta" => meta.state # "torn" /\ LoadMeta = meta.tags
  BY LockedSeesWhole
<1>k. pc[w] \in LockedSteps => storageLock = w
  BY <1>c DEF LocksOK
<1>n. \A t \in Tag : NoTags[t] = NoImage
  BY DEF NoTags
<1>0. ASSUME InitializeMeta(w), storageLock # w, tags[w] = NoTags, UNCHANGED <<op, hands, outcome>>
      PROVE  SaveOK(w)'
  BY <1>0, <1>c, <1>n
     DEF InitializeMeta, FirstStep, Goto, hands, SaveOK, Covers, TypeOK, WorkersOK
<1> USE <1>c, EndsSave DEF TypeOK, WorkersOK, Goto, files, locks, hands
<1>1. CASE Begin(w)
  BY <1>1 DEF Begin, SaveOK
<1>2. CASE EnsureLayout(w)
  <2>1. storageLock # w /\ entries[w] = {} /\ tags[w] = NoTags
    BY <1>2 DEF EnsureLayout, LocksOK, LockedSteps, StoreSteps, WriteSteps, ConstructorOK
  <2>2. CASE index.state = "missing"
    BY <1>2, <2>1, <2>2 DEF EnsureLayout, SaveOK
  <2>3. CASE index.state # "missing"
    BY <1>0, <1>2, <2>1, <2>3 DEF EnsureLayout
  <2> QED BY <2>2, <2>3
<1>3. CASE OpenIndex(w)
  BY <1>3, <1>l, <1>k DEF OpenIndex, WriteSteps, SaveOK, Holds, Covers, StoreTag, Pulled
<1>4. CASE CloseIndex(w)
  <2>1. CASE storageLock = w /\ op[w].kind # "build"
    BY <1>4, <2>1 DEF CloseIndex
  <2>2. CASE storageLock = w /\ op[w].kind = "build"
    BY <1>4, <2>2 DEF CloseIndex, SaveOK, Holds, StoreTag, Pulled
  <2>3. CASE storageLock # w
    BY <1>0, <1>4, <2>3 DEF CloseIndex, ConstructorOK, WriteSteps
  <2> QED BY <2>1, <2>2, <2>3
<1>5. CASE OpenMeta(w)
  BY <1>5 DEF OpenMeta, SaveOK, Covers, Holds
<1>6. CASE CloseMeta(w)
  <2>0. CASE storageLock # w
    BY <1>6, <2>0 DEF CloseMeta, FirstStep, SaveOK
  <2>1. CASE storageLock = w /\ op[w].kind \in {"build", "delete"}
    BY <1>6, <2>1 DEF CloseMeta
  <2>2. CASE storageLock = w /\ op[w].kind = "remove"
    BY <1>6, <2>2 DEF CloseMeta, SaveOK, RemovalOK
  <2>3. CASE storageLock = w /\ op[w].kind = "purge"
    BY <1>6, <2>3 DEF CloseMeta, SaveOK
  <2> QED BY <1>6, <2>0, <2>1, <2>2, <2>3 DEF CloseMeta
<1>7. CASE LockCache(w)
  BY <1>7 DEF LockCache, SaveOK
<1>8. CASE GetIndex(w)
  BY <1>8 DEF GetIndex, SaveOK
<1>9. CASE GetManifest(w)
  BY <1>9 DEF GetManifest, GetDescription, SaveOK
<1>10. CASE GetConfig(w)
  BY <1>10 DEF GetConfig, GetDescription, SaveOK
<1>11. CASE GetLayers(w)
  BY <1>11 DEF GetLayers, SaveOK
<1>12. CASE Pull(w)
  BY <1>12 DEF Pull, SaveOK
<1>13. CASE ExtractFails(w)
  BY <1>13 DEF ExtractFails
<1>14. CASE Execute(w)
  BY <1>14 DEF Execute, SaveOK
<1>15. CASE LockStorage(w)
  BY <1>15, KindsAssumption DEF LockStorage, SaveOK, RequestOK, Request, OpKinds
<1>16. CASE RefuseCaching(w)
  BY <1>16 DEF RefuseCaching
<1>17. CASE SkipLayer(w)
  BY <1>17 DEF SkipLayer, SaveOK
<1>18. CASE StoreRefused(w)
  BY <1>18 DEF StoreRefused
<1>19. CASE OpenBlob(w)
  BY <1>19 DEF OpenBlob, SaveOK
<1>20. CASE CloseBlob(w)
  BY <1>20 DEF CloseBlob, SaveOK
<1>21. CASE AddEntry(w)
  <2>1. LoadIndex = index.entries /\ op[w].kind = "build" /\ pc[w] = "store"
    BY <1>21, <1>k, <1>l DEF AddEntry, LockedSteps, StoreSteps, StepOK
  <2>2. UNCHANGED <<index, meta, op, img, outcome, locks>> /\ StoreTag(w)' = StoreTag(w)
    BY <1>21 DEF AddEntry, StoreTag, Pulled
  <2>3. CASE Indexed(LoadIndex, img[w])
    <3>1. PICK e \in index.entries : e.image = img[w]
      BY <2>1, <2>3 DEF Indexed
    <3>2. EntryOK(e) /\ Storing(w) /\ OwnOK(w)
      BY <2>1 DEF NameInv, Storing, StoreSteps
    <3>3. e.tag = StoreTag(w) \/ Shared(img[w])
      <4>1. CASE Pulled(w)
        <5>1. StoreTag(w) \in Tag /\ img[w] \in Serves[StoreTag(w)] /\ img[w] \in Bases
          BY <3>2, <4>1 DEF OwnOK, StoreTag, Bases
        <5>2. e.tag \in Tag /\ img[w] \in Serves[e.tag]
          BY <3>1, <3>2, <5>1 DEF EntryOK
        <5> QED BY <5>1, <5>2 DEF Shared
      <4>2. CASE ~Pulled(w)
        BY <3>1, <3>2, <4>2 DEF EntryOK, StoreTag
      <4> QED BY <4>1, <4>2
    <3>4. Holds(index.entries, StoreTag(w), img[w]) \/ Shared(img[w])
      BY <3>1, <3>3 DEF Holds
    <3> QED BY <1>21, <2>2, <2>3, <3>4 DEF AddEntry, SaveOK, Holds
  <2>4. CASE ~Indexed(LoadIndex, img[w])
    <3> DEFINE new == WithEntry(LoadIndex, StoreTag(w), img[w])
    <3>1. entries'[w] = new /\ pc'[w] = "openIndex"
      BY <1>21, <2>4 DEF AddEntry
    <3>2. \A e \in index.entries : e \in new
      BY <2>1 DEF WithEntry
    <3>3. Holds(new, StoreTag(w), img[w])
      <4> DEFINE e == [tag |-> StoreTag(w), image |-> img[w],
                       ahead |-> {f.image : f \in LoadIndex}]
      <4>1. e \in new
        BY DEF WithEntry
      <4>2. e.tag = StoreTag(w) /\ e.image = img[w]
        OBVIOUS
      <4> HIDE DEF e, new
      <4> QED BY <4>1, <4>2 DEF Holds
    <3>4. Covers(new, meta.tags)
      BY <3>2 DEF Covers, Holds
    <3> HIDE DEF new
    <3> QED BY <2>1, <2>2, <3>1, <3>3, <3>4 DEF SaveOK, Covers, Holds
  <2> QED BY <2>3, <2>4
<1>22. CASE ReadMeta(w)
  <2>1. /\ LoadMeta = meta.tags
        /\ Holds(index.entries, StoreTag(w), img[w]) \/ Shared(img[w])
    BY <1>22, <1>k, <1>l DEF ReadMeta, LockedSteps, StoreSteps, SaveOK
  <2>2. Covers(index.entries, [LoadMeta EXCEPT ![StoreTag(w)] = img[w]])
    BY <2>1, LoadType DEF Covers, TagMap
  <2>3. /\ tags'[w] = [LoadMeta EXCEPT ![StoreTag(w)] = img[w]] /\ pc'[w] = "openMeta"
        /\ op'[w].kind = "build" /\ UNCHANGED <<index, outcome>>
    BY <1>22 DEF ReadMeta, StepOK, StoreSteps
  <2> QED BY <2>2, <2>3 DEF SaveOK, Covers, Holds
<1>23. CASE Drop(w)
  <2>1. CASE LoadMeta[op[w].tag] = NoImage
    BY <1>23, <2>1 DEF Drop
  <2>2. CASE LoadMeta[op[w].tag] # NoImage
    <3>1. LoadMeta = meta.tags
      BY <1>23, <1>k, <1>l DEF Drop, LockedSteps
    <3>2. Covers(index.entries, [LoadMeta EXCEPT ![op[w].tag] = NoImage])
      BY <3>1, LoadType DEF Covers, TagMap
    <3>3. /\ tags'[w] = [LoadMeta EXCEPT ![op[w].tag] = NoImage] /\ pc'[w] = "openMeta"
          /\ op'[w].kind # "purge" /\ UNCHANGED <<index, outcome>>
      BY <1>23, <2>2 DEF Drop, StepOK
    <3> QED BY <3>2, <3>3 DEF SaveOK, Covers, Holds
  <2> QED BY <2>1, <2>2
<1>24. CASE DropEntry(w)
  <2>1. CASE \E e \in LoadIndex : e.tag = op[w].tag
    <3> DEFINE new == WithoutTag(LoadIndex, op[w].tag)
    <3>1. /\ LoadIndex = index.entries /\ meta.tags[op[w].tag] = NoImage
          /\ op[w].kind = "remove"
      BY <1>24, <1>k, <1>l DEF DropEntry, LockedSteps, SaveOK, StepOK
    <3>2. \A e \in LoadIndex : e.tag # op[w].tag =>
             \E f \in new : f.tag = e.tag /\ f.image = e.image
      BY WithoutTagKeeps, LoadType
    <3>3. Covers(new, meta.tags)
      BY <3>1, <3>2 DEF Covers, Holds
    <3>4. /\ entries'[w] = new /\ pc'[w] = "openIndex"
          /\ UNCHANGED <<op, meta, outcome>>
      BY <1>24, <2>1 DEF DropEntry
    <3> HIDE DEF new
    <3> QED BY <3>1, <3>3, <3>4 DEF SaveOK, Covers, Holds
  <2>2. CASE ~\E e \in LoadIndex : e.tag = op[w].tag
    BY <1>24, <2>2 DEF DropEntry
  <2> QED BY <2>1, <2>2
<1>25. CASE Clear(w)
  BY <1>25 DEF Clear, SaveOK, Covers, NoTags
<1>26. CASE Rmtree(w)
  BY <1>26 DEF Rmtree, SaveOK
<1>27. CASE Relayout(w)
  BY <1>27 DEF Relayout, SaveOK, Covers, NoTags, StepOK
<1>28. CASE List(w)
  <2>1. meta.state \notin {"torn", "missing"} /\ meta.state \in FileState
    BY <1>28, <1>k, <1>l DEF List, LockedSteps, ConstructorOK, FilesOK
  <2> QED BY <1>28, <2>1 DEF List, FileState
<1>29. CASE Scan(w)
  BY <1>29 DEF Scan, SaveOK
<1>30. CASE Unlink(w)
  BY <1>30 DEF Unlink, SaveOK
<1> QED
  BY <1>1, <1>2, <1>3, <1>4, <1>5, <1>6, <1>7, <1>8, <1>9, <1>10, <1>11, <1>12, <1>13, <1>14, <1>15, <1>16, <1>17, <1>18, <1>19, <1>20, <1>21, <1>22, <1>23, <1>24, <1>25, <1>26, <1>27, <1>28, <1>29, <1>30 DEF Work

LEMMA NextCoverInv ==
    ASSUME TypeOK, Control, Undisturbed, NameInv, CoverInv, RemovalInv, NEW w \in Worker, Others(w),
           Begin(w) \/ Work(w), UNCHANGED faults
    PROVE  CoverInv'
<1> SUFFICES ASSUME faults = 0
             PROVE  CoverInv'
  BY DEF CoverInv
<1>s. SaveOK(w) /\ ConstructorOK(w)
  BY DEF CoverInv
<1>1. \A v \in Worker : ConstructorOK(v)' /\ SaveOK(v)'
  BY OwnSave, OwnConstructor, OthersSave DEF CoverInv
<1>2. \A v \in Worker \ {w} : pc'[v] = pc[v]
  BY DEF Others
<1>3. LoadIndex \in {index.entries, {}} /\ LoadMeta \in {meta.tags, NoTags}
  BY DEF LoadIndex, LoadMeta
<1>4. CASE UNCHANGED <<index, meta>> /\ pc[w] \notin {"closeIndex", "closeMeta"}
  BY <1>1, <1>2, <1>4 DEF CoverInv, Covers, Holds
<1>5. CASE OpenIndex(w)
  <2>1. LoadIndex = index.entries
    BY <1>5, LockedSeesWhole DEF OpenIndex, WriteSteps
  <2>2. pc'[w] = "closeIndex" /\ UNCHANGED meta
    BY <1>5 DEF OpenIndex, Goto, TypeOK, WorkersOK
  <2> QED BY <1>1, <1>2, <1>5, <2>1, <2>2 DEF OpenIndex, CoverInv, Covers, Holds
<1>6. CASE CloseIndex(w)
  BY <1>1, <1>2, <1>6, <1>s DEF CloseIndex, CoverInv, SaveOK, Covers, Holds
<1>7. CASE OpenMeta(w)
  <2>1. LoadMeta = meta.tags
    BY <1>7, LockedSeesWhole DEF OpenMeta, WriteSteps
  <2>2. pc'[w] = "closeMeta" /\ UNCHANGED index
    BY <1>7 DEF OpenMeta, Goto, TypeOK, WorkersOK
  <2> QED BY <1>1, <1>2, <1>7, <2>1, <2>2 DEF OpenMeta, CoverInv, Covers, Holds
<1>8. CASE CloseMeta(w)
  BY <1>1, <1>2, <1>8, <1>s DEF CloseMeta, CoverInv, SaveOK, Covers, Holds
<1> QED BY <1>4, <1>5, <1>6, <1>7, <1>8, FileSteps

\* ... and what a removal has done to the files stays done until it answers.
LEMMA OthersRemoval ==
    ASSUME Control, Undisturbed, NEW w \in Worker, Others(w), NEW v \in Worker \ {w}, RemovalOK(v),
           UNCHANGED <<index, meta>> \/ pc[w] \in WriteSteps
    PROVE  RemovalOK(v)'
<1>1. /\ pc'[v] = pc[v] /\ op'[v] = op[v] /\ tags'[v] = tags[v]
      /\ entries'[v] = entries[v] /\ outcome'[v] = outcome[v]
      /\ (storageLock' = v <=> storageLock = v)
  BY DEF Others
<1>2. CASE UNCHANGED <<index, meta>>
  BY <1>1, <1>2 DEF RemovalOK, LoadMeta
<1>3. CASE pc[w] \in WriteSteps
  <2>1. pc[v] \notin LockedSteps \cup WriteSteps
    BY <1>3, WritesAlone
  <2> QED BY <1>1, <2>1 DEF RemovalOK, LockedSteps, WriteSteps
<1> QED BY <1>2, <1>3

LEMMA EndsRemoval ==
    ASSUME WorkersOK, NEW w \in Worker, NEW how, RemovalOK(w), pc[w] # "idle",
           Reply(w, how) \/ StoreEnds(w, how)
    PROVE  RemovalOK(w)'
BY DEF RemovalOK, StoreEnds, Reply, Goto, WorkersOK, NoRequest

LEMMA OwnRemoval ==
    ASSUME TypeOK, Control, Undisturbed, RemovalInv,
           NEW w \in Worker, Begin(w) \/ Work(w) \/ IOFails(w)
    PROVE  RemovalOK(w)'
<1>c. RequestOK(w) /\ StepOK(w) /\ LocksOK(w) /\ RemovalOK(w)
  BY DEF Control, RemovalInv
<1> USE <1>c, EndsRemoval DEF TypeOK, WorkersOK, Goto, files, locks, hands
<1>1. CASE Begin(w)
  BY <1>1 DEF Begin, RemovalOK
<1>2. CASE EnsureLayout(w)
  BY <1>2
     DEF EnsureLayout, InitializeMeta, FirstStep, RemovalOK, LocksOK, LockedSteps, StoreSteps,
         WriteSteps
<1>3. CASE OpenIndex(w)
  BY <1>3 DEF OpenIndex, RemovalOK, LoadMeta
<1>4. CASE CloseIndex(w)
  BY <1>4 DEF CloseIndex, InitializeMeta, FirstStep, RemovalOK
<1>5. CASE OpenMeta(w)
  BY <1>5 DEF OpenMeta, RemovalOK
<1>6. CASE CloseMeta(w)
  <2>0. CASE storageLock # w
    BY <1>6, <2>0 DEF CloseMeta, RemovalOK
  <2>1. CASE storageLock = w /\ op[w].kind \in {"build", "delete"}
    BY <1>6, <2>1 DEF CloseMeta
  <2>2. CASE storageLock = w /\ op[w].kind = "remove"
    BY <1>6, <2>2 DEF CloseMeta, RemovalOK, LoadMeta
  <2>3. CASE storageLock = w /\ op[w].kind = "purge"
    BY <1>6, <2>3 DEF CloseMeta, RemovalOK
  <2> QED BY <1>6, <2>0, <2>1, <2>2, <2>3 DEF CloseMeta
<1>7. CASE LockCache(w)
  BY <1>7 DEF LockCache, RemovalOK
<1>8. CASE GetIndex(w)
  BY <1>8 DEF GetIndex, RemovalOK
<1>9. CASE GetManifest(w)
  BY <1>9 DEF GetManifest, GetDescription, RemovalOK
<1>10. CASE GetConfig(w)
  BY <1>10 DEF GetConfig, GetDescription, RemovalOK
<1>11. CASE GetLayers(w)
  BY <1>11 DEF GetLayers, RemovalOK
<1>12. CASE Pull(w)
  BY <1>12 DEF Pull, RemovalOK
<1>13. CASE ExtractFails(w)
  BY <1>13 DEF ExtractFails
<1>14. CASE Execute(w)
  BY <1>14 DEF Execute, RemovalOK
<1>15. CASE LockStorage(w)
  BY <1>15, KindsAssumption DEF LockStorage, RemovalOK, RequestOK, Request, OpKinds
<1>16. CASE RefuseCaching(w)
  BY <1>16 DEF RefuseCaching
<1>17. CASE SkipLayer(w)
  BY <1>17 DEF SkipLayer, RemovalOK
<1>18. CASE StoreRefused(w)
  BY <1>18 DEF StoreRefused
<1>19. CASE OpenBlob(w)
  BY <1>19 DEF OpenBlob, RemovalOK
<1>20. CASE CloseBlob(w)
  BY <1>20 DEF CloseBlob, RemovalOK
<1>21. CASE AddEntry(w)
  BY <1>21 DEF AddEntry, RemovalOK, StepOK, StoreSteps
<1>22. CASE ReadMeta(w)
  BY <1>22 DEF ReadMeta, RemovalOK, StepOK, StoreSteps
<1>23. CASE Drop(w)
  <2>1. CASE LoadMeta[op[w].tag] = NoImage
    BY <1>23, <2>1 DEF Drop
  <2>2. CASE LoadMeta[op[w].tag] # NoImage
    <3>1. op[w].tag \in Tag
      BY <1>23 DEF Drop, StepOK, RequestOK
    <3>2. [LoadMeta EXCEPT ![op[w].tag] = NoImage][op[w].tag] = NoImage
      BY <3>1, LoadType DEF TagMap
    <3>3. /\ tags'[w] = [LoadMeta EXCEPT ![op[w].tag] = NoImage] /\ pc'[w] = "openMeta"
          /\ UNCHANGED <<op, outcome>>
      BY <1>23, <2>2 DEF Drop
    <3> QED BY <1>23, <3>2, <3>3 DEF RemovalOK, Drop
  <2> QED BY <2>1, <2>2
<1>24. CASE DropEntry(w)
  <2>1. CASE \E e \in LoadIndex : e.tag = op[w].tag
    <3>1. \A e \in WithoutTag(LoadIndex, op[w].tag) : e.tag # op[w].tag
      BY WithoutTagNames, LoadType
    <3>2. /\ entries'[w] = WithoutTag(LoadIndex, op[w].tag) /\ pc'[w] = "openIndex"
          /\ UNCHANGED <<op, meta, outcome>>
      BY <1>24, <2>1 DEF DropEntry
    <3> QED BY <1>24, <3>1, <3>2 DEF RemovalOK, DropEntry, LoadMeta
  <2>2. CASE ~\E e \in LoadIndex : e.tag = op[w].tag
    BY <1>24, <2>2 DEF DropEntry
  <2> QED BY <2>1, <2>2
<1>25. CASE Clear(w)
  BY <1>25 DEF Clear, RemovalOK, StepOK
<1>26. CASE Rmtree(w)
  BY <1>26 DEF Rmtree, RemovalOK
<1>27. CASE Relayout(w)
  BY <1>27 DEF Relayout, RemovalOK, StepOK
<1>28. CASE List(w)
  BY <1>28 DEF List
<1>29. CASE Scan(w)
  BY <1>29 DEF Scan, RemovalOK
<1>30. CASE Unlink(w)
  BY <1>30 DEF Unlink, RemovalOK
<1>31. CASE IOFails(w)
  BY <1>31 DEF IOFails, FaultPoints
<1> QED
  BY <1>1, <1>2, <1>3, <1>4, <1>5, <1>6, <1>7, <1>8, <1>9, <1>10, <1>11, <1>12, <1>13, <1>14, <1>15, <1>16, <1>17, <1>18, <1>19, <1>20, <1>21, <1>22, <1>23, <1>24, <1>25, <1>26, <1>27, <1>28, <1>29, <1>30, <1>31 DEF Work

LEMMA NextRemovalInv ==
    ASSUME TypeOK, Control, Undisturbed, RemovalInv, NEW w \in Worker, Others(w),
           Begin(w) \/ Work(w) \/ IOFails(w)
    PROVE  RemovalInv'
<1>1. UNCHANGED <<index, meta>> \/ pc[w] \in WriteSteps
  BY FileSteps DEF OpenIndex, CloseIndex, OpenMeta, CloseMeta, IOFails, files, WriteSteps
<1> QED BY <1>1, OwnRemoval, OthersRemoval DEF RemovalInv

\* A removal answers "ok" on one of two ways out, and both files lack the tag then.
LEMMA RemovalStep ==
    ASSUME TypeOK, Control, Undisturbed, RemovalInv, NEW w \in Worker, Others(w),
           Begin(w) \/ Work(w) \/ IOFails(w), NEW v \in Worker,
           op[v].kind = "remove", pc[v] # "idle", outcome'[v] = "ok"
    PROVE  /\ LoadMeta'[op[v].tag] = NoImage
           /\ \A e \in LoadIndex' : e.tag # op[v].tag
<1>1. outcome[v] = "none" /\ v = w
  BY DEF RemovalInv, RemovalOK, Others
<1>2. RemovalOK(w) /\ LocksOK(w) /\ StepOK(w)
  BY DEF RemovalInv, Control
<1>3. outcome'[w] # outcome[w] => \/ CloseIndex(w) \/ DropEntry(w)
                                  \/ outcome'[w] # "ok"
  <2>1. ASSUME NEW how, Reply(w, how) \/ StoreEnds(w, how)
        PROVE  outcome'[w] \in {how, outcome[w]}
    BY <2>1 DEF Reply, StoreEnds, TypeOK, WorkersOK
  <2>2. op[w].kind = "remove" /\ storageLock = w => ~CloseMeta(w) \/ UNCHANGED outcome
    BY DEF CloseMeta
  <2> USE <2>1 DEF hands
  <2>3. CASE \/ Begin(w) \/ IOFails(w) \/ EnsureLayout(w) \/ LockCache(w) \/ GetIndex(w)
             \/ GetManifest(w) \/ GetConfig(w) \/ GetLayers(w) \/ Pull(w) \/ ExtractFails(w)
             \/ Execute(w) \/ LockStorage(w) \/ RefuseCaching(w)
    BY <1>1, <2>3 DEF Begin, IOFails, EnsureLayout, LockCache, GetIndex, GetManifest, GetConfig,
       GetDescription, GetLayers, Pull, ExtractFails, Execute, LockStorage, RefuseCaching
  <2>4. CASE \/ SkipLayer(w) \/ StoreRefused(w) \/ OpenBlob(w) \/ CloseBlob(w) \/ AddEntry(w)
             \/ ReadMeta(w) \/ Drop(w) \/ Clear(w) \/ Rmtree(w) \/ Relayout(w)
    BY <2>4 DEF SkipLayer, StoreRefused, OpenBlob, CloseBlob, AddEntry, ReadMeta, Drop,
       Clear, Rmtree, Relayout
  <2>5. CASE OpenIndex(w) \/ OpenMeta(w) \/ CloseMeta(w)
    BY <1>1, <2>2, <2>5 DEF OpenIndex, OpenMeta, CloseMeta
  <2>6. CASE List(w) \/ Scan(w) \/ Unlink(w)
    BY <1>1, <1>2, <2>6 DEF List, Scan, Unlink, StepOK
  <2> QED BY <2>3, <2>4, <2>5, <2>6 DEF Work
<1>4. CASE CloseIndex(w)
  <2>1. CASE storageLock = w
    BY <1>1, <1>2, <1>4, <2>1 DEF CloseIndex, RemovalOK, LoadIndex, LoadMeta
  <2>2. CASE storageLock # w
    BY <1>1, <1>4, <2>2 DEF CloseIndex
  <2> QED BY <2>1, <2>2
<1>5. CASE DropEntry(w)
  <2>1. CASE \E e \in LoadIndex : e.tag = op[w].tag
    BY <1>1, <1>5, <2>1 DEF DropEntry
  <2>2. CASE ~\E e \in LoadIndex : e.tag = op[w].tag
    BY <1>1, <1>2, <1>5, <2>2
       DEF DropEntry, RemovalOK, LocksOK, LockedSteps, StepOK, files, LoadIndex, LoadMeta
  <2> QED BY <2>1, <2>2
<1> QED BY <1>1, <1>3, <1>4, <1>5

LEMMA FaultKeeps ==
    ASSUME TypeOK, NameInv, RemovalInv, Crash
    PROVE  NameInv' /\ RemovalInv' /\ CoverInv'
<1>1. faults' # 0
  BY FaultsAssumption DEF Crash, TypeOK, FilesOK
<1>2. \A w \in Worker : ~Storing(w)' /\ pc'[w] = "idle" /\ entries'[w] = {} /\ op'[w] = NoRequest
  BY DEF Crash, Storing, StoreSteps, WriteSteps
<1>3. NameInv'
  BY <1>2 DEF NameInv, OwnOK, EntryOK, Crash, files, images
<1>4. RemovalInv'
  BY <1>2 DEF RemovalInv, RemovalOK, NoRequest
<1> QED BY <1>1, <1>3, <1>4 DEF CoverInv

LEMMA StutterKeeps ==
    ASSUME Undisturbed, NameInv, CoverInv, RemovalInv, UNCHANGED vars
    PROVE  Undisturbed' /\ NameInv' /\ CoverInv' /\ RemovalInv'
<1> USE DEF vars, files, locks, hands, images
<1>1. Undisturbed'
  BY DEF Undisturbed, Alone, MetaInv, WriterOK, Update, StoreTag, Pulled, ListedMap, LoadMeta
<1>2. NameInv'
  BY DEF NameInv, OwnOK, EntryOK, Storing, Pulled
<1>3. CoverInv'
  BY DEF CoverInv, ConstructorOK, SaveOK, Covers, Holds, StoreTag, Pulled
<1>4. RemovalInv'
  BY DEF RemovalInv, RemovalOK, LoadMeta
<1> QED BY <1>1, <1>2, <1>3, <1>4

LEMMA WorkKeepsFaults ==
    ASSUME NEW w \in Worker, Begin(w) \/ Work(w)
    PROVE  UNCHANGED faults
BY DEF Begin, Work, EnsureLayout, OpenIndex, CloseIndex, OpenMeta, CloseMeta, LockCache, GetIndex,
   GetManifest, GetConfig, GetDescription, GetLayers, Pull, ExtractFails, Execute, LockStorage,
   RefuseCaching, SkipLayer, StoreRefused, OpenBlob, CloseBlob, AddEntry, ReadMeta, Drop, DropEntry,
   Clear, Rmtree, Relayout, List, Scan, Unlink

\* All of it: the inductive invariant of the two files.
FilesInv == TypeOK /\ Control /\ Undisturbed /\ NameInv /\ CoverInv /\ RemovalInv

LEMMA StayUndisturbed ==
    ASSUME TypeOK, Control, Undisturbed, NEW w \in Worker, Begin(w) \/ Work(w) \/ IOFails(w)
    PROVE  Undisturbed'
<1>1. CASE Alone
  BY <1>1 DEF Undisturbed, Alone
<1>2. CASE MetaInv
  BY <1>2, WorkOthers, QuietSteps, QuietKeepsMap, OpenMetaStep, CloseMetaStep, ReadMetaStep,
     DropStep, ClearStep, IOFailsStep DEF Undisturbed
<1> QED BY <1>1, <1>2 DEF Undisturbed

LEMMA NextFilesInv ==
    ASSUME FilesInv, [Next]_vars
    PROVE  FilesInv'
<1> USE DEF FilesInv
<1>1. TypeOK' /\ Control'
  BY WorkTypeOK, WorkControl, CrashOK, StutterOK DEF Next
<1>2. ASSUME NEW w \in Worker, Begin(w) \/ Work(w)
      PROVE  FilesInv'
  <2>1. Others(w)
    BY <1>2, WorkOthers
  <2>2. Undisturbed'
    BY <1>2, StayUndisturbed
  <2>3. NameInv' /\ RemovalInv'
    BY <1>2, <2>1, NextNameInv, NextRemovalInv
  <2>4. UNCHANGED faults
    BY <1>2, WorkKeepsFaults
  <2>5. CoverInv'
    BY <1>2, <2>1, <2>4, NextCoverInv
  <2> QED BY <1>1, <2>2, <2>3, <2>5
<1>3. ASSUME NEW w \in Worker, IOFails(w)
      PROVE  FilesInv'
  <2>1. Others(w)
    BY <1>3, WorkOthers
  <2>2. Undisturbed' /\ NameInv' /\ RemovalInv'
    BY <1>3, <2>1, StayUndisturbed, NextNameInv, NextRemovalInv
  <2>3. faults' # 0
    BY <1>3, FaultsAssumption DEF IOFails, TypeOK, FilesOK
  <2> QED BY <1>1, <2>2, <2>3 DEF CoverInv
<1>4. CASE Crash
  <2>1. Undisturbed'
    BY <1>4, CrashStep DEF Undisturbed, Alone
  <2> QED BY <1>1, <1>4, <2>1, FaultKeeps
<1>5. CASE UNCHANGED vars
  BY <1>1, <1>5, StutterKeeps
<1> QED BY <1>2, <1>3, <1>4, <1>5 DEF Next

LEMMA InitFilesInv ==
    ASSUME Fresh = FALSE \/ Alone, Init
    PROVE  FilesInv
<1>1. CASE Fresh = FALSE
  <2>1. MetaInv
    BY <1>1, InitMetaInv, Zenon
  <2> QED BY <2>1, InitTypeOK, InitNaming DEF FilesInv, Undisturbed
<1>2. CASE Alone
  BY <1>2, InitTypeOK, InitNaming DEF FilesInv, Undisturbed
<1> QED BY <1>1, <1>2, Zenon

\* index.json and metadata.json, two files that are rewritten one after the other and
\* read by get_image (the first) and by `ls` (the second), agree whenever both can be
\* read and nothing has failed: every listed (tag, image) pair is indexed, unless the
\* registry serves the image under two tags.  It takes that add_manifest_to_index passes
\* over the digest of any other image only when it is indexed under the same tag, since
\* one build, or one tag of the registry, is where it comes from (NameInv), and that
\* storing updates the index first and removing updates it last.
THEOREM IndexFollowsListing ==
    ASSUME Fresh = FALSE \/ Alone
    PROVE  Spec => []IndexCoversListed
<1>1. FilesInv => IndexCoversListed
  BY DEF FilesInv, CoverInv, IndexCoversListed, Covered, Covers, Holds, LoadMeta, NoTags
<1> QED
  BY <1>1, InitFilesInv, NextFilesInv, PTL DEF Spec

\* list_local_images never meets a half-written metadata.json: only the holder of
\* storage_lock writes it, once the repository has been initialised.
THEOREM ListingAlwaysReadable ==
    ASSUME Fresh = FALSE \/ Alone
    PROVE  Spec => []ListingReadable
<1>1. FilesInv => ListingReadable
  <2> SUFFICES ASSUME FilesInv, faults = 0, NEW w \in Worker
               PROVE  outcome[w] # "unreadable"
    BY Zenon DEF ListingReadable
  <2>1. SaveOK(w)
    BY DEF FilesInv, CoverInv
  <2> QED BY <2>1 DEF SaveOK
<1> QED
  BY <1>1, InitFilesInv, NextFilesInv, PTL DEF Spec

\* A removal that answers "ok" has taken the tag out of both files, whatever crashed or
\* failed before: nobody else writes either of them between its two halves.
THEOREM RemovalIsComplete ==
    ASSUME Fresh = FALSE \/ Alone
    PROVE  Spec => RemoveTakesBoth
<1> DEFINE Taken(w) ==
      op[w].kind = "remove" /\ pc[w] # "idle" /\ outcome'[w] = "ok" =>
          /\ LoadMeta'[op[w].tag] = NoImage
          /\ \A e \in LoadIndex' : e.tag # op[w].tag
<1>1. FilesInv /\ [Next]_vars => [\A w \in Worker : Taken(w)]_vars
  <2> SUFFICES ASSUME FilesInv, Next, NEW v \in Worker
               PROVE  Taken(v)
    OBVIOUS
  <2>1. ASSUME NEW w \in Worker, Begin(w) \/ Work(w) \/ IOFails(w)
        PROVE  Taken(v)
    BY <2>1, WorkOthers, RemovalStep DEF FilesInv
  <2>2. CASE Crash
    BY <2>2 DEF Crash
  <2> QED BY <2>1, <2>2 DEF Next
<1> QED
  BY <1>1, InitFilesInv, NextFilesInv, PTL DEF Spec, RemoveTakesBoth


-------------------------------------------------------------------------------
(* Complete images, for one user.                                          *)

Complete(i) == \A b \in BlobsOf(i) : Settled(b)

\* From its first unlinked file until it has emptied the index.
Purging(w) ==
    /\ op[w].kind = "purge" /\ storageLock = w
    /\ pc[w] \in {"rmtree", "relayout", "openIndex", "closeIndex"}

\* A blob file is being written at "storing" only.
WritingOK(w) ==
    IF pc[w] = "storing" THEN cur[w] \in Blob /\ blobs[cur[w]] = "torn"
    ELSE cur[w] = NoBlob

\* The layers that a build has found in the repository are still there.
InheritedOK(w) ==
    /\ pc[w] = "idle" \/ op[w].kind # "build" => repo[w] = {}
    /\ \A j \in repo[w] : Settled(Layer(j))

\* What w has written, or has found in the index, is there ...
ReliesOK(w) ==
    /\ pc[w] \in {"store", "storing"} => \A b \in BlobsOf(img[w]) \ todo[w] : Settled(b)
    /\ pc[w] \in {"getManifest", "getConfig", "getLayers"} =>
          \E e \in index.entries : e.image = img[w]

\* ... it is to unlink nothing that the index needs, and to index what is complete.
PlansOK(w) ==
    /\ pc[w] = "unlink" => \A e \in index.entries : BlobsOf(e.image) \cap todo[w] = {}
    /\ pc[w] \in {"openIndex", "closeIndex"} => \A e \in entries[w] : Complete(e.image)

PiecesInv ==
    faults = 0 =>
        /\ \A w \in Worker : WritingOK(w) /\ InheritedOK(w) /\ ReliesOK(w) /\ PlansOK(w)
        /\ (\A w \in Worker : ~Purging(w)) => \A e \in index.entries : Complete(e.image)

LEMMA InitPieces ==
    ASSUME Init
    PROVE  PiecesInv
BY DEF Init, PiecesInv, WritingOK, InheritedOK, ReliesOK, PlansOK, Complete

\* Which steps lead to, and lead on from, the places at which pieces matter.
LEMMA Passages ==
    ASSUME TypeOK, Control, NEW w \in Worker, Begin(w) \/ Work(w)
    PROVE  /\ pc'[w] \in {"getManifest", "getConfig", "getLayers"} =>
                 GetIndex(w) \/ GetManifest(w) \/ GetConfig(w)
           /\ pc'[w] \in {"store", "storing"} =>
                 LockStorage(w) \/ SkipLayer(w) \/ OpenBlob(w) \/ CloseBlob(w)
           /\ pc'[w] = "unlink" => Scan(w) \/ Unlink(w)
           /\ pc'[w] \in {"openIndex", "closeIndex"} =>
                 EnsureLayout(w) \/ OpenIndex(w) \/ AddEntry(w) \/ DropEntry(w) \/ Relayout(w)
           /\ pc[w] \in {"rmtree", "relayout", "openIndex", "closeIndex"} =>
                 Rmtree(w) \/ Relayout(w) \/ OpenIndex(w) \/ CloseIndex(w)
           /\ pc'[w] = "readMeta" => AddEntry(w) \/ CloseIndex(w)
           /\ repo'[w] \subseteq repo[w] \/ GetLayers(w)
           /\ pc'[w] = "idle" => repo'[w] = {}
           /\ op'[w] = op[w] \/ pc'[w] = "idle" \/ Begin(w)
           /\ UNCHANGED layersOf \/ Execute(w)
<1>0. ASSUME NEW how, Reply(w, how) \/ StoreEnds(w, how)
      PROVE  /\ pc'[w] \in {"idle", "execute"} /\ repo'[w] = {}
             /\ op'[w] = op[w] \/ pc'[w] = "idle"
  BY <1>0 DEF Reply, StoreEnds, Forget, Goto, TypeOK, WorkersOK
<1>i. InitializeMeta(w) => pc'[w] \in {"openMeta", "wantStorage", "execute", "wantCache"}
  BY DEF InitializeMeta, FirstStep, Goto, TypeOK, WorkersOK
<1>r. RequestOK(w) /\ StepOK(w)
  BY DEF Control
<1> USE <1>0, <1>i DEF TypeOK, WorkersOK, Goto, files, locks, hands, images
<1>1. CASE Begin(w)
  BY <1>1 DEF Begin
<1>2. CASE EnsureLayout(w)
  BY <1>2 DEF EnsureLayout
<1>3. CASE OpenIndex(w)
  BY <1>3 DEF OpenIndex
<1>4. CASE CloseIndex(w)
  BY <1>4 DEF CloseIndex
<1>5. CASE OpenMeta(w)
  BY <1>5 DEF OpenMeta
<1>6. CASE CloseMeta(w)
  BY <1>6 DEF CloseMeta, FirstStep
<1>7. CASE LockCache(w)
  BY <1>7 DEF LockCache
<1>8. CASE GetIndex(w)
  BY <1>8 DEF GetIndex
<1>9. CASE GetManifest(w)
  BY <1>9 DEF GetManifest, GetDescription
<1>10. CASE GetConfig(w)
  BY <1>10 DEF GetConfig, GetDescription
<1>11. CASE GetLayers(w)
  BY <1>11 DEF GetLayers
<1>12. CASE Pull(w)
  BY <1>12 DEF Pull
<1>13. CASE ExtractFails(w)
  BY <1>13 DEF ExtractFails
<1>14. CASE Execute(w)
  BY <1>14 DEF Execute
<1>15. CASE LockStorage(w)
  BY <1>15, <1>r, KindsAssumption DEF LockStorage, RequestOK, Request, OpKinds
<1>16. CASE RefuseCaching(w)
  BY <1>16 DEF RefuseCaching
<1>17. CASE SkipLayer(w)
  BY <1>17 DEF SkipLayer
<1>18. CASE StoreRefused(w)
  BY <1>18 DEF StoreRefused
<1>19. CASE OpenBlob(w)
  BY <1>19 DEF OpenBlob
<1>20. CASE CloseBlob(w)
  BY <1>20 DEF CloseBlob
<1>21. CASE AddEntry(w)
  BY <1>21 DEF AddEntry
<1>22. CASE ReadMeta(w)
  BY <1>22 DEF ReadMeta
<1>23. CASE Drop(w)
  BY <1>23 DEF Drop
<1>24. CASE DropEntry(w)
  BY <1>24 DEF DropEntry
<1>25. CASE Clear(w)
  BY <1>25 DEF Clear
<1>26. CASE Rmtree(w)
  BY <1>26 DEF Rmtree
<1>27. CASE Relayout(w)
  BY <1>27 DEF Relayout
<1>28. CASE List(w)
  BY <1>28 DEF List
<1>29. CASE Scan(w)
  BY <1>29 DEF Scan
<1>30. CASE Unlink(w)
  BY <1>30 DEF Unlink
<1> QED
  BY <1>1, <1>2, <1>3, <1>4, <1>5, <1>6, <1>7, <1>8, <1>9, <1>10, <1>11, <1>12, <1>13, <1>14, <1>15, <1>16, <1>17, <1>18, <1>19, <1>20, <1>21, <1>22, <1>23, <1>24, <1>25, <1>26, <1>27, <1>28, <1>29, <1>30 DEF Work

\* The only steps that touch blob files, or the file a worker has open.
LEMMA BlobSteps ==
    ASSUME TypeOK, Control, NEW w \in Worker, WritingOK(w), Begin(w) \/ Work(w)
    PROVE  \/ OpenBlob(w) \/ CloseBlob(w) \/ Rmtree(w) \/ Unlink(w)
           \/ UNCHANGED <<blobs, cur>> /\ pc[w] # "storing" /\ pc'[w] # "storing"
<1>0. ASSUME NEW how, pc[w] # "storing", Reply(w, how) \/ StoreEnds(w, how)
      PROVE  UNCHANGED cur /\ pc'[w] # "storing"
  BY <1>0 DEF Reply, StoreEnds, Forget, Goto, TypeOK, WorkersOK, WritingOK
<1>i. InitializeMeta(w) => pc'[w] # "storing"
  BY DEF InitializeMeta, FirstStep, Goto, TypeOK, WorkersOK
<1> USE <1>0, <1>i DEF TypeOK, WorkersOK, Goto, files, hands
<1>1. CASE \/ Begin(w) \/ EnsureLayout(w) \/ LockCache(w) \/ GetIndex(w)
           \/ GetManifest(w) \/ GetConfig(w) \/ GetLayers(w) \/ Pull(w) \/ ExtractFails(w)
  BY <1>1 DEF Begin, EnsureLayout, LockCache, GetIndex, GetManifest, GetConfig,
     GetDescription, GetLayers, Pull, ExtractFails
<1>2. CASE Execute(w) \/ RefuseCaching(w) \/ SkipLayer(w) \/ StoreRefused(w)
  BY <1>2 DEF Execute, RefuseCaching, SkipLayer, StoreRefused
<1>3. CASE \/ AddEntry(w) \/ ReadMeta(w) \/ Drop(w) \/ DropEntry(w) \/ Clear(w) \/ Relayout(w)
           \/ List(w) \/ Scan(w)
  BY <1>3 DEF AddEntry, ReadMeta, Drop, DropEntry, Clear, Relayout, List, Scan
<1>4. CASE OpenIndex(w) \/ CloseIndex(w) \/ OpenMeta(w) \/ CloseMeta(w)
  BY <1>4 DEF OpenIndex, CloseIndex, OpenMeta, CloseMeta, FirstStep
<1>5. CASE LockStorage(w)
  BY <1>5, KindsAssumption DEF LockStorage, Control, RequestOK, Request, OpKinds
<1> QED BY <1>1, <1>2, <1>3, <1>4, <1>5 DEF Work

\* What is settled stays so, whoever else is at work, except where files are removed.
LEMMA SettledStays ==
    ASSUME TypeOK, Control, NEW w \in Worker, WritingOK(w), Begin(w) \/ Work(w),
           ~Rmtree(w), ~Unlink(w), NEW b \in Blob, Settled(b)
    PROVE  Settled(b)'
<1>1. \A v \in Worker \ {w} : cur'[v] = cur[v]
  BY WorkOthers DEF Others
<1>2. CASE UNCHANGED <<blobs, cur>>
  BY <1>2 DEF Settled
<1>3. CASE OpenBlob(w)
  <2>1. cur[w] = NoBlob /\ NoBlob # b
    BY <1>3 DEF OpenBlob, WritingOK, Blob, NoBlob
  <2> QED
    BY <1>1, <1>3, <2>1 DEF OpenBlob, Settled, TypeOK, FilesOK, WorkersOK
<1>4. CASE CloseBlob(w)
  BY <1>1, <1>4 DEF CloseBlob, Settled, WritingOK, TypeOK, FilesOK
<1> QED BY <1>2, <1>3, <1>4, BlobSteps

\* Where there is one user only.
LEMMA SettledAlone ==
    ASSUME Alone, NEW w \in Worker, NEW b
    PROVE  Settled(b) <=> blobs[b] = "whole" \/ cur[w] = b
BY DEF Alone, Settled

LEMMA SettledAloneNext ==
    ASSUME Alone, NEW w \in Worker, NEW b
    PROVE  Settled(b)' <=> blobs'[b] = "whole" \/ cur'[w] = b
BY DEF Alone, Settled

LEMMA CompleteStays ==
    ASSUME TypeOK, Control, NEW w \in Worker, WritingOK(w), Begin(w) \/ Work(w),
           ~Rmtree(w), ~Unlink(w), NEW i \in Image, i \in used, Complete(i)
    PROVE  Complete(i)'
<1>1. BlobsOf(i)' = BlobsOf(i)
  <2>1. CASE UNCHANGED layersOf
    BY <2>1 DEF BlobsOf
  <2>2. CASE Execute(w)
    <3>1. layersOf'[i] = layersOf[i]
      BY <2>2 DEF Execute, TypeOK, FilesOK, images
    <3> QED BY <3>1 DEF BlobsOf
  <2> QED BY <2>1, <2>2, Passages
<1> QED
  BY <1>1, BlobsOfType, SettledStays DEF Complete

\* What a worker writes and has written, found and planned, step by step.
LEMMA NextWriting ==
    ASSUME TypeOK, Control, NEW w \in Worker, WritingOK(w), Begin(w) \/ Work(w)
    PROVE  WritingOK(w)'
<1> USE DEF TypeOK, FilesOK, WorkersOK, Goto, WritingOK
<1>1. CASE UNCHANGED <<blobs, cur>> /\ pc[w] # "storing" /\ pc'[w] # "storing"
  BY <1>1
<1>2. CASE OpenBlob(w)
  <2>1. PICK b \in NextBlobs(todo[w]) : blobs' = [blobs EXCEPT ![b] = "torn"]
                                        /\ cur' = [cur EXCEPT ![w] = b]
    BY <1>2 DEF OpenBlob
  <2>2. b \in Blob
    BY <2>1, NextBlobsType
  <2> QED BY <1>2, <2>1, <2>2 DEF OpenBlob
<1>3. CASE CloseBlob(w)
  BY <1>3 DEF CloseBlob
<1>4. CASE Rmtree(w)
  BY <1>4 DEF Rmtree, hands
<1>5. CASE Unlink(w)
  BY <1>5 DEF Unlink, Reply, Forget
<1> QED BY <1>1, <1>2, <1>3, <1>4, <1>5, BlobSteps

LEMMA NextInherited ==
    ASSUME TypeOK, Control, Alone, NEW w \in Worker, Begin(w) \/ Work(w),
           WritingOK(w), InheritedOK(w), ReliesOK(w),
           ~Purging(w) => \A e \in index.entries : Complete(e.image)
    PROVE  InheritedOK(w)'
<1>c. StepOK(w) /\ LocksOK(w)
  BY DEF Control
<1>1. CASE GetLayers(w)
  <2>1. op[w].kind = "build" /\ img[w] \in Image
    BY <1>1, <1>c DEF GetLayers, StepOK, LocksOK, CacheSteps
  <2>2. PICK e \in index.entries : e.image = img[w]
    BY <1>1 DEF GetLayers, ReliesOK
  <2>3. Complete(img[w])
    BY <2>1, <2>2 DEF Purging
  <2>4. \A j \in layersOf[img[w]] : Layer(j) \in Blob /\ Settled(Layer(j))
    BY <2>1, <2>3 DEF Complete, BlobsOf, TypeOK, FilesOK, Layer, Blob
  <2>5. \A j \in layersOf[img[w]] : Settled(Layer(j))'
    BY <1>1, <2>4, SettledStays DEF GetLayers, Rmtree, Unlink
  <2>6. repo'[w] \in {{}, layersOf[img[w]]}
    BY <1>1 DEF GetLayers, Reply, Forget, TypeOK, WorkersOK
  <2>7. pc'[w] = "idle" \/ op'[w].kind # "build" => repo'[w] = {}
    BY <1>1, <2>1 DEF GetLayers, Reply, Forget, Goto, TypeOK, WorkersOK
  <2> QED BY <2>5, <2>6, <2>7 DEF InheritedOK
<1>2. CASE repo'[w] \subseteq repo[w]
  <2>1. pc'[w] = "idle" \/ op'[w].kind # "build" => repo'[w] = {}
    BY <1>2, Passages DEF InheritedOK, Begin
  <2>2. ASSUME NEW j \in repo'[w]
        PROVE  Settled(Layer(j))'
    <3>1. Settled(Layer(j)) /\ Layer(j) \in Blob
      BY <1>2, <2>2 DEF InheritedOK, TypeOK, WorkersOK, Layer, Blob
    <3>2. ~Rmtree(w) /\ ~Unlink(w)
      BY <1>2, <1>c, <2>2 DEF Rmtree, Unlink, StepOK, InheritedOK
    <3> QED BY <3>1, <3>2, SettledStays
  <2> QED BY <2>1, <2>2 DEF InheritedOK
<1> QED BY <1>1, <1>2, Passages

LEMMA NextRelies ==
    ASSUME TypeOK, Control, Alone, NEW w \in Worker, Begin(w) \/ Work(w),
           WritingOK(w), InheritedOK(w), ReliesOK(w)
    PROVE  ReliesOK(w)'
<1>c. StepOK(w) /\ LocksOK(w)
  BY DEF Control
<1>1. ASSUME pc'[w] \in {"getManifest", "getConfig", "getLayers"}
      PROVE  \E e \in index'.entries : e.image = img'[w]
  <2>1. CASE GetIndex(w)
    BY <1>1, <2>1 DEF GetIndex, IsFirstWithTag, LoadIndex, Goto, files, TypeOK, WorkersOK
  <2>2. CASE GetManifest(w) \/ GetConfig(w)
    BY <1>1, <2>2
       DEF GetManifest, GetConfig, GetDescription, Reply, Goto, files, hands, ReliesOK, TypeOK, WorkersOK
  <2> QED BY <1>1, <2>1, <2>2, Passages
<1>2. ASSUME pc'[w] \in {"store", "storing"}
      PROVE  \A b \in BlobsOf(img[w])' \ todo'[w] : Settled(b)'
  <2>1. CASE LockStorage(w)
    <3>1. op[w].kind = "build"
      BY <1>2, <2>1, KindsAssumption
         DEF LockStorage, Goto, Control, RequestOK, Request, OpKinds, TypeOK, WorkersOK
    <3> QED BY <2>1, <3>1 DEF LockStorage, images, BlobsOf, TypeOK, WorkersOK
  <2>2. CASE SkipLayer(w)
    <3>1. PICK b \in NextBlobs(todo[w]) : Inherited(w, b) /\ blobs[b] = "missing"
      BY <2>2 DEF SkipLayer
    <3>2. b \in Blob
      BY <3>1, NextBlobsType DEF TypeOK, WorkersOK
    <3>3. b = Layer(b[2]) /\ b # NoBlob
      BY <3>1, <3>2 DEF Blob, Layer, Inherited, NoBlob
    <3>4. Settled(b) /\ cur[w] = NoBlob
      BY <2>2, <3>1, <3>3 DEF SkipLayer, Inherited, InheritedOK, WritingOK
    <3> QED BY <3>1, <3>3, <3>4, SettledAlone
  <2>3. CASE OpenBlob(w) \/ CloseBlob(w)
    <3>1. /\ pc[w] \in StoreSteps /\ UNCHANGED <<img, layersOf>> /\ ~Rmtree(w) /\ ~Unlink(w)
          /\ \/ todo' = todo
             \/ /\ todo'[w] = todo[w] \ {cur[w]} /\ cur[w] \in Blob
                /\ blobs' = [blobs EXCEPT ![cur[w]] = "whole"]
      BY <2>3 DEF OpenBlob, CloseBlob, Rmtree, Unlink, StoreSteps, images, WritingOK, TypeOK, WorkersOK
    <3>2. img[w] \in Image
      BY <1>c, <3>1 DEF StepOK, LocksOK, LockedSteps
    <3>3. BlobsOf(img[w])' = BlobsOf(img[w]) /\ BlobsOf(img[w]) \in SUBSET Blob
      BY <3>1, <3>2, BlobsOfType DEF BlobsOf
    <3>4. ASSUME NEW b \in BlobsOf(img[w]) \ todo'[w]
          PROVE  Settled(b)'
      <4>1. CASE b \notin todo[w]
        <5>1. Settled(b)
          BY <2>3, <3>4, <4>1 DEF OpenBlob, CloseBlob, ReliesOK
        <5> QED BY <3>1, <3>3, <5>1, SettledStays
      <4>2. CASE b \in todo[w]
        BY <3>1, <3>4, <4>2, SettledAloneNext DEF TypeOK, FilesOK
      <4> QED BY <4>1, <4>2
    <3> QED BY <3>3, <3>4
  <2> QED BY <1>2, <2>1, <2>2, <2>3, Passages
<1> QED BY <1>1, <1>2 DEF ReliesOK

\* Every manifest can be read, so cleanup_orphaned_blobs finds all that the index needs.
LEMMA ReferencedAll ==
    ASSUME TypeOK, Alone, NEW w \in Worker, WritingOK(w), pc[w] # "storing",
           \A e \in index.entries : Complete(e.image),
           NEW e \in LoadIndex
    PROVE  BlobsOf(e.image) \subseteq Referenced
<1>1. Manifest(e.image) # NoBlob /\ Manifest(e.image) \in BlobsOf(e.image)
  BY DEF Manifest, NoBlob, BlobsOf
<1>2. Settled(Manifest(e.image))
  BY <1>1 DEF LoadIndex, Complete
<1>3. blobs[Manifest(e.image)] = "whole"
  BY <1>1, <1>2, SettledAlone DEF WritingOK
<1> QED BY <1>3 DEF Referenced

LEMMA NextPlans ==
    ASSUME TypeOK, Control, Alone, NameInv, CoverInv, faults = 0,
           NEW w \in Worker, Begin(w) \/ Work(w), WritingOK(w), ReliesOK(w), PlansOK(w),
           ~Purging(w) => \A e \in index.entries : Complete(e.image)
    PROVE  PlansOK(w)'
<1>c. StepOK(w) /\ LocksOK(w) /\ ConstructorOK(w)
  BY DEF Control, CoverInv
<1>u. Undisturbed
  BY DEF Undisturbed
<1>1. ASSUME pc'[w] = "unlink", NEW e \in index'.entries
      PROVE  (BlobsOf(e.image) \cap todo[w] = {})'
  <2>1. CASE Scan(w)
    <3>1. e \in LoadIndex /\ ~Purging(w) /\ pc[w] = "scan"
      <4>1. storageLock = w /\ pc[w] = "scan"
        BY <1>c, <2>1 DEF Scan, LocksOK, LockedSteps
      <4> QED BY <1>1, <1>u, <2>1, <4>1, LockedSeesWhole DEF Scan, files, Purging
    <3>2. BlobsOf(e.image) \subseteq Referenced
      BY <3>1, ReferencedAll
    <3> QED BY <2>1, <3>2 DEF Scan, images, BlobsOf, TypeOK, WorkersOK
  <2>2. CASE Unlink(w)
    BY <1>1, <2>2 DEF Unlink, Reply, Goto, PlansOK, images, BlobsOf, TypeOK, WorkersOK
  <2> QED BY <1>1, <2>1, <2>2, Passages
<1>2. ASSUME pc'[w] \in {"openIndex", "closeIndex"}, NEW e \in entries'[w]
      PROVE  Complete(e.image)'
  <2>0. ASSUME NEW f \in index.entries \cup entries[w], e.image = f.image, Complete(f.image),
               ~Rmtree(w), ~Unlink(w)
        PROVE  Complete(e.image)'
    <3>1. f.image \in Image /\ f.image \in used
      BY DEF NameInv, EntryOK, TypeOK, FilesOK, WorkersOK, Entry
    <3> QED BY <2>0, <3>1, CompleteStays
  <2>1. CASE EnsureLayout(w)
    <3>1. entries'[w] = {}
      BY <1>c, <2>1 DEF EnsureLayout, hands, ConstructorOK
    <3> QED BY <1>2, <3>1
  <2>2. CASE OpenIndex(w)
    BY <1>2, <2>0, <2>2 DEF OpenIndex, PlansOK, hands, Rmtree, Unlink
  <2>3. CASE AddEntry(w)
    <3>1. /\ op[w].kind = "build" /\ img[w] \in Image /\ ~Rmtree(w) /\ ~Unlink(w)
          /\ pc[w] = "store" /\ todo[w] = {}
      BY <1>c, <2>3 DEF AddEntry, Rmtree, Unlink, StepOK, LocksOK, StoreSteps, LockedSteps
    <3>2. e \in WithEntry(LoadIndex, StoreTag(w), img[w])
      BY <1>2, <2>3 DEF AddEntry, Goto, TypeOK, WorkersOK
    <3>3. CASE e \in LoadIndex
      BY <2>0, <3>1, <3>3 DEF LoadIndex, Purging
    <3>4. CASE e.image = img[w]
      <4>1. Complete(img[w])
        BY <3>1 DEF ReliesOK, Complete
      <4>2. img[w] \in used
        BY <3>1 DEF NameInv, OwnOK, Storing, StoreSteps
      <4> QED BY <3>1, <3>4, <4>1, <4>2, CompleteStays
    <3> QED BY <3>2, <3>3, <3>4, WithEntryNames
  <2>4. CASE DropEntry(w)
    <3>1. ~Purging(w) /\ ~Rmtree(w) /\ ~Unlink(w)
      BY <2>4 DEF DropEntry, Rmtree, Unlink, Purging
    <3>2. e \in WithoutTag(LoadIndex, op[w].tag)
      BY <1>2, <2>4 DEF DropEntry, Reply, Goto, TypeOK, WorkersOK
    <3>3. PICK f \in LoadIndex : e.image = f.image
      BY <3>2, LoadType, WithoutTagNames
    <3> QED BY <2>0, <3>1, <3>3 DEF LoadIndex
  <2>5. CASE Relayout(w)
    BY <1>2, <2>5 DEF Relayout, TypeOK, WorkersOK
  <2> QED BY <1>2, <2>1, <2>2, <2>3, <2>4, <2>5, Passages
<1> QED BY <1>1, <1>2 DEF PlansOK

\* The index mentions complete images only, until a purge takes files away and again
\* from when it has emptied the index.
LEMMA NextIndexed ==
    ASSUME TypeOK, Control, Alone, NameInv, NEW w \in Worker, Begin(w) \/ Work(w),
           WritingOK(w), PlansOK(w), ~Purging(w)',
           ~Purging(w) => \A e \in index.entries : Complete(e.image),
           NEW e \in index'.entries
    PROVE  Complete(e.image)'
<1>c. StepOK(w) /\ LocksOK(w)
  BY DEF Control
<1>0. ASSUME e \in index.entries \cup entries[w], Complete(e.image), ~Rmtree(w), ~Unlink(w)
      PROVE  Complete(e.image)'
  <2>1. e.image \in Image /\ e.image \in used
    BY <1>0 DEF NameInv, EntryOK, TypeOK, FilesOK, WorkersOK, Entry
  <2> QED BY <1>0, <2>1, CompleteStays
<1>1. CASE CloseIndex(w)
  BY <1>0, <1>1 DEF CloseIndex, PlansOK, Rmtree, Unlink
<1>2. CASE Rmtree(w) \/ Relayout(w)
  BY <1>2, <1>c DEF Rmtree, Relayout, Purging, StepOK, LocksOK, LockedSteps, locks, Goto, TypeOK, WorkersOK
<1>3. CASE OpenIndex(w)
  BY <1>0, <1>3 DEF OpenIndex, Purging, LoadIndex, Rmtree, Unlink, locks, Goto, TypeOK, WorkersOK
<1>4. CASE Unlink(w)
  <2>1. /\ e \in index.entries /\ Complete(e.image) /\ UNCHANGED layersOf
        /\ BlobsOf(e.image) \cap todo[w] = {} /\ pc[w] # "storing"
    BY <1>4 DEF Unlink, Purging, PlansOK, images
  <2>2. \A b \in BlobsOf(e.image) : blobs[b] = "whole" \/ cur[w] = b
    BY <2>1, SettledAlone DEF Complete
  <2>3. cur[w] = NoBlob /\ NoBlob \notin BlobsOf(e.image)
    BY <2>1 DEF WritingOK, NoBlob, BlobsOf, Layer, Config, Manifest
  <2>4. \A b \in BlobsOf(e.image) : blobs'[b] = "whole"
    <3>1. BlobsOf(e.image) \in SUBSET Blob
      BY <2>1, BlobsOfType DEF TypeOK, FilesOK, Entry
    <3>2. \A b \in BlobsOf(e.image) : blobs[b] = "whole" /\ b \notin todo[w]
      BY <2>1, <2>2, <2>3
    <3>3. blobs' = blobs \/ \E b \in todo[w] : blobs' = [blobs EXCEPT ![b] = "missing"]
      BY <1>4 DEF Unlink
    <3> QED BY <3>1, <3>2, <3>3 DEF TypeOK, FilesOK
  <2>5. BlobsOf(e.image)' = BlobsOf(e.image)
    BY <2>1 DEF BlobsOf
  <2> QED BY <2>4, <2>5, SettledAloneNext DEF Complete
<1>5. CASE UNCHANGED index /\ ~Rmtree(w) /\ ~Relayout(w) /\ ~OpenIndex(w) /\ ~CloseIndex(w) /\ ~Unlink(w)
  <2>1. ~Purging(w)
    BY <1>5, Passages DEF Purging
  <2> QED BY <1>0, <1>5, <2>1
<1> QED BY <1>1, <1>2, <1>3, <1>4, <1>5, FileSteps DEF OpenMeta, CloseMeta

LEMMA NextPieces ==
    ASSUME Alone, FilesInv, PiecesInv, [Next]_vars
    PROVE  PiecesInv'
<1>1. ASSUME NEW w \in Worker, Begin(w) \/ Work(w), faults' = 0
      PROVE  PiecesInv'
  <2>1. faults = 0
    BY <1>1, WorkKeepsFaults
  <2>2. /\ WritingOK(w) /\ InheritedOK(w) /\ ReliesOK(w) /\ PlansOK(w)
        /\ ~Purging(w) => \A e \in index.entries : Complete(e.image)
    BY <1>1, <2>1 DEF PiecesInv, Alone
  <2>3. WritingOK(w)' /\ InheritedOK(w)' /\ ReliesOK(w)' /\ PlansOK(w)'
    BY <1>1, <2>1, <2>2, NextWriting, NextInherited, NextRelies, NextPlans DEF FilesInv
  <2>4. ~Purging(w)' => \A e \in index'.entries : Complete(e.image)'
    BY <1>1, <2>2, NextIndexed DEF FilesInv
  <2>5. \A v \in Worker : v = w
    BY DEF Alone
  <2>6. \A v \in Worker : (WritingOK(v) /\ InheritedOK(v) /\ ReliesOK(v) /\ PlansOK(v))'
    BY <2>3, <2>5
  <2> QED BY <2>4, <2>6 DEF PiecesInv
<1>2. ASSUME NEW w \in Worker, Begin(w) \/ Work(w)
      PROVE  PiecesInv'
  BY <1>1, <1>2 DEF PiecesInv
<1>3. CASE Crash \/ \E w \in Worker : IOFails(w)
  BY <1>3, FaultsAssumption DEF Crash, IOFails, PiecesInv, FilesInv, TypeOK, FilesOK
<1>4. CASE UNCHANGED vars
  BY <1>4
     DEF vars, files, locks, hands, images, PiecesInv, WritingOK, InheritedOK, ReliesOK, PlansOK,
         Purging, Complete, Settled, BlobsOf
<1> QED BY <1>2, <1>3, <1>4 DEF Next

\* With one user, every image that the index mentions is complete down to the inherited
\* layers, outside of remove_all_images and as long as nothing fails: store_image indexes
\* what it has written, and cleanup_orphaned_blobs, which can read every manifest, deletes
\* nothing that the index needs.
THEOREM IndexedStayComplete ==
    ASSUME Alone
    PROVE  Spec => []IndexedImagesComplete
<1>1. FilesInv /\ PiecesInv => IndexedImagesComplete
  <2> SUFFICES ASSUME PiecesInv, faults = 0, \A w \in Worker : op[w].kind # "purge",
                      NEW e \in LoadIndex
               PROVE  Complete(e.image)
    BY DEF IndexedImagesComplete, Complete
  <2> QED BY DEF PiecesInv, Purging, LoadIndex
<1>2. Init => FilesInv /\ PiecesInv
  BY InitFilesInv, InitPieces
<1>3. FilesInv /\ PiecesInv /\ [Next]_vars => (FilesInv /\ PiecesInv)'
  BY NextFilesInv, NextPieces
<1> QED
  BY <1>1, <1>2, <1>3, PTL DEF Spec

\* ... and so is every image that `ls` lists, at every moment: a listed image is indexed,
\* unless the registry serves it under two tags, and remove_all_images has cleared the
\* listing before it takes the first file away.
THEOREM ListedStayComplete ==
    ASSUME Alone
    PROVE  Spec => []ListedImagesComplete
<1>1. ASSUME FilesInv, PiecesInv
      PROVE  ListedImagesComplete
  <2> SUFFICES ASSUME faults = 0, NEW t \in Tag, LoadMeta[t] # NoImage,
                      Shared(LoadMeta[t]) => Indexed(index.entries, LoadMeta[t]),
                      NEW j \in layersOf[LoadMeta[t]]
               PROVE  blobs[Layer(j)] # "missing"
    BY <1>1 DEF ListedImagesComplete, LayersPresent
  <2>1. LoadMeta[t] = meta.tags[t] /\ LoadMeta[t] \in Image
    BY <1>1, LoadType DEF FilesInv, LoadMeta, NoTags, TagMap
  <2>2. ASSUME NEW w \in Worker
        PROVE  ~Purging(w)
    <3>1. SaveOK(w)
      BY <1>1 DEF FilesInv, CoverInv
    <3>2. meta.tags # NoTags
      BY <2>1 DEF NoTags
    <3> QED BY <3>1, <3>2 DEF SaveOK, Purging
  <2>3. PICK e \in index.entries : e.image = LoadMeta[t]
    BY <1>1, <2>1 DEF FilesInv, CoverInv, Covers, Holds, Indexed
  <2>4. Settled(Layer(j))
    BY <1>1, <2>2, <2>3 DEF PiecesInv, Complete, BlobsOf
  <2> QED BY <1>1, <2>1, <2>4 DEF Settled, PiecesInv, WritingOK, Layer, NoBlob, Blob
<1>2. Init => FilesInv /\ PiecesInv
  BY InitFilesInv, InitPieces
<1>3. FilesInv /\ PiecesInv /\ [Next]_vars => (FilesInv /\ PiecesInv)'
  BY NextFilesInv, NextPieces
<1> QED
  BY <1>1, <1>2, <1>3, PTL DEF Spec


-------------------------------------------------------------------------------
(* What is listed keeps its layers, for any number of users that remove and *)
(* build but neither purge nor clean up.                                    *)

Present(j) == blobs[Layer(j)] # "missing"
Kept(i) == i \in used /\ \A j \in layersOf[i] : Present(j)

\* The layers of the image that w stores are there, or are still to be written: the
\* ones it inherits it has found in the repository, where they stay.
KeepsOK(w) ==
    /\ \A j \in repo[w] : Present(j)
    /\ \A t \in Tag : tags[w][t] # NoImage => Kept(tags[w][t])
    /\ op[w].kind = "build" /\ storageLock = w =>
          /\ pc[w] \in {"store", "storing"} =>
                \A j \in layersOf[img[w]] : Layer(j) \in todo[w] \/ Present(j)
          /\ pc[w] \in {"openIndex", "closeIndex", "readMeta"} =>
                \A j \in layersOf[img[w]] : Present(j)

KeptInv ==
    /\ \A t \in Tag : meta.tags[t] # NoImage => Kept(meta.tags[t])
    /\ \A w \in Worker : KeepsOK(w)

\* No request is a purge or a blob clean-up, the two that take blob files away.
NothingDeletes == Kinds \cap {"purge", "cleanup"} = {}

LEMMA InitKept ==
    ASSUME Init
    PROVE  KeptInv
BY DEF Init, KeptInv, KeepsOK, NoTags, NoRequest

LEMMA NobodyDeletes ==
    ASSUME NothingDeletes, Control, NEW w \in Worker
    PROVE  ~Rmtree(w) /\ ~Unlink(w)
BY DEF Rmtree, Unlink, Control, RequestOK, StepOK, Request, NothingDeletes

\* No file of the blob store goes away.
LEMMA PresentStays ==
    ASSUME NothingDeletes, TypeOK, Control, NEW w \in Worker, Begin(w) \/ Work(w) \/ IOFails(w),
           NEW j \in Image, Present(j)
    PROVE  Present(j)'
<1>1. ~Rmtree(w) /\ ~Unlink(w)
  BY NobodyDeletes
<1>2. CASE OpenBlob(w) \/ CloseBlob(w)
  <2>1. Layer(j) \in Blob
    BY DEF Layer, Blob
  <2>2. \E b : \E s \in {"torn", "whole"} : blobs' = [blobs EXCEPT ![b] = s]
    BY <1>2 DEF OpenBlob, CloseBlob
  <2>3. blobs'[Layer(j)] \in {blobs[Layer(j)], "torn", "whole"}
    BY <2>1, <2>2 DEF TypeOK, FilesOK
  <2> QED BY <2>3 DEF Present
<1>3. CASE ~OpenBlob(w) /\ ~CloseBlob(w)
  <2>1. UNCHANGED blobs
    BY <1>1, <1>3 DEF Begin, Work, IOFails, EnsureLayout, OpenIndex, CloseIndex, OpenMeta, CloseMeta,
       LockCache, GetIndex, GetManifest, GetConfig, GetDescription, GetLayers, Pull, ExtractFails,
       Execute, LockStorage, RefuseCaching, SkipLayer, StoreRefused, AddEntry, ReadMeta, Drop,
       DropEntry, Clear, Relayout, List, Scan, files
  <2> QED BY <2>1 DEF Present
<1> QED BY <1>2, <1>3

\* An image that exists keeps its list of layers.
LEMMA LayersStay ==
    ASSUME TypeOK, NEW w \in Worker, Begin(w) \/ Work(w) \/ IOFails(w), NEW i \in used
    PROVE  i \in used' /\ layersOf'[i] = layersOf[i]
<1>1. CASE Execute(w)
  BY <1>1 DEF Execute, images, TypeOK, FilesOK
<1>2. CASE ~Execute(w)
  BY <1>2 DEF Begin, Work, IOFails, EnsureLayout, OpenIndex, CloseIndex, OpenMeta, CloseMeta,
     LockCache, GetIndex, GetManifest, GetConfig, GetDescription, GetLayers, Pull, ExtractFails,
     LockStorage, RefuseCaching, SkipLayer, StoreRefused, OpenBlob, CloseBlob, AddEntry, ReadMeta,
     Drop, DropEntry, Clear, Rmtree, Relayout, List, Scan, Unlink, images
<1> QED BY <1>1, <1>2

LEMMA KeptStays ==
    ASSUME NothingDeletes, TypeOK, Control, NEW w \in Worker, Begin(w) \/ Work(w) \/ IOFails(w),
           NEW i, Kept(i)
    PROVE  Kept(i)'
<1>1. i \in used' /\ layersOf'[i] = layersOf[i] /\ layersOf[i] \subseteq Image
  BY LayersStay DEF Kept, TypeOK, FilesOK
<1> QED BY <1>1, PresentStays DEF Kept

LEMMA LoadKept ==
    ASSUME KeptInv, NEW t \in Tag, LoadMeta[t] # NoImage
    PROVE  Kept(LoadMeta[t])
BY DEF KeptInv, LoadMeta, NoTags

\* What w has in its hands comes from the file, or is the image it stores.
LEMMA TagsSteps ==
    ASSUME TypeOK, Control, NEW w \in Worker, Begin(w) \/ Work(w) \/ IOFails(w), NEW t \in Tag
    PROVE  \/ tags'[w][t] \in {NoImage, tags[w][t], LoadMeta[t]}
           \/ ReadMeta(w) /\ tags'[w][t] = img[w]
<1>1. ASSUME NEW how, Reply(w, how) \/ StoreEnds(w, how)
      PROVE  tags'[w][t] \in {NoImage, tags[w][t]}
  BY <1>1 DEF Reply, StoreEnds, Forget, NoTags, TypeOK, WorkersOK
<1> USE <1>1 DEF hands
<1>2. CASE \/ Begin(w) \/ IOFails(w) \/ EnsureLayout(w) \/ LockCache(w) \/ GetIndex(w)
           \/ GetManifest(w) \/ GetConfig(w) \/ GetLayers(w) \/ Pull(w) \/ ExtractFails(w)
           \/ Execute(w) \/ LockStorage(w) \/ RefuseCaching(w)
  BY <1>2 DEF Begin, IOFails, EnsureLayout, LockCache, GetIndex, GetManifest, GetConfig,
     GetDescription, GetLayers, Pull, ExtractFails, Execute, LockStorage, RefuseCaching
<1>3. CASE \/ SkipLayer(w) \/ StoreRefused(w) \/ OpenBlob(w) \/ CloseBlob(w) \/ AddEntry(w)
           \/ DropEntry(w) \/ Rmtree(w) \/ Relayout(w) \/ List(w) \/ Scan(w) \/ Unlink(w)
  BY <1>3 DEF SkipLayer, StoreRefused, OpenBlob, CloseBlob, AddEntry, DropEntry,
     Rmtree, Relayout, List, Scan, Unlink
<1>4. CASE OpenIndex(w) \/ CloseIndex(w) \/ OpenMeta(w) \/ CloseMeta(w)
  BY <1>4 DEF OpenIndex, CloseIndex, OpenMeta, CloseMeta
<1>5. CASE ReadMeta(w) \/ Drop(w) \/ Clear(w)
  <2>1. LoadMeta \in TagMap /\ tags \in [Worker -> TagMap]
    BY LoadType DEF TypeOK, WorkersOK
  <2> QED BY <1>5, <2>1 DEF ReadMeta, Drop, Clear, NoTags, TagMap
<1> QED BY <1>2, <1>3, <1>4, <1>5 DEF Work

LEMMA RepoSteps ==
    ASSUME TypeOK, Control, NEW w \in Worker, Begin(w) \/ Work(w) \/ IOFails(w)
    PROVE  repo'[w] \subseteq repo[w] \/ GetLayers(w)
<1>1. CASE IOFails(w)
  BY <1>1 DEF IOFails, StoreEnds, Reply, Forget, TypeOK, WorkersOK
<1> QED BY <1>1, Passages

\* What a build has found in the repository it does not pass over.
LEMMA NothingSkipped ==
    ASSUME TypeOK, NEW w \in Worker, KeepsOK(w)
    PROVE  ~SkipLayer(w)
<1> SUFFICES ASSUME SkipLayer(w)
             PROVE  FALSE
  OBVIOUS
<1>1. PICK b \in NextBlobs(todo[w]) : Inherited(w, b) /\ blobs[b] = "missing"
  BY DEF SkipLayer
<1>2. b \in Blob
  BY <1>1, NextBlobsType DEF TypeOK, WorkersOK
<1>3. b = Layer(b[2]) /\ b[2] \in repo[w]
  BY <1>1, <1>2 DEF Inherited, Layer, Blob
<1> QED BY <1>1, <1>3 DEF KeepsOK, Present

\* While w stores an image it stays the same image.
LEMMA OwnStoring ==
    ASSUME NothingDeletes, TypeOK, Control, NameInv, TypeOK', Control',
           NEW w \in Worker, Begin(w) \/ Work(w) \/ IOFails(w), KeepsOK(w),
           op'[w].kind = "build", storageLock' = w
    PROVE  /\ pc'[w] \in {"store", "storing"} =>
                 \A j \in layersOf'[img'[w]] : Layer(j) \in todo'[w] \/ Present(j)'
           /\ pc'[w] \in {"openIndex", "closeIndex", "readMeta"} =>
                 \A j \in layersOf'[img'[w]] : Present(j)'
<1>c. StepOK(w) /\ LocksOK(w) /\ OwnOK(w)
  BY DEF Control, NameInv
<1>i. \A j \in Image : Layer(j) \in Blob /\ (Present(j) => Present(j)')
  BY PresentStays DEF Layer, Blob
<1>k. Storing(w) => /\ img[w] \in Image /\ layersOf[img[w]] \subseteq Image
                    /\ layersOf'[img[w]] = layersOf[img[w]]
  BY <1>c, LayersStay DEF OwnOK, TypeOK, FilesOK
<1> USE DEF Goto, files, locks, hands, images
<1>1. CASE LockStorage(w)
  <2>1. op[w].kind = "build" /\ Storing(w) /\ img'[w] = img[w]
    BY <1>1 DEF LockStorage, Storing
  <2>2. pc'[w] = "store" /\ todo'[w] = BlobsOf(img[w])
    BY <1>1, <2>1 DEF LockStorage, TypeOK, WorkersOK
  <2> QED BY <1>k, <2>1, <2>2 DEF BlobsOf
<1>2. ~SkipLayer(w)
  BY NothingSkipped
<1>3. CASE OpenBlob(w) \/ CloseBlob(w)
  <2>1. pc[w] \in {"store", "storing"} /\ pc'[w] \in {"store", "storing"}
        /\ UNCHANGED <<op, img, storageLock>>
    BY <1>3 DEF OpenBlob, CloseBlob, TypeOK, WorkersOK
  <2>2. Storing(w)
    BY <2>1 DEF Storing, StoreSteps
  <2>3. ASSUME NEW j \in layersOf[img[w]]
        PROVE  Layer(j) \in todo'[w] \/ Present(j)'
    <3>1. j \in Image /\ (Layer(j) \in todo[w] \/ Present(j))
      BY <1>k, <2>1, <2>2 DEF KeepsOK
    <3>2. CASE Layer(j) \in todo[w] /\ Layer(j) \notin todo'[w]
      <4>1. CloseBlob(w) /\ cur[w] = Layer(j)
        BY <1>3, <3>2 DEF OpenBlob, CloseBlob, TypeOK, WorkersOK
      <4> QED BY <1>i, <3>1, <4>1 DEF CloseBlob, Present, TypeOK, FilesOK
    <3> QED BY <1>i, <3>1, <3>2
  <2> QED BY <1>k, <2>1, <2>2, <2>3
<1>4. CASE AddEntry(w) \/ OpenIndex(w) \/ CloseIndex(w)
  <2>1. /\ UNCHANGED <<img, blobs>> /\ pc'[w] \notin {"store", "storing"}
        /\ op[w].kind = "build" /\ storageLock = w
    BY <1>4, <1>c DEF AddEntry, OpenIndex, CloseIndex, InitializeMeta, FirstStep, Reply, NoRequest,
       StepOK, LocksOK, StoreSteps, LockedSteps, TypeOK, WorkersOK
  <2>2. Storing(w)
    BY <1>4, <2>1 DEF AddEntry, OpenIndex, CloseIndex, Storing, StoreSteps, WriteSteps
  <2>3. \A j \in layersOf[img[w]] : Present(j)
    BY <1>4, <2>1 DEF AddEntry, OpenIndex, CloseIndex, KeepsOK
  <2> QED BY <1>k, <2>1, <2>2, <2>3 DEF Present
<1>5. ~EnsureLayout(w) /\ ~DropEntry(w) /\ ~Relayout(w)
  BY <1>c DEF EnsureLayout, DropEntry, Relayout, Reply, NoRequest, StepOK, LocksOK, LockedSteps,
     StoreSteps, WriteSteps, TypeOK, WorkersOK
<1>6. CASE IOFails(w)
  <2>1. pc'[w] \in {"idle", "execute"}
    BY <1>6, StoreEndsAt DEF IOFails, TypeOK
  <2> QED BY <2>1
<1> QED BY <1>1, <1>2, <1>3, <1>4, <1>5, <1>6, Passages

\* The worker's own step.
LEMMA OwnKept ==
    ASSUME NothingDeletes, TypeOK, Control, NameInv, KeptInv, TypeOK', Control',
           NEW w \in Worker, Begin(w) \/ Work(w) \/ IOFails(w)
    PROVE  KeepsOK(w)'
<1>c. StepOK(w) /\ LocksOK(w) /\ KeepsOK(w) /\ OwnOK(w)
  BY DEF Control, KeptInv, NameInv
<1>1. ASSUME NEW j \in repo'[w]
      PROVE  Present(j)'
  <2>1. j \in Image
    BY DEF TypeOK, WorkersOK
  <2>2. Present(j)
    <3>1. CASE GetLayers(w)
      BY <1>c, <3>1 DEF GetLayers, Reply, Forget, KeepsOK, Present, TypeOK, WorkersOK
    <3> QED BY <1>c, <3>1, RepoSteps DEF KeepsOK
  <2> QED BY <2>1, <2>2, PresentStays
<1>2. ASSUME NEW t \in Tag, tags'[w][t] # NoImage
      PROVE  Kept(tags[w][t])'
  <2>1. PICK i : i = tags'[w][t]
    OBVIOUS
  <2>2. ASSUME ReadMeta(w), i = img[w]
      PROVE  Kept(i)
    <3>1. op[w].kind = "build" /\ storageLock = w /\ Storing(w)
      BY <1>c, <2>2 DEF ReadMeta, StepOK, LocksOK, StoreSteps, LockedSteps, Storing
    <3> QED BY <1>c, <2>2, <3>1 DEF ReadMeta, KeepsOK, OwnOK, Kept
  <2>3. ASSUME i \in {NoImage, tags[w][t], LoadMeta[t]}
      PROVE  Kept(i)
    BY <1>2, <1>c, <2>1, <2>3, LoadKept DEF KeepsOK
  <2>4. Kept(i)
    BY <2>1, <2>2, <2>3, TagsSteps
  <2> QED BY <2>1, <2>4, KeptStays DEF Kept
<1>3. ASSUME op'[w].kind = "build", storageLock' = w
      PROVE  /\ pc'[w] \in {"store", "storing"} =>
                   \A j \in layersOf'[img'[w]] : Layer(j) \in todo'[w] \/ Present(j)'
             /\ pc'[w] \in {"openIndex", "closeIndex", "readMeta"} =>
                   \A j \in layersOf'[img'[w]] : Present(j)'
  BY <1>c, <1>3, OwnStoring
<1> QED BY <1>1, <1>2, <1>3 DEF KeepsOK
\* Everybody else's image and layers.
LEMMA OthersKept ==
    ASSUME NothingDeletes, TypeOK, Control, NameInv, KeptInv,
           NEW w \in Worker, Begin(w) \/ Work(w) \/ IOFails(w), Others(w), NEW v \in Worker \ {w}
    PROVE  KeepsOK(v)'
<1>1. /\ pc'[v] = pc[v] /\ op'[v] = op[v] /\ img'[v] = img[v] /\ tags'[v] = tags[v]
      /\ todo'[v] = todo[v] /\ repo'[v] = repo[v] /\ (storageLock' = v <=> storageLock = v)
  BY DEF Others
<1>2. KeepsOK(v) /\ OwnOK(v)
  BY DEF KeptInv, NameInv
<1>3. \A j \in repo[v] : Present(j)'
  BY <1>2, PresentStays DEF KeepsOK, TypeOK, WorkersOK
<1>4. ASSUME NEW t \in Tag, tags[v][t] # NoImage
      PROVE  Kept(tags[v][t])'
  <2>1. PICK i : i = tags[v][t]
    OBVIOUS
  <2>2. Kept(i)'
    BY <1>2, <1>4, <2>1, KeptStays DEF KeepsOK
  <2> QED BY <1>1, <2>1, <2>2 DEF Kept
<1>5. ASSUME op[v].kind = "build", storageLock = v,
             pc[v] \in {"store", "storing", "openIndex", "closeIndex", "readMeta"}
      PROVE  /\ layersOf'[img[v]] = layersOf[img[v]]
             /\ \A j \in layersOf[img[v]] : Present(j) => Present(j)'
  <2>1. img[v] \in used
    BY <1>2, <1>5 DEF OwnOK, Storing, StoreSteps, WriteSteps
  <2>2. layersOf[img[v]] \subseteq Image
    BY <2>1 DEF TypeOK, FilesOK
  <2> QED BY <2>1, <2>2, LayersStay, PresentStays
<1> QED BY <1>1, <1>2, <1>3, <1>4, <1>5 DEF KeepsOK

\* metadata.json is written from a worker's hands.
LEMMA FileKept ==
    ASSUME NothingDeletes, TypeOK, Control, KeptInv,
           NEW w \in Worker, Begin(w) \/ Work(w) \/ IOFails(w),
           NEW t \in Tag, meta'.tags[t] # NoImage
    PROVE  Kept(meta.tags[t])'
<1>1. meta'.tags \in {meta.tags, LoadMeta, tags[w]}
  BY FileSteps DEF OpenIndex, CloseIndex, OpenMeta, CloseMeta, IOFails, files
<1>2. PICK i : i = meta'.tags[t]
  OBVIOUS
<1>3. Kept(i)
  BY <1>1, <1>2, LoadKept DEF KeptInv, KeepsOK
<1> QED BY <1>2, <1>3, KeptStays DEF Kept

LEMMA NextKept ==
    ASSUME NothingDeletes, TypeOK, Control, NameInv, KeptInv, TypeOK', Control', [Next]_vars
    PROVE  KeptInv'
<1>1. ASSUME NEW w \in Worker, Begin(w) \/ Work(w) \/ IOFails(w)
      PROVE  KeptInv'
  <2>1. Others(w)
    BY <1>1, WorkOthers
  <2>2. \A v \in Worker : KeepsOK(v)'
    BY <1>1, <2>1, OwnKept, OthersKept
  <2> QED BY <1>1, <2>2, FileKept DEF KeptInv
<1>2. CASE Crash
  BY <1>2 DEF Crash, KeptInv, KeepsOK, Kept, Present, NoTags, NoRequest, files, images
<1>3. CASE UNCHANGED vars
  BY <1>3 DEF vars, files, locks, hands, images, KeptInv, KeepsOK, Kept, Present
<1> QED BY <1>1, <1>2, <1>3 DEF Next

\* Names stay in order whatever state the repository is found in.
LEMMA NextNames ==
    ASSUME TypeOK, Control, NameInv, [Next]_vars
    PROVE  NameInv'
<1>1. ASSUME NEW w \in Worker, Begin(w) \/ Work(w) \/ IOFails(w)
      PROVE  NameInv'
  BY <1>1, WorkOthers, NextNameInv
<1>2. CASE Crash
  BY <1>2 DEF Crash, NameInv, OwnOK, EntryOK, Storing, StoreSteps, WriteSteps, files, images
<1>3. CASE UNCHANGED vars
  BY <1>3 DEF vars, files, locks, hands, images, NameInv, OwnOK, EntryOK, Storing, Pulled
<1> QED BY <1>1, <1>2, <1>3 DEF Next

\* Any number of threads that build, remove, delete and list at once never leave an
\* image in metadata.json without one of its layers, whatever crashes and fails and
\* whether or not the repository existed: store_image, which passes over a layer file it
\* does not find, never does so, because get_image has seen the file and remove_image
\* leaves the blobs alone.
THEOREM ListedKeepLayers ==
    ASSUME NothingDeletes
    PROVE  Spec => [](NoListedImageLosesLayers /\ ListedImagesComplete)
<1>1. KeptInv => NoListedImageLosesLayers /\ ListedImagesComplete
  BY LoadKept DEF NoListedImageLosesLayers, ListedImagesComplete, LayersPresent, Kept, Present
<1>2. Init => TypeOK /\ Control /\ NameInv /\ KeptInv
  BY InitTypeOK, InitNaming, InitKept
<1>3. TypeOK /\ Control /\ NameInv /\ KeptInv /\ [Next]_vars
         => (TypeOK /\ Control /\ NameInv /\ KeptInv)'
  <2>1. TypeOK /\ Control /\ [Next]_vars => TypeOK' /\ Control'
    BY WorkTypeOK, WorkControl, CrashOK, StutterOK DEF Next
  <2> QED BY <2>1, NextNames, NextKept
<1> QED
  BY <1>1, <1>2, <1>3, PTL DEF Spec

-------------------------------------------------------------------------------
(* ... and what is indexed is complete, as long as nothing fails.           *)

\* The blobs of the image that w stores are in order, or still to be written, and w is
\* to index nothing that is not complete.
WholeOK(w) ==
    /\ WritingOK(w)
    /\ \A e \in entries[w] : Complete(e.image)
    /\ op[w].kind = "build" /\ storageLock = w /\ pc[w] \in {"store", "storing"} =>
          \A b \in BlobsOf(img[w]) : b \in todo[w] \/ Settled(b)

WholeInv ==
    faults = 0 =>
        /\ \A e \in index.entries : Complete(e.image)
        /\ \A w \in Worker : WholeOK(w)

LEMMA InitWhole ==
    ASSUME Init
    PROVE  WholeInv
BY DEF Init, WholeInv, WholeOK, WritingOK, Complete, NoRequest

\* The blobs of the image w stores, after a step of w.
LEMMA OwnPieces ==
    ASSUME NothingDeletes, TypeOK, Control, NameInv, Control',
           NEW w \in Worker, Begin(w) \/ Work(w), KeepsOK(w), WholeOK(w),
           op'[w].kind = "build", storageLock' = w, pc'[w] \in {"store", "storing"}
    PROVE  \A b \in BlobsOf(img[w])' : b \in todo'[w] \/ Settled(b)'
<1>c. StepOK(w) /\ LocksOK(w) /\ OwnOK(w)
  BY DEF Control, NameInv
<1>1. CASE LockStorage(w)
  <2>1. op[w].kind = "build" /\ img'[w] = img[w] /\ todo'[w] = BlobsOf(img[w])
        /\ layersOf' = layersOf
    BY <1>1 DEF LockStorage, TypeOK, WorkersOK, images
  <2> QED BY <2>1 DEF BlobsOf
<1>2. CASE SkipLayer(w)
  BY <1>2, NothingSkipped
<1>3. CASE OpenBlob(w) \/ CloseBlob(w)
  <2>1. /\ pc[w] \in {"store", "storing"} /\ UNCHANGED <<op, img, storageLock, layersOf>>
        /\ todo'[w] = todo[w] \/ (CloseBlob(w) /\ todo'[w] = todo[w] \ {cur[w]})
    <3>1. CASE OpenBlob(w)
      BY <3>1 DEF OpenBlob, locks, images
    <3>2. CASE CloseBlob(w)
      BY <3>2 DEF CloseBlob, TypeOK, WorkersOK, locks, images
    <3> QED BY <1>3, <3>1, <3>2
  <2>2. img[w] \in Image
    BY <1>c, <2>1 DEF OwnOK, Storing, StoreSteps, TypeOK, FilesOK
  <2>3. BlobsOf(img[w])' = BlobsOf(img[w]) /\ BlobsOf(img[w]) \subseteq Blob
    BY <2>1, <2>2, BlobsOfType DEF BlobsOf
  <2>4. ASSUME NEW b \in BlobsOf(img[w])
        PROVE  b \in todo'[w] \/ Settled(b)'
    <3>1. CASE Settled(b)
      BY <2>3, <3>1, SettledStays, NobodyDeletes DEF WholeOK
    <3>2. CASE CloseBlob(w) /\ b = cur[w]
      BY <2>3, <3>2 DEF CloseBlob, Settled, TypeOK, FilesOK
    <3>3. b \in todo[w] \/ Settled(b)
      BY <2>1 DEF WholeOK
    <3> QED BY <2>1, <3>1, <3>2, <3>3
  <2> QED BY <2>3, <2>4
<1> QED BY <1>1, <1>2, <1>3, Passages

LEMMA OwnWhole ==
    ASSUME NothingDeletes, TypeOK, Control, NameInv, Control',
           NEW w \in Worker, Begin(w) \/ Work(w), KeepsOK(w), WholeOK(w),
           \A e \in index.entries : Complete(e.image)
    PROVE  WholeOK(w)'
<1>1. WritingOK(w)'
  BY NextWriting DEF WholeOK
<1>2. ASSUME NEW e \in entries'[w]
      PROVE  Complete(e.image)'
  <2>1. \A i \in used : Complete(i) => Complete(i)'
    BY CompleteStays, NobodyDeletes DEF WholeOK, TypeOK, FilesOK
  <2>2. \A f \in LoadIndex \cup entries[w] : f.image \in used /\ Complete(f.image)
    BY DEF LoadIndex, WholeOK, NameInv, EntryOK
  <2>3. CASE AddEntry(w)
    <3>1. op[w].kind = "build" /\ storageLock = w /\ Storing(w) /\ todo[w] = {}
      BY <2>3 DEF AddEntry, Control, StepOK, LocksOK, StoreSteps, LockedSteps, Storing
    <3>2. img[w] \in used /\ Complete(img[w])
      BY <2>3, <3>1 DEF AddEntry, WholeOK, Complete, NameInv, OwnOK
    <3>3. e \in entries[w] \/ e \in WithEntry(LoadIndex, StoreTag(w), img[w])
      BY <2>3 DEF AddEntry, TypeOK, WorkersOK
    <3> QED BY <2>1, <2>2, <3>2, <3>3, WithEntryNames
  <2>4. CASE DropEntry(w)
    <3>1. e \in entries[w] \/ e \in WithoutTag(LoadIndex, op[w].tag)
      BY <2>4 DEF DropEntry, Reply, Forget, TypeOK, WorkersOK
    <3> QED BY <2>1, <2>2, <3>1, LoadType, WithoutTagNames
  <2> QED BY <2>1, <2>2, <2>3, <2>4, EntriesSteps
<1> QED BY <1>1, <1>2, OwnPieces DEF WholeOK

\* Nobody else has a blob file open while w opens or closes one.
LEMMA OthersWhole ==
    ASSUME NothingDeletes, TypeOK, Control, NameInv, NEW w \in Worker,
           Begin(w) \/ Work(w), Others(w), WritingOK(w), NEW v \in Worker \ {w}, WholeOK(v)
    PROVE  WholeOK(v)'
<1>1. /\ pc'[v] = pc[v] /\ op'[v] = op[v] /\ img'[v] = img[v] /\ cur'[v] = cur[v]
      /\ todo'[v] = todo[v] /\ entries'[v] = entries[v]
      /\ (storageLock' = v <=> storageLock = v)
  BY DEF Others
<1>2. \A b \in Blob : Settled(b) => Settled(b)'
  BY SettledStays, NobodyDeletes
<1>3. WritingOK(v)'
  <2>1. CASE pc[v] = "storing"
    <3>1. storageLock = v /\ storageLock # w
      BY <2>1 DEF Control, LocksOK, LockedSteps, StoreSteps
    <3>2. ~OpenBlob(w) /\ ~CloseBlob(w)
      BY <3>1 DEF OpenBlob, CloseBlob, Control, LocksOK, LockedSteps, StoreSteps
    <3> QED BY <1>1, <2>1, <3>2, BlobSteps, NobodyDeletes DEF WritingOK, WholeOK
  <2>2. CASE pc[v] # "storing"
    BY <1>1, <2>2 DEF WritingOK, WholeOK
  <2> QED BY <2>1, <2>2
<1>4. ASSUME NEW e \in entries[v]
      PROVE  Complete(e.image)'
  <2>1. e.image \in used /\ Complete(e.image)
    BY DEF NameInv, EntryOK, WholeOK
  <2> QED BY <2>1, CompleteStays, NobodyDeletes DEF TypeOK, FilesOK
<1>5. ASSUME op[v].kind = "build", storageLock = v, pc[v] \in {"store", "storing"}
      PROVE  \A b \in BlobsOf(img[v])' : b \in todo[v] \/ Settled(b)'
  <2>1. img[v] \in used
    BY <1>5 DEF NameInv, OwnOK, Storing, StoreSteps
  <2>2. BlobsOf(img[v])' = BlobsOf(img[v]) /\ BlobsOf(img[v]) \subseteq Blob
    BY <1>1, <2>1, LayersStay, BlobsOfType DEF BlobsOf, TypeOK, FilesOK
  <2> QED BY <1>2, <1>5, <2>2 DEF WholeOK
<1> QED BY <1>1, <1>3, <1>4, <1>5 DEF WholeOK

LEMMA NextWhole ==
    ASSUME NothingDeletes, TypeOK, Control, NameInv, KeptInv, WholeInv, Control', [Next]_vars
    PROVE  WholeInv'
<1>1. ASSUME NEW w \in Worker, Begin(w) \/ Work(w), faults' = 0
      PROVE  WholeInv'
  <2>1. /\ \A e \in index.entries : Complete(e.image)
        /\ \A v \in Worker : WholeOK(v)
    BY <1>1, WorkKeepsFaults DEF WholeInv
  <2>2. Others(w) /\ KeepsOK(w)
    BY <1>1, WorkOthers DEF KeptInv
  <2>3. \A v \in Worker : WholeOK(v)'
    BY <1>1, <2>1, <2>2, OwnWhole, OthersWhole DEF WholeOK
  <2>4. ASSUME NEW e \in index'.entries
        PROVE  Complete(e.image)'
    <3>1. e \in index.entries \cup entries[w]
      BY <1>1, FileSteps DEF OpenIndex, CloseIndex, OpenMeta, CloseMeta, LoadIndex
    <3>2. e.image \in used /\ Complete(e.image)
      BY <2>1, <3>1 DEF WholeOK, NameInv, EntryOK
    <3> QED BY <1>1, <2>1, <3>2, CompleteStays, NobodyDeletes DEF WholeOK, TypeOK, FilesOK
  <2> QED BY <2>3, <2>4 DEF WholeInv
<1>2. ASSUME NEW w \in Worker, Begin(w) \/ Work(w)
      PROVE  WholeInv'
  BY <1>1, <1>2 DEF WholeInv
<1>3. CASE Crash \/ \E w \in Worker : IOFails(w)
  BY <1>3, FaultsAssumption DEF Crash, IOFails, WholeInv, TypeOK, FilesOK
<1>4. CASE UNCHANGED vars
  BY <1>4
     DEF vars, files, locks, hands, images, WholeInv, WholeOK, WritingOK, Complete, Settled, BlobsOf
<1> QED BY <1>2, <1>3, <1>4 DEF Next

\* Until something fails, they also keep every image that index.json mentions complete:
\* store_image indexes what it has written, and each of its blobs stays whole or is being
\* written again by a thread that stores an image which shares it.
THEOREM IndexedKeepBlobs ==
    ASSUME NothingDeletes
    PROVE  Spec => []IndexedImagesComplete
<1>1. WholeInv => IndexedImagesComplete
  BY DEF WholeInv, IndexedImagesComplete, Complete, LoadIndex
<1>2. Init => TypeOK /\ Control /\ NameInv /\ KeptInv /\ WholeInv
  BY InitTypeOK, InitNaming, InitKept, InitWhole
<1>3. TypeOK /\ Control /\ NameInv /\ KeptInv /\ WholeInv /\ [Next]_vars
         => (TypeOK /\ Control /\ NameInv /\ KeptInv /\ WholeInv)'
  <2>1. TypeOK /\ Control /\ [Next]_vars => TypeOK' /\ Control'
    BY WorkTypeOK, WorkControl, CrashOK, StutterOK DEF Next
  <2> QED BY <2>1, NextNames, NextKept, NextWhole
<1> QED
  BY <1>1, <1>2, <1>3, PTL DEF Spec

===============================================================================
