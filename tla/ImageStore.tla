------------------------------ MODULE ImageStore ------------------------------
(***************************************************************************)
(* The local image repository (storage/manager.py on top of oci/layout.py) *)
(* as the worker threads of the daemon use it (daemon/handlers.py): three  *)
(* kinds of file, each overwritten in place,                               *)
(*    blobs/sha256/<digest>   manifests, configs and layers,               *)
(*    index.json              the list of (tag, manifest digest),          *)
(*    metadata.json           the map from tag to image that is listed.    *)
(*                                                                         *)
(* An image is named by the digest of its manifest.  Its own layer, config *)
(* and manifest are three blobs; the layers it inherits from its base      *)
(* image are the base's blobs.  A write is two steps, because open(.., 'w')*)
(* truncates the file and the content follows: in between, and for ever if *)
(* the process dies in between, the file is "torn".                        *)
(***************************************************************************)
EXTENDS Naturals

CONSTANTS
    Worker,     \* threads of the daemon's pool (one, for a direct execution)
    Tag, Image,
    Serves,     \* Serves[t]: the images the registry may serve under tag t
    NoTag, NoImage, NoWorker,
    Kinds,      \* the operations requested in this instance
    Fresh,      \* the repository directory does not exist yet
    MaxFaults   \* bound: crashes and failed writes of a behaviour

OpKinds == {"build", "remove", "purge", "list", "delete", "cleanup"}

ASSUME NamesAssumption ==
    /\ Serves \in [Tag -> SUBSET Image]
    /\ NoTag \notin Tag /\ NoImage \notin Image /\ NoWorker \notin Worker
ASSUME KindsAssumption == Kinds \subseteq OpKinds
ASSUME FreshAssumption == Fresh \in BOOLEAN
ASSUME FaultsAssumption == MaxFaults \in Nat

VARIABLES
    blobs,        \* blobs[b]: state of the blob file b
    blobsDir,     \* the directory blobs/sha256 exists
    index,        \* index.json: its state, and the entries it holds (if whole) or
                  \* held before it was opened for writing (if torn)
    meta,         \* metadata.json: likewise with the map from tags to images
    storageLock,  \* holder of the daemon's storage_lock
    cacheLock,    \* holder of the daemon's base_image_cache_lock
    pc,           \* pc[w]: where worker w is in its request
    op,           \* op[w]: the request
    img,          \* img[w]: the image being looked up or stored
    repo,         \* repo[w]: inherited layers whose content_path is the blob itself
    todo,         \* todo[w]: blob files still to be written, or unlinked
    cur,          \* cur[w]: the blob file open for writing
    entries,      \* entries[w]: the index object in w's hands
    tags,         \* tags[w]: the metadata dict in w's hands
    outcome,      \* outcome[w]: how w's last request ended
    layersOf,     \* layersOf[i]: the layers of image i, in terms of whose own they are
    used,         \* images that exist somewhere: the digest is taken
    faults        \* faults so far

files == <<blobs, blobsDir, index, meta>>
locks == <<storageLock, cacheLock>>
images == <<layersOf, used>>
hands == <<img, repo, todo, cur, entries, tags>>
vars == <<files, locks, pc, op, hands, outcome, images, faults>>

-------------------------------------------------------------------------------
(* Data.                                                                   *)

FileState == {"missing", "torn", "whole"}
Blob == {"layer", "config", "manifest"} \X Image
NoBlob == <<"none", NoImage>>
TagMap == [Tag -> Image \cup {NoImage}]
NoTags == [t \in Tag |-> NoImage]

\* The images of the registry; two references may name the same one.
Bases == UNION {Serves[t] : t \in Tag}
Shared(i) == \E s, t \in Tag : s # t /\ i \in Serves[s] \cap Serves[t]

Request == [kind : Kinds, tag : Tag \cup {NoTag}, from : Tag \cup {NoTag}]
NoRequest == [kind |-> "none", tag |-> NoTag, from |-> NoTag]

\* An entry of index.json.  The digests of the index are distinct, so the order
\* of its list is kept as the images ahead of each entry.
Entry == [tag : Tag, image : Image, ahead : SUBSET Image]

Layer(i) == <<"layer", i>>
Config(i) == <<"config", i>>
Manifest(i) == <<"manifest", i>>
BlobsOf(i) == {Layer(j) : j \in layersOf[i]} \cup {Config(i), Manifest(i)}

\* load_index: a missing and an unparseable index both read as "no entries".
LoadIndex == IF index.state = "whole" THEN index.entries ELSE {}

\* _load_metadata: likewise an empty dict.
LoadMeta == IF meta.state = "whole" THEN meta.tags ELSE NoTags

\* get_manifest_by_tag: e is the first entry of the list that carries the tag.
IsFirstWithTag(ix, t, e) ==
    /\ e \in ix /\ e.tag = t
    /\ \A f \in ix : f.tag = t => f.image \notin e.ahead

\* add_manifest_to_index appends an entry, unless the digest is indexed already.
Indexed(ix, i) == \E e \in ix : e.image = i
WithEntry(ix, t, i) ==
    ix \cup {[tag |-> t, image |-> i, ahead |-> {e.image : e \in ix}]}

\* (mutant) stops at the first entry of the tag.
WithoutFirst(ix, t) ==
    LET gone == {e.image : e \in {f \in ix : IsFirstWithTag(ix, t, f)}}
    IN {[e EXCEPT !.ahead = @ \ gone] : e \in {f \in ix : f.image \notin gone}}

\* remove_manifest_from_index keeps the entries of the other tags, in order.
WithoutTag(ix, t) ==
    LET gone == {e.image : e \in {f \in ix : f.tag = t}}
    IN {[e EXCEPT !.ahead = @ \ gone] : e \in {f \in ix : f.tag # t}}

\* (mutants) forgets the config, or the inherited layers.
ReferencedNoConfig == UNION {BlobsOf(e.image) \ {Config(e.image)} : e \in LoadIndex}
ReferencedOwnLayer ==
    UNION {{Layer(e.image), Config(e.image), Manifest(e.image)} : e \in LoadIndex}

\* cleanup_orphaned_blobs: the digests reachable from the index.  A manifest that
\* cannot be read (get_manifest returns None) contributes its own digest only.
Referenced ==
    UNION {IF blobs[Manifest(e.image)] = "whole" THEN BlobsOf(e.image)
           ELSE {Manifest(e.image)} : e \in LoadIndex}

-------------------------------------------------------------------------------
(* A worker's progress.                                                    *)

Goto(w, p) == pc' = [pc EXCEPT ![w] = p]

\* The locals go out of scope when a request ends.
Forget(w) ==
    /\ img' = [img EXCEPT ![w] = NoImage]
    /\ repo' = [repo EXCEPT ![w] = {}]
    /\ todo' = [todo EXCEPT ![w] = {}]
    /\ cur' = [cur EXCEPT ![w] = NoBlob]
    /\ entries' = [entries EXCEPT ![w] = {}]
    /\ tags' = [tags EXCEPT ![w] = NoTags]

\* Every `with lock:` block releases its lock on the way out, however it ends.
Release(w) ==
    /\ storageLock' = IF storageLock = w THEN NoWorker ELSE storageLock
    /\ cacheLock' = IF cacheLock = w THEN NoWorker ELSE cacheLock

\* The request ends and the client is answered.
Reply(w, how) ==
    /\ Goto(w, "idle")
    /\ op' = [op EXCEPT ![w] = NoRequest]
    /\ outcome' = [outcome EXCEPT ![w] = how]
    /\ Forget(w)
    /\ Release(w)

\* The store in progress is that of a base image just pulled (inside
\* pull_base_image, under base_image_cache_lock), not of the image built.
Pulled(w) == cacheLock = w

\* (mutant) every store goes under the tag of the base image.
StoreTagOfBase(w) == op[w].from

\* The tag the store in progress is for.
StoreTag(w) == IF Pulled(w) THEN op[w].from ELSE op[w].tag

\* What store_image raises is the caller's failure, but pull_base_image only
\* warns when it could not cache the image it has downloaded.
StoreEnds(w, how) ==
    IF Pulled(w)
    THEN /\ Release(w)
         /\ Goto(w, "execute")
         /\ repo' = [repo EXCEPT ![w] = {}]
         /\ todo' = [todo EXCEPT ![w] = {}]
         /\ cur' = [cur EXCEPT ![w] = NoBlob]
         /\ entries' = [entries EXCEPT ![w] = {}]
         /\ tags' = [tags EXCEPT ![w] = NoTags]
         /\ UNCHANGED <<op, outcome, img>>
    ELSE Reply(w, how)

\* (mutant) the list handler does not take storage_lock.
FirstStepListUnlocked(w) ==
    CASE op[w].kind = "list" -> "list"
      [] op[w].kind \notin {"build", "list"} -> "wantStorage"
      [] op[w].kind = "build" /\ op[w].from = NoTag -> "execute"
      [] OTHER -> "wantCache"

\* The lock the request needs first: a build with a base image starts in
\* pull_base_image, one without goes straight to its instructions, every other
\* request is one locked call of the repository.
FirstStep(w) ==
    IF op[w].kind # "build" THEN "wantStorage"
    ELSE IF op[w].from = NoTag THEN "execute" ELSE "wantCache"

\* _initialize_repository, once there is an index: an empty metadata file is
\* written unless there is one, and the constructor is done.
InitializeMeta(w) == Goto(w, IF meta.state = "missing" THEN "openMeta" ELSE FirstStep(w))

-------------------------------------------------------------------------------
(* The handler starts: ImageManager(), outside every lock.                 *)

Begin(w) ==
    /\ pc[w] = "idle"
    /\ \E r \in Request :
         /\ (r.tag = NoTag) <=> (r.kind \in {"purge", "list", "cleanup"})
         /\ r.from # NoTag => r.kind = "build"
         /\ op' = [op EXCEPT ![w] = r]
    /\ outcome' = [outcome EXCEPT ![w] = "none"]
    /\ Goto(w, "layout")
    /\ UNCHANGED <<files, locks, hands, images, faults>>

\* create_layout: directories, then an empty index unless there is an index.
EnsureLayout(w) ==
    /\ pc[w] = "layout"
    /\ blobsDir' = TRUE
    /\ IF index.state = "missing" THEN Goto(w, "openIndex") ELSE InitializeMeta(w)
    /\ UNCHANGED <<blobs, index, meta, locks, op, hands, outcome, images, faults>>

-------------------------------------------------------------------------------
(* Overwriting index.json and metadata.json with the object in w's hands.  *)

OpenIndex(w) ==
    /\ pc[w] = "openIndex"
    /\ index' = [state |-> "torn", entries |-> LoadIndex]
    /\ Goto(w, "closeIndex")
    /\ UNCHANGED <<blobs, blobsDir, meta, locks, op, hands, outcome, images, faults>>

\* What follows is the rest of the constructor, the metadata of the image being
\* stored, or the end of the request.
CloseIndex(w) ==
    /\ pc[w] = "closeIndex"
    /\ index' = [state |-> "whole", entries |-> entries[w]]
    /\ IF storageLock = w /\ op[w].kind # "build"
       THEN Reply(w, "ok")
       ELSE /\ IF storageLock = w THEN Goto(w, "readMeta") ELSE InitializeMeta(w)
            /\ UNCHANGED <<locks, op, hands, outcome>>
    /\ UNCHANGED <<blobs, blobsDir, meta, images, faults>>

OpenMeta(w) ==
    /\ pc[w] = "openMeta"
    /\ meta' = [state |-> "torn", tags |-> LoadMeta]
    /\ Goto(w, "closeMeta")
    /\ UNCHANGED <<blobs, blobsDir, index, locks, op, hands, outcome, images, faults>>

\* What follows is the request's first step, the end of store_image or of
\* delete_image, or the second half of remove_image or of remove_all_images.
CloseMeta(w) ==
    /\ pc[w] = "closeMeta"
    /\ meta' = [state |-> "whole", tags |-> tags[w]]
    /\ \/ /\ storageLock # w
          /\ Goto(w, FirstStep(w))
          /\ UNCHANGED <<locks, op, hands, outcome>>
       \/ /\ storageLock = w /\ op[w].kind \in {"build", "delete"}
          /\ StoreEnds(w, "ok")
       \/ /\ storageLock = w /\ op[w].kind \in {"remove", "purge"}
          /\ Goto(w, IF op[w].kind = "remove" THEN "dropEntry" ELSE "rmtree")
          /\ UNCHANGED <<locks, op, hands, outcome>>
    /\ UNCHANGED <<blobs, blobsDir, index, images, faults>>

-------------------------------------------------------------------------------
(* pull_base_image, under base_image_cache_lock; its get_image reads the    *)
(* repository without storage_lock.                                         *)

\* (mutant) get_image is to read the repository under storage_lock, too.
LockCacheAndStorage(w) ==
    /\ pc[w] = "wantCache"
    /\ cacheLock = NoWorker /\ storageLock = NoWorker
    /\ cacheLock' = w /\ storageLock' = w
    /\ Goto(w, "getIndex")
    /\ UNCHANGED <<files, op, hands, outcome, images, faults>>

LockCache(w) ==
    /\ pc[w] = "wantCache"
    /\ cacheLock = NoWorker
    /\ cacheLock' = w
    /\ Goto(w, "getIndex")
    /\ UNCHANGED <<files, storageLock, op, hands, outcome, images, faults>>

\* get_manifest_by_tag finds the tag, or get_image returns None.
GetIndex(w) ==
    /\ pc[w] = "getIndex"
    /\ \/ \E e \in LoadIndex :
            /\ IsFirstWithTag(LoadIndex, op[w].from, e)
            /\ img' = [img EXCEPT ![w] = e.image]
            /\ Goto(w, "getManifest")
       \/ /\ \A e \in LoadIndex : e.tag # op[w].from
          /\ Goto(w, "pull")
          /\ UNCHANGED img
    /\ UNCHANGED <<files, locks, op, repo, todo, cur, entries, tags, outcome, images, faults>>

\* get_manifest and get_config: None, hence an error, unless the blob parses.
GetDescription(w, at, b, next) ==
    /\ pc[w] = at
    /\ IF blobs[b] = "whole"
       THEN Goto(w, next) /\ UNCHANGED <<locks, op, hands, outcome>>
       ELSE Reply(w, "error")
    /\ UNCHANGED <<files, images, faults>>

GetManifest(w) == GetDescription(w, "getManifest", Manifest(img[w]), "getConfig")
GetConfig(w) == GetDescription(w, "getConfig", Config(img[w]), "getLayers")

\* get_layer_path only asks whether the file exists.  The layers of the image
\* returned are read later, from the blob files themselves.
GetLayers(w) ==
    /\ pc[w] = "getLayers"
    /\ IF \A j \in layersOf[img[w]] : blobs[Layer(j)] # "missing"
       THEN /\ repo' = [repo EXCEPT ![w] = layersOf[img[w]]]
            /\ Goto(w, "execute")
            /\ Release(w)
            /\ UNCHANGED <<op, outcome, img, todo, cur, entries, tags>>
       ELSE Reply(w, "error")
    /\ UNCHANGED <<files, images, faults>>

\* Cache miss: the registry is asked.  It may not have the image or not answer, and
\* what it has may be indexed already, under another tag.
Pull(w) ==
    /\ pc[w] = "pull"
    /\ \/ /\ \E i \in Serves[op[w].from] : img' = [img EXCEPT ![w] = i]
          /\ Goto(w, "wantStorage")
          /\ UNCHANGED <<locks, op, outcome, repo, todo, cur, entries, tags>>
       \/ Reply(w, "error")
    /\ UNCHANGED <<files, images, faults>>

-------------------------------------------------------------------------------
(* extract_base_image and the instructions, outside every lock.            *)

\* The inherited layers are untarred from where they lie: an inherited blob that
\* is gone or half written fails the build.
ExtractFails(w) ==
    /\ pc[w] = "execute"
    /\ \E j \in repo[w] :
         /\ blobs[Layer(j)] # "whole"
         /\ Reply(w, IF blobs[Layer(j)] = "torn" THEN "torn" ELSE "error")
    /\ UNCHANGED <<files, images, faults>>

\* The instructions either fail or make a new image on top of the base.
Execute(w) ==
    /\ pc[w] = "execute"
    /\ \A j \in repo[w] : blobs[Layer(j)] = "whole"
    /\ \/ /\ Reply(w, "error")
          /\ UNCHANGED images
       \/ \E i \in Image \ used :
            /\ used' = used \cup {i}
            /\ layersOf' = [layersOf EXCEPT ![i] =
                  {i} \cup (IF img[w] = NoImage THEN {} ELSE layersOf[img[w]])]
            /\ img' = [img EXCEPT ![w] = i]
            /\ Goto(w, "wantStorage")
            /\ UNCHANGED <<locks, op, outcome, repo, todo, cur, entries, tags>>
    /\ UNCHANGED <<files, faults>>

-------------------------------------------------------------------------------
(* store_image, under storage_lock.                                        *)

\* Taking storage_lock; for a store the image's blobs are then to be written.
LockStorage(w) ==
    /\ pc[w] = "wantStorage"
    /\ storageLock = NoWorker
    /\ storageLock' = w
    /\ Goto(w, CASE op[w].kind = "build" -> "store"
                 [] op[w].kind \in {"remove", "delete"} -> "drop"
                 [] op[w].kind = "purge" -> "clear"
                 [] op[w].kind = "list" -> "list"
                 [] op[w].kind = "cleanup" -> "scan")
    /\ todo' = [todo EXCEPT ![w] = IF op[w].kind = "build" THEN BlobsOf(img[w]) ELSE {}]
    /\ UNCHANGED <<files, cacheLock, op, img, repo, cur, entries, tags, outcome, images, faults>>

\* Image.validate refuses what some registries serve; the base is then not cached.
RefuseCaching(w) ==
    /\ pc[w] = "wantStorage" /\ Pulled(w)
    /\ storageLock = NoWorker
    /\ StoreEnds(w, "error")
    /\ UNCHANGED <<files, images, faults>>

\* Layers first, then the config, then the manifest.
NextBlobs(S) ==
    LET layers == {b \in S : b[1] = "layer"}
        config == {b \in S : b[1] = "config"}
    IN IF layers # {} THEN layers ELSE IF config # {} THEN config ELSE S

\* A layer that is read from the very blob file it is about to be written to.
Inherited(w, b) == b[1] = "layer" /\ b[2] \in repo[w]

\* `if layer.content_path and layer.content_path.exists()`: else passed over.
SkipLayer(w) ==
    /\ pc[w] = "store"
    /\ \E b \in NextBlobs(todo[w]) :
         /\ Inherited(w, b) /\ blobs[b] = "missing"
         /\ todo' = [todo EXCEPT ![w] = @ \ {b}]
    /\ UNCHANGED <<files, locks, pc, op, img, repo, cur, entries, tags, outcome, images, faults>>

\* A half-written layer does not have the digest it is listed under; and a blob
\* cannot be written without the directory.
StoreRefused(w) ==
    /\ pc[w] = "store"
    /\ \E b \in NextBlobs(todo[w]) :
         \/ Inherited(w, b) /\ blobs[b] = "torn" /\ StoreEnds(w, "error")
         \/ ~Inherited(w, b) /\ ~blobsDir /\ StoreEnds(w, "error")
    /\ UNCHANGED <<files, images, faults>>

OpenBlob(w) ==
    /\ pc[w] = "store"
    /\ blobsDir
    /\ \E b \in NextBlobs(todo[w]) :
         /\ Inherited(w, b) => blobs[b] = "whole"
         /\ blobs' = [blobs EXCEPT ![b] = "torn"]
         /\ cur' = [cur EXCEPT ![w] = b]
    /\ Goto(w, "storing")
    /\ UNCHANGED <<blobsDir, index, meta, locks, op, img, repo, todo, entries, tags,
                   outcome, images, faults>>

CloseBlob(w) ==
    /\ pc[w] = "storing"
    /\ blobs' = [blobs EXCEPT ![cur[w]] = "whole"]
    /\ todo' = [todo EXCEPT ![w] = @ \ {cur[w]}]
    /\ cur' = [cur EXCEPT ![w] = NoBlob]
    /\ Goto(w, "store")
    /\ UNCHANGED <<blobsDir, index, meta, locks, op, img, repo, entries, tags,
                   outcome, images, faults>>

\* (mutant) an entry of the same tag, not of the same digest, is a duplicate.
AddEntryOncePerTag(w) ==
    /\ pc[w] = "store" /\ todo[w] = {}
    /\ IF \E e \in LoadIndex : e.tag = StoreTag(w)
       THEN Goto(w, "readMeta") /\ UNCHANGED entries
       ELSE /\ entries' = [entries EXCEPT ![w] = WithEntry(LoadIndex, StoreTag(w), img[w])]
            /\ Goto(w, "openIndex")
    /\ UNCHANGED <<files, locks, op, img, repo, todo, cur, tags, outcome, images, faults>>

\* add_manifest_to_index: a digest that is indexed, under whatever tag, gets no entry.
AddEntry(w) ==
    /\ pc[w] = "store" /\ todo[w] = {}
    /\ IF Indexed(LoadIndex, img[w])
       THEN Goto(w, "readMeta") /\ UNCHANGED entries
       ELSE /\ entries' = [entries EXCEPT ![w] = WithEntry(LoadIndex, StoreTag(w), img[w])]
            /\ Goto(w, "openIndex")
    /\ UNCHANGED <<files, locks, op, img, repo, todo, cur, tags, outcome, images, faults>>

\* (mutant) starts from an empty dict instead of the one in the file.
ReadMetaAfresh(w) ==
    /\ pc[w] = "readMeta"
    /\ tags' = [tags EXCEPT ![w] = [NoTags EXCEPT ![StoreTag(w)] = img[w]]]
    /\ Goto(w, "openMeta")
    /\ UNCHANGED <<files, locks, op, img, repo, todo, cur, entries, outcome, images, faults>>

\* _add_image_metadata
ReadMeta(w) ==
    /\ pc[w] = "readMeta"
    /\ tags' = [tags EXCEPT ![w] = [LoadMeta EXCEPT ![StoreTag(w)] = img[w]]]
    /\ Goto(w, "openMeta")
    /\ UNCHANGED <<files, locks, op, img, repo, todo, cur, entries, outcome, images, faults>>

-------------------------------------------------------------------------------
(* remove_image, delete_image, remove_all_images, list_local_images and     *)
(* cleanup_orphaned_blobs, under storage_lock.                              *)

\* remove_image and delete_image take the tag out of the metadata ...
Drop(w) ==
    /\ pc[w] = "drop"
    /\ IF LoadMeta[op[w].tag] = NoImage
       THEN Reply(w, "absent")
       ELSE /\ tags' = [tags EXCEPT ![w] = [LoadMeta EXCEPT ![op[w].tag] = NoImage]]
            /\ Goto(w, "openMeta")
            /\ UNCHANGED <<locks, op, img, repo, todo, cur, entries, outcome>>
    /\ UNCHANGED <<files, images, faults>>

\* ... and remove_image then takes it out of the index too.
DropEntry(w) ==
    /\ pc[w] = "dropEntry"
    /\ IF \E e \in LoadIndex : e.tag = op[w].tag
       THEN /\ entries' = [entries EXCEPT ![w] = WithoutTag(LoadIndex, op[w].tag)]
            /\ Goto(w, "openIndex")
            /\ UNCHANGED <<locks, op, img, repo, todo, cur, tags, outcome>>
       ELSE Reply(w, "ok")
    /\ UNCHANGED <<files, images, faults>>

\* (mutant) the blobs go first, and the metadata is left for later.
ClearBlobsFirst(w) ==
    /\ pc[w] = "clear"
    /\ Goto(w, "rmtree")
    /\ UNCHANGED <<files, locks, op, hands, outcome, images, faults>>

\* remove_all_images saves an empty metadata dict,
Clear(w) ==
    /\ pc[w] = "clear"
    /\ tags' = [tags EXCEPT ![w] = NoTags]
    /\ Goto(w, "openMeta")
    /\ UNCHANGED <<files, locks, op, img, repo, todo, cur, entries, outcome, images, faults>>

\* removes the blobs directory, one file after the other and the directory last,
Rmtree(w) ==
    /\ pc[w] = "rmtree"
    /\ \/ \E b \in Blob :
            /\ blobs[b] # "missing"
            /\ blobs' = [blobs EXCEPT ![b] = "missing"]
            /\ UNCHANGED <<pc, blobsDir>>
       \/ /\ \A b \in Blob : blobs[b] = "missing"
          /\ blobsDir' = FALSE
          /\ Goto(w, "relayout")
          /\ UNCHANGED blobs
    /\ UNCHANGED <<index, meta, locks, op, hands, outcome, images, faults>>

\* makes it anew (create_layout; there is an index file) and saves an empty index.
Relayout(w) ==
    /\ pc[w] = "relayout"
    /\ blobsDir' = TRUE
    /\ entries' = [entries EXCEPT ![w] = {}]
    /\ Goto(w, "openIndex")
    /\ UNCHANGED <<blobs, index, meta, locks, op, img, repo, todo, cur, tags,
                   outcome, images, faults>>

\* list_local_images answers from one reading of the metadata.
List(w) ==
    /\ pc[w] = "list"
    /\ Reply(w, IF meta.state = "whole" THEN "ok" ELSE "unreadable")
    /\ UNCHANGED <<files, images, faults>>

\* cleanup_orphaned_blobs works out the orphans, then unlinks them one by one.
Scan(w) ==
    /\ pc[w] = "scan"
    /\ todo' = [todo EXCEPT ![w] = {b \in Blob : blobs[b] # "missing"} \ Referenced]
    /\ Goto(w, "unlink")
    /\ UNCHANGED <<files, locks, op, img, repo, cur, entries, tags, outcome, images, faults>>

Unlink(w) ==
    /\ pc[w] = "unlink"
    /\ \/ \E b \in todo[w] :
            /\ blobs' = [blobs EXCEPT ![b] = "missing"]
            /\ todo' = [todo EXCEPT ![w] = @ \ {b}]
            /\ UNCHANGED <<locks, pc, op, img, repo, cur, entries, tags, outcome>>
       \/ todo[w] = {} /\ Reply(w, "ok") /\ UNCHANGED blobs
    /\ UNCHANGED <<blobsDir, index, meta, images, faults>>

-------------------------------------------------------------------------------
(* Faults.                                                                 *)

FaultPoints == {"layout", "openIndex", "closeIndex", "openMeta", "closeMeta",
                "store", "storing", "rmtree", "relayout", "unlink"}

\* A file operation raises OSError (disk full, permissions): the files stay as
\* they are, an opened one torn, and the request fails.
IOFails(w) ==
    /\ pc[w] \in FaultPoints
    /\ faults < MaxFaults
    /\ faults' = faults + 1
    /\ StoreEnds(w, "error")
    /\ UNCHANGED <<files, images>>

\* The daemon process dies and is started again: only the files remain.
Crash ==
    /\ faults < MaxFaults
    /\ faults' = faults + 1
    /\ storageLock' = NoWorker /\ cacheLock' = NoWorker
    /\ pc' = [w \in Worker |-> "idle"]
    /\ op' = [w \in Worker |-> NoRequest]
    /\ outcome' = [w \in Worker |-> "none"]
    /\ img' = [w \in Worker |-> NoImage]
    /\ repo' = [w \in Worker |-> {}]
    /\ todo' = [w \in Worker |-> {}]
    /\ cur' = [w \in Worker |-> NoBlob]
    /\ entries' = [w \in Worker |-> {}]
    /\ tags' = [w \in Worker |-> NoTags]
    /\ UNCHANGED <<files, images>>

-------------------------------------------------------------------------------

Init ==
    /\ blobs = [b \in Blob |-> "missing"]
    /\ blobsDir = ~Fresh
    /\ index = [state |-> IF Fresh THEN "missing" ELSE "whole", entries |-> {}]
    /\ meta = [state |-> IF Fresh THEN "missing" ELSE "whole", tags |-> NoTags]
    /\ storageLock = NoWorker /\ cacheLock = NoWorker
    /\ pc = [w \in Worker |-> "idle"]
    /\ op = [w \in Worker |-> NoRequest]
    /\ img = [w \in Worker |-> NoImage]
    /\ repo = [w \in Worker |-> {}]
    /\ todo = [w \in Worker |-> {}]
    /\ cur = [w \in Worker |-> NoBlob]
    /\ entries = [w \in Worker |-> {}]
    /\ tags = [w \in Worker |-> NoTags]
    /\ outcome = [w \in Worker |-> "none"]
    /\ layersOf = [i \in Image |-> IF i \in Bases THEN {i} ELSE {}]
    /\ used = Bases
    /\ faults = 0

\* The steps of a request that has begun, in the absence of faults.
Work(w) ==
    \/ EnsureLayout(w)
    \/ OpenIndex(w) \/ CloseIndex(w) \/ OpenMeta(w) \/ CloseMeta(w)
    \/ LockCache(w) \/ GetIndex(w) \/ GetManifest(w) \/ GetConfig(w) \/ GetLayers(w)
    \/ Pull(w) \/ ExtractFails(w) \/ Execute(w)
    \/ LockStorage(w) \/ RefuseCaching(w)
    \/ SkipLayer(w) \/ StoreRefused(w) \/ OpenBlob(w) \/ CloseBlob(w)
    \/ AddEntry(w) \/ ReadMeta(w)
    \/ Drop(w) \/ DropEntry(w) \/ Clear(w) \/ Rmtree(w) \/ Relayout(w)
    \/ List(w) \/ Scan(w) \/ Unlink(w)

Next ==
    \/ \E w \in Worker : Begin(w) \/ Work(w) \/ IOFails(w)
    \/ Crash

Spec == Init /\ [][Next]_vars

-------------------------------------------------------------------------------
(* Properties.                                                             *)

Steps == {"idle", "layout", "openIndex", "closeIndex", "openMeta",
          "closeMeta", "wantCache", "getIndex", "getManifest", "getConfig",
          "getLayers", "pull", "execute", "wantStorage", "store", "storing",
          "readMeta", "drop", "dropEntry", "clear", "rmtree", "relayout", "list",
          "scan", "unlink"}
Outcomes == {"none", "ok", "absent", "error", "torn", "unreadable"}

FilesOK ==
    /\ blobs \in [Blob -> FileState] /\ blobsDir \in BOOLEAN
    /\ index \in [state : FileState, entries : SUBSET Entry]
    /\ meta \in [state : FileState, tags : TagMap]
    /\ layersOf \in [Image -> SUBSET Image]
    /\ used \subseteq Image
    /\ faults \in 0..MaxFaults

WorkersOK ==
    /\ storageLock \in Worker \cup {NoWorker}
    /\ cacheLock \in Worker \cup {NoWorker}
    /\ pc \in [Worker -> Steps]
    /\ op \in [Worker -> Request \cup {NoRequest}]
    /\ img \in [Worker -> Image \cup {NoImage}]
    /\ repo \in [Worker -> SUBSET Image]
    /\ todo \in [Worker -> SUBSET Blob]
    /\ cur \in [Worker -> Blob \cup {NoBlob}]
    /\ entries \in [Worker -> SUBSET Entry]
    /\ tags \in [Worker -> TagMap]
    /\ outcome \in [Worker -> Outcomes]

\* The values every variable ranges over: what is indexed, listed or in a worker's
\* hands names tags and images, and no image or tag that does not exist.
TypeOK == FilesOK /\ WorkersOK

\* A blob file is whole, or is being rewritten at this moment.
Settled(b) == blobs[b] = "whole" \/ \E w \in Worker : cur[w] = b

\* Whatever crashes and whatever fails, an image that `ls` lists has a config and
\* a manifest in the blob store, because store_image writes the metadata last and
\* remove_all_images clears it first; and unless something crashed or failed,
\* both files are intact.
ListedIsStored ==
    \A t \in Tag : LoadMeta[t] # NoImage =>
        \A b \in {Config(LoadMeta[t]), Manifest(LoadMeta[t])} :
            /\ blobs[b] # "missing"
            /\ faults = 0 => Settled(b)

\* index.json and metadata.json are two files, updated one after the other; in
\* the absence of faults, at any moment at which both can be read, the index has
\* an entry for every (tag, image) pair the metadata lists, unless the registry
\* serves that image under two tags: the index takes a digest once.
Covered(t) == \E e \in index.entries : e.tag = t /\ e.image = LoadMeta[t]
IndexCoversListed ==
    faults = 0 /\ index.state = "whole" =>
        \A t \in Tag : LoadMeta[t] # NoImage => Covered(t) \/ Shared(LoadMeta[t])

\* The list handler never reads the metadata while another thread is writing it.
ListingReadable == faults = 0 => \A w \in Worker : outcome[w] # "unreadable"

\* The map the callers see: the content of metadata.json, the old content while a
\* thread is overwriting the file, and nothing once it has been left torn.
ListedMap ==
    IF \E w \in Worker : pc[w] = "closeMeta" THEN meta.tags ELSE LoadMeta

TS == INSTANCE TagStore WITH map <- ListedMap

\* Concurrent builds, removals and purges, each a read-modify-write of a whole
\* file, have the effect of one-step updates of one map: no update is lost.
TagStoreSpec == TS!Spec

\* remove_image has emptied both files of the tag when it reports success.
RemoveTakesBoth ==
    [][\A w \in Worker :
         op[w].kind = "remove" /\ pc[w] # "idle" /\ outcome'[w] = "ok" =>
             /\ LoadMeta'[op[w].tag] = NoImage
             /\ \A e \in LoadIndex' : e.tag # op[w].tag]_vars

\* Outside of remove_all_images, and without faults, every image that the index
\* mentions is complete down to the inherited layers: cleanup_orphaned_blobs
\* deletes no blob that is still needed, and store_image indexes only what it
\* has written.  (One process at a time.)
IndexedImagesComplete ==
    faults = 0 /\ (\A w \in Worker : op[w].kind # "purge") =>
        \A e \in LoadIndex : \A b \in BlobsOf(e.image) : Settled(b)

\* Every image that `ls` lists has all its layers in the blob store, down to those of
\* a base image that has been removed; but an image that the registry serves under
\* two tags is only safe from cleanup_orphaned_blobs while the tag that is indexed,
\* the first it was pulled by, is not removed.
LayersPresent(i) == \A j \in layersOf[i] : blobs[Layer(j)] # "missing"
ListedImagesComplete ==
    faults = 0 =>
        \A t \in Tag : LoadMeta[t] # NoImage =>
            \/ LayersPresent(LoadMeta[t])
            \/ Shared(LoadMeta[t]) /\ ~Indexed(index.entries, LoadMeta[t])

\* cleanup_orphaned_blobs takes no layer from an image that `ls` lists.
NoListedImageLosesLayers ==
    faults = 0 => \A t \in Tag : LoadMeta[t] # NoImage => LayersPresent(LoadMeta[t])

\* When nobody is at work, get_image (what a push sends and a FROM builds upon)
\* and list_local_images agree about the image a tag names.
GetAgreesWithList ==
    faults = 0 /\ (\A w \in Worker : pc[w] = "idle") =>
        \A t \in Tag : LoadMeta[t] # NoImage =>
            \A e \in LoadIndex : IsFirstWithTag(LoadIndex, t, e) => e.image = LoadMeta[t]

\* No build finds an inherited layer half written.
InheritedLayersReadable == faults = 0 => \A w \in Worker : outcome[w] # "torn"

\* The worker whose lock w waits for, if it waits for one.
WaitsFor(w) ==
    IF pc[w] = "wantCache" THEN cacheLock
    ELSE IF pc[w] = "wantStorage" THEN storageLock ELSE NoWorker

\* Whoever waits for one of the two locks waits, directly or through one more worker
\* that waits, for a worker in the middle of a request that can go on: no two workers
\* wait for one another, none waits for itself, and no request leaves with a lock.
Running(v) == v \in Worker /\ pc[v] # "idle" /\ WaitsFor(v) = NoWorker
WaitsEnd ==
    \A w \in Worker :
        LET v == WaitsFor(w) IN v = NoWorker \/ Running(v) \/ Running(WaitsFor(v))
===============================================================================
