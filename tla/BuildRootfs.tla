----------------------------- MODULE BuildRootfs -----------------------------
(***************************************************************************)
(* One isolated build (build/engine.py) from its base image to the image   *)
(* it produces: a directory, the rootfs, in which commands are run in a    *)
(* chroot (build/isolation.py); before and after each RUN a snapshot of    *)
(* it; the difference of the two as a layer, a tar archive with whiteouts  *)
(* (build/diff.py, build/models.py); and what extracting the image's       *)
(* layers gives again, when somebody builds upon it (build/base_image.py). *)
(*                                                                         *)
(* A tree maps every path of the instance to a node.  The data of a file   *)
(* stands for its content together with the size and time stamp it has,    *)
(* and a link to a file is a file with data of its own.  /proc, /sys and   *)
(* /dev are in no tree: snapshots and extraction leave them out.           *)
(***************************************************************************)
EXTENDS Naturals

CONSTANTS
    Path,      \* paths below the root
    Above,     \* Above[p]: the directories on the way from the root to p
    Touched,   \* paths that commands change
    Conf,      \* /etc/resolv.conf ...
    Backup,    \* ... and /etc/resolv.conf.derpy-backup
    Data,      \* contents of files
    HostData,  \* the content of the host's resolv.conf
    MaxRuns    \* RUN instructions of the Dockerfile

ASSUME PathAssumption ==
    /\ Above \in [Path -> SUBSET Path]
    /\ \A p \in Path : p \notin Above[p] /\ \A q \in Above[p] : Above[q] \subseteq Above[p]
    /\ \A p \in Path : \A q, r \in Above[p] : q = r \/ q \in Above[r] \/ r \in Above[q]
    /\ Touched \subseteq Path \ {Conf, Backup}
    /\ Conf \in Path /\ Backup \in Path /\ Conf # Backup
    /\ \A p \in Path : Above[p] \cap {Conf, Backup} = {}
    /\ Above[Conf] = {} /\ Above[Backup] = {}
ASSUME RunsAssumption == HostData \in Data /\ MaxRuns \in Nat

Mode == {"plain", "executable"}
None == [kind |-> "none"]
Dir == [kind |-> "dir"]
File(v, m) == [kind |-> "file", data |-> v, mode |-> m]
DirLink == [kind |-> "dirlink"]     \* a symbolic link to a directory
DeadLink == [kind |-> "deadlink"]   \* a symbolic link to nothing
Files == {File(v, m) : v \in Data, m \in Mode}
Node == {None, Dir, DirLink, DeadLink} \cup Files

Tree == [Path -> Node]
Empty == [p \in Path |-> None]
Below(p) == {q \in Path : p \in Above[q]}
WellFormed(T) == \A p \in Path : T[p] # None => \A q \in Above[p] : T[q] = Dir

\* The trees base images are extracted to here: without links.
BaseTree ==
    {T \in [Path -> {None, Dir} \cup Files] :
        /\ WellFormed(T)
        /\ T[Conf] \in {None} \cup Files /\ T[Backup] = None}

Mount == {"proc", "sys", "dev"}

VARIABLES
    pc,      \* the next step of the build
    runs,    \* RUN instructions begun
    rootfs,  \* the tree in the build's temporary directory
    before,  \* the snapshot before the RUN in progress
    image,   \* the tree that the layers of the image up to here are extracted to
    usable,  \* they can be extracted at all
    mounts,  \* mounts[m]: how many times m is mounted in the rootfs, one above the other
    trouble, \* (history) umount has failed, or _is_mounted has overlooked a mount
    spoilt,  \* mounts that rmtree has been let loose on
    gone,    \* the rootfs has been removed
    warned,  \* the log has a warning of _cleanup_rootfs: "Some files may remain"
    result,  \* how the build ends
    plain    \* (history) every RUN so far has made plain changes only

trees == <<rootfs, before, image, usable, plain>>
cleaning == <<trouble, spoilt, gone, warned>>
vars == <<pc, runs, trees, mounts, cleaning, result>>

-------------------------------------------------------------------------------
(* Snapshots and layers.                                                   *)

\* create_snapshot: os.walk counts a link to a directory among the directories,
\* and the loop over those passes over links.
Snapshot(T) == [p \in Path |-> IF T[p] = DirLink THEN None ELSE T[p]]

\* (mutant) only the kind of an entry counts.
ModifiedKind(old, new) == old.kind # new.kind

\* FileEntry.is_modified: not the mode, and of a directory nothing.
Modified(old, new) ==
    \/ old.kind # new.kind
    \/ new.kind = "file" /\ new.data # old.data

\* Snapshot.compare
Added(b, a) == {p \in Path : b[p] = None /\ a[p] # None}
Changed(b, a) == Added(b, a) \cup {p \in Path : b[p] # None /\ a[p] # None /\ Modified(b[p], a[p])}

\* (mutant) directories only.
DeletedDirs(b, a) == {p \in Path : b[p] = Dir /\ a[p] = None}
Deleted(b, a) == {p \in Path : b[p] # None /\ a[p] = None}

\* create_layer_from_diff: `exists()` does not hold of a link to nothing.
Layer(T, b) ==
    LET a == Snapshot(T) IN
    [members |-> [p \in Path |-> IF p \in Changed(b, a) /\ a[p] # DeadLink THEN a[p] ELSE None],
     whiteouts |-> Deleted(b, a)]

\* capture_diff makes no layer of an empty difference.
NoChange(T, b) == LET a == Snapshot(T) IN Changed(b, a) \cup Deleted(b, a) = {}

-------------------------------------------------------------------------------
(* extract_base_image, one layer: untar it, _process_whiteouts, _merge_layer. *)

\* The whiteout of p is a file next to where p was.
Holds(layer, p) == layer.members[p] # None \/ p \in layer.whiteouts

\* Nothing can be untarred below what is not a directory.
Untars(layer) ==
    \A p \in Path : Holds(layer, p) =>
        \A q \in Above[p] : layer.members[q] \in {None, Dir}

\* The layer's temporary directory without the whiteouts: the directories they were
\* in are still there.
Untarred(layer) ==
    [p \in Path |->
        IF layer.members[p] # None THEN layer.members[p]
        ELSE IF \E q \in Below(p) : Holds(layer, q) THEN Dir ELSE None]

Whiteout(T, layer) ==
    [p \in Path |-> IF ({p} \cup Above[p]) \cap layer.whiteouts # {} THEN None ELSE T[p]]

\* A file is in the way of a directory.
InTheWay(T, L, p) == L[p] = Dir /\ T[p] \notin {None, Dir}

\* mkdir(parents=True) raises below such a file, copy2 is caught.
Merges(T, L) == \A p \in Path : InTheWay(T, L, p) => \A q \in Below(p) : L[q] # Dir

\* (mutant) copies what belongs below a file in the way.
MergeRegardless(T, L) ==
    [p \in Path |->
        IF L[p] = Dir THEN IF T[p] = None THEN Dir ELSE T[p]
        ELSE IF L[p] # None THEN L[p]
        ELSE IF \E q \in Above[p] : L[q] \notin {None, Dir} THEN None
        ELSE T[p]]

\* A file replaces what it finds, a directory and all that is in it included.
Merge(T, L) ==
    [p \in Path |->
        IF L[p] = Dir THEN IF T[p] = None THEN Dir ELSE T[p]
        ELSE IF L[p] # None THEN IF \E q \in Above[p] : InTheWay(T, L, q) THEN None ELSE L[p]
        ELSE IF \E q \in Above[p] : L[q] \notin {None, Dir} THEN None
        ELSE T[p]]

Extracts(T, layer) == Untars(layer) /\ Merges(Whiteout(T, layer), Untarred(layer))
Extract(T, layer) == Merge(Whiteout(T, layer), Untarred(layer))

-------------------------------------------------------------------------------
(* The build.                                                              *)

At(p, next) == pc = p /\ pc' = next

\* setup_chroot_environment mounts one after the other, and copies resolv.conf then.
AfterMount == [proc |-> "sys", sys |-> "dev", dev |-> "conf"]
Mounted == {m \in Mount : mounts[m] > 0}

Working == {"from", "next", "conf", "run", "capture"} \cup Mount

\* (mutant) a failure leaves build_image as it is.
FailUncleaned ==
    /\ pc \in Working
    /\ pc' = "over" /\ result' = "failed"
    /\ UNCHANGED <<runs, trees, mounts, cleaning>>

\* Any step can raise (snapshot, mount, copy, no /bin/sh, exit code, timeout, archive),
\* and whatever it is, an Exception ends in _cleanup_rootfs.
Fail ==
    /\ pc \in Working
    /\ pc' = "unmount" /\ result' = "failed"
    /\ UNCHANGED <<runs, trees, mounts, cleaning>>

\* KeyboardInterrupt is none.
Interrupt ==
    /\ pc # "over"
    /\ pc' = "over" /\ result' = "interrupted"
    /\ UNCHANGED <<runs, trees, mounts, cleaning>>

\* _handle_from_instruction
From ==
    /\ At("from", "next")
    /\ \E T \in BaseTree : rootfs' = T /\ image' = T
    /\ UNCHANGED <<runs, before, usable, plain, mounts, cleaning, result>>

BeginRun ==
    /\ At("next", "proc")
    /\ runs < MaxRuns
    /\ runs' = runs + 1
    /\ before' = Snapshot(rootfs)
    /\ UNCHANGED <<rootfs, image, usable, plain, mounts, cleaning, result>>

\* What the RUN before has mounted still is, and is mounted once more if _is_mounted
\* overlooks it: without `mountpoint' and /proc/mounts it answers no.
MountNext ==
    /\ \E m \in Mount :
         /\ At(m, AfterMount[m])
         /\ \/ m \in Mounted /\ UNCHANGED <<mounts, trouble>>
            \/ /\ mounts' = [mounts EXCEPT ![m] = @ + 1]
               /\ trouble' = (trouble \/ m \in Mounted)
    /\ UNCHANGED <<runs, trees, spoilt, gone, warned, result>>

\* The host's resolv.conf replaces the one in the rootfs, which is backed up.
CopyConf ==
    /\ At("conf", "run")
    /\ rootfs' = [rootfs EXCEPT
                    ![Backup] = IF rootfs[Conf] # None THEN rootfs[Conf] ELSE @,
                    ![Conf] = File(HostData, "plain")]
    /\ UNCHANGED <<runs, before, image, usable, plain, mounts, cleaning, result>>

\* The command makes, removes or changes a file, a directory or a link.
Edit ==
    /\ pc = "run"
    /\ \E p \in Touched, n \in Node :
         /\ \A q \in Above[p] : rootfs[q] = Dir
         /\ \A q \in Below(p) : rootfs[q] = None
         /\ rootfs' = [rootfs EXCEPT ![p] = n]
    /\ UNCHANGED <<pc, runs, before, image, usable, plain, mounts, cleaning, result>>

CommandEnds ==
    /\ At("run", "capture")
    /\ UNCHANGED <<runs, trees, mounts, cleaning, result>>

\* A change is plain if what it leaves are files and directories, each of the kind that
\* was there before if any was; with a new mode comes new data; and the directories it
\* has removed were empty.
PlainChange(T, b) ==
    \A p \in Path :
        /\ T[p] \notin {DirLink, DeadLink}
        /\ b[p] # None /\ T[p] # None => T[p].kind = b[p].kind
        /\ b[p] \in Files /\ T[p] \in Files /\ T[p].data = b[p].data => T[p] = b[p]
        /\ b[p] = Dir /\ T[p] = None => \A q \in Below(p) : b[q] = None

\* capture_diff, and the layer as it will be extracted.
Capture ==
    /\ At("capture", "next")
    /\ IF NoChange(rootfs, before) \/ ~usable
       THEN UNCHANGED <<image, usable>>
       ELSE LET layer == Layer(rootfs, before) IN
            IF Extracts(image, layer)
            THEN image' = Extract(image, layer) /\ UNCHANGED usable
            ELSE usable' = FALSE /\ UNCHANGED image
    /\ plain' = (plain /\ PlainChange(rootfs, before))
    /\ before' = Empty
    /\ UNCHANGED <<runs, rootfs, mounts, cleaning, result>>

Succeed ==
    /\ At("next", "unmount")
    /\ result' = "built"
    /\ UNCHANGED <<runs, trees, mounts, cleaning>>

\* cleanup_chroot_environment: what it finds mounted is unmounted once, which can fail,
\* and the backup is moved back, which can fail too.  Without the program umount it
\* raises, and rmtree is not reached.
Unmount ==
    /\ pc = "unmount"
    /\ \/ /\ pc' = "remove"
          /\ \E done \in SUBSET Mounted :
               /\ mounts' = [m \in Mount |-> IF m \in done THEN mounts[m] - 1 ELSE mounts[m]]
               /\ trouble' = (trouble \/ done # Mounted)
          /\ \/ UNCHANGED rootfs
             \/ /\ rootfs[Backup] # None
                /\ rootfs' = [rootfs EXCEPT ![Conf] = rootfs[Backup], ![Backup] = None]
          /\ UNCHANGED warned
       \/ /\ Mounted # {}
          /\ pc' = "over" /\ trouble' = TRUE /\ warned' = TRUE
          /\ UNCHANGED <<mounts, rootfs>>
    /\ UNCHANGED <<runs, before, image, usable, plain, spoilt, gone, result>>

\* rmtree gives up at the first file that it cannot remove, a mount point for one, but
\* removes what it finds before, also in what is mounted.  (What is left of the tree then,
\* nobody looks at.)
Remove ==
    /\ At("remove", "over")
    /\ \/ Mounted = {} /\ gone' = TRUE /\ UNCHANGED <<spoilt, warned>>
       \/ spoilt' \in SUBSET Mounted /\ warned' = TRUE /\ UNCHANGED gone
    /\ rootfs' = Empty
    /\ UNCHANGED <<runs, before, image, usable, plain, mounts, trouble, result>>

-------------------------------------------------------------------------------

Init ==
    /\ pc = "from" /\ runs = 0
    /\ rootfs = Empty /\ before = Empty /\ image = Empty
    /\ usable = TRUE /\ plain = TRUE
    /\ mounts = [m \in Mount |-> 0] /\ trouble = FALSE
    /\ spoilt = {} /\ gone = FALSE /\ warned = FALSE
    /\ result = "none"

Next ==
    \/ From \/ BeginRun \/ MountNext \/ CopyConf \/ Edit \/ CommandEnds \/ Capture
    \/ Succeed \/ Fail \/ Interrupt \/ Unmount \/ Remove

Spec == Init /\ [][Next]_vars

-------------------------------------------------------------------------------
(* Properties.                                                             *)

\* The types; and the rootfs and the image's tree are trees: whatever is in them has
\* directories above it.
TypeOK ==
    /\ pc \in Working \cup {"unmount", "remove", "over"}
    /\ runs \in 0..MaxRuns
    /\ rootfs \in Tree /\ before \in Tree /\ image \in Tree
    /\ WellFormed(rootfs) /\ WellFormed(image)
    /\ usable \in BOOLEAN /\ plain \in BOOLEAN
    /\ mounts \in [Mount -> Nat] /\ spoilt \subseteq Mount
    /\ trouble \in BOOLEAN /\ gone \in BOOLEAN /\ warned \in BOOLEAN
    /\ result \in {"none", "built", "failed", "interrupted"}

\* As long as commands make plain changes, extracting the base's layers and the new
\* ones gives exactly the tree that the commands have left in the rootfs.
LayersReproduce ==
    plain => /\ usable
             /\ pc = "next" => image = rootfs
             /\ pc \in {"conf", "run", "capture"} \cup Mount => image = before

\* Whatever the commands do, an image that can be extracted has no file where the
\* rootfs has nothing: a file that has been deleted does not come back.
DeletedFilesGone ==
    usable /\ pc = "next" =>
        \A p \in Path : rootfs[p] = None => image[p] \notin Files

\* A build that succeeds or fails has removed its rootfs, or there is a warning that it
\* has not, whichever step it failed at; and as long as every mount is recognised and
\* every umount works, nothing stays mounted and rmtree never reaches the host's devices,
\* also when rmtree itself fails.
CleanedUp ==
    pc = "over" /\ result \in {"built", "failed"} =>
        /\ gone \/ warned
        /\ ~trouble => Mounted = {} /\ spoilt = {}

\* What a command has removed is not in the image.
RemovedIsGone ==
    usable /\ pc = "next" => \A p \in Path : rootfs[p] = None => image[p] = None
===============================================================================
