---------------------------- MODULE LayerExtraction ----------------------------
(***************************************************************************)
(* Builds of one daemon that extract base images at the same time          *)
(* (extract_base_image in build/base_image.py).  Each builds a rootfs of   *)
(* its own, but every layer is first untarred into a directory of the cache*)
(* that is named after the layer's digest: extract_<digest> belongs to all *)
(* builds that extract this layer, is walked by each without a lock, and   *)
(* removed by each at the end.  BuildRootfs has what one extraction does to*)
(* a tree of directories; here all entries lie in one directory.           *)
(***************************************************************************)
EXTENDS Naturals, Sequences

CONSTANTS
    Build,      \* builds
    Layer,      \* layers, by their digests
    Base,       \* base images: sequences of layers
    Path,       \* paths
    Files,      \* Files[l]: the paths of which layer l has a file
    Gone,       \* Gone[l]: the paths that it whites out
    Nothing,    \* no file
    Unknown,    \* what is there after an error that was passed over: nobody knows
    MaxCrashes  \* bound: times that the daemon dies

ASSUME ExtractionAssumption ==
    /\ Base \subseteq Seq(Layer) \ {<<>>}
    /\ \A l \in Layer : Files[l] \subseteq Path /\ Gone[l] \subseteq Path /\ Files[l] \cap Gone[l] = {}
    /\ Nothing \notin Layer /\ Unknown \notin Layer \cup {Nothing} /\ MaxCrashes \in Nat

VARIABLES
    there,    \* there[l]: the directory extract_l exists
    temp,     \* temp[l]: its entries
    rootfs,   \* rootfs[b]: of every entry the layer from which b has it
    base,     \* base[b]: the layers b extracts
    pos,      \* pos[b]: which of them it is at
    pc,       \* pc[b]: idle, mkdir, untar, whiteouts, merge, rmtree, retry, done or failed
    walk,     \* walk[b]: the entries that b has listed, or has to untar, and not come to
    failing,  \* failing[b]: an exception is on its way out
    shared,   \* (history) shared[b]: another build was in a directory while b was in it
    crashes

disk == <<there, temp>>
vars == <<disk, rootfs, base, pos, pc, walk, failing, shared, crashes>>

\* An entry of a layer: a file, or the marker that whites one out.
File(p) == [kind |-> "file", path |-> p]
Marker(p) == [kind |-> "whiteout", path |-> p]
Entries == [kind : {"file", "whiteout"}, path : Path]
Archive(l) == {File(p) : p \in Files[l]} \cup {Marker(p) : p \in Gone[l]}

Current(b) == base[b][pos[b]]
Extracting(b) == pc[b] \in {"untar", "whiteouts", "merge"}
Removing(b) == pc[b] \in {"rmtree", "retry"}
Inside(b) == Extracting(b) \/ Removing(b)

-------------------------------------------------------------------------------
Init ==
    /\ there = [l \in Layer |-> FALSE] /\ temp = [l \in Layer |-> {}]
    /\ rootfs = [b \in Build |-> [e \in Entries |-> Nothing]]
    /\ base \in [Build -> Base]
    /\ pos = [b \in Build |-> 1]
    /\ pc = [b \in Build |-> "idle"]
    /\ walk = [b \in Build |-> {}]
    /\ failing = [b \in Build |-> FALSE]
    /\ shared = [b \in Build |-> FALSE]
    /\ crashes = 0

Begin(b) ==
    /\ pc[b] = "idle"
    /\ pc' = [pc EXCEPT ![b] = "mkdir"]
    /\ UNCHANGED <<disk, rootfs, base, pos, walk, failing, shared, crashes>>

\* b goes on to a phase in which it takes the entries one by one.
Phase(b, phase, entries) ==
    /\ pc' = [pc EXCEPT ![b] = phase]
    /\ walk' = [walk EXCEPT ![b] = entries]

\* The layer's content may be missing, or the directory impossible to make.
MkdirFails(b) ==
    /\ pc[b] = "mkdir"
    /\ pc' = [pc EXCEPT ![b] = "failed"]
    /\ UNCHANGED <<disk, rootfs, base, pos, walk, failing, shared, crashes>>

\* Others are in the directory that b goes to.
Meets(b) ==
    LET others == {o \in Build \ {b} : Inside(o) /\ Current(o) = Current(b)} IN
    shared' = [o \in Build |-> shared[o] \/ o \in others \/ (o = b /\ others # {})]

\* (mutant) a directory that is there has been extracted.
MkdirReuses(b) ==
    /\ pc[b] = "mkdir"
    /\ there' = [there EXCEPT ![Current(b)] = TRUE]
    /\ Phase(b, "untar", IF there[Current(b)] THEN {} ELSE Archive(Current(b)))
    /\ Meets(b)
    /\ UNCHANGED <<temp, rootfs, base, pos, failing, crashes>>

\* mkdir(exist_ok=True): the directory of another build does as well, or what is left of one.
Mkdir(b) ==
    /\ pc[b] = "mkdir"
    /\ there' = [there EXCEPT ![Current(b)] = TRUE]
    /\ Phase(b, "untar", Archive(Current(b)))
    /\ Meets(b)
    /\ UNCHANGED <<temp, rootfs, base, pos, failing, crashes>>

\* extractall: one member after the other; it makes the directories above one that lack.
Untar(b, e) ==
    /\ pc[b] = "untar" /\ e \in walk[b]
    /\ there' = [there EXCEPT ![Current(b)] = TRUE]
    /\ temp' = [temp EXCEPT ![Current(b)] = @ \cup {e}]
    /\ walk' = [walk EXCEPT ![b] = @ \ {e}]
    /\ UNCHANGED <<rootfs, base, pos, pc, failing, shared, crashes>>

\* _process_whiteouts lists the directory,
ListWhiteouts(b) ==
    /\ pc[b] = "untar" /\ walk[b] = {}
    /\ Phase(b, "whiteouts", {e \in temp[Current(b)] : e.kind = "whiteout"})
    /\ UNCHANGED <<disk, rootfs, base, pos, failing, shared, crashes>>

\* and removes what each marker stands for, and the marker.  A directory is removed with all
\* errors ignored, and a symbolic link that leads nowhere does not `exist': it may stay.
ProcessWhiteout(b, e) ==
    /\ pc[b] = "whiteouts" /\ e \in walk[b]
    /\ \E left \in {Nothing, Unknown} : rootfs' = [rootfs EXCEPT ![b][File(e.path)] = left]
    /\ temp' = [temp EXCEPT ![Current(b)] = @ \ {e}]
    /\ walk' = [walk EXCEPT ![b] = @ \ {e}]
    /\ UNCHANGED <<there, base, pos, pc, failing, shared, crashes>>

\* _merge_layer lists it again (os.walk of a directory that is gone has no entries),
ListLayer(b) ==
    /\ pc[b] = "whiteouts" /\ walk[b] = {}
    /\ Phase(b, "merge", temp[Current(b)])
    /\ UNCHANGED <<disk, rootfs, base, pos, failing, shared, crashes>>

\* and copies each file, or passes over it when it is not there any more.  It goes on as well
\* when the copy fails (no space, no permission, an I/O error): what there was is still there,
\* or removed, or half overwritten.
CopyFile(b, e) ==
    /\ pc[b] = "merge" /\ e \in walk[b]
    /\ IF e \in temp[Current(b)]
       THEN \E got \in {Current(b), Unknown} : rootfs' = [rootfs EXCEPT ![b][e] = got]
       ELSE UNCHANGED rootfs
    /\ walk' = [walk EXCEPT ![b] = @ \ {e}]
    /\ UNCHANGED <<disk, base, pos, pc, failing, shared, crashes>>

\* The layer is done with: the next one, or the end.
Leave(b) ==
    /\ walk' = [walk EXCEPT ![b] = {}]
    /\ IF failing'[b] THEN pc' = [pc EXCEPT ![b] = "failed"] /\ UNCHANGED pos
       ELSE IF pos[b] = Len(base[b]) THEN pc' = [pc EXCEPT ![b] = "done"] /\ UNCHANGED pos
       ELSE pc' = [pc EXCEPT ![b] = "mkdir"] /\ pos' = [pos EXCEPT ![b] = @ + 1]

\* `finally': the directory is removed, if it is there.
Finally(b) ==
    /\ IF there[Current(b)] THEN Phase(b, "rmtree", temp[Current(b)]) /\ UNCHANGED pos
       ELSE Leave(b)
    /\ UNCHANGED <<disk, rootfs, base, shared, crashes>>

Merged(b) ==
    /\ pc[b] = "merge" /\ walk[b] = {}
    /\ UNCHANGED failing
    /\ Finally(b)

\* A corrupt archive, an I/O error outside the copying of a file, or another build's changes
\* to the directory.
ExtractionFails(b) ==
    /\ Extracting(b)
    /\ failing' = [failing EXCEPT ![b] = TRUE]
    /\ Finally(b)

\* (mutant) the removal is not tried again.
RmtreeOnce(b) == Leave(b) /\ UNCHANGED disk

\* An error of the first rmtree: the second ignores all errors.
RmtreeAgain(b) == Phase(b, "retry", temp[Current(b)]) /\ UNCHANGED <<disk, pos>>

\* rmtree removes the entries that it has listed; one that another has removed is an error,
Unlink(b, e) ==
    /\ Removing(b) /\ e \in walk[b]
    /\ UNCHANGED <<rootfs, base, failing, shared, crashes>>
    /\ IF e \in temp[Current(b)] \/ pc[b] = "retry"
       THEN /\ temp' = [temp EXCEPT ![Current(b)] = @ \ {e}]
            /\ walk' = [walk EXCEPT ![b] = @ \ {e}]
            /\ UNCHANGED <<there, pos, pc>>
       ELSE RmtreeAgain(b)

\* and so is a directory that is not empty at the end, or gone.
Rmdir(b) ==
    /\ Removing(b) /\ walk[b] = {}
    /\ UNCHANGED failing
    /\ IF there[Current(b)] /\ temp[Current(b)] = {}
       THEN there' = [there EXCEPT ![Current(b)] = FALSE] /\ UNCHANGED temp /\ Leave(b)
       ELSE IF pc[b] = "rmtree" THEN RmtreeAgain(b)
       ELSE Leave(b) /\ UNCHANGED disk
    /\ UNCHANGED <<rootfs, base, shared, crashes>>

\* The daemon dies, and its builds with it; what is on disk stays for those of the next.
Crash ==
    /\ crashes < MaxCrashes
    /\ crashes' = crashes + 1
    /\ pc' = [b \in Build |-> IF pc[b] \in {"idle", "done"} THEN pc[b] ELSE "failed"]
    /\ walk' = [b \in Build |-> {}]
    /\ UNCHANGED <<disk, rootfs, base, pos, failing, shared>>

Step(b) ==
    \/ Begin(b) \/ MkdirFails(b) \/ Mkdir(b)
    \/ ListWhiteouts(b) \/ ListLayer(b) \/ Merged(b) \/ ExtractionFails(b) \/ Rmdir(b)
    \/ \E e \in Entries : Untar(b, e) \/ ProcessWhiteout(b, e) \/ CopyFile(b, e) \/ Unlink(b, e)

Next == Crash \/ \E b \in Build : Step(b)

Spec == Init /\ [][Next]_vars

-------------------------------------------------------------------------------
(* Properties.                                                             *)

\* The types; a build is at one of its layers.
TypeOK ==
    /\ there \in [Layer -> BOOLEAN] /\ temp \in [Layer -> SUBSET Entries]
    /\ rootfs \in [Build -> [Entries -> Layer \cup {Nothing, Unknown}]]
    /\ base \in [Build -> Base]
    /\ pc \in [Build -> {"idle", "mkdir", "untar", "whiteouts", "merge", "rmtree", "retry",
                         "done", "failed"}]
    /\ walk \in [Build -> SUBSET Entries]
    /\ pos \in [Build -> Nat] /\ \A b \in Build : pos[b] \in DOMAIN base[b]
    /\ failing \in [Build -> BOOLEAN] /\ shared \in [Build -> BOOLEAN]
    /\ crashes \in 0 .. MaxCrashes

Says(l, p) == p \in Files[l] \cup Gone[l]

\* The tree has what the first k layers of s make of path p: the last that says something
\* of it has the say.
Overlaid(tree, s, k, p) ==
    \/ /\ \A n \in 1 .. k : ~Says(s[n], p)
       /\ tree[File(p)] = Nothing
    \/ \E n \in 1 .. k :
          /\ Says(s[n], p) /\ \A m \in n + 1 .. k : ~Says(s[m], p)
          /\ tree[File(p)] = IF p \in Files[s[n]] THEN s[n] ELSE Nothing

\* The rootfs has of path p what the image has, and no marker of it.
RightAt(b, p) ==
    Overlaid(rootfs[b], base[b], Len(base[b]), p) /\ rootfs[b][Marker(p)] = Nothing

\* The last layer of b that says something of p was passed over there.
PassedOver(b, p) == rootfs[b][File(p)] = Unknown /\ rootfs[b][Marker(p)] = Nothing

\* A build whose layers no other was extracting at the same time gets the image, but for the
\* files at which an error was passed over and that no later layer replaced; also when it has
\* found in the cache what a build before it, or a daemon that died, left.
ExtractedAlone ==
    \A b \in Build, p \in Path :
        pc[b] = "done" /\ ~shared[b] => RightAt(b, p) \/ PassedOver(b, p)

\* However builds get into each other's way, the last one takes the directory with it.
NoLeftovers ==
    \A l \in Layer :
        there[l] \/ temp[l] # {} => crashes > 0 \/ \E b \in Build : Inside(b) /\ Current(b) = l

\* "WHEN multiple build operations run concurrently THEN the Derpyd SHALL isolate their
\* filesystem operations to prevent conflicts" (.kiro/specs/daemon-socket-support/
\* requirements.md): an extraction that nothing went wrong in, and that is reported as
\* successful, is.
ExtractedWhole ==
    \A b \in Build, p \in Path : pc[b] = "done" => RightAt(b, p) \/ PassedOver(b, p)

\* "Raises: BaseImageError: If extraction fails" (the docstring of extract_base_image): one that
\* does not raise, with no other in its way, has given the whole image.
DoneIsWhole ==
    \A b \in Build : pc[b] = "done" /\ ~shared[b] => \A p \in Path : RightAt(b, p)
================================================================================
