-------------------------- MODULE BuildRootfs_proofs --------------------------
(***************************************************************************)
(* Proofs about BuildRootfs, for any set of paths and any number of RUNs:  *)
(* the types, the round trip of plain changes through snapshots, layers    *)
(* and extraction, and the cleaning up.                                    *)
(***************************************************************************)
EXTENDS BuildRootfs, TLAPS

-------------------------------------------------------------------------------
(* Nodes.                                                                  *)

\* The kinds of node are different.
LEMMA NodesDistinct ==
    /\ None # Dir /\ None # DirLink /\ None # DeadLink
    /\ Dir # DirLink /\ Dir # DeadLink /\ DirLink # DeadLink
    /\ {None, Dir, DirLink, DeadLink} \cap Files = {}
    /\ None.kind = "none" /\ Dir.kind = "dir"
    /\ \A n \in Files : n.kind = "file"
BY DEF None, Dir, DirLink, DeadLink, Files, File

\* What is neither nothing nor a directory nor a link is a file.
LEMMA NodeKinds ==
    ASSUME NEW n \in Node, n \notin {None, Dir, DirLink, DeadLink}
    PROVE  n \in Files
BY DEF Node

-------------------------------------------------------------------------------
(* The operators on trees keep trees.                                      *)

LEMMA SnapshotIsTree ==
    ASSUME NEW T \in Tree
    PROVE  Snapshot(T) \in Tree
BY DEF Snapshot, Tree, Node

LEMMA LayerTypes ==
    ASSUME NEW T \in Tree, NEW b \in Tree
    PROVE  /\ Layer(T, b).members \in Tree
           /\ Layer(T, b).whiteouts \subseteq Path
BY SnapshotIsTree DEF Layer, Tree, Node, Deleted

\* Where a layer can be untarred, the directory it is untarred to is a tree.
LEMMA UntarredIsTree ==
    ASSUME NEW layer, layer.members \in Tree, Untars(layer)
    PROVE  Untarred(layer) \in Tree /\ WellFormed(Untarred(layer))
<1> DEFINE L == Untarred(layer)
<1>1. L \in Tree
  BY DEF Untarred, Tree, Node
<1>2. ASSUME NEW p \in Path, L[p] # None, NEW r \in Above[p]
      PROVE  L[r] = Dir
  <2>1. r \in Path /\ Above[r] \subseteq Above[p]
    BY PathAssumption
  <2>2. PICK q \in Path : Holds(layer, q) /\ r \in Above[q]
    <3>1. CASE layer.members[p] # None
      BY <3>1 DEF Holds
    <3>2. CASE layer.members[p] = None
      <4>1. PICK q \in Below(p) : Holds(layer, q)
        BY <1>2, <3>2 DEF Untarred
      <4>2. q \in Path /\ p \in Above[q]
        BY <4>1 DEF Below
      <4>3. r \in Above[q]
        BY <4>2, <1>2, PathAssumption
      <4> QED BY <4>1, <4>2, <4>3
    <3> QED BY <3>1, <3>2
  <2>3. layer.members[r] \in {None, Dir}
    BY <2>2 DEF Untars
  <2>4. q \in Below(r)
    BY <2>2 DEF Below
  <2> QED BY <2>1, <2>2, <2>3, <2>4 DEF Untarred
<1> QED BY <1>1, <1>2 DEF WellFormed

LEMMA WhiteoutIsTree ==
    ASSUME NEW T \in Tree, WellFormed(T), NEW layer
    PROVE  Whiteout(T, layer) \in Tree /\ WellFormed(Whiteout(T, layer))
<1> DEFINE W == Whiteout(T, layer)
<1>1. W \in Tree
  BY DEF Whiteout, Tree, Node
<1>2. ASSUME NEW p \in Path, W[p] # None, NEW r \in Above[p]
      PROVE  W[r] = Dir
  <2>1. r \in Path /\ Above[r] \subseteq Above[p]
    BY PathAssumption
  <2>2. ({p} \cup Above[p]) \cap layer.whiteouts = {} /\ T[p] # None
    BY <1>2 DEF Whiteout
  <2>3. ({r} \cup Above[r]) \cap layer.whiteouts = {}
    BY <1>2, <2>1, <2>2
  <2>4. T[r] = Dir
    BY <2>2 DEF WellFormed
  <2> QED BY <2>1, <2>3, <2>4 DEF Whiteout
<1> QED BY <1>1, <1>2 DEF WellFormed

\* If _merge_layer does not raise, what it leaves is a tree.
LEMMA MergeIsTree ==
    ASSUME NEW T \in Tree, WellFormed(T), NEW L \in Tree, WellFormed(L), Merges(T, L)
    PROVE  Merge(T, L) \in Tree /\ WellFormed(Merge(T, L))
<1> DEFINE M == Merge(T, L)
<1>1. M \in Tree
  BY DEF Merge, Tree, Node
<1>2. ASSUME NEW p \in Path, M[p] # None, NEW r \in Above[p]
      PROVE  M[r] = Dir
  <2>1. r \in Path /\ Above[r] \subseteq Above[p] /\ p \in Below(r)
    BY PathAssumption DEF Below
  <2>2. L[p] # None => L[r] = Dir
    BY DEF WellFormed
  <2>3. CASE L[p] = Dir
    <3>1. L[r] = Dir
      BY <2>2, <2>3, NodesDistinct
    <3>2. ~InTheWay(T, L, r)
      BY <2>1, <2>3 DEF Merges
    <3> QED BY <2>1, <3>1, <3>2 DEF Merge, InTheWay
  <2>4. CASE L[p] # Dir /\ L[p] # None
    <3>1. L[r] = Dir
      BY <2>2, <2>4
    <3>2. ~InTheWay(T, L, r)
      BY <1>2, <2>4 DEF Merge
    <3> QED BY <2>1, <3>1, <3>2 DEF Merge, InTheWay
  <2>5. CASE L[p] = None
    <3>1. \A q \in Above[p] : L[q] \in {None, Dir}
      BY <1>2, <2>5, NodesDistinct DEF Merge
    <3>2. M[p] = T[p]
      BY <2>5, <3>1, NodesDistinct DEF Merge
    <3>3. T[r] = Dir
      BY <1>2, <3>2 DEF WellFormed
    <3>4. \A q \in Above[r] : L[q] \in {None, Dir}
      BY <2>1, <3>1
    <3> QED BY <2>1, <3>1, <3>3, <3>4, NodesDistinct DEF Merge
  <2> QED BY <2>3, <2>4, <2>5
<1> QED BY <1>1, <1>2 DEF WellFormed

\* An image that can be extracted is extracted to a tree.
LEMMA ExtractIsTree ==
    ASSUME NEW T \in Tree, WellFormed(T), NEW layer, layer.members \in Tree, Extracts(T, layer)
    PROVE  Extract(T, layer) \in Tree /\ WellFormed(Extract(T, layer))
<1>1. Whiteout(T, layer) \in Tree /\ WellFormed(Whiteout(T, layer))
  BY WhiteoutIsTree
<1>2. Untarred(layer) \in Tree /\ WellFormed(Untarred(layer))
  BY UntarredIsTree DEF Extracts
<1>3. Merges(Whiteout(T, layer), Untarred(layer))
  BY DEF Extracts
<1> QED BY <1>1, <1>2, <1>3, MergeIsTree DEF Extract

-------------------------------------------------------------------------------
(* Plain changes survive the round trip.                                   *)

NoLinks(T) == \A p \in Path : T[p] \notin {DirLink, DeadLink}

\* A snapshot of a tree without links to directories leaves nothing out.
LEMMA SnapshotExact ==
    ASSUME NEW T \in Tree, NoLinks(T)
    PROVE  Snapshot(T) = T
BY DEF NoLinks, Snapshot, Tree

\* What a plain change says of one path: it is in the layer as it is in the rootfs now,
\* or whited out, or as it was; and it was of the same kind before, if it was there.
LEMMA PlainPath ==
    ASSUME NEW b \in Tree, NEW T \in Tree, NoLinks(b), PlainChange(T, b), NEW p \in Path
    PROVE  /\ Layer(T, b).members[p] \in {None, T[p]}
           /\ T[p] # None /\ b[p] # None => (T[p] = Dir <=> b[p] = Dir)
           /\ p \in Layer(T, b).whiteouts <=> b[p] # None /\ T[p] = None
           /\ Layer(T, b).members[p] = None /\ p \notin Layer(T, b).whiteouts => T[p] = b[p]
<1> DEFINE layer == Layer(T, b)
<1>1. NoLinks(T)
  BY DEF PlainChange, NoLinks
<1>2. Snapshot(T) = T
  BY <1>1, SnapshotExact
<1>3. T[p] \in {None, Dir} \cup Files /\ b[p] \in {None, Dir} \cup Files
  BY <1>1, NodeKinds DEF NoLinks, Tree
<1>4. layer.members[p] = IF p \in Changed(b, T) THEN T[p] ELSE None
  BY <1>1, <1>2 DEF Layer, NoLinks
<1>5. layer.whiteouts = Deleted(b, T)
  BY <1>2 DEF Layer
<1>6. T[p] # None /\ b[p] # None => T[p].kind = b[p].kind
  BY DEF PlainChange
<1>7. T[p] # None /\ b[p] # None => (T[p] = Dir <=> b[p] = Dir)
  BY <1>3, <1>6, NodesDistinct
<1>8. ASSUME layer.members[p] = None, p \notin layer.whiteouts
      PROVE  T[p] = b[p]
  <2>1. p \notin Changed(b, T)
    BY <1>4, <1>8 DEF Changed, Added
  <2>2. b[p] = None <=> T[p] = None
    BY <2>1, <1>5, <1>8 DEF Changed, Added, Deleted
  <2>3. CASE T[p] = Dir
    BY <2>2, <2>3, <1>7, NodesDistinct
  <2>4. CASE T[p] \in Files
    <3>1. b[p] \in Files
      BY <2>2, <2>4, <1>3, <1>7, NodesDistinct
    <3>2. T[p].data = b[p].data
      BY <2>1, <2>2, <2>4, <3>1, NodesDistinct DEF Changed, Modified
    <3> QED BY <2>4, <3>1, <3>2 DEF PlainChange
  <2> QED BY <1>3, <2>2, <2>3, <2>4
<1> QED BY <1>4, <1>5, <1>7, <1>8 DEF Deleted

\* What PlainPath says of a layer, of every path.
PlainLayer(T, b, layer) ==
    \A p \in Path :
        /\ layer.members[p] \in {None, T[p]}
        /\ T[p] # None /\ b[p] # None => (T[p] = Dir <=> b[p] = Dir)
        /\ p \in layer.whiteouts <=> b[p] # None /\ T[p] = None
        /\ layer.members[p] = None /\ p \notin layer.whiteouts => T[p] = b[p]

\* The directories above what is in the layer are in the tree after.
LEMMA PlainHolds ==
    ASSUME NEW b \in Tree, NEW T \in Tree, WellFormed(b), WellFormed(T), PlainChange(T, b),
           NEW layer, PlainLayer(T, b, layer),
           NEW p \in Path, Holds(layer, p), NEW q \in Above[p]
    PROVE  T[q] = Dir
<1>1. q \in Path /\ p \in Below(q)
  BY PathAssumption DEF Below
<1>2. CASE layer.members[p] # None
  <2>1. T[p] # None
    BY <1>2 DEF PlainLayer
  <2> QED BY <2>1 DEF WellFormed
<1>3. CASE p \in layer.whiteouts
  <2>1. b[p] # None
    BY <1>3 DEF PlainLayer
  <2>2. b[q] = Dir
    BY <2>1 DEF WellFormed
  <2>3. T[q] # None
    BY <1>1, <2>1, <2>2 DEF PlainChange
  <2>4. T[q] # None /\ b[q] # None => (T[q] = Dir <=> b[q] = Dir)
    BY <1>1 DEF PlainLayer
  <2> QED BY <2>2, <2>3, <2>4, NodesDistinct
<1> QED BY <1>2, <1>3 DEF Holds

\* A plain layer is untarred to what is in it and the directories above, as in the tree
\* after; and its whiteouts take away exactly what is in the tree before and not after.
LEMMA PlainUntarred ==
    ASSUME NEW b \in Tree, NEW T \in Tree, WellFormed(b), WellFormed(T), PlainChange(T, b),
           NEW layer, PlainLayer(T, b, layer)
    PROVE  /\ Untars(layer)
           /\ \A p \in Path : Untarred(layer)[p] \in {None, T[p]}
           /\ \A p \in Path : Whiteout(b, layer)[p] = IF p \in layer.whiteouts THEN None ELSE b[p]
<1>1. ASSUME NEW p \in Path, Holds(layer, p), NEW q \in Above[p]
      PROVE  layer.members[q] \in {None, Dir}
  <2>1. T[q] = Dir /\ q \in Path
    BY <1>1, PlainHolds, PathAssumption
  <2> QED BY <2>1 DEF PlainLayer
<1>2. ASSUME NEW p \in Path
      PROVE  Untarred(layer)[p] \in {None, T[p]}
  <2>1. CASE layer.members[p] # None
    <3>1. layer.members[p] = T[p]
      BY <2>1 DEF PlainLayer
    <3> QED BY <2>1, <3>1 DEF Untarred
  <2>2. CASE layer.members[p] = None /\ \E q \in Below(p) : Holds(layer, q)
    <3>1. PICK q \in Below(p) : Holds(layer, q)
      BY <2>2
    <3>2. q \in Path /\ p \in Above[q]
      BY <3>1 DEF Below
    <3>3. T[p] = Dir
      BY <3>1, <3>2, PlainHolds
    <3> QED BY <2>2, <3>3 DEF Untarred
  <2>3. CASE layer.members[p] = None /\ ~ \E q \in Below(p) : Holds(layer, q)
    BY <2>3 DEF Untarred
  <2> QED BY <2>1, <2>2, <2>3
<1>3. ASSUME NEW p \in Path
      PROVE  Whiteout(b, layer)[p] = IF p \in layer.whiteouts THEN None ELSE b[p]
  <2>1. ASSUME NEW q \in Above[p], q \in layer.whiteouts
        PROVE  b[p] = None
    <3>1. q \in Path /\ p \in Below(q)
      BY PathAssumption DEF Below
    <3>2. b[q] # None /\ T[q] = None
      BY <2>1, <3>1 DEF PlainLayer
    <3>3. b[p] # None => b[q] = Dir
      BY DEF WellFormed
    <3> QED BY <3>1, <3>2, <3>3 DEF PlainChange
  <2> QED BY <2>1 DEF Whiteout
<1> QED BY <1>1, <1>2, <1>3 DEF Untars

\* A plain layer can be extracted on top of the tree before, and gives the tree after.
LEMMA PlainExtract ==
    ASSUME NEW b \in Tree, NEW T \in Tree, WellFormed(b), WellFormed(T), PlainChange(T, b),
           NEW layer, PlainLayer(T, b, layer)
    PROVE  Extracts(b, layer) /\ Extract(b, layer) = T
<1> DEFINE L == Untarred(layer)
           W == Whiteout(b, layer)
<1>1. /\ Untars(layer)
      /\ \A p \in Path : L[p] \in {None, T[p]}
      /\ \A p \in Path : W[p] = IF p \in layer.whiteouts THEN None ELSE b[p]
  BY PlainUntarred
<1>2. \A p \in Path : L[p] = None => layer.members[p] = None
  BY DEF Untarred
<1> HIDE DEF L, W
<1>3. ASSUME NEW p \in Path
      PROVE  ~InTheWay(W, L, p)
  <2> SUFFICES ASSUME L[p] = Dir
               PROVE  W[p] \in {None, Dir}
    BY DEF InTheWay
  <2>1. T[p] = Dir
    BY <1>1, NodesDistinct
  <2>2. b[p] # None => b[p] = Dir
    BY <2>1, NodesDistinct DEF PlainLayer
  <2> QED BY <1>1, <2>2
<1>4. Merges(W, L)
  BY <1>3 DEF Merges
<1>5. ASSUME NEW p \in Path
      PROVE  Merge(W, L)[p] = T[p]
  <2>0. Above[p] \subseteq Path
    BY PathAssumption
  <2>1. CASE L[p] = Dir
    <3>1. T[p] = Dir /\ W[p] \in {None, Dir}
      BY <1>1, <1>3, <2>1, NodesDistinct DEF InTheWay
    <3> QED BY <2>1, <3>1 DEF Merge
  <2>2. CASE L[p] # Dir /\ L[p] # None
    <3>1. \A q \in Above[p] : ~InTheWay(W, L, q)
      BY <1>3, <2>0
    <3> QED BY <1>1, <2>2, <3>1 DEF Merge
  <2>3. CASE L[p] = None /\ \E q \in Above[p] : L[q] \notin {None, Dir}
    <3>1. PICK q \in Above[p] : L[q] \notin {None, Dir}
      BY <2>3
    <3>2. T[q] # Dir
      BY <1>1, <2>0, <3>1
    <3>3. T[p] = None
      BY <3>2 DEF WellFormed
    <3> QED BY <2>3, <3>3, NodesDistinct DEF Merge
  <2>4. CASE L[p] = None /\ \A q \in Above[p] : L[q] \in {None, Dir}
    <3>1. layer.members[p] = None
      BY <1>2, <2>4
    <3>2. W[p] = T[p]
      BY <1>1, <3>1 DEF PlainLayer
    <3>3. Merge(W, L)[p] = W[p]
      BY <2>4, NodesDistinct DEF Merge
    <3> QED BY <3>2, <3>3
  <2> QED BY <2>1, <2>2, <2>3, <2>4
<1>6. Merge(W, L) = T
  <2>1. Merge(W, L) = [p \in Path |-> Merge(W, L)[p]]
    BY DEF Merge
  <2>2. T = [p \in Path |-> T[p]]
    BY DEF Tree
  <2> QED BY <1>5, <2>1, <2>2
<1> QED BY <1>1, <1>4, <1>6 DEF Extracts, Extract, L, W

\* An empty difference means an unchanged tree; and otherwise the layer can be extracted
\* on top of the tree before, and gives the tree after.
LEMMA PlainRoundTrip ==
    ASSUME NEW b \in Tree, NEW T \in Tree, WellFormed(b), WellFormed(T), NoLinks(b),
           PlainChange(T, b)
    PROVE  /\ NoChange(T, b) => T = b
           /\ Extracts(b, Layer(T, b))
           /\ Extract(b, Layer(T, b)) = T
<1>1. PlainLayer(T, b, Layer(T, b))
  BY PlainPath DEF PlainLayer
<1>2. ASSUME NoChange(T, b)
      PROVE  T = b
  <2>1. \A p \in Path : Layer(T, b).members[p] = None /\ p \notin Layer(T, b).whiteouts
    BY <1>2 DEF NoChange, Layer
  <2>2. \A p \in Path : T[p] = b[p]
    BY <1>1, <2>1 DEF PlainLayer
  <2> QED BY <2>2 DEF Tree
<1> QED BY <1>1, <1>2, PlainExtract

-------------------------------------------------------------------------------
(* The build.                                                              *)

\* Changing one node keeps a tree, if the node has directories above it and nothing below.
LEMMA EditIsTree ==
    ASSUME NEW T \in Tree, WellFormed(T), NEW p \in Path, NEW n \in Node,
           \A q \in Above[p] : T[q] = Dir,
           \A q \in Below(p) : T[q] = None
    PROVE  [T EXCEPT ![p] = n] \in Tree /\ WellFormed([T EXCEPT ![p] = n])
<1> DEFINE U == [T EXCEPT ![p] = n]
<1>1. U \in Tree
  BY DEF Tree
<1>2. ASSUME NEW r \in Path, U[r] # None, NEW q \in Above[r]
      PROVE  U[q] = Dir
  <2>1. q \in Path
    BY PathAssumption
  <2>2. r # p => q # p
    <3> SUFFICES ASSUME r # p, q = p
                 PROVE  FALSE
      OBVIOUS
    <3>1. r \in Below(p)
      BY DEF Below
    <3> QED BY <1>2, <3>1 DEF Tree
  <2>3. r = p => q # p
    BY PathAssumption
  <2>4. T[q] = Dir
    BY <1>2 DEF WellFormed, Tree
  <2> QED BY <2>1, <2>2, <2>3, <2>4 DEF Tree
<1> QED BY <1>1, <1>2 DEF WellFormed

\* Neither resolv.conf nor its backup has anything above or below it here.
LEMMA ConfAlone ==
    /\ Conf \in Path /\ Backup \in Path
    /\ Above[Conf] = {} /\ Above[Backup] = {}
    /\ Below(Conf) = {} /\ Below(Backup) = {}
BY PathAssumption DEF Below

\* The types are right, and what the rootfs and the image hold are trees: no step of the
\* build, no change of a command and no layer that can be extracted leaves a file below
\* something that is not a directory.
THEOREM TypeCorrect == Spec => []TypeOK
<1>1. Init => TypeOK
  <2>1. Empty \in Tree /\ WellFormed(Empty)
    BY DEF Empty, Tree, Node, WellFormed
  <2>2. 0 \in 0..MaxRuns
    BY RunsAssumption
  <2>3. Init => mounts \in [Mount -> Nat]
    BY DEF Init
  <2> QED BY <2>1, <2>2, <2>3 DEF Init, TypeOK, WellFormed, Working
<1>2. TypeOK /\ [Next]_vars => TypeOK'
  <2> SUFFICES ASSUME TypeOK, [Next]_vars
               PROVE  TypeOK'
    OBVIOUS
  <2>1. CASE From
    <3>1. \A T \in BaseTree : T \in Tree /\ WellFormed(T)
      BY DEF BaseTree, Tree, Node
    <3> QED BY <2>1, <3>1 DEF From, TypeOK, At, Working, cleaning, WellFormed
  <2>2. CASE BeginRun
    <3>1. Snapshot(rootfs) \in Tree
      BY SnapshotIsTree DEF TypeOK
    <3> QED BY <2>2, <3>1, RunsAssumption DEF BeginRun, TypeOK, At, Working, Mount, cleaning
  <2>3. CASE MountNext
    <3>1. PICK m \in Mount :
            /\ At(m, AfterMount[m])
            /\ \/ m \in Mounted /\ UNCHANGED <<mounts, trouble>>
               \/ /\ mounts' = [mounts EXCEPT ![m] = @ + 1]
                  /\ trouble' = (trouble \/ m \in Mounted)
      BY <2>3 DEF MountNext
    <3>2. mounts' \in [Mount -> Nat] /\ trouble' \in BOOLEAN
      <4>1. mounts' \in [Mount -> Nat]
        BY <3>1 DEF TypeOK
      <4>2. trouble' \in BOOLEAN
        BY <3>1 DEF TypeOK
      <4> QED BY <4>1, <4>2
    <3>3. pc' \in Working
      BY <3>1 DEF At, AfterMount, Mount, Working
    <3> QED BY <2>3, <3>2, <3>3 DEF MountNext, TypeOK, trees, WellFormed
  <2>4. CASE CopyConf
    <3> DEFINE U == IF rootfs[Conf] # None THEN [rootfs EXCEPT ![Backup] = rootfs[Conf]] ELSE rootfs
    <3>1. rootfs[Conf] \in Node /\ File(HostData, "plain") \in Node
      BY ConfAlone, RunsAssumption DEF TypeOK, Tree, Node, Files, Mode
    <3>2. U \in Tree /\ WellFormed(U)
      BY <3>1, ConfAlone, EditIsTree DEF TypeOK
    <3>3. rootfs' = [U EXCEPT ![Conf] = File(HostData, "plain")]
      BY <2>4, ConfAlone, PathAssumption DEF CopyConf, TypeOK, Tree
    <3> HIDE DEF U
    <3>4. rootfs' \in Tree /\ WellFormed(rootfs')
      BY <3>1, <3>2, <3>3, ConfAlone, EditIsTree
    <3>5. WellFormed(rootfs)'
      BY <3>4 DEF WellFormed
    <3> QED BY <2>4, <3>4, <3>5 DEF CopyConf, TypeOK, At, Working, cleaning
  <2>5. CASE Edit
    <3>1. PICK p \in Touched, n \in Node :
            /\ \A q \in Above[p] : rootfs[q] = Dir
            /\ \A q \in Below(p) : rootfs[q] = None
            /\ rootfs' = [rootfs EXCEPT ![p] = n]
      BY <2>5 DEF Edit
    <3>2. p \in Path
      BY PathAssumption
    <3>3. rootfs' \in Tree /\ WellFormed(rootfs')
      BY <3>1, <3>2, EditIsTree DEF TypeOK
    <3> QED BY <2>5, <3>3 DEF Edit, TypeOK, WellFormed, cleaning
  <2>6. CASE CommandEnds
    BY <2>6 DEF CommandEnds, TypeOK, At, Working, trees, cleaning, WellFormed
  <2>7. CASE Capture
    <3>1. image' \in Tree /\ WellFormed(image') /\ usable' \in BOOLEAN
      <4>1. CASE image' = image /\ usable' \in BOOLEAN
        BY <4>1 DEF TypeOK
      <4>2. CASE /\ Extracts(image, Layer(rootfs, before))
                 /\ image' = Extract(image, Layer(rootfs, before)) /\ usable' = usable
        <5>1. Layer(rootfs, before).members \in Tree
          BY LayerTypes DEF TypeOK
        <5> QED BY <4>2, <5>1, ExtractIsTree DEF TypeOK
      <4> QED BY <2>7, <4>1, <4>2 DEF Capture, TypeOK
    <3>2. Empty \in Tree
      BY DEF Empty, Tree, Node
    <3>3. plain' \in BOOLEAN
      BY <2>7 DEF Capture, TypeOK, PlainChange
    <3> QED BY <2>7, <3>1, <3>2, <3>3 DEF Capture, TypeOK, At, Working, cleaning, WellFormed
  <2>8. CASE Succeed
    BY <2>8 DEF Succeed, TypeOK, At, trees, cleaning, WellFormed
  <2>9. CASE Fail
    BY <2>9 DEF Fail, TypeOK, trees, cleaning, WellFormed
  <2>10. CASE Interrupt
    BY <2>10 DEF Interrupt, TypeOK, trees, cleaning, WellFormed
  <2>11. CASE Unmount
    <3>1. rootfs' \in Tree /\ WellFormed(rootfs')
      <4>1. CASE UNCHANGED rootfs
        BY <4>1 DEF TypeOK
      <4>2. CASE rootfs' = [rootfs EXCEPT ![Conf] = rootfs[Backup], ![Backup] = None]
        <5> DEFINE U == [rootfs EXCEPT ![Conf] = rootfs[Backup]]
        <5>1. rootfs[Backup] \in Node /\ None \in Node
          BY ConfAlone DEF TypeOK, Tree, Node
        <5>2. U \in Tree /\ WellFormed(U)
          BY <5>1, ConfAlone, EditIsTree DEF TypeOK
        <5>3. rootfs' = [U EXCEPT ![Backup] = None]
          BY <4>2
        <5> HIDE DEF U
        <5> QED BY <5>1, <5>2, <5>3, ConfAlone, EditIsTree
      <4> QED BY <2>11, <4>1, <4>2 DEF Unmount
    <3>2. mounts' \in [Mount -> Nat] /\ trouble' \in BOOLEAN
      <4>1. ASSUME NEW done \in SUBSET Mounted
            PROVE  [m \in Mount |-> IF m \in done THEN mounts[m] - 1 ELSE mounts[m]]
                      \in [Mount -> Nat]
        BY DEF TypeOK, Mounted
      <4> QED BY <2>11, <4>1 DEF Unmount, TypeOK
    <3>3. pc' \in {"remove", "over"} /\ warned' \in BOOLEAN
      BY <2>11 DEF Unmount, TypeOK
    <3> QED BY <2>11, <3>1, <3>2, <3>3 DEF Unmount, TypeOK, WellFormed
  <2>12. CASE Remove
    <3>1. Empty \in Tree /\ WellFormed(Empty)
      BY DEF Empty, Tree, Node, WellFormed
    <3>2. spoilt' \subseteq Mount /\ gone' \in BOOLEAN /\ warned' \in BOOLEAN
      BY <2>12 DEF Remove, TypeOK, Mounted
    <3> QED BY <2>12, <3>1, <3>2 DEF Remove, TypeOK, At, WellFormed
  <2>13. CASE UNCHANGED vars
    BY <2>13 DEF TypeOK, vars, trees, cleaning, WellFormed
  <2> QED BY <2>1, <2>2, <2>3, <2>4, <2>5, <2>6, <2>7, <2>8, <2>9, <2>10, <2>11, <2>12, <2>13
        DEF Next
<1> QED BY <1>1, <1>2, PTL DEF Spec

\* What the proof of LayersReproduce carries: the trees it compares have no links.
PlainInv ==
    plain => /\ usable
             /\ pc = "next" => image = rootfs /\ NoLinks(rootfs)
             /\ pc \in {"conf", "run", "capture"} \cup Mount => image = before /\ NoLinks(before)

\* However many RUNs there are and whatever paths they change: while the changes are plain,
\* extracting the layers gives the rootfs that the commands have left.
THEOREM PlainChangesReproduced == Spec => []LayersReproduce
<1>1. Init => PlainInv
  BY DEF Init, PlainInv, Mount
<1>2. TypeOK /\ PlainInv /\ [Next]_vars => PlainInv'
  <2> SUFFICES ASSUME TypeOK, PlainInv, [Next]_vars, plain'
               PROVE  PlainInv'
    BY DEF PlainInv
  <2>1. CASE From
    <3>1. \A T \in BaseTree : NoLinks(T)
      BY NodesDistinct DEF BaseTree, NoLinks
    <3> QED BY <2>1, <3>1 DEF From, PlainInv, At, Mount, NoLinks
  <2>2. CASE BeginRun
    <3>1. plain /\ NoLinks(rootfs) /\ image = rootfs
      BY <2>2 DEF BeginRun, At, PlainInv
    <3>2. Snapshot(rootfs) = rootfs
      BY <3>1, SnapshotExact DEF TypeOK
    <3> QED BY <2>2, <3>1, <3>2 DEF BeginRun, PlainInv, At, Mount, NoLinks
  <2>3. CASE MountNext
    BY <2>3 DEF MountNext, PlainInv, At, AfterMount, Mount, trees, NoLinks
  <2>4. CASE CopyConf
    BY <2>4 DEF CopyConf, PlainInv, At, Mount, NoLinks
  <2>5. CASE Edit
    BY <2>5 DEF Edit, PlainInv, NoLinks
  <2>6. CASE CommandEnds
    BY <2>6 DEF CommandEnds, PlainInv, At, Mount, trees, NoLinks
  <2>7. CASE Capture
    <3>1. plain /\ PlainChange(rootfs, before)
      BY <2>7 DEF Capture
    <3>2. usable /\ image = before /\ NoLinks(before) /\ WellFormed(before)
      BY <2>7, <3>1 DEF Capture, At, Mount, PlainInv, TypeOK
    <3>3. /\ NoChange(rootfs, before) => rootfs = before
          /\ Extracts(before, Layer(rootfs, before))
          /\ Extract(before, Layer(rootfs, before)) = rootfs
      BY <3>1, <3>2, PlainRoundTrip DEF TypeOK
    <3>4. usable' /\ image' = rootfs
      BY <2>7, <3>2, <3>3 DEF Capture
    <3>5. NoLinks(rootfs)
      BY <3>1 DEF PlainChange, NoLinks
    <3> QED BY <2>7, <3>4, <3>5 DEF Capture, At, Mount, PlainInv, NoLinks
  <2>8. CASE Succeed
    BY <2>8 DEF Succeed, PlainInv, At, Mount, trees
  <2>9. CASE Fail
    BY <2>9 DEF Fail, PlainInv, Mount, trees
  <2>10. CASE Interrupt
    BY <2>10 DEF Interrupt, PlainInv, Mount, trees
  <2>11. CASE Unmount
    BY <2>11 DEF Unmount, PlainInv, Mount
  <2>12. CASE Remove
    BY <2>12 DEF Remove, PlainInv, At, Mount
  <2>13. CASE UNCHANGED vars
    BY <2>13 DEF PlainInv, vars, trees, cleaning, NoLinks
  <2> QED BY <2>1, <2>2, <2>3, <2>4, <2>5, <2>6, <2>7, <2>8, <2>9, <2>10, <2>11, <2>12, <2>13
        DEF Next
<1>3. PlainInv => LayersReproduce
  BY DEF PlainInv, LayersReproduce
<1> QED BY <1>1, <1>2, <1>3, TypeCorrect, PTL DEF Spec

\* What the proof of DeletedFilesGone carries: the same of the snapshot before the RUN in
\* progress.
GoneInv ==
    usable =>
        /\ pc = "next" =>
              \A p \in Path : Snapshot(rootfs)[p] = None => image[p] \notin Files
        /\ pc \in {"conf", "run", "capture"} \cup Mount =>
              \A p \in Path : before[p] = None => image[p] \notin Files

\* A path that is not in the snapshot after a RUN is no file in what the image is
\* extracted to with that RUN's layer, if it was none when the snapshot before had nothing.
LEMMA DeletedNotExtracted ==
    ASSUME NEW T \in Tree, NEW b \in Tree, NEW I, NEW p \in Path,
           Snapshot(T)[p] = None,
           b[p] = None => I[p] \notin Files
    PROVE  /\ NoChange(T, b) => I[p] \notin Files
           /\ Extract(I, Layer(T, b))[p] \notin Files
<1> DEFINE W == Whiteout(I, Layer(T, b))
           L == Untarred(Layer(T, b))
<1>1. NoChange(T, b) => b[p] = None
  BY DEF NoChange, Deleted
<1>2. b[p] # None => p \in Layer(T, b).whiteouts
  BY DEF Layer, Deleted
<1>3. Layer(T, b).members[p] = None
  BY DEF Layer
<1>4. W[p] \notin Files
  BY <1>2, NodesDistinct DEF Whiteout
<1>5. L[p] \in {None, Dir}
  BY <1>3 DEF Untarred
<1> HIDE DEF W, L
<1>6. Merge(W, L)[p] \notin Files
  BY <1>4, <1>5, NodesDistinct DEF Merge
<1> QED BY <1>1, <1>6 DEF Extract, W, L

\* No file that commands have deleted comes back when the image is extracted, be their
\* changes plain or not, as long as it can be extracted.
THEOREM DeletedFilesStayGone == Spec => []DeletedFilesGone
<1>1. Init => GoneInv
  BY DEF Init, GoneInv, Mount
<1>2. TypeOK /\ GoneInv /\ [Next]_vars => GoneInv'
  <2> SUFFICES ASSUME TypeOK, GoneInv, [Next]_vars, usable'
               PROVE  GoneInv'
    BY DEF GoneInv
  <2>1. CASE From
    <3>1. ASSUME NEW T \in BaseTree, NEW p \in Path, Snapshot(T)[p] = None
          PROVE  T[p] \notin Files
      BY <3>1, NodesDistinct DEF Snapshot
    <3> QED BY <2>1, <3>1 DEF From, GoneInv, At, Mount
  <2>2. CASE BeginRun
    BY <2>2 DEF BeginRun, GoneInv, At, Mount
  <2>3. CASE MountNext
    BY <2>3 DEF MountNext, GoneInv, At, AfterMount, Mount, trees
  <2>4. CASE CopyConf
    BY <2>4 DEF CopyConf, GoneInv, At, Mount
  <2>5. CASE Edit
    BY <2>5 DEF Edit, GoneInv
  <2>6. CASE CommandEnds
    BY <2>6 DEF CommandEnds, GoneInv, At, Mount, trees
  <2>7. CASE Capture
    <3>1. usable /\ \A p \in Path : before[p] = None => image[p] \notin Files
      BY <2>7 DEF Capture, At, Mount, GoneInv
    <3>2. \/ NoChange(rootfs, before) /\ image' = image
          \/ image' = Extract(image, Layer(rootfs, before))
      BY <2>7, <3>1 DEF Capture
    <3>3. ASSUME NEW p \in Path, Snapshot(rootfs)[p] = None
          PROVE  image'[p] \notin Files
      BY <3>1, <3>2, <3>3, DeletedNotExtracted DEF TypeOK
    <3>4. rootfs' = rootfs /\ pc' = "next"
      BY <2>7 DEF Capture, At
    <3> QED BY <3>3, <3>4 DEF GoneInv, Mount
  <2>8. CASE Succeed
    BY <2>8 DEF Succeed, GoneInv, At, Mount, trees
  <2>9. CASE Fail
    BY <2>9 DEF Fail, GoneInv, Mount, trees
  <2>10. CASE Interrupt
    BY <2>10 DEF Interrupt, GoneInv, Mount, trees
  <2>11. CASE Unmount
    BY <2>11 DEF Unmount, GoneInv, Mount
  <2>12. CASE Remove
    BY <2>12 DEF Remove, GoneInv, At, Mount
  <2>13. CASE UNCHANGED vars
    BY <2>13 DEF GoneInv, vars, trees, cleaning
  <2> QED BY <2>1, <2>2, <2>3, <2>4, <2>5, <2>6, <2>7, <2>8, <2>9, <2>10, <2>11, <2>12, <2>13
        DEF Next
<1>3. TypeOK /\ GoneInv => DeletedFilesGone
  <2> SUFFICES ASSUME TypeOK, GoneInv, usable, pc = "next", NEW p \in Path, rootfs[p] = None
               PROVE  image[p] \notin Files
    BY DEF DeletedFilesGone
  <2>1. Snapshot(rootfs)[p] = None
    BY DEF Snapshot
  <2> QED BY <2>1 DEF GoneInv
<1> QED BY <1>1, <1>2, <1>3, TypeCorrect, PTL DEF Spec

\* What the proof of CleanedUp carries: without trouble nothing is mounted twice, all
\* three are mounted one after the other, and none is when rmtree runs.
CleanInv ==
    /\ ~trouble =>
          /\ \A m \in Mount : mounts[m] <= 1
          /\ pc = "remove" => Mounted = {}
    /\ pc # "over" => spoilt = {}
    /\ CleanedUp

\* Every build that ends in a result, whichever step it fails at, has removed its rootfs
\* or has warned that it has not; and without trouble with a mount nothing stays mounted
\* and nothing mounted is touched, even if rmtree fails (_cleanup_rootfs).
THEOREM BuildsCleanUp == Spec => []CleanedUp
<1>1. Init => CleanInv
  BY DEF Init, CleanInv, CleanedUp
<1>2. TypeOK /\ CleanInv /\ [Next]_vars => CleanInv'
  <2> SUFFICES ASSUME TypeOK, CleanInv, [Next]_vars
               PROVE  CleanInv'
    OBVIOUS
  <2>1. CASE From \/ BeginRun \/ CopyConf \/ Edit \/ CommandEnds \/ Capture \/ Succeed \/ Fail
    <3>1. /\ pc # "over" /\ pc' \notin {"remove", "over"}
          /\ UNCHANGED <<mounts, trouble, spoilt>>
      BY <2>1 DEF From, BeginRun, CopyConf, Edit, CommandEnds, Capture, Succeed, Fail, At,
                  cleaning, Working, Mount
    <3> QED BY <3>1 DEF CleanInv, CleanedUp, Mounted
  <2>2. CASE MountNext
    <3>1. PICK m \in Mount :
            /\ At(m, AfterMount[m])
            /\ \/ m \in Mounted /\ UNCHANGED <<mounts, trouble>>
               \/ /\ mounts' = [mounts EXCEPT ![m] = @ + 1]
                  /\ trouble' = (trouble \/ m \in Mounted)
      BY <2>2 DEF MountNext
    <3>2. pc # "over" /\ pc' \notin {"remove", "over"} /\ UNCHANGED spoilt
      BY <2>2, <3>1 DEF MountNext, At, AfterMount, Mount
    <3>3. ASSUME ~trouble', NEW n \in Mount
          PROVE  mounts'[n] <= 1
      <4>1. /\ ~trouble
            /\ \/ UNCHANGED mounts
               \/ m \notin Mounted /\ mounts' = [mounts EXCEPT ![m] = @ + 1]
        <5>1. CASE UNCHANGED <<mounts, trouble>>
          BY <3>3, <5>1
        <5>2. CASE /\ mounts' = [mounts EXCEPT ![m] = @ + 1]
                   /\ trouble' = (trouble \/ m \in Mounted)
          <6>1. ~trouble /\ m \notin Mounted
            BY <3>3, <5>2
          <6> QED BY <5>2, <6>1
        <5> QED BY <3>1, <5>1, <5>2
      <4>2. mounts \in [Mount -> Nat] /\ \A k \in Mount : mounts[k] <= 1
        BY <4>1 DEF CleanInv, TypeOK
      <4> QED BY <4>1, <4>2 DEF Mounted
    <3> QED BY <3>2, <3>3 DEF CleanInv, CleanedUp
  <2>3. CASE Interrupt
    <3>1. UNCHANGED <<mounts, trouble>> /\ pc' = "over" /\ result' = "interrupted"
      BY <2>3 DEF Interrupt, cleaning
    <3> QED BY <3>1 DEF CleanInv, CleanedUp
  <2>4. CASE Unmount
    <3>1. pc # "over" /\ UNCHANGED spoilt
      BY <2>4 DEF Unmount
    <3>2. CASE pc' = "over" /\ trouble' = TRUE /\ warned' = TRUE
      BY <3>1, <3>2 DEF CleanInv, CleanedUp
    <3>3. ASSUME NEW done \in SUBSET Mounted,
                 pc' = "remove", trouble' = (trouble \/ done # Mounted),
                 mounts' = [m \in Mount |-> IF m \in done THEN mounts[m] - 1 ELSE mounts[m]]
          PROVE  CleanInv'
      <4>1. ASSUME ~trouble', NEW n \in Mount
            PROVE  mounts'[n] = 0
        <5>1. ~trouble /\ done = Mounted
          BY <3>3, <4>1
        <5>2. mounts \in [Mount -> Nat] /\ \A k \in Mount : mounts[k] <= 1
          BY <5>1 DEF CleanInv, TypeOK
        <5> QED BY <3>3, <5>1, <5>2 DEF Mounted
      <4> QED BY <3>1, <3>3, <4>1 DEF CleanInv, CleanedUp, Mounted
    <3> QED BY <2>4, <3>2, <3>3 DEF Unmount
  <2>5. CASE Remove
    <3>1. /\ pc = "remove" /\ pc' = "over" /\ UNCHANGED <<mounts, trouble>>
          /\ gone' \/ warned'
          /\ spoilt' = spoilt \/ spoilt' \subseteq Mounted
      BY <2>5 DEF Remove, At
    <3>2. Mounted' = Mounted
      BY <3>1 DEF Mounted
    <3> QED BY <3>1, <3>2 DEF CleanInv, CleanedUp
  <2>6. CASE UNCHANGED vars
    BY <2>6 DEF CleanInv, CleanedUp, Mounted, vars, cleaning
  <2> QED BY <2>1, <2>2, <2>3, <2>4, <2>5, <2>6 DEF Next
<1>3. CleanInv => CleanedUp
  BY DEF CleanInv
<1> QED BY <1>1, <1>2, <1>3, TypeCorrect, PTL DEF Spec
===============================================================================
