------------------------- MODULE LayerExtraction_proofs -------------------------
(***************************************************************************)
(* Of LayerExtraction, for any builds, layers, images and paths: a build   *)
(* that shares no directory gets the image, up to the errors that were     *)
(* passed over, and the last build takes the directory of a layer with it. *)
(***************************************************************************)
EXTENDS LayerExtraction, TLAPS

\* What is in a directory is of its layer; so is what a build in it goes through.
TempInv == \A l \in Layer : temp[l] \subseteq Archive(l) /\ (there[l] \/ temp[l] = {})
WalkInv == \A b \in Build : Inside(b) => walk[b] \subseteq Archive(Current(b))

\* Somebody is going to remove entry e of the directory of l.
Removed(l, e) ==
    \E b \in Build : Current(b) = l /\ (Extracting(b) \/ (Removing(b) /\ e \in walk[b]))

LeftInv ==
    crashes = 0 => \A l \in Layer :
        /\ there[l] => \E b \in Build : Inside(b) /\ Current(b) = l
        /\ \A e \in temp[l] : Removed(l, e)

\* Two builds in one directory know of each other.
SharedInv ==
    \A b, c \in Build : b # c /\ Inside(b) /\ Inside(c) /\ Current(b) = Current(c) => shared[b]

\* The tree has what the layers before the current one, or with it, make of path p, if an
\* error there was not passed over.
Doubtful(b, p) == rootfs[b][File(p)] = Unknown
Below(b, p) == Doubtful(b, p) \/ Overlaid(rootfs[b], base[b], pos[b] - 1, p)
Upto(b, p) == Doubtful(b, p) \/ Overlaid(rootfs[b], base[b], pos[b], p)

\* How far an undisturbed build has come with path p.
PathInv(b, p) ==
    /\ rootfs[b][Marker(p)] = Nothing
    /\ pc[b] \in {"idle", "mkdir", "untar"} => Below(b, p)
    /\ pc[b] = "whiteouts" =>
          IF p \in Gone[Current(b)] /\ Marker(p) \notin walk[b]
          THEN rootfs[b][File(p)] \in {Nothing, Unknown} ELSE Below(b, p)
    /\ pc[b] = "merge" =>
          IF p \in Gone[Current(b)] THEN rootfs[b][File(p)] \in {Nothing, Unknown}
          ELSE IF p \in Files[Current(b)] /\ File(p) \notin walk[b]
          THEN rootfs[b][File(p)] \in {Current(b), Unknown} ELSE Below(b, p)
    /\ Removing(b) /\ ~failing[b] => Upto(b, p)
    /\ pc[b] = "done" => Upto(b, p) /\ pos[b] = Len(base[b])

\* What an undisturbed build finds in the directory.
OwnInv(b) ==
    /\ pc[b] = "idle" => pos[b] = 1
    /\ pc[b] = "untar" => Archive(Current(b)) \ walk[b] \subseteq temp[Current(b)]
    /\ pc[b] = "whiteouts" =>
          /\ \A e \in Archive(Current(b)) :
                e \in temp[Current(b)] <=> e.kind = "file" \/ e \in walk[b]
          /\ \A e \in walk[b] : e.kind = "whiteout"
    /\ pc[b] = "merge" =>
          /\ \A e \in Archive(Current(b)) : e \in temp[Current(b)] <=> e.kind = "file"
          /\ \A e \in walk[b] : e.kind = "file"

PhaseInv(b) == ~shared[b] => OwnInv(b) /\ \A p \in Path : PathInv(b, p)

Inv == TypeOK /\ TempInv /\ WalkInv /\ LeftInv /\ SharedInv /\ \A b \in Build : PhaseInv(b)

-------------------------------------------------------------------------------
LEMMA EntryFacts ==
    \A p, q : /\ File(p).kind = "file" /\ File(p).path = p
              /\ Marker(p).kind = "whiteout" /\ Marker(p).path = p
              /\ File(p) # Marker(q) /\ (File(p) = File(q) => p = q) /\ (Marker(p) = Marker(q) => p = q)
BY DEF File, Marker

LEMMA ArchiveFacts ==
    ASSUME NEW l \in Layer
    PROVE  /\ Archive(l) \subseteq Entries
           /\ \A p : File(p) \in Archive(l) <=> p \in Files[l]
           /\ \A p : Marker(p) \in Archive(l) <=> p \in Gone[l]
           /\ \A e \in Archive(l) : \/ e.kind = "file" /\ e.path \in Files[l] /\ e = File(e.path)
                                    \/ e.kind = "whiteout" /\ e.path \in Gone[l] /\ e = Marker(e.path)
<1>1. Archive(l) \subseteq Entries
  BY ExtractionAssumption DEF Archive, Entries, File, Marker
<1>2. \A p : File(p) \in Archive(l) <=> p \in Files[l]
  BY EntryFacts DEF Archive
<1>3. \A p : Marker(p) \in Archive(l) <=> p \in Gone[l]
  BY EntryFacts DEF Archive
<1>4. ASSUME NEW e \in Archive(l)
      PROVE  \/ e.kind = "file" /\ e.path \in Files[l] /\ e = File(e.path)
             \/ e.kind = "whiteout" /\ e.path \in Gone[l] /\ e = Marker(e.path)
  BY EntryFacts DEF Archive
<1> QED
  BY <1>1, <1>2, <1>3, <1>4

LEMMA CurrentTyped ==
    ASSUME TypeOK, NEW b \in Build
    PROVE  /\ Current(b) \in Layer /\ base[b] \in Seq(Layer) /\ base[b] # <<>>
           /\ Len(base[b]) \in Nat /\ DOMAIN base[b] = 1 .. Len(base[b]) /\ pos[b] \in DOMAIN base[b]
<1>1. base[b] \in Seq(Layer) /\ base[b] # <<>> /\ pos[b] \in DOMAIN base[b]
  BY ExtractionAssumption DEF TypeOK
<1>2. Len(base[b]) \in Nat /\ DOMAIN base[b] = 1 .. Len(base[b]) /\ base[b][pos[b]] \in Layer
  BY <1>1
<1> QED
  BY <1>1, <1>2 DEF Current

\* The last layer has the say.
LEMMA OverlaidStep ==
    ASSUME NEW s, NEW tree, NEW p, NEW k \in Nat \ {0},
           \/ ~Says(s[k], p) /\ Overlaid(tree, s, k - 1, p)
           \/ p \in Gone[s[k]] /\ p \notin Files[s[k]] /\ tree[File(p)] = Nothing
           \/ p \in Files[s[k]] /\ tree[File(p)] = s[k]
    PROVE  Overlaid(tree, s, k, p)
<1>0. k \in 1 .. k /\ k + 1 .. k = {} /\ 1 .. k = (1 .. k - 1) \cup {k}
  OBVIOUS
<1>1. CASE ~Says(s[k], p) /\ Overlaid(tree, s, k - 1, p)
  <2>1. CASE (\A n \in 1 .. k - 1 : ~Says(s[n], p)) /\ tree[File(p)] = Nothing
    BY <1>0, <1>1, <2>1 DEF Overlaid
  <2>2. CASE \E n \in 1 .. k - 1 :
                /\ Says(s[n], p) /\ \A m \in n + 1 .. k - 1 : ~Says(s[m], p)
                /\ tree[File(p)] = IF p \in Files[s[n]] THEN s[n] ELSE Nothing
    <3>1. PICK n \in 1 .. k - 1 :
                /\ Says(s[n], p) /\ \A m \in n + 1 .. k - 1 : ~Says(s[m], p)
                /\ tree[File(p)] = IF p \in Files[s[n]] THEN s[n] ELSE Nothing
      BY <2>2
    <3>2. n + 1 .. k = (n + 1 .. k - 1) \cup {k} /\ n \in 1 .. k
      OBVIOUS
    <3>3. \A m \in n + 1 .. k : ~Says(s[m], p)
      BY <1>1, <3>1, <3>2
    <3> QED
      BY <3>1, <3>2, <3>3 DEF Overlaid
  <2> QED
    BY <1>1, <2>1, <2>2 DEF Overlaid
<1>2. CASE p \in Gone[s[k]] /\ p \notin Files[s[k]] /\ tree[File(p)] = Nothing
  BY <1>0, <1>2 DEF Overlaid, Says
<1>3. CASE p \in Files[s[k]] /\ tree[File(p)] = s[k]
  BY <1>0, <1>3 DEF Overlaid, Says
<1> QED
  BY <1>1, <1>2, <1>3

\* Only what the tree has of p matters.
LEMMA OverlaidKept ==
    ASSUME NEW s, NEW t, NEW u, NEW p, NEW k, Overlaid(t, s, k, p), u[File(p)] = t[File(p)]
    PROVE  Overlaid(u, s, k, p)
BY DEF Overlaid

LEMMA InitInv == ASSUME Init PROVE Inv
<1>1. TypeOK
  <2>1. \A b \in Build : base[b] \in Seq(Layer) \ {<<>>}
    BY ExtractionAssumption DEF Init
  <2>2. \A b \in Build : pos[b] \in DOMAIN base[b]
    <3> SUFFICES ASSUME NEW b \in Build PROVE 1 \in DOMAIN base[b]
      BY DEF Init
    <3>1. base[b] \in Seq(Layer) /\ base[b] # <<>>
      BY <2>1
    <3> QED
      BY <3>1
  <2> QED
    BY <2>2, ExtractionAssumption DEF Init, TypeOK
<1>2. TempInv /\ LeftInv
  BY DEF Init, TempInv, LeftInv
<1>3. \A b \in Build : pc[b] = "idle" /\ pos[b] = 1
  BY DEF Init
<1>4. \A b \in Build : ~Inside(b)
  BY <1>3 DEF Inside, Extracting, Removing
<1>5. \A b \in Build, p \in Path : Marker(p) \in Entries /\ File(p) \in Entries
  BY DEF Marker, File, Entries
<1>6. \A b \in Build, p \in Path : rootfs[b][Marker(p)] = Nothing /\ rootfs[b][File(p)] = Nothing
  BY <1>5 DEF Init
<1>7. 1 .. 1 - 1 = {}
  OBVIOUS
<1>8. \A b \in Build, p \in Path : Below(b, p)
  BY <1>3, <1>6, <1>7 DEF Below, Doubtful, Overlaid
<1>9. \A b \in Build : PhaseInv(b)
  BY <1>3, <1>4, <1>6, <1>8 DEF PhaseInv, OwnInv, PathInv, Inside
<1> QED
  BY <1>1, <1>2, <1>4, <1>9 DEF Inv, WalkInv, SharedInv

-------------------------------------------------------------------------------
(* What a step of one build leaves alone.                                  *)

\* The step of o in its own directory.
Change(o) ==
    /\ \A b \in Build \ {o} :
          /\ rootfs'[b] = rootfs[b] /\ pos'[b] = pos[b] /\ pc'[b] = pc[b]
          /\ walk'[b] = walk[b] /\ failing'[b] = failing[b]
    /\ \A b \in Build : shared[b] => shared'[b]
    /\ base' = base /\ crashes' = crashes
    /\ \A l \in Layer \ {Current(o)} : there'[l] = there[l] /\ temp'[l] = temp[l]
    /\ Inside(o) \/ temp' = temp

PcType == {"idle", "mkdir", "untar", "whiteouts", "merge", "rmtree", "retry", "done", "failed"}

\* Where a build goes from a layer.
LEMMA LeaveFacts ==
    ASSUME TypeOK, NEW o \in Build, Leave(o)
    PROVE  /\ pc' \in [Build -> PcType]
           /\ walk' \in [Build -> SUBSET Entries] /\ walk'[o] = {}
           /\ \A b \in Build \ {o} : pc'[b] = pc[b] /\ walk'[b] = walk[b] /\ pos'[b] = pos[b]
           /\ pos' \in [Build -> Nat] /\ \A b \in Build : pos'[b] \in DOMAIN base[b]
           /\ \/ failing'[o] /\ pc'[o] = "failed" /\ pos'[o] = pos[o]
              \/ ~failing'[o] /\ pos[o] = Len(base[o]) /\ pc'[o] = "done" /\ pos'[o] = pos[o]
              \/ ~failing'[o] /\ pc'[o] = "mkdir" /\ pos'[o] = pos[o] + 1
<1>1. walk' \in [Build -> SUBSET Entries] /\ walk'[o] = {} /\ \A b \in Build \ {o} : walk'[b] = walk[b]
  BY DEF Leave, TypeOK
<1>2. \A b \in Build : DOMAIN base[b] = 1 .. Len(base[b]) /\ Len(base[b]) \in Nat /\ pos[b] \in DOMAIN base[b]
  BY CurrentTyped
<1>3. pc \in [Build -> PcType] /\ pos \in [Build -> Nat]
  BY DEF TypeOK, PcType
<1>4. CASE failing'[o]
  BY <1>1, <1>2, <1>3, <1>4 DEF Leave, PcType
<1>5. CASE ~failing'[o] /\ pos[o] = Len(base[o])
  BY <1>1, <1>2, <1>3, <1>5 DEF Leave, PcType
<1>6. CASE ~failing'[o] /\ pos[o] # Len(base[o])
  <2>1. pos' = [pos EXCEPT ![o] = @ + 1] /\ pc' = [pc EXCEPT ![o] = "mkdir"]
    BY <1>6 DEF Leave
  <2>2. pos[o] + 1 \in DOMAIN base[o] /\ pos[o] + 1 \in Nat
    BY <1>2, <1>6
  <2>3. pos' \in [Build -> Nat] /\ pos'[o] = pos[o] + 1 /\ \A b \in Build \ {o} : pos'[b] = pos[b]
    BY <1>3, <2>1, <2>2
  <2>4. pc' \in [Build -> PcType] /\ pc'[o] = "mkdir" /\ \A b \in Build \ {o} : pc'[b] = pc[b]
    BY <1>3, <2>1 DEF PcType
  <2>5. \A b \in Build : pos'[b] \in DOMAIN base[b]
    BY <1>2, <2>2, <2>3
  <2> QED
    BY <1>1, <1>6, <2>3, <2>4, <2>5
<1> QED
  BY <1>4, <1>5, <1>6

LEMMA PhaseFacts ==
    ASSUME TypeOK, NEW o \in Build, NEW phase \in PcType, NEW entries \in SUBSET Entries,
           Phase(o, phase, entries)
    PROVE  /\ pc' \in [Build -> PcType] /\ walk' \in [Build -> SUBSET Entries]
           /\ pc'[o] = phase /\ walk'[o] = entries
           /\ \A b \in Build \ {o} : pc'[b] = pc[b] /\ walk'[b] = walk[b]
BY DEF Phase, TypeOK, PcType

\* The end of an extraction: the removal begins, or there is nothing to remove.
LEMMA FinallyFacts ==
    ASSUME TypeOK, TempInv, NEW o \in Build, Finally(o)
    PROVE  /\ disk' = disk /\ rootfs' = rootfs /\ base' = base /\ shared' = shared /\ crashes' = crashes
           /\ pc' \in [Build -> PcType] /\ walk' \in [Build -> SUBSET Entries]
           /\ pos' \in [Build -> Nat] /\ \A b \in Build : pos'[b] \in DOMAIN base[b]
           /\ \A b \in Build \ {o} : pc'[b] = pc[b] /\ walk'[b] = walk[b] /\ pos'[b] = pos[b]
           /\ \/ pc'[o] = "rmtree" /\ walk'[o] = temp[Current(o)] /\ pos'[o] = pos[o]
              \/ Leave(o) /\ ~there[Current(o)] /\ temp[Current(o)] = {}
<1>1. Current(o) \in Layer /\ temp[Current(o)] \in SUBSET Entries
  BY CurrentTyped DEF TypeOK
<1>2. disk' = disk /\ rootfs' = rootfs /\ base' = base /\ shared' = shared /\ crashes' = crashes
  BY DEF Finally
<1>3. CASE there[Current(o)]
  <2>1. Phase(o, "rmtree", temp[Current(o)]) /\ pos' = pos
    BY <1>3 DEF Finally
  <2> QED
    BY <1>1, <1>2, <2>1, PhaseFacts DEF PcType, TypeOK
<1>4. CASE ~there[Current(o)]
  <2>1. Leave(o)
    BY <1>4 DEF Finally
  <2>2. temp[Current(o)] = {}
    BY <1>1, <1>4 DEF TempInv
  <2> QED
    BY <1>2, <1>4, <2>1, <2>2, LeaveFacts
<1> QED
  BY <1>3, <1>4

\* The second rmtree.
LEMMA AgainFacts ==
    ASSUME TypeOK, NEW o \in Build, RmtreeAgain(o)
    PROVE  /\ pc' \in [Build -> PcType] /\ walk' \in [Build -> SUBSET Entries]
           /\ pc'[o] = "retry" /\ walk'[o] = temp[Current(o)] /\ disk' = disk /\ pos' = pos
           /\ \A b \in Build \ {o} : pc'[b] = pc[b] /\ walk'[b] = walk[b]
<1>1. temp[Current(o)] \in SUBSET Entries
  BY CurrentTyped DEF TypeOK
<1> QED
  BY <1>1, PhaseFacts DEF RmtreeAgain, PcType

\* Somebody is going to remove entry e of the directory that o has worked in.
Leaving(o, e) ==
    \E b \in Build :
        Current(b)' = Current(o) /\ (Extracting(b)' \/ (Removing(b)' /\ e \in walk'[b]))

\* What a step has to do to keep the invariant, when it is taken in a directory.
LEMMA Assembled ==
    ASSUME Inv, NEW o \in Build, Change(o), TypeOK', TempInv',
           Inside(o)' => walk'[o] \subseteq Archive(Current(o)'),
           \* of what is left in the directory,
           crashes = 0 => /\ there'[Current(o)] => \E b \in Build : Inside(b)' /\ Current(b)' = Current(o)
                          /\ \A e \in temp'[Current(o)] : Leaving(o, e),
           \* of those who are in it,
           \/ ~Inside(o)'
           \/ Inside(o) /\ pos'[o] = pos[o]
           \/ \A b \in Build \ {o} : Inside(b) /\ Current(b) = Current(o)' => shared'[b] /\ shared'[o],
           \* and of how far o has come.
           PhaseInv(o)'
    PROVE  Inv'
<1>0. /\ \A b \in Build \ {o} : Current(b)' = Current(b) /\ (Inside(b)' <=> Inside(b))
                                /\ (Extracting(b)' <=> Extracting(b)) /\ (Removing(b)' <=> Removing(b))
      /\ \A b \in Build : Current(b) \in Layer
  BY CurrentTyped DEF Change, Current, Inside, Extracting, Removing, Inv
<1>1. WalkInv'
  BY <1>0 DEF WalkInv, Inv, Change
<1>2. LeftInv'
  <2> SUFFICES ASSUME crashes = 0, NEW l \in Layer
               PROVE  /\ there'[l] => \E b \in Build : Inside(b)' /\ Current(b)' = l
                      /\ \A e \in temp'[l] : Removed(l, e)'
    BY DEF LeftInv, Change
  <2>1. CASE l = Current(o)
    BY <2>1, <1>0 DEF Leaving, Removed
  <2>2. CASE l # Current(o)
    <3>1. there'[l] = there[l] /\ temp'[l] = temp[l]
      BY <2>2 DEF Change
    <3>2. there[l] => \E b \in Build \ {o} : Inside(b) /\ Current(b) = l
      BY <2>2 DEF Inv, LeftInv
    <3>3. ASSUME NEW e \in temp[l] PROVE Removed(l, e)'
      <4>1. PICK b \in Build \ {o} : Current(b) = l /\ (Extracting(b) \/ (Removing(b) /\ e \in walk[b]))
        BY <2>2 DEF Inv, LeftInv, Removed
      <4>2. walk'[b] = walk[b]
        BY DEF Change
      <4> QED
        BY <4>1, <4>2, <1>0 DEF Removed
    <3> QED
      BY <3>1, <3>2, <3>3, <1>0
  <2> QED
    BY <2>1, <2>2
<1>3. SharedInv'
  <2> SUFFICES ASSUME NEW b \in Build, NEW c \in Build, b # c, Inside(b)', Inside(c)',
                      Current(b)' = Current(c)'
               PROVE  shared'[b]
    BY DEF SharedInv
  <2>0. \A d \in Build : shared[d] => shared'[d]
    BY DEF Change
  <2>1. CASE b # o /\ c # o
    BY <2>1, <2>0, <1>0 DEF Inv, SharedInv
  <2>2. CASE (b = o \/ c = o) /\ Inside(o) /\ pos'[o] = pos[o]
    <3>1. Current(o)' = Current(o)
      BY <2>2 DEF Current, Change
    <3> QED
      BY <2>0, <2>2, <3>1, <1>0 DEF Inv, SharedInv
  <2>3. CASE (b = o \/ c = o) /\ \A d \in Build \ {o} : Inside(d) /\ Current(d) = Current(o)' => shared'[d] /\ shared'[o]
    BY <2>3, <1>0
  <2> QED
    BY <2>1, <2>2, <2>3
<1>4. ASSUME NEW b \in Build \ {o} PROVE PhaseInv(b)'
  <2> SUFFICES ASSUME ~shared'[b] PROVE OwnInv(b)' /\ \A p \in Path : PathInv(b, p)'
    BY DEF PhaseInv
  <2>1. /\ ~shared[b] /\ OwnInv(b) /\ \A p \in Path : PathInv(b, p)
        /\ rootfs'[b] = rootfs[b] /\ pos'[b] = pos[b] /\ pc'[b] = pc[b]
        /\ walk'[b] = walk[b] /\ failing'[b] = failing[b] /\ base' = base
    BY DEF Change, Inv, PhaseInv
  <2>2. ASSUME Inside(b) PROVE temp'[Current(b)] = temp[Current(b)]
    <3>1. ~Inside(o) \/ Current(o) # Current(b)
      BY <2>1, <2>2 DEF Inv, SharedInv
    <3> QED
      BY <3>1, <1>0 DEF Change
  <2>3. OwnInv(b)'
    <3>1. pc[b] \in {"untar", "whiteouts", "merge"} => temp'[Current(b)] = temp[Current(b)]
      BY <2>2 DEF Inside, Extracting
    <3> DEFINE l == Current(b)
               t == temp[l]
    <3>2. l' = l
      BY <1>0
    <3>3. CASE pc[b] \in {"untar", "whiteouts", "merge"}
      <4>1. t' = t
        BY <3>1, <3>2, <3>3
      <4> HIDE DEF l, t
      <4> QED
        BY <2>1, <3>2, <3>3, <4>1 DEF OwnInv, l, t
    <3>4. CASE pc[b] \notin {"untar", "whiteouts", "merge"}
      BY <2>1, <3>4 DEF OwnInv
    <3> QED
      BY <3>3, <3>4
  <2>4. \A p \in Path : PathInv(b, p)'
    BY <2>1, <1>0 DEF PathInv, Below, Upto, Doubtful, Removing
  <2> QED
    BY <2>3, <2>4
<1>5. \A b \in Build : PhaseInv(b)'
  BY <1>4
<1> QED
  BY <1>1, <1>2, <1>3, <1>5 DEF Inv

-------------------------------------------------------------------------------
(* The steps.                                                              *)

\* Types of what most steps change.
LEMMA Typed ==
    ASSUME TypeOK, base' = base, crashes' = crashes,
           there' \in [Layer -> BOOLEAN], temp' \in [Layer -> SUBSET Entries],
           rootfs' \in [Build -> [Entries -> Layer \cup {Nothing, Unknown}]],
           pc' \in [Build -> PcType], walk' \in [Build -> SUBSET Entries],
           pos' \in [Build -> Nat], \A b \in Build : pos'[b] \in DOMAIN base[b],
           failing' \in [Build -> BOOLEAN], shared' \in [Build -> BOOLEAN]
    PROVE  TypeOK'
BY DEF TypeOK, PcType

\* Begin, and an end before there is a directory.
LEMMA OutsideInv ==
    ASSUME Inv, NEW o \in Build, Begin(o) \/ MkdirFails(o)
    PROVE  Inv'
<1>1. /\ UNCHANGED <<there, temp, rootfs, base, pos, walk, failing, shared, crashes>>
      /\ \/ pc[o] = "idle" /\ pc' = [pc EXCEPT ![o] = "mkdir"]
         \/ pc[o] = "mkdir" /\ pc' = [pc EXCEPT ![o] = "failed"]
  BY DEF Begin, MkdirFails, disk
<1>2. TypeOK /\ pc \in [Build -> PcType]
  BY DEF Inv, TypeOK, PcType
<1>3. /\ pc' \in [Build -> PcType] /\ \A b \in Build \ {o} : pc'[b] = pc[b]
      /\ \/ pc[o] = "idle" /\ pc'[o] = "mkdir"
         \/ pc[o] = "mkdir" /\ pc'[o] = "failed"
  BY <1>1, <1>2 DEF PcType
<1>4. ~Inside(o) /\ ~Inside(o)'
  BY <1>3 DEF Inside, Extracting, Removing
<1>5. TypeOK'
  BY <1>1, <1>2, <1>3, Typed DEF TypeOK
<1>6. Change(o) /\ TempInv'
  BY <1>1, <1>3 DEF Change, Inv, TempInv
<1>7. \A b \in Build : Inside(b) => Inside(b)' /\ Current(b)' = Current(b) /\ Extracting(b)' = Extracting(b)
                                    /\ Removing(b)' = Removing(b)
  BY <1>1, <1>3, <1>4 DEF Current, Inside, Extracting, Removing
<1>8. crashes = 0 => /\ there'[Current(o)] => \E b \in Build : Inside(b)' /\ Current(b)' = Current(o)
                     /\ \A e \in temp'[Current(o)] : Leaving(o, e)
  <2>1. Current(o) \in Layer
    BY <1>2, CurrentTyped
  <2>2. ASSUME crashes = 0 PROVE there'[Current(o)] => \E b \in Build : Inside(b)' /\ Current(b)' = Current(o)
    BY <2>1, <2>2, <1>1, <1>7 DEF Inv, LeftInv
  <2>3. ASSUME crashes = 0, NEW e \in temp'[Current(o)] PROVE Leaving(o, e)
    <3>1. Removed(Current(o), e)
      BY <2>1, <2>3, <1>1 DEF Inv, LeftInv
    <3> QED
      BY <3>1, <1>1, <1>7 DEF Removed, Leaving, Inside
  <2> QED
    BY <2>2, <2>3
<1>9. PhaseInv(o)'
  BY <1>1, <1>3 DEF Inv, PhaseInv, OwnInv, PathInv, Below, Upto, Doubtful, Removing
<1> QED
  BY <1>4, <1>5, <1>6, <1>8, <1>9, Assembled

\* The steps of o within its directory leave it to be removed by o.
LEMMA StaysInside ==
    ASSUME NEW o \in Build, Extracting(o)', Current(o)' = Current(o)
    PROVE  /\ \E b \in Build : Inside(b)' /\ Current(b)' = Current(o)
           /\ \A e : Leaving(o, e)
BY DEF Inside, Leaving

LEMMA MkdirInv ==
    ASSUME Inv, NEW o \in Build, Mkdir(o)
    PROVE  Inv'
<1> DEFINE l == Current(o)
<1>1. /\ pc[o] = "mkdir" /\ there' = [there EXCEPT ![l] = TRUE]
      /\ UNCHANGED <<temp, rootfs, base, pos, failing, crashes>>
      /\ Phase(o, "untar", Archive(l)) /\ Meets(o)
  BY DEF Mkdir
<1>2. TypeOK /\ l \in Layer /\ Archive(l) \subseteq Entries
  BY CurrentTyped, ArchiveFacts DEF Inv
<1>3. /\ pc' \in [Build -> PcType] /\ walk' \in [Build -> SUBSET Entries]
      /\ pc'[o] = "untar" /\ walk'[o] = Archive(l)
      /\ \A b \in Build \ {o} : pc'[b] = pc[b] /\ walk'[b] = walk[b]
  BY <1>1, <1>2, PhaseFacts DEF PcType
<1>4. shared' \in [Build -> BOOLEAN] /\ \A b \in Build : shared[b] => shared'[b]
  <2>1. shared \in [Build -> BOOLEAN]
    BY <1>2 DEF TypeOK
  <2> DEFINE others == {c \in Build \ {o} : Inside(c) /\ Current(c) = Current(o)}
  <2>2. shared' = [b \in Build |-> shared[b] \/ b \in others \/ (b = o /\ others # {})]
    BY <1>1 DEF Meets
  <2> HIDE DEF others
  <2> QED
    BY <2>1, <2>2
<1>5. \A b \in Build \ {o} : Inside(b) /\ Current(b) = Current(o) => shared'[b] /\ shared'[o]
  BY <1>1 DEF Meets
<1>6. TypeOK'
  BY <1>1, <1>2, <1>3, <1>4, Typed DEF TypeOK
<1>7. Current(o)' = l /\ ~Inside(o) /\ Extracting(o)'
  BY <1>1, <1>3 DEF Current, Inside, Extracting, Removing
<1>8. Change(o)
  BY <1>1, <1>2, <1>3, <1>4 DEF Change, TypeOK
<1>9. TempInv'
  BY <1>1, <1>2 DEF Inv, TempInv, TypeOK
<1>10. PhaseInv(o)'
  <2>1. ~shared'[o] => \A p \in Path : PathInv(o, p)
    BY <1>4 DEF Inv, PhaseInv
  <2>2. OwnInv(o)'
    BY <1>3, <1>7 DEF OwnInv
  <2> QED
    BY <1>1, <1>3, <2>1, <2>2 DEF PhaseInv, PathInv, Below, Doubtful, Removing
<1>11. /\ \E b \in Build : Inside(b)' /\ Current(b)' = Current(o)
       /\ \A e : Leaving(o, e)
  BY <1>7, StaysInside
<1>12. walk'[o] \subseteq Archive(Current(o)')
  BY <1>3, <1>7
<1>13. \A b \in Build \ {o} : Inside(b) /\ Current(b) = Current(o)' => shared'[b] /\ shared'[o]
  BY <1>5, <1>7
<1> HIDE DEF l
<1> QED
  BY <1>6, <1>8, <1>9, <1>10, <1>11, <1>12, <1>13, Assembled

\* A step at one entry, or the listing of entries: o stays where it is, to remove what it leaves.
LEMMA EntryStep ==
    ASSUME Inv, NEW o \in Build, Extracting(o), Extracting(o)',
           UNCHANGED <<base, pos, failing, shared, crashes>>,
           NEW content \in SUBSET Archive(Current(o)), temp' = [temp EXCEPT ![Current(o)] = content],
           there' \in [Layer -> BOOLEAN], there'[Current(o)] \/ content = {},
           \A l \in Layer \ {Current(o)} : there'[l] = there[l],
           NEW tree \in [Entries -> Layer \cup {Nothing, Unknown}], rootfs' = [rootfs EXCEPT ![o] = tree],
           NEW phase \in PcType, NEW entries \in SUBSET Archive(Current(o)), Phase(o, phase, entries),
           ~shared[o] => OwnInv(o)' /\ \A p \in Path : PathInv(o, p)'
    PROVE  Inv'
<1>1. /\ TypeOK /\ Current(o) \in Layer /\ Archive(Current(o)) \subseteq Entries
      /\ content \in SUBSET Entries /\ entries \in SUBSET Entries
  BY CurrentTyped, ArchiveFacts DEF Inv
<1>2. /\ pc' \in [Build -> PcType] /\ walk' \in [Build -> SUBSET Entries]
      /\ pc'[o] = phase /\ walk'[o] = entries
      /\ \A b \in Build \ {o} : pc'[b] = pc[b] /\ walk'[b] = walk[b]
  BY <1>1, PhaseFacts
<1>3. /\ temp' \in [Layer -> SUBSET Entries] /\ temp'[Current(o)] = content
      /\ \A l \in Layer \ {Current(o)} : temp'[l] = temp[l]
  BY <1>1 DEF TypeOK
<1>4. /\ rootfs' \in [Build -> [Entries -> Layer \cup {Nothing, Unknown}]]
      /\ \A b \in Build \ {o} : rootfs'[b] = rootfs[b]
  BY <1>1 DEF TypeOK
<1>5. TypeOK'
  BY <1>1, <1>2, <1>3, <1>4, Typed DEF TypeOK
<1>6. Current(o)' = Current(o) /\ Inside(o)
  BY DEF Current, Inside
<1>7. Change(o)
  BY <1>2, <1>3, <1>4, <1>6 DEF Change
<1>8. TempInv'
  BY <1>1, <1>3 DEF Inv, TempInv
<1>9. walk'[o] \subseteq Archive(Current(o)') /\ pos'[o] = pos[o]
  BY <1>2, <1>6
<1>10. PhaseInv(o)'
  BY DEF PhaseInv
<1>11. /\ \E b \in Build : Inside(b)' /\ Current(b)' = Current(o)
       /\ \A e : Leaving(o, e)
  BY <1>6, StaysInside
<1> QED
  BY <1>5, <1>6, <1>7, <1>8, <1>9, <1>10, <1>11, Assembled

\* What all the steps of an extraction need.
LEMMA ExtractingFacts ==
    ASSUME Inv, NEW o \in Build, Extracting(o)
    PROVE  /\ TypeOK /\ Current(o) \in Layer /\ temp[Current(o)] \subseteq Archive(Current(o))
           /\ walk[o] \subseteq Archive(Current(o))
           /\ there[Current(o)] \/ temp[Current(o)] = {}
           /\ rootfs[o] \in [Entries -> Layer \cup {Nothing, Unknown}] /\ rootfs' = rootfs => rootfs' = [rootfs EXCEPT ![o] = rootfs[o]]
           /\ there \in [Layer -> BOOLEAN] /\ pc \in [Build -> PcType] /\ walk \in [Build -> SUBSET Entries]
           /\ temp \in [Layer -> SUBSET Entries] /\ rootfs \in [Build -> [Entries -> Layer \cup {Nothing, Unknown}]]
<1>1. TypeOK /\ Current(o) \in Layer
  BY CurrentTyped DEF Inv
<1>2. temp[Current(o)] \subseteq Archive(Current(o)) /\ walk[o] \subseteq Archive(Current(o))
      /\ (there[Current(o)] \/ temp[Current(o)] = {})
  BY <1>1 DEF Inv, TempInv, WalkInv, Inside
<1> QED
  BY <1>1, <1>2 DEF TypeOK, PcType

LEMMA UntarInv ==
    ASSUME Inv, NEW o \in Build, NEW e, Untar(o, e)
    PROVE  Inv'
<1> DEFINE l == Current(o)
<1>1. /\ pc[o] = "untar" /\ e \in walk[o]
      /\ there' = [there EXCEPT ![l] = TRUE] /\ temp' = [temp EXCEPT ![l] = @ \cup {e}]
      /\ walk' = [walk EXCEPT ![o] = @ \ {e}]
      /\ UNCHANGED <<rootfs, base, pos, pc, failing, shared, crashes>>
  BY DEF Untar
<1>2. Extracting(o) /\ Extracting(o)'
  BY <1>1 DEF Extracting
<1>3. /\ l \in Layer /\ temp[l] \subseteq Archive(l) /\ walk[o] \subseteq Archive(l)
      /\ rootfs[o] \in [Entries -> Layer \cup {Nothing, Unknown}] /\ rootfs' = [rootfs EXCEPT ![o] = rootfs[o]]
      /\ there \in [Layer -> BOOLEAN] /\ pc \in [Build -> PcType] /\ walk \in [Build -> SUBSET Entries]
      /\ temp \in [Layer -> SUBSET Entries]
  BY <1>1, <1>2, ExtractingFacts
<1>4. /\ temp' = [temp EXCEPT ![l] = temp[l] \cup {e}] /\ temp[l] \cup {e} \in SUBSET Archive(l)
      /\ Phase(o, "untar", walk[o] \ {e}) /\ walk[o] \ {e} \in SUBSET Archive(l)
  BY <1>1, <1>3 DEF Phase
<1>5. there' \in [Layer -> BOOLEAN] /\ there'[l] /\ \A m \in Layer \ {l} : there'[m] = there[m]
  BY <1>1, <1>3
<1>6. ASSUME ~shared[o] PROVE OwnInv(o)' /\ \A p \in Path : PathInv(o, p)'
  <2>1. OwnInv(o) /\ \A p \in Path : PathInv(o, p)
    BY <1>6 DEF Inv, PhaseInv
  <2>2. Current(o)' = l /\ temp'[l] = temp[l] \cup {e} /\ walk'[o] = walk[o] \ {e}
    BY <1>1, <1>3 DEF Current
  <2>3. Archive(l) \ walk[o] \subseteq temp[l]
    BY <1>1, <2>1 DEF OwnInv
  <2>4. Archive(Current(o)') \ walk'[o] \subseteq temp'[Current(o)']
    BY <2>2, <2>3
  <2> QED
    BY <1>1, <2>1, <2>4 DEF OwnInv, PathInv, Below, Doubtful, Removing
<1> HIDE DEF l
<1>7. "untar" \in PcType
  BY DEF PcType
<1> QED
  BY <1>1, <1>2, <1>3, <1>4, <1>5, <1>6, <1>7, EntryStep DEF l

\* The two listings.
LEMMA ListWhiteoutsInv ==
    ASSUME Inv, NEW o \in Build, ListWhiteouts(o)
    PROVE  Inv'
<1> DEFINE l == Current(o)
           markers == {e \in temp[l] : e.kind = "whiteout"}
<1>1. /\ pc[o] = "untar" /\ walk[o] = {} /\ Phase(o, "whiteouts", markers)
      /\ UNCHANGED <<there, temp, rootfs, base, pos, failing, shared, crashes>>
  BY DEF ListWhiteouts, disk
<1>2. Extracting(o)
  BY <1>1 DEF Extracting
<1>3. /\ TypeOK /\ l \in Layer /\ temp[l] \subseteq Archive(l) /\ (there[l] \/ temp[l] = {})
      /\ rootfs[o] \in [Entries -> Layer \cup {Nothing, Unknown}] /\ rootfs' = [rootfs EXCEPT ![o] = rootfs[o]]
      /\ there \in [Layer -> BOOLEAN] /\ temp \in [Layer -> SUBSET Entries]
  BY <1>1, <1>2, ExtractingFacts
<1>4. temp' = [temp EXCEPT ![l] = temp[l]]
  BY <1>1, <1>3
<1>5. markers \in SUBSET Archive(l) /\ markers \in SUBSET Entries
  BY <1>3, ArchiveFacts
<1>6. "whiteouts" \in PcType
  BY DEF PcType
<1>7. pc'[o] = "whiteouts" /\ walk'[o] = markers
  BY <1>1, <1>3, <1>5, <1>6, PhaseFacts
<1>8. Extracting(o)'
  BY <1>7 DEF Extracting
<1>9. ASSUME ~shared[o] PROVE OwnInv(o)' /\ \A p \in Path : PathInv(o, p)'
  <2>1. OwnInv(o) /\ \A p \in Path : PathInv(o, p)
    BY <1>9 DEF Inv, PhaseInv
  <2>2. Current(o)' = l /\ temp'[l] = temp[l] /\ temp[l] = Archive(l)
    BY <1>1, <1>3, <2>1 DEF Current, OwnInv
  <2>3. \A e \in Archive(l) : e.kind = "file" \/ e.kind = "whiteout"
    BY <1>3, ArchiveFacts
  <2>4. OwnInv(o)'
    BY <1>7, <2>2, <2>3 DEF OwnInv
  <2>5. ASSUME NEW p \in Path PROVE PathInv(o, p)'
    <3>1. p \in Gone[l] => Marker(p) \in markers
      BY <1>3, <2>2, ArchiveFacts, EntryFacts
    <3>2. PathInv(o, p)
      BY <2>1
    <3>3. Below(o, p) /\ rootfs[o][Marker(p)] = Nothing
      BY <3>2, <1>1 DEF PathInv
    <3>4. Below(o, p)' /\ rootfs'[o][Marker(p)] = Nothing
      BY <3>3, <1>1 DEF Below, Doubtful
    <3>5. ~(p \in Gone[Current(o)'] /\ Marker(p) \notin walk'[o])
      BY <3>1, <1>7, <2>2
    <3> QED
      BY <3>4, <3>5, <1>7 DEF PathInv, Removing
  <2> QED
    BY <2>4, <2>5
<1> HIDE DEF markers
<1> QED
  BY <1>1, <1>2, <1>3, <1>4, <1>5, <1>6, <1>8, <1>9, EntryStep

LEMMA ListLayerInv ==
    ASSUME Inv, NEW o \in Build, ListLayer(o)
    PROVE  Inv'
<1> DEFINE l == Current(o)
<1>1. /\ pc[o] = "whiteouts" /\ walk[o] = {} /\ Phase(o, "merge", temp[l])
      /\ UNCHANGED <<there, temp, rootfs, base, pos, failing, shared, crashes>>
  BY DEF ListLayer, disk
<1>2. Extracting(o)
  BY <1>1 DEF Extracting
<1>3. /\ TypeOK /\ l \in Layer /\ temp[l] \subseteq Archive(l) /\ (there[l] \/ temp[l] = {})
      /\ rootfs[o] \in [Entries -> Layer \cup {Nothing, Unknown}] /\ rootfs' = [rootfs EXCEPT ![o] = rootfs[o]]
      /\ there \in [Layer -> BOOLEAN] /\ temp \in [Layer -> SUBSET Entries]
  BY <1>1, <1>2, ExtractingFacts
<1>4. temp' = [temp EXCEPT ![l] = temp[l]]
  BY <1>1, <1>3
<1>5. temp[l] \in SUBSET Archive(l) /\ temp[l] \in SUBSET Entries
  BY <1>3, ArchiveFacts
<1>6. "merge" \in PcType
  BY DEF PcType
<1>7. pc'[o] = "merge" /\ walk'[o] = temp[l]
  BY <1>1, <1>3, <1>5, <1>6, PhaseFacts
<1>8. Extracting(o)'
  BY <1>7 DEF Extracting
<1>9. ASSUME ~shared[o] PROVE OwnInv(o)' /\ \A p \in Path : PathInv(o, p)'
  <2>1. OwnInv(o) /\ \A p \in Path : PathInv(o, p)
    BY <1>9 DEF Inv, PhaseInv
  <2>2. Current(o)' = l /\ temp'[l] = temp[l] /\ \A e \in Archive(l) : e \in temp[l] <=> e.kind = "file"
    BY <1>1, <2>1 DEF Current, OwnInv
  <2>3. OwnInv(o)'
    BY <1>3, <1>7, <2>2 DEF OwnInv
  <2>4. ASSUME NEW p \in Path PROVE PathInv(o, p)'
    <3>1. p \in Files[l] => File(p) \in temp[l]
      BY <1>3, <2>2, ArchiveFacts, EntryFacts
    <3>2. PathInv(o, p)
      BY <2>1
    <3>3. /\ rootfs[o][Marker(p)] = Nothing
          /\ p \in Gone[l] => rootfs[o][File(p)] \in {Nothing, Unknown}
          /\ p \notin Gone[l] => Below(o, p)
      BY <3>2, <1>1 DEF PathInv
    <3>4. /\ rootfs'[o][Marker(p)] = Nothing
          /\ p \in Gone[Current(o)'] => rootfs'[o][File(p)] \in {Nothing, Unknown}
          /\ p \notin Gone[Current(o)'] => Below(o, p)'
      BY <3>3, <1>1, <2>2 DEF Below, Doubtful
    <3>5. ~(p \in Files[Current(o)'] /\ File(p) \notin walk'[o])
      BY <3>1, <1>7, <2>2
    <3> QED
      BY <3>4, <3>5, <1>7 DEF PathInv, Removing
  <2> QED
    BY <2>3, <2>4
<1> QED
  BY <1>1, <1>2, <1>3, <1>4, <1>5, <1>6, <1>8, <1>9, EntryStep

LEMMA ProcessWhiteoutInv ==
    ASSUME Inv, NEW o \in Build, NEW e, ProcessWhiteout(o, e)
    PROVE  Inv'
<1> DEFINE l == Current(o)
<1>0. PICK left \in {Nothing, Unknown} : rootfs' = [rootfs EXCEPT ![o][File(e.path)] = left]
  BY DEF ProcessWhiteout
<1> DEFINE tree == [rootfs[o] EXCEPT ![File(e.path)] = left]
<1>1. /\ pc[o] = "whiteouts" /\ e \in walk[o]
      /\ temp' = [temp EXCEPT ![l] = @ \ {e}] /\ walk' = [walk EXCEPT ![o] = @ \ {e}]
      /\ UNCHANGED <<there, base, pos, pc, failing, shared, crashes>>
  BY DEF ProcessWhiteout
<1>2. Extracting(o) /\ Extracting(o)'
  BY <1>1 DEF Extracting
<1>3. /\ TypeOK /\ l \in Layer /\ temp[l] \subseteq Archive(l) /\ walk[o] \subseteq Archive(l)
      /\ (there[l] \/ temp[l] = {}) /\ rootfs[o] \in [Entries -> Layer \cup {Nothing, Unknown}]
      /\ there \in [Layer -> BOOLEAN] /\ pc \in [Build -> PcType] /\ walk \in [Build -> SUBSET Entries]
      /\ temp \in [Layer -> SUBSET Entries] /\ rootfs \in [Build -> [Entries -> Layer \cup {Nothing, Unknown}]]
  BY <1>1, <1>2, ExtractingFacts
<1>4. rootfs' = [rootfs EXCEPT ![o] = tree] /\ tree \in [Entries -> Layer \cup {Nothing, Unknown}]
  BY <1>0, <1>3
<1>5. /\ temp' = [temp EXCEPT ![l] = temp[l] \ {e}] /\ temp[l] \ {e} \in SUBSET Archive(l)
      /\ Phase(o, "whiteouts", walk[o] \ {e}) /\ walk[o] \ {e} \in SUBSET Archive(l)
  BY <1>1, <1>3 DEF Phase
<1>6. there' \in [Layer -> BOOLEAN] /\ (there'[l] \/ temp[l] \ {e} = {})
      /\ \A m \in Layer \ {l} : there'[m] = there[m]
  BY <1>1, <1>3
<1>7. ASSUME ~shared[o] PROVE OwnInv(o)' /\ \A p \in Path : PathInv(o, p)'
  <2>1. OwnInv(o) /\ \A p \in Path : PathInv(o, p)
    BY <1>7 DEF Inv, PhaseInv
  <2>2. /\ Current(o)' = l /\ temp'[l] = temp[l] \ {e} /\ walk'[o] = walk[o] \ {e}
        /\ rootfs'[o] = tree
    BY <1>1, <1>3, <1>4 DEF Current
  <2>3. \A d \in Archive(l) : d \in temp[l] <=> d.kind = "file" \/ d \in walk[o]
    BY <1>1, <2>1 DEF OwnInv
  <2>4. CASE e.kind = "whiteout"
    <3>1. \A d \in Archive(l) : d \in temp[l] \ {e} <=> d.kind = "file" \/ d \in walk[o] \ {e}
      BY <2>3, <2>4
    <3>2. OwnInv(o)'
      BY <1>1, <2>1, <2>2, <3>1 DEF OwnInv
    <3>3. e \in Archive(l) /\ e.path \in Gone[l] /\ e = Marker(e.path)
      BY <1>1, <1>3, <2>4, ArchiveFacts
    <3>4. ASSUME NEW p \in Path PROVE PathInv(o, p)'
      <4>1. /\ rootfs[o][Marker(p)] = Nothing
            /\ IF p \in Gone[l] /\ Marker(p) \notin walk[o]
               THEN rootfs[o][File(p)] \in {Nothing, Unknown} ELSE Below(o, p)
        BY <1>1, <2>1 DEF PathInv
      <4>2. File(p) \in Entries /\ Marker(p) \in Entries /\ DOMAIN rootfs[o] = Entries
        BY <1>3 DEF File, Marker, Entries
      <4>3. rootfs'[o][Marker(p)] = Nothing
        BY <2>2, <4>1, <4>2, EntryFacts
      <4>4. CASE p = e.path
        <5>1. rootfs'[o][File(p)] \in {Nothing, Unknown} /\ p \in Gone[l] /\ Marker(p) \notin walk'[o]
          BY <2>2, <3>3, <4>2, <4>4
        <5> QED
          BY <1>1, <2>2, <4>3, <5>1 DEF PathInv, Removing
      <4>5. CASE p # e.path
        <5>1. rootfs'[o][File(p)] = rootfs[o][File(p)] /\ (Marker(p) \in walk'[o] <=> Marker(p) \in walk[o])
          BY <2>2, <3>3, <4>2, <4>5, EntryFacts
        <5>2. Below(o, p) => Below(o, p)'
          BY <1>1, <5>1, OverlaidKept DEF Below, Doubtful
        <5> QED
          BY <1>1, <2>2, <4>1, <4>3, <5>1, <5>2 DEF PathInv, Removing
      <4> QED
        BY <4>4, <4>5
    <3> QED
      BY <3>2, <3>4
  <2> QED
    BY <1>1, <2>1, <2>4 DEF OwnInv
<1> HIDE DEF tree
<1>8. "whiteouts" \in PcType
  BY DEF PcType
<1> QED
  BY <1>1, <1>2, <1>3, <1>4, <1>5, <1>6, <1>7, <1>8, EntryStep

LEMMA CopyFileInv ==
    ASSUME Inv, NEW o \in Build, NEW e, CopyFile(o, e)
    PROVE  Inv'
<1> DEFINE l == Current(o)
<1>0. PICK got \in {l, Unknown} :
        rootfs' = IF e \in temp[l] THEN [rootfs EXCEPT ![o][e] = got] ELSE rootfs
  BY DEF CopyFile
<1> DEFINE tree == IF e \in temp[l] THEN [rootfs[o] EXCEPT ![e] = got] ELSE rootfs[o]
<1>1. /\ pc[o] = "merge" /\ e \in walk[o] /\ walk' = [walk EXCEPT ![o] = @ \ {e}]
      /\ UNCHANGED <<there, temp, base, pos, pc, failing, shared, crashes>>
  BY DEF CopyFile, disk
<1>2. Extracting(o) /\ Extracting(o)'
  BY <1>1 DEF Extracting
<1>3. /\ TypeOK /\ l \in Layer /\ temp[l] \subseteq Archive(l) /\ walk[o] \subseteq Archive(l)
      /\ (there[l] \/ temp[l] = {}) /\ rootfs[o] \in [Entries -> Layer \cup {Nothing, Unknown}]
      /\ there \in [Layer -> BOOLEAN] /\ pc \in [Build -> PcType] /\ walk \in [Build -> SUBSET Entries]
      /\ temp \in [Layer -> SUBSET Entries] /\ rootfs \in [Build -> [Entries -> Layer \cup {Nothing, Unknown}]]
  BY <1>2, ExtractingFacts
<1>4. rootfs' = [rootfs EXCEPT ![o] = tree] /\ tree \in [Entries -> Layer \cup {Nothing, Unknown}]
  <2>1. CASE e \in temp[l]
    BY <1>0, <1>3, <2>1
  <2>2. CASE e \notin temp[l]
    BY <1>0, <1>3, <2>2
  <2> QED
    BY <2>1, <2>2
<1>5. /\ temp' = [temp EXCEPT ![l] = temp[l]]
      /\ Phase(o, "merge", walk[o] \ {e}) /\ walk[o] \ {e} \in SUBSET Archive(l)
  BY <1>1, <1>3 DEF Phase
<1>6. there' \in [Layer -> BOOLEAN] /\ (there'[l] \/ temp[l] = {})
      /\ \A m \in Layer \ {l} : there'[m] = there[m]
  BY <1>1, <1>3
<1>7. ASSUME ~shared[o] PROVE OwnInv(o)' /\ \A p \in Path : PathInv(o, p)'
  <2>1. OwnInv(o) /\ \A p \in Path : PathInv(o, p)
    BY <1>7 DEF Inv, PhaseInv
  <2>2. /\ Current(o)' = l /\ temp'[l] = temp[l] /\ walk'[o] = walk[o] \ {e}
        /\ rootfs'[o] = tree
    BY <1>1, <1>3, <1>4 DEF Current
  <2>3. /\ \A d \in Archive(l) : d \in temp[l] <=> d.kind = "file"
        /\ \A d \in walk[o] : d.kind = "file"
    BY <1>1, <2>1 DEF OwnInv
  <2>4. OwnInv(o)'
    BY <1>1, <2>2, <2>3 DEF OwnInv
  <2>5. e \in temp[l] /\ e.path \in Files[l] /\ e = File(e.path) /\ e.path \notin Gone[l]
    BY <1>1, <1>3, <2>3, ArchiveFacts, ExtractionAssumption
  <2>6. rootfs'[o] = [rootfs[o] EXCEPT ![e] = got]
    BY <2>2, <2>5
  <2>7. ASSUME NEW p \in Path PROVE PathInv(o, p)'
    <3>1. /\ rootfs[o][Marker(p)] = Nothing
          /\ IF p \in Gone[l] THEN rootfs[o][File(p)] \in {Nothing, Unknown}
             ELSE IF p \in Files[l] /\ File(p) \notin walk[o]
             THEN rootfs[o][File(p)] \in {l, Unknown} ELSE Below(o, p)
      BY <1>1, <2>1 DEF PathInv
    <3>2. File(p) \in Entries /\ Marker(p) \in Entries /\ DOMAIN rootfs[o] = Entries
      BY <1>3 DEF File, Marker, Entries
    <3>3. rootfs'[o][Marker(p)] = Nothing
      BY <2>5, <2>6, <3>1, <3>2, EntryFacts
    <3>4. CASE p = e.path
      <4>1. rootfs'[o][File(p)] \in {l, Unknown} /\ p \in Files[l] /\ p \notin Gone[l] /\ File(p) \notin walk'[o]
        BY <2>2, <2>5, <2>6, <3>2, <3>4
      <4> QED
        BY <1>1, <2>2, <3>3, <4>1 DEF PathInv, Removing
    <3>5. CASE p # e.path
      <4>1. rootfs'[o][File(p)] = rootfs[o][File(p)] /\ (File(p) \in walk'[o] <=> File(p) \in walk[o])
        BY <2>2, <2>5, <2>6, <3>2, <3>5, EntryFacts
      <4>2. Below(o, p) => Below(o, p)'
        BY <1>1, <4>1, OverlaidKept DEF Below, Doubtful
      <4> QED
        BY <1>1, <2>2, <3>1, <3>3, <4>1, <4>2 DEF PathInv, Removing
    <3> QED
      BY <3>4, <3>5
  <2> QED
    BY <2>4, <2>7
<1> HIDE DEF tree
<1>8. "merge" \in PcType /\ temp[l] \in SUBSET Archive(l)
  BY <1>3 DEF PcType
<1> QED
  BY <1>1, <1>2, <1>3, <1>4, <1>5, <1>6, <1>7, <1>8, EntryStep

-------------------------------------------------------------------------------
\* With every file of a layer merged, the tree is what the layers up to it make of it.
LEMMA MergedUpto ==
    ASSUME Inv, NEW o \in Build, pc[o] = "merge", walk[o] = {}, ~shared[o], NEW p \in Path
    PROVE  Upto(o, p)
<1> DEFINE k == pos[o]
           s == base[o]
           t == rootfs[o]
<1>1. /\ k \in Nat \ {0} /\ s[k] = Current(o) /\ Current(o) \in Layer
  BY CurrentTyped DEF Inv, Current
<1>2. CASE Doubtful(o, p)
  BY <1>2 DEF Upto
<1>3. CASE ~Doubtful(o, p)
  <2>1. t[File(p)] # Unknown
    BY <1>3 DEF Doubtful
  <2>2. IF p \in Gone[s[k]] THEN t[File(p)] = Nothing
        ELSE IF p \in Files[s[k]] THEN t[File(p)] = s[k] ELSE Overlaid(t, s, k - 1, p)
    BY <1>1, <1>3, <2>1 DEF Inv, PhaseInv, PathInv, Below
  <2>3. p \in Gone[s[k]] => p \notin Files[s[k]]
    BY <1>1, ExtractionAssumption
  <2> HIDE DEF k, s, t
  <2>4. Overlaid(t, s, k, p)
    <3>1. CASE p \in Gone[s[k]]
      BY <1>1, <2>2, <2>3, <3>1, OverlaidStep
    <3>2. CASE p \notin Gone[s[k]] /\ p \in Files[s[k]]
      BY <1>1, <2>2, <3>2, OverlaidStep
    <3>3. CASE p \notin Gone[s[k]] /\ p \notin Files[s[k]]
      BY <1>1, <2>2, <3>3, OverlaidStep DEF Says
    <3> QED
      BY <3>1, <3>2, <3>3
  <2> QED
    BY <2>4 DEF Upto, k, s, t
<1> QED
  BY <1>2, <1>3

\* From the end of a layer to the next one, or to the end.
LEMMA LeavePhase ==
    ASSUME Inv, NEW o \in Build, Leave(o), rootfs'[o] = rootfs[o], base' = base,
           shared'[o] = shared[o], ~shared[o] => \A p \in Path : rootfs[o][Marker(p)] = Nothing,
           ~shared[o] /\ ~failing'[o] => \A p \in Path : Upto(o, p)
    PROVE  PhaseInv(o)' /\ ~Inside(o)'
<1>1. \/ failing'[o] /\ pc'[o] = "failed" /\ pos'[o] = pos[o]
      \/ ~failing'[o] /\ pos[o] = Len(base[o]) /\ pc'[o] = "done" /\ pos'[o] = pos[o]
      \/ ~failing'[o] /\ pc'[o] = "mkdir" /\ pos'[o] = pos[o] + 1
  BY LeaveFacts DEF Inv
<1>2. ~Inside(o)'
  BY <1>1 DEF Inside, Extracting, Removing
<1>3. ~shared'[o] => OwnInv(o)'
  BY <1>1 DEF OwnInv
<1>4. ASSUME ~shared'[o], NEW p \in Path PROVE PathInv(o, p)'
  <2>1. CASE failing'[o] /\ pc'[o] = "failed"
    BY <1>4, <2>1 DEF PathInv, Removing
  <2>2. CASE ~failing'[o] /\ pos[o] = Len(base[o]) /\ pc'[o] = "done" /\ pos'[o] = pos[o]
    BY <1>4, <2>2 DEF PathInv, Upto, Doubtful, Removing
  <2>3. CASE ~failing'[o] /\ pc'[o] = "mkdir" /\ pos'[o] = pos[o] + 1
    <3>1. pos'[o] - 1 = pos[o]
      BY <2>3, CurrentTyped DEF Inv
    <3>2. Upto(o, p)
      BY <1>4, <2>3
    <3>3. Below(o, p)'
      BY <3>1, <3>2 DEF Upto, Below, Doubtful
    <3> QED
      BY <1>4, <2>3, <3>3 DEF PathInv, Removing
  <2> QED
    BY <1>1, <2>1, <2>2, <2>3
<1> QED
  BY <1>2, <1>3, <1>4 DEF PhaseInv

LEMMA FinallyInv ==
    ASSUME Inv, NEW o \in Build, Extracting(o), Finally(o),
           failing' = [failing EXCEPT ![o] = TRUE] \/ (failing' = failing /\ pc[o] = "merge" /\ walk[o] = {})
    PROVE  Inv'
<1> DEFINE l == Current(o)
<1>1. /\ TypeOK /\ TempInv /\ l \in Layer /\ Inside(o) /\ temp[l] \subseteq Archive(l)
  BY CurrentTyped DEF Inv, TempInv, Inside
<1>2. /\ disk' = disk /\ rootfs' = rootfs /\ base' = base /\ shared' = shared /\ crashes' = crashes
      /\ pc' \in [Build -> PcType] /\ walk' \in [Build -> SUBSET Entries]
      /\ pos' \in [Build -> Nat] /\ \A b \in Build : pos'[b] \in DOMAIN base[b]
      /\ \A b \in Build \ {o} : pc'[b] = pc[b] /\ walk'[b] = walk[b] /\ pos'[b] = pos[b]
      /\ \/ pc'[o] = "rmtree" /\ walk'[o] = temp[l] /\ pos'[o] = pos[o]
         \/ Leave(o) /\ ~there[l] /\ temp[l] = {}
  BY <1>1, FinallyFacts
<1>3. failing' \in [Build -> BOOLEAN] /\ \A b \in Build \ {o} : failing'[b] = failing[b]
  BY <1>1 DEF TypeOK
<1>4. there' = there /\ temp' = temp
  BY <1>2 DEF disk
<1>5. TypeOK'
  BY <1>1, <1>2, <1>3, <1>4, Typed DEF TypeOK
<1>6. Change(o) /\ TempInv'
  BY <1>1, <1>2, <1>3, <1>4 DEF Change, TempInv
<1>7. ~shared[o] => \A p \in Path : rootfs[o][Marker(p)] = Nothing
  BY DEF Inv, PhaseInv, PathInv
<1>8. ASSUME ~shared[o], ~failing'[o], NEW p \in Path PROVE Upto(o, p)
  <2>1. pc[o] = "merge" /\ walk[o] = {}
    BY <1>8, <1>1 DEF TypeOK
  <2> QED
    BY <1>8, <2>1, MergedUpto
<1>9. CASE pc'[o] = "rmtree" /\ walk'[o] = temp[l] /\ pos'[o] = pos[o]
  <2>1. Inside(o)' /\ Removing(o)' /\ Current(o)' = l /\ walk'[o] \subseteq Archive(l)
    BY <1>1, <1>2, <1>9 DEF Inside, Removing, Current
  <2>2. PhaseInv(o)'
    BY <1>2, <1>7, <1>8, <1>9 DEF PhaseInv, OwnInv, PathInv, Upto, Doubtful, Removing
  <2>3. /\ \E b \in Build : Inside(b)' /\ Current(b)' = Current(o)
        /\ \A e \in temp'[Current(o)] : Leaving(o, e)
    BY <2>1, <1>4, <1>9 DEF Leaving
  <2> QED
    BY <1>1, <1>5, <1>6, <1>9, <2>1, <2>2, <2>3, Assembled
<1>10. CASE Leave(o) /\ ~there[l] /\ temp[l] = {}
  <2>1. PhaseInv(o)' /\ ~Inside(o)'
    BY <1>2, <1>7, <1>8, <1>10, LeavePhase
  <2>2. ~there'[Current(o)] /\ temp'[Current(o)] = {}
    BY <1>4, <1>10
  <2> QED
    BY <1>5, <1>6, <2>1, <2>2, Assembled
<1> QED
  BY <1>2, <1>9, <1>10

LEMMA EndInv ==
    ASSUME Inv, NEW o \in Build, Merged(o) \/ ExtractionFails(o)
    PROVE  Inv'
BY FinallyInv DEF Merged, ExtractionFails, Extracting

-------------------------------------------------------------------------------
(* The removal.                                                            *)

\* The second rmtree goes for all there is.
LEMMA AgainInv ==
    ASSUME Inv, NEW o \in Build, Removing(o), RmtreeAgain(o),
           UNCHANGED <<rootfs, base, failing, shared, crashes>>
    PROVE  Inv'
<1> DEFINE l == Current(o)
<1>1. /\ TypeOK /\ l \in Layer /\ Inside(o) /\ temp[l] \subseteq Archive(l)
  BY CurrentTyped DEF Inv, TempInv, Inside
<1>2. /\ pc' \in [Build -> PcType] /\ walk' \in [Build -> SUBSET Entries]
      /\ pc'[o] = "retry" /\ walk'[o] = temp[l] /\ there' = there /\ temp' = temp /\ pos' = pos
      /\ \A b \in Build \ {o} : pc'[b] = pc[b] /\ walk'[b] = walk[b]
  BY <1>1, AgainFacts DEF disk
<1>3. TypeOK'
  BY <1>1, <1>2, Typed DEF TypeOK
<1>4. Change(o) /\ TempInv'
  BY <1>1, <1>2 DEF Change, TempInv, Inv
<1>5. Inside(o)' /\ Removing(o)' /\ Current(o)' = l /\ walk'[o] \subseteq Archive(l)
  BY <1>1, <1>2 DEF Inside, Removing, Current
<1>6. PhaseInv(o)'
  BY <1>2 DEF Inv, PhaseInv, OwnInv, PathInv, Upto, Doubtful, Removing
<1>7. /\ \E b \in Build : Inside(b)' /\ Current(b)' = Current(o)
      /\ \A e \in temp'[Current(o)] : Leaving(o, e)
  BY <1>5, <1>2 DEF Leaving
<1> QED
  BY <1>1, <1>2, <1>3, <1>4, <1>5, <1>6, <1>7, Assembled

LEMMA UnlinkInv ==
    ASSUME Inv, NEW o \in Build, NEW e, Unlink(o, e)
    PROVE  Inv'
<1> DEFINE l == Current(o)
<1>1. Removing(o) /\ e \in walk[o] /\ UNCHANGED <<rootfs, base, failing, shared, crashes>>
  BY DEF Unlink
<1>2. CASE RmtreeAgain(o)
  BY <1>1, <1>2, AgainInv
<1>3. CASE /\ temp' = [temp EXCEPT ![l] = @ \ {e}] /\ walk' = [walk EXCEPT ![o] = @ \ {e}]
           /\ UNCHANGED <<there, pos, pc>>
  <2>1. /\ TypeOK /\ l \in Layer /\ Inside(o) /\ walk[o] \subseteq Archive(l)
        /\ temp \in [Layer -> SUBSET Entries] /\ walk \in [Build -> SUBSET Entries]
    BY <1>1, CurrentTyped DEF Inv, WalkInv, Inside, TypeOK
  <2>2. /\ temp' \in [Layer -> SUBSET Entries] /\ temp'[l] = temp[l] \ {e}
        /\ \A m \in Layer \ {l} : temp'[m] = temp[m]
        /\ walk' \in [Build -> SUBSET Entries] /\ walk'[o] = walk[o] \ {e}
        /\ \A b \in Build \ {o} : walk'[b] = walk[b]
    BY <1>3, <2>1
  <2>3. TypeOK'
    BY <1>1, <1>3, <2>1, <2>2 DEF TypeOK
  <2>4. Change(o)
    BY <1>1, <1>3, <2>1, <2>2 DEF Change
  <2>5. TempInv'
    BY <1>3, <2>1, <2>2 DEF TempInv, Inv
  <2>6. /\ Inside(o)' /\ Removing(o)' /\ Current(o)' = l /\ walk'[o] \subseteq Archive(l)
    BY <1>1, <1>3, <2>1, <2>2 DEF Inside, Removing, Current
  <2>7. PhaseInv(o)'
    BY <1>1, <1>3 DEF Inv, PhaseInv, OwnInv, PathInv, Upto, Doubtful, Removing
  <2>8. ASSUME crashes = 0, NEW d \in temp'[l] PROVE Leaving(o, d)
    <3>1. d \in temp[l] /\ d # e
      BY <2>8, <2>2
    <3>2. PICK b \in Build : Current(b) = l /\ (Extracting(b) \/ (Removing(b) /\ d \in walk[b]))
      BY <2>1, <2>8, <3>1 DEF Inv, LeftInv, Removed
    <3>3. d \in walk[b] => d \in walk'[b]
      BY <2>2, <3>1
    <3>4. Current(b)' = l /\ (Extracting(b)' <=> Extracting(b)) /\ (Removing(b)' <=> Removing(b))
      BY <1>1, <1>3, <3>2 DEF Current, Extracting, Removing
    <3> QED
      BY <3>2, <3>3, <3>4 DEF Leaving
  <2> QED
    BY <1>3, <2>1, <2>3, <2>4, <2>5, <2>6, <2>7, <2>8, Assembled
<1> QED
  BY <1>2, <1>3 DEF Unlink

LEMMA RmdirInv ==
    ASSUME Inv, NEW o \in Build, Rmdir(o)
    PROVE  Inv'
<1> DEFINE l == Current(o)
<1>1. Removing(o) /\ walk[o] = {} /\ UNCHANGED <<rootfs, base, failing, shared, crashes>>
  BY DEF Rmdir
<1>2. CASE RmtreeAgain(o)
  BY <1>1, <1>2, AgainInv
<1>3. CASE /\ Leave(o) /\ temp' = temp
           /\ \/ there' = [there EXCEPT ![l] = FALSE] /\ temp[l] = {}
              \/ there' = there /\ (~there[l] \/ temp[l] # {})
  <2>1. TypeOK /\ l \in Layer /\ Inside(o) /\ there \in [Layer -> BOOLEAN]
    BY <1>1, CurrentTyped DEF Inv, Inside, TypeOK
  <2>2. /\ pc' \in [Build -> PcType] /\ walk' \in [Build -> SUBSET Entries]
        /\ \A b \in Build \ {o} : pc'[b] = pc[b] /\ walk'[b] = walk[b] /\ pos'[b] = pos[b]
        /\ pos' \in [Build -> Nat] /\ \A b \in Build : pos'[b] \in DOMAIN base[b]
    BY <1>3, <2>1, LeaveFacts
  <2>3. there' \in [Layer -> BOOLEAN] /\ \A m \in Layer \ {l} : there'[m] = there[m]
    BY <1>3, <2>1
  <2>4. TypeOK'
    BY <1>1, <1>3, <2>1, <2>2, <2>3, Typed DEF TypeOK
  <2>5. Change(o)
    BY <1>1, <1>3, <2>1, <2>2, <2>3 DEF Change
  <2>6. TempInv'
    BY <1>3, <2>1, <2>3 DEF TempInv, Inv
  <2>7. PhaseInv(o)' /\ ~Inside(o)'
    <3>1. ~shared[o] => \A p \in Path : rootfs[o][Marker(p)] = Nothing
      BY DEF Inv, PhaseInv, PathInv
    <3>2. ~shared[o] /\ ~failing'[o] => \A p \in Path : Upto(o, p)
      BY <1>1 DEF Inv, PhaseInv, PathInv
    <3> QED
      BY <1>1, <1>3, <3>1, <3>2, LeavePhase
  <2>8. \A b \in Build \ {o} : /\ Current(b)' = Current(b) /\ (Inside(b)' <=> Inside(b))
                               /\ (Extracting(b)' <=> Extracting(b)) /\ (Removing(b)' <=> Removing(b))
    BY <1>1, <2>2 DEF Current, Inside, Extracting, Removing
  <2>9. ASSUME crashes = 0, NEW d \in temp[l]
        PROVE  \E b \in Build \ {o} : Current(b) = l /\ (Extracting(b) \/ (Removing(b) /\ d \in walk[b]))
    <3>1. PICK b \in Build : Current(b) = l /\ (Extracting(b) \/ (Removing(b) /\ d \in walk[b]))
      BY <2>1, <2>9 DEF Inv, LeftInv, Removed
    <3>2. b # o
      BY <1>1, <3>1 DEF Extracting, Removing
    <3> QED
      BY <3>1, <3>2
  <2>10. ASSUME crashes = 0, NEW d \in temp'[l] PROVE Leaving(o, d)
    BY <1>3, <2>2, <2>8, <2>9, <2>10 DEF Leaving
  <2>11. ASSUME crashes = 0, there'[l] PROVE \E b \in Build : Inside(b)' /\ Current(b)' = l
    <3>1. temp[l] # {}
      BY <1>3, <2>1, <2>11
    <3> QED
      BY <3>1, <2>8, <2>9, <2>11 DEF Inside
  <2> QED
    BY <2>4, <2>5, <2>6, <2>7, <2>10, <2>11, Assembled
<1> QED
  BY <1>2, <1>3 DEF Rmdir, disk

LEMMA CrashInv ==
    ASSUME Inv, Crash
    PROVE  Inv'
<1>1. /\ UNCHANGED <<there, temp, rootfs, base, pos, failing, shared>> /\ crashes < MaxCrashes
      /\ pc' = [b \in Build |-> IF pc[b] \in {"idle", "done"} THEN pc[b] ELSE "failed"]
      /\ walk' = [b \in Build |-> {}] /\ crashes' = crashes + 1
  BY DEF Crash, disk
<1>2. crashes' \in 0 .. MaxCrashes /\ crashes' # 0
  BY <1>1, ExtractionAssumption DEF Inv, TypeOK
<1>3. TypeOK'
  BY <1>1, <1>2 DEF Inv, TypeOK
<1>4. \A b \in Build : ~Inside(b)' /\ (pc'[b] = "failed" \/ (pc[b] \in {"idle", "done"} /\ pc'[b] = pc[b]))
  BY <1>1 DEF Inside, Extracting, Removing
<1>5. TempInv'
  BY <1>1 DEF Inv, TempInv
<1>6. WalkInv' /\ SharedInv' /\ LeftInv'
  BY <1>2, <1>4 DEF WalkInv, SharedInv, LeftInv
<1>7. ASSUME NEW b \in Build PROVE PhaseInv(b)'
  <2>1. CASE pc'[b] = "failed"
    BY <1>1, <2>1 DEF Inv, PhaseInv, OwnInv, PathInv, Removing
  <2>2. CASE pc[b] \in {"idle", "done"} /\ pc'[b] = pc[b]
    BY <1>1, <2>2 DEF Inv, PhaseInv, OwnInv, PathInv, Removing, Below, Upto, Doubtful
  <2> QED
    BY <1>4, <2>1, <2>2
<1> QED
  BY <1>3, <1>5, <1>6, <1>7 DEF Inv

-------------------------------------------------------------------------------
LEMMA StepInv == ASSUME Inv, [Next]_vars PROVE Inv'
<1>1. CASE Crash
  BY <1>1, CrashInv
<1>2. ASSUME NEW b \in Build, Step(b) PROVE Inv'
  <2>1. CASE Begin(b) \/ MkdirFails(b)
    BY <2>1, OutsideInv
  <2>2. CASE Mkdir(b)
    BY <2>2, MkdirInv
  <2>3. CASE ListWhiteouts(b)
    BY <2>3, ListWhiteoutsInv
  <2>4. CASE ListLayer(b)
    BY <2>4, ListLayerInv
  <2>5. CASE Merged(b) \/ ExtractionFails(b)
    BY <2>5, EndInv
  <2>6. CASE Rmdir(b)
    BY <2>6, RmdirInv
  <2>7. CASE \E e \in Entries : Untar(b, e)
    BY <2>7, UntarInv
  <2>8. CASE \E e \in Entries : ProcessWhiteout(b, e)
    BY <2>8, ProcessWhiteoutInv
  <2>9. CASE \E e \in Entries : CopyFile(b, e)
    BY <2>9, CopyFileInv
  <2>10. CASE \E e \in Entries : Unlink(b, e)
    BY <2>10, UnlinkInv
  <2> QED
    BY <1>2, <2>1, <2>2, <2>3, <2>4, <2>5, <2>6, <2>7, <2>8, <2>9, <2>10 DEF Step
<1>3. CASE UNCHANGED vars
  BY <1>3 DEF vars, disk, Inv, TypeOK, TempInv, WalkInv, LeftInv, SharedInv, PhaseInv, OwnInv, PathInv,
     Below, Upto, Doubtful, Removed, Inside, Extracting, Removing, Current
<1> QED
  BY <1>1, <1>2, <1>3 DEF Next

\* The invariant that the theorems rest on.
THEOREM Invariant == Spec => []Inv
BY InitInv, StepInv, PTL DEF Spec

\* ExtractedAlone: extract_base_image by a build that shares no directory gives the image but
\* for the files at which an error was passed over, for any images and layers, and whatever lies
\* in the cache before.
THEOREM AloneIsRight == Spec => []ExtractedAlone
<1>1. Inv => ExtractedAlone
  <2> SUFFICES ASSUME Inv, NEW b \in Build, pc[b] = "done", ~shared[b], NEW p \in Path
               PROVE  RightAt(b, p) \/ PassedOver(b, p)
    BY DEF ExtractedAlone
  <2> QED
    BY DEF Inv, PhaseInv, PathInv, Upto, Doubtful, RightAt, PassedOver
<1> QED
  BY Invariant, <1>1, PTL

\* NoLeftovers: whatever its `finally' meets, the last build to leave a directory removes it.
THEOREM LastOneCleansUp == Spec => []NoLeftovers
<1>1. Inv => NoLeftovers
  <2> SUFFICES ASSUME Inv, NEW l \in Layer, there[l] \/ temp[l] # {}, crashes = 0
               PROVE  \E b \in Build : Inside(b) /\ Current(b) = l
    BY ExtractionAssumption DEF NoLeftovers, Inv, TypeOK
  <2> QED
    BY DEF Inv, LeftInv, TempInv
<1> QED
  BY Invariant, <1>1, PTL
================================================================================
