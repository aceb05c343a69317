----------------------------- MODULE MCImageStore -----------------------------
(* Instances of ImageStore for TLC.                                        *)
EXTENDS ImageStore, TLC

CONSTANTS ubuntu, jammy,     \* tags of the registry,
          base, next             \* and its images

\* One image under one tag.
MCOneTag == [t \in Tag |-> IF t = ubuntu THEN {base} ELSE {}]

\* One image under two tags, one of which moves on to another image.
MCTwoTags ==
    [t \in Tag |-> IF t = ubuntu THEN {base} ELSE IF t = jammy THEN {base, next} \cap Image ELSE {}]

\* Worker threads and freshly built images are interchangeable.
Symmetry == Permutations(Worker) \cup Permutations(Image \ Bases)
===============================================================================
