------------------------------- MODULE TagStore -------------------------------
(***************************************************************************)
(* What the image repository promises its callers: a map from tags to      *)
(* images.  Storing, removing and purging change the map in one step, each *)
(* exactly as asked, whatever the other callers are doing.  A fault (the   *)
(* process dies, or a write fails) may cost the whole map, because it is   *)
(* one file that is overwritten in place, but never a part of it, and it   *)
(* never invents an entry.                                                 *)
(***************************************************************************)
EXTENDS Naturals

CONSTANTS Tag,      \* image tags
          Image,    \* images, named by their manifest digests
          NoImage   \* the tag has no image

VARIABLES map,      \* map[t]: the image listed under tag t, or NoImage
          faults    \* how many faults have happened

vars == <<map, faults>>

EmptyMap == [t \in Tag |-> NoImage]

Init == map = EmptyMap /\ faults = 0

\* store_image: the tag now names the image, every other tag keeps its own.
Put(t, i) == map' = [map EXCEPT ![t] = i] /\ UNCHANGED faults

\* remove_image, delete_image
Drop(t) == /\ map[t] # NoImage
           /\ map' = [map EXCEPT ![t] = NoImage]
           /\ UNCHANGED faults

\* remove_all_images
Clear == map' = EmptyMap /\ UNCHANGED faults

Fault == faults' = faults + 1 /\ map' \in {map, EmptyMap}

Next == \/ \E t \in Tag, i \in Image : Put(t, i)
        \/ \E t \in Tag : Drop(t)
        \/ Clear
        \/ Fault

Spec == Init /\ [][Next]_vars
===============================================================================
