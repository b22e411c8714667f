----------------------------- MODULE WriterTree -----------------------------
(* The content of one writer's space, as the commit layer sees it.         *)
(*                                                                          *)
(* A WriterData block points at a CHAMP, a map from labels to values.  A    *)
(* root is content addressed, so a root IS its content: the function from   *)
(* keys to versions.  Every write of a key makes a version no write made    *)
(* before (the values are ciphertexts under fresh keys); 0 is a key never   *)
(* written.  A removal is a version like any other: the merge treats it the *)
(* same way.                                                                *)
EXTENDS Naturals

CONSTANTS
    Keys,      \* the labels of a writer's CHAMP
    NoRoot     \* Option<Cid>::None: the target of a writer that was never written

Tree == [Keys -> Nat]

ASSUME NoRootAssumption == NoRoot \notin Tree

Target == Tree \cup {NoRoot}

EmptyTree == [k \in Keys |-> 0]

(* What a reader of a target finds under each key. *)
TreeOf(t) == IF t = NoRoot THEN EmptyTree ELSE t

(* The blocks a root links to: one per key that was written. *)
Leaves(t) == {t[k] : k \in Keys} \ {0}

(* The keys a diff of two roots reports (champ_merge::diff). *)
Changed(from, to) == {k \in Keys : from[k] # to[k]}

(* merge_champ refuses a key changed on both sides, even to the same value. *)
Mergeable(base, ours, theirs) ==
    Changed(base, ours) \cap Changed(base, theirs) = {}

(* The remote diff replayed onto ours; merge_writer_data puts the result    *)
(* into their WriterData.                                                   *)
Merge(base, ours, theirs) ==
    [k \in Keys |-> IF k \in Changed(base, theirs) THEN theirs[k] ELSE ours[k]]

=============================================================================
