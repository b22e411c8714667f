------------------------------- MODULE Champ -------------------------------
(***************************************************************************)
(* The CHAMP below a writer's pointer (champ.rs) and its three-way merge   *)
(* (champ_merge.rs).  A node has slots; a slot holds a bucket of mappings, *)
(* sorted by key, or a child node.  A block is content addressed, so a     *)
(* link is the node it names, and equal links are equal nodes.  The two    *)
(* bitmaps and the position of a payload in contents are the domains of    *)
(* data and node.  The hasher is the identity: a key is the sequence of    *)
(* its slots by depth.                                                     *)
(***************************************************************************)
EXTENDS Integers, Sequences, FiniteSets, SequencesExt, FiniteSetsExt, TLC

CONSTANTS Keys, Slots, MaxCollisions, MaxDepth, Versions, MaxEdits, NoRoot, None

VARIABLES
  tree,    \* the root of each side: "base", "ours" and "theirs"
  map,     \* what the side's edits make of a plain map; 0 is an absent key
  pc,      \* "build" the base, "edit" both sides, then "merged" or "refused"
  edits

vars == <<tree, map, pc, edits>>

WT == INSTANCE WriterTree

Empty == [data |-> <<>>, node |-> <<>>]

Mask(key, depth) == IF depth < Len(key) THEN key[depth + 1] ELSE 0

With(f, s, x) == (s :> x) @@ f
Without(f, s) == [t \in DOMAIN f \ {s} |-> f[t]]

Before(a, b) ==
  \E i \in DOMAIN a : a[i] < b[i] /\ \A j \in 1 .. i - 1 : a[j] = b[j]

Sorted(mappings) == SortSeq(mappings, LAMBDA x, y : Before(x.key, y.key))

KeyCount(n) == FoldSet(LAMBDA s, a : a + Len(n.data[s]), 0, DOMAIN n.data)

NodeCount(n) == Cardinality(DOMAIN n.node)

RECURSIVE Get(_, _, _)
Get(n, key, depth) ==
  LET s == Mask(key, depth)
  IN  IF s \in DOMAIN n.data
      THEN LET at == SelectInSeq(n.data[s], LAMBDA m : m.key = key)
           IN  IF at = 0 THEN 0 ELSE n.data[s][at].value
      ELSE IF s \in DOMAIN n.node THEN Get(n.node[s], key, depth + 1) ELSE 0

\* Mutant of InsertIntoPrefix: the bucket is not sorted.
InsertUnsorted(n, s, m) == [n EXCEPT !.data[s] = Append(@, m)]

InsertIntoPrefix(n, s, m) == [n EXCEPT !.data[s] = Sorted(Append(@, m))]

AddNewPrefix(n, s, m) == [n EXCEPT !.data = With(@, s, <<m>>)]

\* None is the error of a failed CAS or of keys that collide in every level.
RECURSIVE Put(_, _, _, _, _)
Put(n, key, depth, expected, value) ==
  LET s == Mask(key, depth)
      m == [key |-> key, value |-> value]
      at == SelectInSeq(n.data[s], LAMBDA x : x.key = key)
      \* push_mappings_down_a_level
      pushed == IF depth + 1 >= MaxDepth THEN None
                ELSE FoldLeft(LAMBDA c, x : IF c = None THEN None
                                            ELSE Put(c, x.key, depth + 1, 0, x.value),
                              Put(Empty, key, depth + 1, 0, value), n.data[s])
      child == Put(n.node[s], key, depth + 1, expected, value)
  IN  IF s \in DOMAIN n.data
      THEN IF at # 0
           THEN IF n.data[s][at].value # expected THEN None
                ELSE [n EXCEPT !.data[s][at].value = value]
           ELSE IF Len(n.data[s]) < MaxCollisions THEN InsertIntoPrefix(n, s, m)
           ELSE IF pushed = None THEN None
           ELSE [data |-> Without(n.data, s), node |-> With(n.node, s, pushed)]
      ELSE IF s \in DOMAIN n.node
      THEN IF child = None THEN None ELSE [n EXCEPT !.node[s] = child]
      ELSE AddNewPrefix(n, s, m)

RemoveMapping(n, s, at) ==
  IF Len(n.data[s]) = 1 THEN [n EXCEPT !.data = Without(@, s)]
  ELSE [n EXCEPT !.data[s] = RemoveAt(@, at)]

\* All other mappings of the node in one bucket, so that the parent can inline it.
Collapse(n, key) ==
  LET all == FoldSet(LAMBDA s, a : a \o n.data[s], <<>>, DOMAIN n.data)
  IN  [data |-> Mask(key, 0) :> Sorted(SelectSeq(all, LAMBDA m : m.key # key)), node |-> <<>>]

\* Mutant of Collapses: a node that still has one mapping too many.
CollapsesLate(n, depth) == KeyCount(n) = MaxCollisions /\ NodeCount(n) = 0 /\ depth > 0

Collapses(n, depth) == KeyCount(n) = MaxCollisions + 1 /\ NodeCount(n) = 0 /\ depth > 0

\* copy_and_migrate_from_node_to_inline: the child's first bucket.
Inline(n, s, child) ==
  [data |-> With(n.data, s, child.data[Min(DOMAIN child.data)]), node |-> Without(n.node, s)]

RECURSIVE RemoveKey(_, _, _, _)
RemoveKey(n, key, depth, expected) ==
  LET s == Mask(key, depth)
      at == SelectInSeq(n.data[s], LAMBDA x : x.key = key)
      child == RemoveKey(n.node[s], key, depth + 1, expected)
  IN  IF s \in DOMAIN n.data
      THEN IF at = 0 THEN None
           ELSE IF n.data[s][at].value # expected THEN None
           ELSE IF Collapses(n, depth) THEN Collapse(n, key) ELSE RemoveMapping(n, s, at)
      ELSE IF s \notin DOMAIN n.node THEN n
      ELSE IF child = None THEN None
      ELSE IF child = n.node[s] THEN n
      ELSE IF child = Empty THEN None
      ELSE IF NodeCount(child) = 0 /\ KeyCount(child) = MaxCollisions
           THEN IF KeyCount(n) = 0 /\ NodeCount(n) = 1 THEN child ELSE Inline(n, s, child)
      ELSE [n EXCEPT !.node[s] = child]

Shard(n, s) == IF n # None /\ s \in DOMAIN n.node THEN n.node[s] ELSE None

Has(n, s) == n # None /\ s \in DOMAIN n.data

HashAndMask(mappings, s, depth) == SelectSeq(mappings, LAMBDA m : Mask(m.key, depth) = s)

\* The mappings of a slot: the node's, or the ones a higher level handed down.
SlotMappings(n, higher, s, depth) ==
  IF Has(n, s) THEN n.data[s] ELSE HashAndMask(higher, s, depth)

ValueIn(mappings, key) ==
  LET at == SelectInSeq(mappings, LAMBDA m : m.key = key)
  IN  IF at = 0 THEN 0 ELSE mappings[at].value

DiffMappings(left, right) ==
  LET keys == {m.key : m \in ToSet(left) \cup ToSet(right)}
  IN  {[key |-> k, base |-> ValueIn(left, k), other |-> ValueIn(right, k)] :
         k \in {x \in keys : ValueIn(left, x) # ValueIn(right, x)}}

\* Mutant of HandedDown: mappings beside a shard are not taken along.
HandedDownNot(mappings) == <<>>

HandedDown(mappings) == mappings

\* Subtrees with equal links are skipped.
RECURSIVE Diff(_, _, _, _, _)
Diff(left, right, depth, hl, hr) ==
  IF left = right THEN {}
  ELSE UNION {
    LET lm == SlotMappings(left, hl, s, depth)
        rm == SlotMappings(right, hr, s, depth)
    IN  IF Shard(left, s) = None /\ Shard(right, s) = None THEN DiffMappings(lm, rm)
        ELSE Diff(Shard(left, s), Shard(right, s), depth + 1, HandedDown(lm), HandedDown(rm)) :
    s \in Slots}

MergeChamp(base, ours, theirs) ==
  LET mine == Diff(base, ours, 0, <<>>, <<>>)
      remote == Diff(base, theirs, 0, <<>>, <<>>)
      Apply(t, d) == IF t = None THEN None
                     ELSE IF d.other # 0 THEN Put(t, d.key, 0, d.base, d.other)
                     ELSE RemoveKey(t, d.key, 0, d.base)
  IN  IF {d.key : d \in mine} \cap {d.key : d \in remote} # {} THEN None
      ELSE FoldSet(LAMBDA d, t : Apply(t, d), ours, remote)

Sides == {"ours", "theirs"}

\* A caller reads the value under the key and expects it.
Edited(t, m, key, value) ==
  IF value # 0 THEN Put(t, key, 0, m[key], value) ELSE RemoveKey(t, key, 0, m[key])

\* The base is built by any history of puts and removals; both sides start from it.
Build(key, value) ==
  /\ pc = "build"
  /\ edits < MaxEdits.base
  /\ LET t == Edited(tree["base"], map["base"], key, value)
     IN  /\ t # None
         /\ tree' = [side \in DOMAIN tree |-> t]
         /\ map' = [side \in DOMAIN map |-> [map["base"] EXCEPT ![key] = value]]
  /\ edits' = edits + 1
  /\ UNCHANGED pc

Fork == pc = "build" /\ pc' = "edit" /\ edits' = 0 /\ UNCHANGED <<tree, map>>

Edit(side, key, value) ==
  /\ pc = "edit"
  /\ edits < MaxEdits.sides
  /\ value # map[side][key]
  /\ LET t == Edited(tree[side], map[side], key, value)
     IN  /\ t # None
         /\ tree' = [tree EXCEPT ![side] = t]
         /\ map' = [map EXCEPT ![side][key] = value]
  /\ edits' = edits + 1
  /\ UNCHANGED pc

\* Our commit was refused: their tree is merged into ours.
MergeSides ==
  /\ pc = "edit"
  /\ LET t == MergeChamp(tree["base"], tree["ours"], tree["theirs"])
     IN  IF t = None THEN pc' = "refused" /\ UNCHANGED tree
         ELSE pc' = "merged" /\ tree' = [tree EXCEPT !["ours"] = t]
  /\ UNCHANGED <<map, edits>>

Init ==
  /\ tree = [side \in {"base"} \cup Sides |-> Empty]
  /\ map = [side \in {"base"} \cup Sides |-> [k \in Keys |-> 0]]
  /\ pc = "build" /\ edits = 0

Next ==
  \/ \E k \in Keys, v \in Versions \cup {0} : Build(k, v)
  \/ Fork
  \/ \E side \in Sides, k \in Keys, v \in Versions \cup {0} : Edit(side, k, v)
  \/ MergeSides

Spec == Init /\ [][Next]_vars

\* The tree of a map: a slot whose keys fit is a bucket, any other a child.
RECURSIVE TreeOfKeys(_, _, _)
TreeOfKeys(m, keys, depth) ==
  LET At(s) == {k \in keys : Mask(k, depth) = s}
      Fits(s) == Cardinality(At(s)) <= MaxCollisions
      used == {s \in Slots : At(s) # {}}
      Pairs(s) == {[key |-> k, value |-> m[k]] : k \in At(s)}
  IN  [data |-> [s \in {x \in used : Fits(x)} |-> Sorted(SetToSeq(Pairs(s)))],
       node |-> [s \in {x \in used : ~Fits(x)} |-> TreeOfKeys(m, At(s), depth + 1)]]

CanonicalTree(m) == TreeOfKeys(m, {k \in Keys : m[k] # 0}, 0)

\* Whatever puts and removals led to it, the tree of a side is the one tree of its
\* mappings (push_mappings_down_a_level, the collapse in remove): equal contents have
\* equal roots.
Canonical == pc \in {"build", "edit"} => \A side \in DOMAIN tree : tree[side] = CanonicalTree(map[side])

\* A lookup finds what the last put of the key stored, and nothing after its removal.
Lookups ==
  pc \in {"build", "edit"} =>
    \A side \in DOMAIN tree, k \in Keys : Get(tree[side], k, 0) = map[side][k]

\* The lock-step diff, which skips equal subtrees, reports exactly the keys that changed.
DiffExact ==
  pc = "edit" => \A side \in Sides :
    Diff(tree["base"], tree[side], 0, <<>>, <<>>) =
      {[key |-> k, base |-> map["base"][k], other |-> map[side][k]] :
         k \in WT!Changed(map["base"], map[side])}

\* The merge of the trees is the merge of the maps, which the model of the write buffer
\* uses: refused exactly when both sides changed a key, and otherwise the tree of both.
MergesAsMaps ==
  LET mergeable == WT!Mergeable(map["base"], map["ours"], map["theirs"])
  IN  /\ pc = "refused" => ~mergeable
      /\ pc = "merged" =>
           /\ mergeable
           /\ tree["ours"] = CanonicalTree(WT!Merge(map["base"], map["ours"], map["theirs"]))
=============================================================================
