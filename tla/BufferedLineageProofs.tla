----------------------- MODULE BufferedLineageProofs -----------------------
(* Facts about versions, lists of updates and checkpoints, for the proofs    *)
(* that BufferedNetwork keeps LineageInv.                                    *)
EXTENDS BufferedLineage, TLAPS

USE Zenon

-----------------------------------------------------------------------------
(* What the operators give. *)

(* A merge has under each key what one of the two sides has there. *)
LEMMA MergeType ==
    ASSUME NEW b \in Tree, NEW o \in Tree, NEW t \in Tree
    PROVE  /\ Merge(b, o, t) \in Tree
           /\ \A k \in Keys : Merge(b, o, t)[k] \in {o[k], t[k]}
  BY DEF Tree, Merge

(* Writing a key of a root adds one leaf. *)
LEMMA WriteLeaves ==
    ASSUME NEW t \in Tree, NEW k \in Keys, NEW v \in Nat
    PROVE  /\ [t EXCEPT ![k] = v] \in Tree
           /\ Leaves([t EXCEPT ![k] = v]) \subseteq Leaves(t) \cup {v}
  BY DEF Tree, Leaves

LEMMA TargetTree ==
    ASSUME NEW t \in Target
    PROVE  /\ TreeOf(t) \in Tree
           /\ EmptyTree \in Tree /\ Leaves(EmptyTree) = {}
           /\ t # NoRoot => t \in Tree /\ TreeOf(t) = t
           /\ NoRoot \notin Tree
  BY NoRootAssumption DEF Target, TreeOf, EmptyTree, Tree, Leaves

LEMMA TreeLeaves ==
    ASSUME NEW t \in Tree
    PROVE  Leaves(t) \subseteq Nat
  BY DEF Tree, Leaves

LEMMA OnServerType ==
    ASSUME NEW p \in [Writers -> Pointer]
    PROVE  OnServer(p) \subseteq Nat
  <1>1. \A w \in Writers : TreeOf(p[w].target) \in Tree
    BY TargetTree DEF Pointer
  <1> QED
    BY <1>1, TreeLeaves DEF OnServer

LEMMA SetPointerType ==
    ASSUME TypeOK, NEW w \in Writers, NEW r \in Tree, NEW n \in Nat,
           SetPointer(w, r, n)
    PROVE  /\ ptr' \in [Writers -> Pointer] /\ landed' \subseteq Nat
           /\ ptr'[w] = [target |-> r, seq |-> n]
           /\ \A x \in Writers : x # w => ptr'[x] = ptr[x]
  <1>1. [target |-> r, seq |-> n] \in Pointer
    BY DEF Pointer, Target
  <1>2. ptr' \in [Writers -> Pointer]
    BY <1>1 DEF SetPointer, SetPointers, TypeOK
  <1> QED
    BY <1>2, OnServerType DEF SetPointer, SetPointers, TypeOK

(* The lists set_pointer_update and rollback leave behind. *)
LEMMA AdvanceType ==
    ASSUME NEW list \in SUBSET Update, NEW root \in Tree
    PROVE  Advance(list, root) \subseteq Update
  <1>1. \A u \in list : [u EXCEPT !.updated = root] \in Update
    BY DEF Update
  <1> QED
    BY <1>1 DEF Advance, LastOf

LEMMA RolledBackType ==
    ASSUME TypeOK, NEW cp \in Checkpoint
    PROVE  RolledBack(cp) \subseteq Update
  <1>1. cp.last # {} => (CHOOSE r \in cp.last : TRUE) \in Tree
    BY DEF Checkpoint
  <1>2. Truncate(updates, cp.len) \in SUBSET Update
    BY DEF Truncate, TypeOK
  <1> QED
    BY <1>1, <1>2, AdvanceType DEF RolledBack

LEMMA SeenType ==
    ASSUME TypeOK, NEW w \in Writers
    PROVE  Seen(w) \subseteq Pointer
  <1>1. \A u \in updates : [target |-> u.updated, seq |-> u.seq] \in Pointer
    BY DEF TypeOK, Update, Pointer, Target
  <1> QED
    BY <1>1 DEF Seen, Latest, TypeOK

LEMMA LastUnique ==
    ASSUME NEW list \in SUBSET Update, \A u, x \in list : u.pos = x.pos => u = x,
           NEW u \in LastOf(list), NEW x \in LastOf(list)
    PROVE  u = x
  <1>1. u.pos \in Nat /\ x.pos \in Nat /\ u.pos <= x.pos /\ x.pos <= u.pos
    BY DEF LastOf, Update
  <1> QED
    BY <1>1, SMT DEF LastOf

LEMMA CheckpointsType ==
    ASSUME TypeOK, NEW i \in 1..Len(cps)
    PROVE  /\ cps[i] \in Checkpoint
           /\ cps[i].generation \in Nat /\ cps[i].last \subseteq Tree
  <1>1. cps[i] \in Checkpoint
    BY SMT DEF TypeOK
  <1> QED
    BY <1>1 DEF Checkpoint

LEMMA DropFacts ==
    ASSUME TypeOK, cps # <<>>, DropCheckpoint
    PROVE  /\ Len(cps) \in Nat \ {0} /\ Len(cps') = Len(cps) - 1
           /\ \A i \in 1..Len(cps') : i \in 1..Len(cps) /\ cps'[i] = cps[i] /\ i < Len(cps)
  <1>1. cps \in Seq(Checkpoint)
    BY DEF TypeOK
  <1>2. Len(cps) \in Nat \ {0}
    BY <1>1, SMT
  <1>3. PICK c \in Seq(Checkpoint), m \in Nat : c = cps /\ m = Len(cps) - 1
    BY <1>1, <1>2, SMT
  <1>4. cps' = SubSeq(c, 1, m) /\ m <= Len(c)
    BY <1>2, <1>3, SMT DEF DropCheckpoint
  <1>5. Len(SubSeq(c, 1, m)) = m /\ \A i \in 1..m : SubSeq(c, 1, m)[i] = c[i]
    BY <1>4, SMT
  <1> QED
    BY <1>2, <1>3, <1>4, <1>5, SMT

LEMMA ListType ==
    ASSUME TypeOK
    PROVE  /\ updates \in SUBSET Update
           /\ Len(history) \in Nat /\ Len(history) \in 0..Len(history)
  <1>1. updates \in SUBSET Update
    BY DEF TypeOK
  <1>2. Len(history) \in Nat
    BY SMT DEF TypeOK
  <1> QED
    BY <1>1, <1>2, SMT

Ordered(list) == \A u, x \in list : u.pos = x.pos => u = x

(* A list whose last entry l has the root r instead. *)
Advanced(list, l, r) == (list \ {l}) \cup {[l EXCEPT !.updated = r]}

Part(list, s) == {u \in list : u.pos <= s}

(* What counting says of a list.  BufferedPromisesProofs shows it, with the   *)
(* theory of finite sets, for the proofs that do without.                    *)
CountingFacts ==
    /\ IsFiniteSet({})
    /\ \A list \in SUBSET Update : list # {} =>
        /\ \E u \in list : IsFirst(u, list)
        /\ \A n \in Nat : (\A u \in list : u.pos <= n) => LastOf(list) # {}
    /\ \A list \in SUBSET Update : IsFiniteSet(list) =>
        /\ Cardinality(list) \in Nat
        /\ \A part \in SUBSET list : IsFiniteSet(part)
        /\ \A u \in Update : IsFiniteSet(list \cup {u})
        /\ \A s \in Nat : Truncate(list, Cardinality(Part(list, s))) = Part(list, s)
        /\ Ordered(list) => \A l \in LastOf(list), root \in Tree :
              Cardinality(Advanced(list, l, root)) = Cardinality(list)

-----------------------------------------------------------------------------
(* Ancestors. *)

ParentsEarlier(log) == \A v \in 1..Len(log) : log[v].parent \in 0..(v - 1)

LEMMA AncestorFacts ==
    ASSUME NEW log, Len(log) \in Nat, ParentsEarlier(log)
    PROVE  /\ \A v \in 0..Len(log) : v \in Shared!Ancestors(log, v)
           /\ \A a, b, c : a \in Shared!Ancestors(log, b) /\ b \in Shared!Ancestors(log, c)
                              => a \in Shared!Ancestors(log, c)
           /\ \A v \in 1..Len(log) : log[v].parent \in Shared!Ancestors(log, v)
           /\ \A v \in 0..Len(log) : \A a \in Shared!Ancestors(log, v) : a <= v
  <1>1. \A v \in 0..Len(log) : v \in Shared!Ancestors(log, v)
    BY DEF Shared!Ancestors
  <1>2. ASSUME NEW a, NEW b, NEW c,
               a \in Shared!Ancestors(log, b), b \in Shared!Ancestors(log, c)
        PROVE  a \in Shared!Ancestors(log, c)
    BY <1>2 DEF Shared!Ancestors
  <1>3. ASSUME NEW v \in 1..Len(log)
        PROVE  log[v].parent \in Shared!Ancestors(log, v)
    <2>1. log[v].parent \in 0..Len(log)
      BY SMT DEF ParentsEarlier
    <2>2. ASSUME NEW s \in SUBSET (0..Len(log)), v \in s, Shared!Closed(log, s)
          PROVE  log[v].parent \in s
      BY <2>2, SMT DEF Shared!Closed
    <2> QED
      BY <2>1, <2>2 DEF Shared!Ancestors
  <1>4. ASSUME NEW v \in 0..Len(log), NEW a \in Shared!Ancestors(log, v)
        PROVE  a <= v
    <2>1. Shared!Closed(log, 0..v)
      BY SMT DEF Shared!Closed, ParentsEarlier
    <2>2. 0..v \in SUBSET (0..Len(log)) /\ v \in 0..v
      BY SMT
    <2> QED
      BY <2>1, <2>2, SMT DEF Shared!Ancestors
  <1> QED
    BY <1>1, <1>2, <1>3, <1>4

(* Later versions change nobody's ancestors. *)
LEMMA AncestorsKept ==
    ASSUME NEW log, NEW more, Len(log) \in Nat, Len(more) \in Nat, Len(log) <= Len(more),
           \A v \in 1..Len(log) : more[v] = log[v], ParentsEarlier(log),
           NEW v \in 0..Len(log), NEW a \in Shared!Ancestors(log, v)
    PROVE  a \in Shared!Ancestors(more, v)
  <1>1. a \in 0..Len(more)
    BY SMT DEF Shared!Ancestors
  <1>2. ASSUME NEW s \in SUBSET (0..Len(more)), v \in s, Shared!Closed(more, s)
        PROVE  a \in s
    <2> DEFINE t == s \cap (0..Len(log))
    <2>1. t \in SUBSET (0..Len(log)) /\ v \in t
      BY <1>2
    <2>2. Shared!Closed(log, t)
      BY <1>2, SMT DEF Shared!Closed, ParentsEarlier
    <2> QED
      BY <2>1, <2>2 DEF Shared!Ancestors
  <1> QED
    BY <1>1, <1>2 DEF Shared!Ancestors

LEMMA LogFacts ==
    ASSUME TypeOK, HistoryInv
    PROVE  /\ Len(history) \in Nat /\ ParentsEarlier(history)
           /\ \A v \in 1..Len(history) : history[v] \in Version
  <1>1. Len(history) \in Nat /\ \A v \in 1..Len(history) : history[v] \in Version
    BY SMT DEF TypeOK
  <1>2. \A v \in 1..Len(history) : history[v].parent \in Nat
    BY <1>1 DEF Version
  <1>3. \A v \in 1..Len(history) : history[v].parent < v
    BY DEF HistoryInv
  <1> QED
    BY <1>1, <1>2, <1>3, SMT DEF ParentsEarlier

LEMMA LogFactsNext ==
    ASSUME TypeOK', HistoryInv'
    PROVE  /\ Len(history') \in Nat /\ ParentsEarlier(history')
           /\ \A v \in 1..Len(history') : history'[v] \in Version
  <1>1. Len(history') \in Nat /\ \A v \in 1..Len(history') : history'[v] \in Version
    BY SMT DEF TypeOK
  <1>2. \A v \in 1..Len(history') : history'[v].parent \in Nat
    BY <1>1 DEF Version
  <1>3. \A v \in 1..Len(history') : history'[v].parent < v
    BY DEF HistoryInv
  <1> QED
    BY <1>1, <1>2, <1>3, SMT DEF ParentsEarlier

LEMMA AncFacts ==
    ASSUME TypeOK, HistoryInv
    PROVE  /\ \A v \in 0..Len(history) : v \in Anc(v)
           /\ \A a, b, c : a \in Anc(b) /\ b \in Anc(c) => a \in Anc(c)
           /\ \A v \in 1..Len(history) : history[v].parent \in Anc(v)
           /\ \A v \in 0..Len(history) : \A a \in Anc(v) : a \in Nat /\ a <= v
  <1>1. \A v : \A a \in Anc(v) : a \in Nat
    BY LogFacts, SMT DEF Anc, Shared!Ancestors
  <1> QED
    BY <1>1, LogFacts, AncestorFacts DEF Anc

LEMMA AncFactsNext ==
    ASSUME TypeOK', HistoryInv'
    PROVE  /\ \A v \in 0..Len(history') : v \in Anc(v)'
           /\ \A a, b, c : a \in Anc(b)' /\ b \in Anc(c)' => a \in Anc(c)'
           /\ \A v \in 1..Len(history') : history'[v].parent \in Anc(v)'
           /\ \A v \in 0..Len(history') : \A a \in Anc(v)' : a \in Nat /\ a <= v
  <1>1. \A v : \A a \in Anc(v)' : a \in Nat
    BY LogFactsNext, SMT DEF Anc, Shared!Ancestors
  <1> QED
    BY <1>1, LogFactsNext, AncestorFacts DEF Anc

-----------------------------------------------------------------------------
(* What more versions, and more of them on the server, leave as it was. *)

LogGrows ==
    /\ Len(history) \in Nat /\ Len(history') \in Nat /\ Len(history) <= Len(history')
    /\ \A v \in 1..Len(history) : history'[v] = history[v]

LEMMA SameLog ==
    ASSUME TypeOK, HistoryInv, history' = history
    PROVE  LogGrows /\ HistoryInv'
  <1>1. Len(history) \in Nat
    BY LogFacts
  <1>2. LogGrows
    BY <1>1, SMT DEF LogGrows
  <1>3. HistoryInv'
    BY DEF HistoryInv
  <1> QED
    BY <1>2, <1>3

LEMMA LineGrows ==
    ASSUME TypeOK, HistoryInv, LogGrows
    PROVE  /\ \A v \in 0..Len(history) : \A a \in Anc(v) : a \in Anc(v)'
           /\ \A w, t : Placed(w, t) => Placed(w, t)'
           /\ \A w, from, to : Placed(w, to) /\ Extends(from, to) => Extends(from, to)'
           /\ \A v \in 1..Len(history) : v \in Ours' <=> v \in Ours
  <1>1. \A v \in 0..Len(history) : \A a \in Anc(v) : a \in Anc(v)'
    BY LogFacts, AncestorsKept DEF LogGrows, Anc
  <1>2. ASSUME NEW w, NEW t, Placed(w, t) PROVE Placed(w, t)'
    BY <1>2, SMT DEF LogGrows, Placed
  <1>3. ASSUME NEW w, NEW from, NEW to, Placed(w, to), Extends(from, to)
        PROVE  Extends(from, to)'
    <2>1. \A k \in Keys : to[k] \in 0..Len(history)
      BY <1>3, SMT DEF Placed, LogGrows
    <2> QED
      BY <1>1, <1>3, <2>1 DEF Extends
  <1>4. \A v \in 1..Len(history) : v \in Ours' <=> v \in Ours
    BY SMT DEF Ours, LogGrows
  <1> QED
    BY <1>1, <1>2, <1>3, <1>4

LEMMA ChainGrows ==
    ASSUME TypeOK, HistoryInv, LogGrows,
           NEW list \in SUBSET Update, NEW n \in 0..Len(history), Chain(list, n),
           \A v \in discarded' : v \in discarded \/ v > n
    PROVE  Chain(list, n)'
  <1>1. ASSUME NEW u \in list PROVE UpdateInv(u)'
    <2>1. UpdateInv(u) /\ \A k \in Keys : u.updated[k] <= n
      BY DEF Chain
    <2>2. Placed(u.writer, From(u))' /\ Placed(u.writer, u.updated)'
      BY <2>1, LineGrows DEF UpdateInv
    <2>3. ASSUME NEW k \in Keys, u.updated[k] # From(u)[k]
          PROVE  u.updated[k] >= u.pos /\ u.updated[k] \in (Ours \ discarded)'
      <3>1. /\ u.updated[k] >= u.pos /\ u.updated[k] \in Ours \ discarded
            /\ u.updated[k] <= n
        BY <2>1, <2>3 DEF UpdateInv
      <3>2. u.updated[k] \in 1..Len(history)
        BY <3>1 DEF Ours
      <3> QED
        BY <3>1, <3>2, LineGrows, SMT
    <2> QED
      BY <2>1, <2>2, <2>3 DEF UpdateInv
  <1>2. ASSUME NEW u \in list, NEW x \in list, u.writer = x.writer, u.pos <= x.pos
        PROVE  Extends(From(u), x.updated)'
    BY <1>2, LineGrows DEF Chain, UpdateInv
  <1>3. ASSUME NEW u \in list, NEW x \in list, u.pos < x.pos
        PROVE  PairInv(u, x)'
    <2>1. PairInv(u, x) /\ Placed(x.writer, From(x))
      BY <1>3 DEF Chain, UpdateInv
    <2> QED
      BY <2>1, LineGrows DEF PairInv
  <1> QED
    BY <1>1, <1>2, <1>3 DEF Chain

LEMMA KeptGrows ==
    ASSUME TypeOK, HistoryInv, LogGrows,
           NEW list \in SUBSET Update, NEW n \in 0..Len(history), Chain(list, n), Kept(list, n),
           landed \subseteq landed', landed \subseteq 1..Len(history), discarded \subseteq discarded'
    PROVE  Kept(list, n)'
  <1> SUFFICES ASSUME NEW v \in (Ours \ discarded)', v <= n
               PROVE  Landed(v)' \/ Buffered(v, list)'
    BY DEF Kept
  <1>1. v \in 1..Len(history) /\ v \in Ours \ discarded
    <2>1. v \in 1..Len(history)
      BY SMT DEF Ours, LogGrows
    <2> QED
      BY <2>1, LineGrows
  <1>2. CASE Landed(v)
    <2>1. PICK m \in landed : v \in Anc(m)
      BY <1>2 DEF Landed
    <2>2. m \in 0..Len(history)
      BY SMT
    <2>3. v \in Anc(m)'
      BY <2>1, <2>2, LineGrows
    <2> QED
      BY <2>3 DEF Landed
  <1>3. CASE Buffered(v, list)
    <2>1. PICK u \in list, k \in Keys : /\ u.pos <= v /\ u.writer = history[v].writer
                                       /\ u.updated[k] # From(u)[k] /\ v \in Anc(u.updated[k])
      BY <1>3 DEF Buffered
    <2>2. u.updated[k] \in 0..Len(history)
      BY SMT DEF Chain, UpdateInv, Placed, LogGrows
    <2>3. v \in Anc(u.updated[k])' /\ history'[v] = history[v]
      BY <1>1, <2>1, <2>2, LineGrows DEF LogGrows
    <2> QED
      BY <2>1, <2>3 DEF Buffered
  <1> QED
    BY <1>1, <1>2, <1>3 DEF Kept

LEMMA LatestExists ==
    ASSUME CountingFacts, NEW list \in SUBSET Update, NEW u \in list, NEW n \in Nat,
           \A x \in list : x.pos <= n
    PROVE  Latest(list, u.writer) # {}
  <1> DEFINE mine == {x \in list : x.writer = u.writer}
  <1>1. mine \in SUBSET Update /\ mine # {} /\ \A x \in mine : x.pos <= n
    OBVIOUS
  <1>2. LastOf(mine) # {}
    BY <1>1 DEF CountingFacts
  <1> QED
    BY <1>2 DEF LastOf, Latest

LEMMA LatestUnique ==
    ASSUME NEW list \in SUBSET Update, Ordered(list), NEW w,
           NEW u \in Latest(list, w), NEW x \in Latest(list, w)
    PROVE  u = x
  <1>1. u.pos \in Nat /\ x.pos \in Nat /\ u.pos <= x.pos /\ x.pos <= u.pos
    BY DEF Latest, Update
  <1> QED
    BY <1>1, SMT DEF Latest, Ordered

LEMMA ChainSub ==
    ASSUME NEW list, NEW part \in SUBSET list, NEW n, Chain(list, n)
    PROVE  Chain(part, n)
  BY DEF Chain

-----------------------------------------------------------------------------
(* A new version. *)

LEMMA NewVersionFacts ==
    ASSUME TypeOK, HistoryInv, NEW w \in Writers, NEW k \in Keys, NEW old \in 0..Len(history),
           NEW ours \in BOOLEAN, NewVersion(w, k, old, ours),
           old # 0 => history[old].writer = w /\ history[old].key = k
    PROVE  /\ LogGrows /\ HistoryInv'
           /\ Len(history') = Len(history) + 1
           /\ history'[Len(history) + 1] = [writer |-> w, key |-> k, parent |-> old, ours |-> ours]
  <1> DEFINE new == [writer |-> w, key |-> k, parent |-> old, ours |-> ours]
  <1>1. history \in Seq(Version) /\ history' = Append(history, new) /\ Len(history) \in Nat
    BY SMT DEF TypeOK, NewVersion
  <1>2. /\ Len(history') = Len(history) + 1 /\ history'[Len(history) + 1] = new
        /\ \A v \in 1..Len(history) : history'[v] = history[v]
    BY <1>1, SMT
  <1>3. LogGrows
    BY <1>1, <1>2, SMT DEF LogGrows
  <1>4. HistoryInv'
    <2> SUFFICES ASSUME NEW v \in 1..Len(history')
                 PROVE  LET p == history'[v].parent IN
                        /\ p < v
                        /\ p # 0 => /\ history'[p].writer = history'[v].writer
                                    /\ history'[p].key = history'[v].key
      BY DEF HistoryInv
    <2>1. CASE v = Len(history) + 1
      BY <1>1, <1>2, <2>1, SMT
    <2>2. CASE v \in 1..Len(history)
      <3>1. history[v].parent \in Nat
        BY <2>2, LogFacts DEF Version
      <3>2. history[v].parent < v
        BY <2>2 DEF HistoryInv
      <3>3. history[v].parent # 0 => history[v].parent \in 1..Len(history)
        BY <1>1, <2>2, <3>1, <3>2, SMT
      <3> QED
        BY <1>2, <2>2, <3>2, <3>3, SMT DEF HistoryInv
    <2>3. v = Len(history) + 1 \/ v \in 1..Len(history)
      BY <1>1, <1>2, SMT
    <2> QED
      BY <2>1, <2>2, <2>3
  <1> QED
    BY <1>2, <1>3, <1>4

LEMMA NewTree ==
    ASSUME TypeOK, TypeOK', HistoryInv, HistoryInv', LogGrows,
           NEW w \in Writers, NEW k \in Keys, NEW t \in Tree, Placed(w, t),
           NEW v \in Nat, v = Len(history) + 1, Len(history') = v,
           history'[v].writer = w, history'[v].key = k, history'[v].parent = t[k]
    PROVE  /\ Placed(w, [t EXCEPT ![k] = v])'
           /\ \A from : Extends(from, t) => Extends(from, [t EXCEPT ![k] = v])'
  <1> DEFINE root == [t EXCEPT ![k] = v]
  <1>1. root[k] = v /\ \A j \in Keys \ {k} : root[j] = t[j]
    BY DEF Tree
  <1> HIDE DEF root
  <1>2. v \in 1..Len(history')
    BY SMT DEF LogGrows
  <1>3. Placed(w, t)'
    BY LineGrows
  <1>4. Placed(w, root)'
    BY <1>1, <1>2, <1>3, SMT DEF Placed
  <1>5. ASSUME NEW from, Extends(from, t) PROVE Extends(from, root)'
    <2>1. Extends(from, t)'
      BY <1>5, LineGrows
    <2>2. t[k] \in Anc(v)'
      BY <1>2, AncFactsNext
    <2>3. from[k] \in Anc(v)'
      BY <2>1, <2>2, AncFactsNext DEF Extends
    <2> QED
      BY <1>1, <2>1, <2>3 DEF Extends
  <1> QED
    BY <1>4, <1>5 DEF root

LEMMA PlacedRange ==
    ASSUME TypeOK, NEW w, NEW t, Placed(w, t), NEW k \in Keys
    PROVE  t[k] \in 0..Len(history)
  <1>1. Len(history) \in Nat
    BY SMT DEF TypeOK
  <1>2. CASE t[k] = 0
    BY <1>1, <1>2, SMT
  <1>3. CASE t[k] \in 1..Len(history)
    BY <1>1, <1>3, SMT
  <1> QED
    BY <1>2, <1>3 DEF Placed

(* A tree descends from itself, and what descends from a descendant does. *)
LEMMA ExtendsOrder ==
    ASSUME TypeOK, HistoryInv
    PROVE  /\ \A w, t : Placed(w, t) => Extends(t, t)
           /\ \A r, s, t : Extends(r, s) /\ Extends(s, t) => Extends(r, t)
  <1>1. ASSUME NEW w, NEW t, Placed(w, t) PROVE Extends(t, t)
    <2>1. \A k \in Keys : t[k] \in 0..Len(history)
      BY <1>1, PlacedRange
    <2> QED
      BY <2>1, AncFacts DEF Extends
  <1>2. ASSUME NEW r, NEW s, NEW t, Extends(r, s), Extends(s, t) PROVE Extends(r, t)
    BY <1>2, AncFacts DEF Extends
  <1> QED
    BY <1>1, <1>2

(* The tree a write starts from descends from everything its writer has in   *)
(* the list.                                                                 *)
LEMMA SeenChain ==
    ASSUME CountingFacts, TypeOK, ListInv, HistoryInv, ServerInv, Chain(updates, Len(history)),
           NEW w \in Writers, NEW seen \in Seen(w)
    PROVE  /\ seen \in Pointer /\ TreeOf(seen.target) \in Tree /\ Placed(w, TreeOf(seen.target))
           /\ \A u \in updates : u.writer = w =>
                 /\ Extends(u.updated, TreeOf(seen.target))
                 /\ Extends(From(u), TreeOf(seen.target))
                 /\ u.seq <= seen.seq
           /\ \A l \in LastOf(updates) : l.writer = w => TreeOf(seen.target) = l.updated
  <1>1. seen \in Pointer /\ TreeOf(seen.target) \in Tree
    <2>1. seen \in Pointer
      BY SeenType
    <2> QED
      BY <2>1, TargetTree DEF Pointer
  <1>2. /\ updates \in SUBSET Update /\ Ordered(updates) /\ Len(history) \in Nat
        /\ \A u \in updates : u.pos <= Len(history)
    BY SMT DEF TypeOK, ListInv, Ordered
  <1>3. CASE Latest(updates, w) = {}
    <2>1. seen = ptr[w]
      BY <1>3 DEF Seen
    <2>2. \A u \in updates : u.writer # w
      BY <1>2, <1>3, LatestExists
    <2> QED
      BY <1>1, <2>1, <2>2 DEF ServerInv, LastOf
  <1>4. ASSUME NEW x \in Latest(updates, w), seen = [target |-> x.updated, seq |-> x.seq]
        PROVE  /\ Placed(w, TreeOf(seen.target))
               /\ \A u \in updates : u.writer = w =>
                     /\ Extends(u.updated, TreeOf(seen.target))
                     /\ Extends(From(u), TreeOf(seen.target))
                     /\ u.seq <= seen.seq
               /\ \A l \in LastOf(updates) : l.writer = w => TreeOf(seen.target) = l.updated
    <2>1. /\ x \in updates /\ x \in Update /\ x.writer = w /\ UpdateInv(x)
          /\ \A u \in updates : u.writer = w => u.pos <= x.pos
      BY <1>2 DEF Latest, Chain
    <2>2. TreeOf(seen.target) = x.updated /\ seen.seq = x.seq
      BY <1>4, <2>1, TargetTree DEF Update, Target
    <2>3. ASSUME NEW u \in updates, u.writer = w
          PROVE  Extends(u.updated, x.updated) /\ Extends(From(u), x.updated) /\ u.seq <= x.seq
      <3>1. u.pos <= x.pos /\ u.pos \in Nat /\ x.pos \in Nat /\ u.seq \in Nat /\ x.seq \in Nat
        BY <1>2, <2>1, <2>3 DEF Update
      <3>2. Extends(From(u), x.updated) /\ Extends(From(x), x.updated)
        BY <2>1, <2>3, <3>1 DEF Chain
      <3>3. CASE u = x
        <4>1. Placed(w, x.updated)
          BY <2>1 DEF UpdateInv
        <4>2. Extends(x.updated, x.updated)
          BY <4>1, ExtendsOrder
        <4> QED
          BY <3>1, <3>2, <3>3, <4>2, SMT
      <3>4. CASE u # x
        <4>1. u.pos < x.pos
          BY <1>2, <2>1, <3>1, <3>4, SMT DEF Ordered
        <4>2. Extends(u.updated, From(x)) /\ u.seq < x.seq
          BY <2>1, <2>3, <4>1 DEF Chain, PairInv
        <4> QED
          BY <3>1, <3>2, <4>2, ExtendsOrder, SMT
      <3> QED
        BY <3>3, <3>4
    <2>4. ASSUME NEW l \in LastOf(updates), l.writer = w PROVE l = x
      <3>1. l \in Latest(updates, w)
        BY <2>4 DEF LastOf, Latest
      <3> QED
        BY <1>2, <3>1, LatestUnique
    <2> QED
      BY <2>1, <2>2, <2>3, <2>4 DEF UpdateInv
  <1> QED
    BY <1>1, <1>3, <1>4 DEF Seen

LEMMA ChainAdd ==
    ASSUME NEW list, NEW n, Chain(list, n)', NEW new, UpdateInv(new)', new.pos \in Nat, new.pos <= n,
           \A k \in Keys : new.updated[k] <= n,
           \A u \in list : u.pos \in Nat /\ u.pos < new.pos /\ PairInv(u, new)',
           \A u \in list : u.writer = new.writer => Extends(From(u), new.updated)',
           Extends(From(new), new.updated)'
    PROVE  Chain(list \cup {new}, n)'
  <1> DEFINE all == list \cup {new}
  <1>1. \A u \in all : /\ UpdateInv(u)' /\ u.pos <= n
                       /\ \A k \in Keys : u.updated[k] <= n
    BY DEF Chain
  <1>2. \A u, x \in all : u.writer = x.writer /\ u.pos <= x.pos => Extends(From(u), x.updated)'
    BY SMT DEF Chain
  <1>3. \A u, x \in all : u.pos < x.pos => PairInv(u, x)'
    BY SMT DEF Chain
  <1> QED
    BY <1>1, <1>2, <1>3 DEF Chain

(* Version v of ours was written to key k of writer w over tree t. *)
WrittenOver(w, k, t, v) ==
    /\ TypeOK /\ TypeOK' /\ HistoryInv /\ HistoryInv' /\ LogGrows
    /\ UNCHANGED <<discarded, landed>> /\ discarded \subseteq Ours /\ landed \subseteq 1..Len(history)
    /\ w \in Writers /\ k \in Keys /\ t \in Tree /\ Placed(w, t)
    /\ v \in Nat /\ v = Len(history) + 1 /\ Len(history') = v
    /\ history'[v] = [writer |-> w, key |-> k, parent |-> t[k], ours |-> TRUE]

(* An entry that brings it, or brings it together with what t changed. *)
EntryFor(new, w, k, t, v) ==
    /\ new \in Update /\ new.writer = w /\ new.updated = [t EXCEPT ![k] = v]
    /\ 1 <= new.pos /\ new.pos <= v
    /\ Placed(w, From(new)) /\ Extends(From(new), t)
    /\ \A j \in Keys : From(new)[j] < new.pos
    /\ \A j \in Keys : t[j] # From(new)[j] => t[j] >= new.pos /\ t[j] \in Ours \ discarded

(* The updates before it. *)
EntryAfter(list, new, w, t) ==
    /\ list \subseteq Update /\ Chain(list, Len(history))
    /\ \A u \in list : u.pos < new.pos /\ PairInv(u, new)
    /\ \A u \in list : u.writer = w => Extends(From(u), t)

(* set_pointer_update: a new last entry, or the last one with a new root,    *)
(* after a list whose updates of this writer lead to the tree written over.  *)
LEMMA EntryChain ==
    ASSUME NEW w, NEW k, NEW t, NEW v, NEW list, NEW new,
           WrittenOver(w, k, t, v), EntryFor(new, w, k, t, v), EntryAfter(list, new, w, t)
    PROVE  Chain(list \cup {new}, v)'
  <1> USE DEF WrittenOver, EntryFor, EntryAfter
  <1> DEFINE root == [t EXCEPT ![k] = v]
  <1>1. root[k] = v /\ \A j \in Keys \ {k} : root[j] = t[j]
    BY DEF Tree
  <1>2. new.updated = root /\ v \in 1..Len(history') /\ Len(history) \in Nat /\ new.pos \in Nat
    BY SMT DEF LogGrows, Update
  <1>3. Placed(w, root)' /\ \A from : Extends(from, t) => Extends(from, root)'
    <2>1. history'[v].writer = w /\ history'[v].key = k /\ history'[v].parent = t[k]
      BY SMT
    <2> QED
      BY <2>1, NewTree
  <1> HIDE DEF root
  <1>4. v \in Ours' /\ v \notin discarded'
    <2>1. history'[v].ours = TRUE
      BY SMT
    <2> QED
      BY <1>2, <2>1, SMT DEF Ours
  <1>5. \A j \in Keys : t[j] \in 0..Len(history) /\ From(new)[j] \in 0..Len(history)
    BY PlacedRange
  <1>6. UpdateInv(new)'
    <2>1. Placed(w, From(new))'
      BY LineGrows
    <2>2. From(new)[k] # v
      BY <1>2, <1>5, SMT
    <2>3. ASSUME NEW j \in Keys, root[j] # From(new)[j]
          PROVE  root[j] >= new.pos /\ root[j] \in (Ours \ discarded)'
      <3>1. CASE j = k
        BY <1>1, <1>2, <1>4, <3>1
      <3>2. CASE j # k
        <4>1. root[j] = t[j] /\ t[j] >= new.pos /\ t[j] \in Ours \ discarded
          BY <1>1, <2>3, <3>2
        <4>2. t[j] \in 1..Len(history)
          BY <4>1 DEF Ours
        <4> QED
          BY <4>1, <4>2, LineGrows
      <3> QED
        BY <3>1, <3>2
    <2>4. root # From(new)
      BY <1>1, <2>2
    <2> QED
      BY <1>2, <1>3, <2>1, <2>3, <2>4 DEF UpdateInv
  <1>7. \A j \in Keys : new.updated[j] <= v
    BY <1>1, <1>2, <1>5, SMT
  <1>8. Chain(list, v)'
    <2>0. PICK n \in Nat : n = Len(history)
      BY <1>2
    <2>1. Chain(list, n)'
      BY <1>2, <2>0, ChainGrows, SMT
    <2>2. n <= v
      BY <1>2, <2>0, SMT
    <2>3. \A u \in list : u.pos \in Nat /\ \A j \in Keys : u.updated[j] \in Nat
      BY SMT DEF Update, Tree
    <2> QED
      BY <1>2, <2>1, <2>2, <2>3, SMT DEF Chain
  <1>9. ASSUME NEW u \in list PROVE PairInv(u, new)'
    BY LineGrows DEF PairInv
  <1>10. \A u \in list : u.writer = w => Extends(From(u), root)'
    BY <1>3
  <1>11. \A u \in list : u.pos \in Nat
    BY DEF Update
  <1> QED
    BY <1>2, <1>3, <1>6, <1>7, <1>8, <1>9, <1>10, <1>11, ChainAdd

LEMMA EntryKept ==
    ASSUME NEW w, NEW k, NEW t, NEW v, NEW list, NEW new, NEW all,
           WrittenOver(w, k, t, v), EntryFor(new, w, k, t, v),
           all \in SUBSET Update, Chain(all, Len(history)), Kept(all, Len(history)), list \subseteq all,
           \A u \in all \ list : u.pos = new.pos /\ u.writer = w /\ From(u) = From(new) /\ u.updated = t
    PROVE  Kept(list \cup {new}, v)'
  <1> USE DEF WrittenOver, EntryFor
  <1> DEFINE root == [t EXCEPT ![k] = v]
  <1>1. root[k] = v /\ \A j \in Keys \ {k} : root[j] = t[j]
    BY DEF Tree
  <1>2. new.updated = root /\ v \in 1..Len(history') /\ Len(history) \in Nat
    BY SMT DEF LogGrows
  <1> HIDE DEF root
  <1>3. \A j \in Keys : t[j] \in 0..Len(history) /\ From(new)[j] \in 0..Len(history)
    BY PlacedRange
  <1>4. root[k] # From(new)[k]
    BY <1>1, <1>2, <1>3, SMT
  <1>5. v \in Anc(v)' /\ history'[v].writer = w
    BY <1>2, AncFactsNext, SMT
  <1>6. Buffered(v, list \cup {new})'
    BY <1>1, <1>2, <1>4, <1>5, SMT DEF Buffered
  <1>7. PICK n \in Nat : n = Len(history)
    BY <1>2
  <1>8. \A u : u \in all => u \in list \/ u \in all \ list
    OBVIOUS
  <1>9. ASSUME NEW x \in 1..Len(history), Buffered(x, all) PROVE Buffered(x, list \cup {new})'
    <2>1. PICK u \in all, j \in Keys : /\ u.pos <= x /\ u.writer = history[x].writer
                                       /\ u.updated[j] # From(u)[j] /\ x \in Anc(u.updated[j])
      BY <1>9 DEF Buffered
    <2>2. u.updated[j] \in 0..Len(history)
      BY PlacedRange DEF Chain, UpdateInv
    <2>3. x \in Anc(u.updated[j])' /\ history'[x] = history[x]
      BY <2>1, <2>2, LineGrows DEF LogGrows
    <2>4. CASE u \in list
      BY <2>1, <2>3, <2>4 DEF Buffered
    <2>5. CASE u \in all \ list
      <3>1. new.pos <= x /\ new.writer = history'[x].writer
        BY <2>1, <2>3, <2>5
      <3>2. CASE j = k
        <4>1. t[k] \in Anc(v)'
          BY <1>2, AncFactsNext, SMT
        <4>2. x \in Anc(v)'
          BY <2>3, <2>5, <3>2, <4>1, AncFactsNext
        <4> QED
          BY <1>1, <1>2, <1>4, <3>1, <4>2, SMT DEF Buffered
      <3>3. CASE j # k
        BY <1>1, <1>2, <2>1, <2>3, <2>5, <3>1, <3>3, SMT DEF Buffered
      <3> QED
        BY <3>2, <3>3
    <2> QED
      BY <2>4, <2>5
  <1>10. ASSUME NEW x \in 1..Len(history), Landed(x) PROVE Landed(x)'
    <2>1. PICK m \in landed : x \in Anc(m)
      BY <1>10 DEF Landed
    <2>2. m \in 0..Len(history) /\ m \in landed'
      BY <1>2, SMT
    <2> QED
      BY <2>1, <2>2, LineGrows DEF Landed
  <1>11. ASSUME NEW x \in (Ours \ discarded)', x <= v
         PROVE  Landed(x)' \/ Buffered(x, list \cup {new})'
    <2>1. CASE x = v
      BY <1>6, <2>1
    <2>2. CASE x # v
      <3>1. x \in 1..Len(history)
        BY <1>2, <1>11, <2>2, SMT DEF Ours
      <3>2. x \in Ours \ discarded /\ x <= Len(history)
        BY <1>2, <3>1, LineGrows, SMT
      <3> QED
        BY <1>9, <1>10, <3>1, <3>2 DEF Kept
    <2> QED
      BY <2>1, <2>2
  <1> QED
    BY <1>11 DEF Kept

(* A write is entered as a new update, or into the last one. *)
Entered(w, root) ==
    \E new \in Update :
        /\ new.writer = w /\ new.updated = root
        /\ \/ new.pos = Len(history) + 1 /\ updates' = updates \cup {new}
           \/ \E l \in LastOf(updates) : /\ l.writer = w /\ new = [l EXCEPT !.updated = root]
                                         /\ updates' = (updates \ {l}) \cup {new}

(* What Write does to the list and to the versions. *)
Enters(w, k, seen, root) ==
    /\ root = [TreeOf(seen.target) EXCEPT ![k] = Len(history) + 1]
    /\ updates' = AddWrite(w, seen, root) /\ NewVersion(w, k, TreeOf(seen.target)[k], TRUE)
    /\ UNCHANGED <<discarded, landed>>

LEMMA WriteList ==
    ASSUME CountingFacts, TypeOK, TypeOK', ListInv, LineageInv, NEW w \in Writers, NEW k \in Keys,
           NEW seen \in Seen(w), NEW root, Enters(w, k, seen, root)
    PROVE  /\ LogGrows /\ HistoryInv' /\ Len(history') = Len(history) + 1
           /\ history'[Len(history) + 1].ours /\ history'[Len(history) + 1].writer = w
           /\ Chain(updates, Len(history))' /\ Kept(updates, Len(history))'
           /\ Entered(w, root)
  <1>0. /\ HistoryInv /\ ServerInv /\ Chain(updates, Len(history)) /\ Kept(updates, Len(history))
        /\ updates \in SUBSET Update /\ Ordered(updates) /\ Len(history) \in Nat
        /\ \A u \in updates : u.pos \in Nat /\ u.pos <= Len(history)
    BY SMT DEF LineageInv, TypeOK, ListInv, Ordered, Update
  <1>1. PICK t \in Tree : t = TreeOf(seen.target)
    BY <1>0, SeenChain
  <1>2. /\ seen \in Pointer /\ Placed(w, t)
        /\ \A u \in updates : u.writer = w =>
              Extends(u.updated, t) /\ Extends(From(u), t) /\ u.seq <= seen.seq
        /\ \A l \in LastOf(updates) : l.writer = w => t = l.updated
    BY <1>0, <1>1, SeenChain
  <1>3. PICK n \in Nat : n = Len(history)
    BY <1>0
  <1>4. PICK v \in Nat : v = n + 1
    BY SMT
  <1>5. root = [t EXCEPT ![k] = v] /\ root \in Tree
    BY <1>1, <1>3, <1>4, WriteLeaves DEF Enters
  <1>6. /\ LogGrows /\ HistoryInv' /\ Len(history') = v
        /\ history'[v] = [writer |-> w, key |-> k, parent |-> t[k], ours |-> TRUE]
    <2>1. t[k] \in 0..Len(history)
      BY <1>2, PlacedRange
    <2>2. t[k] # 0 => history[t[k]].writer = w /\ history[t[k]].key = k
      BY <1>2 DEF Placed
    <2>3. NewVersion(w, k, t[k], TRUE) /\ TRUE \in BOOLEAN
      BY <1>1 DEF Enters
    <2>4. /\ LogGrows /\ HistoryInv' /\ Len(history') = Len(history) + 1
          /\ history'[Len(history) + 1] = [writer |-> w, key |-> k, parent |-> t[k], ours |-> TRUE]
      BY <1>0, <2>1, <2>2, <2>3, NewVersionFacts
    <2> QED
      BY <1>3, <1>4, <2>4
  <1>7. history'[v].ours /\ history'[v].writer = w
    BY <1>6, SMT
  <1>8. landed \subseteq 1..Len(history) /\ discarded \subseteq Ours
    BY <1>0 DEF ServerInv
  <1>11. WrittenOver(w, k, t, v)
    <2>1. UNCHANGED <<discarded, landed>>
      BY DEF Enters
    <2> QED
      BY <1>0, <1>2, <1>3, <1>4, <1>6, <1>8, <2>1 DEF WrittenOver
  <1>9. ASSUME NEW l \in LastOf(updates), l.writer = w
        PROVE  \E new \in Update :
                  /\ new.writer = w /\ new.updated = root /\ new = [l EXCEPT !.updated = root]
                  /\ updates' = (updates \ {l}) \cup {new}
                  /\ Chain(updates, Len(history))' /\ Kept(updates, Len(history))'
    <2>1. LastOf(updates) = {l}
      BY <1>0, LastUnique, SMT DEF Ordered
    <2>2. updates' = (updates \ {l}) \cup {[l EXCEPT !.updated = root]}
      BY <1>9, <2>1 DEF AddWrite, Advance, Enters
    <2>3. PICK new : new = [l EXCEPT !.updated = root]
      OBVIOUS
    <2>4. l \in updates /\ l \in Update /\ UpdateInv(l) /\ t = l.updated
      BY <1>0, <1>2, <1>9 DEF LastOf, Chain
    <2>5. /\ new \in Update /\ new.writer = w /\ new.updated = root /\ new.pos = l.pos
          /\ new.original = l.original /\ new.seq = l.seq
      BY <1>5, <1>9, <2>3, <2>4 DEF Update
    <2>0. PICK all \in SUBSET Update : all = updates
      BY <1>0
    <2>6. PICK list \in SUBSET all : list = updates \ {l}
      BY <2>0
    <2>7. From(new) = From(l)
      BY <2>5 DEF From
    <2>8. 1 <= new.pos /\ new.pos <= v
      <3>1. 1 <= l.pos
        BY <2>4 DEF UpdateInv
      <3>2. l.pos \in Nat /\ l.pos <= n
        BY <1>0, <1>3, <2>4
      <3> QED
        BY <1>4, <2>5, <3>1, <3>2, SMT
    <2>9. Placed(w, From(new)) /\ Extends(From(new), t)
      BY <1>2, <1>9, <2>4, <2>7 DEF UpdateInv
    <2>10. /\ \A j \in Keys : From(new)[j] < new.pos
           /\ \A j \in Keys : t[j] # From(new)[j] => t[j] >= new.pos /\ t[j] \in Ours \ discarded
      BY <2>4, <2>5, <2>7 DEF UpdateInv
    <2>11. ASSUME NEW u \in list PROVE u.pos < new.pos /\ PairInv(u, new)
      <3>1. u.pos < l.pos
        BY <1>0, <2>4, <2>6, SMT DEF LastOf, Ordered
      <3>2. PairInv(u, l)
        BY <1>0, <2>4, <2>6, <3>1 DEF Chain
      <3> QED
        BY <1>9, <2>5, <2>7, <3>1, <3>2 DEF PairInv
    <2>12. Chain(list, Len(history)) /\ list \in SUBSET Update
      BY <1>0, <2>6, ChainSub
    <2>18. EntryFor(new, w, k, t, v)
      <3>1. new.updated = [t EXCEPT ![k] = v]
        BY <1>5, <2>5
      <3> QED
        BY <2>5, <2>8, <2>9, <2>10, <3>1 DEF EntryFor
    <2>13. Chain(list \cup {new}, v)'
      <3>2. \A u \in list : u.writer = w => Extends(From(u), t)
        BY <1>2, <2>6
      <3>3. EntryAfter(list, new, w, t)
        BY <2>11, <2>12, <3>2 DEF EntryAfter
      <3> QED
        BY <1>11, <2>18, <3>3, EntryChain
    <2>14. \A u \in all \ list :
              u.pos = new.pos /\ u.writer = w /\ From(u) = From(new) /\ u.updated = t
      BY <1>9, <2>0, <2>4, <2>5, <2>6, <2>7, SMT
    <2>15. Kept(list \cup {new}, v)'
      <3>1. Chain(all, Len(history)) /\ Kept(all, Len(history))
        BY <1>0, <2>0, SMT
      <3> QED
        BY <1>11, <2>14, <2>18, <3>1, EntryKept
    <2>16. updates' = list \cup {new} /\ Len(history') = v
      BY <1>6, <2>2, <2>3, <2>6
    <2>17. Chain(updates, Len(history))' /\ Kept(updates, Len(history))'
      BY <2>13, <2>15, <2>16
    <2> QED
      BY <2>2, <2>3, <2>5, <2>17
  <1>10. ASSUME ~ \E l \in LastOf(updates) : l.writer = w
         PROVE  \E new \in Update :
                   /\ new.writer = w /\ new.updated = root /\ new.pos = v
                   /\ updates' = updates \cup {new}
                   /\ Chain(updates, Len(history))' /\ Kept(updates, Len(history))'
    <2>1. PICK new : new = [pos |-> v, writer |-> w, original |-> seen.target,
                            updated |-> root, seq |-> seen.seq + 1]
      OBVIOUS
    <2>2. updates' = updates \cup {new}
      BY <1>3, <1>4, <1>10, <2>1 DEF AddWrite, Enters
    <2>3. /\ new \in Update /\ new.writer = w /\ new.updated = root /\ new.pos = v
          /\ new.original = seen.target /\ new.seq = seen.seq + 1
      <3>1. seen.target \in Target /\ seen.seq \in Nat
        BY <1>2 DEF Pointer
      <3>2. v \in Nat /\ seen.seq + 1 \in Nat /\ root \in Tree
        BY <1>5, <3>1, SMT
      <3> QED
        BY <2>1, <3>1, <3>2 DEF Update
    <2>4. From(new) = t
      BY <1>1, <2>3 DEF From
    <2>5. PICK list \in SUBSET Update : list = updates
      BY <1>0
    <2>6. 1 <= new.pos /\ new.pos <= v
      BY <1>4, <2>3, SMT
    <2>7. Placed(w, From(new)) /\ Extends(From(new), t)
      BY <1>0, <1>2, <2>4, ExtendsOrder
    <2>8. /\ \A j \in Keys : From(new)[j] < new.pos
          /\ \A j \in Keys : t[j] # From(new)[j] => t[j] >= new.pos /\ t[j] \in Ours \ discarded
      <3>1. \A j \in Keys : t[j] \in 0..n
        BY <1>2, <1>3, PlacedRange
      <3> QED
        BY <1>4, <2>3, <2>4, <3>1, SMT
    <2>9. ASSUME NEW u \in list PROVE u.pos < new.pos /\ PairInv(u, new)
      <3>1. u \in Update /\ u.pos <= n /\ u.pos \in Nat /\ u.seq \in Nat
        BY <1>0, <1>3, <2>5 DEF Update
      <3>2. \A j \in Keys : u.updated[j] <= n /\ u.updated[j] \in Nat
        BY <1>0, <1>3, <2>5, <3>1 DEF Chain, Update, Tree
      <3>3. u.writer = w => Extends(u.updated, t) /\ u.seq < new.seq
        <4>1. u.writer = w => Extends(u.updated, t) /\ u.seq <= seen.seq
          BY <1>2, <2>5
        <4>2. seen.seq \in Nat
          BY <1>2 DEF Pointer
        <4> QED
          BY <2>3, <3>1, <4>1, <4>2, SMT
      <3>4. u.pos < v /\ \A j \in Keys : u.updated[j] < v
        <4>1. u.pos < v
          BY <1>4, <3>1, SMT
        <4>2. ASSUME NEW j \in Keys PROVE u.updated[j] < v
          BY <1>4, <3>2, SMT
        <4> QED
          BY <4>1, <4>2
      <3> QED
        BY <2>3, <2>4, <3>3, <3>4 DEF PairInv
    <2>10. Chain(list, Len(history)) /\ Kept(list, Len(history)) /\ list \in SUBSET Update
      BY <1>0, <2>5
    <2>11. \A u \in list : u.writer = w => Extends(From(u), t)
      BY <1>2, <2>5
    <2>0. EntryFor(new, w, k, t, v)
      BY <1>5, <2>3, <2>6, <2>7, <2>8, SMT DEF EntryFor
    <2>12. Chain(list \cup {new}, v)'
      <3>1. EntryAfter(list, new, w, t)
        BY <2>9, <2>10, <2>11 DEF EntryAfter
      <3> QED
        BY <1>11, <2>0, <3>1, EntryChain, SMT
    <2>13. Kept(list \cup {new}, v)'
      <3>1. \A u \in list \ list :
              u.pos = new.pos /\ u.writer = w /\ From(u) = From(new) /\ u.updated = t
        OBVIOUS
      <3>2. list \subseteq list
        OBVIOUS
      <3> QED
        BY <1>11, <2>0, <2>10, <3>1, <3>2, EntryKept
    <2>14. updates' = list \cup {new} /\ Len(history') = v
      BY <1>6, <2>2, <2>5
    <2>15. Chain(updates, Len(history))' /\ Kept(updates, Len(history))'
      BY <2>12, <2>13, <2>14
    <2> QED
      BY <2>2, <2>3, <2>15
  <1> QED
    <2>1. Entered(w, root) /\ Chain(updates, Len(history))' /\ Kept(updates, Len(history))'
      BY <1>3, <1>4, <1>9, <1>10 DEF Entered
    <2> QED
      BY <1>3, <1>4, <1>6, <1>7, <2>1

(* A step that leaves what the first n checkpoints restore as it was. *)
RestoresSame(n) ==
    \A i \in 1..n : i \in 1..Len(cps) /\ RolledBack(cps[i])' = RolledBack(cps[i])

(* What more there may be on the server, and be given up since. *)
StillRestorable(cp) ==
    /\ LogGrows /\ landed \subseteq landed' /\ discarded \subseteq discarded'
    /\ \A v \in discarded' : v \in discarded \/ v > cp.since

LEMMA RestorableSame ==
    ASSUME TypeOK, HistoryInv, ServerInv, NEW cp \in Checkpoint, Restorable(cp),
           StillRestorable(cp), RolledBack(cp)' = RolledBack(cp),
           cp.generation = generation' => (Dropped \/ Snapshot(cp))'
    PROVE  Restorable(cp)'
  <1>1. PICK list : list = RolledBack(cp)
    OBVIOUS
  <1>2. PICK n : n = cp.since
    OBVIOUS
  <1>3. list \in SUBSET Update /\ n \in 0..Len(history) /\ n <= Len(history')
    <2>1. cp.since \in Nat /\ Len(history) \in Nat /\ Len(history') \in Nat
      BY DEF Checkpoint, StillRestorable, LogGrows
    <2>2. cp.since <= Len(history) /\ Len(history) <= Len(history')
      BY DEF Restorable, StillRestorable, LogGrows
    <2> QED
      BY <1>1, <1>2, <2>1, <2>2, RolledBackType, SMT
  <1>4. Chain(list, n) /\ Kept(list, n)
    BY <1>1, <1>2 DEF Restorable
  <1>5. Chain(list, n)' /\ Kept(list, n)'
    BY <1>2, <1>3, <1>4, ChainGrows, KeptGrows DEF StillRestorable, ServerInv
  <1> QED
    BY <1>1, <1>2, <1>3, <1>5 DEF Restorable

-----------------------------------------------------------------------------
(* Steps that move pointers. *)

(* The tree of writer w on the server is the same, or one that descends      *)
(* from it.                                                                  *)
Moves(w) ==
    \E s, t \in Tree : /\ s = TreeOf(ptr[w].target) /\ t = TreeOf(ptr'[w].target)
                       /\ Placed(w, t)' /\ Extends(s, t)'

LEMMA ServerTree ==
    ASSUME TypeOK, NEW w \in Writers
    PROVE  TreeOf(ptr[w].target) \in Tree /\ ptr[w].target \in Target
  <1>1. ptr[w].target \in Target
    BY DEF TypeOK, Pointer
  <1> QED
    BY <1>1, TargetTree

LEMMA NoMove ==
    ASSUME TypeOK, TypeOK', HistoryInv, HistoryInv', ServerInv, LogGrows,
           NEW w \in Writers, ptr'[w] = ptr[w]
    PROVE  Moves(w)
  <1>1. PICK s \in Tree : s = TreeOf(ptr[w].target)
    BY ServerTree
  <1>2. Placed(w, s)
    BY <1>1 DEF ServerInv
  <1>3. Extends(s, s)
    BY <1>2, ExtendsOrder
  <1>4. Placed(w, s)' /\ Extends(s, s)'
    BY <1>2, <1>3, LineGrows
  <1> QED
    BY <1>1, <1>4 DEF Moves

LEMMA ServerMoves ==
    ASSUME TypeOK, TypeOK', HistoryInv, ServerInv, LogGrows, \A w \in Writers : Moves(w),
           landed' = landed \cup OnServer(ptr'), discarded' \subseteq Ours'
    PROVE  ServerInv'
  <1>1. \A w \in Writers : Placed(w, TreeOf(ptr[w].target))'
    BY DEF Moves
  <1>2. OnServer(ptr') \subseteq 1..Len(history')
    <2> SUFFICES ASSUME NEW v \in OnServer(ptr') PROVE v \in 1..Len(history')
      OBVIOUS
    <2>1. PICK w \in Writers, k \in Keys : v = TreeOf(ptr'[w].target)[k] /\ v # 0
      BY DEF OnServer, Leaves
    <2> QED
      BY <1>1, <2>1 DEF Placed
  <1>3. landed \subseteq 1..Len(history')
    BY SMT DEF ServerInv, LogGrows
  <1>4. OnServer(ptr)' = OnServer(ptr')
    BY DEF OnServer
  <1> QED
    BY <1>1, <1>2, <1>3, <1>4 DEF ServerInv

LEMMA ReflectedMoves ==
    ASSUME TypeOK, TypeOK', HistoryInv, HistoryInv', ServerInv, LogGrows,
           \A w \in Writers : Moves(w), NEW u \in Update, Reflected(u)
    PROVE  Reflected(u)'
  <1>1. u.writer \in Writers
    BY DEF Update
  <1>2. PICK s, t \in Tree : /\ s = TreeOf(ptr[u.writer].target) /\ t = TreeOf(ptr'[u.writer].target)
                             /\ Extends(s, t)'
    BY <1>1 DEF Moves
  <1>3. Placed(u.writer, s)
    BY <1>1, <1>2 DEF ServerInv
  <1>4. ASSUME NEW k \in Keys, u.updated[k] # From(u)[k]
        PROVE  u.updated[k] \in Anc(t[k])'
    <2>1. u.updated[k] \in Anc(s[k])
      BY <1>2, <1>4 DEF Reflected
    <2>2. s[k] \in 0..Len(history)
      BY <1>3, PlacedRange
    <2>3. u.updated[k] \in Anc(s[k])'
      BY <2>1, <2>2, LineGrows
    <2> QED
      BY <1>2, <2>3, AncFactsNext DEF Extends
  <1> QED
    BY <1>2, <1>4 DEF Reflected

LEMMA LandedMoves ==
    ASSUME TypeOK, HistoryInv, ServerInv, LogGrows, landed \subseteq landed', NEW v, Landed(v)
    PROVE  Landed(v)'
  <1>1. PICK m \in landed : v \in Anc(m)
    BY DEF Landed
  <1>2. m \in 0..Len(history) /\ m \in landed'
    BY SMT DEF ServerInv, LogGrows
  <1> QED
    BY <1>1, <1>2, LineGrows DEF Landed

LEMMA FlushEnds ==
    ASSUME pc' = "idle"
    PROVE  FlushInv'
  BY DEF FlushInv, Idle, Committing

-----------------------------------------------------------------------------
(* A pointer is set. *)

LEMMA PointerMoves ==
    ASSUME TypeOK, TypeOK', HistoryInv, HistoryInv', ServerInv, LogGrows,
           NEW w \in Writers, NEW r \in Tree, NEW seq \in Nat, SetPointer(w, r, seq),
           NEW s, s = TreeOf(ptr[w].target), Placed(w, r)', Extends(s, r)'
    PROVE  /\ \A x \in Writers : Moves(x)
           /\ landed' = landed \cup OnServer(ptr')
           /\ TreeOf(ptr'[w].target) = r
           /\ \A v \in landed' \ landed : v \in Leaves(r)
  <1>1. ptr'[w] = [target |-> r, seq |-> seq] /\ \A x \in Writers : x # w => ptr'[x] = ptr[x]
    BY SetPointerType
  <1>2. TreeOf(ptr'[w].target) = r
    <2>1. ptr'[w].target = r
      BY <1>1, SMT
    <2>2. TreeOf(r) = r
      BY TargetTree DEF Target
    <2> QED
      BY <2>1, <2>2
  <1>3. Moves(w)
    BY <1>2, ServerTree DEF Moves
  <1>4. \A x \in Writers : x # w => Moves(x)
    BY <1>1, NoMove
  <1>5. landed' = landed \cup OnServer(ptr')
    BY DEF SetPointer, SetPointers
  <1>6. ASSUME NEW v \in OnServer(ptr'), v \notin landed PROVE v \in Leaves(r)
    <2>1. PICK x \in Writers : v \in Leaves(TreeOf(ptr'[x].target))
      BY <1>6 DEF OnServer
    <2>2. CASE x = w
      BY <1>2, <2>1, <2>2
    <2>3. CASE x # w
      <3>1. v \in OnServer(ptr)
        BY <1>1, <2>1, <2>3 DEF OnServer
      <3> QED
        BY <1>6, <3>1 DEF ServerInv
    <2> QED
      BY <2>2, <2>3
  <1> QED
    BY <1>2, <1>3, <1>4, <1>5, <1>6

(* While one owner's updates are committed under a checkpoint, no others are *)
(* buffered.                                                                 *)
LEMMA OneOwner ==
    ASSUME TypeOK, LineageInv, ~Idle, pc # "owner", cps # <<>>
    PROVE  updates \ OwnedBy(cur) = {}
  <1>1. PICK w \in Writers : cur = ownerOf[w]
    BY DEF LineageInv, FlushInv
  <1>2. \A x \in Writers : ownerOf[x] = ownerOf[w]
    BY DEF LineageInv, NestingInv
  <1>3. \A u \in updates : u.writer \in Writers
    BY DEF TypeOK, Update
  <1> QED
    BY <1>1, <1>2, <1>3 DEF OwnedBy

=============================================================================
