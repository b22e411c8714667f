------------------------ MODULE BufferedFlushProofs -------------------------
(* Every step of a flush keeps the invariant of BufferedLineage.             *)
EXTENDS BufferedLineageProofs

USE Zenon

(* The list was committed. *)
LEMMA RestorableDropped ==
    ASSUME TypeOK', NEW cp \in Checkpoint, cp.since <= Len(history'), updates' = {},
           Kept(updates, Len(history))', cp.generation = generation' => Dropped'
    PROVE  Restorable(cp)'
  <1>1. RolledBack(cp)' = {}
    <2>1. Truncate(updates', cp.len) = {}
      BY DEF Truncate
    <2>2. \A r : Advance({}, r) = {}
      BY DEF Advance, LastOf
    <2> QED
      BY <2>1, <2>2 DEF RolledBack
  <1>2. PICK list : list = {}
    OBVIOUS
  <1>3. PICK n : n = cp.since
    OBVIOUS
  <1>4. Chain(list, n)'
    BY <1>2 DEF Chain
  <1>5. Kept(list, n)'
    <2>1. n \in Nat /\ Len(history') \in Nat /\ n <= Len(history') /\ updates' = list
      BY <1>2, <1>3, SMT DEF Checkpoint, TypeOK
    <2>2. \A v \in Ours' : v \in Nat /\ v <= Len(history')
      BY <2>1, SMT DEF Ours
    <2> QED
      BY <2>1, <2>2 DEF Kept
  <1> QED
    BY <1>1, <1>2, <1>3, <1>4, <1>5 DEF Restorable

LEMMA ReflectedLanded ==
    ASSUME TypeOK', HistoryInv', ServerInv', NEW u \in Update, UpdateInv(u)', Reflected(u)',
           NEW v, NEW k \in Keys, u.updated[k] # From(u)[k], v \in Anc(u.updated[k])'
    PROVE  Landed(v)'
  <1>1. u.writer \in Writers /\ u.pos \in Nat /\ u.updated[k] \in Nat
    BY DEF Update, Tree
  <1>2. PICK t : t = TreeOf(ptr'[u.writer].target)
    OBVIOUS
  <1>3. u.updated[k] \in Anc(t[k])' /\ u.updated[k] >= 1
    BY <1>1, <1>2, SMT DEF Reflected, UpdateInv
  <1>4. Placed(u.writer, t)'
    BY <1>1, <1>2 DEF ServerInv
  <1>5. t[k] # 0
    <2>1. 0 \in 0..Len(history')
      BY LogFactsNext, SMT
    <2>2. \A a \in Anc(0)' : a \in Nat /\ a <= 0
      BY <2>1, AncFactsNext
    <2> QED
      BY <1>1, <1>3, <2>2, SMT
  <1>6. t[k] \in landed'
    <2>1. t[k] \in Leaves(t)
      BY <1>5 DEF Leaves
    <2>2. t[k] \in OnServer(ptr)'
      BY <1>1, <1>2, <2>1 DEF OnServer
    <2> QED
      BY <2>2 DEF ServerInv
  <1>7. v \in Anc(t[k])'
    BY <1>3, AncFactsNext
  <1> QED
    BY <1>6, <1>7 DEF Landed

-----------------------------------------------------------------------------
(* Steps of a flush. *)

(* What every step of a flush leaves alone, and what it may do. *)
FlushMoves ==
    /\ StorageInv /\ StorageInv' /\ LineageInv
    /\ UNCHANGED <<history, discarded, ownerOf, cps>>
    /\ \A w \in Writers : Moves(w)
    /\ landed' = landed \cup OnServer(ptr')
    /\ opErr' => pc' = "idle" /\ cps # <<>>
    /\ FlushInv'

(* Whatever of ours lands is earlier than what stays behind. *)
LandsInOrder ==
    \A v \in (Ours \cap landed') \ landed, x \in updates :
        ownerOf[x.writer] = ownerOf[history[v].writer] => Reflected(x)' \/ v < x.pos

LEMMA FlushFacts ==
    ASSUME FlushMoves
    PROVE  /\ TypeOK /\ TypeOK' /\ HistoryInv /\ HistoryInv' /\ ServerInv /\ ServerInv' /\ LogGrows
           /\ landed \subseteq landed' /\ ListInv /\ ListInv' /\ NestingInv'
  <1>1. TypeOK /\ TypeOK' /\ HistoryInv /\ ServerInv /\ ListInv /\ ListInv'
    BY DEF FlushMoves, StorageInv, LineageInv
  <1>2. history' = history /\ Len(history) \in Nat /\ discarded' = discarded
    BY <1>1, SMT DEF FlushMoves, TypeOK
  <1>3. LogGrows /\ HistoryInv'
    BY <1>1, <1>2, SameLog
  <1>4. discarded' \subseteq Ours'
    BY <1>1, <1>2 DEF ServerInv, Ours
  <1>5. ServerInv' /\ landed \subseteq landed'
    BY <1>1, <1>3, <1>4, ServerMoves DEF FlushMoves
  <1>6. NestingInv'
    BY DEF FlushMoves, LineageInv, NestingInv, Idle
  <1> QED
    BY <1>1, <1>3, <1>5, <1>6

LEMMA OrderMoves ==
    ASSUME FlushMoves, LandsInOrder
    PROVE  OrderInv'
  <1> SUFFICES ASSUME NEW u \in (Ours \ discarded)', NEW v \in (Ours \cap landed)', ~Landed(u)',
                      ownerOf'[history'[u].writer] = ownerOf'[history'[v].writer]
               PROVE  v < u
    BY DEF OrderInv
  <1>1. history' = history /\ ownerOf' = ownerOf /\ discarded' = discarded
    BY DEF FlushMoves
  <1>2. u \in Ours \ discarded /\ v \in Ours /\ v \in landed'
    BY <1>1 DEF Ours
  <1>3. ~Landed(u)
    BY FlushFacts, LandedMoves
  <1>4. CASE v \in landed
    BY <1>1, <1>2, <1>3, <1>4 DEF FlushMoves, LineageInv, OrderInv
  <1>5. CASE v \notin landed
    <2>1. u \in Nat /\ v \in Nat /\ u <= Len(history)
      BY <1>2, FlushFacts, SMT DEF Ours, LogGrows
    <2>2. Buffered(u, updates)
      BY <1>2, <1>3, <2>1 DEF FlushMoves, LineageInv, Kept
    <2>3. PICK x \in updates, k \in Keys :
              /\ x.pos <= u /\ x.writer = history[u].writer
              /\ x.updated[k] # From(x)[k] /\ u \in Anc(x.updated[k])
      BY <2>2 DEF Buffered
    <2>4. x \in Update /\ x.pos \in Nat /\ UpdateInv(x)
      BY DEF FlushMoves, StorageInv, TypeOK, LineageInv, Chain, Update
    <2>5. ~ Reflected(x)'
      <3> SUFFICES ASSUME Reflected(x)' PROVE FALSE
        OBVIOUS
      <3>1. UpdateInv(x)'
        BY <1>1, <2>4 DEF UpdateInv, Placed, Ours
      <3>2. u \in Anc(x.updated[k])'
        BY <1>1, <2>3 DEF Anc
      <3> QED
        BY <2>3, <2>4, <3>1, <3>2, FlushFacts, ReflectedLanded
    <2>6. v < x.pos
      BY <1>1, <1>2, <1>5, <2>3, <2>5 DEF LandsInOrder
    <2> QED
      BY <2>1, <2>3, <2>4, <2>6, SMT
  <1> QED
    BY <1>4, <1>5

(* A step that drops no update. *)
LEMMA MoveStep ==
    ASSUME FlushMoves, LandsInOrder, UNCHANGED <<updates, generation>>, Dropped => Dropped'
    PROVE  LineageInv'
  <1>1. PICK list, n : list = updates /\ n = Len(history)
    OBVIOUS
  <1>2. /\ history' = history /\ discarded' = discarded /\ cps' = cps
        /\ updates' = list /\ Len(history') = n /\ updates' = updates /\ generation' = generation
    BY <1>1 DEF FlushMoves
  <1>3. list \in SUBSET Update /\ n \in 0..Len(history) /\ n \in Nat
    BY <1>1, FlushFacts, SMT DEF TypeOK
  <1>4. landed \subseteq 1..Len(history)
    BY FlushFacts DEF ServerInv
  <1>5. Chain(list, n)' /\ Kept(list, n)'
    BY <1>1, <1>2, <1>3, <1>4, FlushFacts, ChainGrows, KeptGrows DEF FlushMoves, LineageInv
  <1>6. ASSUME NEW i \in 1..Len(cps') PROVE Restorable(cps[i])'
    <2>1. PICK cp : cp = cps[i]
      OBVIOUS
    <2>2. cp \in Checkpoint /\ Restorable(cp) /\ cps'[i] = cp
      BY <1>2, <2>1, FlushFacts, CheckpointsType DEF FlushMoves, LineageInv
    <2>3. RolledBack(cp)' = RolledBack(cp)
      BY <1>2, SMT DEF RolledBack
    <2>4. Snapshot(cp) => Snapshot(cp)'
      BY <1>2 DEF Snapshot, Old
    <2>5. StillRestorable(cp)
      BY <1>2, FlushFacts DEF StillRestorable
    <2>6. cp.generation = generation' => (Dropped \/ Snapshot(cp))'
      BY <1>2, <2>2, <2>4 DEF Restorable
    <2>7. Restorable(cp)'
      BY <2>2, <2>3, <2>5, <2>6, FlushFacts, RestorableSame
    <2> QED
      BY <2>2, <2>7
  <1> QED
    BY <1>2, <1>5, <1>6, FlushFacts, OrderMoves DEF LineageInv, FlushMoves

(* A step that drops what the server has. *)
LEMMA DropStep ==
    ASSUME FlushMoves, LandsInOrder, updates' = updates \ OwnedBy(cur),
           \A x \in OwnedBy(cur) : Reflected(x)',
           cps # <<>> => updates' = {} /\ (generation' = generation + 1 \/ Dropped')
    PROVE  LineageInv'
  <1>1. PICK list, n : list = updates /\ n = Len(history)
    OBVIOUS
  <1>2. /\ history' = history /\ discarded' = discarded /\ cps' = cps /\ Len(history') = n
    BY <1>1 DEF FlushMoves
  <1>3. list \in SUBSET Update /\ n \in 0..Len(history) /\ n \in Nat
    BY <1>1, FlushFacts, SMT DEF TypeOK
  <1>4. landed \subseteq 1..Len(history)
    BY FlushFacts DEF ServerInv
  <1>5. Chain(list, n)' /\ Kept(list, n)'
    BY <1>1, <1>2, <1>3, <1>4, FlushFacts, ChainGrows, KeptGrows DEF FlushMoves, LineageInv
  <1>6. PICK rest \in SUBSET list : rest = updates'
    BY <1>1
  <1>7. Chain(rest, n)'
    BY <1>5 DEF Chain
  <1>8. Kept(rest, n)'
    <2> SUFFICES ASSUME NEW v \in (Ours \ discarded)', v <= n, ~Buffered(v, rest)'
                 PROVE  Landed(v)'
      BY DEF Kept
    <2>1. CASE Buffered(v, list)'
      <3>1. PICK u \in list, k \in Keys :
                /\ u.pos <= v /\ u.writer = history'[v].writer
                /\ u.updated[k] # From(u)[k] /\ v \in Anc(u.updated[k])'
        BY <2>1 DEF Buffered
      <3>2. u \notin rest
        BY <3>1 DEF Buffered
      <3>3. u \in OwnedBy(cur)
        BY <1>1, <1>6, <3>2
      <3>4. u \in Update /\ UpdateInv(u)'
        BY <1>3, <1>5 DEF Chain
      <3> QED
        BY <3>1, <3>3, <3>4, FlushFacts, ReflectedLanded
    <2> QED
      BY <1>5, <2>1 DEF Kept
  <1>9. Chain(updates, Len(history))' /\ Kept(updates, Len(history))'
    BY <1>2, <1>6, <1>7, <1>8
  <1>10. ASSUME NEW i \in 1..Len(cps') PROVE Restorable(cps[i])'
    <2>1. PICK cp : cp = cps[i]
      OBVIOUS
    <2>2. cp \in Checkpoint /\ Restorable(cp) /\ cps'[i] = cp /\ cps # <<>>
      BY <1>2, <2>1, FlushFacts, CheckpointsType, SMT DEF FlushMoves, LineageInv
    <2>3. cp.since <= Len(history')
      BY <1>2, <2>2 DEF Restorable
    <2>4. cp.generation <= generation /\ cp.generation \in Nat /\ generation \in Nat
      BY <1>2, <2>1, FlushFacts, CheckpointsType DEF FlushMoves, StorageInv, CheckpointInv, TypeOK
    <2>5. cp.generation = generation' => Dropped'
      BY <2>2, <2>4, SMT
    <2>6. Restorable(cp)'
      BY <1>9, <2>2, <2>3, <2>5, FlushFacts, RestorableDropped
    <2> QED
      BY <2>2, <2>6
  <1> QED
    BY <1>9, <1>10, FlushFacts, OrderMoves DEF LineageInv, FlushMoves

(* Where a flush is. *)

LEMMA NotDropped ==
    ASSUME LineageInv, ~Idle, pc # "owner" \/ todo # {}
    PROVE  ~Dropped
  BY DEF LineageInv, NestingInv, Dropped

LEMMA FlushGoesOn ==
    ASSUME FlushInv, ~Idle, pc' \in {"bulk", "last", "old"}, cur' \in todo,
           UNCHANGED <<updates, todo, ownerOf, cps>>
    PROVE  FlushInv'
  BY DEF FlushInv, Idle, Committing

LEMMA FlushNext ==
    ASSUME FlushInv, ~Idle, OwnerDone, updates' = updates \ OwnedBy(cur), ownerOf' = ownerOf
    PROVE  FlushInv'
  BY DEF FlushInv, Idle, Committing, OwnerDone, OwnedBy, callerVars

LEMMA FlushCommits ==
    ASSUME FlushInv, ~Idle, pc # "owner", pc' \in {"ptrs", "resolve"},
           UNCHANGED <<updates, todo, cur, ownerOf, cps>>, writes' \subseteq OwnedBy(cur),
           \A x \in OwnedBy(cur) \ writes' : Reflected(x)'
    PROVE  FlushInv'
  <1>1. OwnedBy(cur)' = OwnedBy(cur)
    BY DEF OwnedBy
  <1> QED
    BY <1>1 DEF FlushInv, Idle, Committing

(* A step that leaves the pointers alone. *)
LEMMA QuietMoves ==
    ASSUME StorageInv, StorageInv', LineageInv,
           UNCHANGED <<history, discarded, ownerOf, cps, ptr, landed>>
    PROVE  /\ \A w \in Writers : Moves(w)
           /\ landed' = landed \cup OnServer(ptr')
           /\ LandsInOrder
           /\ \A u \in Update : Reflected(u) => Reflected(u)'
  <1>1. TypeOK /\ TypeOK' /\ HistoryInv /\ ServerInv /\ history' = history
    BY DEF StorageInv, LineageInv
  <1>2. HistoryInv' /\ LogGrows
    BY <1>1, SameLog
  <1>3. \A w \in Writers : Moves(w)
    BY <1>1, <1>2, NoMove
  <1>4. landed' = landed \cup OnServer(ptr')
    BY <1>1 DEF ServerInv
  <1>5. \A u \in Update : Reflected(u) => Reflected(u)'
    BY <1>1, <1>2, <1>3, ReflectedMoves
  <1> QED
    BY <1>3, <1>4, <1>5 DEF LandsInOrder

LEMMA QuietFlushStep ==
    ASSUME StorageInv, StorageInv', LineageInv, ~Idle, pc # "owner" \/ todo # {},
           UNCHANGED <<history, discarded, ownerOf, cps, ptr, landed, updates, generation>>,
           opErr' => pc' = "idle" /\ cps # <<>>, FlushInv'
    PROVE  LineageInv'
  BY NotDropped, QuietMoves, MoveStep DEF FlushMoves

LEMMA FailedFlushStep ==
    ASSUME StorageInv, StorageInv', LineageInv, ~Idle, pc # "owner",
           UNCHANGED <<history, discarded, ownerOf, ptr, landed, updates, generation>>,
           FlushFails
    PROVE  LineageInv'
  BY FlushEnds, QuietFlushStep DEF FlushFails

LEMMA CommitMoves ==
    ASSUME StorageInv, StorageInv', LineageInv, Committing, NEW u \in writes, IsFirst(u, writes),
           UNCHANGED <<history, ownerOf, updates, discarded>>,
           NEW r \in Tree, NEW seq \in Nat, SetPointer(u.writer, r, seq),
           Placed(u.writer, r), Extends(TreeOf(ptr[u.writer].target), r),
           \A k \in Keys : u.updated[k] # From(u)[k] => r[k] = u.updated[k],
           Leaves(r) \subseteq Leaves(u.updated) \cup OnServer(ptr)
    PROVE  /\ \A w \in Writers : Moves(w)
           /\ landed' = landed \cup OnServer(ptr')
           /\ LandsInOrder
           /\ \A x \in OwnedBy(cur) \ writes : Reflected(x)'
           /\ Reflected(u)'
  <1>1. /\ TypeOK /\ TypeOK' /\ HistoryInv /\ ServerInv /\ history' = history /\ Len(history) \in Nat
        /\ writes \subseteq OwnedBy(cur) /\ OwnedBy(cur) \subseteq updates /\ updates \subseteq Update
        /\ Chain(updates, Len(history)) /\ ListInv
    <2>1. TypeOK /\ TypeOK' /\ HistoryInv /\ ServerInv /\ Chain(updates, Len(history)) /\ ListInv
      BY DEF StorageInv, LineageInv
    <2>2. writes \subseteq OwnedBy(cur) /\ OwnedBy(cur) \subseteq updates
      BY DEF LineageInv, FlushInv, OwnedBy
    <2> QED
      BY <2>1, <2>2, ListType
  <1>2. HistoryInv' /\ LogGrows
    BY <1>1, SameLog
  <1>3. PICK w \in Writers : w = u.writer
    BY <1>1 DEF Update
  <1>4. PICK s \in Tree : s = TreeOf(ptr[w].target)
    BY <1>1, ServerTree
  <1>5. Placed(w, r) /\ Extends(s, r) /\ Placed(w, r)' /\ Extends(s, r)'
    BY <1>1, <1>2, <1>3, <1>4, LineGrows
  <1>6. /\ \A x \in Writers : Moves(x)
        /\ landed' = landed \cup OnServer(ptr')
        /\ TreeOf(ptr'[w].target) = r
        /\ \A v \in landed' \ landed : v \in Leaves(r)
    BY <1>1, <1>2, <1>3, <1>4, <1>5, PointerMoves
  <1>7. \A x \in OwnedBy(cur) \ writes : Reflected(x)'
    BY <1>1, <1>2, <1>6, ReflectedMoves DEF LineageInv, FlushInv
  <1>8. Reflected(u)'
    <2>1. \A k \in Keys : r[k] \in Anc(r[k])'
      BY <1>1, <1>2, <1>5, PlacedRange, AncFactsNext
    <2> QED
      BY <1>3, <1>6, <2>1 DEF Reflected
  <1>9. LandsInOrder
    <2> SUFFICES ASSUME NEW v \in (Ours \cap landed') \ landed, NEW x \in updates,
                        ownerOf[x.writer] = ownerOf[history[v].writer], ~Reflected(x)'
                 PROVE  v < x.pos
      BY DEF LandsInOrder
    <2>1. v \in Leaves(u.updated)
      BY <1>1, <1>6 DEF ServerInv
    <2>2. PICK k \in Keys : v = u.updated[k] /\ v # 0
      BY <2>1 DEF Leaves
    <2>3. u \in updates /\ u \in Update /\ ownerOf[u.writer] = cur /\ UpdateInv(u)
      BY <1>1 DEF OwnedBy, Chain
    <2>4. history[v].writer = u.writer
      BY <2>2, <2>3 DEF UpdateInv, Placed
    <2>5. x \in OwnedBy(cur)
      BY <2>3, <2>4 DEF OwnedBy
    <2>6. x \in writes /\ x # u
      BY <1>7, <1>8, <2>5
    <2>7. u.pos < x.pos
      <3>1. u.pos \in Nat /\ x.pos \in Nat
        BY <1>1, <2>3 DEF Update
      <3>2. u.pos <= x.pos
        BY <2>6 DEF IsFirst
      <3>3. u.pos # x.pos
        BY <1>1, <2>3, <2>6 DEF ListInv
      <3> QED
        BY <3>1, <3>2, <3>3, SMT
    <2>8. PairInv(u, x)
      BY <1>1, <2>3, <2>7 DEF Chain
    <2> QED
      BY <2>2, <2>8 DEF PairInv
  <1> QED
    BY <1>6, <1>7, <1>8, <1>9

(* The tree commit_one_with_merge sets first. *)
LEMMA FirstCas ==
    ASSUME StorageInv, LineageInv, Committing, NEW u \in writes, CasOk(u.writer, u.original)
    PROVE  /\ u.updated \in Tree /\ u.seq \in Nat
           /\ Placed(u.writer, u.updated) /\ Extends(TreeOf(ptr[u.writer].target), u.updated)
  <1>1. u \in updates /\ u \in Update
    BY DEF StorageInv, CommitInv, TypeOK
  <1>2. UpdateInv(u) /\ Extends(From(u), u.updated)
    <2>1. u.pos <= u.pos
      BY <1>1, SMT DEF Update
    <2> QED
      BY <1>1, <2>1 DEF LineageInv, Chain
  <1>3. From(u) = TreeOf(ptr[u.writer].target)
    BY DEF CasOk, From
  <1> QED
    BY <1>1, <1>2, <1>3 DEF Update, UpdateInv

(* The merge it sets then. *)
LEMMA SecondCas ==
    ASSUME StorageInv, LineageInv, pc = "recas", NEW u \in writes, IsFirst(u, writes),
           CasOk(u.writer, remote.target), NEW r, r = Merge(u.original, u.updated, remote.target)
    PROVE  /\ r \in Tree /\ remote.seq + 1 \in Nat
           /\ Placed(u.writer, r) /\ Extends(TreeOf(ptr[u.writer].target), r)
           /\ \A k \in Keys : u.updated[k] # From(u)[k] => r[k] = u.updated[k]
           /\ Leaves(r) \subseteq Leaves(u.updated) \cup OnServer(ptr)
  <1>1. u \in updates /\ u \in Update /\ u.writer \in Writers /\ remote \in Pointer
    BY DEF StorageInv, CommitInv, Committing, TypeOK, Update
  <1>2. UpdateInv(u) /\ Extends(From(u), u.updated)
    <2>1. u.pos <= u.pos
      BY <1>1, SMT DEF Update
    <2> QED
      BY <1>1, <2>1 DEF LineageInv, Chain
  <1>3. /\ u.original \in Tree /\ From(u) = u.original /\ u.updated \in Tree
        /\ remote.target \in Tree /\ TreeOf(ptr[u.writer].target) = remote.target
    <2>1. u.original # NoRoot /\ remote.target # NoRoot
      BY DEF StorageInv, MergeInv
    <2>2. u.original \in Target /\ u.updated \in Tree /\ remote.target \in Target
      BY <1>1 DEF Update, Pointer
    <2> QED
      BY <2>1, <2>2, TargetTree DEF From, CasOk
  <1>4. PICK b, o, t \in Tree : b = u.original /\ o = u.updated /\ t = remote.target
    BY <1>3
  <1>5. Mergeable(b, o, t) /\ Placed(u.writer, t) /\ Placed(u.writer, o) /\ Extends(b, o)
    BY <1>2, <1>3, <1>4 DEF LineageInv, FlushInv, UpdateInv
  <1>6. r \in Tree /\ \A k \in Keys : r[k] = IF b[k] # t[k] THEN t[k] ELSE o[k]
    BY <1>4 DEF Merge, Changed, Tree
  <1>7. \A k \in Keys : b[k] = o[k] \/ b[k] = t[k]
    BY <1>5 DEF Mergeable, Changed
  <1>8. Placed(u.writer, r)
    <2>1. \A k \in Keys : r[k] = t[k] \/ r[k] = o[k]
      BY <1>6
    <2> QED
      BY <1>5, <2>1 DEF Placed
  <1>9. Extends(t, r)
    <2>1. Extends(t, t)
      BY <1>5, ExtendsOrder DEF StorageInv, LineageInv
    <2>2. ASSUME NEW k \in Keys PROVE t[k] \in Anc(r[k])
      <3>1. t[k] \in Anc(t[k]) /\ b[k] \in Anc(o[k])
        BY <1>5, <2>1 DEF Extends
      <3>2. r[k] = t[k] \/ (b[k] = t[k] /\ r[k] = o[k])
        BY <1>6
      <3> QED
        BY <3>1, <3>2
    <2> QED
      BY <2>2 DEF Extends
  <1>10. \A k \in Keys : o[k] # b[k] => r[k] = o[k]
    BY <1>6, <1>7
  <1>11. Leaves(r) \subseteq Leaves(u.updated) \cup OnServer(ptr)
    <2>1. Leaves(r) \subseteq Leaves(o) \cup Leaves(t)
      BY <1>6 DEF Leaves
    <2>2. Leaves(t) \subseteq OnServer(ptr)
      BY <1>1, <1>3, <1>4 DEF OnServer
    <2> QED
      BY <1>4, <2>1, <2>2
  <1>12. remote.seq + 1 \in Nat
    BY <1>1, SMT DEF Pointer
  <1> QED
    BY <1>3, <1>4, <1>6, <1>8, <1>9, <1>10, <1>11, <1>12

(* The bulk call sets all pointers of the owner. *)
LEMMA BulkMoves ==
    ASSUME CountingFacts, StorageInv, StorageInv', LineageInv, BulkApplied,
           UNCHANGED <<history, discarded, ownerOf>>
    PROVE  /\ \A w \in Writers : Moves(w)
           /\ landed' = landed \cup OnServer(ptr')
           /\ LandsInOrder
           /\ \A x \in OwnedBy(cur) : Reflected(x)'
  <1>1. /\ TypeOK /\ TypeOK' /\ HistoryInv /\ ServerInv /\ history' = history /\ Len(history) \in Nat
        /\ updates \subseteq Update /\ Chain(updates, Len(history)) /\ ListInv
    <2>1. TypeOK /\ TypeOK' /\ HistoryInv /\ ServerInv /\ Chain(updates, Len(history)) /\ ListInv
      BY DEF StorageInv, LineageInv
    <2> QED
      BY <2>1, ListType
  <1>2. HistoryInv' /\ LogGrows
    BY <1>1, SameLog
  <1>3. PICK list \in SUBSET Update : list = OwnedBy(cur)
    <2>1. OwnedBy(cur) \in SUBSET Update
      BY <1>1 DEF OwnedBy
    <2> QED
      BY <2>1
  <1>4. /\ Chain(list, Len(history)) /\ Ordered(list) /\ list \subseteq updates
        /\ \A x \in list : x.pos \in Nat /\ x.pos <= Len(history) /\ ownerOf[x.writer] = cur
    <2>1. list \subseteq updates /\ \A x \in list : ownerOf[x.writer] = cur
      BY <1>3 DEF OwnedBy
    <2> QED
      BY <1>1, <2>1, ChainSub DEF ListInv, Ordered, Update
  <1>5. ptr' = AfterBulk(list) /\ landed' = landed \cup OnServer(ptr') /\ BulkCasOk(list)
    BY <1>3 DEF BulkApplied, SetPointers
  <1>6. ASSUME NEW w \in Writers, NEW u \in Latest(list, w)
        PROVE  TreeOf(ptr'[w].target) = u.updated
    <2>1. (CHOOSE x \in Latest(list, w) : TRUE) \in Latest(list, w)
      BY <1>6
    <2>2. (CHOOSE x \in Latest(list, w) : TRUE) = u
      BY <1>4, <1>6, <2>1, LatestUnique
    <2>3. ptr'[w].target = u.updated
      BY <1>5, <1>6, <2>2 DEF AfterBulk
    <2>4. u.updated \in Tree
      BY <1>6 DEF Latest, Update
    <2> QED
      BY <2>3, <2>4, TargetTree DEF Target
  <1>7. ASSUME NEW w \in Writers, NEW u \in Latest(list, w) PROVE Moves(w)
    <2>1. u \in list /\ u.writer = w /\ \A x \in list : x.writer = w => x.pos <= u.pos
      BY <1>7 DEF Latest
    <2>2. PICK mine \in SUBSET Update : mine = {x \in list : x.writer = w}
      OBVIOUS
    <2>3. PICK f \in mine : IsFirst(f, mine)
      BY <2>1, <2>2 DEF CountingFacts
    <2>4. f \in list /\ f.writer = w /\ f.pos \in Nat /\ f.pos <= u.pos
      BY <1>4, <2>1, <2>2
    <2>5. Latest({x \in list : x.pos < f.pos}, w) = {}
      <3> SUFFICES ASSUME NEW x \in list, x.pos < f.pos, x.writer = w PROVE FALSE
        BY DEF Latest
      <3>1. f.pos <= x.pos /\ x.pos \in Nat
        BY <1>4, <2>2, <2>3 DEF IsFirst
      <3> QED
        BY <2>4, <3>1, SMT
    <2>6. ptr[w].target = f.original
      BY <1>5, <2>4, <2>5 DEF BulkCasOk, CasOk
    <2>7. Extends(From(f), u.updated) /\ Placed(w, u.updated)
      BY <1>4, <2>1, <2>4 DEF Chain, UpdateInv
    <2>8. PICK s, t \in Tree : s = TreeOf(ptr[w].target) /\ t = u.updated
      BY <1>1, <2>1, ServerTree DEF Update
    <2>9. Extends(s, t)' /\ Placed(w, t)'
      BY <1>1, <1>2, <2>6, <2>7, <2>8, LineGrows DEF From
    <2> QED
      BY <1>6, <2>8, <2>9 DEF Moves
  <1>8. ASSUME NEW w \in Writers, Latest(list, w) = {} PROVE ptr'[w] = ptr[w]
    BY <1>5, <1>8 DEF AfterBulk
  <1>9. \A w \in Writers : Moves(w)
    BY <1>1, <1>2, <1>7, <1>8, NoMove
  <1>10. ASSUME NEW x \in list PROVE Reflected(x)'
    <2>1. PICK w \in Writers : w = x.writer
      BY DEF Update
    <2>2. PICK u : u \in Latest(list, w)
      BY <1>1, <1>4, <2>1, LatestExists
    <2>3. u \in list /\ u.writer = w /\ x.pos <= u.pos
      BY <2>1, <2>2 DEF Latest
    <2>4. Extends(x.updated, u.updated)
      <3>1. CASE x = u
        BY <1>1, <1>4, <3>1, ExtendsOrder DEF Chain, UpdateInv
      <3>2. CASE x # u
        <4>1. x.pos < u.pos /\ u.pos <= u.pos
          BY <1>4, <2>3, <3>2, SMT DEF Ordered
        <4>2. Extends(x.updated, From(u)) /\ Extends(From(u), u.updated)
          BY <1>4, <2>1, <2>3, <4>1 DEF Chain, PairInv
        <4> QED
          BY <1>1, <4>2, ExtendsOrder
      <3> QED
        BY <3>1, <3>2
    <2>5. Extends(x.updated, u.updated)'
      <3>1. Placed(w, u.updated)
        BY <1>4, <2>3 DEF Chain, UpdateInv
      <3> QED
        BY <1>1, <1>2, <2>4, <3>1, LineGrows
    <2>6. TreeOf(ptr'[w].target) = u.updated
      BY <1>6, <2>2
    <2> QED
      BY <2>1, <2>5, <2>6 DEF Reflected, Extends
  <1>11. LandsInOrder
    <2> SUFFICES ASSUME NEW v \in (Ours \cap landed') \ landed, NEW x \in updates,
                        ownerOf[x.writer] = ownerOf[history[v].writer]
                 PROVE  Reflected(x)'
      BY DEF LandsInOrder
    <2>1. PICK w \in Writers : v \in Leaves(TreeOf(ptr'[w].target))
      BY <1>5 DEF OnServer
    <2>2. PICK u : u \in Latest(list, w)
      <3>1. CASE Latest(list, w) = {}
        <4>1. v \in OnServer(ptr)
          BY <1>8, <2>1, <3>1 DEF OnServer
        <4> QED
          BY <1>1, <4>1 DEF ServerInv
      <3> QED
        BY <3>1
    <2>3. u \in list /\ u.writer = w /\ TreeOf(ptr'[w].target) = u.updated
      BY <1>6, <2>2 DEF Latest
    <2>4. PICK k \in Keys : v = u.updated[k] /\ v # 0
      BY <2>1, <2>3 DEF Leaves
    <2>5. history[v].writer = w
      BY <1>4, <2>3, <2>4 DEF Chain, UpdateInv, Placed
    <2>6. x \in list
      BY <1>3, <1>4, <2>3, <2>5 DEF OwnedBy
    <2> QED
      BY <1>10, <2>6
  <1> QED
    BY <1>3, <1>5, <1>9, <1>10, <1>11

-----------------------------------------------------------------------------
(* The steps of a flush. *)

LEMMA InFlush ==
    ASSUME LineageInv, ~Idle
    PROVE  /\ ~opErr /\ FlushInv /\ NestingInv
           /\ pc # "owner" => cur \in todo
  BY DEF LineageInv, NestingInv, FlushInv

LEMMA LastOwner ==
    ASSUME TypeOK, LineageInv, ~Idle, pc # "owner", cps # <<>>
    PROVE  updates \ OwnedBy(cur) = {} /\ todo \ {cur} = {}
  <1>1. updates \ OwnedBy(cur) = {}
    BY OneOwner
  <1>2. cur \in todo /\ todo \subseteq {ownerOf[w] : w \in Writers}
    BY InFlush DEF FlushInv
  <1>3. \A w, x \in Writers : ownerOf[w] = ownerOf[x]
    BY InFlush DEF NestingInv
  <1>4. \A o \in todo : o = cur
    BY <1>2, <1>3, SMT
  <1> QED
    BY <1>1, <1>4

LEMMA NextOwnerLineage ==
    ASSUME StorageInv, StorageInv', LineageInv, NEW o \in Owners, NextOwner(o)
    PROVE  LineageInv'
  <1>1. ~Idle /\ todo # {}
    BY DEF NextOwner, Idle
  <1>2. UNCHANGED <<history, discarded, ownerOf, cps, ptr, landed, updates, generation, opErr, todo>>
    BY DEF NextOwner, notFlushVars, envVars, ghostVars, callerVars, serverVars, ptrVars
  <1>3. FlushInv'
    <2>1. pc' \in {"bulk", "last", "old"} /\ cur' \in todo
      BY DEF NextOwner
    <2> QED
      BY <1>1, <1>2, <2>1, InFlush, FlushGoesOn
  <1> QED
    BY <1>1, <1>2, <1>3, InFlush, QuietFlushStep

LEMMA FlushDoneLineage ==
    ASSUME StorageInv, StorageInv', LineageInv, FlushDone
    PROVE  LineageInv'
  <1>1. ~Idle /\ ~opErr
    BY InFlush DEF FlushDone, Idle
  <1>2. /\ UNCHANGED <<history, discarded, ownerOf, cps, ptr, landed, opErr>>
        /\ pc' = "idle" /\ updates' = {} /\ generation' = generation + 1
    BY DEF FlushDone, GoTo, notFlushVars, envVars, ghostVars, callerVars, serverVars, ptrVars
  <1>3. updates = {} /\ OwnedBy(cur) = {}
    <2>1. updates = {}
      BY <1>1, InFlush DEF FlushInv, FlushDone
    <2> QED
      BY <2>1 DEF OwnedBy
  <1>4. FlushMoves /\ LandsInOrder
    BY <1>1, <1>2, QuietMoves, FlushEnds DEF FlushMoves
  <1> QED
    BY <1>2, <1>3, <1>4, DropStep

LEMMA BulkNothingLineage ==
    ASSUME StorageInv, StorageInv', LineageInv, BulkNothing
    PROVE  LineageInv'
  <1>1. ~Idle /\ ~opErr /\ pc # "owner" /\ TypeOK
    BY InFlush DEF BulkNothing, Idle, StorageInv
  <1>2. /\ UNCHANGED <<history, discarded, ownerOf, cps, ptr, landed, opErr>>
        /\ updates' = updates \ OwnedBy(cur) /\ generation' = generation + 1 /\ OwnerDone
        /\ OwnedBy(cur) = {}
    BY DEF BulkNothing, BulkDone, OwnerDone, notFlushVars, envVars, ghostVars, callerVars,
           serverVars, ptrVars
  <1>3. FlushMoves /\ LandsInOrder
    BY <1>1, <1>2, QuietMoves, InFlush, FlushNext DEF FlushMoves
  <1>4. cps # <<>> => updates' = {}
    BY <1>1, <1>2, LastOwner
  <1> QED
    BY <1>2, <1>3, <1>4, DropStep

LEMMA BulkBlocksLineage ==
    ASSUME StorageInv, StorageInv', LineageInv, BulkUnimplemented \/ BulkDeferred
    PROVE  LineageInv'
  <1>1. ~Idle /\ ~opErr /\ pc # "owner" /\ cur \in todo
    BY InFlush DEF BulkUnimplemented, BulkDeferred, Idle
  <1>2. UNCHANGED <<history, discarded, ownerOf, ptr, landed, updates, generation>>
    BY DEF BulkUnimplemented, BulkDeferred, notFlushVars, envVars, ghostVars, ptrVars
  <1>3. FlushFails \/ GoTo("old") \/ GoTo("last")
    BY DEF BulkUnimplemented, BulkDeferred
  <1>4. CASE FlushFails
    BY <1>1, <1>2, <1>4, FailedFlushStep
  <1>5. CASE GoTo("old") \/ GoTo("last")
    <2>1. UNCHANGED <<todo, cur, cps, opErr>> /\ pc' \in {"bulk", "last", "old"}
      BY <1>5 DEF GoTo, callerVars
    <2>2. FlushInv'
      BY <1>1, <1>2, <2>1, InFlush, FlushGoesOn
    <2> QED
      BY <1>1, <1>2, <2>1, <2>2, QuietFlushStep
  <1> QED
    BY <1>3, <1>4, <1>5

LEMMA BulkCallLineage ==
    ASSUME CountingFacts, StorageInv, StorageInv', LineageInv, BulkCall
    PROVE  LineageInv'
  <1>1. ~Idle /\ ~opErr /\ pc # "owner" /\ cur \in todo /\ TypeOK
    BY InFlush DEF BulkCall, BulkCalling, Idle, StorageInv
  <1>2. UNCHANGED <<history, discarded, ownerOf>>
    BY DEF BulkCall, notFlushVars, envVars, ghostVars
  <1>3. CASE BulkApplied /\ BulkDone
    <2>1. /\ UNCHANGED <<cps, opErr>> /\ OwnerDone
          /\ updates' = updates \ OwnedBy(cur) /\ generation' = generation + 1
      BY <1>3 DEF BulkDone, OwnerDone, callerVars
    <2>2. FlushMoves /\ LandsInOrder /\ \A x \in OwnedBy(cur) : Reflected(x)'
      BY <1>1, <1>2, <1>3, <2>1, BulkMoves, InFlush, FlushNext DEF FlushMoves
    <2>3. cps # <<>> => updates' = {}
      BY <1>1, <2>1, LastOwner
    <2> QED
      BY <2>1, <2>2, <2>3, DropStep
  <1>4. CASE BulkRefused /\ GoTo("old") /\ UNCHANGED <<updates, generation>>
    <2>1. UNCHANGED <<todo, cur, cps, opErr, ptr, landed>> /\ pc' \in {"bulk", "last", "old"}
      BY <1>4 DEF GoTo, callerVars, BulkRefused, ptrVars
    <2>2. FlushInv'
      BY <1>1, <1>2, <1>4, <2>1, InFlush, FlushGoesOn
    <2> QED
      BY <1>1, <1>2, <1>4, <2>1, <2>2, QuietFlushStep
  <1>5. CASE FlushFails /\ UNCHANGED <<serverVars, updates, generation>>
    BY <1>1, <1>2, <1>5, FailedFlushStep DEF serverVars, ptrVars
  <1> QED
    BY <1>3, <1>4, <1>5 DEF BulkCall

LEMMA BulkLostLineage ==
    ASSUME CountingFacts, StorageInv, StorageInv', LineageInv, BulkLost
    PROVE  LineageInv'
  <1>1. ~Idle /\ pc # "owner"
    BY DEF BulkLost, Idle
  <1>2. /\ UNCHANGED <<history, discarded, ownerOf, cps, updates, generation>> /\ FlushFails
        /\ pc' = "idle" /\ opErr' = (cps # <<>>)
    BY DEF BulkLost, FlushFails, notFlushVars, envVars, ghostVars
  <1>3. CASE BulkApplied
    <2>1. FlushMoves /\ LandsInOrder
      BY <1>2, <1>3, BulkMoves, FlushEnds DEF FlushMoves
    <2> QED
      BY <1>1, <1>2, <2>1, NotDropped, MoveStep
  <1>4. CASE UNCHANGED ptrVars
    BY <1>1, <1>2, <1>4, FailedFlushStep DEF ptrVars
  <1> QED
    BY <1>3, <1>4 DEF BulkLost

LEMMA CommitBlocksLineage ==
    ASSUME StorageInv, StorageInv', LineageInv, CommitBlocks
    PROVE  LineageInv'
  <1>1. ~Idle /\ ~opErr /\ pc # "owner"
    BY InFlush DEF CommitBlocks, Idle
  <1>2. /\ UNCHANGED <<history, discarded, ownerOf, cps, ptr, landed, updates, generation, opErr,
                       todo, cur>>
        /\ pc' = "ptrs" /\ writes' = OwnedBy(cur)
    BY DEF CommitBlocks, notFlushVars, envVars, ghostVars, callerVars, ptrVars
  <1>3. FlushInv'
    BY <1>1, <1>2, InFlush, FlushCommits
  <1> QED
    BY <1>1, <1>2, <1>3, QuietFlushStep

LEMMA LostCallLineage ==
    ASSUME StorageInv, StorageInv', LineageInv, CommitBlocksLost \/ ResolveLost
    PROVE  LineageInv'
  <1>1. ~Idle /\ pc # "owner"
    BY DEF CommitBlocksLost, ResolveLost, Idle
  <1>2. UNCHANGED <<history, discarded, ownerOf, ptr, landed, updates, generation>> /\ FlushFails
    BY DEF CommitBlocksLost, ResolveLost, notFlushVars, envVars, ghostVars, serverVars, ptrVars
  <1> QED
    BY <1>1, <1>2, FailedFlushStep

LEMMA CommittingFacts ==
    ASSUME LineageInv, Committing
    PROVE  /\ ~Idle /\ pc # "owner" /\ ~opErr /\ ~Dropped
           /\ writes \subseteq OwnedBy(cur)
           /\ \A u \in OwnedBy(cur) \ writes : Reflected(u)
  <1>1. ~Idle /\ pc # "owner"
    BY DEF Committing, Idle
  <1>2. ~opErr /\ FlushInv
    BY <1>1, InFlush
  <1> QED
    BY <1>1, <1>2, NotDropped DEF FlushInv

(* A step that leaves the pointers, for the next update or another call. *)
LEMMA CommitGoesOn ==
    ASSUME StorageInv, StorageInv', LineageInv, Committing,
           UNCHANGED <<history, discarded, ownerOf, cps, ptr, landed, updates, generation, opErr,
                       todo, cur>>,
           pc' \in {"ptrs", "resolve"}, writes' \subseteq writes,
           \A u \in writes \ writes' : Reflected(u)
    PROVE  LineageInv'
  <1>1. /\ ~Idle /\ pc # "owner" /\ ~opErr /\ writes \subseteq OwnedBy(cur)
        /\ \A u \in OwnedBy(cur) \ writes : Reflected(u)
    BY CommittingFacts
  <1>2. \A u \in Update : Reflected(u) => Reflected(u)'
    BY QuietMoves
  <1>3. \A u \in OwnedBy(cur) \ writes' : Reflected(u)'
    <2>1. OwnedBy(cur) \subseteq Update
      BY DEF OwnedBy, StorageInv, TypeOK
    <2> QED
      BY <1>1, <1>2, <2>1
  <1>4. FlushInv'
    BY <1>1, <1>3, InFlush, FlushCommits
  <1> QED
    BY <1>1, <1>4, QuietFlushStep

(* A step that sets the pointer of the first update. *)
SetsFirst(u) ==
    /\ StorageInv /\ StorageInv' /\ LineageInv /\ Committing /\ u \in writes
    /\ UNCHANGED <<history, discarded, ownerOf, cps, updates, generation>>
    /\ \A w \in Writers : Moves(w)
    /\ landed' = landed \cup OnServer(ptr')
    /\ LandsInOrder
    /\ \A x \in OwnedBy(cur) \ writes : Reflected(x)'
    /\ Reflected(u)'

LEMMA FirstSets ==
    ASSUME StorageInv, StorageInv', LineageInv, Committing, NEW u \in writes, IsFirst(u, writes),
           UNCHANGED <<history, discarded, ownerOf, cps, updates, generation>>,
           CasOk(u.writer, u.original), SetPointer(u.writer, u.updated, u.seq)
    PROVE  SetsFirst(u)
  <1>1. PICK r \in Tree, seq \in Nat : r = u.updated /\ seq = u.seq
    BY FirstCas
  <1>2. /\ SetPointer(u.writer, r, seq) /\ Placed(u.writer, r)
        /\ Extends(TreeOf(ptr[u.writer].target), r)
        /\ \A k \in Keys : u.updated[k] # From(u)[k] => r[k] = u.updated[k]
        /\ Leaves(r) \subseteq Leaves(u.updated) \cup OnServer(ptr)
    BY <1>1, FirstCas
  <1> QED
    BY <1>2, CommitMoves DEF SetsFirst

LEMMA MergeSets ==
    ASSUME StorageInv, StorageInv', LineageInv, pc = "recas", NEW u \in writes, IsFirst(u, writes),
           UNCHANGED <<history, discarded, ownerOf, cps, updates, generation>>,
           CasOk(u.writer, remote.target),
           SetPointer(u.writer, Merge(u.original, u.updated, remote.target), remote.seq + 1)
    PROVE  SetsFirst(u)
  <1>1. PICK r \in Tree, seq \in Nat :
            r = Merge(u.original, u.updated, remote.target) /\ seq = remote.seq + 1
    BY SecondCas
  <1>2. /\ SetPointer(u.writer, r, seq) /\ Placed(u.writer, r)
        /\ Extends(TreeOf(ptr[u.writer].target), r)
        /\ \A k \in Keys : u.updated[k] # From(u)[k] => r[k] = u.updated[k]
        /\ Leaves(r) \subseteq Leaves(u.updated) \cup OnServer(ptr)
    BY <1>1, SecondCas
  <1> QED
    BY <1>2, CommitMoves DEF SetsFirst, Committing

LEMMA SetsGoesOn ==
    ASSUME NEW u, SetsFirst(u), UNCHANGED <<todo, cur, opErr>>,
           pc' \in {"ptrs", "resolve"}, writes' \in {writes, writes \ {u}}
    PROVE  LineageInv'
  <1>1. /\ ~Idle /\ pc # "owner" /\ ~opErr /\ ~Dropped /\ writes \subseteq OwnedBy(cur)
    BY CommittingFacts DEF SetsFirst
  <1>2. \A x \in OwnedBy(cur) \ writes' : Reflected(x)'
    BY DEF SetsFirst
  <1>3. FlushInv'
    BY <1>1, <1>2, InFlush, FlushCommits DEF SetsFirst
  <1>4. FlushMoves
    BY <1>1, <1>3 DEF SetsFirst, FlushMoves
  <1> QED
    BY <1>1, <1>4, MoveStep DEF SetsFirst

LEMMA SetsFails ==
    ASSUME NEW u, SetsFirst(u), FlushFails
    PROVE  LineageInv'
  <1>1. ~Dropped
    BY CommittingFacts DEF SetsFirst
  <1>2. FlushMoves
    BY FlushEnds DEF SetsFirst, FlushMoves, FlushFails
  <1> QED
    BY <1>1, <1>2, MoveStep DEF SetsFirst

LEMMA CommitPointerLineage ==
    ASSUME StorageInv, StorageInv', LineageInv, NEW u \in writes,
           CommitPointer(u) \/ CommitPointerLost(u)
    PROVE  LineageInv'
  <1>1. /\ Committing /\ IsFirst(u, writes) /\ pc' \in {"ptrs", "resolve"}
        /\ UNCHANGED <<history, discarded, ownerOf, updates, generation, cps, opErr, todo, cur>>
        /\ writes' \in {writes, writes \ {u}}
    BY DEF CommitPointer, CommitPointerLost, Committing, PointerCommitted, GoTo, callerVars,
           notFlushVars, envVars, ghostVars
  <1>2. CASE CasOk(u.writer, u.original) /\ SetPointer(u.writer, u.updated, u.seq)
    BY <1>1, <1>2, FirstSets, SetsGoesOn
  <1>3. CASE UNCHANGED ptrVars /\ GoTo("resolve")
    BY <1>1, <1>3, CommitGoesOn DEF ptrVars, GoTo
  <1> QED
    BY <1>2, <1>3 DEF CommitPointer, CommitPointerLost

LEMMA CommitMergeLineage ==
    ASSUME StorageInv, StorageInv', LineageInv, NEW u \in writes,
           CommitMerge(u) \/ CommitMergeLost(u)
    PROVE  LineageInv'
  <1>1. /\ Committing /\ pc = "recas" /\ IsFirst(u, writes)
        /\ UNCHANGED <<history, discarded, ownerOf, updates, generation, cps>>
    BY DEF CommitMerge, CommitMergeLost, Committing, PointerCommitted, FlushFails, callerVars,
           notFlushVars, envVars, ghostVars
  <1>2. CASE /\ CasOk(u.writer, remote.target)
             /\ SetPointer(u.writer, Merge(u.original, u.updated, remote.target), remote.seq + 1)
    <2>1. SetsFirst(u)
      BY <1>1, <1>2, MergeSets
    <2>2. CASE PointerCommitted(u)
      BY <2>1, <2>2, SetsGoesOn DEF PointerCommitted, callerVars
    <2>3. CASE FlushFails
      BY <2>1, <2>3, SetsFails
    <2> QED
      BY <1>2, <2>2, <2>3 DEF CommitMerge, CommitMergeLost
  <1>3. CASE UNCHANGED ptrVars /\ FlushFails
    BY <1>1, <1>3, CommittingFacts, FailedFlushStep DEF ptrVars
  <1> QED
    BY <1>2, <1>3 DEF CommitMerge, CommitMergeLost

LEMMA ResolveLineage ==
    ASSUME StorageInv, StorageInv', LineageInv, NEW u \in writes, Resolve(u)
    PROVE  LineageInv'
  <1>1. /\ Committing /\ pc = "resolve" /\ IsFirst(u, writes)
        /\ UNCHANGED <<history, discarded, ownerOf, ptr, landed, updates, generation>>
    BY DEF Resolve, Committing, notFlushVars, envVars, ghostVars, ptrVars
  <1>2. u \in updates /\ u \in Update /\ u.writer \in Writers /\ u.updated \in Tree
    BY <1>1 DEF StorageInv, CommitInv, TypeOK, Update
  <1>3. CASE ptr[u.writer].target = u.updated /\ PointerCommitted(u)
    <2>1. Placed(u.writer, u.updated)
      BY <1>2 DEF LineageInv, Chain, UpdateInv
    <2>2. Extends(u.updated, u.updated)
      BY <1>2, <2>1, ExtendsOrder DEF StorageInv, LineageInv
    <2>3. TreeOf(ptr[u.writer].target) = u.updated
      BY <1>2, <1>3, TargetTree DEF Target
    <2>4. Reflected(u)
      BY <2>2, <2>3 DEF Reflected, Extends
    <2> QED
      BY <1>1, <1>3, <2>4, CommitGoesOn DEF PointerCommitted, callerVars
  <1>4. CASE FlushFails
    BY <1>1, <1>4, CommittingFacts, FailedFlushStep
  <1>5. CASE /\ CanMerge(u.original, u.updated, ptr[u.writer].target)
             /\ remote' = ptr[u.writer] /\ pc' = "recas"
             /\ UNCHANGED <<todo, cur, writes, callerVars>>
    <2>1. /\ ~Idle /\ pc # "owner" /\ ~opErr /\ writes \subseteq OwnedBy(cur)
          /\ \A x \in OwnedBy(cur) \ writes : Reflected(x)
      BY <1>1, CommittingFacts
    <2>2. \A x \in Update : Reflected(x) => Reflected(x)'
      BY <1>1, <1>5, QuietMoves DEF callerVars
    <2>3. UNCHANGED <<todo, cur, writes, cps, opErr>> /\ OwnedBy(cur)' = OwnedBy(cur)
      BY <1>1, <1>5 DEF callerVars, OwnedBy
    <2>4. \A x \in OwnedBy(cur) \ writes : Reflected(x)'
      <3>1. OwnedBy(cur) \subseteq Update
        BY DEF OwnedBy, StorageInv, TypeOK
      <3> QED
        BY <2>1, <2>2, <3>1
    <2>5. \A x \in writes : IsFirst(x, writes) => x = u
      <3> SUFFICES ASSUME NEW x \in writes, IsFirst(x, writes) PROVE x = u
        OBVIOUS
      <3>1. x \in updates /\ x.pos \in Nat /\ u.pos \in Nat
        BY <1>1, <1>2 DEF StorageInv, CommitInv, TypeOK, Update
      <3>2. x.pos = u.pos
        BY <1>1, <3>1, SMT DEF IsFirst
      <3> QED
        BY <1>2, <3>1, <3>2 DEF StorageInv, ListInv
    <2>6. PICK t \in Tree : t = ptr[u.writer].target /\ t = TreeOf(ptr[u.writer].target)
      <3>1. ptr[u.writer].target # NoRoot
        BY <1>5 DEF CanMerge
      <3>2. ptr[u.writer].target \in Target
        BY <1>2, ServerTree DEF StorageInv
      <3> QED
        BY <3>1, <3>2, TargetTree
    <2>7. Mergeable(u.original, u.updated, t) /\ Placed(u.writer, t)
      BY <1>2, <1>5, <2>6 DEF CanMerge, LineageInv, ServerInv
    <2>8. Placed(u.writer, t)'
      BY <1>1, <2>7 DEF Placed
    <2>9. remote'.target = t
      BY <1>5, <2>6
    <2>10. FlushInv'
      <3>1. \A x \in updates' : ownerOf'[x.writer] \in todo'
        BY <1>1, <2>1, <2>3, InFlush DEF FlushInv
      <3>2. cur' \in todo'
        BY <2>1, <2>3, InFlush DEF FlushInv
      <3>3. cps' # <<>> => todo' \subseteq {ownerOf'[w] : w \in Writers}
        BY <1>1, <2>1, <2>3, InFlush DEF FlushInv
      <3>4. writes' \subseteq OwnedBy(cur)' /\ \A x \in OwnedBy(cur)' \ writes' : Reflected(x)'
        BY <2>1, <2>3, <2>4
      <3>5. \A x \in writes' : IsFirst(x, writes)' =>
                Mergeable(x.original, x.updated, remote'.target) /\ Placed(x.writer, remote.target)'
        <4> SUFFICES ASSUME NEW x \in writes', IsFirst(x, writes)'
                     PROVE Mergeable(x.original, x.updated, remote'.target)
                           /\ Placed(x.writer, remote.target)'
          OBVIOUS
        <4>1. IsFirst(x, writes) /\ x \in writes
          BY <2>3 DEF IsFirst
        <4>2. x = u
          BY <2>5, <4>1
        <4>3. Placed(u.writer, remote.target)'
          BY <2>8, <2>9 DEF Placed
        <4> QED
          BY <2>7, <2>9, <4>2, <4>3
      <3> QED
        BY <3>1, <3>2, <3>3, <3>4, <3>5 DEF FlushInv
    <2> QED
      BY <1>1, <2>1, <2>3, <2>10, QuietFlushStep
  <1> QED
    BY <1>3, <1>4, <1>5 DEF Resolve

LEMMA PointersDoneLineage ==
    ASSUME StorageInv, StorageInv', LineageInv, PointersDone
    PROVE  LineageInv'
  <1>1. /\ UNCHANGED <<history, discarded, ownerOf, ptr, landed, generation, cps>>
        /\ updates' = updates \ OwnedBy(cur) /\ Committing /\ writes = {}
    BY DEF PointersDone, OwnerDone, FlushFails, callerVars, notFlushVars, envVars, ghostVars,
           serverVars, ptrVars, Committing
  <1>2. ~Idle /\ pc # "owner" /\ ~opErr /\ \A u \in OwnedBy(cur) : Reflected(u)
    BY <1>1, CommittingFacts
  <1>3. \A u \in OwnedBy(cur) : Reflected(u)'
    <2>1. OwnedBy(cur) \subseteq Update
      BY DEF OwnedBy, StorageInv, TypeOK
    <2> QED
      BY <1>1, <1>2, <2>1, QuietMoves
  <1>4. cps # <<>> => updates' = {} /\ todo \ {cur} = {}
    BY <1>1, <1>2, LastOwner DEF StorageInv
  <1>5. CASE OwnerDone
    <2>1. FlushMoves /\ LandsInOrder
      BY <1>1, <1>2, <1>5, QuietMoves, InFlush, FlushNext DEF FlushMoves, OwnerDone, callerVars
    <2>2. cps # <<>> => Dropped'
      BY <1>4, <1>5 DEF OwnerDone, Dropped
    <2> QED
      BY <1>1, <1>3, <1>4, <2>1, <2>2, DropStep
  <1>6. CASE FlushFails
    <2>1. FlushMoves /\ LandsInOrder
      BY <1>1, <1>6, QuietMoves, FlushEnds DEF FlushMoves, FlushFails
    <2>2. cps # <<>> => Dropped'
      BY <1>4, <1>6 DEF FlushFails, Dropped
    <2> QED
      BY <1>1, <1>3, <1>4, <2>1, <2>2, DropStep
  <1> QED
    BY <1>5, <1>6 DEF PointersDone

LEMMA FlushLineage ==
    ASSUME CountingFacts, StorageInv, StorageInv', LineageInv, FlushStep
    PROVE  LineageInv'
  BY NextOwnerLineage, FlushDoneLineage, BulkNothingLineage, BulkBlocksLineage, BulkCallLineage,
     BulkLostLineage, CommitBlocksLineage, LostCallLineage, CommitPointerLineage, ResolveLineage,
     CommitMergeLineage, PointersDoneLineage DEF FlushStep

(* The versions a flush puts on the server descend from those it replaces. *)
LEMMA FlushPublishes ==
    ASSUME CountingFacts, StorageInv, StorageInv', LineageInv, FlushStep
    PROVE  history' = history /\ \A w \in Writers : Moves(w)
  <1>1. TypeOK /\ TypeOK' /\ HistoryInv /\ ServerInv
    BY DEF StorageInv, LineageInv
  <1>2. ASSUME history' = history, ptr' = ptr
        PROVE  \A w \in Writers : Moves(w)
    <2>1. HistoryInv' /\ LogGrows
      BY <1>1, <1>2, SameLog
    <2> QED
      BY <1>1, <1>2, <2>1, NoMove
  <1>3. CASE (\E o \in Owners : NextOwner(o)) \/ FlushDone \/ BulkNothing
    <2>1. history' = history /\ ptr' = ptr
      BY <1>3 DEF NextOwner, FlushDone, BulkNothing, notFlushVars, ghostVars, serverVars, ptrVars
    <2> QED
      BY <1>2, <2>1
  <1>4. CASE BulkUnimplemented \/ BulkDeferred
    <2>1. history' = history /\ ptr' = ptr
      BY <1>4 DEF BulkUnimplemented, BulkDeferred, notFlushVars, ghostVars, ptrVars
    <2> QED
      BY <1>2, <2>1
  <1>5. CASE BulkCall \/ BulkLost
    <2>1. UNCHANGED <<history, discarded, ownerOf>>
      BY <1>5 DEF BulkCall, BulkLost, notFlushVars, ghostVars, envVars
    <2>2. BulkApplied \/ ptr' = ptr
      BY <1>5 DEF BulkCall, BulkLost, BulkRefused, serverVars, ptrVars
    <2> QED
      BY <1>2, <2>1, <2>2, BulkMoves
  <1>6. CASE CommitBlocks \/ CommitBlocksLost \/ ResolveLost \/ PointersDone
    <2>1. history' = history /\ ptr' = ptr
      BY <1>6 DEF CommitBlocks, CommitBlocksLost, ResolveLost, PointersDone, notFlushVars,
                  ghostVars, serverVars, ptrVars
    <2> QED
      BY <1>2, <2>1
  <1>7. ASSUME NEW u \in writes, CommitPointer(u) \/ CommitPointerLost(u)
        PROVE  history' = history /\ \A w \in Writers : Moves(w)
    <2>1. /\ Committing /\ IsFirst(u, writes)
          /\ UNCHANGED <<history, discarded, ownerOf, updates, generation, cps>>
      BY <1>7 DEF CommitPointer, CommitPointerLost, Committing, PointerCommitted, GoTo, callerVars,
             notFlushVars, envVars, ghostVars
    <2>2. (CasOk(u.writer, u.original) /\ SetPointer(u.writer, u.updated, u.seq)) \/ ptr' = ptr
      BY <1>7 DEF CommitPointer, CommitPointerLost, ptrVars
    <2> QED
      BY <1>2, <2>1, <2>2, FirstSets DEF SetsFirst
  <1>8. ASSUME NEW u \in writes, CommitMerge(u) \/ CommitMergeLost(u)
        PROVE  history' = history /\ \A w \in Writers : Moves(w)
    <2>1. /\ pc = "recas" /\ IsFirst(u, writes)
          /\ UNCHANGED <<history, discarded, ownerOf, updates, generation, cps>>
      BY <1>8 DEF CommitMerge, CommitMergeLost, PointerCommitted, FlushFails, callerVars,
             notFlushVars, envVars, ghostVars
    <2>2. \/ ptr' = ptr
          \/ /\ CasOk(u.writer, remote.target)
             /\ SetPointer(u.writer, Merge(u.original, u.updated, remote.target), remote.seq + 1)
      BY <1>8 DEF CommitMerge, CommitMergeLost, ptrVars
    <2> QED
      BY <1>2, <2>1, <2>2, MergeSets DEF SetsFirst
  <1>9. ASSUME NEW u \in writes, Resolve(u)
        PROVE  history' = history /\ \A w \in Writers : Moves(w)
    <2>1. history' = history /\ ptr' = ptr
      BY <1>9 DEF Resolve, notFlushVars, ghostVars, ptrVars
    <2> QED
      BY <1>2, <2>1
  <1> QED
    BY <1>3, <1>4, <1>5, <1>6, <1>7, <1>8, <1>9 DEF FlushStep

=============================================================================
