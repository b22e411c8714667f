---------------------- MODULE BufferedSequenceProofs ----------------------
(* Proofs that BufferedNetwork keeps SequenceInv, and that the sequence of a *)
(* pointer only ever grows.                                                  *)
EXTENDS BufferedLineageProofs

USE Zenon

-----------------------------------------------------------------------------
(* Sequences. *)

(* A version and those it replaced, in turn, are of one key of one writer. *)
LEMMA LineOfOneKey ==
    ASSUME TypeOK, HistoryInv, NEW v \in 1..Len(history), NEW a \in Anc(v), a # 0
    PROVE  /\ a \in 1..Len(history)
           /\ history[a].writer = history[v].writer /\ history[a].key = history[v].key
  <1> DEFINE s == {b \in 0..Len(history) :
                     b = 0 \/ (/\ history[b].writer = history[v].writer
                               /\ history[b].key = history[v].key)}
  <1>1. Len(history) \in Nat /\ \A b \in 1..Len(history) : history[b].parent \in Nat
    BY LogFacts DEF Version
  <1>2. v \in s /\ s \in SUBSET (0..Len(history))
    BY <1>1, SMT
  <1>3. ASSUME NEW b \in s \ {0} PROVE history[b].parent \in s
    <2>1. b \in 1..Len(history) /\ history[b].writer = history[v].writer /\ history[b].key = history[v].key
      BY <1>1, <1>3, SMT
    <2>2. PICK p \in Nat : p = history[b].parent
      BY <1>1, <2>1
    <2>3. p < b /\ (p # 0 => history[p].writer = history[b].writer /\ history[p].key = history[b].key)
      BY <2>1, <2>2 DEF HistoryInv
    <2>4. p \in 0..Len(history)
      BY <1>1, <2>1, <2>3, SMT
    <2> QED
      BY <2>1, <2>2, <2>3, <2>4
  <1>4. Shared!Closed(history, s)
    BY <1>3 DEF Shared!Closed
  <1>5. a \in s
    BY <1>2, <1>4 DEF Anc, Shared!Ancestors
  <1> QED
    BY <1>1, <1>5, SMT

LEMMA LandedKept ==
    ASSUME TypeOK, TypeOK', HistoryInv, HistoryInv', ServerInv, LogGrows, LandedInv,
           \A w \in Writers : Moves(w), landed' \subseteq landed \cup OnServer(ptr')
    PROVE  LandedInv'
  <1>1. ASSUME NEW n \in landed
        PROVE  n \in Anc(TreeOf(ptr[history[n].writer].target)[history[n].key])'
    <2>1. n \in 1..Len(history)
      BY DEF ServerInv
    <2>2. PICK w \in Writers, k \in Keys : w = history[n].writer /\ k = history[n].key
      BY <2>1, LogFacts DEF Version
    <2>3. PICK s, t \in Tree : /\ s = TreeOf(ptr[w].target) /\ t = TreeOf(ptr'[w].target)
                               /\ Placed(w, t)' /\ Extends(s, t)'
      BY DEF Moves
    <2>4. n \in Anc(s[k])
      BY <2>2, <2>3 DEF LandedInv
    <2>5. s[k] \in 0..Len(history)
      BY <2>3, PlacedRange DEF ServerInv
    <2>6. n \in Anc(s[k])' /\ s[k] \in Anc(t[k])'
      BY <2>3, <2>4, <2>5, LineGrows DEF Extends
    <2>7. n \in Anc(t[k])'
      BY <2>6, AncFactsNext
    <2>8. history'[n] = history[n]
      BY <2>1 DEF LogGrows
    <2> QED
      BY <2>2, <2>3, <2>7, <2>8
  <1>2. ASSUME NEW n \in OnServer(ptr')
        PROVE  n \in Anc(TreeOf(ptr[history[n].writer].target)[history[n].key])'
    <2>1. PICK w \in Writers : n \in Leaves(TreeOf(ptr'[w].target))
      BY <1>2 DEF OnServer
    <2>2. PICK t \in Tree : t = TreeOf(ptr'[w].target) /\ Placed(w, t)'
      BY DEF Moves
    <2>3. PICK k \in Keys : n = t[k] /\ n # 0
      BY <2>1, <2>2 DEF Leaves
    <2>4. n \in 1..Len(history') /\ history'[n].writer = w /\ history'[n].key = k
      BY <2>2, <2>3 DEF Placed
    <2>5. n \in Anc(n)'
      BY <2>4, LogFactsNext, AncFactsNext, SMT
    <2> QED
      BY <2>2, <2>3, <2>4, <2>5
  <1> QED
    BY <1>1, <1>2 DEF LandedInv

(* What an update brings is not on the server where the key is as it was. *)
LEMMA NotLanded ==
    ASSUME TypeOK, HistoryInv, ServerInv, LandedInv, NEW u \in Update, UpdateInv(u),
           NEW k \in Keys, u.updated[k] # From(u)[k], TreeOf(ptr[u.writer].target)[k] = From(u)[k]
    PROVE  ~Landed(u.updated[k])
  <1> SUFFICES ASSUME Landed(u.updated[k]) PROVE FALSE
    OBVIOUS
  <1>1. PICK v : v = u.updated[k]
    OBVIOUS
  <1>2. PICK f : f = From(u)[k]
    OBVIOUS
  <1>3. PICK n \in landed : v \in Anc(n)
    BY <1>1 DEF Landed
  <1>4. n \in 1..Len(history)
    BY DEF ServerInv
  <1>5. u.pos \in Nat /\ v \in Nat /\ f \in Nat /\ u.writer \in Writers
    BY <1>1, <1>2, TargetTree DEF Update, Tree, From
  <1>6. v >= u.pos /\ f < u.pos /\ v # 0
    BY <1>1, <1>2, <1>5, SMT DEF UpdateInv
  <1>7. history[v].writer = u.writer /\ history[v].key = k
    BY <1>1, <1>6 DEF UpdateInv, Placed
  <1>8. history[n].writer = u.writer /\ history[n].key = k
    BY <1>3, <1>4, <1>6, <1>7, LineOfOneKey
  <1>9. n \in Anc(f)
    BY <1>2, <1>8 DEF LandedInv
  <1>10. v \in Anc(f)
    BY <1>3, <1>9, AncFacts
  <1>11. f \in 0..Len(history)
    BY <1>2, PlacedRange DEF UpdateInv
  <1>12. v <= f
    BY <1>10, <1>11, AncFacts
  <1> QED
    BY <1>5, <1>6, <1>12, SMT

(* An update changes a key. *)
LEMMA SomethingChanged ==
    ASSUME NEW u \in Update, UpdateInv(u)
    PROVE  /\ u.pos \in Nat /\ u.seq \in Nat /\ u.updated \in Tree /\ From(u) \in Tree
           /\ \A k \in Keys : u.updated[k] \in Nat /\ From(u)[k] \in Nat
           /\ \E k \in Keys : u.updated[k] # From(u)[k] /\ From(u)[k] < u.pos /\ u.pos <= u.updated[k]
  <1>1. u.pos \in Nat /\ u.seq \in Nat /\ u.updated \in Tree /\ From(u) \in Tree
    BY TargetTree DEF Update, From
  <1>2. \A k \in Keys : u.updated[k] \in Nat /\ From(u)[k] \in Nat
    BY <1>1 DEF Tree
  <1>3. PICK k \in Keys : u.updated[k] # From(u)[k]
    <2>1. u.updated # From(u)
      BY DEF UpdateInv
    <2> QED
      BY <1>1, <2>1, SMT DEF Tree
  <1>4. From(u)[k] < u.pos /\ u.updated[k] >= u.pos
    BY <1>3 DEF UpdateInv
  <1> QED
    BY <1>1, <1>2, <1>3, <1>4

(* An earlier state of an entry has no later versions than the entry has. *)
LEMMA YoungerFacts ==
    ASSUME TypeOK, HistoryInv, NEW x \in Update, NEW l \in Update, UpdateInv(l), Younger(x, l)
    PROVE  /\ x.pos = l.pos /\ x.writer = l.writer /\ x.original = l.original /\ x.seq = l.seq
           /\ From(x) = From(l) /\ \A k \in Keys : x.updated[k] <= l.updated[k]
  <1>1. \A k \in Keys : x.updated[k] \in Anc(l.updated[k]) /\ l.updated[k] \in 0..Len(history)
    BY PlacedRange DEF Younger, Extends, UpdateInv
  <1> QED
    BY <1>1, AncFacts DEF Younger, From

(* A list, an update u of it, and an earlier state x of an update l of it. *)
InList(u, x, l) ==
    /\ TypeOK /\ ListInv /\ HistoryInv /\ Chain(updates, Len(history))
    /\ u \in updates /\ l \in updates /\ x \in Update
    /\ UpdateInv(x) /\ Younger(x, l) /\ x.writer = u.writer

LEMMA InListFacts ==
    ASSUME NEW u, NEW x, NEW l, InList(u, x, l)
    PROVE  /\ u \in Update /\ l \in Update /\ UpdateInv(u) /\ UpdateInv(l)
           /\ u.writer = l.writer
           /\ u.pos < l.pos => PairInv(u, l)
           /\ l.pos < u.pos => PairInv(l, u)
           /\ u.pos = l.pos => u = l
  BY DEF InList, TypeOK, Chain, ListInv, Younger

(* A pointer set to where u ends. *)
LEMMA SetBehind ==
    ASSUME NEW u, NEW x, NEW l, InList(u, x, l), NEW p, p.target = u.updated, p.seq = u.seq
    PROVE  Behind(p, x)
  <1>1. /\ u \in Update /\ l \in Update /\ x \in Update /\ UpdateInv(u) /\ UpdateInv(l) /\ UpdateInv(x)
        /\ TypeOK /\ HistoryInv /\ Younger(x, l) /\ u.writer = l.writer
    <2>1. x \in Update /\ UpdateInv(x) /\ TypeOK /\ HistoryInv /\ Younger(x, l)
      BY DEF InList
    <2> QED
      BY <2>1, InListFacts
  <1>2. PICK k \in Keys : u.updated[k] # From(u)[k] /\ From(u)[k] < u.pos /\ u.pos <= u.updated[k]
    BY <1>1, SomethingChanged
  <1>3. /\ u.pos \in Nat /\ l.pos \in Nat /\ u.seq \in Nat /\ l.seq \in Nat
        /\ u.updated[k] \in Nat /\ l.updated[k] \in Nat /\ x.updated[k] \in Nat /\ From(l)[k] \in Nat
    BY <1>1, SomethingChanged
  <1>4. /\ x.pos = l.pos /\ x.original = l.original /\ x.seq = l.seq
        /\ x.updated[k] <= l.updated[k]
    BY <1>1, YoungerFacts
  <1>5. CASE u.pos < l.pos
    <2>1. u.seq < l.seq
      BY <1>1, <1>5, InListFacts DEF PairInv
    <2> QED
      BY <1>3, <1>4, <2>1, SMT DEF Behind
  <1>6. CASE l.pos <= u.pos
    <2>1. p.target # x.original
      <3> SUFFICES ASSUME p.target = l.original PROVE FALSE
        BY <1>4
      <3>1. From(l)[k] = u.updated[k]
        BY <1>1, TargetTree DEF From, Update, Target
      <3>2. From(l)[k] < l.pos
        BY <1>1 DEF UpdateInv
      <3>3. u.updated[k] < l.pos /\ l.pos <= u.pos /\ u.pos <= u.updated[k]
        BY <1>2, <1>6, <3>1, <3>2
      <3> QED
        BY <1>3, <3>3, SMT
    <2>2. CASE l.pos < u.pos
      <3>1. l.updated[k] < u.pos
        BY <2>2, InListFacts DEF PairInv
      <3>2. x.updated # u.updated
        BY <1>2, <1>3, <1>4, <3>1, SMT
      <3> QED
        BY <2>1, <3>2 DEF Behind
    <2>3. CASE l.pos = u.pos
      <3>1. u = l
        BY <2>3, InListFacts
      <3> QED
        BY <1>3, <1>4, <2>1, <3>1, SMT DEF Behind
    <2> QED
      BY <1>3, <1>6, <2>2, <2>3, SMT
  <1> QED
    BY <1>3, <1>5, <1>6, SMT

(* A pointer another device has set. *)
LEMMA FreshBehind ==
    ASSUME TypeOK, NEW x \in Update, UpdateInv(x), NEW p, p.target \in Tree,
           NEW k \in Keys, p.target[k] > Len(history)
    PROVE  Behind(p, x)
  <1>1. From(x)[k] \in 0..Len(history) /\ x.updated[k] \in 0..Len(history) /\ Len(history) \in Nat
    BY PlacedRange, SMT DEF UpdateInv, TypeOK
  <1>2. p.target # x.updated
    BY <1>1, SMT
  <1>3. p.target # x.original
    <2>1. p.target = x.original => From(x) = p.target
      BY TargetTree DEF From, Target
    <2> QED
      BY <1>1, <2>1, SMT
  <1> QED
    BY <1>2, <1>3, SMT DEF Behind

(* A merge of u with what the server has. *)
MergeOf(u, t, m) ==
    /\ t \in Tree /\ t = ptr[u.writer].target /\ u.original \in Tree
    /\ Mergeable(u.original, u.updated, t) /\ m = Merge(u.original, u.updated, t)

LEMMA MergeOfFacts ==
    ASSUME NEW u, NEW t, NEW m, MergeOf(u, t, m), u.updated \in Tree
    PROVE  /\ From(u) = u.original /\ TreeOf(ptr[u.writer].target) = t
           /\ \A k \in Keys : u.updated[k] # From(u)[k] => t[k] = From(u)[k] /\ m[k] = u.updated[k]
           /\ \A k \in Keys : t[k] # From(u)[k] => u.updated[k] = From(u)[k] /\ m[k] = t[k]
           /\ \A k \in Keys : m[k] # u.updated[k] => m[k] = t[k]
           /\ m \in Tree
  <1>1. From(u) = u.original /\ TreeOf(ptr[u.writer].target) = t
    BY NoRootAssumption DEF MergeOf, From, TreeOf
  <1>2. m \in Tree
    BY MergeType DEF MergeOf
  <1>3. \A k \in Keys : m[k] = IF u.original[k] # t[k] THEN t[k] ELSE u.updated[k]
    BY DEF MergeOf, Merge, Changed
  <1>4. \A k \in Keys : u.original[k] = u.updated[k] \/ u.original[k] = t[k]
    BY DEF MergeOf, Mergeable, Changed
  <1> QED
    BY <1>1, <1>2, <1>3, <1>4

(* A merge that ends where an update ends is the update itself. *)
LEMMA MergeEnds ==
    ASSUME NEW u, NEW x, NEW l, InList(u, x, l), ServerInv, OrderInv, LandedInv, InStep(updates),
           NEW t, NEW m, MergeOf(u, t, m), m = x.updated
    PROVE  ptr[u.writer].seq < x.seq
  <1>1. /\ u \in Update /\ l \in Update /\ x \in Update /\ UpdateInv(u) /\ UpdateInv(l) /\ UpdateInv(x)
        /\ TypeOK /\ HistoryInv /\ Younger(x, l) /\ u.writer = l.writer /\ u \in updates
    <2>1. x \in Update /\ UpdateInv(x) /\ TypeOK /\ HistoryInv /\ Younger(x, l) /\ u \in updates
      BY DEF InList
    <2> QED
      BY <2>1, InListFacts
  <1>2. PICK k \in Keys : u.updated[k] # From(u)[k] /\ From(u)[k] < u.pos /\ u.pos <= u.updated[k]
    BY <1>1, SomethingChanged
  <1>3. /\ u.pos \in Nat /\ l.pos \in Nat /\ u.seq \in Nat /\ l.seq \in Nat
        /\ \A j \in Keys : /\ u.updated[j] \in Nat /\ From(u)[j] \in Nat
                           /\ l.updated[j] \in Nat /\ x.updated[j] \in Nat
    BY <1>1, SomethingChanged
  <1>4. /\ x.pos = l.pos /\ x.writer = l.writer /\ x.seq = l.seq /\ From(x) = From(l)
        /\ \A j \in Keys : x.updated[j] <= l.updated[j]
    BY <1>1, YoungerFacts, SMT
  <1>5. /\ From(u) = u.original /\ TreeOf(ptr[u.writer].target) = t
        /\ \A j \in Keys : u.updated[j] # From(u)[j] => t[j] = From(u)[j] /\ m[j] = u.updated[j]
        /\ \A j \in Keys : t[j] # From(u)[j] => u.updated[j] = From(u)[j] /\ m[j] = t[j]
        /\ \A j \in Keys : m[j] # u.updated[j] => m[j] = t[j]
    BY <1>1, SomethingChanged, MergeOfFacts, SMT
  <1>6. ~(l.pos < u.pos)
    <2> SUFFICES ASSUME l.pos < u.pos PROVE FALSE
      OBVIOUS
    <2>1. l.updated[k] < u.pos
      BY InListFacts DEF PairInv
    <2>2. u.pos <= x.updated[k] /\ x.updated[k] <= l.updated[k]
      BY <1>2, <1>4, <1>5
    <2> QED
      BY <1>3, <2>1, <2>2, SMT
  <1>7. ASSUME u.pos < l.pos PROVE FALSE
    <2>1. PICK i \in Keys : x.updated[i] # From(x)[i] /\ x.pos <= x.updated[i]
      BY <1>1, SomethingChanged, SMT
    <2>2. x.updated[i] \in Ours \ discarded /\ u.updated[k] \in Ours \ discarded
      BY <1>1, <1>2, <2>1, SMT DEF UpdateInv
    <2>3. u.updated[i] < l.pos /\ u.updated[k] < l.pos
      BY <1>7, InListFacts DEF PairInv
    <2>4. x.updated[i] = t[i]
      <3>1. x.updated[i] # u.updated[i]
        BY <1>3, <1>4, <2>1, <2>3, SMT
      <3> QED
        BY <1>5, <3>1, SMT
    <2>5. x.updated[i] \in landed
      <3>1. x.updated[i] # 0
        BY <2>2, SMT DEF Ours
      <3>2. t[i] \in Leaves(t)
        BY <2>4, <3>1 DEF Leaves
      <3>3. u.writer \in Writers
        BY <1>1 DEF Update
      <3> QED
        BY <1>5, <2>4, <3>2, <3>3, SMT DEF OnServer, ServerInv
    <2>6. ~Landed(u.updated[k])
      BY <1>1, <1>2, <1>5, NotLanded, SMT
    <2>7. history[u.updated[k]].writer = u.writer /\ history[x.updated[i]].writer = u.writer
      <3>1. u.updated[k] # 0 /\ x.updated[i] # 0
        BY <2>2, SMT DEF Ours
      <3> QED
        BY <1>1, <1>4, <3>1, SMT DEF UpdateInv, Placed
    <2>8. x.updated[i] < u.updated[k]
      BY <2>2, <2>5, <2>6, <2>7, SMT DEF OrderInv
    <2> QED
      BY <1>3, <1>4, <2>1, <2>3, <2>8, SMT
  <1>8. u = l
    <2>1. u.pos = l.pos
      BY <1>3, <1>6, <1>7, SMT
    <2> QED
      BY <2>1, InListFacts
  <1>9. ASSUME NEW j \in Keys PROVE t[j] = From(u)[j]
    <2> SUFFICES ASSUME t[j] # From(u)[j] PROVE FALSE
      OBVIOUS
    <2>1. u.updated[j] = From(u)[j] /\ x.updated[j] = t[j]
      BY <1>5
    <2>2. x.updated[j] # From(x)[j]
      BY <1>4, <1>8, <2>1
    <2>3. x.pos <= x.updated[j]
      BY <1>1, <2>2 DEF UpdateInv
    <2>4. x.updated[j] <= u.updated[j]
      BY <1>4, <1>8
    <2>5. u.updated[j] < u.pos /\ x.pos = u.pos
      BY <1>1, <1>4, <1>8, <2>1, SMT DEF UpdateInv
    <2> QED
      BY <1>3, <2>3, <2>4, <2>5, SMT
  <1>10. t = u.original
    BY <1>5, <1>9, SMT DEF MergeOf, Tree
  <1>11. ptr[u.writer].seq < u.seq
    BY <1>1, <1>10 DEF MergeOf, InStep, Behind
  <1> QED
    BY <1>4, <1>8, <1>11, SMT

(* A pointer set to a merge. *)
LEMMA MergeBehind ==
    ASSUME NEW u, NEW x, NEW l, InList(u, x, l), ServerInv, OrderInv, LandedInv, InStep(updates),
           Linked(updates), NEW t, NEW m, MergeOf(u, t, m),
           NEW p, p.target = m, p.seq = ptr[u.writer].seq + 1
    PROVE  Behind(p, x)
  <1>1. /\ u \in Update /\ l \in Update /\ x \in Update /\ UpdateInv(u) /\ UpdateInv(l) /\ UpdateInv(x)
        /\ TypeOK /\ HistoryInv /\ Younger(x, l) /\ u.writer = l.writer
    <2>1. x \in Update /\ UpdateInv(x) /\ TypeOK /\ HistoryInv /\ Younger(x, l)
      BY DEF InList
    <2> QED
      BY <2>1, InListFacts
  <1>2. PICK k \in Keys : u.updated[k] # From(u)[k] /\ From(u)[k] < u.pos /\ u.pos <= u.updated[k]
    BY <1>1, SomethingChanged
  <1>3. /\ u.pos \in Nat /\ l.pos \in Nat /\ x.seq \in Nat /\ l.seq \in Nat
        /\ u.updated[k] \in Nat /\ From(l)[k] \in Nat
    BY <1>1, SomethingChanged
  <1>4. x.original = l.original /\ x.seq = l.seq
    BY <1>1, YoungerFacts
  <1>5. m \in Tree /\ m[k] = u.updated[k]
    BY <1>1, <1>2, SomethingChanged, MergeOfFacts, SMT
  <1>6. ptr[u.writer].seq \in Nat
    BY <1>1 DEF TypeOK, Pointer, Update
  <1>7. ASSUME m = x.updated PROVE p.seq <= x.seq
    <2>1. ptr[u.writer].seq < x.seq
      BY <1>7, MergeEnds
    <2> QED
      BY <1>3, <1>6, <2>1, SMT
  <1>8. ASSUME m = l.original PROVE p.seq < l.seq
    <2>1. From(l) = m
      BY <1>5, <1>8, TargetTree DEF From, Target
    <2>2. u.pos < l.pos
      <3>1. u.updated[k] < l.pos
        BY <1>1, <1>5, <2>1, SMT DEF UpdateInv
      <3> QED
        BY <1>2, <1>3, <3>1, SMT
    <2>3. u \in updates /\ l \in updates /\ Chain(updates, Len(history))
      BY DEF InList
    <2>4. PICK y \in updates : y.writer = l.writer /\ y.pos < l.pos /\ y.updated = l.original
      BY <1>1, <2>2, <2>3, SMT DEF Linked
    <2>5. y \in Update /\ UpdateInv(y) /\ PairInv(y, l)
      BY <1>1, <2>3, <2>4, SMT DEF TypeOK, Chain
    <2>6. Younger(y, y)
      <3>1. Extends(y.updated, y.updated)
        BY <1>1, <2>5, ExtendsOrder, SMT DEF UpdateInv
      <3> QED
        BY <3>1 DEF Younger
    <2>7. InList(u, y, y)
      BY <1>1, <2>4, <2>5, <2>6, SMT DEF InList
    <2>8. ptr[u.writer].seq < y.seq
      BY <1>8, <2>4, <2>7, MergeEnds, SMT
    <2>9. y.seq < l.seq /\ y.seq \in Nat
      BY <2>4, <2>5 DEF PairInv, Update
    <2> QED
      BY <1>3, <1>6, <2>8, <2>9, SMT
  <1> QED
    BY <1>4, <1>7, <1>8 DEF Behind

-----------------------------------------------------------------------------
(* What a step does to a pointer. *)

KeepsBehind(w) ==
    \A x \in Update : /\ x.writer = w /\ UpdateInv(x) /\ Behind(ptr[w], x)
                      /\ \E l \in updates : Younger(x, l)
                      => Behind(ptr'[w], x)

Advances(w) == ptr'[w] # ptr[w] => ptr'[w].seq > ptr[w].seq

Forward == \A w \in Writers : KeepsBehind(w) /\ Advances(w)

LEMMA StandsForward ==
    ASSUME NEW w, ptr'[w] = ptr[w]
    PROVE  KeepsBehind(w) /\ Advances(w)
  BY DEF KeepsBehind, Advances

LEMMA SetKeepsBehind ==
    ASSUME StorageInv, LineageInv, NEW u \in updates, NEW w, u.writer = w,
           ptr'[w].target = u.updated, ptr'[w].seq = u.seq
    PROVE  KeepsBehind(w)
  <1> SUFFICES ASSUME NEW x \in Update, x.writer = w, UpdateInv(x), \E l \in updates : Younger(x, l)
               PROVE  Behind(ptr'[w], x)
    BY DEF KeepsBehind
  <1>1. PICK l \in updates : Younger(x, l)
    OBVIOUS
  <1>2. InList(u, x, l)
    BY <1>1 DEF InList, StorageInv, LineageInv
  <1> QED
    BY <1>2, SetBehind

(* A pointer that is where f starts is set to where u, f or a later update   *)
(* of the same writer, ends.                                                 *)
LEMMA SetAdvances ==
    ASSUME StorageInv, LineageInv, InStep(updates), NEW f \in updates, NEW u \in updates,
           NEW w, f.writer = w, u.writer = w, f.pos <= u.pos,
           ptr[w].target = f.original, ptr'[w].seq = u.seq
    PROVE  Advances(w)
  <1>1. f \in Update /\ u \in Update /\ ptr[w].seq \in Nat
    BY DEF StorageInv, TypeOK, Update, Pointer
  <1>2. PICK p, a, b \in Nat : p = ptr[w].seq /\ a = f.seq /\ b = u.seq
    BY <1>1 DEF Update
  <1>3. p < a
    BY <1>2 DEF InStep, Behind
  <1>4. a <= b
    <2>1. CASE f.pos = u.pos
      <3>1. f = u
        BY <2>1 DEF StorageInv, ListInv
      <3> QED
        BY <1>2, <3>1, SMT
    <2>2. CASE f.pos < u.pos
      <3>1. a < b
        BY <1>2, <2>2 DEF LineageInv, Chain, PairInv
      <3> QED
        BY <3>1, SMT
    <2>3. f.pos \in Nat /\ u.pos \in Nat
      BY <1>1 DEF Update
    <2> QED
      BY <2>1, <2>2, <2>3, SMT
  <1>5. b > p
    BY <1>3, <1>4, SMT
  <1> QED
    BY <1>2, <1>5 DEF Advances

LEMMA SetForward ==
    ASSUME StorageInv, LineageInv, InStep(updates), Committing, NEW u \in writes,
           CasOk(u.writer, u.original), SetPointer(u.writer, u.updated, u.seq)
    PROVE  Forward
  <1>1. u \in updates /\ u \in Update /\ TypeOK
    BY DEF StorageInv, CommitInv, TypeOK
  <1>2. PICK w \in Writers : w = u.writer
    BY <1>1 DEF Update
  <1>3. /\ ptr'[w] = [target |-> u.updated, seq |-> u.seq]
        /\ \A x \in Writers : x # w => ptr'[x] = ptr[x]
    BY <1>1, <1>2, SetPointerType DEF Update
  <1>4. ptr'[w].target = u.updated /\ ptr'[w].seq = u.seq /\ ptr[w].target = u.original
    BY <1>2, <1>3, SMT DEF CasOk
  <1>5. u.pos <= u.pos
    BY <1>1, SMT DEF Update
  <1>6. KeepsBehind(w) /\ Advances(w)
    BY <1>1, <1>2, <1>4, <1>5, SetKeepsBehind, SetAdvances
  <1> QED
    BY <1>3, <1>6, StandsForward DEF Forward

LEMMA MergeForward ==
    ASSUME StorageInv, LineageInv, SequenceInv, pc = "recas", NEW u \in writes, IsFirst(u, writes),
           CasOk(u.writer, remote.target),
           SetPointer(u.writer, Merge(u.original, u.updated, remote.target), remote.seq + 1)
    PROVE  Forward
  <1>1. u \in updates /\ u \in Update /\ TypeOK /\ remote \in Pointer /\ ptr \in [Writers -> Pointer]
    BY DEF StorageInv, CommitInv, Committing, TypeOK
  <1>2. PICK w \in Writers : w = u.writer
    BY <1>1 DEF Update
  <1>3. PICK t, m : t = remote.target /\ m = Merge(u.original, u.updated, t)
    OBVIOUS
  <1>4. t \in Tree /\ u.original \in Tree /\ u.updated \in Tree /\ m \in Tree
    <2>1. t # NoRoot /\ u.original # NoRoot
      BY <1>3 DEF StorageInv, MergeInv
    <2>2. t \in Tree /\ u.original \in Tree /\ u.updated \in Tree
      BY <1>1, <1>3, <2>1, TargetTree DEF Update, Pointer
    <2> QED
      BY <1>3, <2>2, MergeType
  <1>5. ptr[w] = remote /\ t = ptr[w].target
    BY <1>2, <1>3 DEF SequenceInv, RemoteInv, CasOk
  <1>6. PICK n \in Nat : n = ptr[w].seq /\ n = remote.seq
    BY <1>1, <1>5 DEF Pointer
  <1>7. n + 1 \in Nat /\ n + 1 > n
    BY SMT
  <1>8. /\ ptr'[w] = [target |-> m, seq |-> n + 1]
        /\ \A x \in Writers : x # w => ptr'[x] = ptr[x]
    BY <1>1, <1>2, <1>3, <1>4, <1>6, <1>7, SetPointerType
  <1>9. MergeOf(u, t, m)
    <2>1. Mergeable(u.original, u.updated, t)
      BY <1>3 DEF LineageInv, FlushInv
    <2> QED
      BY <1>2, <1>3, <1>4, <1>5, <2>1 DEF MergeOf
  <1>10. ptr'[w].target = m /\ ptr'[w].seq = ptr[w].seq + 1
    BY <1>6, <1>8, SMT
  <1>11. KeepsBehind(w)
    <2> SUFFICES ASSUME NEW x \in Update, x.writer = w, UpdateInv(x), \E l \in updates : Younger(x, l)
                 PROVE  Behind(ptr'[w], x)
      BY DEF KeepsBehind
    <2>1. PICK l \in updates : Younger(x, l)
      OBVIOUS
    <2>2. InList(u, x, l)
      BY <1>1, <1>2, <2>1 DEF InList, StorageInv, LineageInv
    <2>3. ServerInv /\ OrderInv /\ LandedInv /\ InStep(updates) /\ Linked(updates)
      BY DEF LineageInv, SequenceInv, ListsInStep
    <2> QED
      BY <1>2, <1>9, <1>10, <2>2, <2>3, MergeBehind
  <1>12. Advances(w)
    BY <1>6, <1>7, <1>10 DEF Advances
  <1> QED
    BY <1>8, <1>11, <1>12, StandsForward DEF Forward

LEMMA BulkForward ==
    ASSUME CountingFacts, StorageInv, LineageInv, InStep(updates), BulkApplied
    PROVE  Forward
  <1>1. TypeOK /\ ListInv /\ updates \in SUBSET Update
    BY DEF StorageInv, TypeOK
  <1>2. PICK list \in SUBSET updates : list = OwnedBy(cur)
    BY DEF OwnedBy
  <1>3. ptr' = AfterBulk(list) /\ BulkCasOk(list)
    BY <1>2 DEF BulkApplied, SetPointers
  <1>4. ASSUME NEW w \in Writers, Latest(list, w) # {} PROVE KeepsBehind(w) /\ Advances(w)
    <2>1. PICK u \in Latest(list, w) : ptr'[w] = [target |-> u.updated, seq |-> u.seq]
      <3>1. (CHOOSE x \in Latest(list, w) : TRUE) \in Latest(list, w)
        BY <1>4
      <3> QED
        BY <1>3, <1>4, <3>1 DEF AfterBulk
    <2>2. /\ u \in list /\ u \in updates /\ u.writer = w
          /\ \A x \in list : x.writer = w => x.pos <= u.pos
      BY <2>1 DEF Latest
    <2>3. PICK mine \in SUBSET Update : mine = {x \in list : x.writer = w}
      BY <1>1
    <2>4. PICK f \in mine : IsFirst(f, mine)
      BY <2>2, <2>3 DEF CountingFacts
    <2>5. f \in list /\ f \in updates /\ f.writer = w /\ f.pos <= u.pos /\ f.pos \in Nat
      BY <2>2, <2>3 DEF Update
    <2>6. Latest({x \in list : x.pos < f.pos}, w) = {}
      <3> SUFFICES ASSUME NEW x \in list, x.pos < f.pos, x.writer = w PROVE FALSE
        BY DEF Latest
      <3>1. f.pos <= x.pos /\ x.pos \in Nat
        BY <1>1, <2>3, <2>4 DEF IsFirst, Update
      <3> QED
        BY <2>5, <3>1, SMT
    <2>7. ptr[w].target = f.original
      BY <1>3, <2>5, <2>6 DEF BulkCasOk, CasOk
    <2>8. ptr'[w].target = u.updated /\ ptr'[w].seq = u.seq
      BY <2>1, SMT
    <2> QED
      BY <2>2, <2>5, <2>7, <2>8, SetKeepsBehind, SetAdvances
  <1>5. ASSUME NEW w \in Writers, Latest(list, w) = {} PROVE ptr'[w] = ptr[w]
    BY <1>3, <1>5 DEF AfterBulk
  <1> QED
    BY <1>4, <1>5, StandsForward DEF Forward

LEMMA OtherForward ==
    ASSUME StorageInv, LineageInv, NEW w \in Writers, NEW k \in Keys, OtherDevice(w, k)
    PROVE  /\ Forward
           /\ ptr'[w].target[k] > Len(history) /\ \A x \in Writers : x # w => ptr'[x] = ptr[x]
  <1>1. TypeOK /\ Len(history) \in Nat /\ TreeOf(ptr[w].target) \in Tree /\ ptr[w] \in Pointer
    <2>1. TypeOK /\ ptr[w] \in Pointer
      BY DEF StorageInv, TypeOK
    <2> QED
      BY <2>1, ListType, ServerTree
  <1>2. PICK v, n \in Nat : v = Len(history) + 1 /\ n = ptr[w].seq
    <2>1. Len(history) + 1 \in Nat
      BY <1>1, SMT
    <2> QED
      BY <1>1, <2>1 DEF Pointer
  <1>3. PICK root : /\ root = [TreeOf(ptr[w].target) EXCEPT ![k] = v]
                    /\ SetPointer(w, root, n + 1)
    BY <1>2 DEF OtherDevice
  <1>4. root \in Tree
    BY <1>1, <1>3, WriteLeaves
  <1>5. root[k] = v
    BY <1>1, <1>3, SMT DEF Tree
  <1>6. n + 1 \in Nat /\ n + 1 > n /\ v > Len(history)
    BY <1>1, <1>2, SMT
  <1>7. /\ ptr'[w] = [target |-> root, seq |-> n + 1]
        /\ \A x \in Writers : x # w => ptr'[x] = ptr[x]
    BY <1>1, <1>3, <1>4, <1>6, SetPointerType
  <1>8. ptr'[w].target = root /\ ptr'[w].seq = n + 1
    BY <1>7, SMT
  <1>9. Advances(w)
    BY <1>2, <1>6, <1>8 DEF Advances
  <1>10. KeepsBehind(w)
    <2> SUFFICES ASSUME NEW x \in Update, UpdateInv(x) PROVE Behind(ptr'[w], x)
      BY DEF KeepsBehind
    <2>1. ptr'[w].target \in Tree /\ ptr'[w].target[k] > Len(history)
      BY <1>4, <1>5, <1>6, <1>8
    <2> QED
      BY <1>1, <2>1, FreshBehind
  <1> QED
    BY <1>5, <1>6, <1>7, <1>8, <1>9, <1>10, StandsForward DEF Forward

-----------------------------------------------------------------------------
(* The lists. *)

Updates(list) == list \in SUBSET Update /\ \A x \in list : UpdateInv(x)

LEMMA ListsOfUpdates ==
    ASSUME StorageInv, LineageInv
    PROVE  /\ TypeOK /\ HistoryInv /\ Updates(updates) /\ Precedes(updates, updates)
           /\ \A i \in 1..Len(cps) : Updates(RolledBack(cps[i]))
  <1>1. TypeOK /\ HistoryInv
    BY DEF StorageInv, LineageInv
  <1>2. Updates(updates)
    BY <1>1, ListType DEF Updates, LineageInv, Chain
  <1>3. ASSUME NEW u \in updates PROVE Younger(u, u)
    <2>1. Extends(u.updated, u.updated)
      BY <1>1, <1>2, ExtendsOrder DEF Updates, UpdateInv
    <2> QED
      BY <2>1 DEF Younger
  <1>4. ASSUME NEW i \in 1..Len(cps) PROVE Updates(RolledBack(cps[i]))
    <2>1. cps[i] \in Checkpoint /\ Restorable(cps[i])
      BY <1>1, CheckpointsType DEF LineageInv
    <2> QED
      BY <1>1, <2>1, RolledBackType DEF Updates, Restorable, Chain
  <1> QED
    BY <1>1, <1>2, <1>3, <1>4 DEF Precedes

LEMMA StaysInStep ==
    ASSUME Forward, NEW list, Updates(list), InStep(list), Precedes(list, updates)
    PROVE  InStep(list)'
  <1> SUFFICES ASSUME NEW x \in list PROVE Behind(ptr[x.writer], x)'
    BY DEF InStep
  <1>1. x \in Update /\ UpdateInv(x) /\ x.writer \in Writers
    BY DEF Updates, Update
  <1>2. Behind(ptr[x.writer], x) /\ \E l \in updates : Younger(x, l)
    BY DEF InStep, Precedes
  <1>3. Behind(ptr'[x.writer], x)
    BY <1>1, <1>2 DEF Forward, KeepsBehind
  <1> QED
    BY <1>3 DEF Behind

LEMMA StaysYounger ==
    ASSUME TypeOK, HistoryInv, LogGrows, NEW x, NEW l, UpdateInv(l), Younger(x, l)
    PROVE  Younger(x, l)'
  <1>1. Extends(x.updated, l.updated)'
    BY LineGrows DEF UpdateInv, Younger
  <1> QED
    BY <1>1 DEF Younger

LEMMA StillPrecedes ==
    ASSUME TypeOK, HistoryInv, LogGrows, NEW list, NEW now, Updates(now), Precedes(list, now)
    PROVE  Precedes(list, now)'
  BY StaysYounger DEF Precedes, Updates

Steady(n) ==
    StorageInv /\ LineageInv /\ ListsInStep /\ LogGrows /\ Forward /\ RestoresSame(n)

LEMMA CheckpointsSteady ==
    ASSUME NEW n, Steady(n)
    PROVE  /\ \A i \in 1..n : Linked(RolledBack(cps[i]))' /\ InStep(RolledBack(cps[i]))'
           /\ \A i, j \in 1..n : i < j => Precedes(RolledBack(cps[i]), RolledBack(cps[j]))'
           /\ \A i \in 1..n : \A list, now :
                 list = RolledBack(cps[i])' /\ now = updates => Precedes(list, now)'
           /\ \A now : now = updates => InStep(now)'
  <1>1. /\ TypeOK /\ HistoryInv /\ Updates(updates) /\ Precedes(updates, updates)
        /\ LogGrows /\ Forward /\ \A i \in 1..Len(cps) : Updates(RolledBack(cps[i]))
    BY ListsOfUpdates DEF Steady
  <1>2. ASSUME NEW i \in 1..n
        PROVE  \E list : /\ list = RolledBack(cps[i])' /\ list = RolledBack(cps[i])
                         /\ i \in 1..Len(cps) /\ Updates(list)
                         /\ Linked(list) /\ InStep(list) /\ Precedes(list, updates)
    BY <1>1, <1>2 DEF Steady, RestoresSame, ListsInStep
  <1>3. ASSUME NEW i \in 1..n
        PROVE  Linked(RolledBack(cps[i]))' /\ InStep(RolledBack(cps[i]))'
    <2>1. PICK list : /\ list = RolledBack(cps[i])' /\ Updates(list)
                      /\ Linked(list) /\ InStep(list) /\ Precedes(list, updates)
      BY <1>2, <1>3
    <2>2. InStep(list)' /\ Linked(list)'
      BY <1>1, <2>1, StaysInStep DEF Linked
    <2> QED
      BY <2>1, <2>2
  <1>4. ASSUME NEW i \in 1..n, NEW j \in 1..n, i < j
        PROVE  Precedes(RolledBack(cps[i]), RolledBack(cps[j]))'
    <2>1. PICK list : list = RolledBack(cps[i])' /\ list = RolledBack(cps[i]) /\ i \in 1..Len(cps)
      BY <1>2, <1>4
    <2>2. PICK now : /\ now = RolledBack(cps[j])' /\ now = RolledBack(cps[j]) /\ j \in 1..Len(cps)
                     /\ Updates(now)
      BY <1>2, <1>4
    <2>3. Precedes(list, now)
      BY <1>4, <2>1, <2>2 DEF Steady, ListsInStep
    <2>4. Precedes(list, now)'
      BY <1>1, <2>2, <2>3, StillPrecedes
    <2> QED
      BY <2>1, <2>2, <2>4
  <1>5. ASSUME NEW i \in 1..n, NEW list, NEW now, list = RolledBack(cps[i])', now = updates
        PROVE  Precedes(list, now)'
    <2>1. Precedes(list, now)
      BY <1>2, <1>5
    <2> QED
      BY <1>1, <1>5, <2>1, StillPrecedes
  <1>6. ASSUME NEW now, now = updates PROVE InStep(now)'
    <2>1. InStep(now)
      BY <1>6 DEF Steady, ListsInStep
    <2> QED
      BY <1>1, <1>6, <2>1, StaysInStep
  <1> QED
    BY <1>3, <1>4, <1>5, <1>6

LEMMA ListsSame ==
    ASSUME Steady(Len(cps')), updates' = updates
    PROVE  ListsInStep'
  <1>1. PICK n, now : n = Len(cps') /\ now = updates
    OBVIOUS
  <1>2. /\ \A i \in 1..n : Linked(RolledBack(cps[i]))' /\ InStep(RolledBack(cps[i]))'
        /\ \A i, j \in 1..n : i < j => Precedes(RolledBack(cps[i]), RolledBack(cps[j]))'
        /\ \A i \in 1..n : \A list : list = RolledBack(cps[i])' => Precedes(list, now)'
        /\ InStep(now)'
    BY <1>1, CheckpointsSteady
  <1>3. Linked(now)'
    BY <1>1 DEF Steady, ListsInStep, Linked
  <1>4. ASSUME NEW i \in 1..n PROVE Precedes(RolledBack(cps[i]), updates)'
    <2>1. PICK list : list = RolledBack(cps[i])'
      OBVIOUS
    <2>2. Precedes(list, now)'
      BY <1>2, <2>1
    <2> QED
      BY <1>1, <2>1, <2>2
  <1>5. Linked(updates)' /\ InStep(updates)'
    BY <1>1, <1>2, <1>3
  <1> QED
    BY <1>1, <1>2, <1>4, <1>5 DEF ListsInStep

(* Committed updates are dropped, all of a writer's at once; of a checkpoint *)
(* nothing is left to restore.                                               *)
LEMMA NothingBackNext ==
    ASSUME updates' = {}, NEW cp
    PROVE  RolledBack(cp)' = {}
  <1>1. Truncate(updates', cp.len) = {}
    BY DEF Truncate
  <1>2. \A r : Advance({}, r) = {}
    BY DEF Advance, LastOf
  <1> QED
    BY <1>1, <1>2 DEF RolledBack

LEMMA ListsGone ==
    ASSUME StorageInv, LineageInv, ListsInStep, Forward, updates' \subseteq updates,
           \A u \in updates, x \in updates' : u.writer = x.writer => u \in updates',
           updates' = {} \/ Len(cps') = 0
    PROVE  ListsInStep'
  <1>1. PICK now : now = updates'
    OBVIOUS
  <1>2. Linked(now)
    <2> SUFFICES ASSUME NEW u \in now, NEW x \in now, u.writer = x.writer, u.pos < x.pos
                 PROVE  \E y \in now : /\ y.writer = x.writer /\ u.pos <= y.pos /\ y.pos < x.pos
                                       /\ y.updated = x.original
      BY DEF Linked
    <2>1. PICK y \in updates : /\ y.writer = x.writer /\ u.pos <= y.pos /\ y.pos < x.pos
                               /\ y.updated = x.original
      BY <1>1 DEF ListsInStep, Linked
    <2>2. y \in now
      BY <1>1, <2>1
    <2> QED
      BY <2>1, <2>2
  <1>3. InStep(now)'
    <2>1. InStep(now) /\ Precedes(now, updates) /\ Updates(now)
      BY <1>1, ListsOfUpdates DEF ListsInStep, InStep, Precedes, Updates
    <2> QED
      BY <2>1, StaysInStep
  <1>4. Linked(updates)' /\ InStep(updates)'
    BY <1>1, <1>2, <1>3 DEF Linked
  <1>5. CASE updates' = {}
    <2>1. ASSUME NEW i \in 1..Len(cps') PROVE RolledBack(cps[i])' = {}
      <3>1. PICK cp : cp = cps'[i]
        OBVIOUS
      <3>2. RolledBack(cp)' = {}
        BY <1>5, NothingBackNext
      <3> QED
        BY <3>1, <3>2
    <2>2. \A list : Linked({})' /\ InStep({})' /\ Precedes({}, list)'
      BY DEF Linked, InStep, Precedes
    <2> QED
      BY <1>4, <2>1, <2>2 DEF ListsInStep
  <1>6. CASE Len(cps') = 0
    <2>1. 1..Len(cps') = {}
      BY <1>6, SMT
    <2> QED
      BY <1>4, <2>1 DEF ListsInStep
  <1> QED
    BY <1>5, <1>6

(* The list is rolled back to a checkpoint. *)
LEMMA ListsBack ==
    ASSUME Steady(Len(cps')), NEW n \in 1..Len(cps), \A i \in 1..Len(cps') : i < n,
           updates' = RolledBack(cps[n])
    PROVE  ListsInStep'
  <1>1. PICK now : now = RolledBack(cps[n])
    OBVIOUS
  <1>2. PICK m : m = Len(cps')
    OBVIOUS
  <1>3. /\ TypeOK /\ HistoryInv /\ LogGrows /\ Updates(now) /\ Forward
        /\ Linked(now) /\ InStep(now) /\ Precedes(now, updates)
    BY <1>1, ListsOfUpdates DEF Steady, ListsInStep
  <1>4. Linked(now)' /\ InStep(now)'
    BY <1>3, StaysInStep DEF Linked
  <1>5. /\ \A i \in 1..m : Linked(RolledBack(cps[i]))' /\ InStep(RolledBack(cps[i]))'
        /\ \A i, j \in 1..m : i < j => Precedes(RolledBack(cps[i]), RolledBack(cps[j]))'
    BY <1>2, CheckpointsSteady
  <1>6. ASSUME NEW i \in 1..m PROVE Precedes(RolledBack(cps[i]), updates)'
    <2>1. PICK list : list = RolledBack(cps[i])' /\ list = RolledBack(cps[i])
      BY <1>2 DEF Steady, RestoresSame
    <2>2. Precedes(list, now)
      BY <1>1, <1>2, <2>1 DEF Steady, RestoresSame, ListsInStep
    <2>3. Precedes(list, now)'
      BY <1>3, <2>2, StillPrecedes
    <2> QED
      BY <1>1, <2>1, <2>3
  <1>7. Linked(updates)' /\ InStep(updates)'
    BY <1>1, <1>4
  <1> QED
    BY <1>2, <1>5, <1>6, <1>7 DEF ListsInStep

(* A checkpoint is taken. *)
LEMMA ListsBegun ==
    ASSUME NEW n \in Nat, Steady(n), updates' = updates, Len(cps') = n + 1,
           RolledBack(cps[n + 1])' = updates
    PROVE  ListsInStep'
  <1>1. PICK now : now = updates
    OBVIOUS
  <1>2. PICK m : m = n + 1
    OBVIOUS
  <1>3. /\ \A i \in 1..n : Linked(RolledBack(cps[i]))' /\ InStep(RolledBack(cps[i]))'
        /\ \A i, j \in 1..n : i < j => Precedes(RolledBack(cps[i]), RolledBack(cps[j]))'
        /\ \A i \in 1..n : \A list : list = RolledBack(cps[i])' => Precedes(list, now)'
        /\ InStep(now)'
    BY <1>1, CheckpointsSteady
  <1>4. Linked(now)' /\ Precedes(now, now)'
    <2>1. TypeOK /\ HistoryInv /\ LogGrows /\ Updates(now) /\ Precedes(now, now) /\ Linked(now)
      BY <1>1, ListsOfUpdates DEF Steady, ListsInStep
    <2> QED
      BY <2>1, StillPrecedes DEF Linked
  <1>5. /\ \A i \in 1..m : i \in 1..n \/ i = m
        /\ \A i, j \in 1..m : i < j => i \in 1..n
    BY <1>2, SMT
  <1>6. RolledBack(cps[m])' = now
    BY <1>1, <1>2
  <1>7. ASSUME NEW i \in 1..m
        PROVE  /\ Linked(RolledBack(cps[i]))' /\ InStep(RolledBack(cps[i]))'
               /\ \A list : list = RolledBack(cps[i])' => Precedes(list, now)'
    <2>1. CASE i \in 1..n
      BY <1>3, <2>1
    <2>2. CASE i = m
      BY <1>3, <1>4, <1>6, <2>2
    <2> QED
      BY <1>5, <2>1, <2>2
  <1>8. ASSUME NEW i \in 1..m PROVE Precedes(RolledBack(cps[i]), updates)'
    <2>1. PICK list : list = RolledBack(cps[i])'
      OBVIOUS
    <2>2. Precedes(list, now)'
      BY <1>7, <2>1
    <2> QED
      BY <1>1, <2>1, <2>2
  <1>9. ASSUME NEW i \in 1..m, NEW j \in 1..m, i < j
        PROVE  Precedes(RolledBack(cps[i]), RolledBack(cps[j]))'
    <2>1. CASE j \in 1..n
      BY <1>3, <1>5, <1>9, <2>1
    <2>2. CASE j = m
      <3>1. RolledBack(cps[j])' = updates'
        BY <1>1, <1>6, <2>2
      <3> QED
        BY <1>8, <3>1
    <2> QED
      BY <1>5, <2>1, <2>2
  <1>10. Linked(updates)' /\ InStep(updates)'
    BY <1>1, <1>3, <1>4
  <1> QED
    BY <1>2, <1>7, <1>8, <1>9, <1>10 DEF ListsInStep

-----------------------------------------------------------------------------
(* A write. *)

LEMMA PrecedesInTurn ==
    ASSUME TypeOK', HistoryInv', NEW a, NEW b, NEW c, Precedes(a, b)', Precedes(b, c)'
    PROVE  Precedes(a, c)'
  <1> SUFFICES ASSUME NEW x \in a PROVE \E l \in c : Younger(x, l)'
    BY DEF Precedes
  <1>1. PICK y \in b : Younger(x, y)'
    BY DEF Precedes
  <1>2. PICK l \in c : Younger(y, l)'
    BY DEF Precedes
  <1>3. Extends(x.updated, l.updated)'
    BY <1>1, <1>2, AncFactsNext DEF Younger, Extends
  <1> QED
    BY <1>1, <1>2, <1>3 DEF Younger

(* The entry a write makes, and what it takes the place of. *)
NewEntry(w, t, root, old, new, list) ==
    /\ new \in Update /\ new.writer = w /\ new.updated = root
    /\ list \subseteq updates /\ updates' = list \cup {new}
    /\ \A u \in list : u.pos \in Nat /\ u.pos < new.pos
    /\ \A u \in updates \ list : /\ u = old /\ u.writer = w /\ u.pos = new.pos /\ u.seq = new.seq
                                 /\ u.original = new.original /\ u.updated = t
    /\ ptr[w].target = new.original => ptr[w].seq < new.seq
    /\ \A u \in list : u.writer = w =>
          \E y \in list : y.writer = w /\ u.pos <= y.pos /\ y.updated = new.original

LEMMA AdvancedEntry ==
    ASSUME CountingFacts, StorageInv, LineageInv, ListsInStep, NEW w \in Writers, NEW root \in Tree,
           NEW l \in LastOf(updates), l.writer = w,
           updates' = Advance(updates, root)
    PROVE  NewEntry(w, l.updated, root, l, [l EXCEPT !.updated = root], updates \ {l})
  <1>1. updates \in SUBSET Update /\ ListInv /\ l \in updates /\ l \in Update
    BY DEF StorageInv, TypeOK, LastOf
  <1>2. LastOf(updates) = {l}
    <2>1. Ordered(updates)
      BY <1>1 DEF ListInv, Ordered
    <2>2. ASSUME NEW x \in LastOf(updates) PROVE x = l
      BY <1>1, <2>1, LastUnique DEF Ordered
    <2> QED
      BY <2>2
  <1>3. PICK new : new = [l EXCEPT !.updated = root]
    OBVIOUS
  <1>4. updates' = (updates \ {l}) \cup {new}
    BY <1>2, <1>3 DEF Advance
  <1>5. /\ new \in Update /\ new.writer = w /\ new.updated = root /\ new.pos = l.pos
        /\ new.seq = l.seq /\ new.original = l.original
    BY <1>1, <1>3, SMT DEF Update
  <1>6. ASSUME NEW u \in updates \ {l} PROVE u.pos \in Nat /\ u.pos < l.pos
    <2>1. u.pos \in Nat /\ l.pos \in Nat /\ u.pos <= l.pos /\ u.pos # l.pos
      BY <1>1 DEF LastOf, ListInv, Update
    <2> QED
      BY <2>1, SMT
  <1>7. ptr[w].target = l.original => ptr[w].seq < l.seq
    BY <1>1 DEF ListsInStep, InStep, Behind
  <1>8. ASSUME NEW u \in updates \ {l}, u.writer = w
        PROVE  \E y \in updates \ {l} : y.writer = w /\ u.pos <= y.pos /\ y.updated = l.original
    <2>0. u \in updates /\ l \in updates /\ u.writer = l.writer /\ u.pos < l.pos /\ Linked(updates)
      BY <1>1, <1>6, <1>8 DEF ListsInStep
    <2>1. PICK y \in updates : /\ y.writer = w /\ u.pos <= y.pos /\ y.pos < l.pos
                               /\ y.updated = l.original
      BY <2>0 DEF Linked
    <2>2. y # l
      BY <1>1, <2>1, SMT DEF Update
    <2> QED
      BY <2>1, <2>2
  <1>9. NewEntry(w, l.updated, root, l, new, updates \ {l})
    BY <1>1, <1>4, <1>5, <1>6, <1>7, <1>8 DEF NewEntry
  <1> QED
    BY <1>3, <1>9

LEMMA AppendedEntry ==
    ASSUME CountingFacts, StorageInv, LineageInv, ListsInStep, NEW w \in Writers, NEW root \in Tree,
           NEW seen \in Seen(w), NEW new,
           new = [pos |-> Len(history) + 1, writer |-> w, original |-> seen.target,
                  updated |-> root, seq |-> seen.seq + 1],
           updates' = updates \cup {new}
    PROVE  NewEntry(w, root, root, new, new, updates)
  <1>1. updates \in SUBSET Update /\ TypeOK /\ ListInv /\ Len(history) \in Nat
    BY ListType DEF StorageInv
  <1>2. seen \in Pointer /\ seen.target \in Target /\ seen.seq \in Nat
    BY <1>1, SeenType DEF Pointer
  <1>3. /\ new.pos = Len(history) + 1 /\ new.writer = w /\ new.original = seen.target
        /\ new.updated = root /\ new.seq = seen.seq + 1
    BY SMT
  <1>4. new \in Update
    BY <1>1, <1>2, SMT DEF Update
  <1>5. ASSUME NEW u \in updates PROVE u.pos \in Nat /\ u.pos < new.pos
    <2>1. u.pos \in Nat /\ u.pos <= Len(history)
      BY <1>1 DEF Update, ListInv
    <2> QED
      BY <1>1, <1>3, <2>1, SMT
  <1>6. CASE Latest(updates, w) = {}
    <2>1. seen = ptr[w]
      BY <1>6 DEF Seen
    <2>2. ptr[w].seq < new.seq
      BY <1>2, <1>3, <2>1, SMT
    <2>3. ASSUME NEW u \in updates, u.writer = w PROVE FALSE
      <3>1. Latest(updates, u.writer) # {}
        BY <1>1, LatestExists DEF ListInv
      <3> QED
        BY <1>6, <2>3, <3>1
    <2> QED
      BY <1>3, <1>4, <1>5, <2>2, <2>3 DEF NewEntry
  <1>7. CASE Latest(updates, w) # {}
    <2>1. PICK y \in Latest(updates, w) : seen = [target |-> y.updated, seq |-> y.seq]
      BY <1>7 DEF Seen
    <2>2. y.updated = new.original /\ new.seq = y.seq + 1
      BY <1>3, <2>1, SMT
    <2>3. y \in updates /\ y.writer = w /\ \A u \in updates : u.writer = w => u.pos <= y.pos
      BY <2>1 DEF Latest
    <2>4. PICK p, s \in Nat : p = ptr[w].seq /\ s = y.seq
      BY <1>1, <2>3 DEF TypeOK, Pointer, Update
    <2>5. ptr[w].target = y.updated => p <= s
      BY <2>3, <2>4 DEF ListsInStep, InStep, Behind
    <2>6. p <= s => p < s + 1
      BY SMT
    <2>7. ptr[w].target = new.original => ptr[w].seq < new.seq
      BY <2>2, <2>4, <2>5, <2>6
    <2> QED
      BY <1>3, <1>4, <1>5, <2>2, <2>3, <2>7 DEF NewEntry
  <1> QED
    BY <1>6, <1>7

LEMMA ListsWritten ==
    ASSUME CountingFacts, StorageInv, StorageInv', LineageInv, LineageInv', NEW w \in Writers,
           NEW k \in Keys, NEW seen \in Seen(w), NEW root, Enters(w, k, seen, root),
           ptr' = ptr, Steady(Len(cps'))
    PROVE  ListsInStep'
  <1>1. /\ TypeOK /\ TypeOK' /\ ListInv /\ HistoryInv /\ HistoryInv' /\ ServerInv /\ LogGrows
        /\ Chain(updates, Len(history)) /\ ListsInStep /\ Len(history) \in Nat
    BY ListType DEF StorageInv, LineageInv, Steady
  <1>2. PICK t \in Tree, v \in Nat : t = TreeOf(seen.target) /\ v = Len(history) + 1
    <2>1. Len(history) + 1 \in Nat
      BY <1>1, SMT
    <2> QED
      BY <1>1, <2>1, SeenChain
  <1>3. Placed(w, t) /\ \A l \in LastOf(updates) : l.writer = w => t = l.updated
    BY <1>1, <1>2, SeenChain
  <1>4. root = [t EXCEPT ![k] = v] /\ updates' = AddWrite(w, seen, root)
    BY <1>2 DEF Enters
  <1>5. root \in Tree /\ root[k] = v /\ v > Len(history)
    <2>1. root[k] = v
      BY <1>4, SMT DEF Tree
    <2>2. v > Len(history)
      BY <1>1, <1>2, SMT
    <2> QED
      BY <1>4, <2>1, <2>2, WriteLeaves
  <1>6. Extends(t, root)'
    <2>1. /\ t[k] \in 0..Len(history) /\ NewVersion(w, k, t[k], TRUE)
          /\ t[k] # 0 => history[t[k]].writer = w /\ history[t[k]].key = k
      <3>1. t[k] \in 0..Len(history)
        BY <1>1, <1>3, PlacedRange
      <3>2. NewVersion(w, k, t[k], TRUE)
        BY <1>2 DEF Enters
      <3>3. t[k] # 0 => history[t[k]].writer = w /\ history[t[k]].key = k
        BY <1>3 DEF Placed
      <3> QED
        BY <3>1, <3>2, <3>3
    <2>2. Len(history') = v /\ history'[v] = [writer |-> w, key |-> k, parent |-> t[k], ours |-> TRUE]
      BY <1>1, <1>2, <2>1, NewVersionFacts
    <2>3. history'[v].writer = w /\ history'[v].key = k /\ history'[v].parent = t[k]
      BY <2>2, SMTT(20)
    <2>4. Extends(t, t)
      BY <1>1, <1>3, ExtendsOrder
    <2> QED
      BY <1>1, <1>2, <1>3, <1>4, <2>2, <2>3, <2>4, NewTree
  <1>7. PICK old, new, list, from : NewEntry(w, from, root, old, new, list) /\ (updates # list => from = t)
    <2>1. CASE \E l \in LastOf(updates) : l.writer = w
      <3>1. PICK l \in LastOf(updates) : l.writer = w
        BY <2>1
      <3>2. updates' = Advance(updates, root) /\ l.updated = t
        BY <1>3, <1>4, <2>1, <3>1 DEF AddWrite
      <3> QED
        BY <1>1, <1>5, <3>1, <3>2, AdvancedEntry
    <2>2. CASE ~\E l \in LastOf(updates) : l.writer = w
      <3>1. PICK new : /\ new = [pos |-> Len(history) + 1, writer |-> w, original |-> seen.target,
                                 updated |-> root, seq |-> seen.seq + 1]
                       /\ updates' = updates \cup {new}
        BY <1>4, <2>2 DEF AddWrite
      <3> QED
        BY <1>1, <1>5, <3>1, AppendedEntry
    <2> QED
      BY <2>1, <2>2
  <1>8. InStep(updates)'
    <2>1. ptr[w].target # root
      <3>1. TreeOf(ptr[w].target)[k] \in 0..Len(history)
        BY <1>1, PlacedRange DEF ServerInv
      <3>2. TreeOf(root) = root
        BY <1>5, TargetTree DEF Target
      <3>3. root[k] \notin 0..Len(history)
        BY <1>1, <1>5, SMT
      <3> QED
        BY <3>1, <3>2, <3>3
    <2>2. Behind(ptr[w], new) /\ new.writer = w
      BY <1>7, <2>1 DEF NewEntry, Behind
    <2>3. ASSUME NEW u \in updates' PROVE Behind(ptr[u.writer], u)
      <3>1. CASE u \in updates
        BY <1>1, <3>1 DEF ListsInStep, InStep
      <3>2. CASE u = new
        BY <2>2, <3>2
      <3> QED
        BY <1>7, <3>1, <3>2 DEF NewEntry
    <2> QED
      BY <2>3 DEF InStep, Behind
  <1>9. PICK now : now = updates'
    OBVIOUS
  <1>10. Linked(now)
    <2> SUFFICES ASSUME NEW u \in now, NEW x \in now, u.writer = x.writer, u.pos < x.pos
                 PROVE  \E y \in now : /\ y.writer = x.writer /\ u.pos <= y.pos /\ y.pos < x.pos
                                       /\ y.updated = x.original
      BY DEF Linked
    <2>1. /\ list \subseteq now /\ list \subseteq updates /\ now = list \cup {new} /\ new.pos \in Nat
          /\ \A y \in list : y.pos \in Nat /\ y.pos < new.pos
          /\ \A y \in updates \ list : y.pos = new.pos
      BY <1>7, <1>9 DEF NewEntry, Update
    <2>2. u \in list
      <3>1. u # new
        BY <2>1, SMT
      <3> QED
        BY <2>1, <3>1
    <2>3. CASE x = new
      <3>1. PICK y \in list : y.writer = w /\ u.pos <= y.pos /\ y.updated = new.original
        BY <1>7, <2>2, <2>3 DEF NewEntry
      <3> QED
        BY <1>7, <2>1, <2>3, <3>1 DEF NewEntry
    <2>4. CASE x \in list
      <3>1. PICK y \in updates : /\ y.writer = x.writer /\ u.pos <= y.pos /\ y.pos < x.pos
                                 /\ y.updated = x.original
        BY <1>1, <2>1, <2>2, <2>4 DEF ListsInStep, Linked
      <3>2. y \in list
        BY <2>1, <2>4, <3>1, SMT
      <3> QED
        BY <2>1, <3>1, <3>2
    <2> QED
      BY <2>1, <2>3, <2>4
  <1>11. PICK was, n : was = updates /\ n = Len(cps')
    OBVIOUS
  <1>12. Precedes(was, updates)'
    <2> SUFFICES ASSUME NEW u \in was PROVE \E l \in updates' : Younger(u, l)'
      BY DEF Precedes
    <2>1. u \in Update /\ UpdateInv(u) /\ Younger(u, u)'
      <3>1. u \in Update /\ UpdateInv(u) /\ Extends(u.updated, u.updated)
        BY <1>1, <1>11, ListsOfUpdates, ExtendsOrder DEF Updates, UpdateInv
      <3>2. Extends(u.updated, u.updated)'
        BY <1>1, <3>1, LineGrows DEF UpdateInv
      <3> QED
        BY <3>1, <3>2 DEF Younger
    <2>2. CASE u \in list
      BY <1>7, <2>1, <2>2 DEF NewEntry
    <2>3. CASE u \notin list
      <3>1. /\ u.pos = new.pos /\ u.writer = new.writer /\ u.original = new.original
            /\ u.seq = new.seq /\ u.updated = t /\ new.updated = root /\ new \in updates'
        BY <1>7, <1>11, <2>3 DEF NewEntry
      <3>2. Younger(u, new)'
        BY <1>6, <3>1 DEF Younger
      <3> QED
        BY <3>1, <3>2
    <2> QED
      BY <2>2, <2>3
  <1>13. /\ \A i \in 1..n : Linked(RolledBack(cps[i]))' /\ InStep(RolledBack(cps[i]))'
         /\ \A i, j \in 1..n : i < j => Precedes(RolledBack(cps[i]), RolledBack(cps[j]))'
         /\ \A i \in 1..n : \A before : before = RolledBack(cps[i])' => Precedes(before, was)'
    BY <1>11, CheckpointsSteady
  <1>14. ASSUME NEW i \in 1..n PROVE Precedes(RolledBack(cps[i]), updates)'
    <2>1. PICK before : before = RolledBack(cps[i])'
      OBVIOUS
    <2>2. Precedes(before, was)'
      BY <1>13, <2>1
    <2>3. Precedes(before, now)'
      BY <1>1, <1>9, <1>12, <2>2, PrecedesInTurn
    <2> QED
      BY <1>9, <2>1, <2>3
  <1>15. Linked(updates)'
    BY <1>9, <1>10 DEF Linked
  <1> QED
    BY <1>8, <1>11, <1>13, <1>14, <1>15 DEF ListsInStep

LEMMA BackSame ==
    ASSUME UNCHANGED <<updates, generation>>,
           \A i \in 1..Len(cps') : i \in 1..Len(cps) /\ cps'[i] = cps[i]
    PROVE  RestoresSame(Len(cps'))
  <1> SUFFICES ASSUME NEW i \in 1..Len(cps')
               PROVE  RolledBack(cps[i])' = RolledBack(cps[i])
    BY DEF RestoresSame
  <1>1. PICK cp : cp = cps[i] /\ cp = cps'[i]
    OBVIOUS
  <1>2. RolledBack(cp)' = RolledBack(cp)
    BY SMT DEF RolledBack
  <1> QED
    BY <1>1, <1>2

-----------------------------------------------------------------------------
(* The pointer read after a refusal. *)

LEMMA RemoteElsewhere ==
    ASSUME pc' # "recas"
    PROVE  RemoteInv'
  BY DEF RemoteInv

LEMMA RemoteRead ==
    ASSUME StorageInv, NEW u \in writes, Resolve(u)
    PROVE  RemoteInv'
  <1> SUFFICES ASSUME pc' = "recas", NEW x \in writes', IsFirst(x, writes')
               PROVE  ptr'[x.writer] = remote'
    BY DEF RemoteInv, IsFirst
  <1>1. writes' = writes /\ remote' = ptr[u.writer] /\ ptr' = ptr /\ IsFirst(u, writes)
    BY DEF Resolve, PointerCommitted, FlushFails, ptrVars
  <1>2. Committing
    BY DEF Resolve, Committing
  <1>3. u \in updates /\ x \in updates /\ u.pos \in Nat /\ x.pos \in Nat
    BY <1>1, <1>2 DEF StorageInv, CommitInv, TypeOK, Update
  <1>4. u.pos <= x.pos /\ x.pos <= u.pos
    BY <1>1 DEF IsFirst
  <1>5. u.pos = x.pos
    BY <1>3, <1>4, SMT
  <1>6. u = x
    BY <1>3, <1>5 DEF StorageInv, ListInv
  <1> QED
    BY <1>1, <1>6

LEMMA RemoteOvertaken ==
    ASSUME StorageInv, LineageInv, RemoteInv, NEW w \in Writers, NEW k \in Keys, OtherDevice(w, k)
    PROVE  RemoteInv'
  <1> SUFFICES ASSUME pc' = "recas", NEW u \in writes', IsFirst(u, writes'),
                      ptr'[u.writer].target = remote'.target
               PROVE  ptr'[u.writer] = remote'
    BY DEF RemoteInv
  <1>1. UNCHANGED <<pc, writes, remote>>
    BY DEF OtherDevice, flushVars
  <1>2. ptr'[w].target[k] > Len(history) /\ \A x \in Writers : x # w => ptr'[x] = ptr[x]
    BY OtherForward
  <1>3. u \in writes /\ IsFirst(u, writes) /\ pc = "recas"
    BY <1>1 DEF IsFirst
  <1>4. TypeOK /\ u.writer \in Writers /\ Len(history) \in Nat
    BY <1>3, ListType DEF StorageInv, TypeOK, Update
  <1>5. u.writer # w
    <2>1. Placed(u.writer, remote.target)
      BY <1>3 DEF LineageInv, FlushInv
    <2>2. remote.target[k] \in 0..Len(history)
      BY <1>4, <2>1, PlacedRange
    <2>3. ~(remote.target[k] > Len(history))
      BY <1>4, <2>2, SMT
    <2> QED
      BY <1>1, <1>2, <2>3
  <1> QED
    BY <1>1, <1>2, <1>3, <1>4, <1>5 DEF RemoteInv

-----------------------------------------------------------------------------
(* The steps. *)

LEMMA SequenceFrom ==
    ASSUME StorageInv, StorageInv', LineageInv, LineageInv', SequenceInv, LogGrows,
           \A w \in Writers : Moves(w), landed' \subseteq landed \cup OnServer(ptr'),
           ListsInStep', RemoteInv'
    PROVE  SequenceInv'
  <1>1. /\ TypeOK /\ TypeOK' /\ HistoryInv /\ HistoryInv' /\ ServerInv /\ LandedInv
    BY DEF StorageInv, LineageInv, SequenceInv
  <1>2. LandedInv'
    BY <1>1, LandedKept
  <1> QED
    BY <1>2 DEF SequenceInv

LEMMA FlushForward ==
    ASSUME CountingFacts, StorageInv, LineageInv, SequenceInv, FlushStep
    PROVE  Forward /\ landed' \subseteq landed \cup OnServer(ptr')
  <1>1. InStep(updates)
    BY DEF SequenceInv, ListsInStep
  <1>2. ASSUME ptr' = ptr, landed' = landed PROVE Forward /\ landed' \subseteq landed \cup OnServer(ptr')
    BY <1>2, StandsForward DEF Forward
  <1>3. CASE (\E o \in Owners : NextOwner(o)) \/ FlushDone \/ BulkNothing
    <2>1. ptr' = ptr /\ landed' = landed
      BY <1>3 DEF NextOwner, FlushDone, BulkNothing, serverVars, ptrVars
    <2> QED
      BY <1>2, <2>1
  <1>4. CASE BulkUnimplemented \/ BulkDeferred
    <2>1. ptr' = ptr /\ landed' = landed
      BY <1>4 DEF BulkUnimplemented, BulkDeferred, ptrVars
    <2> QED
      BY <1>2, <2>1
  <1>5. CASE BulkCall \/ BulkLost
    <2>1. CASE BulkApplied
      <3>1. landed' = landed \cup OnServer(ptr')
        BY <2>1 DEF BulkApplied, SetPointers
      <3> QED
        BY <1>1, <2>1, <3>1, BulkForward
    <2>2. BulkApplied \/ (ptr' = ptr /\ landed' = landed)
      BY <1>5 DEF BulkCall, BulkLost, BulkRefused, serverVars, ptrVars
    <2> QED
      BY <1>2, <2>1, <2>2
  <1>6. CASE CommitBlocks \/ CommitBlocksLost \/ ResolveLost \/ PointersDone
    <2>1. ptr' = ptr /\ landed' = landed
      BY <1>6 DEF CommitBlocks, CommitBlocksLost, ResolveLost, PointersDone, serverVars, ptrVars
    <2> QED
      BY <1>2, <2>1
  <1>7. ASSUME NEW u \in writes, CommitPointer(u) \/ CommitPointerLost(u)
        PROVE  Forward /\ landed' \subseteq landed \cup OnServer(ptr')
    <2>1. Committing
      BY <1>7 DEF CommitPointer, CommitPointerLost, Committing
    <2>2. \/ CasOk(u.writer, u.original) /\ SetPointer(u.writer, u.updated, u.seq)
          \/ ptr' = ptr /\ landed' = landed
      BY <1>7 DEF CommitPointer, CommitPointerLost, ptrVars
    <2>3. CASE CasOk(u.writer, u.original) /\ SetPointer(u.writer, u.updated, u.seq)
      <3>1. landed' = landed \cup OnServer(ptr')
        BY <2>3 DEF SetPointer, SetPointers
      <3> QED
        BY <1>1, <2>1, <2>3, <3>1, SetForward
    <2> QED
      BY <1>2, <2>2, <2>3
  <1>8. ASSUME NEW u \in writes, CommitMerge(u) \/ CommitMergeLost(u)
        PROVE  Forward /\ landed' \subseteq landed \cup OnServer(ptr')
    <2>1. pc = "recas" /\ IsFirst(u, writes)
      BY <1>8 DEF CommitMerge, CommitMergeLost
    <2>2. PICK m, n : m = Merge(u.original, u.updated, remote.target) /\ n = remote.seq + 1
      OBVIOUS
    <2>3. \/ CasOk(u.writer, remote.target) /\ SetPointer(u.writer, m, n)
          \/ ptr' = ptr /\ landed' = landed
      BY <1>8, <2>2 DEF CommitMerge, CommitMergeLost, ptrVars
    <2>4. CASE CasOk(u.writer, remote.target) /\ SetPointer(u.writer, m, n)
      <3>1. landed' = landed \cup OnServer(ptr')
        BY <2>4 DEF SetPointer, SetPointers
      <3> QED
        BY <2>1, <2>2, <2>4, <3>1, MergeForward
    <2> QED
      BY <1>2, <2>3, <2>4
  <1>9. ASSUME NEW u \in writes, Resolve(u)
        PROVE  Forward /\ landed' \subseteq landed \cup OnServer(ptr')
    <2>1. ptr' = ptr /\ landed' = landed
      BY <1>9 DEF Resolve, ptrVars
    <2> QED
      BY <1>2, <2>1
  <1> QED
    BY <1>3, <1>4, <1>5, <1>6, <1>7, <1>8, <1>9 DEF FlushStep

(* What a flush does to the list: nothing, or it drops what is committed. *)
FlushDrops ==
    \/ updates' = {}
    \/ /\ updates' = updates \ OwnedBy(cur) /\ ~Idle /\ pc # "owner"

LEMMA FlushLists ==
    ASSUME FlushStep
    PROVE  /\ UNCHANGED <<cps, history>>
           /\ UNCHANGED <<updates, generation>> \/ FlushDrops
  <1>1. ASSUME NEW o \in Owners, NextOwner(o)
        PROVE  UNCHANGED <<cps, history, updates, generation>>
    BY <1>1 DEF NextOwner, callerVars, notFlushVars, ghostVars
  <1>2. CASE FlushDone
    BY <1>2 DEF FlushDone, FlushDrops, GoTo, callerVars, notFlushVars, ghostVars
  <1>3. CASE BulkNothing \/ PointersDone
    <2>1. UNCHANGED <<cps, history>> /\ updates' = updates \ OwnedBy(cur) /\ pc \in {"bulk", "ptrs"}
      BY <1>3 DEF BulkNothing, BulkDone, PointersDone, OwnerDone, FlushFails, callerVars,
                  notFlushVars, ghostVars
    <2> QED
      BY <2>1 DEF FlushDrops, Idle
  <1>4. CASE BulkUnimplemented \/ BulkDeferred
    BY <1>4 DEF BulkUnimplemented, BulkDeferred, GoTo, FlushFails, callerVars, notFlushVars, ghostVars
  <1>5. CASE BulkCall
    <2>1. UNCHANGED <<cps, history>> /\ (UNCHANGED <<updates, generation>> \/ BulkDone)
      BY <1>5 DEF BulkCall, GoTo, FlushFails, BulkDone, OwnerDone, callerVars, notFlushVars, ghostVars
    <2>2. pc \in {"bulk", "last"}
      BY <1>5 DEF BulkCall, BulkCalling
    <2> QED
      BY <2>1, <2>2 DEF BulkDone, FlushDrops, Idle
  <1>6. CASE BulkLost \/ CommitBlocksLost \/ ResolveLost
    BY <1>6 DEF BulkLost, CommitBlocksLost, ResolveLost, FlushFails, notFlushVars, ghostVars
  <1>7. CASE CommitBlocks
    BY <1>7 DEF CommitBlocks, callerVars, notFlushVars, ghostVars
  <1>8. ASSUME NEW u \in writes, CommitPointer(u) \/ CommitPointerLost(u)
        PROVE  UNCHANGED <<cps, history, updates, generation>>
    BY <1>8 DEF CommitPointer, CommitPointerLost, PointerCommitted, GoTo, callerVars, notFlushVars, ghostVars
  <1>9. ASSUME NEW u \in writes, CommitMerge(u) \/ CommitMergeLost(u) \/ Resolve(u)
        PROVE  UNCHANGED <<cps, history, updates, generation>>
    BY <1>9 DEF CommitMerge, CommitMergeLost, Resolve, PointerCommitted, FlushFails, callerVars,
           notFlushVars, ghostVars
  <1> QED
    BY <1>1, <1>2, <1>3, <1>4, <1>5, <1>6, <1>7, <1>8, <1>9 DEF FlushStep

LEMMA FlushRemote ==
    ASSUME StorageInv, FlushStep
    PROVE  RemoteInv'
  <1>1. ASSUME NEW u \in writes, Resolve(u) PROVE RemoteInv'
    BY <1>1, RemoteRead
  <1>2. CASE (\E o \in Owners : NextOwner(o)) \/ FlushDone \/ BulkNothing
    <2>1. pc' # "recas"
      BY <1>2 DEF NextOwner, FlushDone, BulkNothing, BulkDone, OwnerDone, GoTo
    <2> QED
      BY <2>1, RemoteElsewhere
  <1>3. CASE BulkUnimplemented \/ BulkDeferred \/ BulkCall \/ BulkLost
    <2>1. pc' # "recas"
      BY <1>3 DEF BulkUnimplemented, BulkDeferred, BulkCall, BulkLost, BulkDone, OwnerDone,
                  FlushFails, GoTo
    <2> QED
      BY <2>1, RemoteElsewhere
  <1>4. CASE CommitBlocks \/ CommitBlocksLost \/ PointersDone \/ ResolveLost
    <2>1. pc' # "recas"
      BY <1>4 DEF CommitBlocks, CommitBlocksLost, PointersDone, ResolveLost, OwnerDone, FlushFails
    <2> QED
      BY <2>1, RemoteElsewhere
  <1>5. ASSUME NEW u \in writes,
               CommitPointer(u) \/ CommitPointerLost(u) \/ CommitMerge(u) \/ CommitMergeLost(u)
        PROVE  RemoteInv'
    <2>1. pc' # "recas"
      BY <1>5 DEF CommitPointer, CommitPointerLost, CommitMerge, CommitMergeLost, PointerCommitted,
                  FlushFails, GoTo
    <2> QED
      BY <2>1, RemoteElsewhere
  <1> QED
    BY <1>1, <1>2, <1>3, <1>4, <1>5 DEF FlushStep

LEMMA FlushSequence ==
    ASSUME CountingFacts, StorageInv, StorageInv', LineageInv, LineageInv', SequenceInv, FlushStep,
           \A w \in Writers : Moves(w)
    PROVE  SequenceInv' /\ \A w \in Writers : Advances(w)
  <1>1. Forward /\ landed' \subseteq landed \cup OnServer(ptr')
    BY FlushForward
  <1>2. UNCHANGED <<cps, history>> /\ (UNCHANGED <<updates, generation>> \/ FlushDrops)
    BY FlushLists
  <1>3. TypeOK /\ HistoryInv /\ ListsInStep /\ LogGrows /\ RemoteInv'
    BY <1>2, SameLog, FlushRemote DEF StorageInv, LineageInv, SequenceInv
  <1>4. ListsInStep'
    <2>1. CASE UNCHANGED <<updates, generation>>
      <3>1. RestoresSame(Len(cps'))
        BY <1>2, <2>1, BackSame
      <3> QED
        BY <1>1, <1>3, <2>1, <3>1, ListsSame DEF Steady
    <2>2. CASE updates' = {}
      BY <1>1, <1>3, <2>2, ListsGone
    <2>3. CASE updates' = updates \ OwnedBy(cur) /\ ~Idle /\ pc # "owner"
      <3>1. \A u \in updates, x \in updates' : u.writer = x.writer => u \in updates'
        BY <2>3 DEF OwnedBy
      <3>2. updates' = {} \/ Len(cps') = 0
        <4>1. CASE cps = <<>>
          BY <1>2, <4>1, SMT
        <4>2. CASE cps # <<>>
          BY <1>3, <2>3, <4>2, OneOwner
        <4> QED
          BY <4>1, <4>2
      <3> QED
        BY <1>1, <1>3, <2>3, <3>1, <3>2, ListsGone
    <2> QED
      BY <1>2, <2>1, <2>2, <2>3 DEF FlushDrops
  <1> QED
    BY <1>1, <1>3, <1>4, SequenceFrom DEF Forward

LEMMA SequenceInit ==
    ASSUME Init
    PROVE  SequenceInv
  <1>1. landed = {} /\ updates = {} /\ cps = <<>> /\ pc = "idle"
    BY DEF Init
  <1>2. 1..Len(cps) = {}
    BY <1>1, SMT
  <1>3. ListsInStep
    BY <1>1, <1>2 DEF ListsInStep, Linked, InStep
  <1>4. LandedInv /\ RemoteInv
    BY <1>1 DEF LandedInv, RemoteInv
  <1> QED
    BY <1>3, <1>4 DEF SequenceInv

(* A step that leaves the server alone. *)
AtHome ==
    /\ StorageInv /\ StorageInv' /\ LineageInv /\ LineageInv' /\ SequenceInv
    /\ LogGrows /\ UNCHANGED <<ptr, landed>> /\ RemoteInv'

LEMMA HomeFacts ==
    ASSUME AtHome
    PROVE  /\ StorageInv /\ StorageInv' /\ LineageInv /\ LineageInv' /\ ListsInStep
           /\ LogGrows /\ Forward /\ ptr' = ptr
           /\ \A n : RestoresSame(n) => Steady(n)
  <1>1. Forward
    BY StandsForward DEF AtHome, Forward
  <1> QED
    BY <1>1 DEF AtHome, SequenceInv, Steady

LEMMA HomeSequence ==
    ASSUME AtHome, ListsInStep'
    PROVE  SequenceInv' /\ \A w \in Writers : Advances(w)
  <1>1. TypeOK /\ TypeOK' /\ HistoryInv /\ HistoryInv' /\ ServerInv /\ LogGrows /\ ptr' = ptr
    BY DEF AtHome, StorageInv, LineageInv
  <1>2. \A w \in Writers : Moves(w)
    BY <1>1, NoMove
  <1>3. landed' \subseteq landed \cup OnServer(ptr')
    BY DEF AtHome
  <1>4. SequenceInv'
    BY <1>2, <1>3, SequenceFrom DEF AtHome
  <1> QED
    BY <1>1, <1>4 DEF Advances

LEMMA QuietSequence ==
    ASSUME AtHome, UNCHANGED <<updates, generation>>,
           \A i \in 1..Len(cps') : i \in 1..Len(cps) /\ cps'[i] = cps[i]
    PROVE  SequenceInv' /\ \A w \in Writers : Advances(w)
  <1>1. Steady(Len(cps'))
    BY BackSame, HomeFacts
  <1> QED
    BY <1>1, ListsSame, HomeSequence

LEMMA StutterSequence ==
    ASSUME StorageInv, StorageInv', LineageInv, LineageInv', SequenceInv, UNCHANGED vars
    PROVE  SequenceInv' /\ \A w \in Writers : Advances(w)
  <1>1. UNCHANGED <<ptr, landed, history, updates, generation, cps, pc, writes, remote>>
    BY DEF vars, serverVars, ptrVars, flushVars, callerVars, ghostVars
  <1>2. LogGrows
    BY <1>1, SameLog DEF StorageInv, LineageInv
  <1>3. RemoteInv'
    BY <1>1 DEF SequenceInv, RemoteInv, IsFirst
  <1>4. AtHome
    BY <1>1, <1>2, <1>3 DEF AtHome
  <1> QED
    BY <1>1, <1>4, QuietSequence

LEMMA IdleHome ==
    ASSUME StorageInv, StorageInv', LineageInv, LineageInv', SequenceInv,
           UNCHANGED <<ptr, landed, history>>, pc' # "recas"
    PROVE  AtHome
  <1>1. LogGrows
    BY SameLog DEF StorageInv, LineageInv
  <1> QED
    BY <1>1, RemoteElsewhere DEF AtHome

LEMMA CommitSequence ==
    ASSUME StorageInv, StorageInv', LineageInv, LineageInv', SequenceInv,
           (\E o \in Owners : Commit(o)) \/ (\E b \in BOOLEAN : SetSafe(b)) \/ EndUpdate
    PROVE  SequenceInv' /\ \A w \in Writers : Advances(w)
  <1>1. UNCHANGED <<ptr, landed, history, updates, generation>> /\ pc' # "recas"
    BY DEF Commit, SetSafe, EndUpdate, StartFlush, Idle, serverVars, ptrVars, ghostVars, flushVars
  <1>2. cps' = cps \/ (cps # <<>> /\ DropCheckpoint)
    BY DEF Commit, SetSafe, EndUpdate, callerVars
  <1>3. \A i \in 1..Len(cps') : i \in 1..Len(cps) /\ cps'[i] = cps[i]
    BY <1>2, DropFacts DEF StorageInv
  <1> QED
    BY <1>1, <1>3, IdleHome, QuietSequence

LEMMA ClearSequence ==
    ASSUME StorageInv, StorageInv', LineageInv, LineageInv', SequenceInv, ForceClear
    PROVE  SequenceInv' /\ \A w \in Writers : Advances(w)
  <1>1. UNCHANGED <<ptr, landed, history>> /\ pc' # "recas" /\ updates' = {}
    BY DEF ForceClear, Idle, serverVars, ptrVars, flushVars
  <1>2. AtHome
    BY <1>1, IdleHome
  <1>3. ListsInStep'
    BY <1>1, <1>2, HomeFacts, ListsGone
  <1> QED
    BY <1>2, <1>3, HomeSequence

LEMMA BeginSequence ==
    ASSUME StorageInv, StorageInv', LineageInv, LineageInv', SequenceInv, BeginUpdate,
           NEW n \in Nat, Len(cps') = n + 1, RestoresSame(n), RolledBack(cps[n + 1])' = updates
    PROVE  SequenceInv' /\ \A w \in Writers : Advances(w)
  <1>1. UNCHANGED <<ptr, landed, history>> /\ pc' # "recas" /\ updates' = updates
    BY DEF BeginUpdate, Idle, serverVars, ptrVars, flushVars, ghostVars
  <1>2. AtHome
    BY <1>1, IdleHome
  <1>3. ListsInStep'
    BY <1>1, <1>2, HomeFacts, ListsBegun
  <1> QED
    BY <1>2, <1>3, HomeSequence

LEMMA FailSequence ==
    ASSUME StorageInv, StorageInv', LineageInv, LineageInv', SequenceInv, FailUpdate,
           RestoresSame(Len(cps'))
    PROVE  SequenceInv' /\ \A w \in Writers : Advances(w)
  <1>1. /\ UNCHANGED <<ptr, landed, history>> /\ pc' # "recas"
        /\ updates' = RolledBack(Innermost) /\ cps # <<>> /\ DropCheckpoint
    BY DEF FailUpdate, Idle, serverVars, ptrVars, flushVars
  <1>2. AtHome
    BY <1>1, IdleHome
  <1>3. Len(cps) \in Nat \ {0} /\ \A i \in 1..Len(cps') : i < Len(cps)
    BY <1>1, DropFacts DEF StorageInv
  <1>4. PICK n : n = Len(cps)
    OBVIOUS
  <1>5. n \in 1..Len(cps)
    BY <1>3, <1>4, SMT
  <1>6. updates' = RolledBack(cps[n]) /\ \A i \in 1..Len(cps') : i < n
    BY <1>1, <1>3, <1>4 DEF Innermost
  <1>7. ListsInStep'
    BY <1>2, <1>5, <1>6, HomeFacts, ListsBack
  <1> QED
    BY <1>2, <1>7, HomeSequence

LEMMA WriteSequence ==
    ASSUME CountingFacts, StorageInv, StorageInv', LineageInv, LineageInv', SequenceInv,
           NEW w \in Writers, NEW k \in Keys, Write(w, k), RestoresSame(Len(cps'))
    PROVE  SequenceInv' /\ \A x \in Writers : Advances(x)
  <1>1. UNCHANGED <<ptr, landed, discarded>> /\ pc' # "recas"
    BY DEF Write, Idle, StartFlush, flushVars, serverVars, ptrVars
  <1>2. PICK seen \in Seen(w) : \E root : Enters(w, k, seen, root)
    BY <1>1 DEF Write, Enters
  <1>3. LogGrows
    BY <1>2, WriteList DEF StorageInv
  <1>4. AtHome
    BY <1>1, <1>3, RemoteElsewhere DEF AtHome
  <1>5. ListsInStep'
    BY <1>1, <1>2, <1>4, HomeFacts, ListsWritten
  <1> QED
    BY <1>4, <1>5, HomeSequence

LEMMA OtherSequence ==
    ASSUME StorageInv, StorageInv', LineageInv, LineageInv', SequenceInv,
           NEW w \in Writers, NEW k \in Keys, OtherDevice(w, k), \A x \in Writers : Moves(x)
    PROVE  SequenceInv' /\ \A x \in Writers : Advances(x)
  <1>1. UNCHANGED <<updates, generation, cps>> /\ landed' = landed \cup OnServer(ptr')
    BY DEF OtherDevice, callerVars, SetPointer, SetPointers
  <1>2. Forward
    BY OtherForward
  <1>3. LogGrows
    <2>1. TypeOK /\ HistoryInv /\ ServerInv
      BY DEF StorageInv, LineageInv
    <2>2. PICK t, old : /\ t = TreeOf(ptr[w].target) /\ old = t[k] /\ Placed(w, t)
                        /\ NewVersion(w, k, old, FALSE)
      BY <2>1 DEF ServerInv, OtherDevice
    <2>3. old \in 0..Len(history)
      BY <2>1, <2>2, PlacedRange
    <2>4. old # 0 => history[old].writer = w /\ history[old].key = k
      BY <2>2 DEF Placed
    <2> QED
      BY <2>1, <2>2, <2>3, <2>4, NewVersionFacts
  <1>4. RestoresSame(Len(cps'))
    BY <1>1, BackSame
  <1>5. ListsInStep'
    BY <1>1, <1>2, <1>3, <1>4, ListsSame DEF Steady, SequenceInv
  <1>6. RemoteInv'
    BY RemoteOvertaken DEF SequenceInv
  <1> QED
    BY <1>1, <1>2, <1>3, <1>5, <1>6, SequenceFrom DEF Forward

=============================================================================
