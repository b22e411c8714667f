----------------------- MODULE BufferedPromisesProofs -----------------------
(* What BufferedNetwork promises, for every value of the constants: what is  *)
(* stored and buffered stays usable; what we wrote is on the server,         *)
(* buffered, overwritten or given up; a rollback brings nothing back; writes *)
(* land in order; the sequence of a pointer only grows; and nothing another  *)
(* device published is overwritten unseen.                                   *)
EXTENDS BufferedStorageProofs, BufferedFlushProofs, BufferedCallerProofs, BufferedSequenceProofs,
        FiniteSetTheorems

USE Zenon

-----------------------------------------------------------------------------
(* Counting the entries of a list. *)

(* A nonempty set of naturals has a least element. *)
LEMMA MinExists ==
    ASSUME NEW S \in SUBSET Nat, S # {}
    PROVE  \E m \in S : \A x \in S : m <= x
  <1> DEFINE Less == OpToRel(<, Nat)
  <1>1. IsWellFoundedOn(Less, Nat)
    BY NatLessThanWellFounded
  <1>2. \A x, y \in Nat : x < y => <<x, y>> \in Less
    BY DEF OpToRel
  <1> HIDE DEF Less
  <1>3. PICK m \in S : \A x \in S : ~(<<x, m>> \in Less)
    BY <1>1, WFMin
  <1>4. \A x \in S : ~(x < m)
    BY <1>2, <1>3
  <1> QED
    BY <1>4, SMT

LEMMA LastExists ==
    ASSUME NEW list \in SUBSET Update, list # {}, NEW n \in Nat, \A u \in list : u.pos <= n
    PROVE  LastOf(list) # {}
  <1> DEFINE S == {n - u.pos : u \in list}
  <1>0. \A u \in list : u.pos \in Nat
    BY DEF Update
  <1>1. S \in SUBSET Nat /\ S # {}
    BY <1>0, SMT
  <1>2. PICK m \in S : \A x \in S : m <= x
    BY <1>1, MinExists
  <1>3. PICK u \in list : n - u.pos = m
    OBVIOUS
  <1>4. ASSUME NEW x \in list PROVE x.pos <= u.pos
    <2>1. m <= n - x.pos
      BY <1>2
    <2> QED
      BY <1>0, <1>3, <2>1, SMT
  <1> QED
    BY <1>4 DEF LastOf

LEMMA FirstExists ==
    ASSUME NEW list \in SUBSET Update, list # {}
    PROVE  \E u \in list : IsFirst(u, list)
  <1> DEFINE S == {u.pos : u \in list}
  <1>1. S \in SUBSET Nat /\ S # {}
    BY DEF Update
  <1>2. PICK m \in S : \A x \in S : m <= x
    BY <1>1, MinExists
  <1>3. PICK u \in list : u.pos = m
    OBVIOUS
  <1> QED
    BY <1>2, <1>3 DEF IsFirst

(* Truncating to the number of entries up to a position leaves those entries. *)
LEMMA TruncatePart ==
    ASSUME NEW list \in SUBSET Update, IsFiniteSet(list), NEW s \in Nat
    PROVE  Truncate(list, Cardinality(Part(list, s))) = Part(list, s)
  <1> DEFINE P == Part(list, s)
             Upto(u) == {x \in list : x.pos <= u.pos}
  <1>0. \A u \in list : u.pos \in Nat
    BY DEF Update
  <1>1. IsFiniteSet(P) /\ Cardinality(P) \in Nat /\ P \subseteq list
    <2>1. P \subseteq list
      BY DEF Part
    <2>2. IsFiniteSet(P)
      BY <2>1, FS_Subset, SMT
    <2> QED
      BY <2>1, <2>2, FS_CardinalityType, SMT
  <1>2. ASSUME NEW u \in P PROVE Cardinality(Upto(u)) <= Cardinality(P)
    <2>1. Upto(u) \subseteq P
      BY <1>0, SMT DEF Part
    <2> QED
      BY <1>1, <2>1, FS_Subset, SMT
  <1>3. ASSUME NEW u \in list \ P PROVE ~(Cardinality(Upto(u)) <= Cardinality(P))
    <2>1. P \cup {u} \subseteq Upto(u) /\ Upto(u) \subseteq list
      BY <1>0, SMT DEF Part
    <2>2. Cardinality(P \cup {u}) = Cardinality(P) + 1
      <3>1. u \notin P
        OBVIOUS
      <3> HIDE DEF P
      <3> QED
        BY <1>1, <3>1, FS_AddElement
    <2>3. IsFiniteSet(Upto(u))
      BY <2>1, FS_Subset
    <2>4. Cardinality(P \cup {u}) <= Cardinality(Upto(u)) /\ Cardinality(Upto(u)) \in Nat
      BY <2>1, <2>3, FS_Subset, FS_CardinalityType, SMT
    <2> QED
      BY <1>1, <2>2, <2>4, SMT
  <1> QED
    BY <1>1, <1>2, <1>3, SMT DEF Truncate

(* Advancing the last entry leaves the count. *)
LEMMA AdvancedCount ==
    ASSUME NEW list \in SUBSET Update, IsFiniteSet(list), Ordered(list),
           NEW l \in LastOf(list), NEW root \in Tree
    PROVE  Cardinality(Advanced(list, l, root)) = Cardinality(list)
  <1> DEFINE rest == list \ {l}
             m == [l EXCEPT !.updated = root]
             new == rest \cup {m}
  <1>1. l \in list /\ l \in Update /\ m \in Update /\ m.pos = l.pos /\ l.pos \in Nat
    BY DEF LastOf, Update
  <1>2. \A x \in rest : x.pos \in Nat /\ x.pos < l.pos
    <2> TAKE x \in rest
    <2>1. x \in list /\ x # l /\ x.pos \in Nat
      BY DEF Update
    <2>2. x.pos <= l.pos
      BY <2>1 DEF LastOf
    <2>3. x.pos # l.pos
      BY <1>1, <2>1 DEF Ordered
    <2> QED
      BY <1>1, <2>1, <2>2, <2>3, SMT
  <1>3. m \notin rest
    <2> SUFFICES ASSUME m \in rest PROVE FALSE
      OBVIOUS
    <2>1. m.pos < l.pos
      BY <1>2
    <2> QED
      BY <1>1, <2>1, SMT
  <1>4. Cardinality(new) = Cardinality(list)
    <2>1. Cardinality(rest) = Cardinality(list) - 1 /\ IsFiniteSet(rest) /\ Cardinality(list) \in Nat
      BY <1>1, FS_RemoveElement, FS_CardinalityType
    <2>2. Cardinality(new) = Cardinality(rest) + 1
      <3> HIDE DEF rest, m
      <3> QED
        BY <1>3, <2>1, FS_AddElement
    <2> QED
      BY <2>1, <2>2, SMT
  <1> QED
    BY <1>4 DEF Advanced

LEMMA CountingHolds == CountingFacts
  <1>1. ASSUME NEW list \in SUBSET Update, IsFiniteSet(list)
        PROVE  /\ Cardinality(list) \in Nat
               /\ \A part \in SUBSET list : IsFiniteSet(part)
               /\ \A u \in Update : IsFiniteSet(list \cup {u})
    BY <1>1, FS_CardinalityType, FS_Subset, FS_AddElement, SMT
  <1>2. ASSUME NEW list \in SUBSET Update, IsFiniteSet(list)
        PROVE  \A s \in Nat : Truncate(list, Cardinality(Part(list, s))) = Part(list, s)
    BY <1>2, TruncatePart
  <1>3. ASSUME NEW list \in SUBSET Update, IsFiniteSet(list), Ordered(list)
        PROVE  \A l \in LastOf(list), root \in Tree :
                  Cardinality(Advanced(list, l, root)) = Cardinality(list)
    BY <1>3, AdvancedCount
  <1>4. ASSUME NEW list \in SUBSET Update, list # {}
        PROVE  /\ \E u \in list : IsFirst(u, list)
               /\ \A n \in Nat : (\A u \in list : u.pos <= n) => LastOf(list) # {}
    BY <1>4, FirstExists, LastExists, SMT
  <1>5. IsFiniteSet({})
    BY FS_EmptySet
  <1> QED
    BY <1>1, <1>2, <1>3, <1>4, <1>5, SMT DEF CountingFacts

-----------------------------------------------------------------------------
(* What is stored and what is buffered. *)

(* The inductive invariant holds of every behaviour of the commit layer. *)
THEOREM StorageAlways == Spec => []StorageInv
  <1>1. Init => StorageInv
    BY CountingHolds, StorageInit
  <1>2. StorageInv /\ [Next]_vars => StorageInv'
    BY CountingHolds, StorageStep
  <1> QED
    BY <1>1, <1>2, PTL DEF Spec

(* Type correctness, for every value of the constants. *)
THEOREM TypesAlways == Spec => []TypeOK
  <1>1. StorageInv => TypeOK
    BY SMT DEF StorageInv
  <1> QED
    BY <1>1, StorageAlways, PTL

(* Whatever calls fail, whatever is rolled back, cleared or merged, and      *)
(* however another device interleaves, a pointer on the server names a root  *)
(* all of whose blocks are there.                                            *)
THEOREM PointersAlwaysComplete == Spec => []PointersComplete
  <1>1. StorageInv => PointersComplete
    BY SMT DEF StorageInv
  <1> QED
    BY <1>1, StorageAlways, PTL

(* Neither commit_blocks nor the clear at the end of flush takes a block     *)
(* from an update that is still buffered, or from one that a rollback can    *)
(* bring back.                                                               *)
THEOREM BufferedAlwaysAvailable == Spec => []BufferedAvailable
  <1>1. StorageInv => BufferedAvailable
    BY DEF StorageInv
  <1> QED
    BY <1>1, StorageAlways, PTL

-----------------------------------------------------------------------------
(* Where the versions are. *)

LEMMA LineageStep ==
    ASSUME ~AnyCheckpoint, StorageInv, StorageInv', LineageInv, [Next]_vars
    PROVE  LineageInv'
  <1>1. CountingFacts
    BY CountingHolds
  <1>2. ASSUME NEW e \in Entries, Write(e[1], e[2]) \/ OtherDevice(e[1], e[2])
        PROVE  LineageInv'
    <2>1. e[1] \in Writers /\ e[2] \in Keys
      BY OwnersAssumption
    <2> QED
      BY <1>1, <1>2, <2>1, WriteLineage, OtherDeviceLineage, SMT
  <1>3. CASE FlushStep
    BY <1>1, <1>3, FlushLineage, SMT
  <1>4. CASE (\E o \in Owners : Commit(o)) \/ (\E b \in BOOLEAN : SetSafe(b))
    BY <1>4, CommitLineage, SetSafeLineage, SMT
  <1>5. CASE ForceClear \/ BeginUpdate \/ EndUpdate \/ FailUpdate
    BY <1>1, <1>5, ForceClearLineage, BeginUpdateLineage, EndUpdateLineage, FailUpdateLineage, SMT
  <1>6. CASE UNCHANGED vars
    BY <1>6, LineageStutters
  <1> QED
    BY <1>2, <1>3, <1>4, <1>5, <1>6, SMT DEF Next

(* Checkpoints are taken when one owner is written to, as the callers in     *)
(* this repository do. *)

(* Where every version may be found, and that all of ours are: the inductive *)
(* invariant of the commit layer.                                            *)
THEOREM LineageAlways == ~AnyCheckpoint => (Spec => []LineageInv)
  <1> SUFFICES ASSUME ~AnyCheckpoint PROVE Spec => []LineageInv
    OBVIOUS
  <1>1. Init => LineageInv
    BY LineageInit
  <1>2. StorageInv /\ StorageInv' /\ LineageInv /\ [Next]_vars => LineageInv'
    BY LineageStep
  <1> QED
    BY <1>1, <1>2, StorageAlways, PTL DEF Spec

(* Nothing buffered is dropped silently by a flush, a merge, a rollback or a *)
(* failure: what we wrote is on the server, buffered, overwritten by us, or  *)
(* given up.                                                                 *)
THEOREM UpdatesAlwaysKept == ~AnyCheckpoint => (Spec => []UpdatesKept)
  <1>1. TypeOK /\ LineageInv => UpdatesKept
    BY KeptImplies
  <1> QED
    BY <1>1, TypesAlways, LineageAlways, PTL

(* A rollback leaves no version it gave up in the buffer, and no update ever *)
(* names a root of another writer.                                           *)
THEOREM RollbacksDiscard == ~AnyCheckpoint => (Spec => []RollbackDiscards)
  <1>1. LineageInv => RollbackDiscards
    BY DiscardsImplies, SMT
  <1> QED
    BY <1>1, LineageAlways, PTL

(* Writes to one owner's space land in the order they were made. *)
THEOREM WritesLandInOrder == ~AnyCheckpoint => (Spec => []WriteOrder)
  <1>1. TypeOK /\ LineageInv => WriteOrder
    BY OrderImplies
  <1> QED
    BY <1>1, TypesAlways, LineageAlways, PTL

-----------------------------------------------------------------------------
(* The sequences of the pointers. *)

LEMMA SequenceStep ==
    ASSUME StorageInv, StorageInv', LineageInv, LineageInv', SequenceInv, [Next]_vars
    PROVE  SequenceInv' /\ \A w \in Writers : Advances(w)
  <1>1. CountingFacts
    BY CountingHolds
  <1>2. ASSUME NEW e \in Entries, Write(e[1], e[2]) \/ OtherDevice(e[1], e[2])
        PROVE  SequenceInv' /\ \A w \in Writers : Advances(w)
    <2>1. PICK w \in Writers, k \in Keys : w = e[1] /\ k = e[2]
      BY OwnersAssumption
    <2>2. CASE Write(w, k)
      <3>1. RestoresSame(Len(cps'))
        BY <1>1, <2>2, WriteLineage
      <3> QED
        BY <1>1, <2>2, <3>1, WriteSequence
    <2>3. CASE OtherDevice(w, k)
      <3>1. \A x \in Writers : Moves(x)
        BY <2>3, OtherDeviceLineage
      <3> QED
        BY <2>3, <3>1, OtherSequence
    <2> QED
      BY <1>2, <2>1, <2>2, <2>3
  <1>3. CASE FlushStep
    <2>1. \A w \in Writers : Moves(w)
      BY <1>1, <1>3, FlushPublishes
    <2> QED
      BY <1>1, <1>3, <2>1, FlushSequence
  <1>4. CASE (\E o \in Owners : Commit(o)) \/ (\E b \in BOOLEAN : SetSafe(b)) \/ EndUpdate
    BY <1>4, CommitSequence
  <1>5. CASE ForceClear
    BY <1>5, ClearSequence
  <1>6. CASE BeginUpdate
    <2>1. PICK cp \in Checkpoint : Begins(cp)
      BY <1>1, <1>6, BeginRestores
    <2>2. PICK n \in Nat : /\ Len(cps') = n + 1 /\ RestoresSame(n)
                           /\ RolledBack(cps[n + 1])' = updates
      BY <1>6, <2>1, BeginRestoresSame
    <2> QED
      BY <1>6, <2>2, BeginSequence
  <1>7. CASE FailUpdate
    <2>1. RestoresSame(Len(cps'))
      BY <1>1, <1>7, FailUpdateLineage
    <2> QED
      BY <1>7, <2>1, FailSequence
  <1>8. CASE UNCHANGED vars
    BY <1>8, StutterSequence
  <1> QED
    BY <1>2, <1>3, <1>4, <1>5, <1>6, <1>7, <1>8, SMT DEF Next

(* A pointer that stands where an update starts or ends is not ahead of that *)
(* update, for every update that is buffered or that a rollback restores:    *)
(* the inductive invariant of the sequences.                                 *)
THEOREM SequenceAlways == ~AnyCheckpoint => (Spec => []SequenceInv)
  <1>1. Init => SequenceInv
    BY SequenceInit
  <1>2. StorageInv /\ StorageInv' /\ LineageInv /\ LineageInv' /\ SequenceInv /\ [Next]_vars
            => SequenceInv'
    BY SequenceStep
  <1> QED
    BY <1>1, <1>2, StorageAlways, LineageAlways, PTL DEF Spec

(* Whenever a pointer changes, by a commit, a merge, a bulk commit, a retry  *)
(* of a call whose answer was lost, or by another device, its sequence       *)
(* grows.                                                                    *)
THEOREM SequencesAlwaysAdvance == ~AnyCheckpoint => (Spec => SequencesAdvance)
  <1>1. StorageInv /\ StorageInv' /\ LineageInv /\ LineageInv' /\ SequenceInv /\ [Next]_vars
            => [\A w \in Writers : ptr'[w] # ptr[w] => ptr'[w].seq > ptr[w].seq]_vars
    BY SequenceStep DEF Advances
  <1> QED
    BY <1>1, StorageAlways, LineageAlways, SequenceAlways, PTL DEF Spec, SequencesAdvance

-----------------------------------------------------------------------------
(* The server implements SharedTree. *)

LEMMA SharedStep ==
    ASSUME StorageInv, StorageInv', LineageInv, LineageInv', [Next]_vars
    PROVE  [Shared!Next]_(Shared!vars)
  <1>1. CountingFacts
    BY CountingHolds
  <1>2. CASE FlushStep
    <2>1. TypeOK /\ TypeOK' /\ HistoryInv'
      BY DEF StorageInv, LineageInv
    <2>2. history' = history /\ \A w \in Writers : Moves(w)
      BY <1>1, <1>2, FlushPublishes, SMT
    <2> QED
      BY <2>1, <2>2, Publishes, SMT DEF Shared!Next, Shared!MakeEdit
  <1>3. CASE ~FlushStep
    BY <1>1, <1>3, CallerShared, SMT
  <1> QED
    BY <1>2, <1>3

(* No change another device published is overwritten unseen, by a commit, a  *)
(* merge, a retry of either or a bulk commit: what the server holds          *)
(* implements SharedTree.                                                    *)
THEOREM ServerImplementsSharedTree == ~AnyCheckpoint => (Spec => ImplementsSharedTree)
  <1>1. Init => Shared!Init
    BY SharedInit
  <1>2. StorageInv /\ StorageInv' /\ LineageInv /\ LineageInv' /\ [Next]_vars
            => [Shared!Next]_(Shared!vars)
    BY SharedStep
  <1> QED
    BY <1>1, <1>2, StorageAlways, LineageAlways, PTL DEF Spec, ImplementsSharedTree, Shared!Spec

=============================================================================
