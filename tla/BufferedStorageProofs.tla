----------------------- MODULE BufferedStorageProofs -----------------------
(* Proofs that the blocks a pointer needs are always on the server, and that *)
(* what is buffered can always be committed, however calls fail and however  *)
(* another device writes meanwhile.                                          *)
EXTENDS BufferedLineageProofs

USE Zenon

-----------------------------------------------------------------------------
(* Types. *)

LEMMA MergeLeaves ==
    ASSUME NEW b \in Tree, NEW o \in Tree, NEW t \in Tree
    PROVE  Leaves(Merge(b, o, t)) \subseteq Leaves(o) \cup Leaves(t)
  BY MergeType, SMT DEF Leaves

LEMMA NobodyType == Nobody \in Owners
  BY OwnersAssumption DEF Nobody

LEMMA TypeInit == Init => TypeOK
  <1> SUFFICES ASSUME Init PROVE TypeOK
    OBVIOUS
  <1>1. ptr \in [Writers -> Pointer] /\ remote \in Pointer
    BY TargetTree DEF Init, Pointer, Empty, Target
  <1>2. stRoots \subseteq Tree
    BY TargetTree DEF Init, Target
  <1>3. ownerOf \in [Writers -> Owners] /\ noBulk \subseteq Owners /\ cur \in Owners
    BY OwnersAssumption, NobodyType DEF Init
  <1>4. cps \in Seq(Checkpoint)
    BY SMT DEF Init
  <1>7. opErr \in BOOLEAN /\ safe \in BOOLEAN
    BY Zenon DEF Init
  <1>5. history \in Seq(Version)
    BY SMT DEF Init
  <1>6. pc \in FlushPcs /\ generation \in Nat /\ faults \in Nat
    BY DEF Init, FlushPcs
  <1> QED
    BY <1>1, <1>2, <1>3, <1>4, <1>5, <1>6, <1>7 DEF Init, TypeOK

(* What the server holds after a call. *)
LEMMA OwnedType ==
    ASSUME TypeOK, NEW list \in SUBSET updates
    PROVE  /\ ReachableRoots(list) \subseteq Tree /\ ReachableRoots(list) \subseteq bufRoots
           /\ Reachable(list) \subseteq Nat /\ Reachable(list) \subseteq bufLeaves
  <1>1. ReachableRoots(list) \subseteq bufRoots /\ Reachable(list) \subseteq bufLeaves
    BY DEF ReachableRoots, Reachable
  <1> QED
    BY <1>1 DEF TypeOK

LEMMA AfterBulkType ==
    ASSUME TypeOK, NEW list \in SUBSET updates
    PROVE  /\ AfterBulk(list) \in [Writers -> Pointer]
           /\ \A w \in Writers : \/ AfterBulk(list)[w] = ptr[w]
                                 \/ \E u \in list : AfterBulk(list)[w].target = u.updated
  <1>1. \A w \in Writers : Latest(list, w) # {} =>
            (CHOOSE u \in Latest(list, w) : TRUE) \in list
    BY DEF Latest
  <1>2. \A u \in list : u.updated \in Target /\ u.seq \in Nat
    BY DEF TypeOK, Update, Target
  <1>3. \A w \in Writers : AfterBulk(list)[w] \in Pointer
    BY <1>1, <1>2 DEF AfterBulk, TypeOK, Pointer
  <1> QED
    BY <1>1, <1>3 DEF AfterBulk

LEMMA AddWriteType ==
    ASSUME TypeOK, NEW w \in Writers, NEW seen \in Pointer, NEW root \in Tree
    PROVE  AddWrite(w, seen, root) \subseteq Update
  <1>1. [pos |-> Len(history) + 1, writer |-> w, original |-> seen.target,
         updated |-> root, seq |-> seen.seq + 1] \in Update
    BY SMT DEF TypeOK, Update, Pointer
  <1> QED
    BY <1>1, AdvanceType DEF AddWrite, TypeOK

(* Type correctness in the groups of variables that actions treat alike. *)
EnvOK    == ownerOf \in [Writers -> Owners] /\ noBulk \subseteq Owners /\ safe \in BOOLEAN

ServerOK == ptr \in [Writers -> Pointer] /\ landed \subseteq Nat
StoreOK  == stRoots \subseteq Tree /\ stLeaves \subseteq Nat

BufferOK == bufRoots \subseteq Tree /\ bufLeaves \subseteq Nat
ListOK   == updates \subseteq Update /\ generation \in Nat
FlushOK  == /\ pc \in FlushPcs /\ todo \subseteq Owners /\ cur \in Owners
            /\ writes \subseteq Update /\ remote \in Pointer

CallerOK == cps \in Seq(Checkpoint) /\ opErr \in BOOLEAN
GhostOK  == /\ history \in Seq(Version)
            /\ discarded \subseteq Nat
SmallOK  == bulkUnsupported \subseteq Owners /\ faults \in Nat

TypeParts == /\ EnvOK /\ ServerOK /\ StoreOK /\ BufferOK /\ ListOK
             /\ FlushOK /\ CallerOK /\ GhostOK /\ SmallOK

LEMMA TypesFromParts == TypeParts' => TypeOK'
  BY DEF TypeParts, TypeOK, EnvOK, ServerOK, StoreOK, BufferOK, ListOK, FlushOK,
         CallerOK, GhostOK, SmallOK

(* The ways a step of a flush ends. *)
LEMMA FlushTypes ==
    ASSUME TypeOK
    PROVE  /\ \A p \in FlushPcs : GoTo(p) => FlushOK' /\ CallerOK'
           /\ OwnerDone => FlushOK' /\ CallerOK'
           /\ FlushFails => FlushOK' /\ CallerOK'
           /\ \A u \in writes : PointerCommitted(u) => FlushOK' /\ CallerOK'
  <1>1. Empty \in Pointer
    BY TargetTree DEF Empty, Pointer, Target
  <1>2. ASSUME NEW p \in FlushPcs, GoTo(p) PROVE FlushOK' /\ CallerOK'
    BY <1>2 DEF GoTo, callerVars, TypeOK, FlushOK, CallerOK
  <1>3. ASSUME OwnerDone PROVE FlushOK' /\ CallerOK'
    BY <1>1, <1>3, NobodyType DEF OwnerDone, callerVars, TypeOK, FlushPcs, FlushOK, CallerOK
  <1>4. ASSUME FlushFails PROVE FlushOK' /\ CallerOK'
    <2>1. opErr' \in BOOLEAN
      BY <1>4, Zenon DEF FlushFails
    <2> QED
      BY <1>1, <1>4, <2>1, NobodyType DEF FlushFails, TypeOK, FlushPcs, FlushOK, CallerOK
  <1>5. ASSUME NEW u \in writes, PointerCommitted(u) PROVE FlushOK' /\ CallerOK'
    BY <1>1, <1>5 DEF PointerCommitted, callerVars, TypeOK, FlushPcs, FlushOK, CallerOK
  <1> QED
    BY <1>2, <1>3, <1>4, <1>5

(* The blocks a step of a flush takes from the buffer to the server. *)
LEMMA BlockTypes ==
    ASSUME TypeOK
    PROVE  /\ OwnedBy(cur) \subseteq updates
           /\ \A list \in SUBSET updates : /\ ReachableRoots(list) \subseteq Tree
                                           /\ Reachable(list) \subseteq Nat
           /\ \A r \in SUBSET Tree, l \in SUBSET Nat : StoreBlocks(r, l) => StoreOK'
  <1>1. OwnedBy(cur) \subseteq updates
    BY DEF OwnedBy
  <1>2. \A r \in SUBSET Tree, l \in SUBSET Nat : StoreBlocks(r, l) => StoreOK'
    BY DEF StoreBlocks, TypeOK, StoreOK
  <1> QED
    BY <1>1, <1>2 DEF ReachableRoots, Reachable, TypeOK

LEMMA BulkTypes ==
    ASSUME TypeOK
    PROVE  /\ BulkApplied => ServerOK' /\ StoreOK'
           /\ BulkRefused => ServerOK' /\ StoreOK'
  <1>1. ASSUME BulkApplied PROVE ServerOK'
    BY <1>1, BlockTypes, AfterBulkType, OnServerType
       DEF BulkApplied, SetPointers, ServerOK, TypeOK
  <1>2. ASSUME BulkApplied \/ BulkRefused PROVE StoreOK'
    BY <1>2, BlockTypes DEF BulkApplied, BulkRefused
  <1>3. ASSUME BulkRefused PROVE ServerOK'
    BY <1>3 DEF BulkRefused, ptrVars, ServerOK, TypeOK
  <1> QED
    BY <1>1, <1>2, <1>3

(* Variables that do not change keep their type. *)
LEMMA KeepTypes ==
    ASSUME TypeOK
    PROVE  /\ UNCHANGED notFlushVars => EnvOK' /\ GhostOK'
           /\ UNCHANGED envVars /\ UNCHANGED safe => EnvOK'
           /\ UNCHANGED ghostVars => GhostOK'
           /\ UNCHANGED ptrVars => ServerOK'
           /\ UNCHANGED <<stRoots, stLeaves>> => StoreOK'
           /\ UNCHANGED serverVars => ServerOK' /\ StoreOK'
           /\ UNCHANGED blockVars => BufferOK'
           /\ UNCHANGED <<updates, generation>> => ListOK'
           /\ UNCHANGED flushVars => FlushOK'
           /\ UNCHANGED callerVars => CallerOK'
           /\ UNCHANGED <<bulkUnsupported, faults>> => SmallOK'
           /\ UNCHANGED bulkUnsupported /\ Fault => SmallOK'
  <1> USE DEF TypeOK
  <1>1. UNCHANGED notFlushVars => EnvOK' /\ GhostOK'
    BY DEF notFlushVars, envVars, ghostVars, EnvOK, GhostOK
  <1>2. UNCHANGED envVars /\ UNCHANGED safe => EnvOK'
    BY DEF envVars, EnvOK
  <1>3. UNCHANGED ghostVars => GhostOK'
    BY DEF ghostVars, GhostOK
  <1>4. UNCHANGED ptrVars => ServerOK'
    BY DEF ptrVars, ServerOK
  <1>5. UNCHANGED <<stRoots, stLeaves>> => StoreOK'
    BY DEF StoreOK
  <1>6. UNCHANGED serverVars => ServerOK' /\ StoreOK'
    BY DEF serverVars, ptrVars, StoreOK, ServerOK
  <1>7. UNCHANGED blockVars => BufferOK'
    BY DEF blockVars, BufferOK
  <1>8. UNCHANGED <<updates, generation>> => ListOK'
    BY DEF ListOK
  <1>9. UNCHANGED flushVars => FlushOK'
    BY DEF flushVars, FlushOK
  <1>10. UNCHANGED callerVars => CallerOK'
    BY DEF callerVars, CallerOK
  <1>11. UNCHANGED <<bulkUnsupported, faults>> => SmallOK'
    BY DEF SmallOK
  <1>12. UNCHANGED bulkUnsupported /\ Fault => SmallOK'
    BY SMT DEF SmallOK, Fault
  <1> QED
    BY <1>1, <1>2, <1>3, <1>4, <1>5, <1>6, <1>7, <1>8, <1>9, <1>10, <1>11, <1>12

(* A merge is a root only because neither side of it is missing, which      *)
(* StorageInv says.                                                          *)
LEMMA TypeFlushStep == StorageInv /\ FlushStep => TypeOK'
  <1> SUFFICES ASSUME StorageInv, TypeOK, FlushStep PROVE TypeParts'
    BY TypesFromParts DEF StorageInv
  <1> USE DEF TypeParts
  <1>0. {"idle", "owner", "bulk", "last", "old", "ptrs", "resolve", "recas"} \subseteq FlushPcs
    BY DEF FlushPcs
  <1>1. CASE \E o \in Owners : NextOwner(o)
    <2>1. FlushOK'
      BY <1>1 DEF NextOwner, FlushOK, TypeOK, FlushPcs
    <2> QED
      BY <1>1, <2>1, KeepTypes DEF NextOwner
  <1>2. CASE FlushDone
    <2>1. BufferOK' /\ ListOK'
      BY <1>2, SMT DEF FlushDone, BufferOK, ListOK, TypeOK
    <2> QED
      BY <1>0, <1>2, <2>1, KeepTypes, FlushTypes DEF FlushDone
  <1>3. CASE BulkNothing
    <2>1. ListOK'
      BY <1>3, SMT DEF BulkNothing, BulkDone, ListOK, TypeOK
    <2> QED
      BY <1>3, <2>1, KeepTypes, FlushTypes DEF BulkNothing, BulkDone
  <1>4. CASE BulkUnimplemented
    <2>1. SmallOK'
      BY <1>4 DEF BulkUnimplemented, SmallOK, TypeOK
    <2>2. StoreOK'
      BY <1>4, BlockTypes DEF BulkUnimplemented
    <2> QED
      BY <1>0, <1>4, <2>1, <2>2, KeepTypes, FlushTypes DEF BulkUnimplemented
  <1>5. CASE BulkDeferred
    <2>1. PICK sent, ends :
              /\ StoreBlocks(ReachableRoots({u \in OwnedBy(cur) : u.writer \in ends}),
                             Reachable({u \in OwnedBy(cur) : u.writer \in sent}))
              /\ GoTo("last") \/ FlushFails
      BY <1>5 DEF BulkDeferred
    <2>2. \A x : {u \in OwnedBy(cur) : u.writer \in x} \in SUBSET updates
      BY BlockTypes
    <2>3. StoreOK'
      BY <2>1, <2>2, BlockTypes
    <2>4. FlushOK' /\ CallerOK'
      BY <1>0, <2>1, FlushTypes
    <2> QED
      BY <1>5, <2>3, <2>4, KeepTypes DEF BulkDeferred
  <1>6. CASE BulkCall
    <2>1. CASE BulkApplied /\ BulkDone
      <3>1. ListOK'
        BY <2>1, SMT DEF BulkDone, ListOK, TypeOK
      <3> QED
        BY <1>6, <2>1, <3>1, KeepTypes, FlushTypes, BulkTypes DEF BulkCall, BulkCalling, BulkDone
    <2>2. CASE BulkRefused /\ GoTo("old") /\ UNCHANGED <<updates, generation>>
      BY <1>0, <1>6, <2>2, KeepTypes, FlushTypes, BulkTypes DEF BulkCall, BulkCalling
    <2>3. CASE FlushFails /\ UNCHANGED <<serverVars, updates, generation>>
      BY <1>6, <2>3, KeepTypes, FlushTypes DEF BulkCall, BulkCalling
    <2> QED
      BY <1>6, <2>1, <2>2, <2>3 DEF BulkCall
  <1>7. CASE BulkLost
    <2>1. CASE BulkApplied
      BY <1>7, <2>1, BulkTypes, KeepTypes, FlushTypes DEF BulkLost
    <2>2. ASSUME NEW roots \in SUBSET ReachableRoots(OwnedBy(cur)),
                 NEW leaves \in SUBSET Reachable(OwnedBy(cur)),
                 StoreBlocks(roots, leaves), UNCHANGED ptrVars
          PROVE  TypeParts'
      <3>1. roots \subseteq Tree /\ leaves \subseteq Nat
        BY <2>2, BlockTypes
      <3>2. StoreOK' /\ ServerOK'
        BY <2>2, <3>1, BlockTypes, KeepTypes
      <3> QED
        BY <1>7, <3>2, KeepTypes, FlushTypes DEF BulkLost
    <2> QED
      BY <1>7, <2>1, <2>2 DEF BulkLost
  <1>8. CASE CommitBlocks
    <2>1. StoreOK'
      BY <1>8, BlockTypes DEF CommitBlocks
    <2>2. BufferOK'
      BY <1>8 DEF CommitBlocks, BufferOK, TypeOK
    <2>3. FlushOK' /\ CallerOK'
      BY <1>8, BlockTypes DEF CommitBlocks, FlushOK, CallerOK, callerVars, TypeOK, FlushPcs
    <2> QED
      BY <1>8, <2>1, <2>2, <2>3, KeepTypes DEF CommitBlocks
  <1>9. CASE CommitBlocksLost
    <2>1. StoreOK'
      <3>1. PICK roots \in SUBSET ReachableRoots(OwnedBy(cur)),
                 leaves \in SUBSET Reachable(OwnedBy(cur)) : StoreBlocks(roots, leaves)
        BY <1>9 DEF CommitBlocksLost
      <3>2. roots \subseteq Tree /\ leaves \subseteq Nat
        BY BlockTypes
      <3> QED
        BY <3>1, <3>2, BlockTypes
    <2> QED
      BY <1>9, <2>1, KeepTypes, FlushTypes DEF CommitBlocksLost
  <1>10. ASSUME NEW u \in writes, CommitPointer(u) \/ CommitPointerLost(u)
         PROVE  TypeParts'
    <2>1. u.writer \in Writers /\ u.updated \in Tree /\ u.seq \in Nat
      BY DEF TypeOK, Update
    <2>2. ServerOK'
      BY <1>10, <2>1, SetPointerType, KeepTypes DEF CommitPointer, CommitPointerLost, ServerOK
    <2>3. FlushOK' /\ CallerOK'
      BY <1>0, <1>10, FlushTypes DEF CommitPointer, CommitPointerLost
    <2> QED
      BY <1>10, <2>2, <2>3, KeepTypes DEF CommitPointer, CommitPointerLost
  <1>11. ASSUME NEW u \in writes, Resolve(u)
         PROVE  TypeParts'
    <2>1. ASSUME CanMerge(u.original, u.updated, ptr[u.writer].target)
          PROVE  Merge(u.original, u.updated, ptr[u.writer].target) \in Tree
      <3>1. /\ u.original \in Target /\ u.updated \in Tree
            /\ ptr[u.writer].target \in Target
        BY DEF TypeOK, Update, Pointer
      <3> QED
        BY <2>1, <3>1, MergeType DEF CanMerge, Target
    <2>2. StoreOK'
      BY <1>11, <2>1 DEF Resolve, StoreOK, TypeOK
    <2>3. FlushOK' /\ CallerOK'
      <3>1. CASE PointerCommitted(u) \/ FlushFails
        BY <3>1, FlushTypes
      <3>2. CASE /\ remote' = ptr[u.writer] /\ pc' = "recas"
                 /\ UNCHANGED <<todo, cur, writes, callerVars>>
        BY <3>2 DEF FlushOK, CallerOK, callerVars, TypeOK, FlushPcs, Update
      <3> QED
        BY <1>11, <3>1, <3>2 DEF Resolve
    <2> QED
      BY <1>11, <2>2, <2>3, KeepTypes DEF Resolve
  <1>12. ASSUME NEW u \in writes, CommitMerge(u) \/ CommitMergeLost(u)
         PROVE  TypeParts'
    <2>1. u.original \in Tree /\ remote.target \in Tree
      BY <1>12 DEF CommitMerge, CommitMergeLost, StorageInv, MergeInv, TypeOK, Update, Pointer, Target
    <2>2. u.writer \in Writers /\ u.updated \in Tree /\ remote.seq + 1 \in Nat
      BY SMT DEF TypeOK, Update, Pointer
    <2>3. Merge(u.original, u.updated, remote.target) \in Tree
      BY <2>1, <2>2, MergeType
    <2>4. ServerOK'
      BY <1>12, <2>2, <2>3, SetPointerType, KeepTypes DEF CommitMerge, CommitMergeLost, ServerOK
    <2>5. FlushOK' /\ CallerOK'
      BY <1>12, FlushTypes DEF CommitMerge, CommitMergeLost
    <2> QED
      BY <1>12, <2>4, <2>5, KeepTypes DEF CommitMerge, CommitMergeLost
  <1>13. CASE PointersDone
    <2>1. ListOK'
      BY <1>13 DEF PointersDone, ListOK, TypeOK
    <2> QED
      BY <1>13, <2>1, KeepTypes, FlushTypes DEF PointersDone
  <1>14. CASE ResolveLost
    BY <1>14, KeepTypes, FlushTypes DEF ResolveLost
  <1> QED
    BY <1>1, <1>2, <1>3, <1>4, <1>5, <1>6, <1>7, <1>8, <1>9, <1>10, <1>11, <1>12,
       <1>13, <1>14 DEF FlushStep

LEMMA OursType ==
    ASSUME TypeOK
    PROVE  Ours \subseteq Nat /\ \A n : {v \in Ours : v > n} \subseteq Nat
  BY SMT DEF Ours, TypeOK

LEMMA NewVersionType ==
    ASSUME TypeOK, NEW w \in Writers, NEW k \in Keys, NEW old \in Nat, NEW ours \in BOOLEAN,
           NewVersion(w, k, old, ours)
    PROVE  history' \in Seq(Version) /\ Len(history') = Len(history) + 1
  <1>1. history \in Seq(Version)
    BY DEF TypeOK
  <1>2. [writer |-> w, key |-> k, parent |-> old, ours |-> ours] \in Version
    BY DEF Version
  <1> QED
    BY <1>1, <1>2, SMT DEF NewVersion

LEMMA TypeStep ==
    ASSUME CountingFacts
    PROVE  StorageInv /\ [Next]_vars => TypeOK'
  <1> SUFFICES ASSUME StorageInv, TypeOK, [Next]_vars PROVE TypeOK'
    BY DEF StorageInv
  <1>1. CASE FlushStep
    BY <1>1, TypeFlushStep
  <1> SUFFICES ASSUME ~FlushStep PROVE TypeParts'
    BY <1>1, TypesFromParts
  <1> USE DEF TypeParts
  <1>2. ASSUME NEW e \in Entries, Write(e[1], e[2])
        PROVE  TypeParts'
    <2> DEFINE w == e[1]
               k == e[2]
               ver == Len(history) + 1
    <2>1. w \in Writers /\ k \in Keys /\ ver \in Nat
      BY OwnersAssumption, SMT DEF TypeOK
    <2> HIDE DEF w, k
    <2>2. PICK seen \in Seen(w) :
              /\ updates' = AddWrite(w, seen, [TreeOf(seen.target) EXCEPT ![k] = ver])
              /\ bufRoots' = bufRoots \cup {[TreeOf(seen.target) EXCEPT ![k] = ver]}
              /\ bufLeaves' = bufLeaves \cup {ver}
              /\ NewVersion(w, k, TreeOf(seen.target)[k], TRUE)
      BY <1>2 DEF Write, w, k
    <2>3. seen \in Pointer /\ TreeOf(seen.target) \in Tree
      BY <2>1, SeenType, TargetTree DEF Pointer
    <2>4. [TreeOf(seen.target) EXCEPT ![k] = ver] \in Tree
      BY <2>1, <2>3, WriteLeaves
    <2>5. BufferOK'
      BY <2>1, <2>2, <2>4 DEF BufferOK, TypeOK
    <2>6. ListOK'
      BY <1>2, <2>1, <2>2, <2>3, <2>4, AddWriteType DEF ListOK, TypeOK, Write
    <2>7. GhostOK'
      <3>1. TreeOf(seen.target)[k] \in Nat
        BY <2>1, <2>3 DEF Tree
      <3> QED
        BY <1>2, <2>1, <2>2, <3>1, NewVersionType DEF GhostOK, TypeOK, Write
    <2>8. FlushOK'
      <3>1. CASE UNCHANGED flushVars
        BY <3>1, KeepTypes
      <3>2. CASE StartFlush(updates', ownerOf[e[1]])
        <4>1. \A u \in updates' : u.writer \in Writers
          BY <2>6 DEF ListOK, Update
        <4> QED
          BY <2>1, <3>2, <4>1 DEF StartFlush, FlushOK, TypeOK, FlushPcs, w
      <3> QED
        BY <1>2, <3>1, <3>2 DEF Write
    <2> QED
      BY <1>2, <2>5, <2>6, <2>7, <2>8, KeepTypes DEF Write
  <1>3. ASSUME NEW o \in Owners, Commit(o)
        PROVE  TypeParts'
    <2>1. FlushOK'
      BY <1>3 DEF Commit, StartFlush, FlushOK, TypeOK, FlushPcs, Update
    <2> QED
      BY <1>3, <2>1, KeepTypes DEF Commit
  <1>4. CASE ForceClear
    <2>1. BufferOK' /\ ListOK'
      BY <1>4, SMT DEF ForceClear, BufferOK, ListOK, TypeOK
    <2>2. GhostOK'
      BY <1>4, OursType DEF ForceClear, GhostOK, TypeOK
    <2> QED
      BY <1>4, <2>1, <2>2, KeepTypes DEF ForceClear
  <1>5. ASSUME NEW b \in BOOLEAN, SetSafe(b)
        PROVE  TypeParts'
    <2>1. ownerOf' \in [Writers -> Owners] /\ noBulk' \subseteq Owners
      BY <1>5 DEF SetSafe, TypeOK, envVars
    <2>2. EnvOK'
      BY <1>5, <2>1, Zenon DEF SetSafe, EnvOK
    <2> QED
      BY <1>5, <2>2, KeepTypes DEF SetSafe
  <1>6. CASE BeginUpdate
    <2>1. Cardinality(updates) \in Nat
      BY DEF StorageInv, ListInv, TypeOK, CountingFacts
    <2>2. {u.updated : u \in LastOf(updates)} \in SUBSET Tree
      BY DEF LastOf, TypeOK, Update
    <2> DEFINE cp == [generation |-> generation, len |-> Cardinality(updates),
                      last |-> {u.updated : u \in LastOf(updates)}, since |-> Len(history)]
    <2>3. cp \in Checkpoint
      <3>1. generation \in Nat /\ Len(history) \in Nat
        BY SMT DEF TypeOK
      <3> QED
        BY <2>1, <2>2, <3>1 DEF Checkpoint
    <2>4. CallerOK'
      <3>1. cps' = Append(cps, cp) /\ opErr' = opErr
        BY <1>6 DEF BeginUpdate
      <3> HIDE DEF cp
      <3>2. cps \in Seq(Checkpoint) /\ opErr \in BOOLEAN
        BY DEF TypeOK
      <3> QED
        BY <2>3, <3>1, <3>2, SMT DEF CallerOK
    <2> QED
      BY <1>6, <2>4, KeepTypes DEF BeginUpdate
  <1>7. CASE EndUpdate
    <2>1. CallerOK'
      BY <1>7, SMT DEF EndUpdate, DropCheckpoint, CallerOK, TypeOK
    <2> QED
      BY <1>7, <2>1, KeepTypes DEF EndUpdate
  <1>8. CASE FailUpdate
    <2>1. opErr' \in BOOLEAN
      BY <1>8, Zenon DEF FailUpdate
    <2>2. CallerOK'
      <3>1. cps' \in Seq(Checkpoint)
        BY <1>8, SMT DEF FailUpdate, DropCheckpoint, TypeOK
      <3> QED
        BY <2>1, <3>1 DEF CallerOK
    <2>3. Innermost \in Checkpoint
      <3>1. cps \in Seq(Checkpoint) /\ cps # <<>>
        BY <1>8 DEF FailUpdate, TypeOK
      <3>2. Len(cps) \in 1..Len(cps)
        BY <3>1, SMT
      <3> QED
        BY <3>1, <3>2, SMT DEF Innermost
    <2>4. ListOK'
      BY <1>8, <2>3, RolledBackType DEF FailUpdate, ListOK, TypeOK
    <2>5. GhostOK'
      BY <1>8, OursType DEF FailUpdate, GhostOK, TypeOK
    <2> QED
      BY <1>8, <2>2, <2>4, <2>5, KeepTypes DEF FailUpdate
  <1>9. ASSUME NEW e \in Entries, OtherDevice(e[1], e[2])
        PROVE  TypeParts'
    <2> DEFINE w == e[1]
               k == e[2]
               ver == Len(history) + 1
               root == [TreeOf(ptr[w].target) EXCEPT ![k] = ver]
    <2>1. w \in Writers /\ k \in Keys /\ ver \in Nat
      BY OwnersAssumption, SMT DEF TypeOK
    <2>2. TreeOf(ptr[w].target) \in Tree /\ ptr[w].seq + 1 \in Nat
      BY <2>1, TargetTree, SMT DEF TypeOK, Pointer
    <2>3. root \in Tree /\ TreeOf(ptr[w].target)[k] \in Nat
      BY <2>1, <2>2, WriteLeaves DEF Tree
    <2>4. StoreOK'
      BY <1>9, <2>1, <2>3 DEF OtherDevice, StoreBlocks, StoreOK, TypeOK
    <2>5. ServerOK'
      BY <1>9, <2>1, <2>2, <2>3, SetPointerType DEF OtherDevice, ServerOK
    <2>6. GhostOK'
      <3>1. history' \in Seq(Version)
        BY <1>9, <2>1, <2>3, NewVersionType DEF OtherDevice
      <3> QED
        BY <1>9, <3>1 DEF OtherDevice, GhostOK, TypeOK
    <2> QED
      BY <1>9, <2>4, <2>5, <2>6, KeepTypes DEF OtherDevice
  <1>10. CASE UNCHANGED vars
    BY <1>10, KeepTypes DEF vars
  <1> QED
    BY <1>2, <1>3, <1>4, <1>5, <1>6, <1>7, <1>8, <1>9, <1>10 DEF Next

-----------------------------------------------------------------------------
(* What storing blocks preserves. *)

StoreGrows == stRoots \subseteq stRoots' /\ stLeaves \subseteq stLeaves'

LEMMA GrowsBy ==
    /\ \A roots, leaves : StoreBlocks(roots, leaves) => StoreGrows
    /\ UNCHANGED <<stRoots, stLeaves>> => StoreGrows
    /\ UNCHANGED serverVars => StoreGrows
  BY DEF StoreBlocks, StoreGrows, serverVars

LEMMA CompleteGrows ==
    ASSUME StoreGrows, NEW r, Complete(r)
    PROVE  Complete(r)'
  BY DEF StoreGrows, Complete

LEMMA AvailableGrows ==
    ASSUME StoreGrows, bufRoots \subseteq bufRoots', bufLeaves \subseteq bufLeaves',
           NEW r, Available(r)
    PROVE  Available(r)'
  BY CompleteGrows DEF StoreGrows, Available

(* A call that stores all that is reachable from some updates completes the  *)
(* roots of those updates.                                                   *)
LEMMA StoredComplete ==
    ASSUME NEW list, NEW u \in list, Available(u.updated),
           StoreBlocks(ReachableRoots(list), Reachable(list))
    PROVE  Complete(u.updated)'
  BY DEF Available, StoreBlocks, ReachableRoots, Reachable, Complete

(* commit_blocks drops from the buffer only what it has stored. *)
LEMMA CommittedAvailable ==
    ASSUME NEW list, NEW r, Available(r),
           StoreBlocks(ReachableRoots(list), Reachable(list)),
           bufRoots' = bufRoots \ ReachableRoots(list),
           bufLeaves' = bufLeaves \ Reachable(list)
    PROVE  Available(r)'
  <1>1. CASE Complete(r)
    BY <1>1, GrowsBy, CompleteGrows DEF Available
  <1>2. CASE r \in ReachableRoots(list) /\ Leaves(r) \subseteq bufLeaves \cup stLeaves
    BY <1>2 DEF Available, Complete, StoreBlocks, Reachable
  <1>3. CASE r \in bufRoots' /\ Leaves(r) \subseteq bufLeaves \cup stLeaves
    BY <1>3 DEF Available, StoreBlocks
  <1> QED
    BY <1>1, <1>2, <1>3 DEF Available

(* Advancing the last entry keeps the list finite and its positions unique,  *)
(* and brings in no other root.                                              *)
LEMMA AdvanceList ==
    ASSUME CountingFacts, NEW list \in SUBSET Update, IsFiniteSet(list),
           \A u, x \in list : u.pos = x.pos => u = x,
           NEW root \in Tree
    PROVE  /\ IsFiniteSet(Advance(list, root))
           /\ \A u, x \in Advance(list, root) : u.pos = x.pos => u = x
           /\ \A u \in Advance(list, root) :
                /\ u.updated = root \/ \E x \in list : u.updated = x.updated
                /\ \E x \in list : u.pos = x.pos
  <1>1. CASE LastOf(list) = {}
    <2>1. Advance(list, root) = list
      BY <1>1 DEF Advance
    <2> QED
      BY <2>1
  <1>2. ASSUME NEW last \in LastOf(list)
        PROVE  /\ IsFiniteSet(Advance(list, root))
               /\ \A u, x \in Advance(list, root) : u.pos = x.pos => u = x
               /\ \A u \in Advance(list, root) :
                    /\ u.updated = root \/ \E x \in list : u.updated = x.updated
                    /\ \E x \in list : u.pos = x.pos
    <2> DEFINE new == [last EXCEPT !.updated = root]
    <2>1. LastOf(list) = {last}
      BY <1>2, LastUnique, SMT
    <2>2. Advance(list, root) = (list \ {last}) \cup {new}
      BY <2>1 DEF Advance
    <2>3. last \in list /\ last \in Update
      BY <1>2 DEF LastOf
    <2>4. new.pos = last.pos /\ new.updated = root
      BY <2>3 DEF Update
    <2>5. IsFiniteSet(Advance(list, root))
      <3>1. IsFiniteSet(list \ {last})
        BY DEF CountingFacts
      <3>2. \A x \in Update : IsFiniteSet((list \ {last}) \cup {x})
        BY <3>1 DEF CountingFacts
      <3>3. new \in Update
        BY <2>3, SMT DEF Update
      <3> QED
        BY <2>2, <3>2, <3>3
    <2> QED
      BY <2>2, <2>3, <2>4, <2>5
  <1> QED
    BY <1>1, <1>2

(* What the list must satisfy after a step that only drops updates. *)
LEMMA SublistInv ==
    ASSUME CountingFacts, TypeOK, TypeOK', ListInv,
           updates' \subseteq updates, Len(history') >= Len(history)
    PROVE  ListInv'
  <1>1. IsFiniteSet(updates')
    BY DEF ListInv, TypeOK, CountingFacts
  <1>2. Len(history) \in Nat /\ Len(history') \in Nat /\ \A u \in updates : u.pos \in Nat
    BY SMT DEF TypeOK, Update
  <1> QED
    BY <1>1, <1>2, SMT DEF ListInv

(* set_pointer_update *)
Adds(w, seen, root) ==
    /\ w \in Writers /\ seen \in Pointer /\ root \in Tree
    /\ updates' = AddWrite(w, seen, root) /\ Len(history') = Len(history) + 1

LEMMA AddWriteInv ==
    ASSUME CountingFacts, TypeOK, TypeOK', ListInv,
           NEW w, NEW seen, NEW root, Adds(w, seen, root)
    PROVE  /\ ListInv'
           /\ \A u \in updates' : u.updated = root \/ \E x \in updates : u.updated = x.updated
  <1> SUFFICES ASSUME w \in Writers, seen \in Pointer, root \in Tree,
                      updates' = AddWrite(w, seen, root), Len(history') = Len(history) + 1
               PROVE  /\ ListInv'
                      /\ \A u \in updates' : u.updated = root \/ \E x \in updates : u.updated = x.updated
    BY DEF Adds
  <1>1. updates \in SUBSET Update /\ \A u \in updates : u.pos \in Nat
    BY DEF TypeOK, Update
  <1>2. Len(history) \in Nat
    BY SMT DEF TypeOK
  <1>3. CASE \E u \in LastOf(updates) : u.writer = w
    <2>1. updates' = Advance(updates, root)
      BY <1>3 DEF AddWrite
    <2>2. /\ IsFiniteSet(updates')
          /\ \A u, x \in updates' : u.pos = x.pos => u = x
          /\ \A u \in updates' :
               /\ u.updated = root \/ \E x \in updates : u.updated = x.updated
               /\ \E x \in updates : u.pos = x.pos
      BY <1>1, <2>1, AdvanceList, SMT DEF ListInv
    <2> QED
      BY <1>1, <1>2, <2>2, SMT DEF ListInv
  <1>4. CASE ~ \E u \in LastOf(updates) : u.writer = w
    <2> DEFINE new == [pos |-> Len(history) + 1, writer |-> w, original |-> seen.target,
                       updated |-> root, seq |-> seen.seq + 1]
    <2>1. updates' = updates \cup {new}
      BY <1>4 DEF AddWrite
    <2>2. new.pos = Len(history) + 1 /\ new.updated = root
      OBVIOUS
    <2>3. new \in Update
      BY <1>2, SMT DEF Update, Pointer
    <2> HIDE DEF new
    <2>4. IsFiniteSet(updates')
      <3>1. IsFiniteSet(updates)
        BY DEF ListInv
      <3>2. \A u \in Update : IsFiniteSet(updates \cup {u})
        BY <1>1, <3>1 DEF CountingFacts
      <3> QED
        BY <2>1, <2>3, <3>2
    <2> QED
      BY <1>1, <1>2, <2>1, <2>2, <2>4, SMT DEF ListInv
  <1> QED
    BY <1>3, <1>4

LEMMA RolledBackInv ==
    ASSUME CountingFacts, TypeOK, TypeOK', ListInv,
           NEW cp \in Checkpoint, updates' = RolledBack(cp), history' = history
    PROVE  /\ ListInv'
           /\ \A u \in updates' :
                \/ \E x \in updates : u.updated = x.updated
                \/ cp.generation = generation /\ u.updated \in cp.last
  <1> DEFINE kept == Truncate(updates, cp.len)
             r == CHOOSE r \in cp.last : TRUE
  <1>1. kept \subseteq updates
    BY DEF Truncate
  <1>2. CASE updates' \subseteq updates
    <2>1. Len(history') >= Len(history)
      BY SMT DEF TypeOK
    <2> QED
      BY <1>2, <2>1, SublistInv
  <1>3. CASE generation = cp.generation /\ cp.last # {} /\ updates' = Advance(kept, r)
    <2>1. r \in cp.last /\ r \in Tree
      BY <1>3 DEF Checkpoint
    <2> HIDE DEF kept, r
    <2>2. IsFiniteSet(kept)
      BY <1>1 DEF ListInv, TypeOK, CountingFacts
    <2>3. kept \in SUBSET Update /\ \A u, x \in kept : u.pos = x.pos => u = x
      BY <1>1 DEF ListInv, TypeOK
    <2>4. /\ IsFiniteSet(updates')
          /\ \A u, x \in updates' : u.pos = x.pos => u = x
          /\ \A u \in updates' :
               /\ u.updated = r \/ \E x \in kept : u.updated = x.updated
               /\ \E x \in kept : u.pos = x.pos
      BY <1>3, <2>1, <2>2, <2>3, AdvanceList, SMT
    <2> QED
      BY <1>1, <1>3, <2>1, <2>4 DEF ListInv
  <1> QED
    BY <1>1, <1>2, <1>3 DEF RolledBack

LEMMA SamePointers ==
    ASSUME PointersComplete, StoreGrows, ptr' = ptr
    PROVE  PointersComplete'
  BY CompleteGrows DEF PointersComplete

LEMMA NewPointer ==
    ASSUME TypeOK, PointersComplete, StoreGrows, NEW w \in Writers, NEW root, NEW seq,
           SetPointer(w, root, seq), Complete(root)'
    PROVE  PointersComplete'
  <1> SUFFICES ASSUME NEW x \in Writers, ptr'[x].target # NoRoot
               PROVE  Complete(ptr[x].target)'
    BY DEF PointersComplete
  <1>1. CASE x = w
    <2>1. ptr'[x].target = root
      BY <1>1 DEF SetPointer, SetPointers, TypeOK
    <2> QED
      BY <2>1 DEF Complete
  <1>2. CASE x # w
    <2>1. ptr'[x] = ptr[x]
      BY <1>2 DEF SetPointer, SetPointers, TypeOK
    <2>2. Complete(ptr[x].target)
      BY <2>1 DEF PointersComplete
    <2> QED
      BY <2>1, <2>2 DEF Complete, StoreGrows
  <1> QED
    BY <1>1, <1>2

(* Updates leave the list, and checkpoints go out of date when the           *)
(* generation is bumped.                                                     *)
LEMMA SameBuffer ==
    ASSUME TypeOK, BufferedAvailable, CheckpointInv, StoreGrows,
           UNCHANGED blockVars, updates' \subseteq updates, UNCHANGED cps,
           generation' \in {generation, generation + 1}
    PROVE  BufferedAvailable' /\ CheckpointInv'
  <1>1. \A r : Available(r) => Available(r)'
    BY DEF blockVars, Available, Complete, StoreGrows
  <1>2. generation \in Nat /\ \A i \in 1..Len(cps) : cps[i].generation \in Nat
    BY CheckpointsType DEF TypeOK
  <1>3. CheckpointInv'
    BY <1>2, SMT DEF CheckpointInv
  <1>4. \A i \in 1..Len(cps) : cps[i].generation = generation' => cps[i].generation = generation
    BY <1>2, SMT DEF CheckpointInv
  <1> QED
    BY <1>1, <1>3, <1>4 DEF BufferedAvailable

LEMMA NotCommitting ==
    ASSUME pc' \in {"idle", "owner", "bulk", "last", "old"}
    PROVE  CommitInv' /\ MergeInv'
  BY DEF CommitInv, MergeInv, Committing

LEMMA StillCommitting ==
    ASSUME Committing, CommitInv, StoreGrows, updates' = updates, writes' \subseteq writes
    PROVE  CommitInv'
  BY CompleteGrows DEF CommitInv

LEMMA NotMerging ==
    ASSUME pc' # "recas"
    PROVE  MergeInv'
  BY DEF MergeInv

-----------------------------------------------------------------------------
(* The steps of a flush. *)

LEMMA BulkComplete ==
    ASSUME StorageInv, BulkApplied
    PROVE  PointersComplete'
  <1> DEFINE list == OwnedBy(cur)
  <1>1. list \subseteq updates
    BY DEF OwnedBy
  <1>2. \A u \in list : Complete(u.updated)'
    <2> TAKE u \in list
    <2>1. Available(u.updated)
      BY <1>1 DEF StorageInv, BufferedAvailable
    <2> QED
      BY <2>1 DEF BulkApplied, Available, StoreBlocks, ReachableRoots, Reachable, Complete
  <1> SUFFICES ASSUME NEW w \in Writers, ptr'[w].target # NoRoot
               PROVE  Complete(ptr[w].target)'
    BY DEF PointersComplete
  <1>3. ptr' = AfterBulk(list)
    BY DEF BulkApplied, SetPointers
  <1>4. CASE Latest(list, w) = {}
    <2>1. ptr'[w] = ptr[w]
      BY <1>3, <1>4 DEF AfterBulk
    <2>2. Complete(ptr[w].target)
      BY <2>1 DEF StorageInv, PointersComplete
    <2> QED
      BY <2>1, <2>2 DEF Complete, BulkApplied, StoreBlocks
  <1>5. CASE Latest(list, w) # {}
    <2> DEFINE u == CHOOSE u \in Latest(list, w) : TRUE
    <2>1. u \in list
      BY <1>5 DEF Latest
    <2>2. ptr'[w].target = u.updated
      BY <1>3, <1>5 DEF AfterBulk
    <2> HIDE DEF u
    <2> QED
      BY <1>2, <2>1, <2>2 DEF Complete
  <1> QED
    BY <1>4, <1>5

(* A merge is complete: its root was stored, and each of its leaves is one   *)
(* of ours or one of theirs.                                                 *)
LEMMA MergeComplete ==
    ASSUME StorageInv, NEW u \in writes, IsFirst(u, writes), pc = "recas"
    PROVE  Complete(Merge(u.original, u.updated, remote.target))
  <1>1. u \in Update /\ remote \in Pointer
    BY DEF StorageInv, TypeOK
  <1>2. u.original \in Tree /\ u.updated \in Tree /\ remote.target \in Tree
    BY <1>1 DEF StorageInv, MergeInv, Update, Pointer, Target
  <1>3. Leaves(u.updated) \subseteq stLeaves /\ Leaves(remote.target) \subseteq stLeaves
    BY DEF StorageInv, CommitInv, Committing, MergeInv, Complete
  <1>4. Leaves(Merge(u.original, u.updated, remote.target)) \subseteq stLeaves
    BY <1>2, <1>3, MergeLeaves
  <1>5. Merge(u.original, u.updated, remote.target) \in stRoots
    BY DEF StorageInv, MergeInv
  <1> QED
    BY <1>4, <1>5 DEF Complete

(* A step that may move pointers, takes nothing from the buffer but updates,  *)
(* and is not followed by a step of commit_pointers.                         *)
LEMMA PointerStep ==
    ASSUME CountingFacts, StorageInv, TypeOK', StoreGrows, PointersComplete',
           UNCHANGED <<blockVars, cps, history>>, updates' \subseteq updates,
           generation' \in {generation, generation + 1},
           pc' \in {"idle", "owner", "bulk", "last", "old"}
    PROVE  StorageInv'
  <1>1. BufferedAvailable' /\ CheckpointInv'
    BY SameBuffer DEF StorageInv
  <1>2. Len(history') >= Len(history)
    BY SMT DEF StorageInv, TypeOK
  <1>3. ListInv'
    BY <1>2, SublistInv DEF StorageInv
  <1> QED
    BY <1>1, <1>3, NotCommitting DEF StorageInv

LEMMA QuietStep ==
    ASSUME CountingFacts, StorageInv, TypeOK', StoreGrows, ptr' = ptr,
           UNCHANGED <<blockVars, cps, history>>, updates' \subseteq updates,
           generation' \in {generation, generation + 1},
           pc' \in {"idle", "owner", "bulk", "last", "old"}
    PROVE  StorageInv'
  BY SamePointers, PointerStep DEF StorageInv

(* A step of commit_pointers. *)
LEMMA CommittingStep ==
    ASSUME CountingFacts, StorageInv, TypeOK', StoreGrows, PointersComplete', Committing,
           UNCHANGED <<blockVars, cps, history, updates, generation>>,
           writes' \subseteq writes, MergeInv'
    PROVE  StorageInv'
  <1>1. BufferedAvailable' /\ CheckpointInv'
    BY SameBuffer DEF StorageInv
  <1>2. Len(history') >= Len(history)
    BY SMT DEF StorageInv, TypeOK
  <1>3. ListInv'
    BY <1>2, SublistInv DEF StorageInv
  <1>4. CommitInv'
    BY StillCommitting DEF StorageInv
  <1> QED
    BY <1>1, <1>3, <1>4 DEF StorageInv

LEMMA StorageFlushStep ==
    ASSUME CountingFacts
    PROVE  StorageInv /\ FlushStep => StorageInv'
  <1> SUFFICES ASSUME StorageInv, TypeOK, TypeOK', FlushStep PROVE StorageInv'
    BY TypeFlushStep DEF StorageInv
  <1> USE DEF notFlushVars, ghostVars, callerVars
  <1>1. ASSUME NEW o \in Owners, NextOwner(o)
        PROVE  StorageInv'
    BY <1>1, QuietStep, GrowsBy DEF NextOwner, serverVars, ptrVars
  <1>2. CASE FlushDone
    <2>1. PointersComplete'
      BY <1>2, SamePointers, GrowsBy DEF FlushDone, StorageInv, serverVars, ptrVars
    <2>2. cps' = cps /\ generation' = generation + 1 /\ updates' = {} /\ history' = history
      BY <1>2 DEF FlushDone, GoTo
    <2>3. generation \in Nat /\ \A i \in 1..Len(cps) : /\ cps[i].generation \in Nat
                                                      /\ cps[i].generation <= generation
      BY CheckpointsType DEF TypeOK, StorageInv, CheckpointInv
    <2>4. CheckpointInv'
      BY <2>2, <2>3, SMT DEF CheckpointInv
    <2>5. BufferedAvailable'
      <3>1. \A i \in 1..Len(cps) : cps[i].generation # generation'
        BY <2>2, <2>3, SMT
      <3> QED
        BY <2>2, <3>1 DEF BufferedAvailable
    <2>6. Len(history') >= Len(history)
      BY <2>2, SMT DEF TypeOK
    <2>7. ListInv'
      BY <2>2, <2>6, SublistInv DEF StorageInv
    <2>8. CommitInv' /\ MergeInv'
      BY <1>2, NotCommitting DEF FlushDone, GoTo
    <2> QED
      BY <2>1, <2>4, <2>5, <2>7, <2>8 DEF StorageInv
  <1>3. CASE BulkNothing
    BY <1>3, QuietStep, GrowsBy DEF BulkNothing, BulkDone, OwnerDone, serverVars, ptrVars
  <1>4. CASE BulkUnimplemented
    BY <1>4, QuietStep, GrowsBy DEF BulkUnimplemented, GoTo, serverVars, ptrVars
  <1>5. CASE BulkDeferred
    BY <1>5, QuietStep, GrowsBy DEF BulkDeferred, GoTo, FlushFails, ptrVars
  <1>6. CASE BulkCall
    <2>1. CASE BulkApplied /\ BulkDone
      <3>1. PointersComplete' /\ StoreGrows
        BY <2>1, BulkComplete, GrowsBy DEF BulkApplied
      <3> QED
        BY <1>6, <2>1, <3>1, PointerStep DEF BulkCall, BulkCalling, BulkDone, OwnerDone
    <2>2. CASE BulkRefused /\ GoTo("old") /\ UNCHANGED <<updates, generation>>
      BY <1>6, <2>2, QuietStep, GrowsBy DEF BulkCall, BulkCalling, BulkRefused, GoTo, ptrVars
    <2>3. CASE FlushFails /\ UNCHANGED <<serverVars, updates, generation>>
      BY <1>6, <2>3, QuietStep, GrowsBy DEF BulkCall, BulkCalling, FlushFails, serverVars, ptrVars
    <2> QED
      BY <1>6, <2>1, <2>2, <2>3 DEF BulkCall
  <1>7. CASE BulkLost
    <2>1. CASE BulkApplied
      <3>1. PointersComplete' /\ StoreGrows
        BY <2>1, BulkComplete, GrowsBy DEF BulkApplied
      <3> QED
        BY <1>7, <3>1, PointerStep DEF BulkLost, BulkCalling, FlushFails
    <2>2. CASE ptr' = ptr /\ StoreGrows
      BY <1>7, <2>2, QuietStep DEF BulkLost, BulkCalling, FlushFails
    <2> QED
      BY <1>7, <2>1, <2>2, GrowsBy DEF BulkLost, BulkRefused, serverVars, ptrVars
  <1>8. CASE CommitBlocks
    <2> DEFINE list == OwnedBy(cur)
    <2>1. /\ StoreBlocks(ReachableRoots(list), Reachable(list))
          /\ bufRoots' = bufRoots \ ReachableRoots(list)
          /\ bufLeaves' = bufLeaves \ Reachable(list)
          /\ pc' = "ptrs" /\ writes' = list
          /\ UNCHANGED <<ptr, cps, generation, updates, history>>
      BY <1>8 DEF CommitBlocks, ptrVars
    <2>2. list \subseteq updates
      BY DEF OwnedBy
    <2> HIDE DEF list
    <2>3. PointersComplete'
      BY <2>1, SamePointers, GrowsBy DEF StorageInv
    <2>4. \A r : Available(r) => Available(r)'
      BY <2>1, CommittedAvailable
    <2>5. BufferedAvailable'
      BY <2>1, <2>4 DEF StorageInv, BufferedAvailable
    <2>6. CommitInv'
      <3>1. \A u \in list : Available(u.updated)
        BY <2>2 DEF StorageInv, BufferedAvailable
      <3>2. \A u \in list : Complete(u.updated)'
        BY <2>1, <3>1, StoredComplete
      <3> QED
        BY <2>1, <2>2, <3>2 DEF CommitInv
    <2>7. CheckpointInv' /\ ListInv'
      BY <2>1 DEF StorageInv, CheckpointInv, ListInv
    <2> QED
      BY <2>1, <2>3, <2>5, <2>6, <2>7, NotMerging DEF StorageInv
  <1>9. CASE CommitBlocksLost
    <2>1. StoreGrows
      BY <1>9, GrowsBy DEF CommitBlocksLost
    <2> QED
      BY <1>9, <2>1, QuietStep DEF CommitBlocksLost, FlushFails, ptrVars
  <1>10. ASSUME NEW u \in writes, CommitPointer(u) \/ CommitPointerLost(u)
         PROVE  StorageInv'
    <2>1. StoreGrows
      BY <1>10, GrowsBy DEF CommitPointer, CommitPointerLost
    <2>2. Committing /\ Complete(u.updated) /\ u.writer \in Writers
      BY <1>10 DEF CommitPointer, CommitPointerLost, Committing, StorageInv, CommitInv, TypeOK, Update
    <2>3. Complete(u.updated)'
      BY <2>1, <2>2, CompleteGrows
    <2>4. PointersComplete'
      <3>1. CASE SetPointer(u.writer, u.updated, u.seq)
        <4> DEFINE root == u.updated
                   w == u.writer
        <4>1. Complete(root)' /\ SetPointer(w, root, u.seq) /\ w \in Writers
          BY <2>2, <2>3, <3>1
        <4> HIDE DEF root, w
        <4> QED
          BY <2>1, <4>1, NewPointer DEF StorageInv
      <3>2. CASE UNCHANGED ptrVars
        BY <2>1, <3>2, SamePointers DEF StorageInv, ptrVars
      <3> QED
        BY <1>10, <3>1, <3>2 DEF CommitPointer, CommitPointerLost
    <2>5. MergeInv'
      BY <1>10, NotMerging DEF CommitPointer, CommitPointerLost, PointerCommitted, GoTo
    <2> QED
      BY <1>10, <2>1, <2>2, <2>4, <2>5, CommittingStep
         DEF CommitPointer, CommitPointerLost, PointerCommitted, GoTo
  <1>11. ASSUME NEW u \in writes, Resolve(u)
         PROVE  StorageInv'
    <2>1. StoreGrows /\ ptr' = ptr
      BY <1>11 DEF Resolve, StoreGrows, ptrVars
    <2>2. PointersComplete'
      BY <2>1, SamePointers DEF StorageInv
    <2>3. Committing
      BY <1>11 DEF Resolve, Committing
    <2>4. CASE PointerCommitted(u)
      BY <1>11, <2>1, <2>2, <2>3, <2>4, CommittingStep, NotMerging DEF Resolve, PointerCommitted
    <2>5. CASE FlushFails
      BY <1>11, <2>1, <2>5, QuietStep DEF Resolve, FlushFails
    <2>6. CASE /\ CanMerge(u.original, u.updated, ptr[u.writer].target)
               /\ stRoots' = stRoots \cup {Merge(u.original, u.updated, ptr[u.writer].target)}
               /\ remote' = ptr[u.writer] /\ pc' = "recas"
               /\ UNCHANGED <<todo, cur, writes, callerVars>>
      <3>1. u.writer \in Writers /\ u.original # NoRoot /\ ptr[u.writer].target # NoRoot
        BY <2>6 DEF TypeOK, Update, CanMerge
      <3>2. Leaves(remote'.target) \subseteq stLeaves'
        BY <1>11, <2>6, <3>1 DEF Resolve, StorageInv, PointersComplete, Complete
      <3>3. \A x \in writes : IsFirst(x, writes) => x = u
        <4> SUFFICES ASSUME NEW x \in writes, IsFirst(x, writes) PROVE x = u
          OBVIOUS
        <4>1. x.pos \in Nat /\ u.pos \in Nat /\ x.pos <= u.pos /\ u.pos <= x.pos
          BY <1>11 DEF Resolve, IsFirst, TypeOK, Update
        <4>2. x.pos = u.pos
          BY <4>1, SMT
        <4> QED
          BY <2>3, <4>2 DEF StorageInv, ListInv, CommitInv
      <3>4. MergeInv'
        BY <2>6, <3>1, <3>2, <3>3 DEF MergeInv, IsFirst
      <3> QED
        BY <1>11, <2>1, <2>2, <2>3, <2>6, <3>4, CommittingStep DEF Resolve
    <2> QED
      BY <1>11, <2>4, <2>5, <2>6 DEF Resolve
  <1>12. ASSUME NEW u \in writes, CommitMerge(u) \/ CommitMergeLost(u)
         PROVE  StorageInv'
    <2> DEFINE merged == Merge(u.original, u.updated, remote.target)
               w == u.writer
               seq == remote.seq + 1
    <2>1. StoreGrows
      BY <1>12, GrowsBy DEF CommitMerge, CommitMergeLost
    <2>2. Complete(merged)
      BY <1>12, MergeComplete DEF CommitMerge, CommitMergeLost
    <2>3. w \in Writers
      BY DEF TypeOK, Update
    <2>4. Committing
      BY <1>12 DEF CommitMerge, CommitMergeLost, Committing
    <2>5. SetPointer(w, merged, seq) \/ UNCHANGED ptrVars
      BY <1>12 DEF CommitMerge, CommitMergeLost
    <2>6. PointerCommitted(u) \/ FlushFails
      BY <1>12 DEF CommitMerge, CommitMergeLost
    <2>7. UNCHANGED <<blockVars, history, updates, generation>>
      BY <1>12 DEF CommitMerge, CommitMergeLost
    <2> HIDE DEF merged, w, seq
    <2>8. \A r : Complete(r) => Complete(r)'
      BY <2>1 DEF StoreGrows, Complete
    <2>9. PointersComplete'
      <3>1. CASE UNCHANGED ptrVars
        BY <2>1, <3>1, SamePointers DEF StorageInv, ptrVars
      <3>2. CASE SetPointer(w, merged, seq)
        BY <2>1, <2>2, <2>3, <2>8, <3>2, NewPointer DEF StorageInv
      <3> QED
        BY <2>5, <3>1, <3>2
    <2>10. CASE PointerCommitted(u)
      BY <2>1, <2>4, <2>7, <2>9, <2>10, CommittingStep, NotMerging DEF PointerCommitted
    <2>11. CASE FlushFails
      BY <2>1, <2>7, <2>9, <2>11, PointerStep DEF FlushFails
    <2> QED
      BY <2>6, <2>10, <2>11
  <1>13. CASE PointersDone
    BY <1>13, QuietStep, GrowsBy DEF PointersDone, OwnerDone, FlushFails, serverVars, ptrVars
  <1>14. CASE ResolveLost
    BY <1>14, QuietStep, GrowsBy DEF ResolveLost, FlushFails, serverVars, ptrVars
  <1> QED
    BY <1>1, <1>2, <1>3, <1>4, <1>5, <1>6, <1>7, <1>8, <1>9, <1>10, <1>11, <1>12, <1>13, <1>14
       DEF FlushStep

-----------------------------------------------------------------------------
(* The steps of the callers and of the other device. *)

(* Every root a write starts from has its leaves on the server or buffered. *)
LEMMA SeenLeaves ==
    ASSUME StorageInv, NEW w \in Writers, NEW seen \in Seen(w)
    PROVE  Leaves(TreeOf(seen.target)) \subseteq bufLeaves \cup stLeaves
  <1>1. CASE seen = ptr[w]
    <2>1. seen.target \in Target
      BY <1>1 DEF StorageInv, TypeOK, Pointer
    <2>2. CASE seen.target = NoRoot
      BY <2>1, <2>2, TargetTree DEF TreeOf
    <2>3. CASE seen.target # NoRoot
      BY <1>1, <2>1, <2>3, TargetTree DEF StorageInv, PointersComplete, Complete
    <2> QED
      BY <2>2, <2>3
  <1>2. ASSUME NEW u \in Latest(updates, w),
               seen = [target |-> u.updated, seq |-> u.seq]
        PROVE  Leaves(TreeOf(seen.target)) \subseteq bufLeaves \cup stLeaves
    <2>1. u \in updates /\ u.updated \in Tree
      BY DEF Latest, StorageInv, TypeOK, Update
    <2>2. TreeOf(seen.target) = u.updated
      BY <1>2, <2>1, TargetTree DEF Target
    <2>3. Available(u.updated)
      BY <2>1 DEF StorageInv, BufferedAvailable
    <2> QED
      BY <2>2, <2>3 DEF Available, Complete
  <1> QED
    BY <1>1, <1>2 DEF Seen

LEMMA WriteStep ==
    ASSUME CountingFacts, StorageInv, TypeOK', NEW w \in Writers, NEW k \in Keys, Write(w, k)
    PROVE  StorageInv'
  <1> USE DEF serverVars, ptrVars, callerVars
  <1>0. TypeOK
    BY DEF StorageInv
  <1> DEFINE ver == Len(history) + 1
  <1>1. PICK seen \in Seen(w) :
             /\ updates' = AddWrite(w, seen, [TreeOf(seen.target) EXCEPT ![k] = ver])
             /\ bufRoots' = bufRoots \cup {[TreeOf(seen.target) EXCEPT ![k] = ver]}
             /\ bufLeaves' = bufLeaves \cup {ver}
             /\ NewVersion(w, k, TreeOf(seen.target)[k], TRUE)
    BY DEF Write
  <1> DEFINE root == [TreeOf(seen.target) EXCEPT ![k] = ver]
  <1>2. UNCHANGED <<ptr, stRoots, stLeaves, cps, generation>>
    BY DEF Write
  <1>3. seen \in Pointer /\ ver \in Nat
    BY <1>0, SeenType, ListType, SMT
  <1>4. TreeOf(seen.target) \in Tree
    BY <1>3, TargetTree DEF Pointer
  <1>5. root \in Tree /\ Leaves(root) \subseteq Leaves(TreeOf(seen.target)) \cup {ver}
    BY <1>3, <1>4, WriteLeaves
  <1>6. Leaves(TreeOf(seen.target)) \subseteq bufLeaves \cup stLeaves
    BY SeenLeaves
  <1>7. Len(history') = Len(history) + 1
    <2>1. TreeOf(seen.target)[k] \in Nat
      BY <1>4 DEF Tree
    <2> QED
      BY <1>0, <1>1, <2>1, NewVersionType
  <1>8. updates' = AddWrite(w, seen, root) /\ bufRoots' = bufRoots \cup {root}
    BY <1>1
  <1>9. pc' \in {"idle", "owner"}
    BY DEF Write, Idle, StartFlush, flushVars
  <1> HIDE DEF root, ver
  <1>10. /\ ListInv'
         /\ \A u \in updates' : u.updated = root \/ \E x \in updates : u.updated = x.updated
    <2>1. ListInv
      BY DEF StorageInv
    <2>2. Adds(w, seen, root)
      BY <1>3, <1>5, <1>7, <1>8 DEF Adds
    <2> QED
      BY <1>0, <2>1, <2>2, AddWriteInv, SMT
  <1>11. \A r : Available(r) => Available(r)'
    BY <1>1, <1>2, <1>8 DEF Available, Complete
  <1>12. \A r : r = root => Available(r)'
    BY <1>1, <1>2, <1>5, <1>6, <1>8 DEF Available
  <1>13. BufferedAvailable'
    BY <1>2, <1>10, <1>11, <1>12 DEF StorageInv, BufferedAvailable
  <1>14. PointersComplete' /\ CheckpointInv'
    BY <1>2 DEF StorageInv, PointersComplete, Complete, CheckpointInv
  <1> QED
    BY <1>9, <1>10, <1>13, <1>14, NotCommitting DEF StorageInv

LEMMA FailUpdateStep ==
    ASSUME CountingFacts, StorageInv, TypeOK', FailUpdate
    PROVE  StorageInv'
  <1> USE DEF serverVars, ptrVars, blockVars
  <1>0. TypeOK /\ Len(cps) \in Nat
    BY SMT DEF StorageInv, TypeOK
  <1>1. Len(cps) \in 1..Len(cps)
    BY <1>0, SMT DEF FailUpdate
  <1>2. Innermost \in Checkpoint
    BY <1>0, <1>1, CheckpointsType DEF Innermost
  <1>3. UNCHANGED <<ptr, stRoots, stLeaves, bufRoots, bufLeaves, generation, history>>
    BY DEF FailUpdate
  <1>4. /\ ListInv'
        /\ \A u \in updates' :
             \/ \E x \in updates : u.updated = x.updated
             \/ Innermost.generation = generation /\ u.updated \in Innermost.last
    BY <1>0, <1>2, <1>3, RolledBackInv DEF StorageInv, FailUpdate
  <1>5. \A r : Available(r) => Available(r)'
    BY <1>3 DEF Available, Complete
  <1>6. \A i \in 1..Len(cps') : i \in 1..Len(cps) /\ cps'[i] = cps[i]
    BY <1>0, DropFacts DEF FailUpdate
  <1>7. BufferedAvailable'
    <2>1. \A u \in updates' : Available(u.updated)
      BY <1>1, <1>4 DEF StorageInv, BufferedAvailable, Innermost
    <2>2. \A i \in 1..Len(cps') : cps'[i].generation = generation
             => \A r \in cps'[i].last : Available(r)
      BY <1>6 DEF StorageInv, BufferedAvailable
    <2> QED
      BY <1>3, <1>5, <2>1, <2>2 DEF BufferedAvailable
  <1>8. PointersComplete' /\ CheckpointInv'
    BY <1>3, <1>6 DEF StorageInv, PointersComplete, Complete, CheckpointInv
  <1>9. pc' = "idle"
    BY DEF FailUpdate, Idle, flushVars
  <1> QED
    BY <1>4, <1>7, <1>8, <1>9, NotCommitting DEF StorageInv

LEMMA BeginUpdateStep ==
    ASSUME CountingFacts, StorageInv, TypeOK', BeginUpdate
    PROVE  StorageInv'
  <1> DEFINE cp == [generation |-> generation, len |-> Cardinality(updates),
                    last |-> {u.updated : u \in LastOf(updates)}, since |-> Len(history)]
  <1>0. TypeOK /\ generation \in Nat
    BY DEF StorageInv, TypeOK
  <1>1. cps' = Append(cps, cp) /\ cp.generation = generation
    BY DEF BeginUpdate
  <1>2. \A r \in cp.last : Available(r)
    BY DEF LastOf, StorageInv, BufferedAvailable
  <1> HIDE DEF cp
  <1>3. \A i \in 1..Len(cps') : (i \in 1..Len(cps) /\ cps'[i] = cps[i]) \/ cps'[i] = cp
    <2>1. cps \in Seq(Checkpoint)
      BY <1>0 DEF TypeOK
    <2> QED
      BY <1>1, <2>1, SMT
  <1>4. UNCHANGED <<ptr, stRoots, stLeaves, bufRoots, bufLeaves, generation, updates, history, pc>>
    BY DEF BeginUpdate, serverVars, ptrVars, blockVars, flushVars, ghostVars
  <1>5. \A r : Available(r) => Available(r)'
    BY <1>4 DEF Available, Complete
  <1>6. BufferedAvailable'
    BY <1>2, <1>3, <1>4, <1>5 DEF StorageInv, BufferedAvailable
  <1>7. PointersComplete' /\ ListInv'
    BY <1>4 DEF StorageInv, PointersComplete, Complete, ListInv
  <1>8. CheckpointInv'
    <2>1. \A i \in 1..Len(cps) : cps[i].generation <= generation
      BY DEF StorageInv, CheckpointInv
    <2>2. \A i \in 1..Len(cps') : cps'[i].generation <= generation
      BY <1>0, <1>1, <1>3, <2>1, SMT
    <2> QED
      BY <1>4, <2>2 DEF CheckpointInv
  <1>9. pc' = "idle"
    BY <1>4 DEF BeginUpdate, Idle
  <1> QED
    BY <1>6, <1>7, <1>8, <1>9, NotCommitting DEF StorageInv

LEMMA EndUpdateStep ==
    ASSUME CountingFacts, StorageInv, TypeOK', EndUpdate
    PROVE  StorageInv'
  <1>0. TypeOK
    BY DEF StorageInv
  <1>1. UNCHANGED <<ptr, stRoots, stLeaves, bufRoots, bufLeaves, generation, updates, history, pc>>
    BY DEF EndUpdate, serverVars, ptrVars, blockVars, flushVars, ghostVars
  <1>2. \A i \in 1..Len(cps') : i \in 1..Len(cps) /\ cps'[i] = cps[i]
    BY <1>0, DropFacts DEF EndUpdate
  <1>3. \A r : Available(r) => Available(r)'
    BY <1>1 DEF Available, Complete
  <1>4. BufferedAvailable'
    BY <1>1, <1>2, <1>3 DEF StorageInv, BufferedAvailable
  <1>5. PointersComplete' /\ ListInv' /\ CheckpointInv'
    BY <1>1, <1>2 DEF StorageInv, PointersComplete, Complete, ListInv, CheckpointInv
  <1>6. pc' = "idle"
    BY <1>1 DEF EndUpdate, Idle
  <1> QED
    BY <1>4, <1>5, <1>6, NotCommitting DEF StorageInv

LEMMA ForceClearStep ==
    ASSUME CountingFacts, StorageInv, TypeOK', ForceClear
    PROVE  StorageInv'
  <1>1. UNCHANGED <<ptr, stRoots, stLeaves, cps, history, pc>> /\ pc = "idle"
    BY DEF ForceClear, Idle, serverVars, ptrVars, flushVars, callerVars
  <1>2. cps' = <<>> /\ updates' = {}
    BY <1>1 DEF ForceClear
  <1>3. BufferedAvailable' /\ CheckpointInv'
    BY <1>2, SMT DEF BufferedAvailable, CheckpointInv
  <1>4. IsFiniteSet(updates')
    BY <1>2 DEF CountingFacts
  <1>5. ListInv'
    BY <1>2, <1>4 DEF ListInv
  <1>6. PointersComplete'
    BY <1>1 DEF StorageInv, PointersComplete, Complete
  <1> QED
    BY <1>1, <1>3, <1>5, <1>6, NotCommitting DEF StorageInv

(* The other device stores its blocks before it sets its pointer.  It may    *)
(* come between any two steps of our flush.                                  *)
LEMMA OtherDeviceStep ==
    ASSUME CountingFacts, StorageInv, TypeOK', NEW w \in Writers, NEW k \in Keys, OtherDevice(w, k)
    PROVE  StorageInv'
  <1> DEFINE ver == Len(history) + 1
             root == [TreeOf(ptr[w].target) EXCEPT ![k] = ver]
             seq == ptr[w].seq + 1
  <1>0. TypeOK
    BY DEF StorageInv
  <1>1. /\ StoreBlocks({root}, {ver}) /\ SetPointer(w, root, seq)
        /\ UNCHANGED <<blockVars, updates, generation, cps, flushVars>>
    BY DEF OtherDevice, callerVars
  <1>2. ptr[w].target \in Target /\ ver \in Nat
    BY <1>0, SMT DEF TypeOK, Pointer
  <1>3. Leaves(root) \subseteq Leaves(TreeOf(ptr[w].target)) \cup {ver}
    <2>1. TreeOf(ptr[w].target) \in Tree
      BY <1>2, TargetTree
    <2> QED
      BY <1>2, <2>1, WriteLeaves
  <1>4. Leaves(TreeOf(ptr[w].target)) \subseteq stLeaves
    BY <1>2, TargetTree DEF TreeOf, StorageInv, PointersComplete, Complete
  <1>5. Len(history') = Len(history) + 1 /\ Len(history) \in Nat
    <2>1. TreeOf(ptr[w].target)[k] \in Nat
      BY <1>2, TargetTree DEF Tree
    <2>2. NewVersion(w, k, TreeOf(ptr[w].target)[k], FALSE)
      BY DEF OtherDevice
    <2>3. Len(history') = Len(history) + 1
      BY <1>0, <2>1, <2>2, NewVersionType
    <2> QED
      BY <1>0, <2>3, SMT DEF TypeOK
  <1> HIDE DEF root, ver, seq
  <1>6. StoreGrows
    BY <1>1, GrowsBy
  <1>7. \A r : r = root => Complete(r)'
    BY <1>1, <1>3, <1>4 DEF Complete, StoreBlocks
  <1>8. PointersComplete'
    BY <1>0, <1>1, <1>6, <1>7, NewPointer DEF StorageInv
  <1>9. BufferedAvailable' /\ CheckpointInv'
    BY <1>0, <1>1, <1>6, SameBuffer DEF StorageInv
  <1>10. ListInv'
    <2>1. Len(history') >= Len(history) /\ updates' \subseteq updates
      BY <1>1, <1>5, SMT
    <2> QED
      BY <1>0, <2>1, SublistInv DEF StorageInv
  <1>11. CommitInv'
    <2>1. UNCHANGED <<pc, writes, updates>>
      BY <1>1 DEF flushVars
    <2> QED
      BY <1>6, <2>1, CompleteGrows DEF StorageInv, CommitInv, Committing
  <1>12. MergeInv'
    <2>1. UNCHANGED <<pc, writes, remote>>
      BY <1>1 DEF flushVars
    <2> QED
      BY <1>6, <2>1 DEF StorageInv, MergeInv, StoreGrows, IsFirst
  <1> QED
    BY <1>8, <1>9, <1>10, <1>11, <1>12 DEF StorageInv

-----------------------------------------------------------------------------
LEMMA StorageStep ==
    ASSUME CountingFacts
    PROVE  StorageInv /\ [Next]_vars => StorageInv'
  <1> SUFFICES ASSUME StorageInv, TypeOK, TypeOK', [Next]_vars PROVE StorageInv'
    BY TypeStep DEF StorageInv
  <1> USE DEF serverVars, ptrVars, callerVars, ghostVars
  <1>1. CASE FlushStep
    BY <1>1, StorageFlushStep
  <1>2. ASSUME NEW e \in Entries, Write(e[1], e[2]) \/ OtherDevice(e[1], e[2])
        PROVE  StorageInv'
    <2>1. e[1] \in Writers /\ e[2] \in Keys
      BY OwnersAssumption
    <2> QED
      BY <1>2, <2>1, WriteStep, OtherDeviceStep
  <1>3. ASSUME NEW o \in Owners, Commit(o)
        PROVE  StorageInv'
    BY <1>3, QuietStep, GrowsBy DEF Commit, StartFlush
  <1>4. CASE ForceClear
    BY <1>4, ForceClearStep
  <1>5. ASSUME NEW b \in BOOLEAN, SetSafe(b)
        PROVE  StorageInv'
    BY <1>5, QuietStep, GrowsBy DEF SetSafe, Idle, flushVars
  <1>6. CASE BeginUpdate
    BY <1>6, BeginUpdateStep
  <1>7. CASE EndUpdate
    BY <1>7, EndUpdateStep
  <1>8. CASE FailUpdate
    BY <1>8, FailUpdateStep
  <1>9. CASE UNCHANGED vars
    <2> USE <1>9 DEF vars, blockVars, flushVars
    <2>1. PointersComplete' /\ BufferedAvailable'
      BY DEF StorageInv, PointersComplete, BufferedAvailable, Available, Complete
    <2>2. ListInv' /\ CheckpointInv'
      BY DEF StorageInv, ListInv, CheckpointInv
    <2>3. CommitInv' /\ MergeInv'
      BY DEF StorageInv, CommitInv, Committing, MergeInv, IsFirst, Complete
    <2> QED
      BY <2>1, <2>2, <2>3 DEF StorageInv
  <1> QED
    BY <1>1, <1>2, <1>3, <1>4, <1>5, <1>6, <1>7, <1>8, <1>9 DEF Next

LEMMA StorageInit ==
    ASSUME CountingFacts
    PROVE  Init => StorageInv
  <1> SUFFICES ASSUME Init PROVE StorageInv
    OBVIOUS
  <1>1. TypeOK
    BY TypeInit
  <1>2. PointersComplete
    <2> SUFFICES ASSUME NEW w \in Writers, ptr[w].target # NoRoot
                 PROVE  Complete(ptr[w].target)
      BY DEF PointersComplete
    <2>1. ptr[w].target = EmptyTree
      BY DEF Init, Empty
    <2>2. Leaves(EmptyTree) = {}
      BY TargetTree DEF Target
    <2> QED
      BY <2>1, <2>2 DEF Init, Complete
  <1>3. IsFiniteSet(updates)
    BY DEF Init, CountingFacts
  <1>4. ListInv
    BY <1>3 DEF Init, ListInv
  <1>5. BufferedAvailable /\ CheckpointInv
    <2>1. updates = {} /\ 1..Len(cps) = {}
      BY SMT DEF Init
    <2> QED
      BY <2>1 DEF BufferedAvailable, CheckpointInv
  <1>6. CommitInv /\ MergeInv
    BY DEF Init, CommitInv, MergeInv, Committing
  <1> QED
    BY <1>1, <1>2, <1>4, <1>5, <1>6 DEF StorageInv

=============================================================================
