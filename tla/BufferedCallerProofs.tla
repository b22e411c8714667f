------------------------ MODULE BufferedCallerProofs ------------------------
(* Every other step of BufferedNetwork keeps the invariant of BufferedLineage: *)
(* those of the caller, and of the other device.                               *)
EXTENDS BufferedLineageProofs

USE Zenon

(* Advancing the last entry again forgets the first time. *)
LEMMA AdvancedTwice ==
    ASSUME CountingFacts, NEW list \in SUBSET Update, IsFiniteSet(list), Ordered(list),
           NEW l \in LastOf(list), NEW root \in Tree
    PROVE  /\ Cardinality(Advanced(list, l, root)) = Cardinality(list)
           /\ Advanced(list, l, root) # {} /\ list # {}
           /\ \A r \in Tree : Advance(Advanced(list, l, root), r) = Advance(list, r)
  <1> DEFINE rest == list \ {l}
             m == [l EXCEPT !.updated = root]
             new == rest \cup {m}
  <1>1. l \in list /\ l \in Update /\ m \in Update /\ m.pos = l.pos /\ l.pos \in Nat
    BY DEF LastOf, Update
  <1>2. \A x \in rest : x.pos \in Nat /\ x.pos < l.pos
    <2> TAKE x \in rest
    <2>1. x \in list /\ x # l /\ x.pos \in Nat
      BY DEF Update
    <2>2. x.pos <= l.pos
      BY <2>1 DEF LastOf
    <2>3. x.pos # l.pos
      BY <1>1, <2>1 DEF Ordered
    <2> QED
      BY <1>1, <2>1, <2>2, <2>3, SMT
  <1>3. m \notin rest
    <2> SUFFICES ASSUME m \in rest PROVE FALSE
      OBVIOUS
    <2>1. m.pos < l.pos
      BY <1>2
    <2> QED
      BY <1>1, <2>1, SMT
  <1>4. Cardinality(new) = Cardinality(list)
    BY DEF CountingFacts, Advanced
  <1>5. LastOf(list) = {l}
    BY <1>1, LastUnique, SMT DEF Ordered
  <1>6. LastOf(new) = {m}
    <2> HIDE DEF m
    <2>1. m \in new /\ \A x \in new : x.pos <= m.pos
      BY <1>1, <1>2, SMT
    <2>2. \A x \in rest : ~(m.pos <= x.pos)
      BY <1>1, <1>2, SMT
    <2> QED
      BY <2>1, <2>2 DEF LastOf
  <1>7. ASSUME NEW r \in Tree PROVE Advance(new, r) = Advance(list, r)
    <2>1. Advance(list, r) = rest \cup {[l EXCEPT !.updated = r]}
      BY <1>5 DEF Advance
    <2>2. Advance(new, r) = (new \ {m}) \cup {[m EXCEPT !.updated = r]}
      BY <1>6 DEF Advance
    <2>3. new \ {m} = rest
      BY <1>3
    <2>4. [m EXCEPT !.updated = r] = [l EXCEPT !.updated = r]
      BY <1>1 DEF Update
    <2> QED
      BY <2>1, <2>2, <2>3, <2>4
  <1> QED
    BY <1>1, <1>4, <1>7 DEF Advanced

(* The part of an advanced list is the same, or advanced. *)
LEMMA AdvancedPart ==
    ASSUME NEW list \in SUBSET Update, Ordered(list), NEW l \in LastOf(list), NEW root, NEW s \in Nat
    PROVE  \/ Part(Advanced(list, l, root), s) = Part(list, s)
           \/ /\ l \in LastOf(Part(list, s))
              /\ Part(Advanced(list, l, root), s) = Advanced(Part(list, s), l, root)
  <1> DEFINE m == [l EXCEPT !.updated = root]
  <1>1. l \in list /\ m.pos = l.pos
    BY DEF LastOf, Update
  <1>2. CASE l.pos <= s
    <2>1. l \in LastOf(Part(list, s))
      BY <1>1, <1>2 DEF LastOf, Part
    <2>2. Part(Advanced(list, l, root), s) = Advanced(Part(list, s), l, root)
      BY <1>1, <1>2 DEF Part, Advanced
    <2> QED
      BY <2>1, <2>2
  <1>3. CASE ~(l.pos <= s)
    BY <1>1, <1>3 DEF Part, Advanced
  <1> QED
    BY <1>2, <1>3

-----------------------------------------------------------------------------
(* Rollbacks. *)

LEMMA RolledBackPart ==
    ASSUME CountingFacts, TypeOK, ListInv, NEW cp \in Checkpoint, cp.generation = generation,
           Cardinality(Old(cp)) = cp.len
    PROVE  RolledBack(cp) = IF cp.last = {} THEN Old(cp)
                            ELSE Advance(Old(cp), CHOOSE r \in cp.last : TRUE)
  <1>1. Old(cp) = Part(updates, cp.since) /\ cp.since \in Nat
    BY DEF Old, Part, Checkpoint
  <1>2. updates \in SUBSET Update /\ IsFiniteSet(updates)
    BY DEF TypeOK, ListInv
  <1>3. Truncate(updates, cp.len) = Old(cp)
    BY <1>1, <1>2 DEF CountingFacts
  <1> QED
    BY <1>3, SMT DEF RolledBack

LEMMA OldType ==
    ASSUME CountingFacts, TypeOK, ListInv, NEW cp
    PROVE  Old(cp) \in SUBSET Update /\ IsFiniteSet(Old(cp)) /\ Ordered(Old(cp))
  <1>1. Old(cp) \subseteq updates
    BY DEF Old
  <1>2. updates \in SUBSET Update /\ IsFiniteSet(updates)
    BY DEF TypeOK, ListInv
  <1>3. IsFiniteSet(Old(cp))
    BY <1>1, <1>2 DEF CountingFacts
  <1> QED
    BY <1>1, <1>2, <1>3 DEF ListInv, Ordered

LEMMA LastRoot ==
    ASSUME NEW cp \in Checkpoint, cp.last # {}
    PROVE  (CHOOSE r \in cp.last : TRUE) \in Tree
  BY DEF Checkpoint

(* A rollback restores the same list as before, if the part of the list that *)
(* is older than the checkpoint is the same, or its last entry was advanced. *)
LEMMA RolledBackSame ==
    ASSUME CountingFacts, TypeOK, TypeOK', ListInv, ListInv', NEW cp \in Checkpoint,
           generation' = generation, cp.generation = generation, Snapshot(cp),
           \/ Old(cp)' = Old(cp)
           \/ \E l \in LastOf(Old(cp)), root \in Tree : Old(cp)' = Advanced(Old(cp), l, root)
    PROVE  Snapshot(cp)' /\ RolledBack(cp)' = RolledBack(cp)
  <1>1. PICK old, new : old = Old(cp) /\ new = Old(cp)'
    OBVIOUS
  <1>2. old \in SUBSET Update /\ IsFiniteSet(old) /\ Ordered(old)
    BY <1>1, OldType
  <1>3. Cardinality(old) = cp.len /\ (cp.last = {} => old = {})
    BY <1>1 DEF Snapshot
  <1>4. RolledBack(cp) = IF cp.last = {} THEN old
                         ELSE Advance(old, CHOOSE r \in cp.last : TRUE)
    BY <1>1, <1>3, RolledBackPart
  <1>5. /\ Cardinality(new) = cp.len /\ (cp.last = {} => new = {})
        /\ cp.last # {} => Advance(new, CHOOSE r \in cp.last : TRUE)
                           = Advance(old, CHOOSE r \in cp.last : TRUE)
    <2>1. CASE new = old
      BY <1>3, <2>1
    <2>2. ASSUME NEW l \in LastOf(old), NEW root \in Tree, new = Advanced(old, l, root)
          PROVE  /\ Cardinality(new) = cp.len /\ (cp.last = {} => new = {})
                 /\ cp.last # {} => Advance(new, CHOOSE r \in cp.last : TRUE)
                                    = Advance(old, CHOOSE r \in cp.last : TRUE)
      <3>1. /\ Cardinality(new) = Cardinality(old) /\ new # {} /\ old # {}
            /\ \A r \in Tree : Advance(new, r) = Advance(old, r)
        BY <1>2, <2>2, AdvancedTwice, SMT
      <3> QED
        BY <1>3, <3>1, LastRoot
    <2>3. new = old \/ \E l \in LastOf(old), root \in Tree : new = Advanced(old, l, root)
      BY <1>1
    <2> QED
      BY <2>1, <2>2, <2>3
  <1>6. Snapshot(cp)'
    BY <1>1, <1>5 DEF Snapshot
  <1>7. Truncate(updates', cp.len) = new
    <2>1. new = Part(updates', cp.since) /\ cp.since \in Nat
      BY <1>1 DEF Old, Part, Checkpoint
    <2>2. updates' \in SUBSET Update /\ IsFiniteSet(updates')
      BY DEF TypeOK, ListInv
    <2> QED
      BY <1>5, <2>1, <2>2 DEF CountingFacts
  <1>8. RolledBack(cp)' = IF cp.last = {} THEN new ELSE Advance(new, CHOOSE r \in cp.last : TRUE)
    BY <1>7, SMT DEF RolledBack
  <1> QED
    BY <1>3, <1>4, <1>5, <1>6, <1>8, SMT

-----------------------------------------------------------------------------
(* The steps of the caller that leave list, log and server as they are. *)

LEMMA QuietCaller ==
    ASSUME StorageInv, StorageInv', LineageInv,
           UNCHANGED <<history, discarded, ownerOf, ptr, landed, updates, generation>>
    PROVE  /\ HistoryInv' /\ ServerInv' /\ OrderInv'
           /\ Chain(updates, Len(history))' /\ Kept(updates, Len(history))'
           /\ ~Dropped => \A cp \in Checkpoint : Restorable(cp) => Restorable(cp)'
  <1>1. TypeOK /\ TypeOK' /\ HistoryInv /\ ServerInv /\ OrderInv /\ history' = history
    BY DEF StorageInv, LineageInv
  <1>2. HistoryInv' /\ LogGrows
    BY <1>1, SameLog
  <1>3. ServerInv'
    <2>1. landed' = landed \cup OnServer(ptr') /\ discarded' \subseteq Ours'
      BY <1>1 DEF ServerInv, Ours
    <2> QED
      BY <1>1, <1>2, <2>1, NoMove, ServerMoves
  <1>4. PICK list \in SUBSET Update, n \in 0..Len(history) : list = updates /\ n = Len(history)
    <2>1. updates \in SUBSET Update /\ Len(history) \in 0..Len(history)
      BY <1>1, SMT DEF TypeOK
    <2> QED
      BY <2>1
  <1>5. Chain(list, n)' /\ Kept(list, n)'
    BY <1>1, <1>2, <1>4, ChainGrows, KeptGrows DEF LineageInv, ServerInv
  <1>6. OrderInv'
    <2> SUFFICES ASSUME NEW u \in (Ours \ discarded)', NEW v \in (Ours \cap landed)', ~Landed(u)',
                        ownerOf'[history'[u].writer] = ownerOf'[history'[v].writer]
                 PROVE  v < u
      BY DEF OrderInv
    <2>1. ~Landed(u)
      BY <1>1, <1>2, LandedMoves
    <2> QED
      BY <1>1, <2>1 DEF OrderInv, Ours
  <1>7. ASSUME NEW cp \in Checkpoint, Restorable(cp), ~Dropped PROVE Restorable(cp)'
    <2>1. RolledBack(cp)' = RolledBack(cp) /\ (Snapshot(cp) => Snapshot(cp)')
      BY SMT DEF RolledBack, Snapshot, Old
    <2>2. StillRestorable(cp)
      BY <1>2 DEF StillRestorable
    <2> QED
      BY <1>1, <1>7, <2>1, <2>2, RestorableSame DEF Restorable
  <1> QED
    BY <1>2, <1>3, <1>4, <1>5, <1>6, <1>7

LEMMA CommitLineage ==
    ASSUME StorageInv, StorageInv', LineageInv, NEW o \in Owners, Commit(o)
    PROVE  LineageInv'
  <1>1. /\ UNCHANGED <<history, discarded, ownerOf, ptr, landed, updates, generation, opErr, cps>>
        /\ cps = <<>> /\ pc' = "owner" /\ StartFlush(updates, o)
    BY DEF Commit, StartFlush, envVars, ghostVars, callerVars, serverVars, ptrVars
  <1>2. ~opErr
    BY <1>1 DEF LineageInv, NestingInv
  <1>3. \A u \in updates : ownerOf[u.writer] \in todo'
    BY <1>1 DEF StartFlush
  <1>4. FlushInv'
    BY <1>1, <1>3 DEF FlushInv, Committing
  <1>5. NestingInv' /\ Len(cps') = 0
    BY <1>1, <1>2, SMT DEF NestingInv
  <1> QED
    BY <1>1, <1>4, <1>5, QuietCaller, SMT DEF LineageInv

LEMMA SetSafeLineage ==
    ASSUME StorageInv, StorageInv', LineageInv, NEW b \in BOOLEAN, SetSafe(b)
    PROVE  LineageInv'
  <1>1. /\ UNCHANGED <<history, discarded, ownerOf, ptr, landed, updates, generation, opErr, cps, pc>>
        /\ cps = <<>> /\ pc' = "idle"
    BY DEF SetSafe, Idle, envVars, ghostVars, callerVars, serverVars, ptrVars, flushVars
  <1>2. ~opErr
    BY <1>1 DEF LineageInv, NestingInv
  <1>3. NestingInv' /\ Len(cps') = 0
    BY <1>1, <1>2, SMT DEF NestingInv
  <1> QED
    BY <1>1, <1>3, QuietCaller, FlushEnds, SMT DEF LineageInv

LEMMA EndUpdateLineage ==
    ASSUME StorageInv, StorageInv', LineageInv, EndUpdate
    PROVE  LineageInv'
  <1>1. /\ UNCHANGED <<history, discarded, ownerOf, ptr, landed, updates, generation, opErr, pc>>
        /\ pc = "idle" /\ ~opErr /\ cps # <<>> /\ DropCheckpoint
    BY DEF EndUpdate, Idle, envVars, ghostVars, serverVars, ptrVars, flushVars
  <1>2. \A i \in 1..Len(cps') : i \in 1..Len(cps) /\ cps'[i] = cps[i]
    BY <1>1, DropFacts DEF StorageInv
  <1>3. ~Dropped
    BY <1>1 DEF Dropped
  <1>4. ASSUME NEW i \in 1..Len(cps') PROVE Restorable(cps[i])'
    <2>1. PICK cp : cp = cps[i]
      OBVIOUS
    <2>2. cp \in Checkpoint /\ Restorable(cp) /\ cps'[i] = cp
      BY <1>2, <2>1, CheckpointsType DEF LineageInv, StorageInv
    <2>3. Restorable(cp)'
      BY <1>1, <1>3, <2>2, QuietCaller
    <2> QED
      BY <2>2, <2>3
  <1>5. NestingInv'
    BY <1>1, <1>2 DEF LineageInv, NestingInv
  <1> QED
    BY <1>1, <1>4, <1>5, QuietCaller, FlushEnds DEF LineageInv

(* A new checkpoint, to which a rollback would restore the list as it is. *)
Begins(cp) ==
    /\ Len(cps') = Len(cps) + 1 /\ Len(cps) \in Nat /\ cps'[Len(cps) + 1] = cp
    /\ \A i \in 1..Len(cps) : cps'[i] = cps[i]
    /\ cp.generation = generation /\ cp.since = Len(history)
    /\ Restorable(cp) /\ RolledBack(cp) = updates

LEMMA BeginRestores ==
    ASSUME CountingFacts, StorageInv, StorageInv', LineageInv, BeginUpdate
    PROVE  \E cp \in Checkpoint : Begins(cp)
  <1>2. PICK cp : /\ cps' = Append(cps, cp)
                  /\ cp = [generation |-> generation, len |-> Cardinality(updates),
                           last |-> {u.updated : u \in LastOf(updates)}, since |-> Len(history)]
    BY DEF BeginUpdate
  <1>3. TypeOK /\ TypeOK' /\ ListInv /\ cps \in Seq(Checkpoint) /\ cps' \in Seq(Checkpoint)
    BY DEF StorageInv, TypeOK
  <1>4. /\ Len(cps') = Len(cps) + 1 /\ Len(cps) \in Nat /\ cps'[Len(cps) + 1] = cp
        /\ \A i \in 1..Len(cps) : cps'[i] = cps[i]
    BY <1>2, <1>3, SMT
  <1>5. cp \in Checkpoint /\ cp.generation = generation /\ cp.since = Len(history)
    <2>1. cps'[Len(cps) + 1] \in Checkpoint
      BY <1>3, <1>4, SMT
    <2> QED
      BY <1>2, <1>4, <2>1
  <1>6. Old(cp) = updates /\ Cardinality(Old(cp)) = cp.len
    <2>1. Old(cp) = updates
      BY <1>3, <1>5 DEF Old, ListInv
    <2> QED
      BY <1>2, <2>1
  <1>7. updates \in SUBSET Update /\ Ordered(updates) /\ \A u \in updates : u.pos <= Len(history)
    BY <1>3 DEF TypeOK, ListInv, Ordered
  <1>8. cp.last = {u.updated : u \in LastOf(updates)}
    BY <1>2
  <1>9. cp.last = {} => updates = {}
    <2>1. Len(history) \in Nat
      BY <1>3, SMT DEF TypeOK
    <2> QED
      BY <1>7, <1>8, <2>1 DEF CountingFacts
  <1>10. RolledBack(cp) = updates
    <2>1. CASE cp.last = {}
      BY <1>3, <1>5, <1>6, <2>1, RolledBackPart
    <2>2. CASE cp.last # {}
      <3>1. PICK r : r = CHOOSE x \in cp.last : TRUE
        OBVIOUS
      <3>2. r \in cp.last
        BY <2>2, <3>1
      <3>3. PICK l \in LastOf(updates) : l.updated = r
        BY <1>8, <3>2
      <3>4. LastOf(updates) = {l} /\ l \in updates
        BY <1>7, <3>3, LastUnique, SMT DEF Ordered, LastOf
      <3>5. [l EXCEPT !.updated = r] = l
        BY <1>7, <3>3, <3>4 DEF Update
      <3>6. Advance(updates, r) = updates
        BY <3>4, <3>5 DEF Advance
      <3> QED
        BY <1>3, <1>5, <1>6, <2>2, <3>1, <3>6, RolledBackPart
    <2> QED
      BY <2>1, <2>2
  <1>11. Restorable(cp)
    <2>1. cp.since <= Len(history)
      BY <1>3, <1>5, SMT DEF TypeOK
    <2> QED
      BY <1>5, <1>6, <1>9, <1>10, <2>1 DEF Restorable, Snapshot, LineageInv
  <1> QED
    BY <1>4, <1>5, <1>10, <1>11 DEF Begins

(* The older checkpoints restore what they did, the new one the list.        *)
LEMMA BeginRestoresSame ==
    ASSUME BeginUpdate, NEW cp, Begins(cp)
    PROVE  \E n \in Nat : /\ Len(cps') = n + 1 /\ RestoresSame(n)
                          /\ RolledBack(cps[n + 1])' = updates
  <1>1. UNCHANGED <<updates, generation>>
    BY DEF BeginUpdate
  <1>2. PICK n \in Nat : n = Len(cps)
    BY DEF Begins
  <1>3. /\ Len(cps') = n + 1 /\ cps'[n + 1] = cp /\ RolledBack(cp) = updates
        /\ \A i \in 1..n : i \in 1..Len(cps) /\ cps'[i] = cps[i]
    BY <1>2 DEF Begins
  <1>4. ASSUME NEW c PROVE RolledBack(c)' = RolledBack(c)
    BY <1>1, SMT DEF RolledBack
  <1>5. RolledBack(cps[n + 1])' = updates
    BY <1>3, <1>4
  <1>6. ASSUME NEW i \in 1..n PROVE RolledBack(cps[i])' = RolledBack(cps[i])
    <2>1. PICK c : c = cps[i] /\ c = cps'[i]
      BY <1>3
    <2> QED
      BY <1>4, <2>1
  <1> QED
    BY <1>3, <1>5, <1>6 DEF RestoresSame

LEMMA BeginUpdateLineage ==
    ASSUME CountingFacts, StorageInv, StorageInv', LineageInv, ~AnyCheckpoint, BeginUpdate
    PROVE  LineageInv'
  <1>1. /\ UNCHANGED <<history, discarded, ownerOf, ptr, landed, updates, generation, opErr, pc>>
        /\ pc = "idle" /\ ~opErr /\ \A w, x \in Writers : ownerOf[w] = ownerOf[x]
    BY DEF BeginUpdate, Idle, envVars, ghostVars, serverVars, ptrVars, flushVars
  <1>2. PICK cp \in Checkpoint : Begins(cp)
    BY BeginRestores
  <1>3. TypeOK
    BY DEF StorageInv
  <1>4. /\ Len(cps') = Len(cps) + 1 /\ Len(cps) \in Nat /\ cps'[Len(cps) + 1] = cp
        /\ \A i \in 1..Len(cps) : cps'[i] = cps[i]
    BY <1>2 DEF Begins
  <1>5. cp \in Checkpoint /\ cp.generation = generation /\ cp.since = Len(history)
    BY <1>2 DEF Begins
  <1>11. Restorable(cp)
    BY <1>2 DEF Begins
  <1>12. ~Dropped
    BY <1>1 DEF Dropped
  <1>13. ASSUME NEW i \in 1..Len(cps') PROVE Restorable(cps[i])'
    <2>1. PICK c : c = cps'[i]
      OBVIOUS
    <2>2. c \in Checkpoint /\ Restorable(c)
      <3>1. CASE i = Len(cps) + 1
        BY <1>4, <1>5, <1>11, <2>1, <3>1
      <3>2. CASE i # Len(cps) + 1
        <4>1. i \in 1..Len(cps)
          BY <1>4, <3>2, SMT
        <4> QED
          BY <1>3, <1>4, <2>1, <4>1, CheckpointsType DEF LineageInv
      <3> QED
        BY <3>1, <3>2
    <2>3. Restorable(c)'
      BY <1>1, <1>12, <2>2, QuietCaller
    <2> QED
      BY <2>1, <2>3
  <1>14. NestingInv'
    <2>1. ASSUME NEW i \in 1..Len(cps'), NEW j \in 1..Len(cps'), i < j
          PROVE  cps'[i].since <= cps'[j].since /\ cps'[i].generation <= cps'[j].generation
      <3>1. i \in 1..Len(cps)
        BY <1>4, <2>1, SMT
      <3>2. CASE j = Len(cps) + 1
        <4>1. cps[i].since <= Len(history) /\ cps[i].generation <= generation
          BY <3>1 DEF LineageInv, Restorable, StorageInv, CheckpointInv
        <4> QED
          BY <1>4, <1>5, <3>1, <3>2, <4>1
      <3>3. CASE j # Len(cps) + 1
        <4>1. j \in 1..Len(cps)
          BY <1>4, <3>3, SMT
        <4> QED
          BY <1>4, <2>1, <3>1, <4>1 DEF LineageInv, NestingInv
      <3> QED
        BY <3>2, <3>3
    <2> QED
      BY <1>1, <2>1 DEF NestingInv
  <1> QED
    BY <1>1, <1>13, <1>14, QuietCaller, FlushEnds DEF LineageInv

LEMMA ForceClearLineage ==
    ASSUME StorageInv, StorageInv', LineageInv, ForceClear
    PROVE  LineageInv'
  <1>1. /\ UNCHANGED <<history, ownerOf, ptr, landed, opErr, cps, pc>> /\ updates' = {}
        /\ cps = <<>> /\ pc' = "idle" /\ discarded' = discarded \cup Ours
    BY DEF ForceClear, Idle, envVars, callerVars, serverVars, ptrVars, flushVars
  <1>2. TypeOK /\ TypeOK' /\ HistoryInv /\ ServerInv
    BY DEF StorageInv, LineageInv
  <1>3. HistoryInv' /\ LogGrows
    BY <1>1, <1>2, SameLog
  <1>4. Ours' = Ours /\ (Ours \ discarded)' = {}
    BY <1>1 DEF Ours
  <1>5. ServerInv'
    <2>1. landed' = landed \cup OnServer(ptr') /\ discarded' \subseteq Ours'
      BY <1>1, <1>2, <1>4 DEF ServerInv
    <2> QED
      BY <1>1, <1>2, <1>3, <2>1, NoMove, ServerMoves
  <1>6. Chain(updates, Len(history))' /\ Kept(updates, Len(history))' /\ OrderInv'
    BY <1>1, <1>4 DEF Chain, Kept, OrderInv
  <1>7. NestingInv' /\ Len(cps') = 0
    BY <1>1, SMT DEF LineageInv, NestingInv
  <1> QED
    BY <1>1, <1>3, <1>5, <1>6, <1>7, FlushEnds, SMT DEF LineageInv

-----------------------------------------------------------------------------
(* The steps that write, roll back, or come from elsewhere. *)

LEMMA OrderGrows ==
    ASSUME TypeOK, TypeOK', HistoryInv, ServerInv, OrderInv, LogGrows, landed \subseteq landed',
           discarded \subseteq discarded', ownerOf' = ownerOf,
           \A v \in (Ours \cap landed)' : v \in landed
    PROVE  OrderInv'
  <1> SUFFICES ASSUME NEW u \in (Ours \ discarded)', NEW v \in (Ours \cap landed)', ~Landed(u)',
                      ownerOf'[history'[u].writer] = ownerOf'[history'[v].writer]
               PROVE  v < u
    BY DEF OrderInv
  <1>1. v \in landed /\ v \in 1..Len(history) /\ u \in 1..Len(history') /\ Len(history) \in Nat
    BY DEF ServerInv, Ours, LogGrows
  <1>2. CASE u \in 1..Len(history)
    <2>1. ~Landed(u)
      BY LandedMoves
    <2>2. u \in Ours \ discarded /\ v \in Ours \cap landed
      BY <1>1, <1>2, LineGrows
    <2>3. history'[u] = history[u] /\ history'[v] = history[v]
      BY <1>1, <1>2 DEF LogGrows
    <2> QED
      BY <2>1, <2>2, <2>3 DEF OrderInv
  <1>3. CASE u \notin 1..Len(history)
    BY <1>1, <1>3, SMT
  <1> QED
    BY <1>2, <1>3

LEMMA ChainWidenNext ==
    ASSUME NEW list \in SUBSET Update, NEW n \in Nat, NEW m \in Nat, n <= m, Chain(list, n)'
    PROVE  Chain(list, m)'
  <1>1. \A u \in list : u.pos \in Nat /\ u.updated \in [Keys -> Nat]
    BY DEF Update, Tree
  <1>2. \A u \in list : u.pos <= m /\ \A k \in Keys : u.updated[k] <= m
    <2> SUFFICES ASSUME NEW u \in list PROVE u.pos <= m /\ \A k \in Keys : u.updated[k] <= m
      OBVIOUS
    <2>1. u.pos <= n /\ \A k \in Keys : u.updated[k] <= n
      BY DEF Chain
    <2> QED
      BY <1>1, <2>1, SMT
  <1> QED
    BY <1>2 DEF Chain

(* A rollback restores the same list as before. *)
LEMMA WriteRestores ==
    ASSUME CountingFacts, TypeOK, TypeOK', ListInv, ListInv', Len(history) \in Nat, pc = "idle", ~opErr,
           generation' = generation, NEW w, NEW root \in Tree, Entered(w, root),
           NEW cp \in Checkpoint, Restorable(cp)
    PROVE  RolledBack(cp)' = RolledBack(cp) /\ (cp.generation = generation' => Snapshot(cp)')
  <1>1. CASE cp.generation # generation
    BY <1>1 DEF RolledBack
  <1>2. CASE cp.generation = generation
    <2>1. Snapshot(cp)
      BY <1>2 DEF Restorable, Dropped
    <2>2. cp.since \in Nat /\ cp.since <= Len(history)
      BY DEF Checkpoint, Restorable
    <2>3. Old(cp) = Part(updates, cp.since) /\ Old(cp)' = Part(updates', cp.since)
      BY DEF Old, Part
    <2>4. ASSUME NEW new, new.pos = Len(history) + 1, updates' = updates \cup {new}
          PROVE  Old(cp)' = Old(cp)
      BY <2>2, <2>3, <2>4, SMT DEF Part
    <2>5. ASSUME NEW l \in LastOf(updates), updates' = Advanced(updates, l, root)
          PROVE  \/ Old(cp)' = Old(cp)
                 \/ l \in LastOf(Old(cp)) /\ Old(cp)' = Advanced(Old(cp), l, root)
      <3>1. updates \in SUBSET Update /\ Ordered(updates)
        BY DEF TypeOK, ListInv, Ordered
      <3> QED
        BY <2>2, <2>3, <2>5, <3>1, AdvancedPart, SMT
    <2>6. \/ Old(cp)' = Old(cp)
          \/ \E l \in LastOf(Old(cp)) : Old(cp)' = Advanced(Old(cp), l, root)
      <3>1. PICK new :
              \/ new.pos = Len(history) + 1 /\ updates' = updates \cup {new}
              \/ \E l \in LastOf(updates) : /\ new = [l EXCEPT !.updated = root]
                                            /\ updates' = (updates \ {l}) \cup {new}
        BY DEF Entered
      <3>2. \/ updates' = updates \cup {new} /\ new.pos = Len(history) + 1
            \/ \E l \in LastOf(updates) : updates' = Advanced(updates, l, root)
        BY <3>1 DEF Advanced
      <3> QED
        BY <2>4, <2>5, <3>2
    <2> QED
      BY <1>2, <2>1, <2>6, RolledBackSame
  <1> QED
    BY <1>1, <1>2

LEMMA WriteLineage ==
    ASSUME CountingFacts, StorageInv, StorageInv', LineageInv,
           NEW w \in Writers, NEW k \in Keys, Write(w, k)
    PROVE  LineageInv' /\ RestoresSame(Len(cps'))
  <1>1. /\ UNCHANGED <<ownerOf, ptr, landed, generation, opErr, cps, discarded>>
        /\ pc = "idle" /\ ~opErr /\ (UNCHANGED flushVars \/ StartFlush(updates', ownerOf[w]))
    BY DEF Write, Idle, envVars, callerVars, serverVars, ptrVars
  <1>2. PICK seen \in Seen(w) : \E root : Enters(w, k, seen, root)
    BY <1>1 DEF Write, Enters
  <1>20. PICK root : Enters(w, k, seen, root)
    BY <1>2
  <1>3. TypeOK /\ TypeOK' /\ ListInv /\ ListInv' /\ HistoryInv /\ ServerInv /\ OrderInv /\ NestingInv
    BY DEF StorageInv, LineageInv
  <1>4. /\ LogGrows /\ HistoryInv' /\ Len(history') = Len(history) + 1
        /\ Chain(updates, Len(history))' /\ Kept(updates, Len(history))'
    BY <1>20, <1>3, WriteList
  <1>5. Entered(w, root)
    BY <1>20, <1>3, WriteList
  <1>6. root \in Tree
    <2>1. TreeOf(seen.target) \in Tree
      <3>1. seen \in Pointer
        BY <1>3, SeenType
      <3>2. seen.target \in Target
        BY <3>1 DEF Pointer
      <3> QED
        BY <3>2, TargetTree
    <2>2. Len(history) + 1 \in Nat
      BY <1>4 DEF LogGrows
    <2> QED
      BY <1>20, <2>1, <2>2, WriteLeaves DEF Enters
  <1>7. ServerInv'
    <2>1. landed' = landed \cup OnServer(ptr')
      BY <1>1, <1>3 DEF ServerInv
    <2>2. discarded' \subseteq Ours'
      BY <1>1, <1>3, <1>4, LineGrows DEF ServerInv, Ours
    <2> QED
      BY <1>1, <1>3, <1>4, <2>1, <2>2, NoMove, ServerMoves
  <1>8. OrderInv'
    BY <1>1, <1>3, <1>4, OrderGrows
  <1>9. ASSUME NEW i \in 1..Len(cps')
        PROVE  /\ Restorable(cps[i])'
               /\ i \in 1..Len(cps) /\ RolledBack(cps[i])' = RolledBack(cps[i])
    <2>1. PICK cp : cp = cps[i]
      OBVIOUS
    <2>2. cp \in Checkpoint /\ Restorable(cp) /\ cps'[i] = cp /\ i \in 1..Len(cps)
      BY <1>1, <1>3, <2>1, CheckpointsType DEF LineageInv
    <2>3. StillRestorable(cp)
      BY <1>1, <1>4 DEF StillRestorable
    <2>4. RolledBack(cp)' = RolledBack(cp) /\ (cp.generation = generation' => Snapshot(cp)')
      BY <1>1, <1>3, <1>4, <1>5, <1>6, <2>2, WriteRestores DEF LogGrows
    <2>5. Restorable(cp)'
      BY <1>3, <2>2, <2>3, <2>4, RestorableSame
    <2> QED
      BY <2>1, <2>2, <2>4, <2>5
  <1>10. NestingInv'
    BY <1>1, <1>3 DEF NestingInv
  <1>11. FlushInv'
    <2>1. CASE UNCHANGED flushVars
      BY <1>1, <2>1, FlushEnds DEF flushVars
    <2>2. CASE StartFlush(updates', ownerOf[w])
      <3>1. /\ pc' = "owner" /\ \A u \in updates' : ownerOf[u.writer] \in todo'
        BY <2>2 DEF StartFlush
      <3>2. todo' \subseteq {ownerOf[x] : x \in Writers}
        <4>1. \A u \in updates' : u.writer \in Writers
          BY <1>3 DEF TypeOK, Update
        <4> QED
          BY <2>2, <4>1 DEF StartFlush
      <3> QED
        BY <1>1, <3>1, <3>2 DEF FlushInv, Committing
    <2> QED
      BY <1>1, <2>1, <2>2
  <1> QED
    BY <1>4, <1>7, <1>8, <1>9, <1>10, <1>11 DEF LineageInv, RestoresSame

-----------------------------------------------------------------------------
(* A rollback leaves the older checkpoints what they were. *)

LEMMA NothingBack ==
    ASSUME TypeOK, updates = {}, NEW cp
    PROVE  RolledBack(cp) = {}
  <1>1. Truncate(updates, cp.len) = {}
    BY DEF Truncate
  <1>2. \A r : Advance({}, r) = {}
    BY DEF Advance, LastOf
  <1> QED
    BY <1>1, <1>2 DEF RolledBack

LEMMA RolledBackInner ==
    ASSUME CountingFacts, TypeOK, ListInv, NEW cp \in Checkpoint, NEW in \in Checkpoint,
           cp.since <= in.since, in.generation = generation, Snapshot(in),
           NEW list, list = RolledBack(in)
    PROVE  \/ Part(list, cp.since) = Old(cp)
           \/ \E l \in LastOf(Old(cp)), root \in Tree : Part(list, cp.since) = Advanced(Old(cp), l, root)
  <1>1. PICK old \in SUBSET Update : old = Old(in) /\ Ordered(old)
    BY OldType
  <1>2. Part(old, cp.since) = Old(cp) /\ cp.since \in Nat
    <2>1. cp.since \in Nat /\ in.since \in Nat
      BY DEF Checkpoint
    <2>2. \A u \in updates : u.pos \in Nat
      BY DEF TypeOK, Update
    <2> QED
      BY <1>1, <2>1, <2>2, SMT DEF Part, Old
  <1>3. list = IF in.last = {} THEN old ELSE Advance(old, CHOOSE r \in in.last : TRUE)
    BY <1>1, RolledBackPart DEF Snapshot
  <1>4. CASE in.last = {}
    BY <1>2, <1>3, <1>4
  <1>5. CASE in.last # {}
    <2>1. PICK r \in Tree : list = Advance(old, r)
      BY <1>3, <1>5, LastRoot
    <2>2. CASE old = {}
      <3>1. list = {}
        BY <2>1, <2>2 DEF Advance, LastOf
      <3> QED
        BY <1>2, <2>2, <3>1
    <2>3. CASE old # {}
      <3>1. in.since \in Nat /\ \A u \in old : u.pos <= in.since
        BY <1>1 DEF Checkpoint, Old
      <3>2. PICK l : l \in LastOf(old)
        BY <2>3, <3>1 DEF CountingFacts
      <3>3. LastOf(old) = {l}
        BY <1>1, <3>2, LastUnique, SMT DEF Ordered
      <3>4. list = Advanced(old, l, r)
        BY <2>1, <3>3 DEF Advance, Advanced
      <3> QED
        BY <1>1, <1>2, <3>2, <3>4, AdvancedPart, SMT
    <2> QED
      BY <2>2, <2>3
  <1> QED
    BY <1>4, <1>5

LEMMA OuterKept ==
    ASSUME CountingFacts, TypeOK, TypeOK', ListInv, ListInv',
           NEW cp \in Checkpoint, NEW in \in Checkpoint, Restorable(cp), Restorable(in),
           cp.since <= in.since, cp.generation <= in.generation, in.generation <= generation,
           generation' = generation, pc = "idle", opErr', updates' = RolledBack(in)
    PROVE  /\ RolledBack(cp)' = RolledBack(cp)
           /\ cp.generation = generation' => (Dropped \/ Snapshot(cp))'
  <1>1. CASE cp.generation # generation
    BY <1>1 DEF RolledBack
  <1>2. CASE cp.generation = generation
    <2>1. in.generation = generation
      <3>1. cp.generation \in Nat /\ in.generation \in Nat
        BY DEF Checkpoint
      <3> QED
        BY <1>2, <3>1, SMT
    <2>2. CASE updates = {}
      <3>1. updates' = {} /\ RolledBack(cp) = {}
        BY <2>2, NothingBack
      <3>2. RolledBack(cp)' = {}
        <4>1. Truncate(updates', cp.len) = {} /\ \A r : Advance({}, r) = {}
          BY <3>1 DEF Truncate, Advance, LastOf
        <4> QED
          BY <4>1 DEF RolledBack
      <3> QED
        BY <3>1, <3>2 DEF Dropped
    <2>3. CASE updates # {}
      <3>1. Snapshot(cp) /\ Snapshot(in)
        BY <1>2, <2>1, <2>3 DEF Restorable, Dropped
      <3>2. \/ Part(updates', cp.since) = Old(cp)
            \/ \E l \in LastOf(Old(cp)), root \in Tree :
                  Part(updates', cp.since) = Advanced(Old(cp), l, root)
        BY <2>1, <3>1, RolledBackInner, SMT
      <3>3. Old(cp)' = Part(updates', cp.since)
        BY DEF Old, Part
      <3>4. Snapshot(cp)' /\ RolledBack(cp)' = RolledBack(cp)
        BY <1>2, <3>1, <3>2, <3>3, RolledBackSame
      <3> QED
        BY <3>4
    <2> QED
      BY <2>2, <2>3
  <1> QED
    BY <1>1, <1>2

LEMMA FailUpdateLineage ==
    ASSUME CountingFacts, StorageInv, StorageInv', LineageInv, FailUpdate
    PROVE  LineageInv' /\ RestoresSame(Len(cps'))
  <1>1. /\ UNCHANGED <<history, ownerOf, ptr, landed, generation, pc>>
        /\ pc = "idle" /\ cps # <<>> /\ DropCheckpoint /\ opErr' = (cps' # <<>>)
        /\ updates' = RolledBack(Innermost)
        /\ discarded' = discarded \cup {v \in Ours : v > Innermost.since}
    BY DEF FailUpdate, Idle, envVars, serverVars, ptrVars, flushVars
  <1>2. TypeOK /\ TypeOK' /\ ListInv /\ ListInv' /\ HistoryInv /\ ServerInv /\ OrderInv
    BY DEF StorageInv, LineageInv
  <1>3. /\ Len(cps) \in Nat \ {0} /\ Len(cps') = Len(cps) - 1
        /\ \A i \in 1..Len(cps') : i \in 1..Len(cps) /\ cps'[i] = cps[i] /\ i < Len(cps)
    BY <1>1, <1>2, DropFacts
  <1>4. PICK in : in = Innermost
    OBVIOUS
  <1>5. in = cps[Len(cps)] /\ Len(cps) \in 1..Len(cps)
    BY <1>3, <1>4, SMT DEF Innermost
  <1>6. in \in Checkpoint /\ Restorable(in) /\ in.generation <= generation
    BY <1>2, <1>5, CheckpointsType DEF LineageInv, StorageInv, CheckpointInv
  <1>7. HistoryInv' /\ LogGrows
    BY <1>1, <1>2, SameLog
  <1>8. /\ Ours' = Ours /\ discarded \subseteq discarded' /\ discarded' \subseteq Ours'
        /\ landed \subseteq landed' /\ landed \subseteq 1..Len(history)
        /\ \A v \in discarded' : v \in discarded \/ v > in.since
    BY <1>1, <1>2, <1>4 DEF ServerInv, Ours
  <1>9. ServerInv'
    <2>1. landed' = landed \cup OnServer(ptr')
      BY <1>1, <1>2 DEF ServerInv
    <2> QED
      BY <1>1, <1>2, <1>7, <1>8, <2>1, NoMove, ServerMoves
  <1>10. Chain(updates, Len(history))' /\ Kept(updates, Len(history))'
    <2>1. PICK n : n = in.since
      OBVIOUS
    <2>2. n \in Nat /\ n <= Len(history) /\ Len(history) \in Nat /\ n \in 0..Len(history)
      <3>1. n \in Nat /\ Len(history) \in Nat
        BY <1>6, <1>7, <2>1 DEF Checkpoint, LogGrows
      <3>2. n <= Len(history)
        BY <1>6, <2>1 DEF Restorable
      <3> QED
        BY <3>1, <3>2, SMT
    <2>3. PICK list \in SUBSET Update : list = RolledBack(in)
      BY <1>2, <1>6, RolledBackType
    <2>4. Chain(list, n) /\ Kept(list, n)
      BY <1>6, <2>1, <2>3 DEF Restorable
    <2>5. Chain(list, n)' /\ Kept(list, n)'
      BY <1>2, <1>7, <1>8, <2>1, <2>2, <2>3, <2>4, ChainGrows, KeptGrows
    <2>6. PICK m \in Nat : m = Len(history) /\ m = Len(history')
      BY <1>1, <2>2
    <2>7. Chain(list, m)'
      BY <2>2, <2>5, <2>6, ChainWidenNext
    <2>8. Kept(list, m)'
      <3> SUFFICES ASSUME NEW v \in (Ours \ discarded)' PROVE (Landed(v) \/ Buffered(v, list))'
        BY DEF Kept
      <3>1. v \in Nat /\ ~(v > n)
        BY <1>1, <1>4, <1>8, <2>1, <2>2, SMT DEF Ours
      <3>2. v <= n
        BY <2>2, <3>1, SMT
      <3> QED
        BY <2>5, <3>2 DEF Kept
    <2> QED
      BY <1>1, <1>4, <2>3, <2>6, <2>7, <2>8
  <1>11. OrderInv'
    BY <1>1, <1>2, <1>7, <1>8, OrderGrows
  <1>12. ASSUME NEW i \in 1..Len(cps')
         PROVE  /\ Restorable(cps[i])'
                /\ i \in 1..Len(cps) /\ RolledBack(cps[i])' = RolledBack(cps[i])
    <2>1. PICK cp : cp = cps[i]
      OBVIOUS
    <2>2. cp \in Checkpoint /\ Restorable(cp) /\ cps'[i] = cp /\ i \in 1..Len(cps)
      BY <1>2, <1>3, <2>1, CheckpointsType DEF LineageInv
    <2>3. cp.since <= in.since /\ cp.generation <= in.generation
      BY <1>3, <1>5, <2>1 DEF LineageInv, NestingInv
    <2>4. opErr'
      <3>1. cps' # <<>>
        BY <1>3, SMT
      <3> QED
        BY <1>1, <3>1
    <2>5. /\ RolledBack(cp)' = RolledBack(cp)
          /\ cp.generation = generation' => (Dropped \/ Snapshot(cp))'
      BY <1>1, <1>2, <1>4, <1>6, <2>2, <2>3, <2>4, OuterKept
    <2>6. StillRestorable(cp)
      <3>1. ASSUME NEW v \in discarded', v \notin discarded PROVE v > cp.since
        <4>1. v > in.since /\ v \in Nat
          BY <1>1, <1>4, <3>1, SMT DEF Ours
        <4>2. cp.since \in Nat /\ in.since \in Nat
          BY <1>6, <2>2 DEF Checkpoint
        <4> QED
          BY <2>3, <4>1, <4>2, SMT
      <3> QED
        BY <1>7, <1>8, <3>1 DEF StillRestorable
    <2>7. Restorable(cp)'
      BY <1>2, <2>2, <2>5, <2>6, RestorableSame
    <2> QED
      BY <2>1, <2>2, <2>5, <2>7
  <1>13. NestingInv'
    <2>1. /\ \A i, j \in 1..Len(cps) : i < j =>
                cps[i].since <= cps[j].since /\ cps[i].generation <= cps[j].generation
          /\ \A w, x \in Writers : ownerOf[w] = ownerOf[x]
      BY <1>1 DEF LineageInv, NestingInv
    <2>2. \A i, j \in 1..Len(cps') : i < j =>
                cps'[i].since <= cps'[j].since /\ cps'[i].generation <= cps'[j].generation
      BY <1>3, <2>1
    <2> QED
      BY <1>1, <2>1, <2>2 DEF NestingInv, Idle
  <1>14. FlushInv'
    BY <1>1, FlushEnds
  <1> QED
    BY <1>7, <1>9, <1>10, <1>11, <1>12, <1>13, <1>14 DEF LineageInv, RestoresSame

-----------------------------------------------------------------------------
(* Another device writes to the server. *)

LEMMA OtherDeviceLineage ==
    ASSUME StorageInv, StorageInv', LineageInv, NEW w \in Writers, NEW k \in Keys, OtherDevice(w, k)
    PROVE  LineageInv' /\ \A x \in Writers : Moves(x)
  <1>1. UNCHANGED <<ownerOf, updates, generation, pc, todo, cur, writes, remote, opErr, cps, discarded>>
    BY DEF OtherDevice, envVars, callerVars, flushVars
  <1>2. PICK s : s = TreeOf(ptr[w].target)
    OBVIOUS
  <1>3. PICK v, root : /\ v = Len(history) + 1 /\ root = [s EXCEPT ![k] = v]
                       /\ SetPointer(w, root, ptr[w].seq + 1) /\ NewVersion(w, k, s[k], FALSE)
    BY <1>2 DEF OtherDevice
  <1>4. TypeOK /\ TypeOK' /\ ListInv /\ HistoryInv /\ ServerInv /\ OrderInv /\ NestingInv /\ FlushInv
    BY DEF StorageInv, LineageInv
  <1>5. s \in Tree /\ Placed(w, s) /\ Extends(s, s)
    <2>1. s \in Tree /\ Placed(w, s)
      BY <1>2, <1>4, ServerTree DEF ServerInv
    <2> QED
      BY <1>4, <2>1, ExtendsOrder
  <1>16. /\ LogGrows /\ HistoryInv' /\ Len(history') = v
         /\ history'[v] = [writer |-> w, key |-> k, parent |-> s[k], ours |-> FALSE]
    <2>1. s[k] \in 0..Len(history)
      BY <1>4, <1>5, PlacedRange
    <2>2. s[k] # 0 => history[s[k]].writer = w /\ history[s[k]].key = k
      BY <1>5 DEF Placed
    <2>3. FALSE \in BOOLEAN
      OBVIOUS
    <2> QED
      BY <1>3, <1>4, <2>1, <2>2, <2>3, NewVersionFacts
  <1>6. LogGrows /\ HistoryInv' /\ Len(history') = v /\ v \in Nat /\ Len(history) \in Nat
    BY <1>3, <1>16 DEF LogGrows
  <1>7. root \in Tree /\ Placed(w, root)' /\ Extends(s, root)'
    <2>1. root \in Tree
      BY <1>3, <1>5, <1>6, WriteLeaves
    <2>2. history'[v].writer = w /\ history'[v].key = k /\ history'[v].parent = s[k]
      BY <1>16, SMT
    <2> QED
      BY <1>3, <1>4, <1>5, <1>6, <2>1, <2>2, NewTree
  <1>8. /\ \A x \in Writers : Moves(x)
        /\ landed' = landed \cup OnServer(ptr')
        /\ \A n \in landed' \ landed : n \in Leaves(root)
    <2>1. ptr[w].seq + 1 \in Nat
      BY <1>4, SMT DEF TypeOK, Pointer
    <2> QED
      BY <1>2, <1>3, <1>4, <1>6, <1>7, <2>1, PointerMoves
  <1>9. /\ v \notin Ours' /\ Ours' = Ours
        /\ landed \subseteq landed' /\ landed \subseteq 1..Len(history)
    <2>1. v \notin Ours'
      <3>1. ~history'[v].ours
        BY <1>16, SMT
      <3> QED
        BY <3>1 DEF Ours
    <2>2. ASSUME NEW x PROVE x \in Ours' <=> x \in Ours
      <3>1. CASE x \in 1..Len(history)
        BY <1>4, <1>6, <3>1, LineGrows
      <3>2. CASE x \notin 1..Len(history)
        <4>1. x \notin Ours
          BY <3>2 DEF Ours
        <4>2. x \in 1..Len(history') => x = v
          BY <1>3, <1>6, <3>2, SMT
        <4> QED
          BY <2>1, <4>1, <4>2 DEF Ours
      <3> QED
        BY <3>1, <3>2
    <2> QED
      BY <1>4, <1>8, <2>1, <2>2 DEF ServerInv
  <1>10. ServerInv'
    <2>1. discarded' \subseteq Ours'
      BY <1>1, <1>4, <1>9 DEF ServerInv
    <2> QED
      BY <1>4, <1>6, <1>8, <2>1, ServerMoves
  <1>11. Chain(updates, Len(history))' /\ Kept(updates, Len(history))'
    <2>1. PICK list \in SUBSET Update, n \in 0..Len(history) : list = updates /\ n = Len(history)
      <3>1. updates \in SUBSET Update /\ Len(history) \in 0..Len(history)
        BY <1>4, ListType
      <3> QED
        BY <3>1
    <2>2. Chain(list, n)' /\ Kept(list, n)'
      <3>1. Chain(list, n) /\ Kept(list, n)
        BY <2>1 DEF LineageInv
      <3> QED
        BY <1>1, <1>4, <1>6, <1>9, <3>1, ChainGrows, KeptGrows
    <2>3. n \in Nat /\ n <= v /\ n + 1 = v
      BY <1>3, <1>6, <2>1, SMT
    <2>4. Chain(list, v)'
      BY <1>6, <2>2, <2>3, ChainWidenNext
    <2>5. Kept(list, v)'
      <3> SUFFICES ASSUME NEW x \in (Ours \ discarded)' PROVE (Landed(x) \/ Buffered(x, list))'
        BY DEF Kept
      <3>1. x <= n
        BY <1>9, <2>1, SMT DEF Ours
      <3> QED
        BY <2>2, <3>1 DEF Kept
    <2> QED
      BY <1>1, <1>6, <2>1, <2>4, <2>5
  <1>12. OrderInv'
    <2>1. ASSUME NEW x \in (Ours \cap landed)' PROVE x \in landed
      <3>1. SUFFICES ASSUME x \notin landed PROVE FALSE
        OBVIOUS
      <3>2. x \in Leaves(root) /\ x # v
        BY <1>8, <1>9, <3>1
      <3>3. x \in Leaves(s)
        BY <1>3, <1>5, <3>2 DEF Leaves, Tree
      <3>4. x \in OnServer(ptr)
        BY <1>2, <3>3 DEF OnServer
      <3> QED
        BY <1>4, <3>1, <3>4 DEF ServerInv
    <2> QED
      BY <1>1, <1>4, <1>6, <1>9, <2>1, OrderGrows
  <1>13. ASSUME NEW i \in 1..Len(cps') PROVE Restorable(cps[i])'
    <2>1. PICK cp : cp = cps[i]
      OBVIOUS
    <2>2. cp \in Checkpoint /\ Restorable(cp) /\ cps'[i] = cp
      BY <1>1, <1>4, <2>1, CheckpointsType DEF LineageInv
    <2>3. /\ RolledBack(cp)' = RolledBack(cp)
          /\ (Snapshot(cp) => Snapshot(cp)') /\ (Dropped => Dropped')
      <3>1. RolledBack(cp)' = RolledBack(cp)
        BY <1>1, SMT DEF RolledBack
      <3>2. Snapshot(cp) => Snapshot(cp)'
        BY <1>1 DEF Snapshot, Old
      <3>3. Dropped => Dropped'
        BY <1>1 DEF Dropped
      <3> QED
        BY <3>1, <3>2, <3>3
    <2>4. StillRestorable(cp)
      BY <1>1, <1>6, <1>9 DEF StillRestorable
    <2>5. cp.generation = generation' => (Dropped \/ Snapshot(cp))'
      BY <1>1, <2>2, <2>3 DEF Restorable
    <2>6. Restorable(cp)'
      BY <1>4, <2>2, <2>3, <2>4, <2>5, RestorableSame
    <2> QED
      BY <2>2, <2>6
  <1>14. NestingInv'
    BY <1>1, <1>4 DEF NestingInv, Idle
  <1>15. FlushInv'
    <2>1. ASSUME NEW u \in updates, Reflected(u) PROVE Reflected(u)'
      <3>1. u \in Update
        BY <1>4 DEF TypeOK
      <3> QED
        BY <1>4, <1>6, <1>8, <2>1, <3>1, ReflectedMoves
    <2>2. OwnedBy(cur)' = OwnedBy(cur) /\ OwnedBy(cur) \subseteq updates
      BY <1>1 DEF OwnedBy
    <2>3. ASSUME NEW u, Placed(u.writer, remote.target)
          PROVE  Placed(u.writer, remote.target)'
      BY <1>1, <1>4, <1>6, <2>3, LineGrows
    <2> QED
      BY <1>1, <1>4, <2>1, <2>2, <2>3 DEF FlushInv, Idle, Committing
  <1> QED
    BY <1>6, <1>8, <1>10, <1>11, <1>12, <1>13, <1>14, <1>15 DEF LineageInv

-----------------------------------------------------------------------------
(* The invariant holds initially, and when nothing happens. *)

LEMMA LineageInit ==
    ASSUME Init
    PROVE  LineageInv
  <1>1. /\ history = <<>> /\ Len(history) = 0 /\ updates = {} /\ cps = <<>> /\ Len(cps) = 0
        /\ opErr = FALSE /\ pc = "idle" /\ discarded = {} /\ landed = {}
    BY DEF Init
  <1>2. ASSUME NEW w \in Writers, NEW k \in Keys PROVE TreeOf(ptr[w].target)[k] = 0
    <2>1. ptr[w].target = NoRoot \/ ptr[w].target = EmptyTree
      BY DEF Init, Empty
    <2> QED
      BY <2>1 DEF TreeOf, EmptyTree
  <1>3. HistoryInv
    BY <1>1, SMT DEF HistoryInv
  <1>4. ServerInv
    <2>1. \A w \in Writers : Placed(w, TreeOf(ptr[w].target))
      BY <1>2 DEF Placed
    <2>2. OnServer(ptr) = {}
      BY <1>2 DEF OnServer, Leaves
    <2> QED
      BY <1>1, <2>1, <2>2 DEF ServerInv
  <1>5. Ours = {}
    BY <1>1, SMT DEF Ours
  <1>6. Chain(updates, Len(history)) /\ Kept(updates, Len(history)) /\ OrderInv
    BY <1>1, <1>5 DEF Chain, Kept, OrderInv
  <1>7. NestingInv /\ FlushInv
    BY <1>1, SMT DEF NestingInv, FlushInv, Idle, Committing
  <1> QED
    BY <1>1, <1>3, <1>4, <1>6, <1>7, SMT DEF LineageInv

LEMMA LineageStutters ==
    ASSUME StorageInv, LineageInv, UNCHANGED vars
    PROVE  LineageInv'
  <1>1. UNCHANGED <<history, discarded, ownerOf, ptr, landed, updates, generation, cps, opErr,
                    pc, todo, cur, writes, remote>>
    BY DEF vars, envVars, serverVars, ptrVars, blockVars, flushVars, callerVars, ghostVars
  <1>2. HistoryInv' /\ ServerInv' /\ NestingInv' /\ OrderInv'
    <2>1. HistoryInv'
      BY <1>1 DEF LineageInv, HistoryInv
    <2>2. ServerInv'
      <3>1. Ours' = Ours /\ OnServer(ptr)' = OnServer(ptr)
        BY <1>1, SMT DEF Ours
      <3>2. ASSUME NEW w \in Writers PROVE Placed(w, TreeOf(ptr[w].target))'
        <4>1. PICK t : t = TreeOf(ptr[w].target) /\ t = TreeOf(ptr'[w].target)
          BY <1>1
        <4>2. Placed(w, t)
          BY <4>1 DEF LineageInv, ServerInv
        <4>3. Placed(w, t)'
          BY <1>1, <4>2 DEF Placed
        <4> QED
          BY <4>1, <4>3
      <3> QED
        BY <1>1, <3>1, <3>2 DEF LineageInv, ServerInv
    <2>3. NestingInv'
      BY <1>1 DEF LineageInv, NestingInv, Idle
    <2>4. OrderInv'
      BY <1>1 DEF LineageInv, OrderInv, Ours, Landed, Anc
    <2> QED
      BY <2>1, <2>2, <2>3, <2>4
  <1>3. Chain(updates, Len(history))' /\ Kept(updates, Len(history))'
    <2>1. TypeOK /\ HistoryInv /\ ServerInv /\ LogGrows
      BY <1>1, SameLog DEF StorageInv, LineageInv
    <2>2. updates \in SUBSET Update /\ Len(history) \in 0..Len(history)
      BY <2>1, ListType
    <2>3. Chain(updates, Len(history)) /\ Kept(updates, Len(history)) /\ landed \subseteq 1..Len(history)
      BY DEF LineageInv, ServerInv
    <2>4. PICK list, n : list = updates /\ n = Len(history)
      OBVIOUS
    <2>5. Chain(list, n)'
      BY <1>1, <2>1, <2>2, <2>3, <2>4, ChainGrows
    <2>6. Kept(list, n)'
      BY <1>1, <2>1, <2>2, <2>3, <2>4, KeptGrows
    <2> QED
      BY <1>1, <2>4, <2>5, <2>6
  <1>4. ASSUME NEW i \in 1..Len(cps') PROVE Restorable(cps[i])'
    <2>1. PICK cp : cp = cps[i]
      OBVIOUS
    <2>2. TypeOK /\ HistoryInv /\ ServerInv /\ LogGrows
      BY <1>1, SameLog DEF StorageInv, LineageInv
    <2>3. cp \in Checkpoint /\ Restorable(cp) /\ cps'[i] = cp
      BY <1>1, <2>1, <2>2, CheckpointsType DEF LineageInv
    <2>4. RolledBack(cp)' = RolledBack(cp) /\ Snapshot(cp)' = Snapshot(cp) /\ Dropped' = Dropped
      <3>1. RolledBack(cp)' = RolledBack(cp) /\ Old(cp)' = Old(cp)
        BY <1>1, SMT DEF RolledBack, Old
      <3>2. Dropped' = Dropped
        BY <1>1 DEF Dropped
      <3> QED
        BY <3>1, <3>2 DEF Snapshot
    <2>5. StillRestorable(cp)
      BY <1>1, <2>2 DEF StillRestorable
    <2>6. cp.generation = generation' => (Dropped \/ Snapshot(cp))'
      BY <1>1, <2>3, <2>4 DEF Restorable
    <2>7. Restorable(cp)'
      BY <2>2, <2>3, <2>4, <2>5, <2>6, RestorableSame
    <2> QED
      BY <2>3, <2>7
  <1>5. FlushInv'
    <2>1. \A u : Reflected(u)' = Reflected(u)
      BY <1>1 DEF Reflected, Anc
    <2>2. \A u : Placed(u.writer, remote.target)' = Placed(u.writer, remote.target)
      BY <1>1 DEF Placed
    <2>3. OwnedBy(cur)' = OwnedBy(cur)
      BY <1>1 DEF OwnedBy
    <2> QED
      BY <1>1, <2>1, <2>2, <2>3 DEF LineageInv, FlushInv, Idle, Committing, IsFirst
  <1> QED
    BY <1>2, <1>3, <1>4, <1>5 DEF LineageInv

-----------------------------------------------------------------------------
(* What it implies. *)

LEMMA LandedSuperseded ==
    ASSUME NEW v, v \notin landed, Landed(v)
    PROVE  Superseded(v)
  BY DEF Landed, Superseded, Anc

LEMMA KeptImplies ==
    ASSUME TypeOK, LineageInv
    PROVE  UpdatesKept
  <1> SUFFICES ASSUME NEW v \in Ours \ (landed \cup discarded), ~Superseded(v)
               PROVE  \E u \in updates : u.writer = history[v].writer /\ Carries(u, v)
    BY DEF UpdatesKept
  <1>1. v \in Ours \ discarded /\ v \in 1..Len(history) /\ v \in Nat /\ v # 0
    BY SMT DEF Ours
  <1>2. Buffered(v, updates)
    <2>1. Kept(updates, Len(history)) /\ v <= Len(history)
      BY <1>1, SMT DEF LineageInv
    <2> QED
      BY <1>1, <2>1, LandedSuperseded DEF Kept
  <1>3. PICK u \in updates : /\ u.pos <= v /\ u.writer = history[v].writer
                             /\ \E k \in Keys : u.updated[k] # From(u)[k] /\ v \in Anc(u.updated[k])
    BY <1>2 DEF Buffered
  <1>4. PICK k \in Keys : u.updated[k] # From(u)[k] /\ v \in Anc(u.updated[k])
    BY <1>3
  <1>5. /\ u.updated[k] \in Ours \ discarded
        /\ \A j \in Keys : From(u)[j] < u.pos
    BY <1>4 DEF LineageInv, Chain, UpdateInv
  <1>6. u.updated[k] = v
    BY <1>4, <1>5 DEF Superseded, Anc
  <1>7. \A j \in Keys : From(u)[j] # v
    <2>0. u \in Update
      BY DEF TypeOK
    <2>1. u.pos \in Nat /\ u.original \in Target
      BY <2>0 DEF Update
    <2>2. \A j \in Keys : From(u)[j] \in Nat
      BY <2>1, TargetTree DEF From, Tree
    <2>3. ASSUME NEW j \in Keys PROVE From(u)[j] # v
      <3>1. PICK f \in Nat, p \in Nat : f = From(u)[j] /\ p = u.pos
        BY <2>1, <2>2
      <3>2. f < p /\ p <= v
        BY <1>3, <1>5, <3>1
      <3> QED
        BY <1>1, <3>1, <3>2, SMT
    <2> QED
      BY <2>3
  <1>8. Carries(u, v)
    BY <1>1, <1>6, <1>7 DEF Carries, Leaves, From
  <1> QED
    BY <1>3, <1>8

LEMMA DiscardsImplies ==
    ASSUME LineageInv
    PROVE  RollbackDiscards
  <1> SUFFICES ASSUME NEW u \in updates, NEW v \in Leaves(u.updated)
               PROVE  history[v].writer = u.writer /\ (v \in discarded => ~Carries(u, v))
    BY DEF RollbackDiscards
  <1>1. PICK k \in Keys : v = u.updated[k] /\ v # 0
    BY DEF Leaves
  <1>2. UpdateInv(u)
    BY DEF LineageInv, Chain
  <1>3. history[v].writer = u.writer
    BY <1>1, <1>2 DEF UpdateInv, Placed
  <1>4. Carries(u, v) => u.updated[k] # From(u)[k]
    BY <1>1 DEF Carries, Leaves, From
  <1> QED
    BY <1>1, <1>2, <1>3, <1>4 DEF UpdateInv

LEMMA OrderImplies ==
    ASSUME TypeOK, LineageInv
    PROVE  WriteOrder
  <1> SUFFICES ASSUME NEW v \in Ours \cap landed, NEW u \in Ours \ (landed \cup discarded),
                      u < v, ~Superseded(u), ownerOf[history[u].writer] = ownerOf[history[v].writer]
               PROVE  FALSE
    BY DEF WriteOrder
  <1>1. ~Landed(u)
    BY LandedSuperseded
  <1>2. v < u
    BY <1>1 DEF LineageInv, OrderInv
  <1>3. u \in Nat /\ v \in Nat
    BY SMT DEF Ours
  <1> QED
    BY <1>2, <1>3, SMT

-----------------------------------------------------------------------------
(* The server implements SharedTree.  Edits is what the refinement mapping   *)
(* of BufferedNetwork has for the edits of SharedTree.                       *)

Edits == [v \in 1..Len(history) |->
            [writer |-> history[v].writer, key |-> history[v].key, parent |-> history[v].parent]]

LEMMA EditsFacts ==
    ASSUME Len(history) \in Nat
    PROVE  /\ Len(Edits) = Len(history)
           /\ \A v \in 1..Len(history) : Edits[v].parent = history[v].parent
  BY SMT DEF Edits

LEMMA SameAncestors ==
    ASSUME NEW log, NEW more, Len(log) \in Nat, Len(more) = Len(log),
           \A v \in 1..Len(log) : more[v].parent = log[v].parent, NEW v
    PROVE  Shared!Ancestors(more, v) = Shared!Ancestors(log, v)
  <1>1. ASSUME NEW s \in SUBSET (0..Len(log))
        PROVE  Shared!Closed(more, s) <=> Shared!Closed(log, s)
    <2>1. \A x \in s \ {0} : x \in 1..Len(log)
      BY SMT
    <2>2. \A x \in s \ {0} : more[x].parent = log[x].parent
      BY <2>1
    <2> QED
      BY <2>2 DEF Shared!Closed
  <1> QED
    BY <1>1 DEF Shared!Ancestors

LEMMA MakesEdit ==
    ASSUME TypeOK, NEW w \in Writers, NEW k \in Keys, NEW old \in 0..Len(history), NEW ours,
           NewVersion(w, k, old, ours)
    PROVE  Shared!MakeEdit
  <1>1. history \in Seq(Version) /\ Len(history) \in Nat
    BY SMT DEF TypeOK
  <1>2. Len(Edits) = Len(history)
    BY <1>1, EditsFacts
  <1>3. /\ Len(history') = Len(history) + 1
        /\ \A v \in 1..Len(history) : history'[v] = history[v]
        /\ history'[Len(history) + 1] = [writer |-> w, key |-> k, parent |-> old, ours |-> ours]
    BY <1>1, SMT DEF NewVersion
  <1>4. Edits' = Append(Edits, [writer |-> w, key |-> k, parent |-> old])
    BY <1>1, <1>2, <1>3, SMT DEF Edits
  <1> QED
    BY <1>2, <1>4 DEF Shared!MakeEdit, Edits

Published(old, new, log) ==
    \A w \in Writers, k \in Keys :
        new[w][k] # old[w][k] =>
            /\ new[w][k] \in 1..Len(log)
            /\ log[new[w][k]].writer = w /\ log[new[w][k]].key = k
            /\ old[w][k] \in Shared!Ancestors(log, new[w][k])

LEMMA Publishes ==
    ASSUME TypeOK, TypeOK', HistoryInv', \A w \in Writers : Moves(w)
    PROVE  Shared!Publish
  <1>1. Len(history') \in Nat
    BY LogFactsNext
  <1>2. /\ Len(Edits') = Len(history')
        /\ \A v \in 1..Len(history') : /\ Edits'[v].parent = history'[v].parent
                                       /\ Edits'[v].writer = history'[v].writer
                                       /\ Edits'[v].key = history'[v].key
    BY <1>1, SMT DEF Edits
  <1>3. \A v : Shared!Ancestors(Edits', v) = Shared!Ancestors(history', v)
    BY <1>1, <1>2, SameAncestors
  <1>4. ASSUME NEW w \in Writers, NEW k \in Keys,
               TreeOf(ptr'[w].target)[k] # TreeOf(ptr[w].target)[k]
        PROVE  /\ TreeOf(ptr'[w].target)[k] \in 1..Len(Edits')
               /\ Edits'[TreeOf(ptr'[w].target)[k]].writer = w
               /\ Edits'[TreeOf(ptr'[w].target)[k]].key = k
               /\ TreeOf(ptr[w].target)[k] \in Shared!Ancestors(Edits', TreeOf(ptr'[w].target)[k])
    <2>1. PICK s, t \in Tree : /\ s = TreeOf(ptr[w].target) /\ t = TreeOf(ptr'[w].target)
                               /\ Placed(w, t)' /\ Extends(s, t)'
      BY DEF Moves
    <2>2. s[k] \in Anc(t[k])' /\ s[k] \in Nat
      BY <2>1 DEF Extends, Tree
    <2>3. t[k] # 0
      <3> SUFFICES ASSUME t[k] = 0 PROVE FALSE
        OBVIOUS
      <3>1. s[k] <= 0
        BY <1>1, <2>2, AncFactsNext, SMT
      <3> QED
        BY <1>4, <2>1, <2>2, <3>1, SMT
    <2>4. t[k] \in 1..Len(history') /\ history'[t[k]].writer = w /\ history'[t[k]].key = k
      BY <2>1, <2>3 DEF Placed
    <2>5. s[k] \in Shared!Ancestors(Edits', t[k])
      BY <1>3, <2>2 DEF Anc
    <2> QED
      BY <1>2, <2>1, <2>4, <2>5
  <1> DEFINE tree == [w \in Writers |-> TreeOf(ptr[w].target)]
  <1>5. PICK old, new, log : old = tree /\ new = tree' /\ log = Edits'
    OBVIOUS
  <1>6. \A w \in Writers : old[w] = TreeOf(ptr[w].target) /\ new[w] = TreeOf(ptr'[w].target)
    BY <1>5
  <1> HIDE DEF tree
  <1>7. Published(old, new, log)
    <2> SUFFICES ASSUME NEW w \in Writers, NEW k \in Keys, new[w][k] # old[w][k]
                 PROVE  /\ new[w][k] \in 1..Len(log)
                        /\ log[new[w][k]].writer = w /\ log[new[w][k]].key = k
                        /\ old[w][k] \in Shared!Ancestors(log, new[w][k])
      BY DEF Published
    <2>1. TreeOf(ptr'[w].target)[k] # TreeOf(ptr[w].target)[k]
      BY <1>6
    <2>2. PICK v, x : v = TreeOf(ptr'[w].target)[k] /\ x = TreeOf(ptr[w].target)[k]
      OBVIOUS
    <2>3. new[w][k] = v /\ old[w][k] = x
      BY <1>6, <2>2
    <2>4. /\ v \in 1..Len(Edits') /\ Edits'[v].writer = w /\ Edits'[v].key = k
          /\ x \in Shared!Ancestors(Edits', v)
      BY <1>4, <2>1, <2>2
    <2> QED
      BY <1>5, <2>3, <2>4
  <1>8. Published(tree, tree', Edits')
    BY <1>5, <1>7
  <1> QED
    BY <1>8 DEF Shared!Publish, Published, Edits, tree

LEMMA SharedInit ==
    ASSUME Init
    PROVE  Shared!Init
  <1>1. history = <<>> /\ Len(history) = 0
    BY DEF Init
  <1>2. \A w \in Writers : TreeOf(ptr[w].target) = [k \in Keys |-> 0]
    <2> TAKE w \in Writers
    <2>1. ptr[w].target = NoRoot \/ ptr[w].target = EmptyTree
      BY DEF Init, Empty
    <2> QED
      BY <2>1 DEF TreeOf, EmptyTree
  <1>3. Edits = <<>>
    BY <1>1, SMT DEF Edits
  <1> QED
    BY <1>2, <1>3 DEF Shared!Init, Edits

LEMMA QuietPublishes ==
    ASSUME TypeOK, TypeOK', HistoryInv, HistoryInv', ServerInv, LogGrows, ptr' = ptr
    PROVE  Shared!Publish
  <1>1. \A w \in Writers : Moves(w)
    BY NoMove
  <1> QED
    BY <1>1, Publishes

LEMMA CallerShared ==
    ASSUME CountingFacts, StorageInv, StorageInv', LineageInv, LineageInv', [Next]_vars,
           ~FlushStep
    PROVE  Shared!Next
  <1>1. TypeOK /\ TypeOK' /\ ListInv /\ HistoryInv /\ HistoryInv' /\ ServerInv
        /\ Chain(updates, Len(history))
    BY DEF StorageInv, LineageInv
  <1>2. ASSUME history' = history PROVE Shared!MakeEdit
    BY <1>2 DEF Shared!MakeEdit
  <1>4. ASSUME NEW e \in Entries, Write(e[1], e[2]) PROVE Shared!Next
    <2>1. PICK w \in Writers, k \in Keys : w = e[1] /\ k = e[2]
      BY OwnersAssumption
    <2>2. Write(w, k)
      BY <1>4, <2>1
    <2>3. PICK seen \in Seen(w) : NewVersion(w, k, TreeOf(seen.target)[k], TRUE)
      BY <2>2 DEF Write
    <2>4. Placed(w, TreeOf(seen.target))
      BY <1>1, SeenChain
    <2>5. PICK old \in 0..Len(history) : old = TreeOf(seen.target)[k]
      BY <1>1, <2>4, PlacedRange
    <2>6. old # 0 => history[old].writer = w /\ history[old].key = k
      BY <2>4, <2>5 DEF Placed
    <2>7. LogGrows
      BY <1>1, <2>3, <2>5, <2>6, NewVersionFacts
    <2>8. ptr' = ptr
      BY <2>2 DEF Write, serverVars, ptrVars
    <2> QED
      BY <1>1, <2>3, <2>5, <2>7, <2>8, MakesEdit, QuietPublishes DEF Shared!Next
  <1>5. ASSUME NEW e \in Entries, OtherDevice(e[1], e[2]) PROVE Shared!Next
    <2>1. PICK w \in Writers, k \in Keys : w = e[1] /\ k = e[2]
      BY OwnersAssumption
    <2>2. OtherDevice(w, k)
      BY <1>5, <2>1
    <2>3. \A x \in Writers : Moves(x)
      BY <2>2, OtherDeviceLineage
    <2>4. NewVersion(w, k, TreeOf(ptr[w].target)[k], FALSE)
      BY <2>2 DEF OtherDevice
    <2>5. TreeOf(ptr[w].target)[k] \in 0..Len(history)
      BY <1>1, PlacedRange DEF ServerInv
    <2> QED
      BY <1>1, <2>3, <2>4, <2>5, MakesEdit, Publishes DEF Shared!Next
  <1>6. ASSUME history' = history, ptr' = ptr PROVE Shared!Next
    BY <1>1, <1>2, <1>6, SameLog, QuietPublishes DEF Shared!Next
  <1>7. CASE (\E o \in Owners : Commit(o)) \/ (\E b \in BOOLEAN : SetSafe(b)) \/ ForceClear
    <2>1. history' = history /\ ptr' = ptr
      BY <1>7 DEF Commit, SetSafe, ForceClear, ghostVars, serverVars, ptrVars
    <2> QED
      BY <1>6, <2>1
  <1>8. CASE BeginUpdate \/ EndUpdate \/ FailUpdate
    <2>1. history' = history /\ ptr' = ptr
      BY <1>8 DEF BeginUpdate, EndUpdate, FailUpdate, ghostVars, serverVars, ptrVars
    <2> QED
      BY <1>6, <2>1
  <1>9. CASE UNCHANGED vars
    <2>1. history' = history /\ ptr' = ptr
      BY <1>9 DEF vars, ghostVars, serverVars, ptrVars
    <2> QED
      BY <1>6, <2>1
  <1> QED
    BY <1>4, <1>5, <1>7, <1>8, <1>9 DEF Next

=============================================================================
