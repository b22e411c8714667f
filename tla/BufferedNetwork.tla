--------------------------- MODULE BufferedNetwork ---------------------------
(* One client's write buffer (BufferedStorage + BufferedPointers, joined by  *)
(* BufferedNetwork), the server it commits to, and another device writing to *)
(* the same writers.                                                         *)
(*                                                                           *)
(* A caller buffers blocks and pointer updates, may take checkpoints and     *)
(* roll back to them, and commits.  A flush runs one owner at a time: one    *)
(* bulk/commit call, or the older endpoints (blocks, then each pointer with  *)
(* a merge on conflict).  Every server call is a step of its own, so the     *)
(* other device, a lost request or a lost answer may come between any two.   *)
(*                                                                           *)
(* The list of updates is a set of records ordered by their field pos, the   *)
(* number of the write that appended them.                                   *)
EXTENDS WriterTree, Sequences, FiniteSets

CONSTANTS
    Writers,
    Owners,
    OwnerMaps,      \* the assignments of writers to owners to start from
    Servers,        \* the sets of owners whose server lacks bulk/commit
    Entries,        \* the <<writer, key>> pairs that are written to
    Fresh,          \* the writers that have no pointer yet
    MaxWrites,      \* bound: versions written, by this client and the other device
    MaxFaults,      \* bound: lost requests and lost answers
    MaxNest,        \* bound: checkpoints one inside another (move_to calls mkdirs)
    TooBig,         \* the answers to: is a commit too big for one bulk call?
    AnyCheckpoint   \* may a checkpoint be taken when several owners are written to?

ASSUME BoundsAssumption ==
    /\ MaxWrites \in Nat /\ MaxFaults \in Nat /\ MaxNest \in Nat
    /\ TooBig \subseteq BOOLEAN /\ AnyCheckpoint \in BOOLEAN

ASSUME OwnersAssumption ==
    /\ OwnerMaps \subseteq [Writers -> Owners]
    /\ Servers \subseteq SUBSET Owners
    /\ Fresh \subseteq Writers /\ Entries \subseteq Writers \X Keys
    /\ Owners # {}

VARIABLES
    ownerOf,          \* the owner each writer belongs to
    noBulk,           \* the owners whose server predates bulk/commit
    ptr,              \* the server: each writer's pointer
    stRoots,          \* the server's blocks
    stLeaves,
    bufRoots,         \* BufferedStorage.buffer
    bufLeaves,
    bulkUnsupported,  \* BufferedStorage.bulk_unsupported
    updates,          \* BufferedPointers.updates
    generation,       \* BufferedPointers.generation
    safe,             \* BufferedNetwork.safe_to_commit
    pc,               \* where the running flush is
    todo,             \* the owners it has still to commit
    cur,              \* the owner it is committing
    writes,           \* the updates commit_pointers has still to commit
    remote,           \* the pointer commit_one_with_merge read after a failed CAS
    cps,              \* the checkpoints of the running updates, innermost last
    opErr,            \* the running update met an error and is unwinding
    history,          \* ghost: version |-> who wrote it, where, over what
    discarded,        \* ghost: our versions a rollback or clear was to discard
    landed,           \* ghost: every version that was ever on the server
    faults            \* ghost: the lost requests and answers so far

envVars    == <<ownerOf, noBulk>>
ptrVars    == <<ptr, landed>>
serverVars == <<ptrVars, stRoots, stLeaves>>
blockVars  == <<bufRoots, bufLeaves>>
flushVars  == <<pc, todo, cur, writes, remote>>
callerVars == <<cps, opErr>>
ghostVars  == <<history, discarded>>
notFlushVars == <<envVars, safe, ghostVars>>
vars == <<envVars, serverVars, blockVars, bulkUnsupported, updates, generation,
          safe, flushVars, callerVars, ghostVars, faults>>

Pointer == [target : Target, seq : Nat]
Empty   == [target |-> NoRoot, seq |-> 0]

Update ==
    [pos : Nat, writer : Writers, original : Target, updated : Tree, seq : Nat]

(* `last` is the option last_target: empty or one root.  `since` is a ghost: *)
(* the number of versions written before the checkpoint.                     *)
Checkpoint ==
    [generation : Nat, len : Nat, last : SUBSET Tree, since : Nat]

(* The record of a write, by this client (ours) or by the other device. *)
Version == [writer : Writers, key : Keys, parent : Nat, ours : BOOLEAN]

FlushPcs == {"idle", "owner", "bulk", "last", "old", "ptrs", "resolve", "recas"}

-----------------------------------------------------------------------------
(* The list of updates. *)

IsFirst(u, list) == u \in list /\ \A x \in list : u.pos <= x.pos
OwnedBy(o)       == {u \in updates : ownerOf[u.writer] = o}

(* The latest update of writer w in a list: none or one. *)
Latest(list, w) ==
    {u \in list : u.writer = w /\ \A x \in list : x.writer = w => x.pos <= u.pos}

(* get_pointer_target: the latest buffered update, else the server's. *)
Seen(w) ==
    IF Latest(updates, w) = {} THEN {ptr[w]}
    ELSE {[target |-> u.updated, seq |-> u.seq] : u \in Latest(updates, w)}

(* The last entry, none or one, and the list with its target advanced. *)
LastOf(list) == {u \in list : \A x \in list : x.pos <= u.pos}

Advance(list, root) ==
    (list \ LastOf(list)) \cup {[u EXCEPT !.updated = root] : u \in LastOf(list)}

(* Advance the last entry if it is this writer's, else append. *)
AddWrite(w, seen, root) ==
    IF \E u \in LastOf(updates) : u.writer = w
    THEN Advance(updates, root)
    ELSE updates \cup
           {[pos |-> Len(history) + 1, writer |-> w, original |-> seen.target,
             updated |-> root, seq |-> seen.seq + 1]}

(* Vec::truncate. *)
Truncate(list, n) ==
    {u \in list : Cardinality({x \in list : x.pos <= u.pos}) <= n}

(* Mutant: a rollback that does not look at the generation. *)
RolledBackAlways(cp) ==
    LET kept == Truncate(updates, cp.len) IN
    IF cp.last = {} THEN kept
    ELSE Advance(kept, CHOOSE r \in cp.last : TRUE)

(* BufferedPointers::rollback. *)
RolledBack(cp) ==
    LET kept == Truncate(updates, cp.len) IN
    IF generation # cp.generation THEN {}
    ELSE IF cp.last = {} THEN kept
    ELSE Advance(kept, CHOOSE r \in cp.last : TRUE)

-----------------------------------------------------------------------------
(* The server.  Blocks it has are never taken away. *)

Complete(r) == r \in stRoots /\ Leaves(r) \subseteq stLeaves

StoreBlocks(roots, leaves) ==
    /\ stRoots' = stRoots \cup roots
    /\ stLeaves' = stLeaves \cup leaves

OnServer(p) == UNION {Leaves(TreeOf(p[w].target)) : w \in Writers}

SetPointers(p) == ptr' = p /\ landed' = landed \cup OnServer(p)

SetPointer(w, root, seq) ==
    SetPointers([ptr EXCEPT ![w] = [target |-> root, seq |-> seq]])

(* Mutant: a set that does not compare. *)
CasAlwaysOk(w, original) == TRUE

(* apply_cas: accepted iff the original is the writer's current target. *)
CasOk(w, original) == ptr[w].target = original

(* The CAS of each update of a bulk call against what the updates before it  *)
(* in the call leave behind.                                                 *)
BulkCasOk(list) ==
    \A u \in list :
        LET before == {x \in list : x.pos < u.pos} IN
        IF Latest(before, u.writer) = {} THEN CasOk(u.writer, u.original)
        ELSE \E x \in Latest(before, u.writer) : x.updated = u.original

AfterBulk(list) ==
    [w \in Writers |->
        IF Latest(list, w) = {} THEN ptr[w]
        ELSE LET u == CHOOSE u \in Latest(list, w) : TRUE
             IN  [target |-> u.updated, seq |-> u.seq]]

-----------------------------------------------------------------------------
(* What a commit of some updates carries: the buffered blocks reachable from *)
(* their roots.  A root that is not buffered is already on the server, and   *)
(* the walk stops there.  Versions are never shared between writers, so      *)
(* neither are blocks between owners.                                        *)

ReachableRoots(list) == {u.updated : u \in list} \cap bufRoots

Reachable(list) ==
    {v \in bufLeaves : \E r \in ReachableRoots(list) : v \in Leaves(r)}

(* The server's checks on a bulk call: every link out of the call resolves. *)
LinksResolve(list) ==
    \A u \in list :
        IF u.updated \in bufRoots
        THEN Leaves(u.updated) \subseteq bufLeaves \cup stLeaves
        ELSE u.updated \in stRoots

(* The writers of a list with their first update's sequence out of step with *)
(* the server: the signature on a blocks-only call is then refused.          *)
BlockListStale(list, ws) ==
    \E w \in ws : \E u \in list :
        /\ u.writer = w
        /\ \A x \in list : x.writer = w => u.pos <= x.pos
        /\ u.seq # ptr[w].seq + 1

-----------------------------------------------------------------------------
(* Flushing. *)

(* Between owners, cur is not read. *)
Nobody == CHOOSE o \in Owners : TRUE

Fault == faults < MaxFaults /\ faults' = faults + 1

GoTo(p) == pc' = p /\ UNCHANGED <<todo, cur, writes, remote, callerVars>>

OwnerDone ==
    /\ pc' = "owner" /\ todo' = todo \ {cur} /\ writes' = {} /\ remote' = Empty
    /\ cur' = Nobody /\ UNCHANGED callerVars

(* An error returned from flush: what is buffered stays buffered.  If it     *)
(* came from an automatic flush, the update that triggered it has failed.    *)
FlushFails ==
    /\ pc' = "idle" /\ todo' = {} /\ writes' = {} /\ remote' = Empty
    /\ opErr' = (cps # <<>>)
    /\ cur' = Nobody /\ UNCHANGED cps

StartFlush(list, default) ==
    /\ pc' = "owner"
    /\ todo' = IF list = {} THEN {default} ELSE {ownerOf[u.writer] : u \in list}
    /\ UNCHANGED <<cur, writes, remote>>

(* The owners in the order first written. *)
NextOwner(o) ==
    /\ pc = "owner" /\ o \in todo
    /\ \A u \in updates : ownerOf[u.writer] \in todo
          => \E x \in updates : ownerOf[x.writer] = o /\ x.pos <= u.pos
    /\ cur' = o
    /\ pc' = IF o \in bulkUnsupported THEN "old" ELSE "bulk"
    /\ UNCHANGED <<notFlushVars, todo, writes, remote, callerVars, serverVars, blockVars,
                   bulkUnsupported, updates, generation, faults>>

(* Mutant: the generation is not bumped. *)
FlushDoneSilently ==
    /\ pc = "owner" /\ todo = {}
    /\ GoTo("idle")
    /\ bufRoots' = {} /\ bufLeaves' = {}
    /\ updates' = {}
    /\ UNCHANGED <<notFlushVars, serverVars, bulkUnsupported, generation, faults>>

(* The end of flush. *)
FlushDone ==
    /\ pc = "owner" /\ todo = {}
    /\ GoTo("idle")
    /\ bufRoots' = {} /\ bufLeaves' = {}
    /\ updates' = {} /\ generation' = generation + 1
    /\ UNCHANGED <<notFlushVars, serverVars, bulkUnsupported, faults>>

(* Mutant: clear, where one owner's updates are to be dropped. *)
BulkDoneClears ==
    /\ updates' = {}
    /\ generation' = generation + 1
    /\ OwnerDone

(* drop_owner, after a bulk commit. *)
BulkDone ==
    /\ updates' = updates \ OwnedBy(cur)
    /\ generation' = generation + 1
    /\ OwnerDone

(* bulk_commit_owner with nothing to commit. *)
BulkNothing ==
    /\ pc = "bulk" /\ OwnedBy(cur) = {}
    /\ BulkDone
    /\ UNCHANGED <<notFlushVars, serverVars, blockVars, bulkUnsupported, faults>>

(* A server that predates bulk/commit.  Blocks too large to travel inline    *)
(* may have been written to it.                                              *)
BulkUnimplemented ==
    /\ pc = "bulk" /\ OwnedBy(cur) # {} /\ cur \in noBulk
    /\ \E large \in {{}, Reachable(OwnedBy(cur))} : StoreBlocks({}, large)
    /\ bulkUnsupported' = bulkUnsupported \cup {cur}
    /\ GoTo("old")
    /\ UNCHANGED <<notFlushVars, ptrVars, blockVars, updates, generation, faults>>

(* A commit too big for one call: the blocks-only calls, for the writers ws  *)
(* some of whose blocks are deferred.  Of those in ends, the root is too.    *)
(* Calls before a refused one have stored their blocks.                      *)
BulkDeferred ==
    /\ pc = "bulk" /\ TRUE \in TooBig /\ cur \notin noBulk
    /\ \E ws \in SUBSET {u.writer : u \in OwnedBy(cur)} \ {{}} :
       \E sent \in SUBSET ws : \E ends \in SUBSET sent :
         LET of(x) == {u \in OwnedBy(cur) : u.writer \in x} IN
         /\ ~BlockListStale(OwnedBy(cur), sent)
         /\ StoreBlocks(ReachableRoots(of(ends)), Reachable(of(sent)))
         /\ \/ sent = ws /\ GoTo("last")
            \/ BlockListStale(OwnedBy(cur), ws) /\ FlushFails
    /\ UNCHANGED <<notFlushVars, ptrVars, blockVars, bulkUnsupported, updates, generation, faults>>

(* The call that carries the pointers.  It applies to all of them or to      *)
(* none; the blocks of a refused CAS are kept.                               *)
BulkApplied ==
    /\ LinksResolve(OwnedBy(cur)) /\ BulkCasOk(OwnedBy(cur))
    /\ StoreBlocks(ReachableRoots(OwnedBy(cur)), Reachable(OwnedBy(cur)))
    /\ SetPointers(AfterBulk(OwnedBy(cur)))

BulkRefused ==
    /\ LinksResolve(OwnedBy(cur)) /\ ~BulkCasOk(OwnedBy(cur))
    /\ StoreBlocks(ReachableRoots(OwnedBy(cur)), Reachable(OwnedBy(cur)))
    /\ UNCHANGED ptrVars

BulkCalling ==
    /\ pc = "last" \/ (pc = "bulk" /\ FALSE \in TooBig)
    /\ OwnedBy(cur) # {} /\ cur \notin noBulk

(* Mutant: a refused CAS is an error, not a reason to take the old path. *)
BulkCallNoFallback ==
    /\ BulkCalling
    /\ \/ BulkApplied /\ BulkDone
       \/ BulkRefused /\ FlushFails /\ UNCHANGED <<updates, generation>>
       \/ /\ ~LinksResolve(OwnedBy(cur)) /\ FlushFails
          /\ UNCHANGED <<serverVars, updates, generation>>
    /\ UNCHANGED <<notFlushVars, blockVars, bulkUnsupported, faults>>

BulkCall ==
    /\ BulkCalling
    /\ \/ BulkApplied /\ BulkDone
       \/ BulkRefused /\ GoTo("old") /\ UNCHANGED <<updates, generation>>
       \/ /\ ~LinksResolve(OwnedBy(cur)) /\ FlushFails
          /\ UNCHANGED <<serverVars, updates, generation>>
    /\ UNCHANGED <<notFlushVars, blockVars, bulkUnsupported, faults>>

(* A call of a bulk commit whose request or answer is lost: the one with the *)
(* pointers, or one of those before it, which carry only blocks.             *)
BulkLost ==
    /\ pc \in {"bulk", "last"} /\ OwnedBy(cur) # {}
    /\ \/ BulkCalling /\ BulkApplied
       \/ /\ \E roots \in SUBSET ReachableRoots(OwnedBy(cur)),
                 leaves \in SUBSET Reachable(OwnedBy(cur)) : StoreBlocks(roots, leaves)
          /\ UNCHANGED ptrVars
    /\ FlushFails /\ Fault
    /\ UNCHANGED <<notFlushVars, blockVars, bulkUnsupported, updates, generation>>

(* Mutant: the pointers are sent before the blocks. *)
CommitBlocksLater ==
    /\ pc = "old"
    /\ pc' = "ptrs" /\ writes' = OwnedBy(cur)
    /\ UNCHANGED <<notFlushVars, todo, cur, remote, callerVars, serverVars, blockVars,
                   bulkUnsupported, updates, generation, faults>>

(* start_transaction and commit_blocks on the older endpoints. *)
CommitBlocks ==
    /\ pc = "old"
    /\ StoreBlocks(ReachableRoots(OwnedBy(cur)), Reachable(OwnedBy(cur)))
    /\ bufRoots' = bufRoots \ ReachableRoots(OwnedBy(cur))
    /\ bufLeaves' = bufLeaves \ Reachable(OwnedBy(cur))
    /\ pc' = "ptrs" /\ writes' = OwnedBy(cur)
    /\ UNCHANGED <<notFlushVars, todo, cur, remote, callerVars, ptrVars, bulkUnsupported, updates,
                   generation, faults>>

(* The blocks go in batches, several at a time; one failed. *)
CommitBlocksLost ==
    /\ pc = "old"
    /\ \E roots \in SUBSET ReachableRoots(OwnedBy(cur)),
          leaves \in SUBSET Reachable(OwnedBy(cur)) : StoreBlocks(roots, leaves)
    /\ FlushFails /\ Fault
    /\ UNCHANGED <<notFlushVars, ptrVars, blockVars, bulkUnsupported, updates, generation>>

(* commit_one_with_merge, the first CAS.  A lost answer is a refusal. *)
PointerCommitted(u) ==
    /\ pc' = "ptrs" /\ writes' = writes \ {u} /\ remote' = Empty
    /\ UNCHANGED <<todo, cur, callerVars>>

(* Mutant: the pointers are committed in any order. *)
CommitPointerAnyOrder(u) ==
    /\ pc = "ptrs"
    /\ IF CasOk(u.writer, u.original)
       THEN SetPointer(u.writer, u.updated, u.seq) /\ PointerCommitted(u)
       ELSE GoTo("resolve") /\ UNCHANGED ptrVars
    /\ UNCHANGED <<notFlushVars, stRoots, stLeaves, blockVars, bulkUnsupported, updates, generation, faults>>

CommitPointer(u) ==
    /\ pc = "ptrs" /\ IsFirst(u, writes)
    /\ IF CasOk(u.writer, u.original)
       THEN SetPointer(u.writer, u.updated, u.seq) /\ PointerCommitted(u)
       ELSE GoTo("resolve") /\ UNCHANGED ptrVars
    /\ UNCHANGED <<notFlushVars, stRoots, stLeaves, blockVars, bulkUnsupported, updates, generation, faults>>

CommitPointerLost(u) ==
    /\ pc = "ptrs" /\ IsFirst(u, writes)
    /\ \/ CasOk(u.writer, u.original) /\ SetPointer(u.writer, u.updated, u.seq)
       \/ UNCHANGED ptrVars
    /\ GoTo("resolve") /\ Fault
    /\ UNCHANGED <<notFlushVars, stRoots, stLeaves, blockVars, bulkUnsupported, updates, generation>>

CanMerge(base, ours, theirs) ==
    NoRoot \notin {base, theirs} /\ Mergeable(base, ours, theirs)

(* Where the server is after a refusal: already there, not mergeable, or a   *)
(* merge whose blocks are written before the pointer is retried.             *)
Resolve(u) ==
    LET theirs == ptr[u.writer].target IN
    /\ pc = "resolve" /\ IsFirst(u, writes)
    /\ \/ /\ theirs = u.updated
          /\ PointerCommitted(u)
          /\ UNCHANGED stRoots
       \/ /\ theirs # u.updated
          /\ ~CanMerge(u.original, u.updated, theirs)
          /\ FlushFails
          /\ UNCHANGED stRoots
       \/ /\ theirs # u.updated
          /\ CanMerge(u.original, u.updated, theirs)
          /\ stRoots' = stRoots \cup {Merge(u.original, u.updated, theirs)}
          /\ remote' = ptr[u.writer]
          /\ pc' = "recas"
          /\ UNCHANGED <<todo, cur, writes, callerVars>>
    /\ UNCHANGED <<notFlushVars, ptrVars, stLeaves, blockVars, bulkUnsupported, updates, generation, faults>>

(* Mutant: the merge is committed under the sequence of our own update. *)
CommitMergeOwnSequence(u) ==
    /\ pc = "recas" /\ IsFirst(u, writes)
    /\ IF CasOk(u.writer, remote.target)
       THEN /\ SetPointer(u.writer, Merge(u.original, u.updated, remote.target), u.seq)
            /\ PointerCommitted(u)
       ELSE FlushFails /\ UNCHANGED ptrVars
    /\ UNCHANGED <<notFlushVars, stRoots, stLeaves, blockVars, bulkUnsupported, updates, generation, faults>>

(* The CAS from where the server was to the merge. *)
CommitMerge(u) ==
    /\ pc = "recas" /\ IsFirst(u, writes)
    /\ IF CasOk(u.writer, remote.target)
       THEN /\ SetPointer(u.writer, Merge(u.original, u.updated, remote.target), remote.seq + 1)
            /\ PointerCommitted(u)
       ELSE FlushFails /\ UNCHANGED ptrVars
    /\ UNCHANGED <<notFlushVars, stRoots, stLeaves, blockVars, bulkUnsupported, updates, generation, faults>>

CommitMergeLost(u) ==
    /\ pc = "recas" /\ IsFirst(u, writes)
    /\ CasOk(u.writer, remote.target)
    /\ SetPointer(u.writer, Merge(u.original, u.updated, remote.target), remote.seq + 1)
    /\ FlushFails /\ Fault
    /\ UNCHANGED <<notFlushVars, stRoots, stLeaves, blockVars, bulkUnsupported, updates, generation>>

(* The end of commit_pointers, then close_transaction.  The generation is    *)
(* not bumped here.                                                          *)
PointersDone ==
    /\ pc = "ptrs" /\ writes = {}
    /\ updates' = updates \ OwnedBy(cur)
    /\ \/ OwnerDone /\ UNCHANGED faults
       \/ FlushFails /\ Fault
    /\ UNCHANGED <<notFlushVars, serverVars, blockVars, bulkUnsupported, generation>>

(* A call that fails without having had an effect, while a merge is underway. *)
ResolveLost ==
    /\ pc \in {"resolve", "recas"}
    /\ FlushFails /\ Fault
    /\ UNCHANGED <<notFlushVars, serverVars, blockVars, bulkUnsupported, updates, generation>>

FlushStep ==
    \/ \E o \in Owners : NextOwner(o)
    \/ FlushDone
    \/ BulkNothing
    \/ BulkUnimplemented
    \/ BulkDeferred
    \/ BulkCall
    \/ BulkLost
    \/ CommitBlocks
    \/ CommitBlocksLost
    \/ \E u \in writes : CommitPointer(u)
    \/ \E u \in writes : CommitPointerLost(u)
    \/ \E u \in writes : Resolve(u)
    \/ \E u \in writes : CommitMerge(u)
    \/ \E u \in writes : CommitMergeLost(u)
    \/ PointersDone
    \/ ResolveLost

-----------------------------------------------------------------------------
(* The caller. *)

Idle == pc = "idle"

NewVersion(w, k, old, ours) ==
    history' = Append(history, [writer |-> w, key |-> k, parent |-> old, ours |-> ours])

(* set_pointer_update after the blocks of the new root were put; a full      *)
(* buffer is then flushed.                                                   *)
Write(w, k) ==
    /\ Idle /\ ~opErr /\ Len(history) < MaxWrites
    /\ \E seen \in Seen(w) :
         LET old  == TreeOf(seen.target)[k]
             ver  == Len(history) + 1
             root == [TreeOf(seen.target) EXCEPT ![k] = ver]
         IN  /\ updates' = AddWrite(w, seen, root)
             /\ bufRoots' = bufRoots \cup {root}
             /\ bufLeaves' = bufLeaves \cup {ver}
             /\ NewVersion(w, k, old, TRUE)
    /\ \/ UNCHANGED flushVars
       \/ safe /\ StartFlush(updates', ownerOf[w])
    /\ UNCHANGED <<envVars, serverVars, bulkUnsupported, generation, safe, callerVars,
                   discarded, faults>>

(* BufferedNetwork::commit (and maybe_commit, which calls it). *)
Commit(o) ==
    /\ Idle /\ cps = <<>>
    /\ updates # {} \/ bufRoots # {} \/ bufLeaves # {}
    /\ StartFlush(updates, o)
    /\ UNCHANGED <<envVars, serverVars, blockVars, bulkUnsupported, updates, generation,
                   safe, callerVars, ghostVars, faults>>

Ours == {v \in 1..Len(history) : history[v].ours}

ForceClear ==
    /\ Idle /\ cps = <<>> /\ updates # {}
    /\ bufRoots' = {} /\ bufLeaves' = {}
    /\ updates' = {} /\ generation' = generation + 1
    /\ discarded' = discarded \cup Ours
    /\ UNCHANGED <<envVars, serverVars, bulkUnsupported, safe, flushVars, callerVars,
                   history, faults>>

(* enable_commits and disable_commits. *)
SetSafe(b) ==
    /\ Idle /\ cps = <<>> /\ updates = {} /\ safe # b
    /\ safe' = b
    /\ UNCHANGED <<envVars, serverVars, blockVars, bulkUnsupported, updates, generation,
                   flushVars, callerVars, ghostVars, faults>>

(* An update of PeergosSyncFS starts with a checkpoint, *)
BeginUpdate ==
    /\ Idle /\ ~opErr /\ Len(cps) < MaxNest
    /\ AnyCheckpoint \/ \A w, x \in Writers : ownerOf[w] = ownerOf[x]
    /\ cps' = Append(cps, [generation |-> generation, len |-> Cardinality(updates),
                           last |-> {u.updated : u \in LastOf(updates)},
                           since |-> Len(history)])
    /\ UNCHANGED <<envVars, serverVars, blockVars, bulkUnsupported, updates, generation,
                   safe, flushVars, opErr, ghostVars, faults>>

Innermost == cps[Len(cps)]

DropCheckpoint == cps' = SubSeq(cps, 1, Len(cps) - 1)

(* succeeds, *)
EndUpdate ==
    /\ Idle /\ cps # <<>> /\ ~opErr
    /\ DropCheckpoint
    /\ UNCHANGED <<envVars, serverVars, blockVars, bulkUnsupported, updates, generation,
                   safe, flushVars, opErr, ghostVars, faults>>

(* or fails and rolls back; the error goes on to the enclosing update. *)
FailUpdate ==
    /\ Idle /\ cps # <<>>
    /\ updates' = RolledBack(Innermost)
    /\ discarded' = discarded \cup {v \in Ours : v > Innermost.since}
    /\ DropCheckpoint
    /\ opErr' = (cps' # <<>>)
    /\ UNCHANGED <<envVars, serverVars, blockVars, bulkUnsupported, generation, safe,
                   flushVars, history, faults>>

(* Another device commits a write it read the server's pointer for. *)
OtherDevice(w, k) ==
    LET old  == TreeOf(ptr[w].target)[k]
        ver  == Len(history) + 1
        root == [TreeOf(ptr[w].target) EXCEPT ![k] = ver]
    IN  /\ Len(history) < MaxWrites
        /\ StoreBlocks({root}, {ver})
        /\ SetPointer(w, root, ptr[w].seq + 1)
        /\ NewVersion(w, k, old, FALSE)
        /\ UNCHANGED <<envVars, blockVars, bulkUnsupported, updates, generation, safe,
                       flushVars, callerVars, discarded, faults>>

-----------------------------------------------------------------------------
Init ==
    /\ ownerOf \in OwnerMaps
    /\ noBulk \in Servers
    /\ ptr = [w \in Writers |-> IF w \in Fresh THEN Empty
                                ELSE [target |-> EmptyTree, seq |-> 1]]
    /\ stRoots = {EmptyTree} /\ stLeaves = {}
    /\ bufRoots = {} /\ bufLeaves = {} /\ bulkUnsupported = {}
    /\ updates = {} /\ generation = 0 /\ safe = TRUE
    /\ pc = "idle" /\ todo = {} /\ cur = Nobody /\ writes = {} /\ remote = Empty
    /\ cps = <<>> /\ opErr = FALSE
    /\ history = <<>> /\ discarded = {} /\ landed = {} /\ faults = 0

Next ==
    \/ FlushStep
    \/ \E e \in Entries : Write(e[1], e[2])
    \/ \E o \in Owners : Commit(o)
    \/ ForceClear
    \/ \E b \in BOOLEAN : SetSafe(b)
    \/ BeginUpdate
    \/ EndUpdate
    \/ FailUpdate
    \/ \E e \in Entries : OtherDevice(e[1], e[2])

(* Callers finish their updates and commit what they buffered; a flush runs  *)
(* to its end.                                                               *)
Fairness ==
    /\ WF_vars(FlushStep)
    /\ WF_vars(EndUpdate \/ FailUpdate)
    /\ SF_vars(\E o \in Owners : Commit(o))

Spec == Init /\ [][Next]_vars
FairSpec == Spec /\ Fairness

-----------------------------------------------------------------------------
(* Properties. *)

TypeOK ==
    /\ ownerOf \in [Writers -> Owners] /\ noBulk \subseteq Owners
    /\ ptr \in [Writers -> Pointer]
    /\ stRoots \subseteq Tree /\ stLeaves \subseteq Nat
    /\ bufRoots \subseteq Tree /\ bufLeaves \subseteq Nat
    /\ bulkUnsupported \subseteq Owners
    /\ updates \subseteq Update /\ generation \in Nat /\ safe \in BOOLEAN
    /\ pc \in FlushPcs /\ todo \subseteq Owners /\ cur \in Owners
    /\ writes \subseteq Update /\ remote \in Pointer
    /\ cps \in Seq(Checkpoint) /\ opErr \in BOOLEAN
    /\ history \in Seq(Version)
    /\ discarded \subseteq Nat /\ landed \subseteq Nat
    /\ faults \in Nat

(* Every pointer on the server names a root whose blocks are all on the      *)
(* server, at every moment: between the calls of a flush, after a failed or  *)
(* half done one, and if the client stops for good.  Blocks go before the    *)
(* pointers that need them, on the bulk path, on the older one, and for a    *)
(* merge.                                                                    *)
PointersComplete ==
    \A w \in Writers : ptr[w].target # NoRoot => Complete(ptr[w].target)

(* A root the client can still commit, or restore by a rollback. *)
Available(r) ==
    \/ r \in bufRoots /\ Leaves(r) \subseteq bufLeaves \cup stLeaves
    \/ Complete(r)

(* A buffered update never loses its blocks: commit_blocks and the clear at  *)
(* the end of flush drop only what is on the server or what no update, and   *)
(* no checkpoint a rollback would honour, can bring back.                    *)
BufferedAvailable ==
    /\ \A u \in updates : Available(u.updated)
    /\ \A i \in 1..Len(cps) : cps[i].generation = generation
          => \A r \in cps[i].last : Available(r)

Shared == INSTANCE SharedTree WITH
        tree  <- [w \in Writers |-> TreeOf(ptr[w].target)],
        edits <- [v \in 1..Len(history) |->
                    [writer |-> history[v].writer, key |-> history[v].key,
                     parent |-> history[v].parent]]

Committing == pc \in {"ptrs", "resolve", "recas"}

ListInv ==
    /\ IsFiniteSet(updates)
    /\ \A u, x \in updates : u.pos = x.pos => u = x
    /\ \A u \in updates : u.pos <= Len(history)

CheckpointInv == \A i \in 1..Len(cps) : cps[i].generation <= generation

CommitInv ==
    Committing => writes \subseteq updates /\ \A u \in writes : Complete(u.updated)

MergeInv ==
    pc = "recas" =>
        /\ remote.target # NoRoot /\ Leaves(remote.target) \subseteq stLeaves
        /\ \A u \in writes : IsFirst(u, writes) =>
              /\ u.original # NoRoot
              /\ Merge(u.original, u.updated, remote.target) \in stRoots

(* The inductive invariant behind the two: an update is in the list once,    *)
(* no checkpoint is from a later generation, the updates commit_pointers     *)
(* works on are complete on the server before it starts, and so is a merge   *)
(* before its CAS.                                                           *)
StorageInv ==
    /\ TypeOK /\ PointersComplete /\ BufferedAvailable
    /\ ListInv /\ CheckpointInv /\ CommitInv /\ MergeInv

Carries(u, v) == v \in Leaves(u.updated) /\ v \notin Leaves(TreeOf(u.original))

Superseded(v) ==
    \E n \in ((Ours \ discarded) \cup landed) \ {v} :
        v \in Shared!Ancestors(history, n)

(* Nothing buffered is dropped silently: what we wrote is on the server, or  *)
(* still buffered for its writer, or was overwritten by us, or was given up  *)
(* by the caller (rolled back or cleared).                                   *)
UpdatesKept ==
    \A v \in Ours \ (landed \cup discarded) :
        Superseded(v) \/ \E u \in updates : u.writer = history[v].writer /\ Carries(u, v)

(* A rollback discards what was written since its checkpoint and no buffered *)
(* update ever names a root of another writer, even when an automatic flush  *)
(* committed part of the buffer in between.                                  *)
RollbackDiscards ==
    \A u \in updates : \A v \in Leaves(u.updated) :
        /\ history[v].writer = u.writer
        /\ v \in discarded => ~Carries(u, v)

(* The server sees our writes to an owner's space in the order we made them: *)
(* a write lands only after, or with, every earlier one that is still wanted. *)
WriteOrder ==
    \A v \in Ours \cap landed, u \in Ours \ (landed \cup discarded) :
        u < v /\ ~Superseded(u)
            => ownerOf[history[u].writer] # ownerOf[history[v].writer]

(* Every change of a pointer takes its sequence forward, so that a server    *)
(* that insists on it accepts what a merge or a condensed update sends.      *)
SequencesAdvance ==
    [][\A w \in Writers : ptr'[w] # ptr[w] => ptr'[w].seq > ptr[w].seq]_vars

(* No change of another device is overwritten unseen, by a commit, a merge   *)
(* or a retry of either: the server implements SharedTree.                   *)
ImplementsSharedTree == Shared!Spec

(* The server has moved away from what our updates of a writer were based    *)
(* on, and no merge exists: both sides changed a key, or both created the    *)
(* pointer.                                                                  *)
Clashes(first, last, theirs) ==
    Changed(first.original, last.updated) \cap Changed(first.original, theirs)

Conflict(w) ==
    LET mine   == {u \in updates : u.writer = w}
        theirs == ptr[w].target
    IN  \E first \in mine, last \in mine :
          /\ IsFirst(first, mine) /\ last \in LastOf(mine)
          /\ theirs \notin UNION {{u.original, u.updated} : u \in mine}
          /\ ~CanMerge(first.original, last.updated, theirs)

(* What is buffered is committed in the end, unless a call is lost or our    *)
(* updates are in conflict for good: changes another device made to other    *)
(* keys are merged.                                                          *)
Drains ==
    \/ []<>(updates = {} \/ faults > 0)
    \/ <>[](\E w \in Writers : Conflict(w))

(* Between flushes, updates are in conflict only with another device: where  *)
(* both sides changed a key, the server's change is not our own.             *)
ConflictsAreWithOthers ==
    pc = "idle" => \A w \in Writers : Conflict(w) =>
        \E first \in updates, last \in Latest(updates, w) :
            /\ first.writer = w /\ \A u \in updates : u.writer = w => first.pos <= u.pos
            /\ \/ NoRoot \in {first.original, ptr[w].target}
               \/ \E k \in Clashes(first, last, ptr[w].target) :
                     ~history[ptr[w].target[k]].ours

=============================================================================
