------------------------------ MODULE NodeCache -------------------------------
(* The session's cache of decrypted nodes (crates/peergos-fs/src/cache.rs) and the
   handles that read and write through it (filewrapper.rs). Nodes are kept by the
   root of the tree they were read from. An operation notes the root before it, makes
   its commit, and then moves that root's nodes to the root it finds, without those
   it knows it has changed. Nodes are read with one key each. *)
EXTENDS Cryptree

CONSTANTS
  Names,       \* names of files and directories
  Tasks,       \* tasks of the session that change the tree
  Ops,         \* the operations explored
  MaxRoots,    \* roots kept
  MaxEntries,  \* nodes kept for a root
  MaxOps,      \* operations begun, here and elsewhere
  MaxReads     \* reads it makes besides

VARIABLES
  files,    \* the tree as it is committed
  root,     \* its root: the number of commits so far
  cache,    \* [root, got] for the roots kept, the least recently used first
  task,     \* what each task is doing
  fresh,    \* the next unused location
  ops, reads,  \* operations begun, reads made
  crossed   \* locations someone else changed while an operation was under way

vars == <<files, root, cache, task, fresh, ops, reads, crossed>>
counts == <<ops, reads>>

Absent == [dir |-> FALSE, absent |-> TRUE]
At(t, k) == IF k \in DOMAIN t THEN t[k] ELSE Absent

-------------------------------------------------------------------------------
(* CryptreeCache *)

Kept(c) == {c[i].root : i \in 1..Len(c)}
Without(c, r) == SelectSeq(c, LAMBDA g : g.root # r)
Got(c, r) == IF r \in Kept(c) THEN c[CHOOSE i \in 1..Len(c) : c[i].root = r].got ELSE <<>>

\* Lru::insert: the group becomes the most recently used, the oldest makes room.
InsertGroup(c, r, got) ==
  LET rest == Without(c, r)
  IN Append(IF Len(rest) < MaxRoots THEN rest ELSE Tail(rest), [root |-> r, got |-> got])

\* What a full group may be left with; which nodes were used last is left open.
Trimmed(got) ==
  IF Cardinality(DOMAIN got) =< MaxEntries THEN {got}
  ELSE {Restrict(got, ks) : ks \in kSubset(MaxEntries, DOMAIN got)}

CarryOver(c, prior, new) ==
  IF prior = new \/ prior \notin Kept(c) THEN c ELSE InsertGroup(Without(c, prior), new, Got(c, prior))

\* Mutant of Migrate: what changed is dropped before the nodes are carried over.
MigrateLate(c, prior, new, changed) ==
  LET dropped == IF new \notin Kept(c) THEN c
                 ELSE InsertGroup(c, new, Restrict(Got(c, new), DOMAIN Got(c, new) \ changed))
  IN CarryOver(dropped, prior, new)

\* What was read under `prior` now counts for `new`, but for the changed locations.
Migrate(c, prior, new, changed) ==
  LET carried == CarryOver(c, prior, new)
  IN IF new \notin Kept(carried) THEN carried
     ELSE InsertGroup(carried, new, Restrict(Got(carried, new), DOMAIN Got(carried, new) \ changed))

-------------------------------------------------------------------------------
(* Reading through the cache: fetch_chunk_node_verified *)

Look(got, k) == IF k \in DOMAIN got THEN got[k] ELSE At(files, k)
Fetched(got, ks) == [k \in ks |-> Look(got, k)] @@ got

\* list_directory_cached: chunks until one is not there, which is remembered too.
ChunkKeys(got, l) ==
  LET n == CHOOSE n \in 0..Cardinality(DOMAIN files) :
             Look(got, <<l, n>>) = Absent /\ \A i \in 0..(n - 1) : Look(got, <<l, i>>) # Absent
  IN {<<l, i>> : i \in 0..n}

Listed(got, l) ==
  FlattenSeq([i \in 1..(Cardinality(ChunkKeys(got, l)) - 1) |-> Look(got, <<l, i - 1>>).links])

ChildKeys(got, l, name) == {<<c.to, 0>> : c \in {c \in ToSet(Listed(got, l)) : c.name = name}}

\* all_children and child: the chunks of the directory, and the nodes of its children.
ReadDir(l) ==
  LET got == Got(cache, root)
      ks == ChunkKeys(got, l)
  IN /\ IsDir(files, l)
     /\ \E g \in Trimmed(Fetched(got, ks \cup {<<c.to, 0>> : c \in ToSet(Listed(got, l))})) :
          cache' = InsertGroup(cache, root, g)
     /\ reads < MaxReads /\ reads' = reads + 1
     /\ UNCHANGED <<files, root, task, fresh, ops, crossed>>

\* read: the chunks of a file up to its size.
ReadFileChunks(l) ==
  LET got == Got(cache, root)
  IN /\ IsFile(files, l)
     /\ Look(got, <<l, 0>>) # Absent
     /\ \E g \in Trimmed(Fetched(got, {<<l, i>> : i \in 0..(ChunkCount(Look(got, <<l, 0>>).size) - 1)})) :
          cache' = InsertGroup(cache, root, g)
     /\ reads < MaxReads /\ reads' = reads + 1
     /\ UNCHANGED <<files, root, task, fresh, ops, crossed>>

-------------------------------------------------------------------------------
(* Writing: note the root, commit, and carry the nodes over (migrate_cache) *)

Idle == [op |-> "none"]

Named(l, name) == IsDir(files, l) /\ ChildrenNamed(files, l, name) # <<>>
ChildAt(l, name) == ChildrenNamed(files, l, name)[1].to

\* remove_child, rename_child and move_child look their child up first, through the
\* cache; then, as the others, they note the root. `left` is what they will drop.
BeginNamed(t) == \E op \in Ops \cap {"remove", "rename", "move"}, l \in Dirs(files), name \in Names :
  LET got == Got(cache, root)
      ks == ChunkKeys(got, l) \cup ChildKeys(got, l, name) IN
  /\ task[t] = Idle /\ ops < MaxOps /\ ops' = ops + 1
  /\ task' = [task EXCEPT ![t] = [op |-> op, at |-> l, name |-> name, prior |-> root,
                                  left |-> <<{<<l, 0>>} \cup ChildKeys(got, l, name)>>]]
  /\ \E g \in Trimmed(Fetched(got, ks)) : cache' = InsertGroup(cache, root, g)
  /\ UNCHANGED <<files, root, fresh, reads, crossed>>

\* mkdir, upload and upload_streaming in directory l; write_section, append and
\* truncate of file l.
BeginAt(t) == \E op \in Ops \cap {"mkdir", "upload", "write", "truncate"} :
  \E l \in IF op \in {"mkdir", "upload"} THEN Dirs(files) ELSE Files(files),
     name \in IF op \in {"mkdir", "upload"} THEN Names ELSE {NoName} :
    /\ task[t] = Idle /\ ops < MaxOps /\ ops' = ops + 1
    /\ task' = [task EXCEPT ![t] = [op |-> op, at |-> l, name |-> name, prior |-> root, left |-> <<{<<l, 0>>}>>]]
    /\ UNCHANGED <<files, root, cache, fresh, reads, crossed>>

Differing(t, u) == {k \in DOMAIN t \cup DOMAIN u : At(t, k) # At(u, k)}

\* A new root; `by` are the tasks that know of the change.
NewRoot(tree, by) ==
  /\ files' = tree /\ root' = root + 1
  /\ UNCHANGED reads
  /\ crossed' = IF \E u \in Tasks \ by : task[u] # Idle THEN crossed \cup Differing(files, tree) ELSE crossed

Then(t, op, left) == task' = [task EXCEPT ![t].op = op, ![t].left = left]

Mkdir(t) ==
  /\ task[t].op = "mkdir" /\ IsDir(files, task[t].at)
  /\ NewRoot(CreateDirectory(files, task[t].at, task[t].name, fresh), {t})
  /\ Then(t, "migrate", task[t].left)
  /\ fresh' = fresh + 1 /\ UNCHANGED <<cache, ops>>

Upload(t) ==
  /\ task[t].op = "upload" /\ IsDir(files, task[t].at)
  /\ NewRoot(UploadFile(files, task[t].at, task[t].name, fresh, <<2>>), {t})
  /\ Then(t, "migrate", task[t].left)
  /\ fresh' = fresh + 1 /\ UNCHANGED <<cache, ops>>

\* delete_child; that what is below the child goes too is not told to the cache.
RemoveChild(t) ==
  /\ task[t].op = "remove" /\ Named(task[t].at, task[t].name) /\ AllThere(files, ChildAt(task[t].at, task[t].name))
  /\ NewRoot(DeleteChild(files, task[t].at, task[t].name), {t})
  /\ Then(t, "migrate", task[t].left)
  /\ UNCHANGED <<cache, fresh, ops>>

RenameChild(t) == \E new \in Names :
  /\ task[t].op = "rename" /\ Named(task[t].at, task[t].name) /\ ~Named(task[t].at, new)
  /\ IsNode(files, ChildAt(task[t].at, task[t].name))
  /\ NewRoot(Renamed(files, task[t].at, task[t].name, new), {t})
  /\ Then(t, "migrate", task[t].left)
  /\ UNCHANGED <<cache, fresh, ops>>

\* move_to's three commits: the child's new parent, its new link, the old one gone.
\* Then the source's nodes are carried over, and the target's after them.
MoveReparent(t) == \E to \in Dirs(files) :
  LET c == ChildAt(task[t].at, task[t].name) IN
  /\ task[t].op = "move" /\ Named(task[t].at, task[t].name) /\ ~Named(to, task[t].name)
  /\ IsNode(files, c) /\ (IsDir(files, c) => AllThere(files, c) /\ to \notin Subtree(files, c))
  /\ NewRoot([files EXCEPT ![<<c, 0>>].parent = to], {t})
  /\ task' = [task EXCEPT ![t] = [op |-> "link", at |-> @.at, name |-> @.name, prior |-> @.prior,
                                  left |-> @.left \o <<{<<to, 0>>}>>, child |-> c, to |-> to]]
  /\ UNCHANGED <<cache, fresh, ops>>

MoveLink(t) ==
  /\ task[t].op = "link" /\ IsDir(files, task[t].to)
  /\ NewRoot(FinishDirWrite(files, task[t].to, <<Link(task[t].name, task[t].child)>>), {t})
  /\ Then(t, "unlink", task[t].left)
  /\ UNCHANGED <<cache, fresh, ops>>

MoveUnlink(t) ==
  /\ task[t].op = "unlink" /\ IsDir(files, task[t].at)
  /\ NewRoot(RemoveLink(files, task[t].at, task[t].name), {t})
  /\ Then(t, "migrate", task[t].left)
  /\ UNCHANGED <<cache, fresh, ops>>

\* write_section, overwrite_section and append report the chunks they put; truncate
\* those it removed too.
WriteSection(t) == \E offset \in 0..(2 * ChunkSize) :
  LET l == task[t].at IN
  /\ task[t].op = "write" /\ IsFile(files, l) /\ offset =< files[<<l, 0>>].size
  /\ \E nodes \in {SectionNodes(files, l, offset, <<2>>)} :
       /\ NewRoot(ReuploadNodes(files, nodes, {}), {t})
       /\ Then(t, "migrate", <<DOMAIN nodes>>)
  /\ UNCHANGED <<cache, fresh, ops>>

Truncate(t) == \E size \in 0..(2 * ChunkSize) :
  LET l == task[t].at IN
  /\ task[t].op = "truncate" /\ IsFile(files, l) /\ size < files[<<l, 0>>].size
  /\ \E nodes \in {TruncatedNodes(files, l, size)}, away \in {TruncatedAway(files, l, size)} :
       /\ NewRoot(ReuploadNodes(files, nodes, away), {t})
       /\ Then(t, "migrate", <<DOMAIN nodes \cup away>>)
  /\ UNCHANGED <<cache, fresh, ops>>

\* migrate_cache reads the root again, which may be a later one than the commit's.
MigrateCache(t) ==
  LET q == task[t] IN
  /\ q.op = "migrate"
  /\ cache' = IF q.prior = root THEN cache ELSE Migrate(cache, q.prior, root, Head(q.left))
  /\ task' = [task EXCEPT ![t] = IF Len(q.left) = 1 THEN Idle ELSE [q EXCEPT !.left = Tail(@)]]
  /\ UNCHANGED <<files, root, fresh, counts, crossed>>

\* An operation that fails leaves the cache alone.
Fail(t) ==
  /\ task[t].op \notin {"none", "migrate"}
  /\ task' = [task EXCEPT ![t] = Idle]
  /\ UNCHANGED <<files, root, cache, fresh, counts, crossed>>

\* A commit of another device, or one this session makes past the cache (copy_child,
\* upload_subtree).
Elsewhere == \E l \in Dirs(files), name \in Names :
  /\ ops < MaxOps /\ ops' = ops + 1
  /\ \/ "other mkdir" \in Ops /\ NewRoot(CreateDirectory(files, l, name, fresh), {}) /\ fresh' = fresh + 1
     \/ "other remove" \in Ops /\ Named(l, name) /\ NewRoot(DeleteChild(files, l, name), {}) /\ UNCHANGED fresh
  /\ UNCHANGED <<cache, task>>

-------------------------------------------------------------------------------
\* The top directory with a directory, and in that a file of two chunks.
NCInit ==
  /\ files = UploadFile(CreateDirectory(<<Top, 0>> :> DirNode(NoName, NoParent, <<>>), Top, "a", Top + 1),
                        Top + 1, "a", Top + 2, [i \in 1..(2 * ChunkSize) |-> 1])
  /\ root = 0 /\ cache = <<>> /\ fresh = Top + 3 /\ crossed = {} /\ ops = 0 /\ reads = 0
  /\ task = [t \in Tasks |-> Idle]

NCNext ==
  \/ \E l \in Dirs(files) : ReadDir(l)
  \/ \E l \in Files(files) : ReadFileChunks(l)
  \/ \E t \in Tasks :
       \/ BeginNamed(t) \/ BeginAt(t) \/ Mkdir(t) \/ Upload(t) \/ RemoveChild(t) \/ RenameChild(t)
       \/ MoveReparent(t) \/ MoveLink(t) \/ MoveUnlink(t) \/ WriteSection(t) \/ Truncate(t)
       \/ MigrateCache(t) \/ Fail(t)
  \/ Elsewhere

NCSpec == NCInit /\ [][NCNext]_vars

\* A node the session has kept for the current root is the one the tree has (cache.rs:
\* "entries can never go stale"), though an operation carries nodes from root to root
\* and drops only those it reports: mkdir and upload their directory, remove and rename
\* their child too, write and truncate their chunks. It may differ where a move has yet
\* to carry over its target, for what someone else changed while an operation was under
\* way, and below a directory that was deleted; and not once a directory has a second
\* chunk, which no operation reports.
CacheCurrent ==
  (\A k \in DOMAIN files : files[k].dir => k[2] = 0) =>
    \A k \in DOMAIN Got(cache, root) :
      \/ Got(cache, root)[k] = At(files, k)
      \/ \E t \in Tasks : task[t].op = "migrate" /\ k \in UNION ToSet(task[t].left)
      \/ k \in crossed
      \/ ~IsNode(files, k[1])
=============================================================================
