---------------------------- MODULE WritingSpaces -----------------------------
(* Writing spaces: parts of one account that have a signing key of their own, so
   that write access to them can be granted (crates/peergos-fs/src/writing_space.rs
   and lib.rs). Each writer has a pointer to its data: the set of writers it owns and
   a tree of nodes. A space is reached through a link node in its parent's tree; the
   server takes a write only from a writer that a chain of owners leads to.
   An operation is a list of commits, each of which reads and updates one pointer.
   It may stop before any of them, and another device may write between two. *)
EXTENDS Integers, Sequences, FiniteSets, SequencesExt

CONSTANTS
  Names,        \* names of files and directories
  MaxBegun,     \* operations, uploads and searches for orphans begun
  MaxWriters    \* writers, the identity and the home writer included

VARIABLES
  wr,       \* the writers, in order of creation: live, owned, tree
  fresh,    \* the next unused location
  todo,     \* the commits still to be made by the running operation
  doing,    \* the running, or the last, operation
  sweep,    \* the orphans another device has found and is about to remove
  begun,    \* how many of MaxBegun have been
  want,     \* the files that should be there: path -> content
  cut,      \* whether an operation has been stopped half-way
  crossed,  \* whether another device has written while one was running
  swept,    \* writers that were removed as orphans when they were not
  revoked   \* writers replaced by a new one to revoke write access

vars == <<wr, fresh, todo, doing, sweep, begun, want, cut, crossed, swept, revoked>>

Identity == 1
Home == 2
Same == 0          \* a link that names no writer leads to the writer it is found in
Keep == -1

Kid(w, l, dir) == [w |-> w, l |-> l, dir |-> dir]
Dir(up, kids) == [type |-> "dir", up |-> up, kids |-> kids]
LinkNode(up, kids) == [type |-> "link", up |-> up, kids |-> kids]
File(up, data) == [type |-> "file", up |-> up, data |-> data]
Up(w, l) == [w |-> w, l |-> l]

Writer(owned, tree) == [live |-> TRUE, owned |-> owned, tree |-> tree]
Nulled == [live |-> FALSE, owned |-> {}, tree |-> <<>>]

-------------------------------------------------------------------------------
(* Reading. A capability is a writer and a location. *)

There(s, c) == s[c[1]].live /\ c[2] \in DOMAIN s[c[1]].tree
Node(s, c) == s[c[1]].tree[c[2]]
IsLink(s, c) == Node(s, c).type = "link"
IsFile(s, c) == Node(s, c).type = "file"
Child(c, kid) == <<IF kid.w = Same THEN c[1] ELSE kid.w, kid.l>>
Kids(s, c) == Node(s, c).kids
ListDirectory(s, c) == {Child(c, Kids(s, c)[n]) : n \in DOMAIN Kids(s, c)}

\* The single child of a link node.
Target(s, c) == CHOOSE t \in ListDirectory(s, c) : TRUE
Follow(s, c) == IF There(s, c) /\ IsLink(s, c) THEN Target(s, c) ELSE c

HomeDir == <<Home, 0>>

\* The paths below those of fs, with the capability each leads to, link nodes followed.
RECURSIVE FoundFrom(_, _)
FoundFrom(s, fs) ==
  LET Below(f) == {[path |-> Append(f.path, n), at |-> Follow(s, Child(f.at, Kids(s, f.at)[n]))] : n \in DOMAIN Kids(s, f.at)}
      next == {g \in UNION {Below(f) : f \in {f \in fs : ~IsFile(s, f.at)}} : There(s, g.at)}
  IN IF next = {} THEN fs ELSE fs \cup FoundFrom(s, next)

Found(s) == IF There(s, HomeDir) THEN FoundFrom(s, {[path |-> <<>>, at |-> HomeDir]}) ELSE {}
FoundDirs(s) == {f \in Found(s) : ~IsFile(s, f.at)}
FilesIn(s, found) == {<<f.path, Node(s, f.at).data>> : f \in {f \in found : IsFile(s, f.at)}}
IsBelow(p, q) == IsPrefix(q, p)

\* is_authorized: the identity, or a writer owned by one that is.
RECURSIVE OwnedFrom(_, _)
OwnedFrom(s, ws) ==
  LET next == ws \cup UNION {s[w].owned : w \in ws}
  IN IF next = ws THEN ws ELSE OwnedFrom(s, next)

Authorised(s) == OwnedFrom(s, {Identity})

-------------------------------------------------------------------------------
(* Subtrees *)

\* collect_subtree: the nodes below ls in the tree of w, and the spaces they link to.
RECURSIVE Collected(_, _)
Collected(t, ls) ==
  LET next == ls \cup UNION {{k.l : k \in {t[l].kids[n] : n \in {n \in DOMAIN t[l].kids : t[l].kids[n].w = Same}}} :
                              l \in {l \in ls : l \in DOMAIN t /\ t[l].type # "file"}}
  IN IF next = ls THEN ls \cap DOMAIN t ELSE Collected(t, next)

Nested(t, ls) == {<<k.w, k.l>> : k \in {k \in UNION {{t[l].kids[n] : n \in DOMAIN t[l].kids} :
                                                       l \in {l \in ls : t[l].type # "file"}} : k.w # Same}}

\* remove_all_chunks: looks every child up in the same tree, whatever its writer.
RECURSIVE Chunks(_, _)
Chunks(t, ls) ==
  LET next == ls \cup UNION {{t[l].kids[n].l : n \in DOMAIN t[l].kids} :
                              l \in {l \in ls : l \in DOMAIN t /\ t[l].type # "file"}}
  IN IF next = ls THEN ls ELSE Chunks(t, next)

RemoveAllChunks(t, l) == Restrict(t, DOMAIN t \ Chunks(t, {l}))

\* collect_own_writer_targets: the spaces below c, an owner before what it owns.
RECURSIVE Targets(_, _)
Targets(s, c) ==
  IF ~There(s, c) \/ IsFile(s, c) THEN <<>>
  ELSE IF IsLink(s, c) THEN <<Target(s, c)>> \o Targets(s, Target(s, c))
  ELSE FoldLeft(LAMBDA out, k : out \o Targets(s, k), <<>>, SetToSeq(ListDirectory(s, c)))

\* Mutant of FirstLevel: the deleted spaces stay in the parent's owned keys.
NoneOwned(s, c) == <<>>

\* and those of them that the writer of c owns
FirstLevel(s, c) == SetToSeq({n[1] : n \in Nested(s[c[1]].tree, Collected(s[c[1]].tree, {c[2]}))})

\* Every link below c leads to something (each step reads the node's metadata).
RECURSIVE AllThere(_, _)
AllThere(s, c) ==
  There(s, c) /\ (~IsFile(s, c) => \A k \in ListDirectory(s, c) : AllThere(s, k))

-------------------------------------------------------------------------------
(* Commits *)

Own(by, w) == [do |-> "own", by |-> by, w |-> w]
Disown(by, w) == [do |-> "disown", by |-> by, w |-> w]
NewSpace(w, tree) == [do |-> "space", w |-> w, tree |-> tree]
PutLink(dir, name, at, to, isDir) == [do |-> "link", dir |-> dir, name |-> name, at |-> at, to |-> to, isDir |-> isDir]
Reparent(at, from, to) == [do |-> "reparent", at |-> at, from |-> from, to |-> to]
PutNode(dir, name, at, node) == [do |-> "put", dir |-> dir, files |-> <<[name |-> name, at |-> at, node |-> node]>>]
PutFiles(dir, files) == [do |-> "put", dir |-> dir, files |-> files]
Copy(from, to, keep) == [do |-> "copy", from |-> from, to |-> to, keep |-> keep]
Drop(dir, l) == [do |-> "drop", dir |-> dir, l |-> l]
Null(root) == [do |-> "null", root |-> root]
Unlink(dir, name) == [do |-> "unlink", dir |-> dir, name |-> name]

\* The next commit, of the kind named, and what it leaves to do.
Due(kind) == todo # <<>> /\ Head(todo).do = kind
Rest ==
  /\ todo' = Tail(todo)
  /\ revoked' = IF Len(todo) = 1 /\ doing.op = "revoke" THEN revoked \cup {doing.old} ELSE revoked
Ghosts == UNCHANGED <<doing, sweep, begun, want, cut, crossed, swept>>

\* The pointer is there and the server takes the writer's update.
MayCommit(w) == wr[w].live /\ w \in Authorised(wr)
MayWriteDir(c) == MayCommit(c[1]) /\ There(wr, c) /\ ~IsFile(wr, c)

\* The tree with a child's node and its link, which replaces one of the same name.
WithChild(t, l, name, kid, node) == [(kid.l :> node) @@ t EXCEPT ![l].kids = (name :> kid) @@ @]

\* add_owned_writer, and step 1 of create_writable_shared_dir and _file.
AddOwnedWriter ==
  /\ Due("own")
  /\ LET c == Head(todo)
     IN /\ MayCommit(c.by)
        /\ wr' = [wr EXCEPT ![c.by].owned = @ \cup {c.w}]
  /\ Rest /\ Ghosts /\ UNCHANGED fresh

\* remove_owned_writer and deauthorize_writer.
RemoveOwnedWriter ==
  /\ Due("disown")
  /\ LET c == Head(todo)
     IN /\ MayCommit(c.by)
        /\ wr' = [wr EXCEPT ![c.by].owned = @ \ {c.w}]
  /\ Rest /\ Ghosts /\ UNCHANGED fresh

\* A new writer's first pointer.
CreateSpace ==
  /\ Due("space")
  /\ LET c == Head(todo)
     IN /\ ~wr[c.w].live
        /\ c.w \in Authorised(wr)
        /\ wr' = [wr EXCEPT ![c.w] = Writer({}, c.tree)]
  /\ Rest /\ Ghosts /\ UNCHANGED fresh

CreateLinkNode ==
  /\ Due("link")
  /\ LET c == Head(todo)
     IN /\ MayWriteDir(c.dir)
        /\ There(wr, c.to)
        /\ wr' = [wr EXCEPT ![c.dir[1]].tree =
                    WithChild(@, c.dir[2], c.name, Kid(Same, c.at, c.isDir),
                              LinkNode(Up(Same, c.dir[2]), c.name :> Kid(c.to[1], c.to[2], c.isDir)))]
  /\ Rest /\ Ghosts /\ UNCHANGED fresh

\* create_directory, upload_file and commit_small_batch.
PutChildren ==
  /\ Due("put")
  /\ LET c == Head(todo)
     IN /\ MayWriteDir(c.dir)
        /\ wr' = [wr EXCEPT ![c.dir[1]].tree =
                    FoldLeft(LAMBDA t, f : WithChild(t, c.dir[2], f.name, Kid(Same, f.at, f.node.type = "dir"), f.node),
                             @, c.files)]
  /\ Rest /\ Ghosts /\ UNCHANGED fresh

\* The commit of reparent_writing_space to the nested space itself.
ReparentWritingSpace ==
  /\ Due("reparent")
  /\ LET c == Head(todo)
         NewUp(link) == IF c.to.l # Keep THEN c.to
                        ELSE IF link.w = c.from THEN [link EXCEPT !.w = c.to.w] ELSE link
     IN /\ MayCommit(c.at[1])
        /\ There(wr, c.at)
        /\ wr' = [wr EXCEPT ![c.at[1]].tree[c.at[2]].up = NewUp(@)]
  /\ Rest /\ Ghosts /\ UNCHANGED fresh

RemoveOrphanedSubtree ==
  /\ Due("drop")
  /\ LET c == Head(todo)
     IN /\ MayWriteDir(c.dir)
        /\ wr' = [wr EXCEPT ![c.dir[1]].tree = RemoveAllChunks(@, c.l)]
  /\ Rest /\ Ghosts /\ UNCHANGED fresh

\* recover_signer and delete_writer_subspace, which ignores the server's answer.
DeleteWriterSubspace ==
  /\ Due("null")
  /\ LET w == Head(todo).root[1]
     IN /\ w # Identity => There(wr, Head(todo).root)
        /\ wr' = IF w \in Authorised(wr) THEN [wr EXCEPT ![w] = Nulled] ELSE wr
  /\ Rest /\ Ghosts /\ UNCHANGED fresh

\* delete_child's own commit: the link and the chunks below it.
RemoveChild ==
  /\ Due("unlink")
  /\ LET c == Head(todo)
         kids == Kids(wr, c.dir)
     IN /\ MayWriteDir(c.dir)
        /\ c.name \in DOMAIN kids
        /\ wr' = [wr EXCEPT ![c.dir[1]].tree =
                    RemoveAllChunks([@ EXCEPT ![c.dir[2]].kids = Restrict(@, DOMAIN @ \ {c.name})], kids[c.name].l)]
  /\ Rest /\ Ghosts /\ UNCHANGED fresh

-------------------------------------------------------------------------------
(* copy_dir_contents: a nested space is linked into the new directory and given to
   its writer, a directory is made and copied into, and the files are put last. *)

\* Mutant of ReparentAll: the old owner lets go before the new one has recorded it.
LetGoFirst(target, from, up, old, new) ==
  <<Reparent(target, from, up)>> \o (IF old = new THEN <<>> ELSE <<Disown(old, target[1]), Own(new, target[1])>>)

ReparentAll(target, from, up, old, new) ==
  <<Reparent(target, from, up)>> \o (IF old = new THEN <<>> ELSE <<Own(new, target[1]), Disown(old, target[1])>>)

CopyOne(c, name, at) ==
  LET e == Child(c.from, Kids(wr, c.from)[name])
      isDir == Kids(wr, c.from)[name].dir
      target == IF e[1] # c.from[1] THEN e ELSE Target(wr, e)
  IN IF e[1] # c.from[1] \/ IsLink(wr, e)
     THEN <<PutLink(c.to, name, at, target, isDir)>>
          \o ReparentAll(target, Same, Up(c.to[1], at), c.keep, c.to[1])
     ELSE IF isDir
     THEN <<PutNode(c.to, name, at, Dir(Up(Same, c.to[2]), <<>>)), Copy(e, <<c.to[1], at>>, c.keep)>>
     ELSE <<>>

CopyDirContents ==
  /\ Due("copy")
  /\ LET c == Head(todo)
         kids == Kids(wr, c.from)
         names == SetToSeq(DOMAIN kids)
         IsPlainFile(n) == kids[n].w = Same /\ IsFile(wr, Child(c.from, kids[n]))
         At(n) == fresh - 1 + CHOOSE i \in 1..Len(names) : names[i] = n
         files == SelectSeq(names, IsPlainFile)
     IN /\ There(wr, c.from)
        /\ \A k \in ListDirectory(wr, c.from) : There(wr, k)
        /\ fresh' = fresh + Len(names)
        /\ todo' = FoldLeft(LAMBDA out, n : out \o CopyOne(c, n, At(n)), <<>>, names)
                   \o (IF files = <<>> THEN <<>>
                       ELSE <<PutFiles(c.to, [i \in 1..Len(files) |->
                                [name |-> files[i], at |-> At(files[i]),
                                 node |-> File(Up(Same, c.to[2]), Node(wr, Child(c.from, kids[files[i]])).data)]])>>)
                   \o Tail(todo)
  /\ Ghosts /\ UNCHANGED <<wr, revoked>>

-------------------------------------------------------------------------------
(* Operations. Each reads what it needs and lists its commits. *)

BeginOne == begun < MaxBegun /\ begun' = begun + 1

Begin(op, path, old) ==
  /\ todo = <<>> /\ BeginOne
  /\ doing' = [op |-> op, path |-> path, old |-> old]

Untouched == UNCHANGED <<wr, sweep, cut, crossed, swept, revoked>>

\* The entry n of the directory f was found to be.
Entry(f, n) == Child(f.at, Kids(wr, f.at)[n])

NewWriter == Len(wr) + 1
WithNewWriter(more) == Len(wr) < MaxWriters /\ wr' = Append(wr, Nulled) /\ todo' = more

\* Mutant of Relink: the old copy goes before the new one is linked.
DropThenLink(d, n, e, isDir) == <<Drop(d, e[2]), PutLink(d, n, fresh, <<NewWriter, e[2]>>, isDir)>>

\* The end of move_to_new_writing_space: the link node, then the old copy.
Relink(d, n, e, isDir) == <<PutLink(d, n, fresh, <<NewWriter, e[2]>>, isDir), Drop(d, e[2])>>

\* move_to_new_writing_space: grants write access, every key kept.
MoveToNewWritingSpace(f, n) ==
  /\ Begin("grant", Append(f.path, n), Same)
  /\ LET d == f.at
         e == Entry(f, n)
         tree == wr[d[1]].tree
         below == Collected(tree, {e[2]})
         moved == [l \in below |-> IF l = e[2] THEN [tree[l] EXCEPT !.up = Up(d[1], fresh)] ELSE tree[l]]
     IN /\ There(wr, e) /\ ~IsLink(wr, e)
        /\ WithNewWriter(
             <<Own(d[1], NewWriter), NewSpace(NewWriter, moved)>>
             \o FoldLeft(LAMBDA out, t : out \o ReparentAll(t, d[1], Up(NewWriter, Keep), d[1], NewWriter),
                         <<>>, SetToSeq(Nested(tree, below)))
             \o Relink(d, n, e, ~IsFile(wr, e)))
  /\ fresh' = fresh + 1
  /\ UNCHANGED <<sweep, want, cut, crossed, swept, revoked>>

\* The end of force_rotate_child_to_new_writer: the old space, its link node, its key.
Replace(d, e, old) == <<Null(old), Drop(d, e[2]), Disown(d[1], old[1])>>

\* force_rotate_child_to_new_writer: revokes write access, everything copied.
ForceRotate(f, n) ==
  /\ LET d == f.at
         e == Entry(f, n)
         old == Target(wr, e)
         root == fresh + 1
         node == IF IsFile(wr, old) THEN File(Up(d[1], fresh), Node(wr, old).data) ELSE Dir(Up(d[1], fresh), <<>>)
     IN /\ There(wr, e) /\ IsLink(wr, e) /\ There(wr, old)
        /\ Begin("revoke", Append(f.path, n), old[1])
        /\ WithNewWriter(
             <<Own(d[1], NewWriter), NewSpace(NewWriter, root :> node)>>
             \o (IF IsFile(wr, old) THEN <<>> ELSE <<Copy(old, <<NewWriter, root>>, old[1])>>)
             \o <<PutLink(d, n, fresh, <<NewWriter, root>>, ~IsFile(wr, old))>> \o Replace(d, e, old))
  /\ fresh' = fresh + 2
  /\ UNCHANGED <<sweep, want, cut, crossed, swept, revoked>>

\* Where rekeying moves the files below q when q is a link node: it is listed like a
\* directory, and its one child, which has its name, is linked into the new one.
Sunk(q) ==
  LET Moved(p) == IF IsBelow(p, q) THEN q \o <<Last(q)>> \o SubSeq(p, Len(q) + 1, Len(p)) ELSE p
  IN [p \in {Moved(x) : x \in DOMAIN want} |-> want[CHOOSE x \in DOMAIN want : Moved(x) = p]]

\* rotate_child_read_keys: the new item first, under the same name, then the copy.
RotateReadKeys(f, n) ==
  /\ Begin("rekey", Append(f.path, n), Same)
  /\ LET d == f.at
         e == Entry(f, n)
         isDir == Kids(wr, d)[n].dir
     IN /\ There(wr, e) /\ (isDir \/ IsFile(wr, e))
        /\ todo' = (IF isDir THEN <<PutNode(d, n, fresh, Dir(Up(Same, d[2]), <<>>)), Copy(e, <<d[1], fresh>>, d[1])>>
                    ELSE <<PutNode(d, n, fresh, File(Up(Same, d[2]), Node(wr, e).data))>>)
                   \o <<Drop(d, e[2])>>
        /\ want' = IF IsLink(wr, e) THEN Sunk(Append(f.path, n)) ELSE want
  /\ fresh' = fresh + 1
  /\ Untouched

DeleteChild(f, n) ==
  /\ Begin("delete", Append(f.path, n), Same)
  /\ LET d == f.at
         e == Entry(f, n)
     IN /\ AllThere(wr, e)
        /\ todo' = [i \in 1..Len(Targets(wr, e)) |-> Null(Reverse(Targets(wr, e))[i])]
                   \o <<Unlink(d, n)>>
                   \o [i \in 1..Len(FirstLevel(wr, e)) |-> Disown(d[1], FirstLevel(wr, e)[i])]
  /\ want' = Restrict(want, {p \in DOMAIN want : ~IsBelow(p, Append(f.path, n))})
  /\ UNCHANGED fresh
  /\ Untouched

DeleteAccount ==
  /\ Begin("account", <<>>, Same)
  /\ There(wr, HomeDir)
  /\ todo' = <<Null(HomeDir), Null(<<Identity, 0>>)>>
  /\ want' = <<>>
  /\ UNCHANGED fresh
  /\ Untouched

\* The process is killed, or a commit loses to another device's and returns an error.
Stop ==
  /\ todo # <<>>
  /\ todo' = <<>>
  /\ cut' = TRUE
  /\ want' = IF doing.op = "rekey" THEN Restrict(want, {p \in DOMAIN want : ~IsBelow(p, doing.path)}) ELSE want
  /\ UNCHANGED <<wr, fresh, doing, sweep, begun, crossed, swept, revoked>>

-------------------------------------------------------------------------------
(* Another device *)

\* An upload. Under the path of a running operation the file may be lost with the
\* old copy: it is not wanted then, nor is what it replaces.
Replaced(f, n) ==
  {Node(wr, c).data : c \in {c \in {Follow(wr, Entry(f, m)) : m \in DOMAIN Kids(wr, f.at) \cap {n}} : There(wr, c) /\ IsFile(wr, c)}}

OtherUploads(f, n) ==
  LET d == f.at
      q == Append(f.path, n)
  IN /\ BeginOne
     /\ MayWriteDir(d)
     /\ n \in DOMAIN Kids(wr, d) => ~Kids(wr, d)[n].dir
     /\ wr' = [wr EXCEPT ![d[1]].tree = WithChild(@, d[2], n, Kid(Same, fresh, FALSE), File(Up(Same, d[2]), fresh))]
     /\ fresh' = fresh + 1
     /\ crossed' = (crossed \/ todo # <<>> \/ (n \in DOMAIN Kids(wr, d) /\ IsLink(wr, Entry(f, n))))
     /\ want' = IF todo = <<>> \/ ~IsBelow(q, doing.path) THEN (q :> fresh) @@ want
                ELSE Restrict(want, {x \in DOMAIN want : x # q /\ want[x] \notin Replaced(f, n)})
     /\ UNCHANGED <<todo, doing, sweep, cut, swept, revoked>>

\* remove_orphaned_writers: at the identity's and every reachable writer.
Signers == {Identity} \cup {f.at[1] : f \in Found(wr)}

\* orphaned_writers: what one of the account's writers owns that has no pointer.
FindOrphans(by) ==
  /\ BeginOne
  /\ wr[by].live
  /\ LET orphans == {w \in wr[by].owned : ~wr[w].live}
     IN orphans # {} /\ sweep' = [by |-> by, orphans |-> orphans]
  /\ UNCHANGED <<wr, fresh, todo, doing, want, cut, crossed, swept, revoked>>

\* remove_orphans: the owner is read again, the orphan is not.
RemoveOrphans(w) ==
  /\ w \in sweep.orphans
  /\ MayCommit(sweep.by)
  /\ wr' = [wr EXCEPT ![sweep.by].owned = @ \ {w}]
  /\ sweep' = [sweep EXCEPT !.orphans = @ \ {w}]
  /\ swept' = IF wr[w].live \/ todo # <<>> THEN swept \cup {w} ELSE swept
  /\ UNCHANGED <<fresh, todo, doing, begun, want, cut, crossed, revoked>>

-------------------------------------------------------------------------------
\* A home with a/a/b and a/b in it, as mkdir and upload leave them.
Init ==
  /\ wr = <<Writer({Home}, <<>>),
            Writer({}, (0 :> Dir(Up(Same, 0), "a" :> Kid(Same, 1, TRUE))) @@
                       (1 :> Dir(Up(Same, 0), ("a" :> Kid(Same, 2, TRUE)) @@ ("b" :> Kid(Same, 3, FALSE)))) @@
                       (2 :> Dir(Up(Same, 1), "b" :> Kid(Same, 4, FALSE))) @@
                       (3 :> File(Up(Same, 1), 3)) @@ (4 :> File(Up(Same, 2), 4)))>>
  /\ fresh = 5 /\ todo = <<>> /\ doing = [op |-> "none", path |-> <<>>, old |-> Same]
  /\ sweep = [by |-> Same, orphans |-> {}]
  /\ begun = 0
  /\ want = (<<"a", "b">> :> 3) @@ (<<"a", "a", "b">> :> 4)
  /\ cut = FALSE /\ crossed = FALSE /\ swept = {} /\ revoked = {}

Commit ==
  \/ AddOwnedWriter \/ RemoveOwnedWriter \/ CreateSpace \/ CreateLinkNode \/ PutChildren
  \/ ReparentWritingSpace \/ RemoveOrphanedSubtree \/ DeleteWriterSubspace \/ RemoveChild \/ CopyDirContents

Operation ==
  /\ todo = <<>> /\ begun < MaxBegun
  /\ \/ \E f \in FoundDirs(wr) : \E n \in DOMAIN Kids(wr, f.at) :
          MoveToNewWritingSpace(f, n) \/ ForceRotate(f, n) \/ RotateReadKeys(f, n) \/ DeleteChild(f, n)
     \/ DeleteAccount

Next ==
  \/ Commit \/ Operation \/ Stop
  \/ begun < MaxBegun /\ \E f \in FoundDirs(wr), n \in Names : OtherUploads(f, n)
  \/ begun < MaxBegun /\ \E by \in Signers : FindOrphans(by)
  \/ \E w \in sweep.orphans : RemoveOrphans(w)

Spec == Init /\ [][Next]_vars

-------------------------------------------------------------------------------
(* Properties *)

\* Granting and revoking write access move or copy a subtree under the user's feet,
\* in commits that may stop or be crossed anywhere: every file stays at its path with
\* its content all along, and after rotate_child_read_keys again once it is done.
\* (Stopped half-way that one loses what it had not copied; what another device writes
\* under the path of a running operation may go with the old copy.)
PathsKept ==
  LET files == FilesIn(wr, Found(wr))
  IN \A p \in DOMAIN want :
       \/ todo # <<>> /\ doing.op = "rekey" /\ IsBelow(p, doing.path)
       \/ <<p, want[p]>> \in files

Reached == {f.at[1] : f \in Found(wr)}

\* A space that a path leads to can be written: a chain of owned keys leads to its
\* writer, also between the commits that move it from one owner to another and after
\* any of them was the last. So no commit of an operation is refused half-way.
\* (remove_orphans may take a writer whose first pointer was set after the search.)
SpacesAuthorised ==
  swept = {} =>
    /\ Reached \subseteq Authorised(wr)
    /\ ~cut /\ todo # <<>> => ENABLED Commit

UpAgrees(d, e) ==
  /\ Node(wr, e).up = Up(Same, d[2])
  /\ IsLink(wr, e) => Node(wr, Target(wr, e)).up = Up(d[1], e[2])

\* Operations that ran to their end, uncrossed, leave no space behind: every writer
\* with a pointer or an owner is reached by a path, every node names the directory or
\* link node it is found in, and what was deleted is not there any more.
NothingLeftOver ==
  todo = <<>> /\ ~cut /\ ~crossed /\ swept = {} /\ wr[Identity].live =>
    /\ \A w \in 1..Len(wr) : wr[w].live => w \in Reached \cup {Identity}
    /\ Authorised(wr) = Reached \cup {Identity}
    /\ \A f \in FoundDirs(wr), n \in Names : n \in DOMAIN Kids(wr, f.at) => UpAgrees(f.at, Entry(f, n))
    /\ DOMAIN want = {f.path : f \in {f \in Found(wr) : IsFile(wr, f.at)}}

\* Once write access has been revoked the old writer has no data and no owner, and
\* nothing that happens later gives it either.
RevokedForGood == ~cut /\ swept = {} => \A w \in revoked : ~wr[w].live /\ w \notin Authorised(wr)
===============================================================================
