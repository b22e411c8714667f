------------------------------- MODULE FileTree -------------------------------
(* Devices changing the files and directories of one writing space: the operations
   of crates/peergos-fs/src/lib.rs over the nodes of Cryptree.

   An operation that reads the writer's pointer once and commits against it happens
   at once: had another device committed in between, the compare-and-swap would have
   refused it and nothing would have changed. The others read more than once, or
   commit more than once, and go in steps; what they read is kept in dev. A device
   may stop after any step. *)
EXTENDS Cryptree

CONSTANTS
  Devices, Names,
  Sizes,        \* sizes of what is uploaded or written
  Offsets,      \* where a section is written, and what a file is cut to
  Values,       \* the bytes that are written
  Ops,          \* the operations explored
  MaxNodes,     \* files and directories ever made
  MaxOps        \* operations begun

VARIABLES
  space,        \* the CHAMP: location of a chunk -> its node
  dev,          \* device -> the operation under way
  made,         \* files and directories made, the next one's identity
  ops,          \* operations begun
  ref           \* what the operations meant, by their own definition

ftVars == <<space, dev, made, ops, ref>>

Idle == [op |-> "none"]

\* An empty top directory.
FTInit ==
  /\ space = (<<Top, 0>> :> DirNode(NoName, NoParent, <<>>))
  /\ dev = [d \in Devices |-> Idle]
  /\ made = Top
  /\ ops = 0
  /\ ref = [names |-> {}, content |-> <<>>, live |-> {}, replaced |-> {}, half |-> {}, raced |-> {}, mixed |-> FALSE]

-------------------------------------------------------------------------------
(* What the operations mean *)

\* The reference listing: name n of directory d is l.
Entry(d, n, l) == [dir |-> d, name |-> n, to |-> l]
At(r, d, n) == {e \in r.names : e.dir = d /\ e.name = n}

\* What the names bound so far lead to from l.
RECURSIVE RefBelow(_, _)
RefBelow(r, ls) ==
  LET next == ls \cup {e.to : e \in {x \in r.names : x.dir \in ls}}
  IN IF next = ls THEN ls ELSE RefBelow(r, next)

\* A directory that is in the tree, not one that was replaced or deleted.
InTree(r, d) == d = Top \/ d \in r.live

\* Binding names of d; what was there before is no longer in the tree.
Bound(r, d, links) ==
  LET old == UNION {At(r, d, links[i].name) : i \in 1..Len(links)}
      new == {links[i].to : i \in 1..Len(links)}
      lost == RefBelow(r, {e.to : e \in old} \ new)
  IN [r EXCEPT !.names = (@ \ old) \cup {Entry(d, links[i].name, links[i].to) : i \in 1..Len(links)},
               !.live = (@ \ lost) \cup (IF InTree(r, d) THEN new ELSE {}),
               !.replaced = @ \cup lost \cup (IF InTree(r, d) THEN {} ELSE new \ r.live)]

\* What leaves d for `to`.
Left(r, d, n, to) ==
  LET lost == IF InTree(r, to) THEN {} ELSE RefBelow(r, {e.to : e \in At(r, d, n)})
  IN [r EXCEPT !.names = @ \ At(r, d, n), !.live = @ \ lost, !.replaced = @ \cup lost]

Deleted(r, d, n) ==
  LET gone == RefBelow(r, {e.to : e \in At(r, d, n)})
  IN [r EXCEPT !.names = {e \in @ \ At(r, d, n) : e.dir \notin gone}, !.live = @ \ gone,
               !.replaced = @ \ gone]

Holding(r, ls, content) ==
  [r EXCEPT !.content = [l \in ls |-> content] @@ @]

Spliced(old, offset, data) ==
  Slice(old, 0, offset) \o data \o Slice(old, offset + Len(data), Len(old))

-------------------------------------------------------------------------------
(* Commits *)

\* The files and directories a pending operation relies on not changing.
Relies(o) == IF o.op = "none" THEN {} ELSE o.relies

\* A commit by device d: an operation of another device that relied on what changed
\* has been crossed.
Commit(d, after, t) ==
  /\ space' = t
  /\ LET changed == {k[1] : k \in {k \in DOMAIN t \cup DOMAIN space :
                       k \notin DOMAIN t \/ k \notin DOMAIN space \/ t[k] # space[k]}}
     IN dev' = [e \in Devices |-> IF e = d THEN after
                  ELSE IF Relies(dev[e]) \cap changed # {} THEN [dev[e] EXCEPT !.crossed = TRUE] ELSE dev[e]]

\* Committing what was worked out from a tree that has changed since; the nodes of
\* `over` are put as they were then.
Raced(r, o, over) == IF o.crossed THEN [r EXCEPT !.raced = @ \cup over, !.mixed = TRUE] ELSE r

Begin(d, name) == name \in Ops /\ dev[d] = Idle /\ ops < MaxOps /\ ops' = ops + 1
New(n) == made + n =< MaxNodes /\ made' = made + n

AtOnce(d, t) == Commit(d, Idle, t)

Reading(d, o) == dev' = [dev EXCEPT ![d] = o @@ [crossed |-> FALSE]] /\ UNCHANGED <<space, made, ref>>

Filled(v, n) == [i \in 1..n |-> v]
Contents == {Filled(v, n) : v \in Values, n \in Sizes}

-------------------------------------------------------------------------------
(* Operations of one commit *)

Mkdir(d) == \E l \in Dirs(space), n \in Names :
  /\ Begin(d, "mkdir") /\ New(1)
  /\ AtOnce(d, CreateDirectory(space, l, n, made + 1))
  /\ ref' = Bound(ref, l, <<Link(n, made + 1)>>)

Upload(d) == \E l \in Dirs(space), n \in Names, c \in Contents :
  /\ Begin(d, "upload") /\ New(1)
  /\ AtOnce(d, UploadFile(space, l, n, made + 1, c))
  /\ ref' = Holding(Bound(ref, l, <<Link(n, made + 1)>>), {made + 1}, c)

\* Two small files with different names.
UploadBatch(d) == \E l \in Dirs(space), n, m \in Names, c \in {x \in Contents : Len(x) =< ChunkSize} :
  LET links == <<Link(n, made + 1), Link(m, made + 2)>> IN
  /\ Begin(d, "batch") /\ New(2)
  /\ n # m
  /\ AtOnce(d, SmallBatch(space, l, links, <<c, c>>))
  /\ ref' = Holding(Bound(ref, l, links), {made + 1, made + 2}, c)

Rename(d) == \E l \in Dirs(space), n, m \in Names :
  /\ Begin(d, "rename")
  /\ ChildrenNamed(space, l, m) = <<>>
  /\ ChildrenNamed(space, l, n) # <<>>
  /\ IsNode(space, ChildrenNamed(space, l, n)[1].to)
  /\ AtOnce(d, Renamed(space, l, n, m))
  /\ ref' = [ref EXCEPT !.names = (@ \ At(ref, l, n)) \cup {Entry(l, m, e.to) : e \in At(ref, l, n)}]
  /\ UNCHANGED made

-------------------------------------------------------------------------------
(* Writing into a file: the chunks are read under one root and put under another *)

\* write_file_section; appending is writing at the size.
ReadSectionToWrite(d) == \E l \in Files(space), offset \in Offsets, data \in Contents :
  /\ Begin(d, "section")
  /\ data # <<>>
  /\ offset =< space[<<l, 0>>].size
  /\ \A i \in (offset \div ChunkSize)..((offset + Len(data) - 1) \div ChunkSize) :
        i < ChunkCount(space[<<l, 0>>].size) => <<l, i>> \in DOMAIN space
  /\ Reading(d, [op |-> "put", relies |-> {l}, puts |-> SectionNodes(space, l, offset, data), removals |-> {},
                 file |-> l, offset |-> offset, data |-> data])

ReadToTruncate(d) == \E l \in Files(space), size \in Offsets :
  /\ Begin(d, "truncate")
  /\ size < space[<<l, 0>>].size
  /\ <<l, ChunkCount(size) - 1>> \in DOMAIN space
  /\ Reading(d, [op |-> "put", relies |-> {l}, puts |-> TruncatedNodes(space, l, size),
                 removals |-> TruncatedAway(space, l, size), file |-> l, offset |-> size, data |-> <<>>])

PutNodes(d) ==
  LET o == dev[d] IN
  /\ o.op = "put"
  /\ Commit(d, Idle, ReuploadNodes(space, o.puts, o.removals))
  /\ ref' = IF o.file \in ref.raced \/ o.crossed THEN Raced(ref, o, {o.file})
            ELSE Holding(ref, {o.file}, IF o.data = <<>> THEN Slice(ref.content[o.file], 0, o.offset)
                                        ELSE Spliced(ref.content[o.file], o.offset, o.data))
  /\ UNCHANGED <<made, ops>>

\* rewrite_file_content: the file's properties are read first, its chunks put and the
\* surplus ones removed under the pointer read after that.
ReadToRewrite(d) == \E l \in Files(space), c \in Contents :
  /\ Begin(d, "rewrite")
  /\ Reading(d, [op |-> "rewrite", relies |-> {l}, file |-> l, data |-> c, was |-> space[<<l, 0>>]])

Rewrite(d) ==
  LET o == dev[d] IN
  /\ o.op = "rewrite"
  /\ Commit(d, Idle, ReuploadNodes(space, FileChunks(o.file, o.was.name, o.was.parent, o.data),
       {<<o.file, i>> : i \in ChunkCount(Len(o.data))..(ChunkCount(o.was.size) - 1)}))
  /\ ref' = Raced(Holding(ref, {o.file}, o.data), o, {o.file})
  /\ UNCHANGED <<made, ops>>

\* update_file_properties, with properties the caller read before (set_hash).
ReadProperties(d) == \E p \in Dirs(space) : \E c \in ToSet(ListDirectory(space, p)) :
  /\ Begin(d, "properties")
  /\ IsFile(space, c.to)
  /\ Reading(d, [op |-> "properties", relies |-> {c.to}, dir |-> p, file |-> c.to, was |-> space[<<c.to, 0>>]])

UpdateProperties(d) ==
  LET o == dev[d] IN
  /\ o.op = "properties"
  /\ IsDir(space, o.dir)
  /\ IsNode(space, o.file)
  /\ Commit(d, Idle, [space EXCEPT ![<<o.file, 0>>].name = o.was.name, ![<<o.file, 0>>].size = o.was.size])
  /\ ref' = Raced(ref, o, {o.file})
  /\ UNCHANGED <<made, ops>>

-------------------------------------------------------------------------------
(* Moving and copying *)

\* move_to's reads: the name is free in the target, and a directory does not go into
\* itself (is_within_subtree, which fails on a link that leads nowhere).
MayMove(s, n, t) ==
  /\ ChildrenNamed(space, t, n) = <<>>
  /\ ChildrenNamed(space, s, n) # <<>>
  /\ LET c == ChildrenNamed(space, s, n)[1].to
     IN IsNode(space, c) /\ (IsDir(space, c) => AllThere(space, c) /\ t \notin Subtree(space, c))

\* move_fast_path: the child's node is read, to be put back with its new parent.
ReadToMove(d) == \E s, t \in Dirs(space), n \in Names :
  LET c == ChildrenNamed(space, s, n)[1].to IN
  /\ Begin(d, "move")
  /\ MayMove(s, n, t)
  /\ Reading(d, [op |-> "reparent", relies |-> Subtree(space, c) \cup {s, t}, child |-> c, name |-> n,
                 source |-> s, target |-> t, node |-> [space[<<c, 0>>] EXCEPT !.parent = t]])

\* Mutant of MoveReparent: the link leaves the source before the target has it.
MoveTake(d) ==
  LET o == dev[d] IN
  /\ o.op = "reparent"
  /\ Commit(d, [o EXCEPT !.op = "link"], RemoveLink(ReuploadNodes(space, <<o.child, 0>> :> o.node, {}), o.source, o.name))
  /\ ref' = Raced(ref, o, {o.child})
  /\ UNCHANGED <<made, ops>>

MoveReparent(d) ==
  LET o == dev[d] IN
  /\ o.op = "reparent"
  /\ Commit(d, [o EXCEPT !.op = "link"], ReuploadNodes(space, <<o.child, 0>> :> o.node, {}))
  /\ ref' = Raced(ref, o, {o.child})
  /\ UNCHANGED <<made, ops>>

MoveLink(d) ==
  LET o == dev[d] IN
  /\ o.op = "link"
  /\ IsDir(space, o.target)
  /\ Commit(d, [o EXCEPT !.op = "unlink"], FinishDirWrite(space, o.target, <<Link(o.name, o.child)>>))
  /\ ref' = Raced(Bound(ref, o.target, <<Link(o.name, o.child)>>), o, {})
  /\ UNCHANGED <<made, ops>>

MoveUnlink(d) ==
  LET o == dev[d] IN
  /\ o.op = "unlink"
  /\ IsDir(space, o.source)
  /\ Commit(d, Idle, RemoveLink(space, o.source, o.name))
  /\ ref' = Raced(Left(ref, o.source, o.name, o.target), o, {})
  /\ UNCHANGED <<made, ops>>

\* copy_to, under a name that is free (pick_unique_copy_name: the same one if it is),
\* and the slow path of move_to, which deletes the source after.
ReadToCopy(d) == \E s, t \in Dirs(space), n, m \in Names, drop \in BOOLEAN :
  LET c == ChildrenNamed(space, s, n)[1].to IN
  /\ Begin(d, IF drop THEN "slowmove" ELSE "copy")
  /\ ChildrenNamed(space, s, n) # <<>> /\ IsNode(space, c)
  /\ ChildrenNamed(space, t, m) = <<>>
  /\ m # n => ChildrenNamed(space, t, n) # <<>>
  /\ drop => m = n /\ MayMove(s, n, t)
  /\ Reading(d, [op |-> "copy", relies |-> Subtree(space, c) \cup {s, t}, child |-> c, name |-> m, was |-> n,
                 source |-> s, target |-> t, drop |-> drop, frames |-> <<>>, dir |-> IsDir(space, c), new |-> made,
                 data |-> IF IsFile(space, c) THEN ReadFile(space, c) ELSE <<>>])

\* What the copy makes is its own until it is done.
Owning(o, upto) == [o EXCEPT !.relies = @ \cup (made + 1)..upto]

\* What remains to do once the copy is there.
Copied(o) == [o EXCEPT !.op = IF o.drop THEN "drop" ELSE "copied", !.frames = <<>>]

\* A directory being copied: what is left of its listing, and the small files that
\* wait for the next directory write.
Frame(t, old, new) == [old |-> old, new |-> new, rest |-> ListDirectory(t, old), batch |-> <<>>]

CopyFile(d) ==
  LET o == dev[d] IN
  /\ o.op = "copy" /\ ~o.dir
  /\ IsDir(space, o.target) /\ New(1)
  /\ Commit(d, Copied([Owning(o, made + 1) EXCEPT !.new = made + 1]), UploadFile(space, o.target, o.name, made + 1, o.data))
  /\ ref' = Raced(Holding(Bound(ref, o.target, <<Link(o.name, made + 1)>>), {made + 1}, o.data), o, {})
  /\ UNCHANGED ops

CopyDirectory(d) ==
  LET o == dev[d]
      t == CreateDirectory(space, o.target, o.name, made + 1) IN
  /\ o.op = "copy" /\ o.dir
  /\ IsDir(space, o.target) /\ New(1)
  /\ Commit(d, IF IsDir(space, o.child) THEN [Owning(o, made + 1) EXCEPT !.op = "contents", !.new = made + 1,
                                                      !.frames = <<Frame(t, o.child, made + 1)>>]
               ELSE Idle, t)
  /\ ref' = Raced(Bound(ref, o.target, <<Link(o.name, made + 1)>>), o, {})
  /\ UNCHANGED ops

\* copy_dir_contents, one entry of the innermost directory: a directory is made and
\* entered, a large file uploaded, a small one put in the batch; at the end of the
\* listing the batch is written (commit_small_batch) and the directory left.
CopyEntry(d) ==
  LET o == dev[d]
      f == Last(o.frames)
      e == Head(f.rest)
      on == [f EXCEPT !.rest = Tail(@)]
      Go(frames) == [Owning(o, made') EXCEPT !.frames = Front(@) \o frames]
      data == ReadFile(space, e.to) IN
  /\ o.op = "contents" /\ f.rest # <<>>
  /\ IsNode(space, e.to)
  /\ \/ /\ IsDir(space, e.to)
        /\ IsDir(space, f.new) /\ New(1)
        /\ LET t == CreateDirectory(space, f.new, e.name, made + 1)
           IN Commit(d, Go(<<on, Frame(t, e.to, made + 1)>>), t)
        /\ ref' = Raced(Bound(ref, f.new, <<Link(e.name, made + 1)>>), o, {})
     \/ /\ IsFile(space, e.to) /\ Len(data) > ChunkSize
        /\ IsDir(space, f.new) /\ New(1)
        /\ Commit(d, Go(<<on>>), UploadFile(space, f.new, e.name, made + 1, data))
        /\ ref' = Raced(Holding(Bound(ref, f.new, <<Link(e.name, made + 1)>>), {made + 1}, data), o, {})
     \/ /\ IsFile(space, e.to) /\ Len(data) =< ChunkSize
        /\ UNCHANGED <<space, made, ref>>
        /\ dev' = [dev EXCEPT ![d] = Go(<<[on EXCEPT !.batch = Append(@, [name |-> e.name, data |-> data])]>>)]
  /\ UNCHANGED ops

CopyLeave(d) ==
  LET o == dev[d]
      f == Last(o.frames)
      n == Len(f.batch)
      links == [i \in 1..n |-> Link(f.batch[i].name, made + i)]
      on == Owning(o, made')
      left == IF Len(o.frames) = 1 THEN Copied(on) ELSE [on EXCEPT !.frames = Front(@)] IN
  /\ o.op = "contents" /\ f.rest = <<>>
  /\ IF n = 0 THEN UNCHANGED <<space, made, ref>> /\ dev' = [dev EXCEPT ![d] = left]
     ELSE /\ IsDir(space, f.new) /\ New(n)
          /\ Commit(d, left, SmallBatch(space, f.new, links, [i \in 1..n |-> f.batch[i].data]))
          /\ ref' = Raced([Bound(ref, f.new, links) EXCEPT
               !.content = [l \in (made + 1)..(made + n) |-> f.batch[l - made].data] @@ @], o, {})
  /\ UNCHANGED ops

-------------------------------------------------------------------------------
(* Deleting: the writing spaces below the child are looked for first, which fails on
   a link that leads nowhere; then the child of that name and all its chunks go. *)

MayDelete(l, n) ==
  /\ IsDir(space, l)
  /\ ChildrenNamed(space, l, n) # <<>>
  /\ AllThere(space, ChildrenNamed(space, l, n)[1].to)

ReadToDelete(d) == \E l \in Dirs(space), n \in Names :
  /\ Begin(d, "delete")
  /\ MayDelete(l, n)
  /\ Reading(d, [op |-> "delete", relies |-> {}, source |-> l, was |-> n])

\* The slow move's last step.
DropSource(d) ==
  LET o == dev[d] IN
  /\ o.op = "drop"
  /\ MayDelete(o.source, o.was)
  /\ dev' = [dev EXCEPT ![d].op = "delete"]
  /\ UNCHANGED <<space, made, ops, ref>>

Delete(d) ==
  LET o == dev[d] IN
  /\ o.op = "delete"
  /\ IsDir(space, o.source)
  /\ ChildrenNamed(space, o.source, o.was) # <<>>
  /\ Commit(d, Idle, DeleteChild(space, o.source, o.was))
  /\ ref' = Raced(Deleted(ref, o.source, o.was), o, {})
  /\ UNCHANGED <<made, ops>>

\* A device stops, or returns from a copy; a move it had begun to write stays half done.
Stop(d) ==
  /\ dev[d] # Idle
  /\ dev' = [dev EXCEPT ![d] = Idle]
  /\ ref' = IF dev[d].op \in {"link", "unlink"} THEN [ref EXCEPT !.half = @ \cup {dev[d].child}] ELSE ref
  /\ UNCHANGED <<space, made, ops>>

FTNext == \E d \in Devices :
  \/ Mkdir(d) \/ Upload(d) \/ UploadBatch(d) \/ Rename(d)
  \/ ReadSectionToWrite(d) \/ ReadToTruncate(d) \/ PutNodes(d)
  \/ ReadToRewrite(d) \/ Rewrite(d) \/ ReadProperties(d) \/ UpdateProperties(d)
  \/ ReadToMove(d) \/ MoveReparent(d) \/ MoveLink(d) \/ MoveUnlink(d)
  \/ ReadToCopy(d) \/ CopyFile(d) \/ CopyDirectory(d) \/ CopyEntry(d) \/ CopyLeave(d)
  \/ ReadToDelete(d) \/ DropSource(d) \/ Delete(d) \/ Stop(d)

FTSpec == FTInit /\ [][FTNext]_ftVars

-------------------------------------------------------------------------------
(* Properties *)

\* Whatever the interleaving, a directory lists exactly the names bound in it and not
\* since removed, each once, in chunks that are not over full.
ListingsExact ==
  \A l \in Dirs(space) \ ref.raced :
    LET listed == ListDirectory(space, l) IN
    /\ {Entry(l, listed[i].name, listed[i].to) : i \in 1..Len(listed)} = {e \in ref.names : e.dir = l}
    /\ \A i, j \in 1..Len(listed) : listed[i].name = listed[j].name => i = j
    /\ \A i \in 1..Len(DirChunks(space, l)) : Len(DirChunks(space, l)[i]) =< MaxPerChunk

\* A file that no write from an outdated read went over reads as what was written to
\* it, whole or in any section, and has no chunks besides.
FilesExact ==
  \A l \in Files(space) \ ref.raced :
    /\ ReadFile(space, l) = ref.content[l]
    /\ {k[2] : k \in {k \in DOMAIN space : k[1] = l}} = 0..(ChunkCount(Len(ref.content[l])) - 1)
    /\ \A from, len \in 0..Len(ref.content[l]) :
         ReadSection(space, l, from, len) = Slice(ref.content[l], from, AtMost(from + len, Len(ref.content[l])))

\* Wherever devices stop, what was put in the tree and neither deleted nor replaced
\* can be reached from the top, as long as no operation was crossed by another.
NothingLost == ~ref.mixed => ref.live \subseteq {l \in Reachable(space) : IsNode(space, l)}

\* The names and contents below l.
RECURSIVE Shape(_, _)
Shape(t, l) == IF IsFile(t, l) THEN ReadFile(t, l)
               ELSE {<<c.name, Shape(t, c.to)>> : c \in ToSet(ListDirectory(t, l))}

\* A copy that ran to its end, of what no other device changed, has the names and
\* contents of its source, which is in place; a moved source is deleted only then.
CopiesExact ==
  \A d \in Devices :
    LET o == dev[d] IN
    o.op \in {"copied", "drop"} /\ ~o.crossed =>
      /\ Shape(space, o.new) = Shape(space, o.child)
      /\ Link(o.name, o.new) \in ToSet(ListDirectory(space, o.target))

\* A child being moved, or left half moved.
Moving == ref.half \cup {dev[d].child : d \in {d \in Devices : dev[d].op \in {"link", "unlink"}}}

\* Moves apart, a link leads to a node that has the link's name and the directory as
\* its parent, by one link only, and nothing is left in the CHAMP that is not in the
\* tree, except what an upload or a directory of the same name replaced.
PathsAgree ==
  ~ref.mixed =>
    /\ \A l \in Dirs(space) \cap Reachable(space) : \A c \in ToSet(ListDirectory(space, l)) : c.to \notin Moving =>
         /\ IsNode(space, c.to)
         /\ space[<<c.to, 0>>].parent = l /\ space[<<c.to, 0>>].name = c.name
         /\ \A m \in Dirs(space) \ {l} : \A e \in ToSet(ListDirectory(space, m)) : e.to # c.to
    /\ {k[1] : k \in DOMAIN space} \subseteq Reachable(space) \cup ref.replaced
=============================================================================
