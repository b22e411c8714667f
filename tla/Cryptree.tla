------------------------------- MODULE Cryptree -------------------------------
(* The files and directories of one writing space (crates/peergos-fs/src/lib.rs).
   The CHAMP maps the location of a chunk to its node. Location <<l, i>> is chunk i
   of the file or directory l: the map key of a file's next chunk is derived from
   its stream secret, that of a directory's is named by the chunk before it.
   A tree is such a map; every operation here is a function of the tree it reads. *)
EXTENDS Integers, Sequences, SequencesExt

CONSTANTS
  Top,          \* the directory the writing space starts at
  ChunkSize,    \* bytes in a full chunk of a file
  MaxPerChunk   \* child links in a full chunk of a directory

NoParent == -1
NoName == "none"

DirNode(name, parent, links) == [dir |-> TRUE, name |-> name, parent |-> parent, links |-> links]

FileNode(name, parent, size, data) == [dir |-> FALSE, name |-> name, parent |-> parent, size |-> size, data |-> data]

IsNode(t, l) == <<l, 0>> \in DOMAIN t
IsDir(t, l) == IsNode(t, l) /\ t[<<l, 0>>].dir
IsFile(t, l) == IsNode(t, l) /\ ~t[<<l, 0>>].dir
Dirs(t) == {k[1] : k \in {k \in DOMAIN t : k[2] = 0 /\ t[k].dir}}
Files(t) == {k[1] : k \in {k \in DOMAIN t : k[2] = 0 /\ ~t[k].dir}}

-------------------------------------------------------------------------------
(* Directories *)

\* The children of each chunk of directory l, the chunks followed from the first.
DirChunks(t, l) ==
  LET n == CHOOSE n \in 1..Cardinality(DOMAIN t) :
             <<l, n>> \notin DOMAIN t /\ \A i \in 0..(n - 1) : <<l, i>> \in DOMAIN t
  IN [i \in 1..n |-> t[<<l, i - 1>>].links]

ListDirectory(t, l) == FlattenSeq(DirChunks(t, l))

Link(name, l) == [name |-> name, to |-> l]

ChildrenNamed(t, l, name) == SelectSeq(ListDirectory(t, l), LAMBDA c : c.name = name)

\* The tree with the chunks of directory l replaced, a new one getting the parent of
\* the first (recommit_dir_chunk, and step 4 of finish_dir_write_multi).
PutDirChunks(t, l, chunks) ==
  [k \in DOMAIN t \cup {<<l, i - 1>> : i \in 1..Len(chunks)} |->
     IF k[1] # l THEN t[k]
     ELSE IF k \in DOMAIN t THEN [t[k] EXCEPT !.links = chunks[k[2] + 1]]
     ELSE DirNode(NoName, t[<<l, 0>>].parent, chunks[k[2] + 1])]

\* Step 3: a link goes to the first chunk with room, or to a new one.
PlaceLink(chunks, link) ==
  LET room == {i \in 1..Len(chunks) : Len(chunks[i]) < MaxPerChunk}
  IN IF room = {} THEN Append(chunks, <<link>>)
     ELSE [chunks EXCEPT ![Min(room)] = Append(@, link)]

\* Step 2: the names being added are taken out of every chunk.
WithoutNames(chunks, names) ==
  [i \in 1..Len(chunks) |-> SelectSeq(chunks[i], LAMBDA c : c.name \notin names)]

FinishDirWrite(t, l, links) ==
  LET kept == WithoutNames(DirChunks(t, l), {links[i].name : i \in 1..Len(links)})
  IN PutDirChunks(t, l, FoldLeft(PlaceLink, kept, links))

\* The first chunk that has the name, and the first link of it that does.
ChunkWith(chunks, name) == {i \in 1..Len(chunks) : \E j \in 1..Len(chunks[i]) : chunks[i][j].name = name}
PlaceIn(chunk, name) == Min({j \in 1..Len(chunk) : chunk[j].name = name})

RemoveLink(t, l, name) ==
  LET chunks == DirChunks(t, l)
      with == ChunkWith(chunks, name)
  IN IF with = {} THEN t
     ELSE PutDirChunks(t, l, [chunks EXCEPT ![Min(with)] = RemoveAt(@, PlaceIn(@, name))])

\* rename_child: the link and the node's own name, in one commit.
Renamed(t, l, old, new) ==
  LET chunks == DirChunks(t, l)
      i == Min(ChunkWith(chunks, old))
      j == PlaceIn(chunks[i], old)
  IN [PutDirChunks(t, l, [chunks EXCEPT ![i][j].name = new]) EXCEPT ![<<chunks[i][j].to, 0>>].name = new]

\* A child's node and its link (create_directory_inner).
CreateDirectory(t, l, name, new) ==
  FinishDirWrite((<<new, 0>> :> DirNode(name, l, <<>>)) @@ t, l, <<Link(name, new)>>)

-------------------------------------------------------------------------------
(* Files *)

ChunkCount(size) == IF size = 0 THEN 1 ELSE (size + ChunkSize - 1) \div ChunkSize

Slice(s, from, to) == SubSeq(s, from + 1, to)   \* s[from..to], counting from 0
AtMost(a, b) == IF a < b THEN a ELSE b
AtLeast(a, b) == IF a < b THEN b ELSE a

\* write_file_chunks, and the two passes of upload_file_streaming_inner.
FileChunks(l, name, parent, content) ==
  [k \in {<<l, i>> : i \in 0..(ChunkCount(Len(content)) - 1)} |->
     FileNode(name, parent, Len(content),
              Slice(content, k[2] * ChunkSize, AtMost((k[2] + 1) * ChunkSize, Len(content))))]

UploadFile(t, l, name, new, content) ==
  FinishDirWrite(FileChunks(new, name, l, content) @@ t, l, <<Link(name, new)>>)

\* commit_small_batch: several new files, their links added in one directory write.
SmallBatch(t, l, links, contents) ==
  FinishDirWrite([k \in {<<links[i].to, 0>> : i \in 1..Len(links)} |->
                    LET i == CHOOSE i \in 1..Len(links) : links[i].to = k[1]
                    IN FileNode(links[i].name, l, Len(contents[i]), contents[i])] @@ t, l, links)

\* read_file_to: chunks up to the size the first one gives, or to one that is missing.
ReadFile(t, l) ==
  LET size == t[<<l, 0>>].size
      Step(out, i) == IF out.end \/ <<l, i>> \notin DOMAIN t THEN [out EXCEPT !.end = TRUE]
                      ELSE LET take == AtMost(Len(t[<<l, i>>].data), size - Len(out.data))
                               data == out.data \o Slice(t[<<l, i>>].data, 0, take)
                           IN [data |-> data, end |-> Len(data) >= size]
  IN FoldLeft(Step, [data |-> <<>>, end |-> FALSE], [i \in 1..Cardinality(DOMAIN t) |-> i - 1]).data

\* read_file_section: the chunks that overlap the range, each to the end it has.
ReadSection(t, l, offset, length) ==
  LET size == t[<<l, 0>>].size
      end == AtMost(offset + length, size)
      Part(i) == LET from == AtLeast(offset, i * ChunkSize)
                     to == AtMost(end, i * ChunkSize + Len(t[<<l, i>>].data))
                 IN IF to > from THEN Slice(t[<<l, i>>].data, from - i * ChunkSize, to - i * ChunkSize) ELSE <<>>
      first == offset \div ChunkSize
  IN IF length = 0 \/ offset >= size THEN <<>>
     ELSE FlattenSeq([j \in 1..((end - 1) \div ChunkSize - first + 1) |-> Part(first + j - 1)])

\* The nodes write_file_section puts: one for each chunk of the range, and the first
\* one with the new size.
SectionNodes(t, l, offset, data) ==
  LET old == t[<<l, 0>>]
      end == offset + Len(data)
      size == AtLeast(old.size, end)
      existing == ChunkCount(old.size)
      Written(i) ==
        LET from == AtLeast(offset, i * ChunkSize)
            to == AtMost(end, (i + 1) * ChunkSize)
            now == IF i < existing THEN t[<<l, i>>].data ELSE <<>>
        IN [b \in 1..AtLeast(Len(now), to - i * ChunkSize) |->
              IF b > from - i * ChunkSize /\ b =< to - i * ChunkSize THEN data[b + i * ChunkSize - offset]
              ELSE IF b =< Len(now) THEN now[b] ELSE 0]
      chunks == {<<l, i>> : i \in (offset \div ChunkSize)..((end - 1) \div ChunkSize)}
      Node(k) == IF k[2] = 0 THEN [old EXCEPT !.size = size, !.data = Written(0)]
                 ELSE IF k[2] < existing THEN [t[k] EXCEPT !.data = Written(k[2])]
                 ELSE FileNode(old.name, old.parent, size, Written(k[2]))
  IN [k \in chunks |-> Node(k)] @@ (IF size = old.size THEN <<>> ELSE <<l, 0>> :> [old EXCEPT !.size = size])

\* The nodes truncate_file puts, and the locations it removes.
TruncatedNodes(t, l, size) ==
  LET last == ChunkCount(size) - 1
      Cut(node) == [node EXCEPT !.data = Slice(@, 0, AtMost(Len(@), size - last * ChunkSize))]
  IN IF last = 0 THEN <<l, 0>> :> [Cut(t[<<l, 0>>]) EXCEPT !.size = size]
     ELSE (<<l, 0>> :> [t[<<l, 0>>] EXCEPT !.size = size]) @@ (<<l, last>> :> Cut(t[<<l, last>>]))

\* Mutant of TruncatedAway: one chunk too few is removed.
TruncatedAfter(t, l, size) ==
  {<<l, i>> : i \in (ChunkCount(size) + 1)..(ChunkCount(t[<<l, 0>>].size) - 1)}

TruncatedAway(t, l, size) ==
  {<<l, i>> : i \in ChunkCount(size)..(ChunkCount(t[<<l, 0>>].size) - 1)}

\* reupload_nodes: put the nodes and remove the locations, whatever is there.
ReuploadNodes(t, nodes, removals) == Restrict(nodes @@ t, (DOMAIN nodes \cup DOMAIN t) \ removals)

-------------------------------------------------------------------------------
(* Subtrees *)

\* l and everything its links lead to, what is missing included.
RECURSIVE Below(_, _)
Below(t, ls) ==
  LET next == ls \cup UNION {{c.to : c \in ToSet(ListDirectory(t, l))} : l \in {x \in ls : IsDir(t, x)}}
  IN IF next = ls THEN ls ELSE Below(t, next)

Subtree(t, l) == Below(t, {l})

Reachable(t) == Subtree(t, Top)

\* Mutant of RemoveAllChunks: a directory's further chunks stay.
RemoveFirstChunks(t, l) ==
  LET Chunks(x) == IF IsFile(t, x) THEN {<<x, i>> : i \in 0..(ChunkCount(t[<<x, 0>>].size) - 1)} ELSE {<<x, 0>>}
  IN Restrict(t, DOMAIN t \ UNION {Chunks(x) : x \in {y \in Subtree(t, l) : IsNode(t, y)}})

\* remove_all_chunks: a file's chunks as its size counts them, a directory's chunks
\* and all below it.
RemoveAllChunks(t, l) ==
  LET Chunks(x) == IF IsFile(t, x) THEN {<<x, i>> : i \in 0..(ChunkCount(t[<<x, 0>>].size) - 1)}
                   ELSE {<<x, i - 1>> : i \in 1..Len(DirChunks(t, x))}
  IN Restrict(t, DOMAIN t \ UNION {Chunks(x) : x \in {y \in Subtree(t, l) : IsNode(t, y)}})

\* No link below l leads nowhere (collect_own_writer_targets, is_within_subtree).
AllThere(t, l) == \A x \in Subtree(t, l) : IsNode(t, x)

DeleteChild(t, l, name) == RemoveAllChunks(RemoveLink(t, l, name), ChildrenNamed(t, l, name)[1].to)
=============================================================================
