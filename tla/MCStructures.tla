---------------------------- MODULE MCStructures ----------------------------
(* Structures that are stored in blocks and files, each explored by itself: the
   CHAMP, the log of a chat, the directories of a writing space and the contents of
   its files; part says which. *)
EXTENDS Champ

CONSTANTS c1, c2, Groups, ChunkSize, Sizes, MaxBatch, MaxMessages, MaxFailures, MaxDropped,
          Devices, Names, MaxPerChunk, MaxNodes, MaxDirOps, MaxFileOps

VARIABLES part, env, sizes, index, merged, held, commit, failures, dropped, space, dev, made, ops, ref

logVars == <<env, sizes, index, merged, held, commit, failures, dropped>>
treeVars == <<space, dev, made, ops, ref>>

Log == INSTANCE ChatLog

\* Directories of a chunk for each child, and files of one chunk.
Dirs == INSTANCE FileTree WITH
  Top <- 0, ChunkSize <- 2, Sizes <- {1}, Offsets <- {0}, Values <- {1}, MaxOps <- MaxDirOps,
  Ops <- {"mkdir", "upload", "batch", "rename", "delete", "move", "slowmove", "copy"}

\* One file of up to three chunks.
File == INSTANCE FileTree WITH
  Top <- 0, ChunkSize <- 2, Names <- {"f"}, Sizes <- 0..3, Offsets <- 0..5, Values <- {1, 2}, MaxOps <- MaxFileOps,
  MaxNodes <- 1, Ops <- {"upload", "section", "truncate", "rewrite", "properties", "delete"}

\* Four keys share the root's second slot, two and two of them the slot below it.
MCKeys == {<<1, 0, 0>>, <<1, 0, 1>>, <<1, 1, 0>>, <<1, 1, 1>>, <<0, 0, 0>>}
MCEdits == [base |-> 5, sides |-> 2]
MCGroups == {{c1}, {c1, c2}}

StructInit ==
  /\ part \in {"champ", "log", "dirs", "file"}
  /\ Init /\ Log!Init /\ Dirs!FTInit
  /\ part # "log" => env = {c1}

StructNext ==
  \/ part = "champ" /\ Next /\ UNCHANGED <<part, logVars, treeVars>>
  \/ part = "log" /\ Log!Next /\ UNCHANGED <<part, vars, treeVars>>
  \/ part = "dirs" /\ Dirs!FTNext /\ UNCHANGED <<part, vars, logVars>>
  \/ part = "file" /\ File!FTNext /\ UNCHANGED <<part, vars, logVars>>

StructSpec == StructInit /\ [][StructNext]_<<part, vars, logVars, treeVars>>

Sym == Permutations(Devices) \union Permutations(Names)

\* Champ's Canonical and Lookups: the form of a CHAMP depends on its entries only, and
\* every key is found as the map has it (get, put and remove, champ.rs).
ChampExact == Canonical /\ Lookups

\* ChatLog's ReadsExact and ReadsForward: reading any range of the log gives exactly
\* that range while one controller commits, all its commits finish and its host is not
\* removed; with old controllers and commits cut short as well, it gives consecutive
\* messages and none before the one asked for, and may skip some (file_store.rs).
LogReads == part = "log" => Log!ReadsExact /\ Log!ReadsForward

\* FileTree's ListingsExact and FilesExact: a directory lists exactly what was bound in
\* it, however its chunks filled and emptied, and a file reads, in whole and in part, as
\* what was written to it (finish_dir_write_multi, delete_child, write_file_section,
\* truncate_file, rewrite_file_content, lib.rs).
ContentsExact ==
  /\ part = "dirs" => Dirs!ListingsExact /\ Dirs!FilesExact
  /\ part = "file" => File!FilesExact

\* FileTree's NothingLost and CopiesExact: wherever a device stops, nothing is lost but
\* what was deleted or replaced, and a finished copy has all its source has
\* (move_fast_path, move_to, copy_dir_contents, commit_small_batch, lib.rs).
NothingLost == part = "dirs" => Dirs!NothingLost /\ Dirs!CopiesExact

\* FileTree's PathsAgree: a link and the node it leads to agree, and nothing else is
\* left in the CHAMP (rename_child, remove_all_chunks, lib.rs).
PathsAgree == (part = "dirs" => Dirs!PathsAgree) /\ (part = "file" => File!PathsAgree)
=============================================================================
