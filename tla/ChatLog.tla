------------------------------ MODULE ChatLog ------------------------------
(***************************************************************************)
(* The message log of a chat (file_store.rs) and the commits that append   *)
(* to it (controller.rs): messages one after the other in one file, and an *)
(* index file that says where some of them begin, so that a reader of a    *)
(* long log can start near the one it wants.  A message is its size in     *)
(* bytes; it is known by its position in the log.                          *)
(*                                                                         *)
(* The store does not count its messages: the position of an append is the *)
(* one in the state that the committing controller holds, and the state    *)
(* file is written after the log and the index.  Commits of one account    *)
(* follow one another here; a controller may hold an old state.            *)
(***************************************************************************)
EXTENDS Integers, Sequences, FiniteSets, SequencesExt

CONSTANTS ChunkSize, Sizes, MaxBatch, MaxMessages,
  Groups,        \* sets of controllers open on the chat (several devices, kept references)
  MaxFailures,   \* commits cut short by an error or a stop of the client
  MaxDropped,    \* sends of a host that is removed in its own state
  None

VARIABLES
  env,       \* the controllers of this behaviour
  sizes,     \* the messages in the log file
  index,     \* the index file: <<message index, byte offset>> entries
  merged,    \* messages_merged_upto of the host in the state file
  held,      \* the same in the state each controller holds
  commit,    \* the commit under way, or None
  failures,
  dropped    \* sends that were counted and not logged

vars == <<env, sizes, index, merged, held, commit, failures, dropped>>

Total(s) == FoldLeft(LAMBDA a, b : a + b, 0, s)

\* Where message k (from 0) begins.
Offset(k) == Total(SubSeq(sizes, 1, k))

Size == Total(sizes)

\* The last entry up to the message wanted: its offset and its message index.
ScanIndex(i) ==
  LET upto == SelectInSeq(index, LAMBDA x : x[1] > i)
      last == IF upto = 0 THEN Len(index) ELSE upto - 1
  IN  IF last = 0 THEN <<0, 0>> ELSE <<index[last][2], index[last][1]>>

\* The offset to read from and the number of messages to skip there.
ChunkByteOffset(i) ==
  IF i <= 0 THEN <<0, 0>>
  ELSE IF Size < ChunkSize THEN <<0, i>>
  ELSE <<ScanIndex(i)[1], i - ScanIndex(i)[2]>>

\* The messages (their positions, from 0) that parsing from an offset gives; none when the
\* offset is not the beginning of a message.
ParseStream(offset, skip, max) ==
  LET begins == {k \in 0 .. Len(sizes) : Offset(k) = offset}
      first == (CHOOSE k \in begins : TRUE) + skip
      count == IF first >= Len(sizes) THEN 0
               ELSE IF Len(sizes) - first < max THEN Len(sizes) - first ELSE max
  IN  IF begins = {} THEN <<>> ELSE [n \in 1 .. count |-> first + n - 1]

ReadRange(from, max) ==
  LET at == ChunkByteOffset(from)
  IN  IF at[1] >= Size \/ max = 0 THEN <<>> ELSE ParseStream(at[1], at[2], max)

GetMessages(from, to) == IF to <= from THEN <<>> ELSE ReadRange(from, to - from)

Crossed(before, extra) == (before + extra) \div ChunkSize > before \div ChunkSize

\* Mutant of BoundaryEntry: the message after the crossing one counted twice.
BoundaryEntryPast(before, batch, at) ==
  IF ~Crossed(before, Total(batch)) THEN <<>>
  ELSE LET n == CHOOSE n \in 1 .. Len(batch) :
                  /\ Crossed(before, Total(SubSeq(batch, 1, n)))
                  /\ ~Crossed(before, Total(SubSeq(batch, 1, n - 1)))
       IN  <<<<at + n + 1, before + Total(SubSeq(batch, 1, n))>>>>

\* An append that crosses a chunk boundary is indexed just past the message that does.
BoundaryEntry(before, batch, at) ==
  IF ~Crossed(before, Total(batch)) THEN <<>>
  ELSE LET n == CHOOSE n \in 1 .. Len(batch) :
                  /\ Crossed(before, Total(SubSeq(batch, 1, n)))
                  /\ ~Crossed(before, Total(SubSeq(batch, 1, n - 1)))
       IN  <<<<at + n, before + Total(SubSeq(batch, 1, n))>>>>

\* The log is written first, at the position the controller holds; the new state is
\* computed from the state file.
AddMessages(c, batch) ==
  /\ commit = None
  /\ Len(sizes) + Len(batch) <= MaxMessages
  /\ sizes' = sizes \o batch
  /\ commit' = [by |-> c, entry |-> BoundaryEntry(Size, batch, held[c]),
                upto |-> merged + Len(batch)]
  /\ UNCHANGED <<env, index, merged, held, failures, dropped>>

AddEntry ==
  /\ commit # None
  /\ commit.entry # <<>>
  /\ index' = index \o commit.entry
  /\ commit' = [commit EXCEPT !.entry = <<>>]
  /\ UNCHANGED <<env, sizes, merged, held, failures, dropped>>

WriteState ==
  /\ commit # None
  /\ commit.entry = <<>>
  /\ merged' = commit.upto
  /\ held' = [held EXCEPT ![commit.by] = commit.upto]
  /\ commit' = None
  /\ UNCHANGED <<env, sizes, index, failures, dropped>>

\* The index or the state is not written: the controller keeps the state it had.
Fail ==
  /\ commit # None
  /\ failures < MaxFailures
  /\ failures' = failures + 1
  /\ commit' = None
  /\ UNCHANGED <<env, sizes, index, merged, held, dropped>>

\* The host was removed: its message is counted in the state and not appended.
SendRemoved(c) ==
  /\ commit = None
  /\ dropped < MaxDropped
  /\ dropped' = dropped + 1
  /\ merged' = merged + 1
  /\ held' = [held EXCEPT ![c] = merged + 1]
  /\ UNCHANGED <<env, sizes, index, commit, failures>>

\* A controller is loaded again from the state file.
Load(c) ==
  /\ held[c] # merged
  /\ held' = [held EXCEPT ![c] = merged]
  /\ UNCHANGED <<env, sizes, index, merged, commit, failures, dropped>>

Init ==
  /\ env \in Groups
  /\ sizes = <<>> /\ index = <<<<0, 0>>>> /\ merged = 0
  /\ held = [c \in env |-> 0]
  /\ commit = None /\ failures = 0 /\ dropped = 0

Next ==
  \/ \E c \in env, batch \in UNION {[1 .. n -> Sizes] : n \in 1 .. MaxBatch} :
       AddMessages(c, batch)
  \/ AddEntry
  \/ WriteState
  \/ Fail
  \/ \E c \in env : Load(c) \/ SendRemoved(c)

Spec == Init /\ [][Next]_vars

Exact ==
  \A from, to \in 0 .. Len(sizes) :
    from <= to => GetMessages(from, to) = [n \in 1 .. to - from |-> from + n - 1]

\* While one controller commits, none of its commits is cut short and the host sends
\* nothing after its removal, reading any range
\* of messages gives exactly those, at every step of a commit and however the index
\* shortens the way to them (file_store.rs read_range, boundary_entry).
ReadsExact == Cardinality(env) = 1 /\ failures = 0 /\ dropped = 0 => Exact

\* With old controllers and commits cut short as well (sends after the host's removal
\* still excluded), an index entry never claims a position past its message: a read gives consecutive messages, none before the one
\* asked for.  It may skip messages, never repeat or reorder them.
ReadsForward ==
  dropped = 0 => \A from \in 0 .. Len(sizes) :
    LET read == ReadRange(from, MaxMessages)
    IN  read # <<>> => /\ read[1] >= from
                       /\ read = [n \in 1 .. Len(sizes) - read[1] |-> read[1] + n - 1]

\* store.rs:21 of get_messages_from: "All messages with index >= `index`".
ReadsAll == Exact
=============================================================================
