-------------------------- MODULE UploadTransaction --------------------------
(* Uploads of files of several chunks to one path, by a client that may stop *)
(* at any point (a crash, a lost request or a lost answer: the call returns  *)
(* an error and nothing is undone) and start again later.                    *)
(*                                                                           *)
(* An upload is a series of commits: its record in .transactions, each of    *)
(* its chunks, the link in the directory, the removal of the record.  Every  *)
(* commit reads a writer's pointer and sets it with a compare-and-swap,      *)
(* which is refused when another device has committed to the writer since.   *)
EXTENDS Integers

CONSTANTS
    Contents,      \* what the user may upload to the path
    ChunkCount,    \* the chunks of each of them
    ProbeCount,    \* the probes of one round of the search (8)
    MaxTxns,       \* bound: records opened
    MaxTroubles    \* bound: stops of the client and commits of other devices

ASSUME ConstantsAssumption ==
    /\ ChunkCount \in Nat \ {0} /\ ProbeCount \in Nat \ {0, 1}
    /\ MaxTxns \in Nat /\ MaxTroubles \in Nat

VARIABLES
    record,    \* .transactions: the record of the path, or none
    chunks,    \* the champ: the chunks present, of each transaction
    link,      \* the directory: the file at the path, or none
    pc,        \* the client: its next step,
    txn,       \*   the transaction it works on,
    want,      \*   what to upload once that one is cleared,
    i,         \*   the next chunk; in the search, the low end of the range,
    hi,        \*   the high end
    snap,      \*   and the chunks of the champ it looks at,
    fresh,     \*   and whether nobody has committed since the pointer was read
    made,      \* how many transactions there have been
    troubles,  \* how many stops and commits of other devices
    cut,       \* ghost: files that lost their chunks after they were linked
    leaked,    \* ghost: transactions whose clean-up was refused
    replaced   \* ghost: files whose link gave way to a later upload's

stored == <<record, chunks, link>>
call == <<txn, want>>
search == <<i, hi, snap>>
ghosts == <<cut, leaked, replaced>>
vars == <<stored, pc, call, search, fresh, made, troubles, ghosts>>

(* A transaction, with the keys drawn for it, is a number; it is for one     *)
(* content (the size and the hash tree).                                     *)
Txns == (1..MaxTxns) \X Contents
None == <<0, 0>>
ContentOf(t) == t[2]
Chunks == 0..(ChunkCount - 1)

Whole(t) == chunks[t] = Chunks

Pcs == {"idle", "find", "search", "open", "opening", "begin", "chunk", "link", "linking",
        "close", "closing", "clear", "clearing"}

(* The client is about to take step p, with nothing else in its memory. *)
Go(p, t, w) ==
    /\ pc' = p /\ txn' = t /\ want' = w
    /\ i' = 0 /\ hi' = 0 /\ snap' = {} /\ fresh' = FALSE

Return == Go("idle", None, {})

-----------------------------------------------------------------------------
(* What the user or the application starts. *)

(* upload_file_with_transaction, as far as the decision what to do about a   *)
(* record that is there already.                                             *)
Upload(c) ==
    /\ pc = "idle"
    /\ \/ record = None /\ made < MaxTxns /\ Go("open", None, {c})
       \/ record # None /\ ContentOf(record) = c /\ Go("find", record, {})
       \/ record # None /\ ContentOf(record) # c /\ made < MaxTxns /\ Go("clear", record, {c})
    /\ UNCHANGED <<stored, made, troubles, ghosts>>

(* resume_transaction, of a record that was listed. *)
Resume ==
    /\ pc = "idle" /\ record # None /\ Go("find", record, {})
    /\ UNCHANGED <<stored, made, troubles, ghosts>>

(* clear_transaction, of a record that was listed. *)
ClearOpen ==
    /\ pc = "idle" /\ record # None /\ Go("clear", record, {})
    /\ UNCHANGED <<stored, made, troubles, ghosts>>

-----------------------------------------------------------------------------
(* find_first_absent_chunk: the pointer is read once; the rounds of the      *)
(* search look chunks up in the champ it pointed to.                         *)
Find ==
    /\ pc = "find" /\ pc' = "search"
    /\ i' = 0 /\ hi' = ChunkCount /\ snap' = chunks[txn]
    /\ UNCHANGED <<stored, call, fresh, made, troubles, ghosts>>

BatchSize(lo, h) == IF h - lo < ProbeCount THEN h - lo ELSE ProbeCount
Probe(lo, h, n) == lo + (n * (h - lo)) \div BatchSize(lo, h)
Last(lo, h) == BatchSize(lo, h) - 1

Found(n) == pc' = "begin" /\ i' = n /\ hi' = 0 /\ snap' = {}
Narrow(lo, h) == i' = lo /\ hi' = h /\ UNCHANGED <<pc, snap>>

(* Probe n is the first of the round that is absent. *)
FirstAbsent(n) ==
    /\ Probe(i, hi, n) \notin snap
    /\ \A m \in 0..(n - 1) : Probe(i, hi, m) \in snap

AllPresent == \A n \in 0..Last(i, hi) : Probe(i, hi, n) \in snap

(* Mutant: takes the first probe that is absent for the answer. *)
SearchStopsEarly ==
    /\ pc = "search"
    /\ \/ \E n \in 0..Last(i, hi) : FirstAbsent(n) /\ Found(Probe(i, hi, n))
       \/ AllPresent /\ Found(hi)
    /\ UNCHANGED <<stored, call, fresh, made, troubles, ghosts>>

(* Mutant: narrows the range to the last probe however close it is to hi. *)
SearchLoops ==
    /\ pc = "search"
    /\ \/ FirstAbsent(0) /\ Found(i)
       \/ \E n \in 1..Last(i, hi) : FirstAbsent(n) /\ Narrow(Probe(i, hi, n - 1), Probe(i, hi, n))
       \/ AllPresent /\ Narrow(Probe(i, hi, Last(i, hi)), hi)
    /\ UNCHANGED <<stored, call, fresh, made, troubles, ghosts>>

(* One round of binary_search_absent_chunk; that the range is not empty is   *)
(* part of UploadInv.                                                        *)
Search ==
    /\ pc = "search"
    /\ \/ FirstAbsent(0) /\ Found(i)
       \/ \E n \in 1..Last(i, hi) : FirstAbsent(n) /\ Narrow(Probe(i, hi, n - 1), Probe(i, hi, n))
       \/ /\ AllPresent
          /\ LET last == Probe(i, hi, Last(i, hi))
             IN  IF last + 1 >= hi THEN Found(hi) ELSE Narrow(last, hi)
    /\ UNCHANGED <<stored, call, fresh, made, troubles, ghosts>>

-----------------------------------------------------------------------------
(* The commits of an upload. *)

(* The pointer is read: for the record, for all the chunks, for the link. *)
ReadPointer ==
    /\ \/ pc = "open" /\ pc' = "opening" /\ fresh' = TRUE
       \/ pc = "begin" /\ i < ChunkCount /\ pc' = "chunk" /\ fresh' = TRUE
       \/ pc = "begin" /\ i >= ChunkCount /\ pc' = "link" /\ fresh' = FALSE
       \/ pc = "link" /\ pc' = "linking" /\ fresh' = TRUE
    /\ UNCHANGED <<stored, call, search, made, troubles, ghosts>>

(* open_transaction: the record takes the place of one with the same name. *)
OpenRecord ==
    /\ pc = "opening" /\ fresh
    /\ \E c \in want : record' = <<made + 1, c>> /\ Go("begin", <<made + 1, c>>, {})
    /\ made' = made + 1
    /\ UNCHANGED <<chunks, link, troubles, ghosts>>

(* Mutant: the loop ends before the last chunk. *)
PutChunkShort ==
    /\ pc = "chunk" /\ fresh
    /\ chunks' = [chunks EXCEPT ![txn] = @ \cup {i}]
    /\ i' = i + 1
    /\ IF i + 2 >= ChunkCount THEN pc' = "link" /\ fresh' = FALSE ELSE UNCHANGED <<pc, fresh>>
    /\ UNCHANGED <<record, link, call, hi, snap, made, troubles, ghosts>>

(* upload_txn_chunks commits each chunk against the pointer it has set       *)
(* itself for the one before.                                                *)
PutChunk ==
    /\ pc = "chunk" /\ fresh
    /\ chunks' = [chunks EXCEPT ![txn] = @ \cup {i}]
    /\ i' = i + 1
    /\ IF i + 1 = ChunkCount THEN pc' = "link" /\ fresh' = FALSE ELSE UNCHANGED <<pc, fresh>>
    /\ UNCHANGED <<record, link, call, hi, snap, made, troubles, ghosts>>

(* finish_dir_write: a child of the same name gives way; its chunks stay. *)
AddChild(t) ==
    /\ link' = t
    /\ replaced' = (IF link = None THEN replaced ELSE replaced \cup {link}) \ {t}

(* add_file_child_link. *)
Link ==
    /\ pc = "linking" /\ fresh
    /\ AddChild(txn)
    /\ cut' = IF Whole(txn) THEN cut \ {txn} ELSE cut
    /\ Go("close", txn, {})
    /\ UNCHANGED <<record, chunks, made, troubles, leaked>>

(* After the record is gone: return, or go on to the upload that had to      *)
(* clear it.                                                                 *)
Closed == IF want = {} THEN Return ELSE Go("open", None, want)

(* close_transaction_record lists .transactions, *)
BeginClose ==
    /\ pc = "close"
    /\ IF record = None THEN Closed
       ELSE pc' = "closing" /\ fresh' = TRUE /\ UNCHANGED <<call, search>>
    /\ UNCHANGED <<stored, made, troubles, ghosts>>

(* and deletes the record. *)
Close ==
    /\ pc = "closing" /\ fresh
    /\ record' = None
    /\ Closed
    /\ UNCHANGED <<chunks, link, made, troubles, ghosts>>

(* A commit that is refused ends the call with an error. *)
Refused ==
    /\ pc \in {"opening", "chunk", "linking", "closing"} /\ ~fresh
    /\ Return
    /\ UNCHANGED <<stored, made, troubles, ghosts>>

-----------------------------------------------------------------------------
(* clear_transaction, up to close_transaction_record. *)

BeginClear ==
    /\ pc = "clear" /\ pc' = "clearing"
    /\ snap' = chunks[txn] /\ fresh' = TRUE
    /\ UNCHANGED <<stored, call, i, hi, made, troubles, ghosts>>

Lose(t) ==
    /\ chunks' = [chunks EXCEPT ![t] = {}]
    /\ cut' = IF t = link THEN cut \cup {t} ELSE cut

(* Mutant: only the first chunk is removed. *)
ClearFirstChunk ==
    /\ pc = "clearing"
    /\ chunks' = IF fresh THEN [chunks EXCEPT ![txn] = @ \ {0}] ELSE chunks
    /\ cut' = IF fresh /\ txn = link THEN cut \cup {link} ELSE cut
    /\ leaked' = IF snap # {} /\ ~fresh THEN leaked \cup {txn} ELSE leaked
    /\ Go("close", txn, want)
    /\ UNCHANGED <<record, link, made, troubles, replaced>>

(* The chunks found are removed in one commit.  Whether it was refused is    *)
(* not looked at.                                                            *)
ClearChunks ==
    /\ pc = "clearing"
    /\ IF snap # {} /\ fresh THEN Lose(txn) ELSE UNCHANGED <<chunks, cut>>
    /\ leaked' = IF snap # {} /\ ~fresh THEN leaked \cup {txn} ELSE leaked
    /\ Go("close", txn, want)
    /\ UNCHANGED <<record, link, made, troubles, replaced>>

-----------------------------------------------------------------------------
(* What goes wrong. *)

Trouble == troubles < MaxTroubles /\ troubles' = troubles + 1

(* The client stops. *)
Stop ==
    /\ pc # "idle" /\ Trouble
    /\ Return
    /\ UNCHANGED <<stored, made, ghosts>>

(* Another device commits something else to the writer. *)
OtherCommit ==
    /\ fresh /\ Trouble
    /\ fresh' = FALSE
    /\ UNCHANGED <<stored, pc, call, search, made, ghosts>>

(* The file is deleted (delete_child), here or on another device; this is a  *)
(* commit to the writer of the directory, which .transactions may share.     *)
DeleteFile ==
    /\ link # None /\ 0 \in chunks[link] /\ Trouble
    /\ Lose(link)
    /\ link' = None
    /\ \/ fresh' = FALSE
       \/ pc \in {"opening", "closing"} /\ fresh' = fresh
    /\ UNCHANGED <<record, pc, call, search, made, leaked, replaced>>

-----------------------------------------------------------------------------
Init ==
    /\ record = None /\ link = None /\ chunks = [t \in Txns |-> {}]
    /\ pc = "idle" /\ txn = None /\ want = {}
    /\ i = 0 /\ hi = 0 /\ snap = {} /\ fresh = FALSE
    /\ made = 0 /\ troubles = 0
    /\ cut = {} /\ leaked = {} /\ replaced = {}

Progress ==
    \/ Find \/ Search \/ ReadPointer \/ OpenRecord \/ PutChunk \/ Link \/ BeginClose \/ Close
    \/ Refused \/ BeginClear \/ ClearChunks

Next ==
    \/ \E c \in Contents : Upload(c)
    \/ Resume \/ ClearOpen
    \/ Progress
    \/ Stop \/ OtherCommit \/ DeleteFile

Spec == Init /\ [][Next]_vars

(* A call that has started is polled until it returns; nothing says that the *)
(* user starts another, or that another device does anything.                *)
FairSpec == Spec /\ WF_vars(Progress)

-----------------------------------------------------------------------------
(* Properties. *)

(* The types: the record and the link name transactions that were made, and  *)
(* the client is at one of the awaits of the code with a range of the search *)
(* inside the file.                                                          *)
TypeOK ==
    /\ {record, link} \subseteq Txns \cup {None}
    /\ chunks \in [Txns -> SUBSET Chunks]
    /\ pc \in Pcs /\ txn \in Txns \cup {None} /\ want \in SUBSET Contents
    /\ i \in 0..ChunkCount /\ hi \in 0..ChunkCount /\ snap \in SUBSET Chunks /\ fresh \in BOOLEAN
    /\ made \in 0..MaxTxns /\ troubles \in 0..MaxTroubles
    /\ {cut, leaked, replaced} \subseteq SUBSET Txns

(* A file in the directory has all its chunks, across interrupted, resumed   *)
(* and replaced uploads and commits of other devices - unless they were      *)
(* removed after an earlier link to it, while its record was still open: by  *)
(* the clean-up of the record, or by a deletion the resumed upload missed.   *)
LinkedWhole == link # None => Whole(link) \/ link \in cut

(* The chunks of an open transaction are the first ones of its file, which   *)
(* the search for the first absent chunk relies on; with the same exception. *)
PrefixKept ==
    record # None =>
        \/ \E n \in 0..ChunkCount : chunks[record] = 0..(n - 1)
        \/ record \in cut

(* A chunk in the champ belongs to the file in the directory or to the open  *)
(* record, so that it can be cleaned up - unless the file it belonged to was *)
(* replaced by a later upload, or a clean-up that was refused removed the    *)
(* record all the same.                                                      *)
NoOrphans ==
    \A t \in Txns : chunks[t] # {} => t \in {link, record} \cup replaced \cup leaked

(* The inductive invariant.  Every step of a call but the opening of its     *)
(* record is about the transaction whose record is open.  The search keeps   *)
(* the first absent chunk of its snapshot between i and hi; the next chunk   *)
(* to upload is the first one absent; the file is whole when it is linked.   *)
(* When the record is removed, the chunks are linked or gone, or their       *)
(* removal was refused.                                                      *)
Opened(t) == t[1] \in 1..made

CallInv ==
    /\ pc \in {"open", "opening"} => record = None /\ want # {} /\ made < MaxTxns
    /\ pc \notin {"idle", "open", "opening"} => record # None /\ txn = record
    /\ want # {} => made < MaxTxns

SearchInv ==
    /\ pc = "search" =>
          /\ i < hi
          /\ i = 0 \/ i \in snap
          /\ hi = ChunkCount \/ hi \notin snap
          /\ record \in cut \/ snap = chunks[record]
    /\ pc = "clearing" /\ snap = {} => chunks[record] = {}

ChunkInv ==
    /\ pc \in {"begin", "chunk"} => record \in cut \/ chunks[record] = 0..(i - 1)
    /\ pc = "chunk" => i < ChunkCount
    /\ pc \in {"link", "linking"} => record \in cut \/ Whole(record)
    /\ pc \in {"close", "closing"} =>
          chunks[record] = {} \/ record \in {link} \cup leaked

UploadInv ==
    /\ TypeOK /\ CallInv /\ SearchInv /\ ChunkInv
    /\ LinkedWhole /\ PrefixKept /\ NoOrphans
    /\ \A t \in Txns : t = record \/ chunks[t] # {} => Opened(t)

(* A resumed upload that nothing disturbs gets to the end: the search for    *)
(* the first absent chunk comes to an answer, the file is linked and its     *)
(* record removed.                                                           *)
ResumeFinishes ==
    \A t \in Txns : (pc = "find" /\ txn = t /\ troubles = MaxTroubles)
                      ~> (link = t /\ record = None)

(* What the documentation of upload_file_streaming_auto and of               *)
(* clear_transaction says: uploads are crash-safe, and only a failed upload  *)
(* is cleaned up; so a file in the directory has all its chunks.             *)
CrashSafe == link # None => Whole(link)
=============================================================================
