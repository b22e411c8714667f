------------------------------ MODULE SyncDir ------------------------------
(***************************************************************************)
(* Directory sync (peergos-sync): one client keeps a local directory and a *)
(* remote one equal.  A round scans both sides, compares each path with    *)
(* the state recorded when it was last synced, and then carries out the    *)
(* uploads, downloads, moves and deletions one awaited call at a time.     *)
(* Users edit both sides between the rounds and during them.               *)
(*                                                                         *)
(* A file is its content and its modification time in seconds.  Contents   *)
(* are sequences of bytes, so that a write can be shorter than what it     *)
(* overwrites; the hash of a content is the content itself.  Paths are     *)
(* names: DirOf gives the directory of each, Base being one that is there  *)
(* on both sides from the start.                                           *)
(***************************************************************************)
EXTENDS Integers, Sequences, FiniteSets, SequencesExt

CONSTANTS
  Files, Dirs, Base,   \* paths of files, of directories, and the fixed directory
  DirOf,               \* DirOf[p]: the directory of file p, in Dirs or Base
  SortedFiles,         \* Files in the order of a BTreeSet of paths
  RemoteOrder,         \* the order of the remote listing
  Candidates,          \* Candidates[p]: the conflict names for p, in the order tried
  Contents,            \* what users write
  Start,               \* synced directories a run may begin with
  Settings,            \* records: kind, the remote filesystem ("disk" or "peergos"); chunk,
                       \* chunk_size_for_new_files; order, in which read_dir lists the local
                       \* files; edits, the <<side, file>> users write and delete; removes,
                       \* the <<side, directory>> they remove; limit and faults, bounds on what they do
                       \* and on failed calls and restarts
  BaseIsRoot,          \* Base is the sync root itself
  None                 \* no such file

VARIABLES
  env,      \* the setting of this behaviour, with deletes[side]: its deletions are synced
  fs,       \* fs[side][p]: None or [content, mtime]
  dirs,     \* dirs[side]: the directories that exist beside Base
  synced,   \* files_by_path of the synced state
  sdirs,    \* dirs of the synced state
  ignored,  \* ignored[side]: local_deletes and remote_deletes
  scan,     \* scan[side]: the tree state this round built
  pc,       \* "idle", "scanned" (local side done) or "round"
  todo,     \* the awaited calls and the paths still to be handled
  now, edits, fails,
  live,     \* ghost: contents a scan has seen and no user has replaced or deleted
  fresh,    \* ghost: <<side, content>> written by a user since the side was scanned
  dropped   \* ghost: contents a user has replaced or deleted, once and for all

sides == {"local", "remote"}
vars == <<env, fs, dirs, synced, sdirs, ignored, scan, pc, todo, now, edits, fails, live, fresh, dropped>>
recorded == <<synced, sdirs, ignored>>
ghosts == <<live, fresh, dropped>>

File == [content : Contents, mtime : Nat]
Other(side) == IF side = "local" THEN "remote" ELSE "local"
Present(side, p) == fs[side][p] # None
----------------------------------------------------------------------------
(* The tree state of one side *)

SameSizeAndTime(a, b) == a.mtime = b.mtime /\ Len(a.content) = Len(b.content)

EqualsIgnoreModtime(a, b) == a.content = b.content

\* Mutant of Reused: the time is not compared.
ReusedBySize(side, p) == Present(side, p) /\ synced[p] # None /\ Len(synced[p].content) = Len(fs[side][p].content)

\* A file whose size and time are the recorded ones is not hashed again.
Reused(side, p) == Present(side, p) /\ synced[p] # None /\ SameSizeAndTime(synced[p], fs[side][p])

\* Hashed files are added first, reused entries after them, each in listing order.
BuildDirState(side, order) ==
  [ files |-> [p \in Files |-> IF Reused(side, p) THEN synced[p] ELSE fs[side][p]],
    order |-> SelectSeq(order, LAMBDA p : Present(side, p) /\ ~Reused(side, p))
              \o SelectSeq(order, LAMBDA p : Reused(side, p)),
    dirs  |-> dirs[side] ]

NoTree == [files |-> [p \in Files |-> None], order |-> <<>>, dirs |-> {}]

ByHash(tree, c) == SelectSeq(tree.order, LAMBDA p : tree.files[p].content = c)

\* Files of a tree with content c that the other tree does not have in the same state.
Extra(tree, other, c) == SelectSeq(ByHash(tree, c), LAMBDA p : other.files[p] # tree.files[p])

SameExtras(a, b, c) == Len(Extra(a, b, c)) = Len(Extra(b, a, c))

\* The path that p, new in tree, is taken to have been renamed from: the extra file
\* at the same place in the other tree, when that path is gone from this one.
RenamedFrom(tree, other, p) ==
  LET c == tree.files[p].content
      mine == Extra(tree, other, c)
      theirs == Extra(other, tree, c)
  IN  IF Len(mine) # Len(theirs) THEN None
      ELSE LET q == theirs[CHOOSE i \in DOMAIN mine : mine[i] = p]
           IN IF tree.files[q] = None THEN q ELSE None
----------------------------------------------------------------------------
(* What the two filesystems do *)

Kind(side) == IF side = "local" THEN "disk" ELSE env.kind

\* write on disk does not truncate: a longer old content keeps its tail.
Overlay(old, new) ==
  IF old = None THEN new ELSE new \o SubSeq(old.content, Len(new) + 1, Len(old.content))

Written(side, p, c) ==
  [content |-> IF Kind(side) = "disk" THEN Overlay(fs[side][p], c) ELSE c, mtime |-> now]

\* PeergosSyncFS looks for a child called "." when the parent is the sync root.
ParentFound(side, d) == ~(Kind(side) = "peergos" /\ BaseIsRoot /\ d = Base)

WithDir(side, d) == [dirs EXCEPT ![side] = @ \cup ({d} \cap Dirs)]

SetFile(side, p, f) == fs' = [fs EXCEPT ![side][p] = f]
----------------------------------------------------------------------------
(* A round: the scans and the two classifying passes *)

InSync(l, r, s) ==
  /\ l # None /\ r # None
  /\ \/ l = r
     \/ s # None /\ l.content = r.content /\ EqualsIgnoreModtime(s, l)

\* First pass: paths that need nothing, some recorded on the way.
ChangedPaths(lt, rt) ==
  SelectSeq(SortedFiles, LAMBDA p :
    /\ lt.files[p] # None \/ rt.files[p] # None
    /\ ~InSync(lt.files[p], rt.files[p], synced[p]))

SyncedAfterPass(lt, rt) ==
  [p \in Files |-> IF synced[p] = None /\ lt.files[p] # None /\ lt.files[p] = rt.files[p]
                   THEN lt.files[p] ELSE synced[p]]

\* A deletion that was ignored is forgotten once the file is in sync on both sides.
IgnoredAfterPass(lt, rt) ==
  [side \in sides |->
    IF env.deletes[side] THEN ignored[side]
    ELSE {p \in ignored[side] : ~InSync(lt.files[p], rt.files[p], synced[p])}]

\* Second pass.
BatchUpload(lt, rt, s, p) ==
  /\ s[p] = None /\ rt.files[p] = None /\ lt.files[p] # None
  /\ Len(lt.files[p].content) < env.chunk
  /\ RenamedFrom(lt, rt, p) = None

\* Mutant of BulkDelete: a remote file that changed since the last round goes too.
BulkDeleteChanged(lt, rt, s, p) ==
  /\ lt.files[p] = None /\ rt.files[p] # None /\ s[p] # None
  /\ RenamedFrom(rt, lt, p) = None

BulkDelete(lt, rt, s, p) ==
  /\ lt.files[p] = None /\ rt.files[p] # None /\ s[p] # None
  /\ EqualsIgnoreModtime(rt.files[p], s[p])
  /\ RenamedFrom(rt, lt, p) = None

InDir(d, ps) == SelectSeq(ps, LAMBDA p : DirOf[p] = d)

\* The rest of the round: the batch, one bulk deletion per directory, then the
\* changed paths that are left, then the directories.
Plan(lt, rt, s) ==
  LET changed == ChangedPaths(lt, rt)
      batch == SelectSeq(changed, LAMBDA p : BatchUpload(lt, rt, s, p))
      gone == SelectSeq(changed, LAMBDA p : BulkDelete(lt, rt, s, p))
      ds == SetToSeq({DirOf[gone[i]] : i \in DOMAIN gone})
      rest == SelectSeq(changed, LAMBDA p :
                ~BatchUpload(lt, rt, s, p) /\ ~BulkDelete(lt, rt, s, p))
  IN  (IF batch = <<>> THEN <<>> ELSE << <<"batch", batch>> >>)
      \o (IF env.deletes["local"]
          THEN [i \in DOMAIN ds |-> <<"bulk", InDir(ds[i], gone), InDir(ds[i], gone)>>] ELSE <<>>)
      \o [i \in DOMAIN rest |-> <<"file", rest[i]>>]
      \o (LET all == SetToSeq(lt.dirs \cup rt.dirs \cup sdirs)
          IN [i \in DOMAIN all |-> <<"dir", all[i]>>])

IgnoredDeletes(lt, rt, s) ==
  IF env.deletes["local"] THEN {} ELSE {p \in Files : BulkDelete(lt, rt, s, p)}

\* Ghosts: from its scan on, what a user wrote is in the client's care.
Seen(side, tree) ==
  /\ fresh' = {w \in fresh : w[1] # side}
  /\ live' = live \cup {c \in {tree.files[p].content : p \in {q \in Files : tree.files[q] # None}} :
                         c \notin dropped /\ <<Other(side), c>> \notin fresh}
  /\ UNCHANGED dropped

ScanLocal ==
  /\ pc = "idle"
  /\ LET tree == BuildDirState("local", env.order)
     IN /\ scan' = [scan EXCEPT !["local"] = tree]
        /\ Seen("local", tree)
  /\ pc' = "scanned"
  /\ UNCHANGED <<env, fs, dirs, recorded, todo, now, edits, fails>>

ScanRemote ==
  /\ pc = "scanned"
  /\ LET lt == scan["local"]
         rt == BuildDirState("remote", RemoteOrder)
         s == SyncedAfterPass(lt, rt)
     IN /\ scan' = [scan EXCEPT !["remote"] = rt]
        /\ Seen("remote", rt)
        /\ synced' = s
        /\ ignored' = [IgnoredAfterPass(lt, rt) EXCEPT !["local"] = @ \cup IgnoredDeletes(lt, rt, s)]
        /\ todo' = Plan(lt, rt, s)
  /\ pc' = "round"
  /\ UNCHANGED <<env, fs, dirs, sdirs, now, edits, fails>>
----------------------------------------------------------------------------
(* sync_file: what is recorded at once and which calls follow *)

Copy(to, p, st, unmark) == << <<"copy", to, p, st, unmark>> >>
Conflict(p, unmark) == << <<"conflict", p, unmark>> >>
Outcome(calls, s, i) == [calls |-> calls, synced |-> s, ignored |-> i]
Then(calls) == Outcome(calls, synced, ignored)

\* handle_remote_addition (to = "local") and handle_local_addition (to = "remote").
HandleAddition(to, p) ==
  LET tree == scan[Other(to)]
      q == RenamedFrom(tree, scan[to], p)
  IN  Then(IF q # None THEN << <<"move", to, q, p, tree.files[p]>> >>
           ELSE Copy(to, p, tree.files[p], {}))

HandleConcurrentAddition(p) ==
  LET l == scan["local"].files[p]
      r == scan["remote"].files[p]
  IN  IF l.content # r.content THEN Then(Conflict(p, {}))
      ELSE IF l.mtime > r.mtime THEN Then(<< <<"settime", "remote", p, l>> >>)
      ELSE Then(<< <<"settime", "local", p, r>> >>)

\* Mutant of HandleDelete: the two flags are mixed up.
HandleDeleteFlags(gone, p) ==
  LET kept == scan[Other(gone)]
      f == kept.files[p]
  IN  IF ~EqualsIgnoreModtime(synced[p], f) THEN Then(Copy(gone, p, f, {}))
      ELSE IF SameExtras(kept, scan[gone], f.content) THEN Then(<<>>)
      ELSE IF env.deletes[Other(gone)] THEN Then(<< <<"delete", Other(gone), p>> >>)
      ELSE Outcome(<<>>, synced, [ignored EXCEPT ![gone] = @ \cup {p}])

\* handle_local_delete (gone = "local") and handle_remote_delete (gone = "remote").
HandleDelete(gone, p) ==
  LET kept == scan[Other(gone)]
      f == kept.files[p]
  IN  IF ~EqualsIgnoreModtime(synced[p], f)
        THEN Then(Copy(gone, p, f, IF env.deletes[gone] THEN {} ELSE {gone}))
      ELSE IF SameExtras(kept, scan[gone], f.content) THEN Then(<<>>)
      ELSE IF env.deletes[gone] THEN Then(<< <<"delete", Other(gone), p>> >>)
      ELSE Outcome(<<>>, synced, [ignored EXCEPT ![gone] = @ \cup {p}])

\* handle_both_exist and handle_concurrent_change.  Their branches for equal
\* hashes are not reached: the first pass has taken those paths out.
HandleBothExist(p) ==
  LET s == synced[p]
      l == scan["local"].files[p]
      r == scan["remote"].files[p]
  IN  Then(CASE EqualsIgnoreModtime(s, l) ->
                  IF p \in ignored["remote"] THEN Conflict(p, {"remote"})
                  ELSE Copy("local", p, r, {})
             [] ~EqualsIgnoreModtime(s, l) /\ EqualsIgnoreModtime(s, r) ->
                  IF p \in ignored["local"] THEN Conflict(p, {"local"})
                  ELSE Copy("remote", p, l, {})
             [] OTHER -> Conflict(p, {}))

HandleFile(p) ==
  LET l == scan["local"].files[p]
      r == scan["remote"].files[p]
  IN  CASE synced[p] = None /\ l = None -> HandleAddition("local", p)
        [] synced[p] = None /\ r = None -> HandleAddition("remote", p)
        [] synced[p] = None /\ l # None /\ r # None -> HandleConcurrentAddition(p)
        [] synced[p] # None /\ l = None -> HandleDelete("local", p)
        [] synced[p] # None /\ r = None -> HandleDelete("remote", p)
        [] OTHER -> HandleBothExist(p)

Op(name) == pc = "round" /\ todo # <<>> /\ Head(todo)[1] = name
Call == Head(todo)
Done == todo' = Tail(todo) /\ UNCHANGED <<env, scan, pc, now, edits, fails, ghosts>>

\* The round is over; what it scanned is dropped with it.
Over == todo' = <<>> /\ pc' = "idle" /\ scan' = [side \in sides |-> NoTree]
Abort == Over /\ UNCHANGED <<env, now, edits, fails, ghosts>>

SyncFile ==
  /\ Op("file")
  /\ LET o == HandleFile(Call[2])
     IN /\ todo' = o.calls \o Tail(todo)
        /\ synced' = o.synced
        /\ ignored' = o.ignored
  /\ UNCHANGED <<env, fs, dirs, sdirs, scan, pc, now, edits, fails, ghosts>>
----------------------------------------------------------------------------
(* The awaited calls.  One that fails ends the round with what was done. *)

Record(p, st) == synced' = [synced EXCEPT ![p] = st]
Forget(p) == Record(p, None)

\* mkdirs of the parent, read from the other side, write, add to synced.
CopyFile ==
  /\ Op("copy")
  /\ LET to == Call[2]
         p == Call[3]
         from == fs[Other(to)][p]
     IN /\ dirs' = WithDir(to, DirOf[p])
        /\ IF from # None /\ ParentFound(to, DirOf[p])
           THEN /\ SetFile(to, p, Written(to, p, from.content))
                /\ Record(p, Call[4])
                /\ ignored' = [side \in sides |->
                                 IF side \in Call[5] THEN ignored[side] \ {p} ELSE ignored[side]]
                /\ Done
           ELSE Abort /\ UNCHANGED <<fs, synced, ignored>>
  /\ UNCHANGED sdirs

\* Every file of the batch is read before upload_subtree begins to write.
UploadBatch ==
  /\ Op("batch")
  /\ IF \A i \in DOMAIN Call[2] : Present("local", Call[2][i])
     THEN /\ todo' = << <<"put", [i \in DOMAIN Call[2] |-> <<Call[2][i], fs["local"][Call[2][i]].content>>],
                          Call[2]>> >> \o Tail(todo)
          /\ UNCHANGED <<env, scan, pc, now, edits, fails, ghosts>>
     ELSE Abort
  /\ UNCHANGED <<fs, dirs, recorded>>

\* A disk writes the files one by one; Peergos commits them together.
UploadSubtree ==
  /\ Op("put")
  /\ LET files == Call[2]
         n == IF Kind("remote") = "disk" /\ files # <<>> THEN 1 ELSE Len(files)
         Part(p) == {i \in 1..n : files[i][1] = p}
     IN /\ fs' = [fs EXCEPT !["remote"] = [p \in Files |->
                    IF Part(p) = {} THEN @[p]
                    ELSE Written("remote", p, files[CHOOSE i \in Part(p) : TRUE][2])]]
        /\ dirs' = [dirs EXCEPT !["remote"] = @ \cup ({DirOf[files[i][1]] : i \in 1..n} \cap Dirs)]
        /\ IF n = Len(files)
           THEN /\ synced' = [p \in Files |-> IF p \in Range(Call[3]) THEN scan["local"].files[p] ELSE synced[p]]
                /\ Done
           ELSE /\ todo' = << <<"put", Tail(files), Call[3]>> >> \o Tail(todo)
                /\ UNCHANGED <<env, scan, pc, now, edits, fails, ghosts, synced>>
  /\ UNCHANGED <<sdirs, ignored>>

\* bulk_delete of one directory: the entries are forgotten once all are gone.
DeleteBulk ==
  /\ Op("bulk")
  /\ IF Call[2] = <<>>
     THEN /\ synced' = [p \in Files |-> IF p \in Range(Call[3]) THEN None ELSE synced[p]]
          /\ Done /\ UNCHANGED fs
     ELSE LET p == Head(Call[2])
          IN IF ParentFound("remote", DirOf[p]) /\ (Kind("remote") = "peergos" => Present("remote", p))
             THEN /\ SetFile("remote", p, None)
                  /\ todo' = << <<"bulk", Tail(Call[2]), Call[3]>> >> \o Tail(todo)
                  /\ UNCHANGED <<env, scan, pc, now, edits, fails, ghosts, synced>>
             ELSE Abort /\ UNCHANGED <<fs, synced>>
  /\ UNCHANGED <<dirs, sdirs, ignored>>

\* A rename seen on one side is repeated on the other, unless the new file has gone.
MoveFile ==
  /\ Op("move")
  /\ LET side == Call[2]
         from == Call[3]
         p == Call[4]
         clash == Kind(side) = "peergos" /\ Present(side, p)
     IN IF ~Present(Other(side), p) THEN Done /\ UNCHANGED <<fs, dirs, synced>>
        ELSE IF ~Present(side, from) \/ clash THEN Abort /\ UNCHANGED <<fs, dirs, synced>>
        ELSE /\ fs' = [fs EXCEPT ![side][p] = fs[side][from], ![side][from] = None]
             /\ dirs' = WithDir(side, DirOf[p])
             /\ synced' = [synced EXCEPT ![from] = None, ![p] = Call[5]]
             /\ Done
  /\ UNCHANGED <<sdirs, ignored>>

DeleteFile ==
  /\ Op("delete")
  /\ LET side == Call[2]
         p == Call[3]
     IN IF Present(side, p) /\ ParentFound(side, DirOf[p])
        THEN SetFile(side, p, None) /\ Forget(p) /\ Done
        ELSE Abort /\ UNCHANGED <<fs, synced>>
  /\ UNCHANGED <<dirs, sdirs, ignored>>

\* The time is not kept on Peergos, and recorded all the same.
SetTime ==
  /\ Op("settime")
  /\ LET side == Call[2]
         p == Call[3]
     IN IF Kind(side) = "peergos" THEN UNCHANGED fs /\ Record(p, Call[4]) /\ Done
        ELSE IF Present(side, p)
        THEN SetFile(side, p, [fs[side][p] EXCEPT !.mtime = Call[4].mtime]) /\ Record(p, Call[4]) /\ Done
        ELSE Abort /\ UNCHANGED <<fs, synced>>
  /\ UNCHANGED <<dirs, sdirs, ignored>>

\* rename_on_conflict: the local file takes the first free conflict name (and the
\* loop spins while there is none); then the remote version comes down under the
\* old name and the local one goes up under the new name.
RenameOnConflict ==
  /\ Op("conflict")
  /\ LET p == Call[2]
         free == {i \in DOMAIN Candidates[p] : ~Present("local", Candidates[p][i])}
         q == Candidates[p][CHOOSE i \in free : \A j \in free : i <= j]
         l == fs["local"][p]
     IN /\ free # {}
        /\ IF l = None THEN Abort /\ UNCHANGED fs
           ELSE /\ fs' = [fs EXCEPT !["local"][q] = l, !["local"][p] = None]
                /\ todo' = Copy("local", p, scan["remote"].files[p], {})
                           \o Copy("remote", q, [content |-> scan["local"].files[p].content,
                                                 mtime |-> l.mtime], {})
                           \o [i \in 1..Cardinality(Call[3]) |-> <<"unmark", p, Call[3]>>]
                           \o Tail(todo)
                /\ UNCHANGED <<env, scan, pc, now, edits, fails, ghosts>>
  /\ UNCHANGED <<dirs, recorded>>

\* remove_local_delete or remove_remote_delete, after both copies.
Unmark ==
  /\ Op("unmark")
  /\ ignored' = [side \in sides |-> IF side \in Call[3] THEN ignored[side] \ {Call[2]} ELSE ignored[side]]
  /\ Done
  /\ UNCHANGED <<fs, dirs, synced, sdirs>>
\* delete of a directory: on disk it must be there and empty, on Peergos the whole
\* subtree goes.
DeletableDir(side, d) ==
  /\ d \in dirs[side]
  /\ IF Kind(side) = "disk" THEN \A p \in Files : DirOf[p] = d => ~Present(side, p)
     ELSE ParentFound(side, Base)

WithoutDir(side, d) == [p \in Files |-> IF DirOf[p] = d THEN None ELSE fs[side][p]]

SyncDirectory ==
  /\ Op("dir")
  /\ LET d == Call[2]
         has == {side \in sides : d \in scan[side].dirs}
     IN CASE has = sides -> sdirs' = sdirs \cup {d} /\ Done /\ UNCHANGED <<fs, dirs>>
          [] has = {} -> sdirs' = sdirs \ {d} /\ Done /\ UNCHANGED <<fs, dirs>>
          [] OTHER ->
               LET side == CHOOSE x \in has : TRUE
               IN CASE d \notin sdirs ->
                         dirs' = WithDir(Other(side), d) /\ sdirs' = sdirs \cup {d} /\ Done /\ UNCHANGED fs
                    [] d \in sdirs /\ ~env.deletes[Other(side)] -> Done /\ UNCHANGED <<fs, dirs, sdirs>>
                    [] d \in sdirs /\ env.deletes[Other(side)] /\ DeletableDir(side, d) ->
                         /\ dirs' = [dirs EXCEPT ![side] = @ \ {d}]
                         /\ fs' = [fs EXCEPT ![side] = WithoutDir(side, d)]
                         /\ sdirs' = sdirs \ {d} /\ Done
                    [] OTHER -> Abort /\ UNCHANGED <<fs, dirs, sdirs>>
  /\ UNCHANGED <<synced, ignored>>

EndRound ==
  /\ pc = "round" /\ todo = <<>>
  /\ Over
  /\ UNCHANGED <<env, fs, dirs, recorded, now, edits, fails, ghosts>>
----------------------------------------------------------------------------
(* Faults and users *)

\* A scan or any awaited call may fail.
Fail ==
  /\ pc # "idle" /\ (todo # <<>> => Call[1] \notin {"file", "unmark"})
  /\ fails < env.faults
  /\ fails' = fails + 1
  /\ Over
  /\ UNCHANGED <<env, fs, dirs, recorded, now, edits, ghosts>>

\* The synced state is in memory: another run of the client begins without it.
Restart ==
  /\ pc = "idle" /\ fails < env.faults
  /\ fails' = fails + 1
  /\ synced' = [p \in Files |-> None] /\ sdirs' = {} /\ ignored' = [side \in sides |-> {}]
  /\ UNCHANGED <<env, fs, dirs, scan, pc, todo, now, edits, ghosts>>

\* Times are seconds; a version is written a second or more after the one
\* it replaces and the ones last synced and scanned.
UserWrite(side, p, c) ==
  /\ edits < env.limit
  /\ Present(side, p) => fs[side][p].content # c
  /\ \E t \in {now, now + 1} :
       /\ \A st \in {fs[side][p], synced[p], scan["local"].files[p], scan["remote"].files[p]} \ {None} : st.mtime < t
       /\ now' = t
       /\ SetFile(side, p, [content |-> c, mtime |-> t])
  /\ dirs' = WithDir(side, DirOf[p])
  /\ edits' = edits + 1
  /\ LET old == IF Present(side, p) THEN {fs[side][p].content} ELSE {}
     IN /\ live' = live \ (old \cup {c})
        /\ fresh' = fresh \cup {<<side, c>>}
        /\ dropped' = dropped \cup old
  /\ UNCHANGED <<env, recorded, scan, pc, todo, fails>>

Removed(side, ps) ==
  LET gone == {fs[side][p].content : p \in {q \in ps : Present(side, q)}}
  IN  live' = live \ gone /\ dropped' = dropped \cup gone /\ UNCHANGED fresh

UserDelete(side, p) ==
  /\ edits < env.limit /\ Present(side, p)
  /\ SetFile(side, p, None)
  /\ Removed(side, {p})
  /\ edits' = edits + 1
  /\ UNCHANGED <<env, dirs, recorded, scan, pc, todo, now, fails>>

UserRemoveDir(side, d) ==
  /\ edits < env.limit /\ d \in dirs[side]
  /\ dirs' = [dirs EXCEPT ![side] = @ \ {d}]
  /\ fs' = [fs EXCEPT ![side] = WithoutDir(side, d)]
  /\ Removed(side, {p \in Files : DirOf[p] = d})
  /\ edits' = edits + 1
  /\ UNCHANGED <<env, recorded, scan, pc, todo, now, fails>>
----------------------------------------------------------------------------
\* A directory that is in sync: both sides and the record hold the same files.
Init ==
  \E tree \in Start, set \in Settings, dl \in BOOLEAN, dr \in BOOLEAN :
    /\ env = [kind |-> set.kind, chunk |-> set.chunk, order |-> set.order,
              edits |-> set.edits, removes |-> set.removes, limit |-> set.limit, faults |-> set.faults,
              deletes |-> [side \in sides |-> IF side = "local" THEN dl ELSE dr]]
    /\ LET files == [p \in Files |-> IF tree[p] = None THEN None ELSE [content |-> tree[p], mtime |-> 0]]
           ds == {DirOf[p] : p \in {q \in Files : tree[q] # None}} \cap Dirs
       IN /\ fs = [side \in sides |-> files] /\ synced = files
          /\ dirs = [side \in sides |-> ds] /\ sdirs = ds
    /\ ignored = [side \in sides |-> {}]
    /\ scan = [side \in sides |-> NoTree]
    /\ pc = "idle" /\ todo = <<>> /\ now = 0 /\ edits = 0 /\ fails = 0
    /\ live = {} /\ fresh = {} /\ dropped = {}

SyncStep ==
  \/ ScanLocal \/ ScanRemote \/ SyncFile \/ UploadBatch \/ UploadSubtree \/ DeleteBulk
  \/ CopyFile \/ MoveFile \/ DeleteFile \/ SetTime \/ RenameOnConflict \/ Unmark
  \/ SyncDirectory \/ EndRound

Next ==
  \/ SyncStep \/ Fail \/ Restart
  \/ \E w \in env.edits : UserDelete(w[1], w[2]) \/ \E c \in Contents : UserWrite(w[1], w[2], c)
  \/ \E w \in env.removes : UserRemoveDir(w[1], w[2])

Spec == Init /\ [][Next]_vars

\* The client runs round after round, so its next step is taken in the end.
FairSpec == Spec /\ WF_vars(SyncStep)
----------------------------------------------------------------------------
(* Properties *)

On(side) == {fs[side][p].content : p \in {q \in Files : Present(side, q)}}

\* Whatever content a round has scanned stays on one of the two sides, in some file,
\* until a user replaces or deletes it: no interleaving of users, failures and
\* rounds makes the client overwrite or delete the only copy.
NoLoss == live \subseteq On("local") \cup On("remote")

Content(side, p) == IF Present(side, p) THEN fs[side][p].content ELSE None

Agree ==
  \A p \in Files :
    \/ Content("local", p) = Content("remote", p)
    \/ \E side \in sides : ~env.deletes[side] /\ ~Present(side, p)

\* When the users and the faults stop, repeated rounds bring both sides to the same
\* files with the same contents, but for deletions the client was told to ignore.
Converges == <>[]Agree

FileCount(side) == Cardinality({p \in Files : Present(side, p)})

\* Deletions of a side that are not to be synced never cost the other side a file:
\* the client's own steps rename files there, and remove none.
KeepsFiles ==
  [][ \A side \in sides :
        SyncStep /\ ~env.deletes[Other(side)] => FileCount(side)' >= FileCount(side) ]_vars

\* Every file on either side has a content some user wrote.
WholeContents == On("local") \cup On("remote") \subseteq Contents
=============================================================================
