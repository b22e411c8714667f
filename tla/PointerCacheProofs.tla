------------------------- MODULE PointerCacheProofs -------------------------
(* Proofs about PointerCache, for any writers, tasks, times and bounds. *)
EXTENDS PointerCache, TLAPS

(* What Step leaves of the other tasks. *)
LEMMA StepOne ==
    ASSUME NEW t \in Tasks, NEW r, TypeOK, Step(t, r)
    PROVE  /\ task'[t] = r
           /\ \A x \in Tasks : x # t => task'[x] = task[x]
           /\ task' = [x \in Tasks |-> IF x = t THEN r ELSE task[x]]
BY DEF TypeOK, Step

LEMMA IdleTask == Idle \in Task
BY ConstantsAssumption DEF Idle, Task, Pcs, Versions, Oldest

(* A task that reads leaves with a well formed record. *)
LEMMA GotTask ==
    ASSUME TypeOK, NEW t \in Tasks, NEW w \in Writers, NEW v \in Versions
    PROVE  Got(t, w, v) \in Task
<1>1. task[t] \in Task
  BY DEF TypeOK
<1>2. {s \in task[t].seen : s[1] # w} \cup {<<w, v>>} \in SUBSET (Writers \X Versions)
  BY <1>1 DEF Task
<1> DEFINE S == {s \in task[t].seen : s[1] # w} \cup {<<w, v>>}
<1>3. Got(t, w, v) = [Idle EXCEPT !.pc = "got", !.seen = S]
  BY DEF Got
<1> HIDE DEF S
<1>4. [Idle EXCEPT !.pc = "got", !.seen = S] \in Task
  BY IdleTask, <1>2 DEF S, Task, Pcs
<1> QED
  BY <1>3, <1>4

(* A step of one task that changes neither the server nor the ghosts keeps   *)
(* the invariant if it keeps what the invariant says of that task and of     *)
(* the cache.                                                                *)
LEMMA TaskOnly ==
    ASSUME CacheInv, NEW t \in Tasks, NEW r, Step(t, r), r \in Task, TaskInv(r),
           UNCHANGED <<serverVars, ghostVars>>,
           cache' \in [Writers -> SUBSET Entry],
           \A w \in Writers : \A d, e \in cache'[w] : d = e,
           \A w \in Writers : \A e \in cache'[w] : Fresh(e) =>
               /\ e.gone <= Latency + e.age
               /\ e.val >= returned[w] \/ e.crossed
    PROVE  CacheInv'
<1> USE DEF CacheInv
<1>1. task' = [x \in Tasks |-> IF x = t THEN r ELSE task[x]]
  BY StepOne
<1>2. TypeOK'
  BY <1>1 DEF TypeOK, serverVars, ghostVars
<1>3. \A x \in Tasks : TaskInv(task'[x])
  BY <1>1
<1>4. \A x \in Tasks : TaskInv(task[x])'
  BY <1>3 DEF TaskInv, serverVars, ghostVars, Fetching, Of
<1>5. OwnWritesSeen'
  BY DEF OwnWritesSeen, ghostVars, Fresh
<1>6. (\A w \in Writers : returned[w] <= server[w])'
  BY DEF serverVars, ghostVars
<1>7. (\A w \in Writers : \A e \in cache[w] : Fresh(e) => e.gone <= Latency + e.age)'
  BY DEF Fresh
<1> QED
  BY <1>2, <1>4, <1>5, <1>6, <1>7

(* The same for a step that leaves the cache alone. *)
LEMMA TaskAndCacheOnly ==
    ASSUME CacheInv, NEW t \in Tasks, NEW r, Step(t, r), r \in Task, TaskInv(r),
           UNCHANGED <<serverVars, cache, ghostVars>>
    PROVE  CacheInv'
BY TaskOnly DEF CacheInv, TypeOK, OwnWritesSeen

-----------------------------------------------------------------------------
(* One lemma per action. *)

LEMMA IdleInv ==
    ASSUME CacheInv
    PROVE  TaskInv(Idle)
BY DEF TaskInv, Idle, Of, Fetching

LEMMA GotInv ==
    ASSUME CacheInv, NEW t \in Tasks, NEW w \in Writers, NEW v \in Versions
    PROVE  TaskInv(Got(t, w, v))
<1> DEFINE S == {s \in task[t].seen : s[1] # w} \cup {<<w, v>>}
<1>1. Got(t, w, v) = [Idle EXCEPT !.pc = "got", !.seen = S]
  BY DEF Got
<1>2. S \subseteq Writers \X Versions
  BY DEF CacheInv, TypeOK, Task
<1>3. \A x \in Of(S) : 0 <= server[x]
  BY <1>2, ConstantsAssumption DEF Of, CacheInv, TypeOK, Versions
<1> HIDE DEF S
<1> QED
  BY <1>1, <1>3 DEF TaskInv, Idle, Fetching

LEMMA HitStep ==
    ASSUME CacheInv, NEW t \in Tasks, NEW w \in Writers, Hit(t, w)
    PROVE  CacheInv'
<1>1. PICK e \in cache[w] : Step(t, Got(t, w, e.val))
  BY DEF Hit
<1>2. e.val \in Versions
  BY DEF CacheInv, TypeOK, Entry
<1> QED
  BY <1>1, <1>2, GotTask, GotInv, TaskAndCacheOnly DEF Hit, CacheInv

LEMMA MissStep ==
    ASSUME CacheInv, NEW t \in Tasks, NEW w \in Writers, Miss(t, w)
    PROVE  CacheInv'
<1> DEFINE r == [task[t] EXCEPT !.pc = "fetch", !.w = {w}]
<1>1. task[t] \in Task /\ TaskInv(task[t]) /\ task[t].pc \in {"idle", "got"}
  BY DEF CacheInv, TypeOK, Miss, Reading, At
<1>2. r \in Task
  BY <1>1 DEF Task, Pcs
<1>3. TaskInv(r)
  BY <1>1 DEF TaskInv, Fetching, Task
<1> QED
  BY <1>2, <1>3, TaskAndCacheOnly DEF Miss

LEMMA AnswerStep ==
    ASSUME CacheInv, NEW t \in Tasks, Answer(t)
    PROVE  CacheInv'
<1>1. task[t] \in Task /\ TaskInv(task[t]) /\ task[t].pc = "fetch"
  BY DEF CacheInv, TypeOK, Answer, At
<1>2. PICK w \in Writers : task[t].w = {w}
  BY <1>1 DEF TaskInv, Fetching
<1> DEFINE r == [task[t] EXCEPT !.pc = "fill", !.val = server[w]]
<1>3. Step(t, r)
  BY <1>2 DEF Answer
<1>4. server[w] \in Versions /\ returned[w] \in Nat /\ server[w] >= returned[w]
  BY ConstantsAssumption DEF CacheInv, TypeOK, Versions
<1>5. r \in Task
  BY <1>1, <1>4 DEF Task, Pcs
<1>6. TaskInv(r)
  BY <1>1, <1>2, <1>4, ConstantsAssumption DEF TaskInv, Fetching, Task
<1> QED
  BY <1>3, <1>5, <1>6, TaskAndCacheOnly DEF Answer

LEMMA FillStep ==
    ASSUME CacheInv, NEW t \in Tasks, Fill(t)
    PROVE  CacheInv'
<1>1. task[t] \in Task /\ TaskInv(task[t]) /\ task[t].pc = "fill"
  BY DEF CacheInv, TypeOK, Fill, At
<1>2. PICK w \in Writers : task[t].w = {w}
  BY <1>1 DEF TaskInv, Fetching
<1> DEFINE e == [val |-> task[t].val, age |-> 0, gone |-> task[t].gone,
                 crossed |-> task[t].crossed]
<1>3. cache' = [cache EXCEPT ![w] = {e}] /\ Step(t, Got(t, w, task[t].val))
  BY <1>2 DEF Fill
<1>4. e \in Entry /\ task[t].val \in Versions
  BY <1>1, ConstantsAssumption DEF Task, Entry
<1>5. e.gone <= Latency + e.age /\ (e.val >= returned[w] \/ e.crossed)
  BY <1>1, <1>2, ConstantsAssumption DEF TaskInv, Task
<1> HIDE DEF e
<1>6. cache' \in [Writers -> SUBSET Entry]
  BY <1>3, <1>4 DEF CacheInv, TypeOK
<1>7. \A x \in Writers : \A d, f \in cache'[x] : d = f
  BY <1>3 DEF CacheInv, TypeOK
<1>8. \A x \in Writers : \A f \in cache'[x] : Fresh(f) =>
          f.gone <= Latency + f.age /\ (f.val >= returned[x] \/ f.crossed)
  BY <1>3, <1>5 DEF CacheInv, TypeOK, OwnWritesSeen
<1>9. Got(t, w, task[t].val) \in Task /\ TaskInv(Got(t, w, task[t].val))
  BY <1>4, GotTask, GotInv DEF CacheInv
<1> QED
  BY <1>3, <1>6, <1>7, <1>8, <1>9, TaskOnly DEF Fill

LEMMA ToIdleStep ==
    ASSUME CacheInv, NEW t \in Tasks, FetchFails(t) \/ Finish(t)
    PROVE  CacheInv'
BY IdleTask, IdleInv, TaskAndCacheOnly DEF FetchFails, Finish

(* What is left of the cache after an invalidation is fit to be served. *)
LEMMA WithoutOk ==
    ASSUME CacheInv, NEW ws, cache' = Without(cache, ws)
    PROVE  /\ cache' \in [Writers -> SUBSET Entry]
           /\ \A w \in Writers : \A d, e \in cache'[w] : d = e
           /\ \A w \in Writers : \A e \in cache'[w] : w \notin ws /\ e \in cache[w]
           /\ \A w \in Writers : \A e \in cache'[w] : Fresh(e) =>
                 e.gone <= Latency + e.age /\ (e.val >= returned[w] \/ e.crossed)
<1>1. cache' \in [Writers -> SUBSET Entry]
  BY DEF Without, CacheInv, TypeOK
<1>2. \A w \in Writers : \A e \in cache'[w] : w \notin ws /\ e \in cache[w]
  BY DEF Without
<1>3. \A w \in Writers : \A d, e \in cache'[w] : d = e
  BY <1>2 DEF CacheInv, TypeOK
<1> QED
  BY <1>1, <1>2, <1>3 DEF CacheInv, OwnWritesSeen

LEMMA SetPointerStep ==
    ASSUME CacheInv, NEW t \in Tasks, NEW w \in Writers, SetPointer(t, w)
    PROVE  CacheInv'
<1> DEFINE S == {s \in task[t].seen : s[1] = w}
           r == [task[t] EXCEPT !.pc = "set", !.w = {w}, !.seen = S]
<1>1. task[t] \in Task /\ TaskInv(task[t]) /\ task[t].pc = "got"
  BY DEF CacheInv, TypeOK, SetPointer, At
<1>2. S \subseteq task[t].seen /\ Of(S) \subseteq {w}
  BY DEF Of
<1>3. /\ Step(t, r) /\ cache' = Without(cache, {w})
      /\ UNCHANGED <<serverVars, ghostVars>>
  BY DEF SetPointer
<1> HIDE DEF S
<1>4. r \in Task
  BY <1>1, <1>2 DEF Task, Pcs
<1>5. \A x \in Of(S) : task[t].made <= server[x]
  BY <1>1, <1>2 DEF TaskInv, Of
<1>6. TaskInv(r)
  BY <1>1, <1>2, <1>5 DEF TaskInv, Fetching, Task
<1> HIDE DEF r
<1> QED
  BY <1>3, <1>4, <1>6, WithoutOk, TaskOnly

LEMMA SetPointersStep ==
    ASSUME CacheInv, NEW t \in Tasks, SetPointers(t)
    PROVE  CacheInv'
<1> DEFINE r == [task[t] EXCEPT !.pc = "setAll", !.w = Writers]
<1>1. task[t] \in Task /\ TaskInv(task[t]) /\ task[t].pc = "got"
  BY DEF CacheInv, TypeOK, SetPointers, At
<1>2. Of(task[t].seen) \subseteq Writers
  BY <1>1 DEF Of, Task
<1>3. r \in Task
  BY <1>1 DEF Task, Pcs
<1>4. TaskInv(r)
  BY <1>1, <1>2 DEF TaskInv, Fetching, Task
<1> QED
  BY <1>3, <1>4, WithoutOk, TaskOnly DEF SetPointers

(* A commit numbers the pointers it sets higher than any before. *)
LEMMA SetServerGrows ==
    ASSUME TypeOK, NEW ws, SetServer(ws)
    PROVE  /\ commits' \in Versions
           /\ server' \in [Writers -> 0..commits']
           /\ \A w \in Writers : server[w] <= server'[w]
           /\ \A w \in Writers : w \in ws => server'[w] = commits'
<1>1. commits \in Nat /\ commits' = commits + 1 /\ commits' \in Versions
  BY ConstantsAssumption DEF SetServer, TypeOK, Versions
<1>2. server' = [w \in Writers |-> IF w \in ws THEN commits' ELSE server[w]]
  BY DEF SetServer
<1> QED
  BY <1>1, <1>2 DEF TypeOK

(* The pointers may only grow under the tasks' feet. *)
LEMMA TaskInvGrows ==
    ASSUME CacheInv, NEW x \in Tasks, TypeOK',
           \A w \in Writers : server[w] <= server'[w],
           UNCHANGED returned, task'[x] = task[x]
    PROVE  TaskInv(task[x])'
<1>1. task[x] \in Task /\ TaskInv(task[x])
  BY DEF CacheInv, TypeOK
<1>2. \A w \in Of(task[x].seen) : task[x].made <= server'[w]
  <2> TAKE w \in Of(task[x].seen)
  <2>1. w \in Writers
    BY <1>1 DEF Of, Task
  <2>2. task[x].made \in Nat /\ server[w] \in Nat /\ server'[w] \in Nat
    BY <1>1, <2>1, ConstantsAssumption DEF Task, Versions, CacheInv, TypeOK
  <2>3. task[x].made <= server[w] /\ server[w] <= server'[w]
    BY <1>1, <2>1 DEF TaskInv
  <2> QED
    BY <2>2, <2>3
<1> QED
  BY <1>1, <1>2 DEF TaskInv, Fetching, Of

LEMMA ServerMoves ==
    ASSUME CacheInv, TypeOK', UNCHANGED <<cache, returned>>,
           \A w \in Writers : server[w] <= server'[w],
           \A x \in Tasks : task'[x] = task[x] \/ TaskInv(task[x])'
    PROVE  CacheInv'
<1>1. \A x \in Tasks : TaskInv(task[x])'
  BY TaskInvGrows
<1>2. (\A w \in Writers : returned[w] <= server[w])'
  <2> SUFFICES ASSUME NEW w \in Writers PROVE returned[w] <= server'[w]
    OBVIOUS
  <2>1. returned[w] \in Nat /\ server[w] \in Nat /\ server'[w] \in Nat
    BY ConstantsAssumption DEF Versions, CacheInv, TypeOK
  <2> QED
    BY <2>1 DEF CacheInv
<1>3. OwnWritesSeen'
  BY DEF CacheInv, OwnWritesSeen, Fresh
<1>4. (\A w \in Writers : \A e \in cache[w] : Fresh(e) => e.gone <= Latency + e.age)'
  BY DEF CacheInv, Fresh
<1> QED
  BY <1>1, <1>2, <1>3, <1>4 DEF CacheInv

LEMMA OtherDeviceStep ==
    ASSUME CacheInv, NEW w \in Writers, OtherDevice(w)
    PROVE  CacheInv'
<1>1. TypeOK'
  BY SetServerGrows DEF OtherDevice, CacheInv, TypeOK
<1> QED
  BY <1>1, SetServerGrows, ServerMoves DEF OtherDevice, CacheInv

LEMMA RaisedType ==
    ASSUME NEW f \in [Writers -> Versions], NEW ws, NEW v \in Versions
    PROVE  Raised(f, ws, v) \in [Writers -> Versions]
BY DEF Raised

LEMMA BulkCommitStep ==
    ASSUME CacheInv, NEW t \in Tasks, BulkCommit(t)
    PROVE  CacheInv'
<1>1. TypeOK /\ SetServer(Of(task[t].seen)) /\ Step(t, Idle)
  BY DEF CacheInv, BulkCommit
<1>2. task' = [x \in Tasks |-> IF x = t THEN Idle ELSE task[x]]
  BY <1>1, StepOne
<1>3. /\ commits' \in Versions /\ server' \in [Writers -> 0..commits']
      /\ \A w \in Writers : server[w] <= server'[w]
  BY <1>1, SetServerGrows
<1>4. written' \in [Writers -> Versions]
  BY <1>1, <1>3, RaisedType DEF BulkCommit, TypeOK
<1>5. TypeOK'
  BY <1>1, <1>2, <1>3, <1>4, IdleTask DEF TypeOK, BulkCommit
<1>6. TaskInv(task[t])'
  BY <1>2 DEF TaskInv, Idle, Of, Fetching
<1> QED
  BY <1>2, <1>3, <1>5, <1>6, ServerMoves DEF BulkCommit

LEMMA ServerSetsStep ==
    ASSUME CacheInv, NEW t \in Tasks, ServerSets(t)
    PROVE  CacheInv'
<1> DEFINE q == IF task[t].pc = "set" THEN "drop" ELSE "dropAll"
<1>1. TypeOK /\ task[t] \in Task /\ TaskInv(task[t]) /\ task[t].pc \in {"set", "setAll"}
  BY DEF CacheInv, TypeOK, ServerSets, At
<1>2. UNCHANGED <<cache, returned, written>>
  BY DEF ServerSets
<1>3. Of(task[t].seen) \subseteq Writers
  BY <1>1 DEF Of, Task
<1>4. CASE /\ SetServer(Of(task[t].seen))
           /\ Step(t, [task[t] EXCEPT !.pc = q, !.made = commits'])
  <2>1. /\ commits' \in Versions /\ server' \in [Writers -> 0..commits']
        /\ \A w \in Writers : server[w] <= server'[w]
        /\ \A w \in Of(task[t].seen) : server'[w] = commits'
    BY <1>1, <1>3, <1>4, SetServerGrows
  <2>2. task'[t] = [task[t] EXCEPT !.pc = q, !.made = commits']
    BY <1>1, <1>4 DEF TypeOK, Step
  <2>3. \A x \in Tasks : x # t => task'[x] = task[x]
    BY <1>1, <1>4 DEF TypeOK, Step
  <2>4. task'[t] \in Task /\ task'[t].pc \in {"drop", "dropAll"} /\ task'[t].made = commits'
        /\ task'[t].seen = task[t].seen /\ task'[t].w = task[t].w /\ task'[t].gone = task[t].gone
    BY <1>1, <2>1, <2>2 DEF Task, Pcs
  <2>5. task' \in [Tasks -> Task]
    BY <1>1, <1>4, <2>3, <2>4 DEF TypeOK, Step
  <2>6. TypeOK'
    BY <1>1, <1>2, <2>1, <2>5 DEF TypeOK
  <2>7. commits' <= commits'
    BY <2>1, ConstantsAssumption DEF Versions
  <2>8. TaskInv(task[t])'
    BY <1>1, <2>1, <2>4, <2>7 DEF TaskInv, Fetching, Of
  <2> QED
    BY <1>2, <2>1, <2>3, <2>6, <2>8, ServerMoves
<1>5. CASE Step(t, [task[t] EXCEPT !.pc = q]) /\ UNCHANGED serverVars
  <2> DEFINE r == [task[t] EXCEPT !.pc = q]
  <2>1. r \in Task /\ r.pc \in {"drop", "dropAll"}
    BY <1>1 DEF Task, Pcs
  <2>2. TaskInv(r)
    BY <1>1, <2>1 DEF TaskInv, Fetching, Task
  <2> HIDE DEF r
  <2> QED
    BY <1>2, <1>5, <2>1, <2>2, TaskAndCacheOnly DEF ghostVars, r
<1> QED
  BY <1>4, <1>5 DEF ServerSets

(* What a fetch in flight becomes when a write returns. *)
LEMMA CrossingType ==
    ASSUME NEW r \in Task, NEW ws
    PROVE  /\ Crossing(ws, r) \in Task
           /\ r.pc # "fill" => Crossing(ws, r) = r
           /\ r.pc = "fill" /\ r.w \subseteq ws => Crossing(ws, r) = [r EXCEPT !.crossed = TRUE]
           /\ ~(r.w \subseteq ws) => Crossing(ws, r) = r
BY DEF Crossing, Task

LEMMA ReturnsStep ==
    ASSUME CacheInv, NEW t \in Tasks, Returns(t), NEW ws,
           Of(task[t].seen) \subseteq ws, cache' = Without(cache, ws)
    PROVE  CacheInv'
<1> DEFINE S == Of(task[t].seen)
           m == task[t].made
<1>1. /\ TypeOK /\ UNCHANGED <<server, commits>>
      /\ returned' = Raised(returned, S, m) /\ written' = Raised(written, S, m)
      /\ task' = [x \in Tasks |-> IF x = t THEN Idle ELSE Crossing(S, task[x])]
  BY DEF CacheInv, Returns, serverVars
<1>2. m \in Versions /\ S \subseteq Writers /\ \A w \in S : m <= server[w]
  BY <1>1 DEF CacheInv, TypeOK, Task, TaskInv, Of
<1> HIDE DEF S, m
<1>3. returned' \in [Writers -> Versions] /\ written' \in [Writers -> Versions]
  BY <1>1, <1>2, RaisedType DEF TypeOK
<1>4. \A w \in Writers : w \notin S => returned'[w] = returned[w]
  BY <1>1 DEF Raised
<1>5. \A w \in Writers : returned'[w] <= server[w]
  BY <1>1, <1>2 DEF Raised, CacheInv
<1>6. /\ cache' \in [Writers -> SUBSET Entry]
      /\ \A w \in Writers : \A d, e \in cache'[w] : d = e
      /\ \A w \in Writers : \A e \in cache'[w] : w \notin ws
      /\ \A w \in Writers : \A e \in cache'[w] : Fresh(e) =>
            e.gone <= Latency + e.age /\ (e.val >= returned[w] \/ e.crossed)
  BY WithoutOk
<1>7. task' \in [Tasks -> Task]
  BY <1>1, IdleTask, CrossingType DEF TypeOK
<1>8. TypeOK'
  BY <1>1, <1>3, <1>6, <1>7 DEF TypeOK
<1>9. OwnWritesSeen'
  BY <1>4, <1>6 DEF OwnWritesSeen, Fresh, S
<1>10. ASSUME NEW x \in Tasks PROVE TaskInv(task[x])'
  <2>1. CASE x = t
    BY <1>1, <2>1 DEF TaskInv, Idle, Of, Fetching
  <2>2. CASE x # t
    <3> DEFINE r == task[x]
    <3>1. r \in Task /\ TaskInv(r) /\ task'[x] = Crossing(S, r)
      BY <1>1, <2>2 DEF CacheInv, TypeOK
    <3> HIDE DEF r
    <3>2. CASE r.pc = "fill" /\ r.w \subseteq S
      <4>1. task'[x] = [r EXCEPT !.crossed = TRUE]
        BY <3>1, <3>2, CrossingType
      <4> QED
        BY <1>1, <3>1, <3>2, <4>1 DEF TaskInv, Task, Fetching, Of
    <3>3. CASE r.pc # "fill"
      <4>1. task'[x] = r
        BY <3>1, <3>3, CrossingType
      <4> QED
        BY <1>1, <3>1, <3>3, <4>1 DEF TaskInv, Task, Fetching, Of
    <3>4. CASE r.pc = "fill" /\ ~(r.w \subseteq S)
      <4>1. task'[x] = r
        BY <3>1, <3>4, CrossingType
      <4>2. PICK w \in Writers : r.w = {w} /\ w \notin S
        BY <3>1, <3>4 DEF TaskInv, Fetching
      <4>3. \A y \in r.w : r.val >= returned'[y] \/ r.crossed
        BY <1>4, <3>1, <3>4, <4>2 DEF TaskInv
      <4> QED
        BY <1>1, <3>1, <3>4, <4>1, <4>3 DEF TaskInv, Task, Fetching, Of
    <3> QED
      BY <3>2, <3>3, <3>4
  <2> QED
    BY <2>1, <2>2
<1> QED
  BY <1>1, <1>5, <1>6, <1>8, <1>9, <1>10 DEF CacheInv, Fresh

LEMMA DropStep ==
    ASSUME CacheInv, NEW t \in Tasks, Drop(t) \/ DropAll(t)
    PROVE  CacheInv'
<1>1. task[t] \in Task /\ TaskInv(task[t])
  BY DEF CacheInv, TypeOK
<1>2. CASE Drop(t)
  <2>1. Of(task[t].seen) \subseteq task[t].w
    BY <1>1, <1>2 DEF TaskInv, Drop, At
  <2> QED
    BY <1>2, <2>1, ReturnsStep DEF Drop
<1>3. CASE DropAll(t)
  <2>1. Of(task[t].seen) \subseteq Writers
    BY <1>1 DEF Task, Of
  <2> QED
    BY <1>3, <2>1, ReturnsStep DEF DropAll
<1> QED
  BY <1>2, <1>3

-----------------------------------------------------------------------------
(* Time. *)

LEMMA OlderBounds ==
    ASSUME NEW cap \in Nat, NEW age \in 0..cap
    PROVE  /\ Older(age, cap) \in 0..cap /\ age <= Older(age, cap)
           /\ Older(age, cap) <= age + 1
           /\ Older(age, cap) < cap => Older(age, cap) = age + 1
BY DEF Older

LEMMA GoneBounds ==
    ASSUME NEW ws, NEW r, r.gone \in 0..Oldest
    PROVE  Gone(ws, r) \in 0..Oldest /\ Gone(ws, r) <= r.gone + 1
<1>1. Oldest \in Nat
  BY ConstantsAssumption DEF Oldest
<1>2. Older(r.gone, Oldest) \in 0..Oldest /\ Older(r.gone, Oldest) <= r.gone + 1
  BY <1>1, OlderBounds
<1> QED
  BY <1>1, <1>2 DEF Gone

(* An entry a unit of time later. *)
LEMMA EntryAges ==
    ASSUME NEW e \in Entry, NEW w
    PROVE  LET f == [e EXCEPT !.age = Older(@, TTL), !.gone = Gone({w}, e)]
           IN  /\ f \in Entry /\ f.val = e.val /\ f.crossed = e.crossed
               /\ Fresh(f) => Fresh(e) /\ f.age = e.age + 1 /\ f.gone <= e.gone + 1
<1> DEFINE a == Older(e.age, TTL)
           g == Gone({w}, e)
           f == [e EXCEPT !.age = a, !.gone = g]
<1>1. e.age \in 0..TTL /\ e.gone \in 0..Oldest /\ TTL \in Nat
  BY ConstantsAssumption DEF Entry
<1>2. a \in 0..TTL /\ e.age <= a /\ (a < TTL => a = e.age + 1)
  BY <1>1, OlderBounds
<1>3. g \in 0..Oldest /\ g <= e.gone + 1
  BY <1>1, GoneBounds
<1> HIDE DEF a, g
<1>4. f \in Entry /\ f.val = e.val /\ f.crossed = e.crossed /\ f.age = a /\ f.gone = g
  BY <1>2, <1>3 DEF Entry
<1>5. Fresh(f) => Fresh(e) /\ f.age = e.age + 1 /\ f.gone <= e.gone + 1
  BY <1>1, <1>2, <1>3, <1>4 DEF Fresh
<1> QED
  BY <1>4, <1>5 DEF a, g

(* A task a unit of time later. *)
LEMMA TaskWaits ==
    ASSUME NEW r \in Task, TaskInv(r), Fetching(r) => r.age < Latency
    PROVE  Waited(r) \in Task /\ TaskInv(Waited(r))
<1>1. CASE ~Fetching(r)
  BY <1>1 DEF Waited
<1>2. CASE r.pc = "fetch"
  <2>1. Waited(r) = [r EXCEPT !.age = r.age + 1]
    BY <1>2 DEF Waited, Fetching, Task
  <2>2. r.age + 1 \in 0..Latency
    BY <1>2, ConstantsAssumption DEF Task, Fetching
  <2> QED
    BY <1>2, <2>1, <2>2 DEF Task, TaskInv, Fetching
<1>3. CASE r.pc = "fill"
  <2> DEFINE g == Gone(r.w, r)
  <2>1. Waited(r) = [r EXCEPT !.age = r.age + 1, !.gone = g]
    BY <1>3 DEF Waited, Fetching
  <2>2. r.age \in Nat /\ r.age + 1 \in 0..Latency /\ r.gone \in 0..Oldest /\ Oldest \in Nat
    BY <1>3, ConstantsAssumption DEF Task, Fetching, Oldest
  <2>3. g \in 0..Oldest /\ g <= r.gone + 1
    BY <2>2, GoneBounds
  <2> HIDE DEF g
  <2>4. g <= r.age + 1
    BY <1>3, <2>2, <2>3 DEF TaskInv
  <2> QED
    BY <1>3, <2>1, <2>2, <2>3, <2>4 DEF Task, TaskInv, Fetching
<1> QED
  BY <1>1, <1>2, <1>3 DEF Fetching

LEMMA TickStep ==
    ASSUME CacheInv, Tick
    PROVE  CacheInv'
<1> DEFINE Aged(e, w) == [e EXCEPT !.age = Older(@, TTL), !.gone = Gone({w}, e)]
<1>1. /\ cache' = [w \in Writers |-> {Aged(e, w) : e \in cache[w]}]
      /\ task' = [t \in Tasks |-> Waited(task[t])]
      /\ UNCHANGED <<server, commits, returned, written>>
      /\ \A t \in Tasks : Fetching(task[t]) => task[t].age < Latency
  BY DEF Tick, serverVars
<1>2. \A w \in Writers : \A e \in cache[w] :
         /\ Aged(e, w) \in Entry /\ Aged(e, w).val = e.val /\ Aged(e, w).crossed = e.crossed
         /\ Fresh(Aged(e, w)) => /\ Fresh(e) /\ Aged(e, w).age = e.age + 1
                                 /\ Aged(e, w).gone <= e.gone + 1
  BY EntryAges DEF CacheInv, TypeOK
<1> HIDE DEF Aged
<1>3. cache' \in [Writers -> SUBSET Entry] /\ \A w \in Writers : \A d, e \in cache'[w] : d = e
  BY <1>1, <1>2 DEF CacheInv, TypeOK
<1>4. \A w \in Writers : \A f \in cache'[w] : Fresh(f) =>
         f.gone <= Latency + f.age /\ (f.val >= returned[w] \/ f.crossed)
  <2> SUFFICES ASSUME NEW w \in Writers, NEW f \in cache'[w], Fresh(f)
               PROVE  f.gone <= Latency + f.age /\ (f.val >= returned[w] \/ f.crossed)
    OBVIOUS
  <2>1. PICK e \in cache[w] : f = Aged(e, w)
    BY <1>1
  <2>2. e.gone <= Latency + e.age /\ (e.val >= returned[w] \/ e.crossed) /\ e \in Entry
    BY <1>2, <2>1 DEF CacheInv, TypeOK, OwnWritesSeen
  <2>3. f.age = e.age + 1 /\ f.gone <= e.gone + 1 /\ f.gone \in Nat /\ e.gone \in Nat /\ e.age \in Nat
    BY <1>2, <2>1, <2>2, ConstantsAssumption DEF Entry, Oldest
  <2> QED
    BY <1>2, <2>1, <2>2, <2>3, ConstantsAssumption
<1>5. \A t \in Tasks : Waited(task[t]) \in Task /\ TaskInv(Waited(task[t]))
  BY <1>1, TaskWaits DEF CacheInv, TypeOK
<1>6. TypeOK'
  BY <1>1, <1>3, <1>5 DEF CacheInv, TypeOK
<1>7. \A t \in Tasks : TaskInv(task'[t])
  BY <1>1, <1>5
<1>8. \A t \in Tasks : TaskInv(task[t])'
  BY <1>1, <1>7 DEF TaskInv, Fetching, Of
<1>9. OwnWritesSeen'
  BY <1>1, <1>4 DEF OwnWritesSeen, Fresh
<1> QED
  BY <1>1, <1>4, <1>6, <1>8, <1>9 DEF CacheInv, Fresh

-----------------------------------------------------------------------------
(* The inductive argument. *)

LEMMA InitHolds == Init => CacheInv
<1> SUFFICES ASSUME Init PROVE CacheInv
  OBVIOUS
<1>1. TypeOK
  BY IdleTask, ConstantsAssumption DEF Init, TypeOK, Versions
<1>2. \A t \in Tasks : TaskInv(task[t])
  BY DEF Init, TaskInv, Idle, Of, Fetching
<1> QED
  BY <1>1, <1>2 DEF Init, CacheInv, OwnWritesSeen

LEMMA NextKeeps == CacheInv /\ [Next]_vars => CacheInv'
<1> SUFFICES ASSUME CacheInv, [Next]_vars PROVE CacheInv'
  OBVIOUS
<1>1. ASSUME NEW t \in Tasks, TaskStep(t) PROVE CacheInv'
  <2>1. Uses[t] \subseteq Writers
    BY ConstantsAssumption
  <2>2. ASSUME NEW w \in Uses[t], Hit(t, w) PROVE CacheInv'
    BY <2>1, <2>2, HitStep
  <2>3. ASSUME NEW w \in Uses[t], Miss(t, w) PROVE CacheInv'
    BY <2>1, <2>3, MissStep
  <2>4. ASSUME NEW w \in Uses[t], SetPointer(t, w) PROVE CacheInv'
    BY <2>1, <2>4, SetPointerStep
  <2> QED
    BY <1>1, <2>2, <2>3, <2>4, AnswerStep, FillStep, ToIdleStep, SetPointersStep,
       ServerSetsStep, DropStep, BulkCommitStep DEF TaskStep
<1>2. ASSUME NEW w \in Shared, OtherDevice(w) PROVE CacheInv'
  BY <1>2, OtherDeviceStep, ConstantsAssumption
<1>3. CASE UNCHANGED vars
  BY <1>3 DEF vars, serverVars, CacheInv, TypeOK, OwnWritesSeen, TaskInv, Fresh, Fetching, Of
<1> QED
  BY <1>1, <1>2, <1>3, TickStep DEF Next

(* CachedMutablePointers and its callers keep CacheInv, whatever the number  *)
(* of writers and tasks and whatever the TTL and the fetch timeout.          *)
THEOREM CacheAlways == Spec => []CacheInv
BY InitHolds, NextKeeps, PTL DEF Spec

(* A pointer the cache serves was current less than the TTL plus one fetch   *)
(* timeout ago.                                                              *)
THEOREM StalenessAlwaysBounded == Spec => []BoundedStaleness
<1>1. CacheInv => BoundedStaleness
  <2> SUFFICES ASSUME CacheInv, NEW w \in Writers, NEW e \in cache[w], Fresh(e)
               PROVE  e.gone < TTL + Latency
    BY DEF BoundedStaleness
  <2>1. e.gone <= Latency + e.age /\ e.age < TTL /\ e.gone \in Nat /\ e.age \in Nat
    BY ConstantsAssumption DEF CacheInv, TypeOK, Entry, Fresh, Oldest
  <2> QED
    BY <2>1, ConstantsAssumption
<1> QED
  BY <1>1, CacheAlways, PTL

(* After set_pointer or set_pointers returned, the cache serves an older     *)
(* value of the pointer only when a fetch answered before the write was      *)
(* delivered after it.                                                       *)
THEOREM OwnWritesAlwaysSeen == Spec => []OwnWritesSeen
<1>1. CacheInv => OwnWritesSeen
  BY DEF CacheInv
<1> QED
  BY <1>1, CacheAlways, PTL
=============================================================================
