---------------------------- MODULE PointerCache ----------------------------
(* CachedMutablePointers, in a session whose concurrent tasks share it (a    *)
(* UserContext with session caches), between them and a server that other    *)
(* devices write to as well.                                                 *)
(*                                                                           *)
(* A pointer's value is the number of the commit that set it.  A task's      *)
(* operation reads the pointers it needs and may then write: through the     *)
(* cache, or in a bulk commit of a BufferedNetwork built over it, which the  *)
(* storage layer sends and the pointer cache does not see.  Steps end where  *)
(* the code awaits.  Time is kept as ages: how long ago an entry was filled, *)
(* a fetch was sent, or a value was replaced on the server.                  *)
EXTENDS Naturals

CONSTANTS
    Writers,
    Tasks,
    Uses,         \* the writers each task works on
    Shared,       \* the writers other devices write to
    TTL,          \* how long an entry is served (7 s)
    Latency,      \* the longest a fetch takes before it times out (15 s)
    MaxCommits    \* bound: commits, by the session and by other devices

ASSUME ConstantsAssumption ==
    /\ Uses \in [Tasks -> SUBSET Writers] /\ Shared \subseteq Writers
    /\ TTL \in Nat \ {0} /\ Latency \in Nat /\ MaxCommits \in Nat

VARIABLES
    server,    \* the server: each writer's pointer
    commits,   \* how many commits it has taken
    cache,     \* the entry of each writer: none or one
    task,      \* what each task is doing
    returned,  \* ghost: our latest version set through the cache and returned
    written    \* ghost: our latest version, bulk commits included

serverVars == <<server, commits>>
vars == <<serverVars, cache, task, returned, written>>
ghostVars == <<returned, written>>

Versions == 0..MaxCommits

(* Ages stop where they no longer make a difference. *)
Oldest == TTL + Latency
Older(age, cap) == IF age < cap THEN age + 1 ELSE age

(* Ghosts: gone is how long ago the value stopped being the pointer; crossed *)
(* says that a write returned while the fetch held its answer.               *)
Entry == [val : Versions, age : 0..TTL, gone : 0..Oldest, crossed : BOOLEAN]

Pcs == {"idle", "fetch", "fill", "got", "set", "setAll", "drop", "dropAll"}

Idle == [pc |-> "idle", w |-> {}, val |-> 0, age |-> 0, gone |-> 0, crossed |-> FALSE,
         seen |-> {}, made |-> 0]

At(t, p) == task[t].pc = p

Step(t, r) == task' = [task EXCEPT ![t] = r]

-----------------------------------------------------------------------------
(* get_pointer. *)

(* Mutant: served for one unit of time too long. *)
FreshTooLong(e) == e.age <= TTL

Fresh(e) == e.age < TTL

(* The operation has the value, in place of what it read of w before. *)
Got(t, w, val) ==
    [Idle EXCEPT !.pc = "got", !.seen = {s \in task[t].seen : s[1] # w} \cup {<<w, val>>}]

Reading(t) == At(t, "idle") \/ At(t, "got")

(* Mutant: a hit starts the TTL again. *)
HitProlongs(t, w) ==
    /\ Reading(t)
    /\ \E e \in cache[w] : /\ Fresh(e) /\ Step(t, Got(t, w, e.val))
                          /\ cache' = [cache EXCEPT ![w] = {[e EXCEPT !.age = 0]}]
    /\ UNCHANGED <<serverVars, ghostVars>>

Hit(t, w) ==
    /\ Reading(t)
    /\ \E e \in cache[w] : Fresh(e) /\ Step(t, Got(t, w, e.val))
    /\ UNCHANGED <<serverVars, cache, ghostVars>>

Miss(t, w) ==
    /\ Reading(t)
    /\ \A e \in cache[w] : ~Fresh(e)
    /\ Step(t, [task[t] EXCEPT !.pc = "fetch", !.w = {w}])
    /\ UNCHANGED <<serverVars, cache, ghostVars>>

(* The server answers, *)
Answer(t) ==
    /\ At(t, "fetch")
    /\ \E w \in task[t].w : Step(t, [task[t] EXCEPT !.pc = "fill", !.val = server[w]])
    /\ UNCHANGED <<serverVars, cache, ghostVars>>

(* and the answer is put into the cache when it arrives, *)
Fill(t) ==
    /\ At(t, "fill")
    /\ \E w \in task[t].w :
          /\ cache' = [cache EXCEPT ![w] =
                {[val |-> task[t].val, age |-> 0, gone |-> task[t].gone,
                  crossed |-> task[t].crossed]}]
          /\ Step(t, Got(t, w, task[t].val))
    /\ UNCHANGED <<serverVars, ghostVars>>

(* unless it is lost or too late. *)
FetchFails(t) ==
    /\ At(t, "fetch") \/ At(t, "fill")
    /\ Step(t, Idle)
    /\ UNCHANGED <<serverVars, cache, ghostVars>>

Finish(t) ==
    /\ At(t, "got")
    /\ Step(t, Idle)
    /\ UNCHANGED <<serverVars, cache, ghostVars>>

-----------------------------------------------------------------------------
(* Writing. *)

(* What the server does with an update of every pointer in seen: all or none. *)
CasOk(seen) == \A s \in seen : s[2] = server[s[1]]

Of(seen) == {s[1] : s \in seen}

SetServer(ws) ==
    /\ commits < MaxCommits /\ commits' = commits + 1
    /\ server' = [w \in Writers |-> IF w \in ws THEN commits' ELSE server[w]]

Without(c, ws) == [w \in Writers |-> IF w \in ws THEN {} ELSE c[w]]

(* The first half of set_pointer, *)
SetPointer(t, w) ==
    /\ At(t, "got") /\ \E s \in task[t].seen : s[1] = w
    /\ cache' = Without(cache, {w})
    /\ Step(t, [task[t] EXCEPT !.pc = "set", !.w = {w}, !.seen = {s \in @ : s[1] = w}])
    /\ UNCHANGED <<serverVars, ghostVars>>

(* and of set_pointers. *)
SetPointers(t) ==
    /\ At(t, "got")
    /\ cache' = Without(cache, Writers)
    /\ Step(t, [task[t] EXCEPT !.pc = "setAll", !.w = Writers])
    /\ UNCHANGED <<serverVars, ghostVars>>

(* The server is asked to set the pointers; the request or the answer may be *)
(* lost.                                                                     *)
ServerSets(t) ==
    /\ At(t, "set") \/ At(t, "setAll")
    /\ \/ /\ CasOk(task[t].seen)
          /\ SetServer(Of(task[t].seen))
          /\ Step(t, [task[t] EXCEPT !.pc = IF @ = "set" THEN "drop" ELSE "dropAll",
                                     !.made = commits'])
       \/ /\ Step(t, [task[t] EXCEPT !.pc = IF @ = "set" THEN "drop" ELSE "dropAll"])
          /\ UNCHANGED serverVars
    /\ UNCHANGED <<cache, returned, written>>

Raised(latest, ws, v) ==
    [w \in Writers |-> IF w \in ws /\ v > latest[w] THEN v ELSE latest[w]]

(* A write of ws returned: fetches that hold an older answer were crossed. *)
Crossing(ws, r) ==
    IF r.pc = "fill" /\ r.w \subseteq ws THEN [r EXCEPT !.crossed = TRUE] ELSE r

Returns(t) ==
    /\ task' = [x \in Tasks |-> IF x = t THEN Idle ELSE Crossing(Of(task[t].seen), task[x])]
    /\ returned' = Raised(returned, Of(task[t].seen), task[t].made)
    /\ written' = Raised(written, Of(task[t].seen), task[t].made)
    /\ UNCHANGED serverVars

(* Mutant: invalidated before the write only. *)
DropOnce(t) ==
    /\ At(t, "drop") /\ Returns(t)
    /\ UNCHANGED cache

(* The second half of set_pointer, *)
Drop(t) ==
    /\ At(t, "drop") /\ Returns(t)
    /\ cache' = Without(cache, task[t].w)

(* and of set_pointers. *)
DropAll(t) ==
    /\ At(t, "dropAll") /\ Returns(t)
    /\ cache' = Without(cache, Writers)

(* A bulk commit that succeeds.  One that is refused goes on with SetPointer. *)
BulkCommit(t) ==
    /\ At(t, "got") /\ CasOk(task[t].seen)
    /\ SetServer(Of(task[t].seen))
    /\ written' = Raised(written, Of(task[t].seen), commits')
    /\ Step(t, Idle)
    /\ UNCHANGED <<cache, returned>>

(* Another device, or a write of ours the server applies after we gave up. *)
OtherDevice(w) ==
    /\ SetServer({w})
    /\ UNCHANGED <<cache, task, returned, written>>

-----------------------------------------------------------------------------
(* How long a value read of one of ws has been out of date. *)
Gone(ws, r) ==
    IF \A w \in ws : r.val = server[w] THEN r.gone ELSE Older(r.gone, Oldest)

Fetching(r) == r.pc \in {"fetch", "fill"}

Waited(r) ==
    IF ~Fetching(r) THEN r
    ELSE [r EXCEPT !.age = @ + 1, !.gone = IF r.pc = "fill" THEN Gone(r.w, r) ELSE @]

(* A unit of time passes.  A fetch that has taken as long as it may is over. *)
Tick ==
    /\ \A t \in Tasks : Fetching(task[t]) => task[t].age < Latency
    /\ cache' = [w \in Writers |->
                   {[e EXCEPT !.age = Older(@, TTL), !.gone = Gone({w}, e)] : e \in cache[w]}]
    /\ task' = [t \in Tasks |-> Waited(task[t])]
    /\ UNCHANGED <<serverVars, returned, written>>

Init ==
    /\ server = [w \in Writers |-> 0] /\ commits = 0
    /\ cache = [w \in Writers |-> {}]
    /\ task = [t \in Tasks |-> Idle]
    /\ returned = [w \in Writers |-> 0]
    /\ written = [w \in Writers |-> 0]

TaskStep(t) ==
    \/ \E w \in Uses[t] : Hit(t, w)
    \/ \E w \in Uses[t] : Miss(t, w)
    \/ \E w \in Uses[t] : SetPointer(t, w)
    \/ Answer(t)
    \/ Fill(t)
    \/ FetchFails(t)
    \/ Finish(t)
    \/ SetPointers(t)
    \/ ServerSets(t)
    \/ Drop(t)
    \/ DropAll(t)
    \/ BulkCommit(t)

Next ==
    \/ \E t \in Tasks : TaskStep(t)
    \/ \E w \in Shared : OtherDevice(w)
    \/ Tick

(* Time passes, and a fetch ends: it has a timeout. *)
Fairness ==
    /\ WF_vars(Tick)
    /\ \A t \in Tasks : WF_vars(Fill(t) \/ FetchFails(t))

Spec == Init /\ [][Next]_vars
FairSpec == Spec /\ Fairness

-----------------------------------------------------------------------------
(* Properties. *)

Task == [pc : Pcs, w : SUBSET Writers, val : Versions, age : 0..Latency,
         gone : 0..Oldest, crossed : BOOLEAN, seen : SUBSET (Writers \X Versions),
         made : Versions]

TypeOK ==
    /\ server \in [Writers -> 0..commits] /\ commits \in Versions
    /\ cache \in [Writers -> SUBSET Entry]
    /\ \A w \in Writers : \A d, e \in cache[w] : d = e
    /\ task \in [Tasks -> Task]
    /\ returned \in [Writers -> Versions] /\ written \in [Writers -> Versions]

(* How far behind the server a cached read can be, whoever wrote: a value    *)
(* the cache would serve was the pointer less than the TTL and one fetch     *)
(* ago.  (The TTL runs from when the answer arrived, not from when the       *)
(* server gave it.)                                                          *)
BoundedStaleness ==
    \A w \in Writers : \A e \in cache[w] :
        Fresh(e) => e.gone < TTL + Latency

(* What a write through set_pointer or set_pointers replaced is served       *)
(* afterwards only in one case: a fetch was answered before the write took   *)
(* effect and the write returned before the answer arrived.  The two         *)
(* invalidations cover every other order.                                    *)
OwnWritesSeen ==
    \A w \in Writers : \A e \in cache[w] :
        Fresh(e) => e.val >= returned[w] \/ e.crossed

(* What a task is in the middle of, as far as the two depend on it: a fetch  *)
(* is of one writer, and its answer is no staler than the fetch is old; a    *)
(* write drops the entries of every pointer it sets.                         *)
TaskInv(r) ==
    /\ r.pc \in {"idle", "got"} => r.age = 0
    /\ r.pc # "fill" => r.gone = 0
    /\ Fetching(r) => \E w \in Writers : r.w = {w}
    /\ r.pc = "fill" => /\ r.gone <= r.age
                       /\ \A w \in r.w : r.val >= returned[w] \/ r.crossed
    /\ r.pc \in {"set", "setAll", "drop", "dropAll"} => Of(r.seen) \subseteq r.w
    /\ r.pc \notin {"drop", "dropAll"} => r.made = 0
    /\ \A w \in Of(r.seen) : r.made <= server[w]

(* The inductive invariant behind BoundedStaleness and OwnWritesSeen.        *)
CacheInv ==
    /\ TypeOK /\ OwnWritesSeen
    /\ \A w \in Writers : returned[w] <= server[w]
    /\ \A w \in Writers : \A e \in cache[w] : Fresh(e) => e.gone <= Latency + e.age
    /\ \A t \in Tasks : TaskInv(task[t])

(* When the writes stop, the cache agrees with the server in the end, also   *)
(* if it is read all the time: a hit does not prolong an entry's life.       *)
Converges ==
    <>[](\A w \in Writers : \A e \in cache[w] : Fresh(e) => e.val = server[w])

(* "a read never serves a value we've since changed" *)
ReadsOwnWrites ==
    \A w \in Writers : \A e \in cache[w] : Fresh(e) => e.val >= written[w]

=============================================================================
