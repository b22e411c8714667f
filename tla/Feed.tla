--------------------------------- MODULE Feed ---------------------------------
(* The social feed (crates/peergos-fs/src/feed.rs): the files feed.cbor, its index
   feed-index.cbor and feed-state.cbor, and the sessions that have the state in
   memory.  Adding to the feed replaces the three files one after the other.
   Records are counted where the index counts bytes. *)
EXTENDS CapStreams, TLC

CONSTANTS
    Comments,     \* the paths that hold a comment on a post of ours
    Sessions,
    MaxOpen,      \* sessions open at the same time
    MaxPosts,     \* posts of our own
    MaxFaults     \* operations cut short

VARIABLES
    data,         \* feed.cbor: the items
    index,        \* feed-index.cbor: for each record, where it starts
    replies,      \* the comments merged into our post
    state,        \* feed-state.cbor
    sess,         \* each session: its copy of the state and what it is doing
    posts, faults,
    torn,         \* an operation ended between the first file and the last
    dropped       \* an operation failed after it had noted what it read

fvars == <<replies, data, index, state, sess, posts, faults, torn, dropped>>

NewState == [seen |-> 0, size |-> 0, r |-> 0, w |-> 0, gr |-> 0, gw |-> 0]
Closed == [at |-> "closed", st |-> NewState, items |-> <<>>, data |-> <<>>, index |-> <<>>]
Post == Cap("post", 0, FALSE)

FInit ==
    /\ FriendInit
    /\ replies = {} /\ data = <<>> /\ index = <<>> /\ state = NewState
    /\ sess = [s \in Sessions |-> Closed]
    /\ posts = 0 /\ faults = 0 /\ torn = FALSE /\ dropped = FALSE

Go(s, step) == sess' = [sess EXCEPT ![s] = step @@ @]

\* create: it goes on to update.
Create(s) ==
    /\ sess[s].at = "closed"
    /\ Cardinality({t \in Sessions : sess[t].at # "closed"}) < MaxOpen
    /\ Go(s, [at |-> "update", st |-> state])
    /\ UNCHANGED <<friend, replies, data, index, state, posts, faults, torn, dropped>>

Idle(s) == sess[s].at = "idle"

BeginUpdate(s) ==
    /\ Idle(s)
    /\ Go(s, [at |-> "update"])
    /\ UNCHANGED <<friend, replies, data, index, state, posts, faults, torn, dropped>>

After(q, n) == SubSeq(q, n + 1, Len(q))
LoadNew(dir, r, w) == SelectSeq(After(dir.r, r) \o After(dir.w, w), Resolves)
IsGroup(c) == c.at = Group
IsItem(c) == c.at # Group

NewlySent(st) == LoadNew(friend.out, st.r, st.w)

\* The groups that are read are those sent since the last time.
FoundGroup(st) == SelectSeq(NewlySent(st), IsGroup) # <<>>

NewItems(st) ==
    SelectSeq(NewlySent(st), IsItem) \o IF FoundGroup(st) THEN LoadNew(friend.group, st.gr, st.gw) ELSE <<>>

Noted(st) ==
    [st EXCEPT !.r = Len(friend.out.r), !.w = Len(friend.out.w),
               !.gr = IF FoundGroup(st) THEN Len(friend.group.r) ELSE @,
               !.gw = IF FoundGroup(st) THEN Len(friend.group.w) ELSE @]

\* What was read is noted in memory; if it is nothing, the state is not saved.
Update(s) ==
    /\ sess[s].at = "update"
    /\ \E items \in {NewItems(sess[s].st)} :
          Go(s, [at |-> IF items = <<>> THEN "idle" ELSE "merge", st |-> Noted(sess[s].st), items |-> items])
    /\ UNCHANGED <<friend, replies, data, index, state, posts, faults, torn, dropped>>

\* create_new_post, once the post is stored.
CreateNewPost(s) ==
    /\ Idle(s) /\ posts < MaxPosts
    /\ posts' = posts + 1
    /\ Go(s, [at |-> "merge", items |-> <<Post>>])
    /\ UNCHANGED <<friend, replies, data, index, state, faults, torn, dropped>>

SetLastSeenIndex(s) ==
    /\ Idle(s) /\ sess[s].st.seen # sess[s].st.size
    /\ state' = [sess[s].st EXCEPT !.seen = sess[s].st.size]
    /\ Go(s, [st |-> state'])
    /\ UNCHANGED <<friend, replies, data, index, posts, faults, torn, dropped>>

-----------------------------------------------------------------------------
(* add_to_feed *)
MergeInComments(s) ==
    /\ sess[s].at = "merge"
    /\ replies' = replies \union {c \in ToSet(sess[s].items) : c.at \in Comments /\ Resolves(c)}
    /\ Go(s, [at |-> "read"])
    /\ UNCHANGED <<friend, data, index, state, posts, faults, torn, dropped>>

ReadFeed(s) ==
    /\ sess[s].at = "read"
    /\ Go(s, [at |-> "data", data |-> data \o sess[s].items,
              index |-> index \o [i \in 1..Len(sess[s].items) |-> Len(data) + i]])
    /\ UNCHANGED <<friend, replies, data, index, state, posts, faults, torn, dropped>>

PutData(s) ==
    /\ sess[s].at = "data"
    /\ data' = sess[s].data
    /\ Go(s, [at |-> "index"])
    /\ UNCHANGED <<friend, replies, index, state, posts, faults, torn, dropped>>

PutIndex(s) ==
    /\ sess[s].at = "index"
    /\ index' = sess[s].index
    /\ Go(s, [at |-> "state"])
    /\ UNCHANGED <<friend, replies, data, state, posts, faults, torn, dropped>>

WriteState(s) ==
    /\ sess[s].at = "state"
    /\ state' = [sess[s].st EXCEPT !.size = @ + Len(sess[s].items)]
    /\ Go(s, [at |-> "idle", st |-> state', items |-> <<>>, data |-> <<>>, index |-> <<>>])
    /\ UNCHANGED <<friend, replies, data, index, posts, faults, torn, dropped>>

\* An error is returned, and the session goes on with the state it has; or the
\* program ends.
Fail(s) ==
    /\ sess[s].at \notin {"closed", "idle"} /\ faults < MaxFaults
    /\ \/ /\ Go(s, [Closed EXCEPT !.at = "idle", !.st = sess[s].st])
          /\ dropped' = (dropped \/ \E i \in 1..Len(sess[s].items) : sess[s].items[i] # Post)
       \/ Go(s, Closed) /\ UNCHANGED dropped
    /\ torn' = (torn \/ sess[s].at \in {"index", "state"})
    /\ faults' = faults + 1
    /\ UNCHANGED <<friend, replies, data, index, state, posts>>

Close(s) ==
    /\ Idle(s)
    /\ Go(s, Closed)
    /\ UNCHANGED <<friend, replies, data, index, state, posts, faults, torn, dropped>>

FNext ==
    \/ FriendNext /\ UNCHANGED fvars
    \/ \E s \in Sessions :
          \/ Create(s) \/ BeginUpdate(s) \/ Update(s) \/ CreateNewPost(s) \/ SetLastSeenIndex(s)
          \/ MergeInComments(s) \/ ReadFeed(s) \/ PutData(s) \/ PutIndex(s) \/ WriteState(s) \/ Fail(s) \/ Close(s)

FSpec == FInit /\ [][FNext]_<<friend, fvars>>

-----------------------------------------------------------------------------
Least(a, b) == IF a < b THEN a ELSE b

\* get_shared: the records from one place to another, found by the index.
GetShared(st, from, to) ==
    LET start == IF from + 1 \in DOMAIN index THEN index[from + 1] ELSE from + 1
        want == Least(st.size, to) - from
    IN SubSeq(data, start, Least(start + want - 1, Len(data)))

InFeed(c) == c \in ToSet(data)
TakenIn(dir, r, w) ==
    /\ \A i \in 1..r : IsItem(dir.r[i]) /\ Resolves(dir.r[i]) => InFeed(dir.r[i])
    /\ \A i \in 1..w : Resolves(dir.w[i]) => InFeed(dir.w[i])

(* Whatever is before a saved position is in feed.cbor, and a comment that is there
   was merged into its post, also after the program ended half-way (add_to_feed).
   Not after an operation failed: the session goes on with the positions it noted and
   without the items.  Nor when the friend made a new directory: the positions are
   kept. *)
NothingForgotten ==
    friend.dir = 1 /\ ~dropped =>
        /\ TakenIn(friend.out, state.r, state.w)
        /\ TakenIn(friend.group, state.gr, state.gw)
        /\ \A c \in ToSet(data) : c.at \in Comments /\ Resolves(c) => c \in replies

(* From whichever record a reader starts, get_shared finds the rest of the feed: the
   index, the state and the data agree.  Not once an operation ended between the
   three files, and with one session at a time. *)
RecordsAligned ==
    ~torn => \A s \in Sessions : Idle(s) =>
        \A from \in 0..sess[s].st.size : GetShared(sess[s].st, from, sess[s].st.size) = After(data, from)
=============================================================================
