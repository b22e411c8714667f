------------------------------- MODULE Sharing -------------------------------
(* What one user shares, and takes back: the capabilities sent to friends and
   groups, the record of who was sent what, the rotation of keys that makes a
   capability useless, the removal of followers and the secret links
   (crates/peergos-fs/src/social.rs, context.rs, lib.rs, writing_space.rs).

   Only capabilities that still resolve are kept: rotating an item forgets its
   capabilities wherever they are.  box[n] is the directory shared/<n> of a user
   or a group, with the capabilities in sharing.r and sharing.w; known[u] is what
   u may have read there and cached.  A group is a directory too: to be a member
   is to hold its capability. *)
EXTENDS Integers, Sequences, FiniteSets, FiniteSetsExt

CONSTANTS Users, Items, Files, Groups, MaxOps, MaxCut, MaxLink

VARIABLE own

BuiltIn == {"followers", "friends"} \intersect Groups
Names   == Users \union Groups
Things  == Items \union Groups
Nothing == [r |-> {}, w |-> {}]
Member  == [r |-> BuiltIn, w |-> {}]
NoLink  == [members |-> {}, writable |-> {}]

\* More commits than any operation makes: the client is not interrupted.
Full == 200

\* Everybody follows us, we follow everybody and nothing is shared.
SInit ==
    own = [dir |-> Users, hidden |-> {}, groups |-> BuiltIn, named |-> BuiltIn,
           rd |-> [t \in Things |-> IF t \in BuiltIn THEN Users ELSE {}],
           wr |-> [t \in Things |-> {}],
           box |-> [n \in Names |-> IF n \in Users THEN Member ELSE Nothing],
           hbox |-> [u \in Users |-> Nothing],
           entry |-> [u \in Users |-> "dir"],
           known |-> [u \in Users |-> Member],
           stray |-> {},
           spaces |-> {}, sunk |-> {},
           payload |-> NoLink, live |-> {}, links |-> [i \in Items |-> NoLink],
           fuel |-> Full, kept |-> {}, ops |-> 0]

-----------------------------------------------------------------------------
(* What u can fetch: its directory, visible or hidden, and the directories of
   the groups it knows.  What it fetched once it may keep. *)
Fetched(s, u) ==
    LET mine == CASE s.entry[u] = "dir" -> s.box[u]
                  [] s.entry[u] = "hidden" -> s.hbox[u]
                  [] OTHER -> Nothing
        gs == (s.known[u].r \union mine.r) \intersect Groups
    IN [r |-> s.known[u].r \union mine.r \union UNION {s.box[g].r : g \in gs},
        w |-> s.known[u].w \union mine.w \union UNION {s.box[g].w : g \in gs}]

\* In(v), with v evaluated once.
Let(v, In(_)) == CHOOSE r \in {In(u) : u \in {v}} : TRUE

\* One write.  A client that was stopped writes nothing more.
Commit(s, t) == IF s.fuel =< 0 THEN s ELSE [t EXCEPT !.fuel = s.fuel - 1]

\* Op for every member of S in turn.
Each(Op(_, _), s, S) ==
    Let(s, LAMBDA first : FoldSet(LAMBDA x, a : Let(a, LAMBDA b : Op(x, b)), first, S))

\* The operation returns an error here.
Failed(s) == IF s.fuel = 0 THEN s ELSE [s EXCEPT !.fuel = -1]

\* No capability of t resolves any more.
Forget(s, t) ==
    LET Less(b) == [r |-> b.r \ {t}, w |-> b.w \ {t}]
    IN IF t \in s.sunk THEN s
       ELSE [s EXCEPT !.box = [n \in Names |-> Less(@[n])],
                 !.hbox = [u \in Users |-> Less(@[u])],
                 !.known = [u \in Users |-> Less(@[u])],
                 !.live = @ \ {t},
                 !.kept = {k \in @ : k[2] # t}]

\* get_or_mkdir: a directory made again is not the one its user knows.
MakeDir(s, n) ==
    Commit(s, IF n \in Users THEN [s EXCEPT !.dir = @ \union {n}] ELSE [s EXCEPT !.groups = @ \union {n}])

PutCap(s, n, t) == Commit(s, [s EXCEPT !.box[n].r = @ \union {t}])

PutEditCap(s, n, i) == Commit(s, [s EXCEPT !.box[n].w = @ \union {i}])

AppendCap(s, n, t) == PutCap(MakeDir(s, n), n, t)

AppendEditCap(s, n, i) == PutEditCap(MakeDir(s, n), n, i)

AppendAll(s, ns, t) == Each(LAMBDA n, a : AppendCap(a, n, t), s, ns)

AppendEdits(s, ns, i) == Each(LAMBDA n, a : AppendEditCap(a, n, i), s, ns)

RecordRead(s, t, n) == Commit(s, [s EXCEPT !.rd[t] = @ \union {n}])

RecordWrite(s, i, n) == Commit(s, [s EXCEPT !.wr[i] = @ \union {n}])

-----------------------------------------------------------------------------
(* Secret links: one label, whose payload holds capabilities and whose members
   are recorded under each path. *)
RecordLinks(s, paths, link) ==
    Each(LAMBDA i, a : Commit(a, [a EXCEPT !.links[i] = link]), s, paths)

PutLink(s, link) == Commit(s, [s EXCEPT !.payload = link, !.live = link.members])

MintLink(s, link) == RecordLinks(PutLink(s, link), link.members, link)

RemoveLinks(s, paths) ==
    Each(LAMBDA i, a : Commit(a, [a EXCEPT !.links[i] = NoLink]), s, paths)

-----------------------------------------------------------------------------
(* Sharing. *)
ShareRead(s, t, n) == RecordRead(AppendCap(s, n, t), t, n)

\* share_write_access of social.rs, for an item in its own writing space.
ShareEdit(s, i, n) == RecordWrite(AppendEditCap(s, n, i), i, n)

ReshareAll(s, i) ==
    LET readers == Each(LAMBDA n, a : ShareRead(a, i, n), s, s.rd[i])
        writers == Each(LAMBDA n, a : ShareEdit(a, i, n), readers, s.wr[i])
    IN IF s.links[i] = NoLink THEN writers ELSE MintLink(writers, s.links[i])

\* A new writer keeps the keys, but a capability names the writer too.
MoveToNewWritingSpace(s, i) ==
    IF i \in s.spaces THEN s ELSE Commit(s, Forget([s EXCEPT !.spaces = @ \union {i}], i))

SplitIntoOwnWritingSpace(s, i) ==
    IF i \in s.spaces THEN s ELSE ReshareAll(MoveToNewWritingSpace(s, i), i)

ShareWrite(s, i, n) == ShareEdit(SplitIntoOwnWritingSpace(s, i), i, n)

\* `props` is the record the caller has of the link as it was.
SetLinkMembers(s, link, props) ==
    LET split == Each(LAMBDA i, a : SplitIntoOwnWritingSpace(a, i), s, link.writable)
    IN RemoveLinks(MintLink(split, link), props.members \ link.members)

DeleteLink(s, path) == RemoveLinks(PutLink(s, NoLink), s.links[path].members \union {path})

-----------------------------------------------------------------------------
(* Unsharing: new keys, then the record, then everyone who is left. *)

\* The new copy takes the item's place, then the old copy is deleted.
Holders(s, t) == {u \in Users : \E b \in {Fetched(s, u)} : t \in b.r \union b.w}

SwapCopies(s, t, old) == Commit(s, Forget([s EXCEPT !.stray = @ \union old], t))

DeleteCopies(s, old) == Commit(s, [s EXCEPT !.stray = @ \ old])

Replace(s, t) ==
    Let((Holders(s, t) \X {t}) \ s.stray, LAMBDA old : DeleteCopies(SwapCopies(s, t, old), old))

\* The check for an own writer sees the link node, which is in the parent's: a
\* file behind one cannot be read as a file, a directory is kept one level down.
RotateReadKeys(s, t) ==
    IF t \in s.spaces \intersect Files THEN Failed(s)
    ELSE IF t \in s.spaces THEN Commit(s, [s EXCEPT !.spaces = @ \ {t}, !.sunk = @ \union {t}])
    ELSE Replace(s, t)

ForceRotateToNewWriter(s, i) == IF i \in s.spaces THEN Replace(s, i) ELSE Failed(s)

DropReaders(s, t, revoked) == Commit(s, [s EXCEPT !.rd[t] = @ \ revoked])

DropWriters(s, i, revoked) == Commit(s, [s EXCEPT !.wr[i] = @ \ revoked])

UnshareReadExactly(s, t, revoked) ==
    AppendAll(DropReaders(RotateReadKeys(s, t), t, revoked), s.rd[t] \ revoked, t)

\* Mutant of UnshareWriteExactly: the readers keep a dead capability.
UnshareWriteOnly(s, i, revoked) ==
    AppendEdits(DropWriters(ForceRotateToNewWriter(s, i), i, revoked), s.wr[i] \ revoked, i)

UnshareWriteExactly(s, i, revoked) ==
    LET dropped == DropWriters(ForceRotateToNewWriter(s, i), i, revoked)
    IN AppendAll(AppendEdits(dropped, s.wr[i] \ revoked, i), s.rd[i], i)

\* Unsharing a group takes its members with it; followers contain friends.
ExpandGroups(s, current, revoked) ==
    revoked
        \union (IF "followers" \in revoked THEN current \intersect {"friends"} ELSE {})
        \union (current \intersect UNION {s.rd[g] : g \in revoked \intersect Groups})

UnshareRead(s, i, revoked) == UnshareReadExactly(s, i, ExpandGroups(s, s.rd[i], revoked))

UnshareWrite(s, i, revoked) == UnshareWriteExactly(s, i, ExpandGroups(s, s.wr[i], revoked))

\* What u was sent in a directory that hides u's, or in that of a group.
UnshareReads(s, b, u) == Each(LAMBDA t, a : UnshareReadExactly(a, t, {u}), s, b.r)

UnshareWrites(s, b, u) == Each(LAMBDA i, a : UnshareWriteExactly(a, i, {u}), s, b.w)

UnshareHidden(s, u) ==
    Let(UnshareReads(s, s.hbox[u], u), LAMBDA reads : UnshareWrites(reads, reads.hbox[u], u))

UnshareOfGroup(s, g, u) ==
    IF g \notin s.groups THEN s
    ELSE Let(UnshareReads(s, s.box[g], u), LAMBDA reads : UnshareWrites(reads, reads.box[g], u))

-----------------------------------------------------------------------------
(* Groups. *)
AddMembers(s, g, us) == Each(LAMBDA u, a : ShareRead(a, g, u), IF us = {} THEN s ELSE MakeDir(s, g), us)

RemoveMembers(s, g, us) ==
    LET gone == us \intersect s.rd[g]
    IN IF gone = {} THEN s
       ELSE Each(LAMBDA u, a : UnshareOfGroup(a, g, u), UnshareReadExactly(s, g, gone), gone)

NameGroup(s, g) == Commit(s, [s EXCEPT !.named = @ \union {g}])

CreateGroup(s, g, us) == NameGroup(AddMembers(MakeDir(s, g), g, us), g)

RemoveGroupMember(s, g, u, revoke) ==
    Let(UnshareReadExactly(s, g, {u}), LAMBDA left : IF revoke THEN UnshareOfGroup(left, g, u) ELSE left)

SharedWith(s, n) == {t \in Things : n \in s.rd[t] \union s.wr[t]}

TakeBack(s, g, t) ==
    Let(IF g \in s.wr[t] THEN UnshareWriteExactly(s, t, {g}) ELSE s,
        LAMBDA edits : IF g \in edits.rd[t] THEN UnshareReadExactly(edits, t, {g}) ELSE edits)

UnnameGroup(s, g) == Commit(s, [s EXCEPT !.named = @ \ {g}])

ClearRecords(s, g) ==
    Each(LAMBDA t, a : Commit(a, [a EXCEPT !.rd[t] = @ \ {g}, !.wr[t] = @ \ {g}]), s, SharedWith(s, g))

DeleteGroupDir(s, g) == Commit(s, Forget([s EXCEPT !.groups = @ \ {g}, !.box[g] = Nothing], g))

DeleteGroup(s, g, revoke) ==
    Let(IF revoke THEN Each(LAMBDA t, a : TakeBack(a, g, t), s, SharedWith(s, g)) ELSE s,
        LAMBDA taken : DeleteGroupDir(ClearRecords(UnnameGroup(taken, g), g), g))

-----------------------------------------------------------------------------
(* Followers. *)
HideDir(s, u) ==
    Commit(s, [s EXCEPT !.dir = @ \ {u}, !.hidden = @ \union {u}, !.hbox[u] = s.box[u], !.box[u] = Nothing,
                        !.entry[u] = IF @ = "dir" THEN "hidden" ELSE @])

DeleteHidden(s, u) ==
    Commit(s, [s EXCEPT !.hidden = @ \ {u}, !.hbox[u] = Nothing,
                        !.entry[u] = IF @ = "hidden" THEN "dead" ELSE @])

RemoveFromAllGroups(s, u) == Each(LAMBDA g, a : RemoveMembers(a, g, {u}), s, s.named)

LeaveUnlessBack(s, u) == IF u \in s.dir THEN s ELSE RemoveFromAllGroups(s, u)

\* Mutant of CompleteRemoval: the directory goes and what was
\* sent in it stays readable.
CompleteDeletion(s, u) ==
    LeaveUnlessBack(IF u \in s.hidden THEN DeleteHidden(s, u) ELSE s, u)

CompleteRemoval(s, u) ==
    LeaveUnlessBack(IF u \in s.hidden THEN DeleteHidden(UnshareHidden(s, u), u) ELSE s, u)

RemoveStale(s, dirs) == Each(LAMBDA g, a : RemoveMembers(a, g, a.rd[g] \ dirs), s, s.named)

RevokeFollower(s, u) ==
    Let(CompleteRemoval(RemoveStale(s, s.dir), u),
        LAMBDA ready : CompleteRemoval(IF u \in s.dir THEN HideDir(ready, u) ELSE ready, u))

JoinBuiltIn(s, us) ==
    Each(LAMBDA g, a : AddMembers(a, g, us \ s.rd[g]), s, BuiltIn)

ReconcileGroups(s) ==
    Let(Each(LAMBDA u, a : CompleteRemoval(a, u), s, s.hidden),
        LAMBDA done : JoinBuiltIn(RemoveStale(done, done.dir), done.dir))

SendEntry(s, u) == Commit(s, [s EXCEPT !.entry[u] = "dir"])

\* A request of u is accepted and u followed back: u is sent the directory it has
\* now.
AcceptFollower(s, u) ==
    SendEntry(Each(LAMBDA g, a : AddMembers(a, g, {u}), MakeDir(s, u), BuiltIn), u)

-----------------------------------------------------------------------------
(* The client.  An operation runs to its end; what it leaves when it is cut off
   after `fuel` commits is the subject of the last properties. *)
CanRead(s, u, i) == i \in Fetched(s, u).r \union Fetched(s, u).w \/ <<u, i>> \in s.stray

Reaches(s, ns, u) == u \in ns \/ \E g \in ns \intersect Groups : u \in s.rd[g]

Recorded(s, u, i) == Reaches(s, s.rd[i] \union s.wr[i], u)

\* u has a key that the records do not give them.
Unrecorded(s, u, i) ==
    \/ CanRead(s, u, i) /\ ~Recorded(s, u, i)
    \/ i \in Fetched(s, u).w /\ ~Reaches(s, s.wr[i], u)

Begin(fuel) == [own EXCEPT !.fuel = fuel]

Cut == 0..MaxCut

\* What u reached through a group.
ThroughGroups(s, u) == UNION {s.box[g].r \union s.box[g].w : g \in {h \in Groups : u \in s.rd[h]}}

\* Everyone looks at what they can reach.  An operation may leave readable what
\* was retrieved before: the pairs in `lax`, or any when it returned an error.
Finish(r, lax) ==
    own' = [r EXCEPT !.fuel = Full, !.ops = @ + 1,
                     !.known = [u \in Users |-> Fetched(r, u)],
                     !.kept = @ \union {k \in IF r.fuel < 0 THEN Users \X Items ELSE lax : Unrecorded(r, k[1], k[2])}]

Run(r) == Finish(r, {})

Targets == own.dir \union own.named

Sharings ==
    \E i \in Items :
        \/ \E n \in Targets : Run(ShareRead(Begin(Full), i, n))
        \/ \E n \in Targets : Run(ShareWrite(Begin(Full), i, n))
        \/ \E n \in own.rd[i] : Run(UnshareRead(Begin(Full), i, {n}))
        \/ \E n \in own.wr[i] : Run(UnshareWrite(Begin(Full), i, {n}))

GroupChanges ==
    \E g \in Groups \ BuiltIn :
        \/ g \notin own.groups /\ own.rd[g] = {} /\ \E us \in SUBSET own.dir : Run(CreateGroup(Begin(Full), g, us))
        \/ g \in own.named /\ \E u \in own.dir : Run(AddMembers(Begin(Full), g, {u}))
        \/ g \in own.named /\ \E u \in own.rd[g], revoke \in BOOLEAN :
              Finish(RemoveGroupMember(Begin(Full), g, u, revoke), IF revoke THEN {} ELSE Users \X Items)
        \/ g \in own.named /\ \E revoke \in BOOLEAN : Finish(DeleteGroup(Begin(Full), g, revoke), IF revoke THEN {} ELSE Users \X Items)

FollowerChanges ==
    \E u \in Users :
        \/ u \in own.dir /\ Finish(RevokeFollower(Begin(Full), u), {u} \X ThroughGroups(own, u))
        \/ u \notin own.dir /\ Run(AcceptFollower(Begin(Full), u))

Refresh == Run(ReconcileGroups(Begin(Full)))

LinkChanges ==
        \/ /\ own.payload = NoLink
           /\ \E ms \in SUBSET Items \ {{}}, ws \in SUBSET Items :
                 /\ Cardinality(ms) =< MaxLink /\ ws \subseteq ms
                 /\ Run(SetLinkMembers(Begin(Full), [members |-> ms, writable |-> ws], NoLink))
        \/ \E p \in Items, i \in Items, edit \in BOOLEAN :
              LET props == own.links[p] IN
              /\ props # NoLink /\ i \notin props.members /\ Cardinality(props.members) < MaxLink
              /\ Run(SetLinkMembers(Begin(Full),
                        [members |-> props.members \union {i},
                         writable |-> props.writable \union (IF edit THEN {i} ELSE {})], props))
        \/ \E p \in Items : own.links[p] # NoLink /\ Run(DeleteLink(Begin(Full), p))

SNext ==
    /\ own.ops < MaxOps
    /\ \/ Sharings \/ GroupChanges \/ FollowerChanges \/ Refresh \/ LinkChanges

SSpec == SInit /\ [][SNext]_own

-----------------------------------------------------------------------------

\* Whoever can read an item is recorded as sharing it, alone or through a group, and
\* whoever can edit it is recorded as an editor, so that what is revoked or listed
\* is what was granted (unshare_read_exactly, unshare_write_exactly, social.rs).
\* Not so for what an operation may leave readable, `kept`, and for a directory in
\* a writing space of its own whose readers were revoked, `sunk`.
AccessRecorded ==
    \A u \in Users, i \in Items \ own.sunk : Unrecorded(own, u, i) => <<u, i>> \in own.kept

Sent(s, n) ==
    IF n \in Groups THEN s.box[n]
    ELSE [r |-> s.box[n].r \union s.hbox[n].r, w |-> s.box[n].w \union s.hbox[n].w]

AllSent(s, t) ==
    /\ \A n \in s.rd[t] : t \in Sent(s, n).r
    /\ \A n \in s.wr[t] : t \in Sent(s, n).w

\* Whoever is recorded holds a capability that still resolves, whatever was
\* re-keyed, split, re-shared or revoked for others since, and is a follower or a
\* group (reshare_all_shares_and_links, context.rs; unshare_*_exactly, social.rs).
RecordedSent ==
    \A t \in Items \union own.groups :
        AllSent(own, t) /\ own.rd[t] \union own.wr[t] \subseteq own.dir \union own.hidden \union own.groups

\* A removal that hid the follower's directory, stopped at whatever write and
\* followed by one refresh, leaves them in no group and with nothing they can read
\* (revoke_follower, complete_follower_removal, reconcile_groups, social.rs).  Not
\* so when the refresh itself returns an error, for what they reached through a
\* group, and for the old copy of an item whose re-keying was stopped, `stray`.
RemovalCompletes ==
    \A u \in own.dir, fuel \in Cut :
        \A stopped \in {RevokeFollower(Begin(fuel), u)} :
        \A done \in {ReconcileGroups([stopped EXCEPT !.fuel = Full])} :
            u \notin stopped.dir /\ done.fuel > 0 =>
                /\ u \notin done.dir \union done.hidden
                /\ \A g \in done.groups : u \notin done.rd[g] /\ g \notin Fetched(done, u).r
                /\ \A i \in Items \ (done.sunk \union ThroughGroups(own, u)) :
                        <<u, i>> \notin own.kept \union done.stray => ~CanRead(done, u, i)

\* A revocation that was stopped at whatever write is repaired by repeating it: the
\* reader is off the record and everyone left on it has a capability that resolves
\* (unshare_read_access, social.rs).
UnshareAgain ==
    \A i \in Items : \A n \in own.rd[i], fuel \in Cut :
        \A stopped \in {UnshareRead(Begin(fuel), i, {n})} :
        \A done \in {UnshareRead([stopped EXCEPT !.fuel = Full], i, {n})} :
            done.fuel > 0 => n \notin done.rd[i] /\ AllSent(done, i)

\* Every member of a link has the record of the whole link, with who may be edited
\* through it, and nothing else has one, whichever member it was extended or
\* deleted from (record_link, remove_link, social.rs; mint_link, context.rs).
LinkRecords ==
    \A i \in Items : own.links[i] = IF i \in own.payload.members THEN own.payload ELSE NoLink
=============================================================================
