------------------------------- MODULE Follow -------------------------------
(* How two users come to follow each other, and stop: the requests and the
   replies between them (crates/peergos-fs/src/social.rs) and the state each
   keeps about the other in several files, written one after the other, so
   that a client that stops part way leaves them half updated.

   A sharing directory /x/shared/y is known to y by a capability.  The state
   keeps what a capability names now: "dir" the visible directory, "hidden" the
   one renamed while a removal is under way, "dead" a directory that is gone,
   "null" the null capability of a refusal. *)
EXTENDS Integers, Sequences, FiniteSets, SequencesExt

CONSTANTS Users, Asking, MaxOps, MaxFaults, MaxCut, MaxMail

VARIABLE net

Groups == {"followers", "friends"}
Nobody == "nobody"

\* More commits than any operation makes: the client is not interrupted.
Full == 100

Empty == [x \in Users |-> {}]

\* In(v), with v worked out once.
Let(v, In(_)) == CHOOSE r \in {In(u) : u \in {v}} : TRUE

\* Signed up: no relation to anyone.
FInit ==
    net = [dir |-> Empty, hidden |-> Empty, held |-> Empty, pending |-> Empty,
           blocked |-> Empty, unfollowed |-> Empty,
           group |-> [x \in Users |-> [g \in Groups |-> {}]],
           mail |-> [x \in Users |-> <<>>], shown |-> Empty,
           fuel |-> Full, settled |-> Nobody, ops |-> 0, faults |-> 0]

-----------------------------------------------------------------------------
(* One write to a file, a directory or the server.  A client that is stopped
   has no fuel left: nothing it would still write happens. *)
Commit(s, t) == IF s.fuel = 0 THEN s ELSE [t EXCEPT !.fuel = s.fuel - 1]

\* y's capabilities of x's directory for y name `to` where they named `from`.
Renamed(s, x, y, from, to) ==
    LET Now(m) == IF m.from = x /\ m.cap = from THEN [m EXCEPT !.cap = to] ELSE m
    IN [s EXCEPT !.mail[y] = [i \in DOMAIN @ |-> Now(@[i])],
                 !.shown[y] = {Now(m) : m \in @},
                 !.held[y] = {IF e = <<x, from>> THEN <<x, to>> ELSE e : e \in @} \ {<<x, "dead">>}]

MakeDir(s, x, y) == Commit(s, [s EXCEPT !.dir[x] = @ \union {y}])

DeleteDir(s, x, y) == Commit(s, Renamed([s EXCEPT !.dir[x] = @ \ {y}], x, y, "dir", "dead"))

HideDir(s, x, y) ==
    Commit(s, Renamed([s EXCEPT !.dir[x] = @ \ {y}, !.hidden[x] = @ \union {y}],
                      x, y, "dir", "hidden"))

DeleteHidden(s, x, y) ==
    Commit(s, Renamed([s EXCEPT !.hidden[x] = @ \ {y}], x, y, "hidden", "dead"))

RemoveFromPending(s, x, y) == Commit(s, [s EXCEPT !.pending[x] = @ \ {y}])

RemoveFromUnfollowed(s, x, y) == Commit(s, [s EXCEPT !.unfollowed[x] = @ \ {y}])

\* A request or a reply reaches y's mailbox on the server.
Deliver(s, y, m) == Commit(s, [s EXCEPT !.mail[y] = Append(@, m)])

\* The server drops a message that was dealt with.
RemoveRequest(s, x, m) ==
    LET found == {i \in DOMAIN s.mail[x] : s.mail[x][i] = m}
        first == CHOOSE i \in found : \A j \in found : i =< j
    IN IF found = {} THEN s
       ELSE Commit(s, [s EXCEPT !.mail[x] = RemoveAt(@, first), !.shown[x] = @ \ {m}])

\* Only a capability that still names a directory is of use.
PersistEntry(s, x, m) ==
    Commit(s, [s EXCEPT !.held[x] = @ \union ({<<m.from, m.cap>>} \ {<<m.from, "dead">>})])

Following(s, x) == {e[1] : e \in s.held[x]} \ (s.unfollowed[x] \union s.blocked[x])

Followers(s, x) == s.dir[x] \ s.pending[x]

-----------------------------------------------------------------------------
(* Groups: a member is sent the group's directory, then recorded; those left in
   a group someone leaves are sent its new capability. *)
AddToGroup(s, x, g, y) ==
    LET sent == MakeDir(s, x, y)
    IN Commit(sent, [sent EXCEPT !.group[x][g] = @ \union {y}])

AddIf(wanted, s, x, g, y) == IF wanted THEN AddToGroup(s, x, g, y) ELSE s

AddAll(s, x, g, ys) == FoldSet(LAMBDA y, t : AddToGroup(t, x, g, y), s, ys)

LeaveGroup(s, x, g, us) ==
    IF us \intersect s.group[x][g] = {} THEN s
    ELSE LET dropped == Commit(s, [s EXCEPT !.group[x][g] = @ \ us])
         IN FoldSet(LAMBDA y, t : MakeDir(t, x, y), dropped, s.group[x][g] \ us)

LeaveGroups(s, x, us) == LeaveGroup(LeaveGroup(s, x, "followers", us), x, "friends", us)

RemoveStale(s, x, dirs) ==
    LET one == LeaveGroup(s, x, "followers", s.group[x]["followers"] \ dirs)
    IN LeaveGroup(one, x, "friends", one.group[x]["friends"] \ dirs)

LeaveWithDir(s, x, y) == IF y \in s.dir[x] THEN s ELSE LeaveGroups(s, x, {y})

CompleteRemoval(s, x, y) ==
    LeaveWithDir(IF y \in s.hidden[x] THEN DeleteHidden(s, x, y) ELSE s, x, y)

HideIfAny(s, x, y, dirs) == IF y \in dirs THEN HideDir(s, x, y) ELSE s

RevokeFollower(s, x, y) ==
    CompleteRemoval(HideIfAny(CompleteRemoval(RemoveStale(s, x, s.dir[x]), x, y), x, y, s.dir[x]), x, y)

\* Those with a directory who accepted, and of them those we follow.
AddMembers(s, x, current, following) ==
    AddAll(AddAll(s, x, "followers", current \ s.group[x]["followers"]),
           x, "friends", (current \intersect following) \ s.group[x]["friends"])

Regroup(s, x, dirs, following) ==
    AddMembers(RemoveStale(LeaveGroup(s, x, "friends", s.group[x]["friends"] \ dirs), x, dirs),
               x, dirs \ s.pending[x], following)

\* Mutant of ReconcileGroups: interrupted removals stay so.
ReconcileMembers(s, x) == Regroup(s, x, s.dir[x], Following(s, x))

ReconcileGroups(s, x) ==
    Let(FoldSet(LAMBDA y, t : CompleteRemoval(t, x, y), s, s.hidden[x]),
        LAMBDA done : Regroup(done, x, done.dir[x], Following(s, x)))

\* Mutant of CompleteBlocks: the directory is not revoked.
CompleteUnfollows(s, x) ==
    Commit(s, [s EXCEPT !.unfollowed[x] = @ \union s.blocked[x], !.pending[x] = @ \ s.blocked[x]])

CompleteBlocks(s, x) ==
    LET One(y, t) ==
            LET u == Commit(t, [t EXCEPT !.unfollowed[x] = @ \union {y}])
                v == RemoveFromPending(u, x, y)
            IN IF y \in s.dir[x] THEN RevokeFollower(v, x, y) ELSE v
    IN FoldSet(One, s, s.blocked[x])

-----------------------------------------------------------------------------
(* Sending, answering and processing requests. *)
Rollback(s, x, y, removeDir) ==
    LET cleared == RemoveFromPending(s, x, y)
    IN IF removeDir THEN DeleteDir(cleared, x, y) ELSE cleared

\* `copies` of the request reach y in up to three attempts; when none is
\* acknowledged what this call added is rolled back.
SendFollowRequest(s, x, y, reciprocate, copies, acknowledged) ==
    LET again == RemoveFromUnfollowed(s, x, y)
        made == MakeDir(again, x, y)
        marked == Commit(made, [made EXCEPT !.pending[x] = @ \union {y}])
        request == [from |-> x, cap |-> "dir", key |-> reciprocate]
        sent == FoldSet(LAMBDA i, t : Deliver(t, y, request), marked, 1..copies)
    IN IF acknowledged \/ y \in s.pending[x] THEN sent
       ELSE Rollback(sent, x, y, y \notin s.dir[x])

\* reply_to_follow_request; `lost` when the reply arrives and its response does not.
Reply(s, x, m, accept, reciprocate, lost) ==
    LET y == m.from
        open == IF accept THEN AddToGroup(MakeDir(s, x, y), x, "followers", y) ELSE s
        reply == [from |-> x, cap |-> IF accept THEN "dir" ELSE "null", key |-> reciprocate]
        sent == Deliver(AddIf(accept /\ reciprocate, open, x, "friends", y), y, reply)
    IN Let([sent EXCEPT !.fuel = IF lost THEN 0 ELSE @], LAMBDA heard :
           RemoveRequest(IF reciprocate THEN PersistEntry(RemoveFromUnfollowed(heard, x, y), x, m) ELSE heard, x, m))

Reject(s, x, m, reciprocate, lost) ==
    Reply(RevokeFollower(s, x, m.from), x, m, FALSE, reciprocate, lost)

Reaffirm(s, x, m) ==
    RemoveRequest(Deliver(s, m.from, [from |-> x, cap |-> "dir", key |-> TRUE]), x, m)

ProcessReply(s, x, m) ==
    LET y == m.from
        grouped == IF ~m.key THEN RemoveFromPending(RevokeFollower(s, x, y), x, y)
                   ELSE AddIf(m.cap # "null", AddToGroup(s, x, "followers", y), x, "friends", y)
    IN Let(grouped, LAMBDA t :
           RemoveRequest(IF m.cap = "null" THEN t ELSE RemoveFromPending(PersistEntry(t, x, m), x, y), x, m))

ReplyShaped(m) == ~m.key \/ m.cap = "null"

\* The messages x can decrypt, the oldest first.
FollowRequests(s, x) == s.mail[x]

\* Mutant of Class: a request from someone who has a sharing
\* directory is taken for answered.
ClassByDir(s, x, i) ==
    LET m == s.mail[x][i]
        newer == \E j \in DOMAIN s.mail[x] : j > i /\ s.mail[x][j].from = m.from
    IN CASE m.from \in s.blocked[x] -> IF ReplyShaped(m) THEN "discard" ELSE "reject"
         [] m.from \notin s.blocked[x] /\ m.from \in s.pending[x] -> IF newer THEN "discard" ELSE "reply"
         [] OTHER -> IF ReplyShaped(m) \/ m.from \in s.dir[x] THEN "discard" ELSE "initial"

\* What process_follow_requests makes of message i of x's mailbox.
Class(s, x, i) ==
    LET m == s.mail[x][i]
        Newer(P(_)) == \E j \in DOMAIN s.mail[x] : j > i /\ s.mail[x][j].from = m.from /\ P(s.mail[x][j])
    IN CASE m.from \in s.blocked[x] -> IF ReplyShaped(m) THEN "discard" ELSE "reject"
         [] m.from \notin s.blocked[x] /\ m.from \in s.pending[x] ->
                IF Newer(LAMBDA n : TRUE) THEN "discard" ELSE "reply"
         [] OTHER ->
                IF ReplyShaped(m) THEN "discard"
                ELSE IF m.from \in s.dir[x] /\ m.from \in Following(s, x) THEN "reaffirm"
                ELSE IF Newer(LAMBDA n : ~ReplyShaped(n)) THEN "discard" ELSE "initial"

ProcessRequests(s, x) ==
    LET all == FollowRequests(s, x)
        Of(class) == SelectSeq([i \in DOMAIN all |-> i], LAMBDA i : Class(s, x, i) = class)
        discarded == FoldLeft(LAMBDA t, i : RemoveRequest(t, x, all[i]), s, Of("discard"))
        denied == FoldLeft(LAMBDA t, i : Reply(t, x, all[i], FALSE, FALSE, FALSE), discarded, Of("reject"))
        answered == FoldLeft(LAMBDA t, i : Reaffirm(t, x, all[i]), denied, Of("reaffirm"))
    IN Let(FoldLeft(LAMBDA t, i : ProcessReply(t, x, all[i]), answered, Of("reply")), LAMBDA done :
           IF done.fuel = 0 THEN done ELSE [done EXCEPT !.shown[x] = {all[i] : i \in ToSet(Of("initial"))}])

SocialState(s, x) ==
    Let(ProcessRequests(s, x), LAMBDA told :
        Let(CompleteBlocks(told, x), LAMBDA done : ReconcileGroups(done, x)))

Block(s, x, y) ==
    LET recorded == Commit(s, [s EXCEPT !.blocked[x] = @ \union {y}])
        hid == Commit(recorded, [recorded EXCEPT !.unfollowed[x] = @ \union {y}])
    IN RevokeFollower(RemoveFromPending(hid, x, y), x, y)

-----------------------------------------------------------------------------
(* The clients.  Each operation runs to its end, or is cut off after `fuel`
   commits; a cut or a lost response is a fault. *)
Fuel == {Full} \union {k \in 0..MaxCut : net.faults < MaxFaults}

Begin(fuel) == [net EXCEPT !.fuel = fuel]

Finish(r, faulty) ==
    /\ net.ops < MaxOps
    /\ LET cut == r.fuel = 0 \/ faulty
       IN /\ net.faults + (IF cut THEN 1 ELSE 0) =< MaxFaults
          /\ net' = [r EXCEPT !.fuel = Full, !.settled = Nobody, !.ops = @ + 1,
                              !.faults = @ + (IF cut THEN 1 ELSE 0)]
          /\ \A x \in Users : Len(net'.mail[x]) =< MaxMail

\* A lost response is lost however long the client runs.
AskToFollow(x, y) ==
    /\ ~(y \in Following(net, x) /\ y \in Followers(net, x))
    /\ y \notin net.blocked[x]
    /\ \E fuel \in Fuel, reciprocate \in Asking, copies \in 0..2, acknowledged \in BOOLEAN :
          /\ acknowledged => copies > 0
          /\ Finish(SendFollowRequest(Begin(fuel), x, y, reciprocate, copies, acknowledged),
                    ~acknowledged \/ copies > 1)

Answer(x) ==
    \E m \in net.shown[x], fuel \in Fuel, accept, reciprocate, lost \in BOOLEAN :
        Finish(IF accept THEN Reply(Begin(fuel), x, m, TRUE, reciprocate, lost)
               ELSE Reject(Begin(fuel), x, m, reciprocate, lost), lost)

Unfollow(x, y) == Finish([net EXCEPT !.unfollowed[x] = @ \union {y}], FALSE)

FollowAgain(x, y) == y \notin net.blocked[x] /\ Finish([net EXCEPT !.unfollowed[x] = @ \ {y}], FALSE)

BlockUser(x, y) == \E fuel \in Fuel : Finish(Block(Begin(fuel), x, y), FALSE)

Unblock(x, y) == Finish([net EXCEPT !.blocked[x] = @ \ {y}], FALSE)

RemoveFollower(x, y) == \E fuel \in Fuel : Finish(RevokeFollower(Begin(fuel), x, y), FALSE)

Refresh(x) ==
    \E fuel \in Fuel : \E r \in {SocialState(Begin(fuel), x)} :
           IF r.fuel = 0 THEN Finish(r, FALSE)
           ELSE /\ net.settled # x
                /\ net' = [r EXCEPT !.fuel = Full, !.settled = x]
                /\ \A z \in Users : Len(net'.mail[z]) =< MaxMail

FNext ==
    \E x \in Users :
        \/ Answer(x)
        \/ Refresh(x)
        \/ \E y \in Users \ {x} :
              \/ AskToFollow(x, y)
              \/ Unfollow(x, y)
              \/ FollowAgain(x, y)
              \/ BlockUser(x, y)
              \/ Unblock(x, y)
              \/ RemoveFollower(x, y)

FSpec == FInit /\ [][FNext]_net

-----------------------------------------------------------------------------
\* After a refresh that ran to its end no removal is half done, every member of a
\* group has a sharing directory, every follower is in the followers group and
\* every follower we follow is among the friends, whatever requests, replies,
\* removals and interruptions came before (reconcile_groups, social.rs).
GroupsReconciled ==
    \A x \in Users : net.settled = x =>
        /\ net.hidden[x] = {}
        /\ \A g \in Groups : net.group[x][g] \subseteq net.dir[x]
        /\ Followers(net, x) \subseteq net.group[x]["followers"]
        /\ Followers(net, x) \intersect Following(net, x) \subseteq net.group[x]["friends"]

\* After such a refresh a blocked user has nothing of ours, however far the block
\* got and whatever they sent us since: no directory, no membership, no capability
\* that resolves and no request of ours they could still accept (block,
\* complete_blocks, social.rs).
BlockStands ==
    \A x \in Users : net.settled = x =>
        \A y \in net.blocked[x] :
            /\ y \notin net.dir[x] \union net.pending[x]
            /\ \A g \in Groups : y \notin net.group[x][g]
            /\ \A k \in {"dir", "hidden"} : <<x, k>> \notin net.held[y]

Friends(s, x, y) == y \in Following(s, x) /\ y \in Followers(s, x)

Accepted(s, y, requests) ==
    IF requests = {} THEN s ELSE Reply(s, y, CHOOSE m \in requests : TRUE, TRUE, TRUE, FALSE)

\* x asks unless they already are friends, y refreshes and accepts, x refreshes.
Befriend(s, x, y) ==
    Let(IF Friends(s, x, y) THEN s ELSE SendFollowRequest(s, x, y, TRUE, 1, TRUE), LAMBDA asked :
        Let(SocialState(asked, y), LAMBDA seen :
            Let(Accepted(seen, y, {m \in seen.shown[y] : m.from = x}), LAMBDA told : SocialState(told, x))))

Willing(x, y) == y \notin net.blocked[x] \union net.unfollowed[x]

\* From every state two users can reach, with messages lost, repeated or crossing
\* and clients stopped half way, they can become friends by asking and accepting
\* in turn three times, unless one blocked or unfollowed the other: no leftover
\* of an earlier attempt is in the way for good (process_follow_requests,
\* send_follow_request, social.rs).
RetryWorks ==
    \A x, y \in Users : x # y /\ Willing(x, y) /\ Willing(y, x) =>
        \A s \in {FoldLeft(LAMBDA t, p : Let(t, LAMBDA a : Befriend(a, p[1], p[2])), net, <<<<x, y>>, <<y, x>>, <<x, y>>>>)} :
            Friends(s, x, y) /\ Friends(s, y, x)
=============================================================================
