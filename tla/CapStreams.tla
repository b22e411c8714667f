------------------------------ MODULE CapStreams ------------------------------
(* What one friend sends us: capabilities appended to the files sharing.r and
   sharing.w of the directory they keep for us, and to those of a group's
   directory, whose own capability is sent to its members like any other
   (crates/peergos-fs/src/social.rs).  Sharing models how the friend decides what
   to send; here it is the input of Incoming and Feed, which read it from where
   they last stopped.

   Rotating a path makes its earlier capabilities useless, and those who keep
   access are sent the new one by later commits (due).  Positions count
   capabilities; the files count bytes. *)
EXTENDS Integers, Sequences, SequencesExt, FiniteSets

CONSTANTS
    Paths,        \* what the friend shares
    Shares,       \* with whom and how: <<"out" or "group", "r" or "w", path>>
    MaxChanges    \* changes the friend makes

VARIABLE friend

Group == "group"
Empty == [r |-> <<>>, w |-> <<>>]
Cap(p, key, writable) == [at |-> p, key |-> key, writable |-> writable]
GroupCap(key) == Cap(Group, key, FALSE)
InGroup == <<"out", "r", Group>>

\* out: the directory for us, the dir-th they made. group: that of the group.
\* with: the shares we were sent and still have.
\* own: the paths with a writer of their own. ver: the commits of the friend's writer, which its pointer tells apart.
FriendInit ==
    \E s \in {InGroup} \union (Shares \intersect ({"out"} \X {"r"} \X Paths)) :
        friend = [dir |-> 1, out |-> [Empty EXCEPT !.r = <<Cap(s[3], 1, FALSE)>>], group |-> Empty,
                  key |-> [p \in Paths \union {Group} |-> 1],
                  with |-> {s}, own |-> {}, due |-> <<>>, ver |-> 1, left |-> MaxChanges]

Resolves(c) == c.key = friend.key[c.at]

\* The group's capability, as it is now, was sent to us.
Member == \E i \in 1..Len(friend.out.r) : friend.out.r[i] = GroupCap(friend.key[Group])

-----------------------------------------------------------------------------
(* The friend's commits. *)
CapFor(f, s) == Cap(s[3], f.key[s[3]], s[2] = "w")

Appended(f, s) ==
    LET c == CapFor(f, s)
    IN IF s[1] = "out" THEN [f EXCEPT !.out[s[2]] = Append(@, c), !.ver = @ + 1]
       ELSE [f EXCEPT !.group[s[2]] = Append(@, c), !.ver = @ + 1]

Change == friend.due = <<>> /\ friend.left > 0

\* The paths get new keys. What we lose is forgotten; what we keep, and what is
\* given anew, is sent by the commits that follow.
Rekeyed(f, paths, lost, new) ==
    [f EXCEPT !.key = [p \in DOMAIN @ |-> IF p \in paths THEN @[p] + 1 ELSE @[p]],
              !.with = (@ \ lost) \union new,
              !.due = SetToSeq(new \union {s \in f.with \ lost : s[3] \in paths}),
              !.ver = @ + 1, !.left = @ - 1]

\* append_cap_to_friend, for us or a group we are in. To be written by others a path
\* first moves to a writer of its own.
Share(s) ==
    /\ Change
    /\ s[1] = "group" => InGroup \in friend.with
    /\ friend' = IF s[2] = "w" /\ s[3] \notin friend.own
                 THEN [Rekeyed(friend, {s[3]}, {}, {s}) EXCEPT !.own = @ \union {s[3]}]
                 ELSE [Appended(friend, s) EXCEPT !.with = @ \union {s}, !.left = @ - 1]

\* Somebody else loses access.
Rotate(p) == Change /\ friend' = Rekeyed(friend, {p}, {}, {})

\* remove_group_member, with revoke_shared: all that came through the group goes too.
Lost(s) == {t \in friend.with : t = s \/ (s = InGroup /\ t[1] = "group")}

\* We do (unshare_read_access, unshare_write_access).
Unshare(s) ==
    /\ Change /\ s \in friend.with
    /\ friend' = Rekeyed(friend, {t[3] : t \in Lost(s)}, Lost(s), {})

\* They remove us and we become friends again: a new directory, the group sent in
\* it once more.
Refriend ==
    /\ Change
    /\ friend' = [Rekeyed(friend, {s[3] : s \in friend.with}, friend.with, {InGroup})
                    EXCEPT !.dir = @ + 1, !.out = Empty]

Resend ==
    /\ friend.due # <<>>
    /\ friend' = [Appended(friend, Head(friend.due)) EXCEPT !.due = Tail(@)]

FriendNext ==
    \/ \E s \in Shares \union {InGroup} : Share(s)
    \/ \E p \in Paths \union {Group} : Rotate(p)
    \/ \E s \in friend.with : Unshare(s)
    \/ Refriend
    \/ Resend
=============================================================================
