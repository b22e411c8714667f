------------------------------- MODULE Incoming -------------------------------
(* The mirror of what a friend shares with us (crates/peergos-fs/src/incoming.rs).
   Each device reads on from the position that was saved, adds every new
   capability to the mirror, and saves the position and the group directories it
   found.  The friend goes on sharing, a device may stop anywhere, and two devices
   may update at once. *)
EXTENDS CapStreams, TLC

CONSTANTS
    Devices,
    MaxUpdating, \* devices that update at the same time
    MaxFaults    \* updates that are cut short, and capabilities not resolved

VARIABLES
    mirror,      \* items.cbor: the capability kept for each path
    saved,       \* <friend>$incoming.cbor
    groupDirs,   \* <friend>$groups.cbor: the group's capability, as its key
    dev,         \* each device: its update, and its pointer_cache
    faults,
    missed,      \* paths with a capability that did not resolve when it was read
    unsaved      \* an update ended between its last two saves

ivars == <<mirror, saved, groupDirs, dev, faults, missed, unsaved>>

None == 0
Nothing == GroupCap(None)
NoPosition == [dir |-> None, made |-> None, r |-> 0, w |-> 0, gr |-> 0, gw |-> 0]
Resting == [at |-> "idle", latest |-> None, upd |-> NoPosition, group |-> None, todo |-> <<>>, items |-> <<>>]

\* Either nothing was read yet, or an earlier version read the first capability and
\* saved no directory with its position.
IInit ==
    /\ FriendInit
    /\ groupDirs = None
    /\ \E old \in BOOLEAN :
          /\ old => friend.out.r[1].at \in Paths
          /\ saved = IF old THEN [NoPosition EXCEPT !.made = 1, !.r = 1] ELSE NoPosition
          /\ mirror = [p \in Paths |-> IF old /\ p = friend.out.r[1].at THEN friend.out.r[1] ELSE Nothing]
    /\ dev = [d \in Devices |-> Resting @@ [seen |-> None]]
    /\ faults = 0 /\ missed = {} /\ unsaved = FALSE

-----------------------------------------------------------------------------
Go(d, step) == dev' = [dev EXCEPT ![d] = step @@ @]
Rest(d, step) == Go(d, step @@ Resting)

\* The pointer of the friend's writer; one that was seen means nothing is new.
Look(d) ==
    /\ Cardinality({e \in Devices : dev[e].at # "idle"}) < MaxUpdating
    /\ dev[d].at = "idle" /\ dev[d].seen # friend.ver
    /\ Go(d, [at |-> "load", latest |-> friend.ver])
    /\ UNCHANGED <<friend, mirror, saved, groupDirs, faults, missed, unsaved>>

\* Where to read from. A position without a directory is of an older one if it was
\* saved before this one was made, or is past its end.
StartFor ==
    LET restarted == [saved EXCEPT !.dir = friend.dir, !.r = 0, !.w = 0]
    IN IF saved.dir # None THEN IF saved.dir = friend.dir THEN saved ELSE restarted
       ELSE IF saved.made # None /\ saved.made < friend.dir THEN restarted
       ELSE IF saved.r > Len(friend.out.r) \/ saved.w > Len(friend.out.w) THEN restarted
       ELSE [saved EXCEPT !.dir = friend.dir]

After(s, n) == SubSeq(s, n + 1, Len(s))

\* read_sharing_file, twice: what does not resolve is passed over.
LoadNewCaps(dir, r, w, bad) ==
    SelectSeq(After(dir.r, r) \o After(dir.w, w), LAMBDA c : Resolves(c) /\ c.at \notin bad)

\* The group directory sent last, or the one that was saved.
GroupDir(direct) ==
    LET sent == SelectSeq(direct, LAMBDA c : c.at = Group)
    IN IF sent = <<>> THEN groupDirs ELSE Last(sent).key

\* A group directory that cannot be listed ends the update.
Load(d) ==
    /\ dev[d].at = "load"
    /\ \E bad \in {{}} \union (IF faults < MaxFaults THEN {{p} : p \in Paths} ELSE {}) :
       LET from == StartFor
           direct == LoadNewCaps(friend.out, from.r, from.w, bad)
           group == GroupDir(direct)
           shared == IF group = None THEN <<>> ELSE LoadNewCaps(friend.group, from.gr, from.gw, bad)
           upd == [from EXCEPT !.r = Len(friend.out.r), !.w = Len(friend.out.w), !.made = friend.dir,
                               !.gr = IF group = None THEN @ ELSE Len(friend.group.r),
                               !.gw = IF group = None THEN @ ELSE Len(friend.group.w)]
       IN /\ IF group # None /\ group # friend.key[Group] THEN Rest(d, <<>>)
             ELSE Go(d, [at |-> "add", upd |-> upd, group |-> group,
                         todo |-> SelectSeq(direct, LAMBDA c : c.at # Group) \o shared])
          /\ faults' = faults + Cardinality(bad)
          /\ missed' = missed \union bad
    /\ UNCHANGED <<friend, mirror, saved, groupDirs, unsaved>>

\* add_cap_to_mirror: items.cbor is read, and later written whole.
ReadItems(d) ==
    /\ dev[d].at = "add" /\ dev[d].todo # <<>>
    /\ Go(d, [at |-> "put", items |-> mirror])
    /\ UNCHANGED <<friend, mirror, saved, groupDirs, faults, missed, unsaved>>

AddChild(items, c) ==
    IF items[c.at].writable /\ ~c.writable THEN items ELSE [items EXCEPT ![c.at] = c]

WriteItems(d) ==
    /\ dev[d].at = "put"
    /\ \E c \in {Head(dev[d].todo)} :
          mirror' = AddChild(dev[d].items, c)
    /\ Go(d, [at |-> "add", todo |-> Tail(dev[d].todo)])
    /\ UNCHANGED <<friend, saved, groupDirs, faults, missed, unsaved>>

WriteProcessed(d) ==
    /\ dev[d].at = "add" /\ dev[d].todo = <<>>
    /\ saved' = dev[d].upd
    /\ Go(d, [at |-> "groups"])
    /\ UNCHANGED <<friend, mirror, groupDirs, faults, missed, unsaved>>

\* Mutant of WriteGroupDirs: the pointer as it is now counts as seen.
WriteGroupDirsLate(d) ==
    /\ dev[d].at = "groups"
    /\ groupDirs' = IF dev[d].group = None THEN groupDirs ELSE dev[d].group
    /\ Rest(d, [seen |-> friend.ver])
    /\ UNCHANGED <<friend, mirror, saved, faults, missed, unsaved>>

WriteGroupDirs(d) ==
    /\ dev[d].at = "groups"
    /\ groupDirs' = IF dev[d].group = None THEN groupDirs ELSE dev[d].group
    /\ Rest(d, [seen |-> dev[d].latest])
    /\ UNCHANGED <<friend, mirror, saved, faults, missed, unsaved>>

\* The update returns an error, or the program ends and its pointer_cache with it.
Stop(d) ==
    /\ dev[d].at # "idle" /\ faults < MaxFaults
    /\ \E ends \in BOOLEAN : Rest(d, [seen |-> IF ends THEN None ELSE dev[d].seen])
    /\ faults' = faults + 1
    /\ unsaved' = (unsaved \/ dev[d].at = "groups")
    /\ UNCHANGED <<friend, mirror, saved, groupDirs, missed>>

INext ==
    \/ FriendNext /\ UNCHANGED ivars
    \/ \E d \in Devices : Look(d) \/ Load(d) \/ ReadItems(d) \/ WriteItems(d) \/ WriteProcessed(d) \/ WriteGroupDirs(d) \/ Stop(d)

ISpec == IInit /\ [][INext]_<<friend, ivars>>

-----------------------------------------------------------------------------
\* A capability that was read and still resolves is in the mirror, or a better one
\* is; that of the group is in <friend>$groups.cbor. Not one that could not be
\* resolved when it was read (read_sharing_file skips it for any error), nor the
\* group's after an update ended between the last two saves, nor a read-only one
\* where a writable one was kept (add_child), though it may be useless by now.
Kept(c) ==
    \/ ~Resolves(c)
    \/ c.at \in missed
    \/ c.at = Group /\ (unsaved \/ groupDirs = c.key \/ \E d \in Devices : dev[d].at = "groups" /\ dev[d].group = c.key)
    \/ c.at # Group /\ Resolves(mirror[c.at]) /\ (c.writable => mirror[c.at].writable)
    \/ c.at # Group /\ mirror[c.at].writable /\ ~c.writable

KeptUpTo(dir, r, w) == (\A i \in 1..r : Kept(dir.r[i])) /\ (\A i \in 1..w : Kept(dir.w[i]))

(* Nothing the friend shared is skipped (update_from_friend_with_groups): whatever
   is before a saved position is kept, at every step of an update and after one that
   was cut short; and when a device would return early, because the pointer is the
   one it saw, there is nothing left to read.  One device updates at a time. *)
NothingSkipped ==
    /\ saved.dir = friend.dir => KeptUpTo(friend.out, saved.r, saved.w)
    /\ KeptUpTo(friend.group, saved.gr, saved.gw)
    /\ \A d \in Devices : dev[d].seen = friend.ver =>
          /\ KeptUpTo(friend.out, Len(friend.out.r), Len(friend.out.w))
          /\ Member /\ ~unsaved => KeptUpTo(friend.group, Len(friend.group.r), Len(friend.group.w))
=============================================================================
