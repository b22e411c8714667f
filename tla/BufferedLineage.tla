--------------------------- MODULE BufferedLineage ---------------------------
(* The invariant behind what BufferedNetwork promises about versions: where  *)
(* each version may be found, that every update builds on what it replaces,  *)
(* and that what we wrote is on the server or buffered; and the one behind   *)
(* the sequences of the pointers.                                            *)
EXTENDS BufferedNetwork

Anc(v) == Shared!Ancestors(history, v)

(* A tree of writer w: each key has a version written to it, or none. *)
Placed(w, t) ==
    \A k \in Keys : \/ t[k] = 0
                    \/ t[k] \in 1..Len(history) /\ history[t[k]].writer = w /\ history[t[k]].key = k

(* Every key of `to` descends from what `from` has there. *)
Extends(from, to) == \A k \in Keys : from[k] \in Anc(to[k])

From(u) == TreeOf(u.original)

(* Every version replaces an earlier one of the same key of the same writer. *)
HistoryInv ==
    \A v \in 1..Len(history) :
        LET p == history[v].parent IN
        /\ p < v
        /\ p # 0 => history[p].writer = history[v].writer /\ history[p].key = history[v].key

ServerInv ==
    /\ \A w \in Writers : Placed(w, TreeOf(ptr[w].target))
    /\ OnServer(ptr) \subseteq landed /\ landed \subseteq 1..Len(history)
    /\ discarded \subseteq Ours

(* An update by itself: it changes a key, only to versions of ours that were *)
(* written since it was appended and not given up.                           *)
UpdateInv(u) ==
    /\ 1 <= u.pos
    /\ Placed(u.writer, From(u)) /\ Placed(u.writer, u.updated)
    /\ \A k \in Keys : From(u)[k] < u.pos
    /\ \A k \in Keys : u.updated[k] # From(u)[k] =>
          u.updated[k] >= u.pos /\ u.updated[k] \in Ours \ discarded
    /\ u.updated # From(u)

(* An update u and a later one x of a list. *)
PairInv(u, x) ==
    /\ \A k \in Keys : u.updated[k] < x.pos
    /\ u.writer = x.writer => Extends(u.updated, From(x)) /\ u.seq < x.seq

(* The updates of a list build on each other, when n versions were written. *)
Chain(list, n) ==
    /\ \A u \in list : /\ UpdateInv(u) /\ u.pos <= n
                       /\ \A k \in Keys : u.updated[k] <= n
    /\ \A u, x \in list : u.writer = x.writer /\ u.pos <= x.pos => Extends(From(u), x.updated)
    /\ \A u, x \in list : u.pos < x.pos => PairInv(u, x)

(* v is, or has been replaced in turn by, a version the server has had, *)
Landed(v) == \E n \in landed : v \in Anc(n)

(* or one that an update of the list brings. *)
Buffered(v, list) ==
    \E u \in list : /\ u.pos <= v /\ u.writer = history[v].writer
                    /\ \E k \in Keys : u.updated[k] # From(u)[k] /\ v \in Anc(u.updated[k])

(* What we wrote when n versions were written is nowhere lost. *)
Kept(list, n) == \A v \in Ours \ discarded : v <= n => Landed(v) \/ Buffered(v, list)

(* The part of the list that is older than a checkpoint. *)
Old(cp) == {u \in updates : u.pos <= cp.since}

(* The list was committed, and the generation will be bumped or the running  *)
(* updates are all to be rolled back.                                        *)
Dropped == updates = {} /\ (opErr \/ (pc = "owner" /\ todo = {}))

Snapshot(cp) ==
    /\ Cardinality(Old(cp)) = cp.len
    /\ cp.last = {} => Old(cp) = {}

(* A rollback restores a list that was as good then as the present one is. *)
Restorable(cp) ==
    /\ cp.since <= Len(history)
    /\ cp.generation = generation => Dropped \/ Snapshot(cp)
    /\ Chain(RolledBack(cp), cp.since) /\ Kept(RolledBack(cp), cp.since)

(* Checkpoints are nested, and taken when there is one owner. *)
NestingInv ==
    /\ \A i, j \in 1..Len(cps) : i < j =>
          cps[i].since <= cps[j].since /\ cps[i].generation <= cps[j].generation
    /\ opErr => Idle /\ cps # <<>>
    /\ cps # <<>> => \A w, x \in Writers : ownerOf[w] = ownerOf[x]

(* The server has what the update brings. *)
Reflected(u) ==
    \A k \in Keys : u.updated[k] # From(u)[k] =>
        u.updated[k] \in Anc(TreeOf(ptr[u.writer].target)[k])

FlushInv ==
    /\ ~Idle => \A u \in updates : ownerOf[u.writer] \in todo
    /\ ~Idle /\ pc # "owner" => cur \in todo
    /\ ~Idle /\ cps # <<>> => todo \subseteq {ownerOf[w] : w \in Writers}
    /\ Committing => /\ writes \subseteq OwnedBy(cur)
                     /\ \A u \in OwnedBy(cur) \ writes : Reflected(u)
    /\ pc = "recas" => \A u \in writes : IsFirst(u, writes) =>
          /\ Mergeable(u.original, u.updated, remote.target)
          /\ Placed(u.writer, remote.target)

(* What has not landed is later than all that has. *)
OrderInv ==
    \A u \in Ours \ discarded, v \in Ours \cap landed :
        ~Landed(u) /\ ownerOf[history[u].writer] = ownerOf[history[v].writer] => v < u

LineageInv ==
    /\ HistoryInv /\ ServerInv
    /\ Chain(updates, Len(history)) /\ Kept(updates, Len(history))
    /\ (\A i \in 1..Len(cps) : Restorable(cps[i])) /\ NestingInv
    /\ FlushInv /\ OrderInv

-----------------------------------------------------------------------------
(* Sequences. *)

(* What the server has had under a key, it has or has seen replaced. *)
LandedInv ==
    \A n \in landed : n \in Anc(TreeOf(ptr[history[n].writer].target)[history[n].key])

(* A pointer that is where u starts, or where it ends, is not ahead of u. *)
Behind(p, u) ==
    /\ p.target = u.original => p.seq < u.seq
    /\ p.target = u.updated  => p.seq <= u.seq

InStep(list) == \A u \in list : Behind(ptr[u.writer], u)

(* An update starts where the one before it, of the same writer, ends. *)
Linked(list) ==
    \A u, x \in list : u.writer = x.writer /\ u.pos < x.pos =>
        \E y \in list : /\ y.writer = x.writer /\ u.pos <= y.pos /\ y.pos < x.pos
                        /\ y.updated = x.original

(* x is an earlier state of the entry l. *)
Younger(x, l) ==
    /\ l.pos = x.pos /\ l.writer = x.writer /\ l.original = x.original /\ l.seq = x.seq
    /\ Extends(x.updated, l.updated)

Precedes(list, now) == \A x \in list : \E l \in now : Younger(x, l)

ListsInStep ==
    /\ Linked(updates) /\ InStep(updates)
    /\ \A i \in 1..Len(cps) : /\ Linked(RolledBack(cps[i])) /\ InStep(RolledBack(cps[i]))
                             /\ Precedes(RolledBack(cps[i]), updates)
    /\ \A i, j \in 1..Len(cps) : i < j => Precedes(RolledBack(cps[i]), RolledBack(cps[j]))

(* The pointer that was read after a refusal, as long as it stands. *)
RemoteInv ==
    pc = "recas" => \A u \in writes :
        IsFirst(u, writes) /\ ptr[u.writer].target = remote.target => ptr[u.writer] = remote

SequenceInv == LandedInv /\ ListsInStep /\ RemoteInv

=============================================================================
