----------------------------- MODULE SecretLinks -----------------------------
(* The secret links of one user, handled from several devices (lib.rs, context.rs
   and social.rs of crates/peergos-fs).

   A link is an entry of the CHAMP of links that the identity's WriterData names: a
   label and, encrypted, a capability for each of its members.  It is recorded, with
   its members, under each of them in the file sharedWith.cbor of their directory.
   Moving an item to a writing space of its own changes its capability, and mints
   the links recorded there again.  The pointer of the identity is compared before
   it is set; the file of records is read, changed and uploaded. *)
EXTENDS Integers, Sequences, FiniteSets, FiniteSetsExt, SequencesExt

CONSTANTS Devices, Items, Labels, MaxOps, MaxStops

VARIABLES
  wd,       \* the identity's WriterData: seq of its pointer, and the CHAMP of links
  cap,      \* the capability of each item, by the writing space it is in (0 is home's)
  records,  \* sharedWith.cbor: the members of each link recorded under each item
  dev,      \* each device's operation and the steps it has left
  ops,      \* operations begun
  stops,    \* devices that stopped in the middle
  told,     \* the links a device was told exist, and are deleted
  crossed,  \* labels two devices worked on at the same time
  late,     \* labels minted with a capability that was replaced meanwhile
  cut,      \* labels an operation was stopped on
  lost      \* a write of the records undid another

vars == <<wd, cap, records, dev, ops, stops, told, crossed, late, cut, lost>>

NoLink == [i \in {} |-> 0]
Idle == [op |-> "none", l |-> 0, todo |-> <<>>]

Live == {l \in Labels : wd.links[l] # NoLink}

\* There is a link to start with, or none.
Init ==
  \E m \in SUBSET Items :
    /\ wd = [seq |-> 0, links |-> [l \in Labels |-> IF l = 1 THEN [i \in m |-> 0] ELSE NoLink]]
    /\ cap = [i \in Items |-> 0]
    /\ records = [i \in Items |-> [l \in Labels |-> IF l = 1 /\ i \in m THEN m ELSE {}]]
    /\ dev = [d \in Devices |-> Idle]
    /\ ops = 0 /\ stops = 0
    /\ told = [live |-> IF m = {} THEN {} ELSE {1}, gone |-> {}]
    /\ crossed = {} /\ late = {} /\ cut = {} /\ lost = FALSE

-----------------------------------------------------------------------------
(* Steps.  Each but "split" names the label it is about. *)
Split(i) == [do |-> "split", i |-> i]
Reshare(i) == [do |-> "reshare", i |-> i]
Mint(l, m) == [do |-> "mint", l |-> l, m |-> m]
Encrypted(l, caps) == [do |-> "put", l |-> l, caps |-> caps]
Removed(l) == [do |-> "remove", l |-> l]
SetPointer(l, caps) == [do |-> "set", l |-> l, caps |-> caps, seq |-> wd.seq, links |-> [wd.links EXCEPT ![l] = caps]]
Record(l, i, m) == [do |-> "record", l |-> l, i |-> i, m |-> m]
Upload(l, file) == [do |-> "upload", l |-> l, file |-> file, old |-> records]

MintLink(l, m) ==
  <<Mint(l, m)>> \o [n \in 1..Cardinality(m) |-> Record(l, SetToSeq(m)[n], m)]

RemoveLinks(l, m) == [n \in 1..Cardinality(m) |-> Record(l, SetToSeq(m)[n], {})]

\* The labels that the steps left to a device are about.
About(d) == {dev[d].todo[n].l : n \in {k \in 1..Len(dev[d].todo) : dev[d].todo[k].do \notin {"split", "reshare"}}}

\* An operation ends with its last step.
Do(d, todo) ==
  /\ dev' = [dev EXCEPT ![d] = IF todo = <<>> THEN Idle ELSE [@ EXCEPT !.todo = todo]]
  /\ told' = IF todo # <<>> THEN told
             ELSE IF dev[d].op = "delete" THEN [told EXCEPT !.gone = @ \union {dev[d].l}]
             ELSE IF dev[d].op = "members" THEN [told EXCEPT !.live = (@ \union {dev[d].l}) \ (told.gone \union crossed)]
             ELSE told

\* Steps of others that put, have put or record l with an old capability of i.
Outdated(d, l, i) ==
  \E e \in Devices \ {d} : \E n \in 1..Len(dev[e].todo) :
    LET s == dev[e].todo[n]
    IN \/ s.do \in {"put", "set"} /\ s.l = l /\ i \in DOMAIN s.caps /\ s.caps[i] # cap[i]
       \/ s.do \in {"record", "upload"} /\ s.l = l /\ i \in DOMAIN wd.links[l] /\ wd.links[l][i] # cap[i]

\* An error: what is left is not done.
Fail(d) ==
  /\ dev' = [dev EXCEPT ![d] = Idle]
  /\ cut' = cut \union About(d) \union
            {l \in Labels : \E n \in 1..Len(dev[d].todo) :
                dev[d].todo[n].do = "reshare"
                /\ (dev[d].todo[n].i \in DOMAIN wd.links[l] \/ Outdated(d, l, dev[d].todo[n].i))}

Rest(d) == Tail(dev[d].todo)

Is(d, step) == dev[d].todo # <<>> /\ dev[d].todo[1].do = step

-----------------------------------------------------------------------------
(* Operations. *)
Begin(d, op, l, todo) ==
  /\ dev[d] = Idle /\ ops < MaxOps
  /\ dev' = [dev EXCEPT ![d] = [op |-> op, l |-> l, todo |-> todo]]
  /\ ops' = ops + 1
  /\ UNCHANGED <<wd, cap, records, stops, late, cut, lost>>

\* d starts to work on the links ls, which others may be at work on.
Meets(d, ls) == crossed \union UNION {ls \intersect (About(e) \union {dev[e].l}) : e \in Devices \ {d}}

\* The members of `props`, the caller's record of the link, are replaced by m; those
\* to be writable are given writing spaces of their own first.
SetSecretLinkMembers(d, l, props, m, writable) ==
  /\ Begin(d, "members", l,
           [n \in 1..Cardinality(writable) |-> Split(SetToSeq(writable)[n])]
             \o MintLink(l, m) \o RemoveLinks(l, props \ m))
  /\ crossed' = Meets(d, {l})
  /\ UNCHANGED told

\* The label is new.
CreateSecretLink(d) ==
  \E l \in Labels, m \in SUBSET Items : \E writable \in SUBSET m :
    /\ m # {} /\ l = ops + 2
    /\ SetSecretLinkMembers(d, l, {}, m, writable)

\* get_all_secret_links: one record of each label is kept.
Summaries == {s \in UNION {{<<l, records[i][l]>> : l \in Labels} : i \in Items} : s[2] # {}}

AddToSecretLink(d) ==
  \E s \in Summaries, i \in Items : \E writable \in SUBSET {i} :
    i \notin s[2] /\ SetSecretLinkMembers(d, s[1], s[2], s[2] \union {i}, writable)

ChangeMembers(d) ==
  \E s \in Summaries : \E m \in SUBSET s[2] :
    m # {} /\ m # s[2] /\ SetSecretLinkMembers(d, s[1], s[2], m, {})

\* The members in the record of the link under the path given, and that path.
DeletePaths(l, i) == records[i][l] \union {i}

DeleteSecretLink(d) ==
  \E i \in Items, l \in Labels :
    /\ records[i][l] # {}
    /\ Begin(d, "delete", l, <<Removed(l)>> \o RemoveLinks(l, DeletePaths(l, i)))
    /\ crossed' = Meets(d, {l})
    /\ told' = [told EXCEPT !.live = @ \ {l}]

\* Sharing for writing is a split, for the links.
ShareWriteAccess(d) == \E i \in Items : Begin(d, "share", 0, <<Split(i)>>) /\ UNCHANGED <<told, crossed>>

-----------------------------------------------------------------------------
(* What the steps do. *)

\* An item that has its own writing space stays there, and nothing is sent again.
SplitIntoOwnWritingSpace(d) ==
  /\ Is(d, "split")
  /\ LET i == dev[d].todo[1].i
     IN IF cap[i] # 0 THEN Do(d, Rest(d)) /\ UNCHANGED cap
        ELSE cap' = [cap EXCEPT ![i] = 1] /\ Do(d, <<Reshare(i)>> \o Rest(d))
  /\ UNCHANGED <<wd, records, ops, stops, crossed, late, cut, lost>>

\* Mutant of GetLinks: only one of them.
GetLink(i) ==
  LET ls == {l \in Labels : records[i][l] # {}} IN IF ls = {} THEN <<>> ELSE <<Min(ls)>>

GetLinks(i) == SetToSeq({l \in Labels : records[i][l] # {}})

ReshareAllSharesAndLinks(d) ==
  /\ Is(d, "reshare")
  /\ LET i == dev[d].todo[1].i
         ls == GetLinks(i)
     IN /\ Do(d, FlattenSeq([n \in 1..Len(ls) |-> MintLink(ls[n], records[i][ls[n]])]) \o Rest(d))
        /\ crossed' = Meets(d, ToSet(ls))
        /\ late' = late \union {l \in Labels : Outdated(d, l, i)}
  /\ UNCHANGED <<wd, cap, records, ops, stops, cut, lost>>

\* mint_link: the capabilities of the members as they are now.
ReadCapabilities(d) ==
  /\ Is(d, "mint")
  /\ LET s == dev[d].todo[1] IN Do(d, <<Encrypted(s.l, [i \in s.m |-> cap[i]])>> \o Rest(d))
  /\ UNCHANGED <<wd, cap, records, ops, stops, crossed, late, cut, lost>>

AddLink(d) ==
  /\ Is(d, "put")
  /\ LET s == dev[d].todo[1] IN Do(d, <<SetPointer(s.l, s.caps)>> \o Rest(d))
  /\ UNCHANGED <<wd, cap, records, ops, stops, crossed, late, cut, lost>>

\* Nothing is committed for a label that is not there.
RemoveLink(d) ==
  /\ Is(d, "remove")
  /\ LET s == dev[d].todo[1]
     IN Do(d, (IF s.l \in Live THEN <<SetPointer(s.l, NoLink)>> ELSE <<>>) \o Rest(d))
  /\ UNCHANGED <<wd, cap, records, ops, stops, crossed, late, cut, lost>>

Current(s) == s.seq = wd.seq

\* The champ that was changed is the one of the WriterData that was read.
CommitLink(d) ==
  /\ Is(d, "set")
  /\ LET s == dev[d].todo[1]
     IN IF Current(s)
        THEN wd' = [seq |-> s.seq + 1, links |-> s.links] /\ Do(d, Rest(d)) /\ UNCHANGED cut
        ELSE Fail(d) /\ UNCHANGED <<wd, told>>
  /\ UNCHANGED <<cap, records, ops, stops, crossed, late, lost>>

\* record_link and remove_link read the file of records.
ReadRecords(d) ==
  /\ Is(d, "record")
  /\ LET s == dev[d].todo[1] IN Do(d, <<Upload(s.l, [records EXCEPT ![s.i][s.l] = s.m])>> \o Rest(d))
  /\ UNCHANGED <<wd, cap, records, ops, stops, crossed, late, cut, lost>>

WriteRecords(d) ==
  /\ Is(d, "upload")
  /\ LET s == dev[d].todo[1]
     IN records' = s.file /\ lost' = (lost \/ s.old # records) /\ Do(d, Rest(d))
  /\ UNCHANGED <<wd, cap, ops, stops, crossed, late, cut>>

\* The device stops, or a call fails.
Stop(d) ==
  /\ dev[d] # Idle /\ stops < MaxStops
  /\ Fail(d) /\ stops' = stops + 1
  /\ UNCHANGED <<wd, cap, records, ops, told, crossed, late, lost>>

Next ==
  \E d \in Devices :
    \/ CreateSecretLink(d) \/ AddToSecretLink(d) \/ ChangeMembers(d) \/ DeleteSecretLink(d) \/ ShareWriteAccess(d)
    \/ SplitIntoOwnWritingSpace(d) \/ ReshareAllSharesAndLinks(d)
    \/ ReadCapabilities(d) \/ AddLink(d) \/ RemoveLink(d) \/ CommitLink(d)
    \/ ReadRecords(d) \/ WriteRecords(d) \/ Stop(d)

Spec == Init /\ [][Next]_vars

-----------------------------------------------------------------------------
(* Properties. *)

\* What a device was told of a link stays so: a link that was created, or given its
\* members, is there until it is deleted, whatever other links are made and removed at
\* the same time (add_secret_link and delete_secret_link, lib.rs); a deleted link does not
\* come back, although its records are what a later move mints links from
\* (delete_secret_link_from and reshare_all_shares_and_links, context.rs).  Left out of
\* the second: a link two devices worked on at once, or one an operation was stopped
\* on, and records undone by another device's.
LinksStand ==
  /\ told.live \subseteq Live
  /\ \A l \in told.gone \ (crossed \union cut) : lost \/ l \notin Live

\* from_secret_link: every capability of the payload must lead to its item.
Opens(l) == \A i \in DOMAIN wd.links[l] : wd.links[l][i] = cap[i]

\* While nothing runs, every link opens all it holds: an item that moves to a writing
\* space of its own takes its links with it (split_into_own_writing_space and mint_link,
\* context.rs).  Left out: a link that was minted while its item moved, one two devices
\* worked on at once or an operation was stopped on, and records undone by another
\* device's.
LinksOpen ==
  (~lost /\ \A d \in Devices : dev[d] = Idle) => \A l \in Live \ (late \union cut \union crossed) : Opens(l)
=============================================================================
