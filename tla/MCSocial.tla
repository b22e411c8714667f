------------------------------ MODULE MCSocial ------------------------------
(* The social side of a client, each part explored by itself: following, what is
   shared with groups and by links, and the secret links themselves. *)
EXTENDS Integers, TLC

CONSTANTS Users, Asking, MaxOps, MaxFaults, MaxCut, MaxMail, Items, Files, MaxShares, MaxLinks, MaxCommits,
          Devices, MaxLinkOps

VARIABLES part, net, own, wd, cap, records, dev, ops, stops, told, crossed, late, cut, lost

Following == INSTANCE Follow
Grouping == INSTANCE Sharing WITH Groups <- {"followers", "club"}, MaxLink <- 0,
                                  MaxOps <- MaxShares, MaxCut <- MaxCommits
Linking == INSTANCE Sharing WITH Groups <- {"followers", "friends"}, MaxLink <- 2,
                                 MaxOps <- MaxLinks, MaxCut <- MaxCommits

Links == INSTANCE SecretLinks WITH Items <- {"a", "b"}, Labels <- 1..(MaxLinkOps + 1),
                                   MaxOps <- MaxLinkOps, MaxStops <- MaxFaults

linkVars == <<wd, cap, records, dev, ops, stops, told, crossed, late, cut, lost>>

Unused == [part |-> "none"]

NoLinks ==
  /\ wd = Unused /\ cap = Unused /\ records = Unused /\ dev = Unused /\ ops = Unused /\ stops = Unused
  /\ told = Unused /\ crossed = Unused /\ late = Unused /\ cut = Unused /\ lost = Unused

SocialInit ==
  \/ part = "following" /\ Following!FInit /\ own = Unused /\ NoLinks
  \/ part = "grouping" /\ Grouping!SInit /\ net = Unused /\ NoLinks
  \/ part = "linking" /\ Linking!SInit /\ net = Unused /\ NoLinks
  \/ part = "links" /\ Links!Init /\ net = Unused /\ own = Unused

SocialNext ==
  \/ part = "following" /\ Following!FNext /\ UNCHANGED <<part, own, linkVars>>
  \/ part = "grouping" /\ Grouping!SNext /\ UNCHANGED <<part, net, linkVars>>
  \/ part = "linking" /\ Linking!SNext /\ UNCHANGED <<part, net, linkVars>>
  \/ part = "links" /\ Links!Next /\ UNCHANGED <<part, net, own>>

SocialSpec == SocialInit /\ [][SocialNext]_<<part, net, own, linkVars>>

Sym == Permutations(Users) \union Permutations(Devices)

\* Follow's GroupsReconciled: a refresh that ends leaves groups that agree with who
\* follows us and whom we follow (reconcile_groups, social.rs).
GroupsReconciled == part = "following" => Following!GroupsReconciled

\* Follow's BlockStands: after a refresh a blocked user has nothing of ours, however
\* far the block got (block, complete_blocks, social.rs).
BlockStands == part = "following" => Following!BlockStands

\* Follow's RetryWorks: nothing an earlier attempt left keeps two willing users from
\* becoming friends (send_follow_request, process_follow_requests, social.rs).
RetryWorks == part = "following" => Following!RetryWorks

\* Sharing's AccessRecorded, RecordedSent and LinkRecords: who can read or edit an item
\* is on record as sharing it, who is on record has a capability that resolves, and each
\* member of a link has the record of the whole link (unshare_read_exactly,
\* unshare_write_exactly, record_link, social.rs; mint_link, context.rs).
RecordsAgree ==
  /\ part = "grouping" => Grouping!AccessRecorded /\ Grouping!RecordedSent
  /\ part = "linking" => Linking!AccessRecorded /\ Linking!RecordedSent /\ Linking!LinkRecords

\* Sharing's RemovalCompletes and UnshareAgain: a refresh finishes the removal of a
\* follower, and repeating it a revocation, stopped at whatever write (revoke_follower,
\* reconcile_groups, unshare_read_access, social.rs).
RepairedLater ==
  /\ part = "grouping" => Grouping!RemovalCompletes /\ Grouping!UnshareAgain
  /\ part = "linking" => Linking!RemovalCompletes /\ Linking!UnshareAgain

\* SecretLinks' LinksStand and LinksOpen: a link is there from when it is made until it
\* is deleted, and opens all it holds (add_secret_link, lib.rs; mint_link, context.rs).
LinksKept == part = "links" => Links!LinksStand /\ Links!LinksOpen
=============================================================================
