------------------------------ MODULE MCClients ------------------------------
(* Clients of one account and of a friend, each part explored by itself: writing
   spaces, the cache of nodes, the mirror of what a friend shares, the feed, and the
   account's login; part says which. *)
EXTENDS Integers, TLC

CONSTANTS Names, MaxBegun, MaxWriters, MaxRoots, MaxEntries, MaxReads, Paths, MaxChanges, MaxFaults,
          MaxPosts, Clients, Passwords, MaxLogins

VARIABLES
  part,
  wr, todo, doing, sweep, begun, want, cut, swept, revoked,                       \* writing spaces
  files, root, cache, task, reads,                                                \* cache of nodes
  mirror, saved, groupDirs, dev, missed, unsaved,                                 \* mirror
  replies, data, index, state, sess, posts, torn, dropped,                        \* feed
  blocks, ptrs, account, client, losses, told, unsure, raced, overlapped, behind, \* login
  fresh, crossed, friend, faults, ops                                             \* of two of them

Spaces == INSTANCE WritingSpaces

Nodes == INSTANCE NodeCache WITH
  Top <- 1, ChunkSize <- 1, MaxPerChunk <- 2, Tasks <- {1, 2}, MaxOps <- 2,
  Ops <- {"remove", "rename", "move", "mkdir", "upload", "write", "truncate", "other mkdir", "other remove"}

Mirror == INSTANCE Incoming WITH
  Shares <- {"out", "group"} \X {"r", "w"} \X Paths, Devices <- {1}, MaxUpdating <- 1

News == INSTANCE Feed WITH
  Shares <- {"out", "group"} \X {"r"} \X Paths, Comments <- Paths, Sessions <- {1}, MaxOpen <- 1

Logins == INSTANCE Accounts WITH
  Servers <- {1, 2}, FirstServer <- 1, Dirs <- <<"shared">>, MaxOps <- MaxLogins, MaxLost <- MaxFaults

-----------------------------------------------------------------------------
spaceVars == <<wr, todo, doing, sweep, begun, want, cut, swept, revoked>>
nodeVars == <<files, root, cache, task, reads>>
mirrorVars == <<mirror, saved, groupDirs, dev, missed, unsaved>>
feedVars == <<replies, data, index, state, sess, posts, torn, dropped>>
loginVars == <<blocks, ptrs, account, client, losses, told, unsure, raced, overlapped, behind>>
vars == <<part, spaceVars, nodeVars, mirrorVars, feedVars, loginVars, fresh, crossed, friend, faults, ops>>

Unused == [part |-> "none"]

NoSpaces == /\ wr = Unused /\ todo = Unused /\ doing = Unused /\ sweep = Unused /\ begun = Unused
            /\ want = Unused /\ cut = Unused /\ swept = Unused /\ revoked = Unused
NoNodes == files = Unused /\ root = Unused /\ cache = Unused /\ task = Unused /\ reads = Unused
NoMirror == /\ mirror = Unused /\ saved = Unused /\ groupDirs = Unused
            /\ dev = Unused /\ missed = Unused /\ unsaved = Unused
NoFeed == /\ replies = Unused /\ data = Unused /\ index = Unused /\ state = Unused
          /\ sess = Unused /\ posts = Unused /\ torn = Unused /\ dropped = Unused
NoLogins == /\ blocks = Unused /\ ptrs = Unused /\ account = Unused /\ client = Unused /\ losses = Unused
            /\ told = Unused /\ unsure = Unused /\ raced = Unused /\ overlapped = Unused /\ behind = Unused

ClientsInit ==
  \/ /\ part = "spaces" /\ Spaces!Init /\ NoNodes /\ NoMirror /\ NoFeed /\ NoLogins
     /\ friend = Unused /\ faults = Unused /\ ops = Unused
  \/ /\ part = "nodes" /\ Nodes!NCInit /\ NoSpaces /\ NoMirror /\ NoFeed /\ NoLogins
     /\ friend = Unused /\ faults = Unused
  \/ /\ part = "mirror" /\ Mirror!IInit /\ NoSpaces /\ NoNodes /\ NoFeed /\ NoLogins
     /\ fresh = Unused /\ crossed = Unused /\ ops = Unused
  \/ /\ part = "feed" /\ News!FInit /\ NoSpaces /\ NoNodes /\ NoMirror /\ NoLogins
     /\ fresh = Unused /\ crossed = Unused /\ ops = Unused
  \/ /\ part = "logins" /\ Logins!Init /\ NoSpaces /\ NoNodes /\ NoMirror /\ NoFeed
     /\ fresh = Unused /\ crossed = Unused /\ friend = Unused /\ faults = Unused

ClientsNext ==
  \/ /\ part = "spaces" /\ Spaces!Next
     /\ UNCHANGED <<part, nodeVars, mirrorVars, feedVars, loginVars, friend, faults, ops>>
  \/ /\ part = "nodes" /\ Nodes!NCNext
     /\ UNCHANGED <<part, spaceVars, mirrorVars, feedVars, loginVars, friend, faults>>
  \/ /\ part = "mirror" /\ Mirror!INext
     /\ UNCHANGED <<part, spaceVars, nodeVars, feedVars, loginVars, fresh, crossed, ops>>
  \/ /\ part = "feed" /\ News!FNext
     /\ UNCHANGED <<part, spaceVars, nodeVars, mirrorVars, loginVars, fresh, crossed, ops>>
  \/ /\ part = "logins" /\ Logins!Next
     /\ UNCHANGED <<part, spaceVars, nodeVars, mirrorVars, feedVars, fresh, crossed, friend, faults>>

ClientsSpec == ClientsInit /\ [][ClientsNext]_vars

Sym == Permutations(Clients) \union Permutations(Passwords)

-----------------------------------------------------------------------------
\* WritingSpaces' PathsKept: while write access is granted and revoked, stopped and
\* crossed, every file stays at its path (move_to_new_writing_space, writing_space.rs;
\* force_rotate_child_to_new_writer, lib.rs).
PathsKept == part = "spaces" => Spaces!PathsKept

\* WritingSpaces' SpacesAuthorised: a space a path leads to has a chain of owners
\* (reparent_writing_space, writing_space.rs; is_authorized on the server).
SpacesAuthorised == part = "spaces" => Spaces!SpacesAuthorised

\* WritingSpaces' NothingLeftOver and RevokedForGood: operations that ran to their end
\* leave no writer behind, and a revoked one nothing to write to (delete_child,
\* delete_writer_subspace, lib.rs).
SpacesClean == part = "spaces" => Spaces!NothingLeftOver /\ Spaces!RevokedForGood

\* NodeCache's CacheCurrent: a node kept for the current root is the one the tree has
\* (migrate_cache, filewrapper.rs; CryptreeCache::migrate, cache.rs).
CacheCurrent == part = "nodes" => Nodes!CacheCurrent

\* Incoming's NothingSkipped, Feed's NothingForgotten and RecordsAligned: whatever the
\* friend sent before a saved position is in the mirror and in the feed, and the feed's
\* files agree (update_from_friend_with_groups, incoming.rs; add_to_feed, feed.rs).
SharesKept ==
  /\ part = "mirror" => Mirror!NothingSkipped
  /\ part = "feed" => News!NothingForgotten /\ News!RecordsAligned

\* Accounts' AccountsWhole: nothing half-made is ever read of a signup (signup.rs,
\* apply_oplog on the server).
AccountsWhole == part = "logins" => Logins!AccountsWhole

\* Accounts' PasswordInForce and RightIdentity: the last password that was set opens
\* the account, as the identity it was opened for (change_password, login, login.rs).
PasswordInForce == part = "logins" => Logins!PasswordInForce /\ Logins!RightIdentity
=============================================================================
