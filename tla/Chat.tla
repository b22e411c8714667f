-------------------------------- MODULE Chat --------------------------------
(***************************************************************************)
(* Chats (peergos-fs/src/messaging): every member keeps a copy of the chat *)
(* in their own space (a state and an append-only log of messages) and     *)
(* merges the logs of the members whose copy they can read.  Members are   *)
(* invited by members, so their ids form a tree; the clocks are vector     *)
(* clocks over those ids.                                                  *)
(*                                                                         *)
(* A key is <<user, tag>>: the empty tag is the identity of the user, the  *)
(* others are chat identities made for them.  A message is its author, its *)
(* clock, the key that signed it and its body.  Creation times, hashes of  *)
(* earlier messages and the list of recent messages are left out.          *)
(***************************************************************************)
EXTENDS Integers, Sequences, FiniteSets, SequencesExt, TLC

CONSTANTS
  Users, Creator,  \* names, and the one who creates the chat
  Settings,        \* records: group, who has joined already; senders and bodies,
                   \* who sends and what; invitees, sequences of names invited by
                   \* each user; removals, <<who, whom>>; admins, <<who, whom>> made and unmade
                   \* administrator; deletes, users who may delete their copy; sends, invites,
                   \* crashes, bounds; torn, whether a crash may hit a send half way
  None

VARIABLES
  env,      \* the setting of this behaviour
  state,    \* state[u]: None or the chat state in u's shared directory
  log,      \* log[u]: the message log in u's shared directory
  access,   \* access[u]: the users who can read u's shared directory
  secret,   \* secret[u]: the chat identity in u's private chat state
  deleted,  \* deleted[u]: deleted_members of u's private chat state
  pending,  \* pending[u]: None or the update that u's client is committing
  made,     \* made[u]: how many chat identities were generated for u
  sends, invites, crashes

vars == <<env, state, log, access, secret, deleted, pending, made, sends, invites, crashes>>
----------------------------------------------------------------------------
(* Tree clocks *)

MergeClocks(a, b) ==
  [i \in DOMAIN a \cup DOMAIN b |->
     IF i \notin DOMAIN a THEN b[i]
     ELSE IF i \in DOMAIN b /\ a[i] < b[i] THEN b[i] ELSE a[i]]

IsBeforeOrEqual(a, b) == \A i \in DOMAIN a : i \in DOMAIN b /\ a[i] <= b[i]

HasGreaterCounterThan(a, b) == \E i \in DOMAIN a \cap DOMAIN b : a[i] > b[i]

IsConcurrentWith(a, b) == HasGreaterCounterThan(a, b) /\ HasGreaterCounterThan(b, a)

WithMember(t, i) == (i :> 0) @@ t

Increment(t, i) == (i :> (IF i \in DOMAIN t THEN t[i] ELSE 0) + 1) @@ t

(* Ids: paths in the tree of invitations *)

Fork(i, n) == Append(i, n)

Parent(i) == Front(i)

\* Element by element, and the shorter first when one continues the other.
Before(i, j) ==
  \/ IsStrictPrefix(i, j)
  \/ \E k \in 1 .. Len(i) : k <= Len(j) /\ i[k] < j[k] /\ \A l \in 1 .. k - 1 : i[l] = j[l]
----------------------------------------------------------------------------
(* One member's state of the chat *)

Member(name, merged) ==
  [username |-> name, merged |-> merged, invited |-> 0, removed |-> FALSE, chatId |-> None]

Host(c) == c.members[c.host]

\* The members of that name, preferring one that is not removed.
GetMember(c, name) ==
  LET named == {i \in DOMAIN c.members : c.members[i].username = name}
      there == {i \in named : ~c.members[i].removed}
      from == IF there = {} THEN named ELSE there
  IN  CHOOSE i \in from : \A j \in from : i = j \/ Before(i, j)

IsNamed(c, name) == \E i \in DOMAIN c.members : c.members[i].username = name

GetAdmins(c) == IF "admins" \in DOMAIN c.group THEN c.group["admins"].value ELSE {}

MemberNames(c, gone) ==
  {c.members[i].username : i \in {j \in DOMAIN c.members : ~c.members[j].removed}} \ gone

PendingMemberNames(c) ==
  {c.members[i].username : i \in {j \in DOMAIN c.members : ~c.members[j].removed /\ c.members[j].chatId = None}}

Update(c, new, media, revoke) ==
  [ok |-> TRUE, state |-> c, new |-> new, media |-> media, revoke |-> revoke]

Failed == [ok |-> FALSE]

\* ChatUpdate::apply: the side effects of two updates in a row, and the later state.
Chain(a, b) ==
  IF ~a.ok THEN a ELSE IF ~b.ok THEN b
  ELSE Update(b.state, a.new \o b.new, a.media \cup b.media, a.revoke \cup b.revoke)

IncrementMerged(c, ids) ==
  [c EXCEPT !.members = [i \in DOMAIN @ |-> IF i \in ids THEN [@[i] EXCEPT !.merged = @ + 1] ELSE @[i]]]

MergeMessageTimestamp(c, time, source) ==
  [IncrementMerged(c, {source, c.host}) EXCEPT !.current = MergeClocks(@, time)]

Verified(c, m) ==
  LET author == c.members[m.author]
  IN  m.key = IF author.chatId = None THEN <<author.username, <<>>>> ELSE author.chatId

\* Mutant of Applies: only what follows everything merged so far.
AppliesInOrder(c, m) == IsBeforeOrEqual(c.current, m.time) /\ ~IsBeforeOrEqual(m.time, c.current)

\* A message is applied once, unless its author has been removed.
Applies(c, m) == ~IsBeforeOrEqual(m.time, c.current) /\ ~c.members[m.author].removed

\* merge_message around one of the cases of apply_message.
MergeMessageWith(c, m, source, Apply(_, _)) ==
  IF m.author \notin DOMAIN c.members THEN Failed
  ELSE IF ~Applies(c, m) THEN Update(IncrementMerged(c, {source}), <<>>, {}, {})
  ELSE IF ~Verified(c, m) THEN Failed
  ELSE LET done == Apply(c, m)
       IN  IF done.ok THEN [done EXCEPT !.state = MergeMessageTimestamp(@, m.time, source)] ELSE done

\* The message a member sends: signed, and merged into the sender's own state.
SendMessageWith(c, body, key, Apply(_, _)) ==
  LET m == [author |-> c.host, time |-> Increment(c.current, c.host), key |-> key, body |-> body]
  IN  MergeMessageWith(c, m, c.host, Apply)

\* The first announcement of a chat identity is kept; later ones are only logged.
ApplyJoin(c, m) ==
  Update(IF c.members[m.author].chatId = None
         THEN [c EXCEPT !.members[m.author].chatId = m.body.chatId] ELSE c,
         <<m>>, {}, {})

JoinBody(chatId) == [type |-> "join", chatId |-> chatId]

SendJoin(c, chatId) ==
  SendMessageWith(c, JoinBody(chatId), <<Host(c).username, <<>>>>, ApplyJoin)

\* Mutant of IndexIntoParent: our own position.
IndexIntoHost(c, new) == Host(c).merged

\* The new member will start from a copy of the inviter's log, which we have read up to here.
IndexIntoParent(c, new) == c.members[Parent(new)].merged

ApplyInvite(c, m) ==
  LET new == m.body.id
      name == m.body.username
      member == Member(name, IndexIntoParent(c, new))
      invited == [c EXCEPT !.members = (new :> member) @@ [@ EXCEPT ![m.author].invited = @ + 1]]
      after == Update(invited, <<m>>, {}, {})
      ours == [invited EXCEPT !.current = WithMember(@, new), !.host = new]
  IN  IF new \in DOMAIN c.members \/ Parent(new) # m.author THEN Failed
      ELSE IF Host(c).username = name /\ Host(c).removed
      THEN Chain(after, SendJoin(ours, <<name, new>>))  \* re-invited: join under the new id
      ELSE after

Wins(existing, m, allowed) ==
  /\ allowed
  /\ \/ IsBeforeOrEqual(existing.time, m.time)
     \/ IsConcurrentWith(existing.time, m.time) /\ Before(m.author, existing.author)

ApplyGroupState(c, m) ==
  LET key == m.body.key
      allowed == key # "admins" \/ c.members[m.author].username \in GetAdmins(c)
      value == [author |-> m.author, time |-> m.time, value |-> m.body.value]
  IN  Update(IF key \notin DOMAIN c.group \/ Wins(c.group[key], m, allowed)
             THEN [c EXCEPT !.group = (key :> value) @@ @] ELSE c,
             <<m>>, {}, {})

\* A message or a reply with an attachment has it copied, the sender's own excepted.
ApplyApplication(c, m) ==
  Update(c, <<m>>,
         IF m.body.type = "media" /\ m.author # c.host THEN {m.body.owner} ELSE {},
         {})

ApplyRemoveMember(c, m) ==
  LET gone == m.body.id
      name == c.members[gone].username
  IN  IF gone # m.author /\ c.members[m.author].username \notin GetAdmins(c)
      THEN Update(c, <<m>>, {}, {})
      ELSE IF gone \notin DOMAIN c.members THEN Failed
      ELSE Update([c EXCEPT !.members[gone].removed = TRUE], <<m>>, {},
                  IF name = Host(c).username THEN {} ELSE {name})

ApplyMessage(c, m) ==
  CASE m.body.type = "join" -> ApplyJoin(c, m)
    [] m.body.type = "invite" -> ApplyInvite(c, m)
    [] m.body.type = "state" -> ApplyGroupState(c, m)
    [] m.body.type = "remove" -> ApplyRemoveMember(c, m)
    [] OTHER -> ApplyApplication(c, m)

SendMessage(c, body, key) == SendMessageWith(c, body, key, ApplyMessage)

MergeMessage(c, m, source) == MergeMessageWith(c, m, source, ApplyMessage)

\* Merge the messages of a mirror in the order of its log; the first failure ends it.
MergeMirror(c, source, messages) ==
  FoldLeft(LAMBDA u, m : IF u.ok THEN Chain(u, MergeMessage(u.state, m, source)) ELSE u,
           Update(c, <<>>, {}, {}), messages)

\* Each new member gets the next id below the inviter's.
InviteMembers(c, names, key) ==
  FoldLeft(LAMBDA u, name :
             IF ~u.ok THEN u
             ELSE LET new == Fork(u.state.host, Host(u.state).invited)
                      timed == [u.state EXCEPT !.current = WithMember(@, new)]
                  IN  Chain(u, SendMessage(timed, [type |-> "invite", username |-> name, id |-> new], key)),
           Update(c, <<>>, {}, {}), names)

\* Join under the id we were invited with.
Join(c, chatId) == SendJoin([c EXCEPT !.current = WithMember(@, c.host)], chatId)

\* A copy of a state rooted at another of its members.
Copy(c, id, name) ==
  [c EXCEPT !.host = id, !.members[id] = Member(name, Host(c).merged)]

CreateNew(name) ==
  [host |-> <<0>>, current |-> <<0>> :> 0, members |-> <<0>> :> Member(name, 0), group |-> <<>>]
----------------------------------------------------------------------------
(* Clients *)

Readable(u, v) == state[v] # None /\ u \in access[v]

\* Mutant of MirrorMessages: one message too far.
MirrorMessagesPast(u, v, from) ==
  IF Readable(u, v) THEN SubSeq(log[v], from + 2, Len(log[v])) ELSE <<>>

\* A copy that cannot be read, or is not there, reads as an empty log.
MirrorMessages(u, v, from) ==
  IF Readable(u, v) THEN SubSeq(log[v], from + 1, Len(log[v])) ELSE <<>>

Idle(u) == state[u] # None /\ pending[u] = None

\* What a client is committing: for whom it shares the directory at the end, whose mirror
\* the messages come from, and whom it removes because merging from them failed.
Committing(kind, update, share, mirror, expels) ==
  [kind |-> kind, update |-> update, share |-> share, mirror |-> mirror, expels |-> expels,
   stage |-> IF update.revoke = {} /\ update.media = {} THEN "log" ELSE "shares"]

StartCommit(u, what) == pending' = [pending EXCEPT ![u] = what]

\* A send that fails leaves everything as it was.
Send(u, kind, update, share) ==
  /\ Idle(u)
  /\ update.ok
  /\ StartCommit(u, Committing(kind, update, share, u, None))

SendBody(u) ==
  /\ u \in env.senders
  /\ sends < env.sends
  /\ sends' = sends + 1
  /\ \E b \in env.bodies :
       Send(u, "send",
            SendMessage(state[u], IF b.type = "media" THEN [b EXCEPT !.owner = u] ELSE b, secret[u]), {})
  /\ UNCHANGED <<env, state, log, access, secret, deleted, made, invites, crashes>>

\* Only an administrator changes the list, except for the first one, and never empties it.
SetAdmins(u) ==
  /\ Idle(u)
  /\ sends < env.sends
  /\ sends' = sends + 1
  /\ \E name \in Users :
       LET admins == GetAdmins(state[u])
           changed == IF name \in admins THEN admins \ {name} ELSE admins \cup {name}
       IN  /\ <<u, name>> \in env.admins
           /\ u \in admins \/ admins = {}
           /\ changed # {}
           /\ Send(u, "send",
                   SendMessage(state[u], [type |-> "state", key |-> "admins", value |-> changed], secret[u]), {})
  /\ UNCHANGED <<env, state, log, access, secret, deleted, made, invites, crashes>>

RemoveUpdate(u, name) ==
  SendMessage(state[u], [type |-> "remove", id |-> GetMember(state[u], name)], secret[u])

RemoveMember(u) ==
  /\ Idle(u)
  /\ \E name \in Users :
       /\ <<u, name>> \in env.removals
       /\ name \in MemberNames(state[u], {})
       /\ name = u \/ u \in GetAdmins(state[u])
       /\ Send(u, "send", RemoveUpdate(u, name), {})
  /\ UNCHANGED <<env, state, log, access, secret, deleted, made, sends, invites, crashes>>

Invite(u) ==
  /\ Idle(u)
  /\ invites < env.invites
  /\ invites' = invites + 1
  /\ \E names \in env.invitees[u] :
       /\ \A n \in ToSet(names) : env.reinvite \/ ~IsNamed(state[u], n)
       /\ Send(u, "send", InviteMembers(state[u], names, secret[u]), ToSet(names))
  /\ UNCHANGED <<env, state, log, access, secret, deleted, made, sends, crashes>>

\* Any failure to merge is taken for a mirror that is gone: an administrator removes the
\* member, others stop polling them, unless the member has not joined yet.
MergeFailed(u, v) ==
  LET c == state[u]
      remove == RemoveUpdate(u, v)
  IN  IF v \in PendingMemberNames(c)
      THEN StartCommit(u, None) /\ UNCHANGED deleted
      ELSE IF u \in GetAdmins(c)
      THEN /\ StartCommit(u, IF remove.ok THEN Committing("send", remove, {}, u, v) ELSE None)
           /\ UNCHANGED deleted
      ELSE StartCommit(u, None) /\ deleted' = [deleted EXCEPT ![u] = @ \cup {v}]

NewMessages(u, v) == MirrorMessages(u, v, state[u].members[GetMember(state[u], v)].merged)

\* merge_all_updates merges from the members it knows, one after the other.
HasNews(u, v) ==
  /\ Idle(u)
  /\ u # v
  /\ v \in MemberNames(state[u], deleted[u])
  /\ NewMessages(u, v) # <<>>

Merge(u, v) ==
  /\ HasNews(u, v)
  /\ LET update == MergeMirror(state[u], GetMember(state[u], v), NewMessages(u, v))
     IN  IF update.ok
         THEN StartCommit(u, Committing("merge", update, {}, v, None)) /\ UNCHANGED deleted
         ELSE MergeFailed(u, v)
  /\ UNCHANGED <<env, state, log, access, secret, made, sends, invites, crashes>>

\* Access is revoked first, then attachments of others are copied.
CommitShares(u) ==
  /\ pending[u] # None
  /\ pending[u].stage = "shares"
  /\ LET p == pending[u]
     IN  /\ access' = [access EXCEPT ![u] = @ \ p.update.revoke]
         /\ IF p.mirror = u \/ \A owner \in p.update.media : Readable(u, owner)
            THEN StartCommit(u, [p EXCEPT !.stage = "log"]) /\ UNCHANGED deleted
            ELSE MergeFailed(u, p.mirror)
  /\ UNCHANGED <<env, state, log, secret, made, sends, invites, crashes>>

CommitLog(u) ==
  /\ env.split
  /\ pending[u] # None
  /\ pending[u].stage = "log"
  /\ log' = [log EXCEPT ![u] = @ \o pending[u].update.new]
  /\ StartCommit(u, [pending[u] EXCEPT !.stage = "state"])
  /\ UNCHANGED <<env, state, access, secret, deleted, made, sends, invites, crashes>>

\* The state is written last; an invitation then shares the directory with the invited.
CommitState(u) ==
  /\ pending[u] # None
  /\ pending[u].stage = "state"
  /\ state' = [state EXCEPT ![u] = pending[u].update.state]
  /\ StartCommit(u, IF pending[u].share = {} THEN None ELSE [pending[u] EXCEPT !.stage = "share"])
  /\ UNCHANGED <<env, log, access, secret, deleted, made, sends, invites, crashes>>

\* Both writes at once, where nobody fails or clones between them: only a clone reads states.
CommitLogAndState(u) ==
  /\ ~env.split
  /\ pending[u] # None
  /\ pending[u].stage = "log"
  /\ log' = [log EXCEPT ![u] = @ \o pending[u].update.new]
  /\ state' = [state EXCEPT ![u] = pending[u].update.state]
  /\ StartCommit(u, IF pending[u].share = {} THEN None ELSE [pending[u] EXCEPT !.stage = "share"])
  /\ UNCHANGED <<env, access, secret, deleted, made, sends, invites, crashes>>

ShareWithInvited(u) ==
  /\ pending[u] # None
  /\ pending[u].stage = "share"
  /\ access' = [access EXCEPT ![u] = @ \cup pending[u].share]
  /\ StartCommit(u, None)
  /\ UNCHANGED <<env, state, log, secret, deleted, made, sends, invites, crashes>>

\* An invited user copies the state of the chat they were given access to.
CloneState(u, v) ==
  /\ pending[u] = None
  /\ IF state[u] = None THEN made[u] = 0 ELSE Host(state[u]).chatId = None
  /\ Readable(u, v)
  /\ IsNamed(state[v], u)
  /\ StartCommit(u, [kind |-> "clone", stage |-> "copy", mirror |-> v,
                     state |-> Copy(state[v], GetMember(state[v], u), u)])
  /\ UNCHANGED <<env, state, log, access, secret, deleted, made, sends, invites, crashes>>

\* Then the log, a private state with a new chat identity, a share back, and the join.
CloneLog(u) ==
  /\ pending[u] # None
  /\ pending[u].stage = "copy"
  /\ LET v == pending[u].mirror
         key == <<u, <<made[u] + 1>>>>
         join == Join(pending[u].state, key)
     IN  IF ~Readable(u, v) THEN StartCommit(u, None) /\ UNCHANGED <<state, log, access, secret, deleted, made>>
         ELSE /\ state' = [state EXCEPT ![u] = pending[u].state]
              /\ log' = [log EXCEPT ![u] = log[v]]
              /\ access' = [access EXCEPT ![u] = @ \cup {v}]
              /\ secret' = [secret EXCEPT ![u] = key]
              /\ deleted' = [deleted EXCEPT ![u] = {}]
              /\ made' = [made EXCEPT ![u] = @ + 1]
              /\ StartCommit(u, IF join.ok THEN Committing("join", join, {}, u, None) ELSE None)
  /\ UNCHANGED <<env, sends, invites, crashes>>

DeleteChat(u) ==
  /\ Idle(u)
  /\ u \in env.deletes
  /\ state' = [state EXCEPT ![u] = None]
  /\ log' = [log EXCEPT ![u] = <<>>]
  /\ access' = [access EXCEPT ![u] = {}]
  /\ UNCHANGED <<env, secret, deleted, pending, made, sends, invites, crashes>>

\* The client stops, or one of its writes fails; it then starts again from the saved state.
Crash(u) ==
  /\ pending[u] # None
  /\ crashes < env.crashes
  /\ pending[u].stage = "state" /\ pending[u].kind # "merge" => env.torn
  /\ crashes' = crashes + 1
  /\ StartCommit(u, None)
  /\ UNCHANGED <<env, state, log, access, secret, deleted, made, sends, invites>>
----------------------------------------------------------------------------
InitChat(name) ==
  LET key == <<name, <<1>>>>
      joined == Join(CreateNew(name), key)
  IN  Chain(joined, SendMessage(joined.state, [type |-> "state", key |-> "admins", value |-> {name}], key))

\* A chat that env.group were invited to by its creator, cloned and joined one after the
\* other, the creator having merged what they sent.
InitGroup(group) ==
  LET chat == InitChat(Creator)
      invited == Chain(chat, InviteMembers(chat.state, group, <<Creator, <<1>>>>))
      joined(u) == Join(Copy(invited.state, GetMember(invited.state, u), u), <<u, <<1>>>>)
      hosted == FoldLeft(LAMBDA c, u : Chain(c, MergeMirror(c.state, GetMember(c.state, u), joined(u).new)),
                         invited, group)
  IN  [u \in ToSet(group) \cup {Creator} |->
         IF u = Creator THEN hosted ELSE Update(joined(u).state, invited.new \o joined(u).new, {}, {})]

Init ==
  /\ env \in Settings
  /\ LET chats == InitGroup(env.group)
         there == DOMAIN chats
     IN  /\ state = [u \in Users |-> IF u \in there THEN chats[u].state ELSE None]
         /\ log = [u \in Users |-> IF u \in there THEN chats[u].new ELSE <<>>]
         /\ access = [u \in Users |-> IF u = Creator THEN there \ {u}
                                     ELSE IF u \in there THEN {Creator} ELSE {}]
         /\ secret = [u \in Users |-> IF u \in there THEN <<u, <<1>>>> ELSE None]
         /\ made = [u \in Users |-> IF u \in there THEN 1 ELSE 0]
  /\ deleted = [u \in Users |-> {}]
  /\ pending = [u \in Users |-> None]
  /\ sends = 0 /\ invites = 0 /\ crashes = 0

Commit(u) ==
  CommitShares(u) \/ CommitLog(u) \/ CommitState(u) \/ CommitLogAndState(u) \/ ShareWithInvited(u) \/ CloneLog(u)

Next ==
  \E u \in Users :
    \/ SendBody(u) \/ SetAdmins(u) \/ RemoveMember(u) \/ Invite(u)
    \/ \E v \in Users : Merge(u, v) \/ CloneState(u, v)
    \/ Commit(u)
    \/ DeleteChat(u) \/ Crash(u)

Spec == Init /\ [][Next]_vars

\* Clients go on with what they commit and keep polling the members they know; the runs bound
\* everything else, so that it is enough that some client goes on.
Progress == \E u \in Users : Commit(u) \/ \E v \in Users : Merge(u, v)

\* ENABLED Progress, in terms of the state.
CanProgress ==
  \E u \in Users : \/ pending[u] # None
                   \/ \E v \in Users : HasNews(u, v)

\* Weak fairness of Progress, written out.
FairSpec == Spec /\ ([]<>~CanProgress \/ []<><<Progress>>_vars)
----------------------------------------------------------------------------
(* Properties *)

\* The clock of a copy never runs ahead of its log: of every author who is not removed, the
\* log holds all the messages the clock counts as merged.  A copy that skipped one would
\* take it for merged ever after (merge_message, chat.rs).
NothingSkipped ==
  \A u \in Users : state[u] # None =>
    \A i \in DOMAIN state[u].members \cap DOMAIN state[u].current :
      ~state[u].members[i].removed =>
        \A n \in 1 .. state[u].current[i] :
          \E k \in 1 .. Len(log[u]) : log[u][k].author = i /\ log[u][k].time[i] = n

\* What a copy has marked as read of another copy it knows, up to messages_merged_upto, or
\* has taken over from the inviter, whose log the new member cloned.
PositionsSound ==
  \A u, v \in Users : u # v /\ state[u] # None /\ state[v] # None /\ IsNamed(state[u], v) =>
    LET c == state[u]
        read == c.members[GetMember(c, v)].merged
    IN  \A k \in 1 .. read :
          /\ k <= Len(log[v])
          /\ IsBeforeOrEqual(log[v][k].time, c.current) \/ c.members[log[v][k].author].removed

Joined(u) == state[u] # None /\ Host(state[u]).chatId # None

\* While nobody is removed and no copy deleted, all who joined end up with the same messages
\* although each merges from few of the others and a merge may fail half way.
Delivered ==
  env.removals = {} /\ env.deletes = {}
    => <>[](\A u, v \in Users : Joined(u) /\ Joined(v) => ToSet(log[u]) = ToSet(log[v]))

\* Copies that have merged the same messages have the same group state ("a conflict-free
\* replicated messaging layer", mod.rs).
SameGroupState ==
  \A u, v \in Users :
    state[u] # None /\ state[v] # None /\ state[u].current = state[v].current
      => state[u].group = state[v].group

\* A member whose merge failed is expelled, or not polled again, only if their copy cannot
\* be read ("either we've been removed or they deleted their mirror", messenger.rs).
GivenUpIfGone ==
  \A u, v \in Users :
    \/ v \in deleted[u]
    \/ pending[u] # None /\ pending[u].kind = "send" /\ pending[u].expels = v
    => ~Readable(u, v)
=============================================================================
