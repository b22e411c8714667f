------------------------------- MODULE Accounts -------------------------------
(* An account's life under one user name: signup, login, change of password, copying
   the login data to another server and moving there (crates/peergos-fs/src/signup.rs,
   login.rs, migrate.rs).  Signup records every block and pointer in a log, in memory,
   which the server applies one write after the other.  Clients run side by side, and
   a reply may be lost.

   A block stands for its own hash.  What a signup draws at random is its number. *)
EXTENDS Integers, Sequences, FiniteSets, SequencesExt

CONSTANTS
    Clients,
    Passwords,
    Servers,
    FirstServer,  \* the one everybody signs up at
    Dirs,         \* the special directories, in the order they are made
    MaxOps,       \* operations begun
    MaxLost       \* requests or replies that are lost

VARIABLES
    blocks, ptrs,   \* the server's blocks, and the pointers of the writers
    account,        \* the name's entry: identity, home server, login data by server
    client,         \* what each client is doing
    ops, losses,
    told,           \* the password of the last signup or change that was told to succeed
    unsure,         \* one of an unknown outcome came after it
    raced,          \* two signups of the name were applied side by side
    overlapped,     \* login data was set while another client was about to, or had just
    behind          \* the account moved to a server with other login data

vars == <<blocks, ptrs, account, client, ops, losses, told, unsure, raced, overlapped, behind>>
ghosts == <<told, unsure, raced, overlapped, behind>>

NoOne == 0
NoLogin == [salt |-> 0, pass |-> "none", id |-> NoOne]

-----------------------------------------------------------------------------
(* Blocks, and the log of a signup *)
Boxer(i) == [t |-> "boxer", by |-> i]
OwnerProof(i) == [t |-> "proof", by |-> i]
DirBlock(i, name, kids) == [t |-> "dir", by |-> i, name |-> name, kids |-> kids]
Champ(of) == [t |-> "champ", of |-> of]
WriterData(i, salt, inbound, owned, tree) ==
    [t |-> "data", by |-> i, algorithm |-> salt, inbound |-> inbound, owned |-> owned, tree |-> tree]

Links(b) == IF b.t = "champ" THEN b.of ELSE IF b.t = "data" THEN b.inbound \union b.owned \union b.tree ELSE {}

Identity(i) == <<i, "identity">>
HomeWriter(i) == <<i, "home">>

\* OpLogStore: a block that is there already is not recorded again.
NewLog == [ops |-> <<>>, blocks |-> {}, at |-> <<>>]
Put(log, b) ==
    IF b \in log.blocks THEN log
    ELSE [log EXCEPT !.blocks = @ \union {b}, !.ops = Append(@, [op |-> "put", block |-> b])]
PutAll(log, bs) == FoldLeft(Put, log, bs)
SetPointer(log, w, b) ==
    [log EXCEPT !.at = (w :> b) @@ @,
                !.ops = Append(@, [op |-> "set", writer |-> w, block |-> b,
                                   old |-> IF w \in DOMAIN log.at THEN {log.at[w]} ELSE {}])]

HomeSpace(i) ==
    LET home == DirBlock(i, "home", {})
        data == WriterData(i, 0, {}, {Champ({})}, {Champ({home})})
    IN SetPointer(PutAll(NewLog, <<Boxer(i), home, Champ({}), Champ({home}), data>>), HomeWriter(i), data)

IdentitySpace(log, i) ==
    LET owned == Champ({OwnerProof(i)})
        data == WriterData(i, i, {Boxer(i)}, {owned}, {})
    IN SetPointer(PutAll(log, <<OwnerProof(i), Champ({}), owned, data>>), Identity(i), data)

\* Mutant of MkdirHidden: the pointer is set before the last block is put.
MkdirPointerFirst(log, i, name) ==
    LET data == log.at[HomeWriter(i)]
        tree == (CHOOSE c \in data.tree : TRUE).of
        home == CHOOSE b \in tree : b.name = "home"
        child == DirBlock(i, name, {})
        linked == [home EXCEPT !.kids = @ \union {name}]
        done == Champ((tree \ {home}) \union {child, linked})
        new == [data EXCEPT !.tree = {done}]
    IN Put(SetPointer(PutAll(log, <<child, Champ(tree \union {child}), linked, done>>), HomeWriter(i), new), new)

\* create_directory, on the log: the child, the tree with it, the home node that
\* links it, the tree with that, and the writer's data.
MkdirHidden(log, i, name) ==
    LET data == log.at[HomeWriter(i)]
        tree == (CHOOSE c \in data.tree : TRUE).of
        home == CHOOSE b \in tree : b.name = "home"
        child == DirBlock(i, name, {})
        linked == [home EXCEPT !.kids = @ \union {name}]
        done == Champ((tree \ {home}) \union {child, linked})
        new == [data EXCEPT !.tree = {done}]
    IN SetPointer(PutAll(log, <<child, Champ(tree \union {child}), linked, done, new>>), HomeWriter(i), new)

SignupLog(i) ==
    FoldLeft(LAMBDA log, name : MkdirHidden(log, i, name), IdentitySpace(HomeSpace(i), i), Dirs)

-----------------------------------------------------------------------------
Idle == [at |-> "idle", op |-> "none", id |-> NoOne, salt |-> 0, pass |-> "none", new |-> "none",
         signer |-> NoOne, tries |-> 0, log |-> <<>>, server |-> FirstServer]

Registered(i, login) ==
    [id |-> i, home |-> FirstServer, logins |-> [s \in Servers |-> IF s = FirstServer THEN login ELSE NoLogin]]

\* Nobody has the name yet; or it has been signed up for.
Init ==
    /\ \/ blocks = {} /\ ptrs = <<>> /\ account = Registered(NoOne, NoLogin) /\ told = "none"
       \/ \E p \in Passwords, i \in {MaxOps + 1} :
             /\ blocks = SignupLog(i).blocks /\ ptrs = SignupLog(i).at
             /\ account = Registered(i, [salt |-> i, pass |-> p, id |-> i]) /\ told = p
    /\ client = [c \in Clients |-> Idle]
    /\ ops = 0 /\ losses = 0
    /\ unsure = FALSE /\ raced = FALSE /\ overlapped = FALSE /\ behind = FALSE

Go(c, step) == client' = [client EXCEPT ![c] = step @@ @]
Begin(c, step) ==
    /\ client[c].at \in {"idle", "in"} /\ ops < MaxOps /\ ops' = ops + 1
    /\ client' = [client EXCEPT ![c] = step @@ Idle]
    /\ UNCHANGED <<blocks, ptrs, account, losses, ghosts>>

SignUp(c) == \E p \in Passwords : Begin(c, [at |-> "post", op |-> "signup", id |-> ops + 1, salt |-> ops + 1, pass |-> p, new |-> p])
Login(c) == \E p \in Passwords : Begin(c, [at |-> "find", op |-> "login", pass |-> p])
ChangePassword(c) ==
    \E p, q \in Passwords : p # q /\ Begin(c, [at |-> "find", op |-> "change", pass |-> p, new |-> q])
MirrorLoginData(c) ==
    \E p \in Passwords, s \in Servers : Begin(c, [at |-> "find", op |-> "mirror", pass |-> p, new |-> p, server |-> s])

-----------------------------------------------------------------------------
(* Signup at the server *)

\* It asks for a harder proof of work, at most three times; or the name is taken; or
\* it starts on the log.
PostSignup(c) ==
    /\ client[c].at = "post"
    /\ \/ IF client[c].tries = 2 THEN Go(c, Idle) ELSE Go(c, [tries |-> client[c].tries + 1])
       \/ account.id # NoOne /\ Go(c, Idle)
       \/ account.id = NoOne /\ Go(c, [at |-> "apply", log |-> SignupLog(client[c].id).ops])
    /\ UNCHANGED <<blocks, ptrs, account, ops, losses, ghosts>>

At(w) == IF w \in DOMAIN ptrs THEN {ptrs[w]} ELSE {}

ApplyOplog(c) ==
    /\ client[c].at = "apply" /\ client[c].log # <<>>
    /\ LET o == Head(client[c].log)
       IN IF o.op = "put" THEN blocks' = blocks \union {o.block} /\ UNCHANGED ptrs
          ELSE /\ ptrs' = IF At(o.writer) = o.old THEN (o.writer :> o.block) @@ ptrs ELSE ptrs
               /\ UNCHANGED blocks
    /\ Go(c, [log |-> Tail(client[c].log)])
    /\ UNCHANGED <<account, ops, losses, ghosts>>

LoginData(c) == [salt |-> client[c].salt, pass |-> client[c].new, id |-> client[c].id]

Register(c) ==
    /\ client[c].at = "apply" /\ client[c].log = <<>>
    /\ account' = Registered(client[c].id, LoginData(c))
    /\ raced' = (raced \/ account.id # NoOne)
    /\ Go(c, [at |-> "reply"])
    /\ UNCHANGED <<blocks, ptrs, ops, losses, told, unsure, overlapped, behind>>

-----------------------------------------------------------------------------
(* Login, change_password and mirror_login_data *)

\* get_public_key_hash: the identity of the name.
Find(c) ==
    /\ client[c].at = "find"
    /\ IF account.id = NoOne THEN Go(c, Idle) ELSE Go(c, [at |-> "derive", id |-> account.id])
    /\ UNCHANGED <<blocks, ptrs, account, ops, losses, ghosts>>

\* generate_user, with the algorithm that the identity's WriterData names.
Derive(c) ==
    /\ client[c].at = "derive"
    /\ Identity(client[c].id) \in DOMAIN ptrs /\ ptrs[Identity(client[c].id)] \in blocks
    /\ Go(c, [at |-> "fetch", salt |-> ptrs[Identity(client[c].id)].algorithm])
    /\ UNCHANGED <<blocks, ptrs, account, ops, losses, ghosts>>

\* decrypt_entry_points: only the key that encrypted them opens them.
Opens(c, login) == login.salt = client[c].salt /\ login.pass = client[c].pass

\* A session signs with the identity key in the entry points.
Session(login) == [at |-> "in", signer |-> login.id]

\* get_login_data; or the second factor is not accepted.
Fetch(c) ==
    /\ client[c].at = "fetch"
    /\ LET l == account.logins[account.home]
       IN \/ Go(c, Idle)
          \/ /\ Opens(c, l)
             /\ Go(c, IF client[c].op = "login" THEN Session(l) ELSE [at |-> "set", signer |-> l.id])
    /\ UNCHANGED <<blocks, ptrs, account, ops, losses, ghosts>>

\* Mutant of NewLogin: a password comes with a new salt.
NewLoginSalted(c) == [salt |-> ops + 1, pass |-> client[c].new, id |-> client[c].signer]

\* The same entry points, encrypted again: the salt is kept.
NewLogin(c) == [salt |-> client[c].salt, pass |-> client[c].new, id |-> client[c].signer]

\* Login data is set at the home server or, to mirror it, at the one connected to.
SetAt(c) == IF client[c].op = "mirror" THEN client[c].server ELSE account.home

\* setLogin: what is there is replaced.
SetLogin(c) ==
    /\ client[c].at = "set"
    /\ account' = [account EXCEPT !.logins[SetAt(c)] = NewLogin(c)]
    /\ overlapped' = (overlapped \/ \E d \in Clients \ {c} : client[d].at \in {"set", "reply"})
    /\ Go(c, [at |-> "reply"])
    /\ UNCHANGED <<blocks, ptrs, ops, losses, told, unsure, raced, behind>>

\* The client is told; after a signup it signs in.
Reply(c) ==
    /\ client[c].at = "reply"
    /\ IF client[c].op = "signup" THEN Go(c, [at |-> "find", op |-> "login"]) ELSE Go(c, Idle)
    /\ told' = IF client[c].op = "mirror" THEN told ELSE client[c].new
    /\ unsure' = (unsure /\ client[c].op = "mirror")
    /\ UNCHANGED <<blocks, ptrs, account, ops, losses, raced, overlapped, behind>>

\* The request or its reply is lost.
Lose(c) ==
    /\ client[c].at \notin {"idle", "in", "apply"} /\ losses < MaxLost
    /\ losses' = losses + 1
    /\ unsure' = (unsure \/ client[c].at = "reply")
    /\ Go(c, Idle)
    /\ UNCHANGED <<blocks, ptrs, account, ops, told, raced, overlapped, behind>>

\* The last claim of the chain now names the server.
Migrated(s) == [account EXCEPT !.home = s]

\* migrate_to_this_server, with the key of the session.
MigrateUser(c) ==
    \E s \in Servers \ {account.home} :
        /\ client[c].at = "in" /\ client[c].signer = account.id
        /\ account' = Migrated(s)
        /\ behind' = (behind \/ account.logins[s] # account.logins[account.home])
        /\ UNCHANGED <<blocks, ptrs, client, ops, losses, told, unsure, raced, overlapped>>

Next ==
    \E c \in Clients :
        \/ SignUp(c) \/ Login(c) \/ ChangePassword(c) \/ MirrorLoginData(c)
        \/ PostSignup(c) \/ ApplyOplog(c) \/ Register(c)
        \/ Find(c) \/ Derive(c) \/ Fetch(c) \/ SetLogin(c) \/ Reply(c) \/ Lose(c) \/ MigrateUser(c)

Spec == Init /\ [][Next]_vars

-----------------------------------------------------------------------------
\* The block and all it leads to are stored.
Whole(b) == b \in blocks /\ \A l \in Links(b) : l \in blocks /\ Links(l) \subseteq blocks

(* However far a signup's log has been applied, no pointer leads to a block that is
   missing, so nothing half-made is ever read; and a registered account has the whole of
   it: the identity that authorises the home writer, and its special directories. *)
AccountsWhole ==
    /\ \A w \in DOMAIN ptrs : Whole(ptrs[w])
    /\ account.id # NoOne =>
          /\ {Identity(account.id), HomeWriter(account.id)} \subseteq DOMAIN ptrs
          /\ \E c \in ptrs[Identity(account.id)].owned : OwnerProof(account.id) \in c.of
          /\ \E c \in ptrs[HomeWriter(account.id)].tree :
                /\ DirBlock(account.id, "home", ToSet(Dirs)) \in c.of
                /\ \A i \in 1..Len(Dirs) : DirBlock(account.id, Dirs[i], {}) \in c.of

(* The password of the last signup or change that was told to succeed opens the account,
   and no other does (change_password: "After this succeeds, sign in again with
   `new_password`"): it fits the salt that login reads and the entry points are those of
   the identity.  Not while one of unknown outcome came after it, nor after two clients
   set the login data at the same time, nor after the account moved to a server that was
   not given the current login data. *)
PasswordInForce ==
    account.id # NoOne /\ ~unsure /\ ~raced /\ ~overlapped /\ ~behind /\ (\A c \in Clients : client[c].at # "reply") =>
        account.logins[account.home] = [salt |-> ptrs[Identity(account.id)].algorithm, pass |-> told, id |-> account.id]

(* A session signs with the key of the identity it was opened for (login): also when the
   name went to another identity between the requests of a login. *)
RightIdentity ==
    \A c \in Clients : client[c].at = "in" => client[c].signer = client[c].id
=============================================================================
