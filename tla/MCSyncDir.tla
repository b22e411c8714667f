----------------------------- MODULE MCSyncDir -----------------------------
(* A directory with a file file, its first two conflict names, and a file g in a
   subdirectory e with its first conflict name.  Both users edit file; one of them also writes g, or moves file there. *)
EXTENDS SyncDir, TLC

CONSTANTS base, e, file, f0, f1, g, g0

MCFiles == {file, f0, f1, g, g0}
MCDirOf == [p \in MCFiles |-> IF p \in {g, g0} THEN e ELSE base]
MCSortedFiles == <<g, g0, file, f0, f1>>
MCRemoteOrder == <<file, f0, f1, g, g0>>
MCCandidates == (file :> <<f0, f1>>) @@ (f0 :> <<f1>>) @@ (f1 :> <<>>) @@ (g :> <<g0>>) @@ (g0 :> <<>>)
Same == {<<1>>, <<2>>, <<3>>}
MCStart == {[p \in MCFiles |-> IF p = file THEN <<1>> ELSE None]}
Both == {<<"local", file>>, <<"remote", file>>}
Setting(kind, chunk, edited, removed, limit, faults) ==
  [kind |-> kind, chunk |-> chunk, order |-> MCRemoteOrder, edits |-> edited, removes |-> removed,
   limit |-> limit, faults |-> faults]
MCSettings ==
  { Setting("disk", 0, Both \cup {<<"local", g>>}, {<<"remote", e>>}, 2, 1),
    Setting("disk", 2, Both \cup {<<"remote", g>>}, {<<"local", e>>}, 2, 1),
    Setting("peergos", 2, Both \cup {<<"local", g>>}, {}, 2, 1),
    Setting("peergos", 0, Both, {}, 3, 0) }

\* A file of two bytes that the remote user replaces by one of one byte.
Shorter == {<<1, 1>>, <<2>>}
ShorterStart == {[p \in MCFiles |-> IF p = file THEN <<1, 1>> ELSE None]}
ShorterSettings == {Setting("peergos", 0, {<<"remote", file>>}, {}, 1, 0)}
=============================================================================
