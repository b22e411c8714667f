----------------------------- MODULE SharedTree -----------------------------
(* What committing to a writer promises to every device that shares it.      *)
(*                                                                           *)
(* Devices make edits; an edit replaces, under one key of one writer, the    *)
(* version its author saw there.  Edits may wait, be dropped, be published   *)
(* together or never.  Publishing moves a key only to a version that         *)
(* descends, edit by edit, from the version it replaces: nothing another     *)
(* device has published is overwritten unseen.                               *)
EXTENDS Naturals, Sequences

CONSTANTS Writers, Keys

VARIABLES
    tree,    \* the published version of each key of each writer; 0: none
    edits    \* version |-> the writer and key it is for, the version it replaces

vars == <<tree, edits>>

Edit == [writer : Writers, key : Keys, parent : Nat]

(* The versions an edit builds on, itself included: those in every set that  *)
(* has the edit and, with an edit, the version it replaces.                  *)
Closed(log, s) == \A v \in s \ {0} : log[v].parent \in s

Ancestors(log, v) ==
    {a \in 0..Len(log) :
        \A s \in SUBSET (0..Len(log)) : v \in s /\ Closed(log, s) => a \in s}

Init ==
    /\ tree = [w \in Writers |-> [k \in Keys |-> 0]]
    /\ edits = <<>>

MakeEdit ==
    \/ UNCHANGED edits
    \/ \E w \in Writers, k \in Keys, old \in 0..Len(edits) :
          edits' = Append(edits, [writer |-> w, key |-> k, parent |-> old])

Publish ==
    \A w \in Writers, k \in Keys :
        tree'[w][k] # tree[w][k] =>
            /\ tree'[w][k] \in 1..Len(edits')
            /\ edits'[tree'[w][k]].writer = w /\ edits'[tree'[w][k]].key = k
            /\ tree[w][k] \in Ancestors(edits', tree'[w][k])

Next == MakeEdit /\ Publish

Spec == Init /\ [][Next]_vars

=============================================================================
