--------------------------- MODULE MCPointerCache ---------------------------
(* Instances of PointerCache for TLC. *)
EXTENDS PointerCache, TLC

TwoTasks == ("t1" :> {"w1"}) @@ ("t2" :> {"w1"})
OneTask  == "t1" :> {"w1", "w2"}
=============================================================================
