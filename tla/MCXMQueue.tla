----------------------------- MODULE MCXMQueue -----------------------------
(***************************************************************************)
(* An instance of XMQueue for TLC: two threads that put, one that gets,    *)
(* and one that makes the other calls, as the recorder's threads do.       *)
(***************************************************************************)
EXTENDS XMQueue, TLC

CONSTANTS p1, p2, getter, manager

MCThreads == {p1, p2, getter, manager}
MCOps == (p1 :> {"put"}) @@ (p2 :> {"put"}) @@ (getter :> {"get"}) @@
         (manager :> {"size", "flush", "abort", "start", "notify"})
=============================================================================
