-------------------------- MODULE MCActorRegistry --------------------------
(***************************************************************************)
(* Three actors, two of which share a name, and three threads, each of  *)
(* which may register and unregister any of them.                          *)
(***************************************************************************)
EXTENDS ActorRegistry, TLC

CONSTANTS a1, a2, a3, n1, n2, t1, t2, t3

SharedName == (a1 :> n1) @@ (a2 :> n1) @@ (a3 :> n2)
=============================================================================
