------------------------- MODULE MCSessionRuntime -------------------------
(* SessionRuntime on small instances. *)
EXTENDS SessionRuntime, TLC
CONSTANTS u1, r1, b1, s1

KindOf ==
  (u1 :> "user") @@ (r1 :> "resume") @@ (b1 :> "batch") @@ (s1 :> "silent")

InstanceKind == [i \in Inputs |-> KindOf[i]]
=============================================================================
