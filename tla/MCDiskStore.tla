----------------------------- MODULE MCDiskStore -----------------------------
(* TLC instance of DiskStore: k1 is a prefix of k2 and both are prefixes of *)
(* k3, whose hash is k1's. *)
EXTENDS DiskStore

CONSTANTS k1, k2, k3, m1

Colliding == k1 :> "f1" @@ k2 :> "f2" @@ k3 :> "f1"
OneModel == [k \in Keys |-> m1]
Sizes == k1 :> 1 @@ k2 :> 1 @@ k3 :> 3
Depths == k1 :> 1 @@ k2 :> 2 @@ k3 :> 3
Chain == k1 :> {} @@ k2 :> {k1} @@ k3 :> {k1, k2}
=============================================================================
