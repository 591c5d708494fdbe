-------------------------- MODULE MCArtifactCache --------------------------
(* Small instances of ArtifactCache for TLC: two tasks share a key, a third  *)
(* shares their stripe, and any two entries of size two break the quota.     *)
EXTENDS ArtifactCache, TLC

CONSTANTS t1, t2, t3, a, b, c, s1

TwoSame == (t1 :> a) @@ (t2 :> a) @@ (t3 :> b)
OneStripe == [k \in Keys |-> s1]
Sizes == (a :> 2) @@ (b :> 2) @@ (c :> 1)
=============================================================================
