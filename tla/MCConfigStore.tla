--------------------------- MODULE MCConfigStore ----------------------------
(* Instances of ConfigStore for TLC: requests are interchangeable. *)
EXTENDS ConfigStore, TLC

CONSTANTS workers, size, ttl

RequestSymmetry == Permutations(Requests)

ThreeKeys == {workers, size, ttl}
KindOfKeys ==
    (workers :> "number") @@ (size :> "megabytes") @@ (ttl :> "duration_seconds")

Touched(k) ==
    \/ row[k] # [there |-> TRUE, value |-> "default", described |-> TRUE]
    \/ mem[k] # "default"
    \/ At(k) # {} \/ k \in blind \cup overlapped \cup missed

\* Bound: keys do not touch each other, so one at a time is followed.
OneKeyAtATime == Cardinality({k \in Keys : Touched(k)}) <= 1
=============================================================================
