-------------------------- MODULE MC_Coordinator ----------------------------
(* Instances of Coordinator: the configured protocols and the bounds.         *)
EXTENDS Coordinator, TLC

V1V1 == [p \in Pools |-> "V1"]
V1V2 == [primary |-> "V1", fallback |-> "V2"]
V2V1 == [primary |-> "V2", fallback |-> "V1"]

(* A fallback pool that is used on failure, that the user prefers, or none.   *)
Failover     == [hasFallback |-> TRUE,  useFallback |-> FALSE]
UserFallback == [hasFallback |-> TRUE,  useFallback |-> TRUE]
OnePool      == [hasFallback |-> FALSE, useFallback |-> FALSE]
AllSettings  == {Failover, UserFallback, OnePool}
JustFailover == {Failover}

MCSymmetry == Permutations(Tasks)
=============================================================================
