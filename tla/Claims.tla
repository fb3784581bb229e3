------------------------------- MODULE Claims -------------------------------
(***************************************************************************)
(* What a claims tree promises: a finite map from claim names to values.    *)
(***************************************************************************)
CONSTANTS Names, Values, None
VARIABLE store
CInit == store = [n \in Names |-> None]
Put(n, v) == store' = [store EXCEPT ![n] = v]
CNext == \E n \in Names, v \in Values \cup {None} : Put(n, v)
CSpec == CInit /\ [][CNext]_store
=============================================================================
