-------------------------------- MODULE MCVc --------------------------------
EXTENDS Vc, TLC
TwoClaims == <<[name |-> "name", value |-> [text |-> "x", spaces |-> 1]],
               [name |-> "age", value |-> [text |-> "y", spaces |-> 0]]>>
MCClaimSets == {TwoClaims}
MCTypes == {<<"IdCard">>}
MCSymmetry == Permutations(Addresses) \cup Permutations(Pairs)
=============================================================================
