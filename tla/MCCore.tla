------------------------------- MODULE MCCore -------------------------------
(* albus-core: the pure functions, one job after the other, or the history   *)
(* of a claims tree.                                                         *)
EXTENDS ClaimsTree, TLC
CONSTANTS Hex, NRoundsF, NRoundsP, Chunk, Two128, KeyBits, Width, BaseField, GroupOrder,
          HalfBits, Rounds, Kinds
VARIABLE job

A == INSTANCE MCAlgebra

CoreInit == Init /\ A!Init
CoreNext ==
  \/ job = A!Idle /\ Next /\ UNCHANGED job
  \/ Init /\ A!Next /\ UNCHANGED vars
CoreSpec == CoreInit /\ [][CoreNext]_<<vars, job>>

NameSymmetry == Permutations(Names)

FieldExact == A!FieldExact
EncodingsRoundTrip == A!EncodingsRoundTrip
DigestsAgree == A!DigestsAgree
RandomUniform == A!RandomUniform
SignaturesSound == A!SignaturesSound
CiphertextBinds == A!CiphertextBinds
SharesReachSecret == A!SharesReachSecret
WireAgrees == A!WireAgrees
=============================================================================
