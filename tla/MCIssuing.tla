------------------------------ MODULE MCIssuing ------------------------------
(* Two holders, one of them the authority of requests for both, and two       *)
(* workers of an operator that runs two issuers.                              *)
EXTENDS Issuing, TLC

CONSTANTS adm, op, u1, u2, i1, i2, k1, k2

Symmetric ==
  Permutations({u1, u2}) \cup Permutations({i1, i2}) \cup Permutations(Mints) \cup Permutations(Workers)

MCKeyOf == [k \in Workers |-> op]

MCIssuingInit ==
  /\ service = [s \in Services |-> Closed]
  /\ policy = [p \in Policies |-> Closed]
  /\ circuit = [c \in Circuits |-> Closed]
  /\ issuer = [i \in Issuers |-> [authority |-> op, zk_pubkey |-> 7, is_disabled |-> FALSE]]
  /\ trustee = [t \in Trustees |-> Closed]
  /\ adminClosed = {}
  /\ spec = [s \in Specs |-> 0]
  /\ IssuingInit

MCIssuingSpec == MCIssuingInit /\ [][IssuingNext]_issuingVars
=============================================================================
