----------------------------- MODULE MCCounters -----------------------------
(* The counters of a service, over its whole registry or over its requests:  *)
(* every registry instruction from an empty program, with two policy codes,  *)
(* two trustees and two signers, one of them an admin; or two users' requests *)
(* for two policies that come and go, under a deployed service that does too. *)
EXTENDS MCProofRequest

CONSTANTS t1, t2
VARIABLE part          \* which of the two
countersVars == <<vars, part>>

MCThreeLists == {<<>>, <<t1>>, <<t1, t2>>}

CountersInit == \/ part = "registry" /\ Init
                \/ part = "requests" /\ Deployed
CountersNext ==
  \/ part = "registry" /\ RegistryStep /\ UNCHANGED part
  \/ part = "requests" /\ (RequestsComeAndGo \/ ServiceChange) /\ UNCHANGED part
CountersSpec == CountersInit /\ [][CountersNext]_countersVars
=============================================================================
