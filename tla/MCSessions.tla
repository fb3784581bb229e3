----------------------------- MODULE MCSessions -----------------------------
(* One user with two devices and a request, and the owner of the service, who *)
(* is also the program's admin.  Transactions have room for two inputs, so the five   *)
(* inputs of the circuit take three; its key takes three more.                *)
EXTENDS Sessions, TLC

CONSTANTS adm, user, phone, laptop, desk, kyc, k1, v1, v2, t1, i1

MCWallet == phone :> user @@ laptop :> user @@ desk :> adm
MCTrusteeLists == {<<>>, <<t1>>}
MCLayout == "timestamp" :> 1 @@ "minAge" :> 2 @@ "countryLookup" :> 3 @@ "issuerPk" :> 5
MCLayouts == {MCLayout}
MCArraySize == "minAge" :> 0 @@ "countryLookup" :> 2 @@ "timestamp" :> 0 @@ "issuerPk" :> 0
Rule(k, n) == [key |-> k, value |-> n]
Start0 == <<Rule("countryLookup", 40), Rule("countryLookup", 41), Rule("minAge", 18)>>
MCRuleSets ==
  {<<>>, Start0, <<Rule("countryLookup", 40), Rule("minAge", 18), Rule("minAge", 21)>>,
   <<Rule("minAge", 18), Rule("timestamp", 0), Rule("countryLookup", 40)>>}
MCCredentials == {[validUntil |-> 3, key |-> 7, age |-> 21]}
MCOwnKey == i1 :> adm

MCSessionsInit ==
  /\ service = [s \in Services |-> [authority |-> adm, secret_share_threshold |-> 2,
                  trustees |-> <<t1>>, policy_count |-> 1, proof_request_count |-> 1]]
  /\ policy = [p \in Policies |-> [circuit |-> CHOOSE c \in Circuits : TRUE,
                  rules |-> Start0, expiration_period |-> 0, retention_period |-> 0,
                  proof_request_count |-> 1]]
  /\ circuit = [c \in Circuits |-> [signals |-> MCLayout, vk |-> CompleteVk(v1)]]
  /\ issuer = [i \in Issuers |-> [authority |-> adm, zk_pubkey |-> 7, is_disabled |-> FALSE]]
  /\ trustee = [t \in Trustees |->
                  [authority |-> adm, is_verified |-> TRUE, revealed_share_count |-> 0]]
  /\ adminClosed = {}
  /\ now = 1
  /\ request = [r \in Requests |->
                  [BlankRequest(k1) EXCEPT !.created_at = 1, !.identifier = 1]]
  /\ history = [r \in Requests |-> NoHistory]
  /\ SessionsInit

SessionsSpec == MCSessionsInit /\ [][SessionsNext]_allVars
=============================================================================
