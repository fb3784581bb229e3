--------------------------- MODULE MCProofRequest ---------------------------
(* Small instances of ProofRequest that start from a deployed registry: one  *)
(* service, its policy, a circuit with a complete key and one issuer.        *)
EXTENDS ProofRequest, TLC

CONSTANTS adm, sp, u1, u2, kyc, age, v1, v2

MCTrusteeLists == {<<>>}
\* Positions of the public inputs; minAge is what the policy's rule sets.
MCLayout == "timestamp" :> 1 @@ "meta_validUntil" :> 2 @@ "issuerPk" :> 3 @@ "minAge" :> 4
MCLayouts == {MCLayout}
MCRuleSets == {<<[key |-> "minAge", value |-> 18]>>, <<[key |-> "minAge", value |-> 21]>>}
MCOneRuleSet == {<<[key |-> "minAge", value |-> 18]>>}

\* Input vectors clients prove: at time 1 under the first rule and the first key,
\* and later, with another credential, under the other rule and key.
V1 == <<1, 2, 7, 18>>
V2 == <<2, 3, 7, 21>>
MCChunks == {<<>>, SubSeq(V1, 1, 2), SubSeq(V1, 3, 4), V1, V2}
MCProofs == {[inputs |-> V1, vk |-> v1], [inputs |-> V2, vk |-> v2]}

Deployed ==
  /\ service = [s \in Services |-> [authority |-> sp, secret_share_threshold |-> 2,
                  trustees |-> <<>>, policy_count |-> Cardinality(PolicyCodes),
                  proof_request_count |-> 0]]
  /\ \E period \in Periods :
       policy = [p \in Policies |-> [circuit |-> CHOOSE c \in Circuits : TRUE,
                  rules |-> <<[key |-> "minAge", value |-> 18]>>,
                  expiration_period |-> period, retention_period |-> 3,
                  proof_request_count |-> 0]]
  /\ circuit = [c \in Circuits |-> [signals |-> MCLayout, vk |-> CompleteVk(v1)]]
  /\ issuer = [i \in Issuers |-> [authority |-> sp, zk_pubkey |-> 7, is_disabled |-> FALSE]]
  /\ trustee = [t \in Trustees |-> Closed]
  /\ adminClosed = {}
  /\ now = 1
  /\ request = [r \in Requests |-> Closed]
  /\ history = [r \in Requests |-> NoHistory]

\* The registry changes that matter to a proof: the rules of the policy and the
\* circuit's key.
RulesOrVkChange ==
  /\ \/ \E p \in Policies, rules \in RuleSets : UpdatePolicy(sp, p, rules, None, None)
     \/ \E c \in Circuits, v \in VkVersions :
          UpdateCircuitVk(adm, c, v, CompleteVk(v).ic, FALSE)
  /\ UNCHANGED requestVars

\* Policies come and go under the counters, by their owner or by an admin, who
\* may also close the service and start it again.
ServiceChange ==
  /\ \E p \in Policies, c \in Circuits, rules \in RuleSets :
       \/ CreatePolicy(p, c, rules, 0, 3)
       \/ DeletePolicy(sp, p)
       \/ AdminClosePolicy(adm, p)
       \/ DeleteServiceProvider(adm, ServiceOf(p))
       \/ CreateServiceProvider(adm, ServiceOf(p), sp, 2, <<>>)
  /\ UNCHANGED requestVars

ProvingSpec == Deployed /\ [][ProofRequestNext \/ RulesOrVkChange]_vars

\* The counters do not read status, proof or time: requests only come and go.
RequestsComeAndGo ==
  \/ \E u \in Users, p \in Policies, e \in ExpiresIn : CreateProofRequest(u, p, e)
  \/ \E a \in Signers, r \in Requests :
       DeleteProofRequest(a, r) \/ AdminCloseProofRequest(a, r)
=============================================================================
