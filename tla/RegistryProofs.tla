--------------------------- MODULE RegistryProofs ---------------------------
(* The registry keeps its types, and the policy counter of a service counts  *)
(* its policies, for any sets of signers, services, policies and trustees.   *)
EXTENDS Registry, FiniteSetTheorems, TLAPS

\* Every registry instruction writes accounts of their type.
LEMMA ServiceTypeStep ==
  ASSUME RegistryTypeOK, ServiceNext
  PROVE  RegistryTypeOK'
<1> USE RegistryAssumption DEF RegistryAssumption
<1> PICK a \in Signers, s \in Services :
      \/ \E auth \in Signers, n \in Thresholds, ts \in TrusteeLists :
           CreateServiceProvider(a, s, auth, n, ts)
      \/ \E auth \in Signers \cup {None}, n \in Thresholds \cup {None},
            clear \in BOOLEAN, ts \in TrusteeLists :
           UpdateServiceProvider(a, s, auth, n, clear, ts)
      \/ DeleteServiceProvider(a, s)
  BY DEF ServiceNext
<1>1. CASE \E auth \in Signers, n \in Thresholds, ts \in TrusteeLists :
             CreateServiceProvider(a, s, auth, n, ts)
  <2> PICK auth \in Signers, n \in Thresholds, ts \in TrusteeLists :
        CreateServiceProvider(a, s, auth, n, ts)
    BY <1>1
  <2> DEFINE new == [authority |-> auth, secret_share_threshold |-> n,
                     trustees |-> ts, policy_count |-> 0, proof_request_count |-> 0]
  <2>1. new \in ServiceAccount
    BY DEF ServiceAccount
  <2>2. service' = [service EXCEPT ![s] = new]
    BY DEF CreateServiceProvider
  <2>3. service' \in [Services -> ServiceAccount \cup {Closed}]
    <3> HIDE DEF new
    <3> QED BY <2>1, <2>2 DEF RegistryTypeOK
  <2> QED
    BY <2>3 DEF CreateServiceProvider, RegistryTypeOK
<1>2. CASE \E auth \in Signers \cup {None}, n \in Thresholds \cup {None},
              clear \in BOOLEAN, ts \in TrusteeLists :
             UpdateServiceProvider(a, s, auth, n, clear, ts)
  <2> PICK auth \in Signers \cup {None}, n \in Thresholds \cup {None},
           clear \in BOOLEAN, ts \in TrusteeLists :
        UpdateServiceProvider(a, s, auth, n, clear, ts)
    BY <1>2
  <2> DEFINE old == service[s]
             new == [old EXCEPT !.authority = OrElse(auth, old.authority),
                       !.secret_share_threshold = OrElse(n, old.secret_share_threshold),
                       !.trustees = IF clear \/ ts # <<>> THEN ts ELSE old.trustees]
  <2>1. old \in ServiceAccount
    BY DEF UpdateServiceProvider, RegistryTypeOK
  <2>2. new \in ServiceAccount
    BY <2>1 DEF ServiceAccount, OrElse
  <2>3. service' = [service EXCEPT ![s] = new]
    BY DEF UpdateServiceProvider
  <2>4. service' \in [Services -> ServiceAccount \cup {Closed}]
    <3> HIDE DEF new
    <3> QED BY <2>2, <2>3 DEF RegistryTypeOK
  <2> QED
    BY <2>4 DEF UpdateServiceProvider, RegistryTypeOK
<1>3. CASE DeleteServiceProvider(a, s)
  BY <1>3 DEF DeleteServiceProvider, RegistryTypeOK
<1> QED
  BY <1>1, <1>2, <1>3

LEMMA PolicyTypeStep ==
  ASSUME RegistryTypeOK, PolicyNext
  PROVE  RegistryTypeOK'
<1> USE RegistryAssumption DEF RegistryAssumption
<1> PICK p \in Policies :
      \/ \E c \in Circuits, rules \in RuleSets, period \in Periods, ret \in Retentions :
           CreatePolicy(p, c, rules, period, ret)
      \/ \E a \in Signers, rules \in RuleSets \cup {None},
            period \in Periods \cup {None}, ret \in Retentions \cup {None} :
           UpdatePolicy(a, p, rules, period, ret)
      \/ \E a \in Signers : DeletePolicy(a, p)
      \/ \E a \in Signers : AdminClosePolicy(a, p)
  BY DEF PolicyNext
<1>0. ServiceOf(p) \in Services
  BY DEF Policies, ServiceOf
<1>1. CASE \E c \in Circuits, rules \in RuleSets, period \in Periods, ret \in Retentions :
             CreatePolicy(p, c, rules, period, ret)
  <2> PICK c \in Circuits, rules \in RuleSets, period \in Periods, ret \in Retentions :
        CreatePolicy(p, c, rules, period, ret)
    BY <1>1
  <2> DEFINE s == ServiceOf(p)
             counted == [service[s] EXCEPT !.policy_count = service[s].policy_count + 1]
             new == [circuit |-> c, rules |-> rules, expiration_period |-> period,
                     retention_period |-> ret, proof_request_count |-> 0]
  <2>0. service[s] \in ServiceAccount
    BY <1>0 DEF CreatePolicy, RegistryTypeOK
  <2>1. counted \in ServiceAccount
    <3>1. service[s].policy_count + 1 \in Nat
      BY <2>0 DEF ServiceAccount
    <3> QED
      BY <2>0, <3>1 DEF ServiceAccount
  <2>2. new \in PolicyAccount
    BY DEF PolicyAccount
  <2>3. /\ service' = [service EXCEPT ![s] = counted]
        /\ policy' = [policy EXCEPT ![p] = new]
    BY DEF CreatePolicy
  <2>4. /\ service' \in [Services -> ServiceAccount \cup {Closed}]
        /\ policy' \in [Policies -> PolicyAccount \cup {Closed}]
    <3> HIDE DEF counted, new, s
    <3> QED BY <1>0, <2>1, <2>2, <2>3 DEF RegistryTypeOK
  <2> QED
    BY <2>4 DEF CreatePolicy, RegistryTypeOK
<1>2. CASE \E a \in Signers, rules \in RuleSets \cup {None},
              period \in Periods \cup {None}, ret \in Retentions \cup {None} :
             UpdatePolicy(a, p, rules, period, ret)
  <2> PICK a \in Signers, rules \in RuleSets \cup {None},
           period \in Periods \cup {None}, ret \in Retentions \cup {None} :
        UpdatePolicy(a, p, rules, period, ret)
    BY <1>2
  <2> DEFINE old == policy[p]
             new == [old EXCEPT !.rules = OrElse(rules, old.rules),
                       !.expiration_period = OrElse(period, old.expiration_period),
                       !.retention_period = OrElse(ret, old.retention_period)]
  <2>1. old \in PolicyAccount
    BY DEF UpdatePolicy, RegistryTypeOK
  <2>2. new \in PolicyAccount
    BY <2>1 DEF PolicyAccount, OrElse
  <2>3. policy' = [policy EXCEPT ![p] = new]
    BY DEF UpdatePolicy
  <2>4. policy' \in [Policies -> PolicyAccount \cup {Closed}]
    <3> HIDE DEF new
    <3> QED BY <2>2, <2>3 DEF RegistryTypeOK
  <2> QED
    BY <2>4 DEF UpdatePolicy, RegistryTypeOK
<1>3. CASE \E a \in Signers : DeletePolicy(a, p)
  <2>1. [service[ServiceOf(p)] EXCEPT !.policy_count = CountDown(@)] \in ServiceAccount
    <3>1. PICK s : s = service[ServiceOf(p)]
      OBVIOUS
    <3>2. s \in ServiceAccount
      BY <1>0, <1>3, <3>1 DEF DeletePolicy, RegistryTypeOK
    <3>3. s.policy_count \in Nat
      BY <3>2 DEF ServiceAccount
    <3>4. CountDown(s.policy_count) \in Nat
      BY <3>3 DEF CountDown
    <3>5. [s EXCEPT !.policy_count = CountDown(s.policy_count)] \in ServiceAccount
      BY ONLY <3>2, <3>4 DEF ServiceAccount
    <3> QED BY <3>1, <3>5
  <2>2. service' \in [Services -> ServiceAccount \cup {Closed}]
    BY <1>0, <1>3, <2>1 DEF DeletePolicy, RegistryTypeOK
  <2> QED
    BY <1>3, <2>2 DEF DeletePolicy, RegistryTypeOK
<1>4. CASE \E a \in Signers : AdminClosePolicy(a, p)
  BY <1>0, <1>4 DEF AdminClosePolicy, RegistryTypeOK
<1> QED
  BY <1>1, <1>2, <1>3, <1>4

LEMMA CircuitTypeStep ==
  ASSUME RegistryTypeOK, CircuitNext
  PROVE  RegistryTypeOK'
<1> PICK a \in Signers, c \in Circuits :
      \/ \E signals \in Layouts : CreateCircuit(a, c, signals)
      \/ \E ic \in IcChunks : UpdateCircuitVk(a, c, ic[1], ic, FALSE)
      \/ \E ic \in IcChunks : UpdateCircuitVk(a, c, None, ic, TRUE)
      \/ DeleteCircuit(a, c)
  BY DEF CircuitNext
<1>0. ASSUME NEW ic \in IcChunks
      PROVE  ic \in Seq(VkVersions) /\ ic[1] \in VkVersions
  BY RegistryAssumption DEF IcChunks
<1>1. CASE \E signals \in Layouts : CreateCircuit(a, c, signals)
  BY <1>1 DEF CreateCircuit, RegistryTypeOK, CircuitAccount, VerificationKey
<1>2. ASSUME NEW head \in VkVersions \cup {None}, NEW ic \in IcChunks,
             NEW extend \in BOOLEAN, UpdateCircuitVk(a, c, head, ic, extend)
      PROVE  RegistryTypeOK'
  <2> DEFINE old == circuit[c].vk
             vk == [head |-> OrElse(head, old.head),
                    ic |-> IF extend THEN old.ic \o ic ELSE ic]
  <2>1. circuit[c] \in CircuitAccount /\ old \in VerificationKey
    BY <1>2 DEF UpdateCircuitVk, RegistryTypeOK, CircuitAccount
  <2>2. vk \in VerificationKey
    BY <1>0, <2>1 DEF VerificationKey, OrElse
  <2>3. circuit' = [circuit EXCEPT ![c].vk = vk]
    BY <1>2 DEF UpdateCircuitVk
  <2>4. [circuit[c] EXCEPT !.vk = vk] \in CircuitAccount
    BY <2>1, <2>2 DEF CircuitAccount
  <2> QED
    BY <1>2, <2>3, <2>4 DEF UpdateCircuitVk, RegistryTypeOK
<1>3. CASE \E ic \in IcChunks : UpdateCircuitVk(a, c, ic[1], ic, FALSE)
  BY <1>0, <1>2, <1>3
<1>4. CASE \E ic \in IcChunks : UpdateCircuitVk(a, c, None, ic, TRUE)
  BY <1>2, <1>4
<1>5. CASE DeleteCircuit(a, c)
  BY <1>5 DEF DeleteCircuit, RegistryTypeOK
<1> QED
  BY <1>1, <1>3, <1>4, <1>5

LEMMA IssuerTypeStep ==
  ASSUME RegistryTypeOK, IssuerNext
  PROVE  RegistryTypeOK'
<1> PICK a \in Signers, i \in Issuers :
      \/ \E auth \in Signers, key \in ZkKeys : CreateIssuer(a, i, auth, key)
      \/ DeleteIssuer(a, i)
  BY DEF IssuerNext
<1>1. CASE \E auth \in Signers, key \in ZkKeys : CreateIssuer(a, i, auth, key)
  BY <1>1 DEF CreateIssuer, RegistryTypeOK, IssuerAccount
<1>2. CASE DeleteIssuer(a, i)
  BY <1>2 DEF DeleteIssuer, RegistryTypeOK
<1> QED
  BY <1>1, <1>2

LEMMA TrusteeTypeStep ==
  ASSUME RegistryTypeOK, TrusteeNext
  PROVE  RegistryTypeOK'
<1> PICK a \in Signers, t \in Trustees :
      \/ \E auth \in Signers \cup {None} : CreateTrustee(a, t, auth)
      \/ \E auth \in Signers : UpdateTrustee(a, t, auth)
      \/ VerifyTrustee(a, t)
      \/ DeleteTrustee(a, t)
  BY DEF TrusteeNext
<1>1. CASE \E auth \in Signers \cup {None} : CreateTrustee(a, t, auth)
  BY <1>1 DEF CreateTrustee, RegistryTypeOK, TrusteeAccount, OrElse
<1>2. CASE \E auth \in Signers : UpdateTrustee(a, t, auth)
  BY <1>2 DEF UpdateTrustee, RegistryTypeOK, TrusteeAccount
<1>3. CASE VerifyTrustee(a, t)
  BY <1>3 DEF VerifyTrustee, RegistryTypeOK, TrusteeAccount
<1>4. CASE DeleteTrustee(a, t)
  BY <1>4 DEF DeleteTrustee, RegistryTypeOK
<1> QED
  BY <1>1, <1>2, <1>3, <1>4

LEMMA RegistryTypeStep ==
  ASSUME RegistryTypeOK, RegistryNext
  PROVE  RegistryTypeOK'
BY ServiceTypeStep, PolicyTypeStep, CircuitTypeStep, IssuerTypeStep, TrusteeTypeStep
   DEF RegistryNext

LEMMA RegistryTypeInit == RegistryInit => RegistryTypeOK
BY DEF RegistryInit, RegistryTypeOK

\* Type correctness of the registry (state.rs): every account stays an account
\* of its type, or closed, whatever instructions run.
THEOREM RegistryTypeCorrect == RegistrySpec => []RegistryTypeOK
<1>1. RegistryTypeOK /\ UNCHANGED registryVars => RegistryTypeOK'
  BY DEF RegistryTypeOK, registryVars
<1> QED
  BY RegistryTypeInit, RegistryTypeStep, <1>1, PTL DEF RegistrySpec

-----------------------------------------------------------------------------
\* The policy counter.  It is exact only together with the fact that a service
\* that no longer exists, or does not yet, has no policies unless an admin left
\* them behind: creation starts the counter at zero.
NoOrphanPolicies ==
  \A s \in Services : service[s] = Closed /\ s \notin adminClosed => PoliciesOf(s) = {}

CountInv == RegistryTypeOK /\ PolicyCountExact /\ NoOrphanPolicies

LEMMA PoliciesFinite ==
  ASSUME NEW s \in Services
  PROVE  /\ IsFiniteSet(PoliciesOf(s))
         /\ Cardinality(PoliciesOf(s)) \in Nat
<1>1. IsFiniteSet(Policies)
  BY RegistryAssumption, FS_Product DEF RegistryAssumption, Policies
<1>2. PoliciesOf(s) \subseteq Policies
  BY DEF PoliciesOf
<1> QED
  BY <1>1, <1>2, FS_Subset, FS_CardinalityType

LEMMA CountInvService ==
  ASSUME CountInv, ServiceNext
  PROVE  PolicyCountExact' /\ NoOrphanPolicies'
<1> PICK a \in Signers, s \in Services :
      \/ \E auth \in Signers, n \in Thresholds, ts \in TrusteeLists :
           CreateServiceProvider(a, s, auth, n, ts)
      \/ \E auth \in Signers \cup {None}, n \in Thresholds \cup {None},
            clear \in BOOLEAN, ts \in TrusteeLists :
           UpdateServiceProvider(a, s, auth, n, clear, ts)
      \/ DeleteServiceProvider(a, s)
  BY DEF ServiceNext
<1>0. \A x \in Services : PoliciesOf(x)' = PoliciesOf(x)
  BY DEF PoliciesOf, CreateServiceProvider, UpdateServiceProvider, DeleteServiceProvider
<1>1. ASSUME NEW auth \in Signers, NEW n \in Thresholds, NEW ts \in TrusteeLists,
             CreateServiceProvider(a, s, auth, n, ts)
      PROVE  PolicyCountExact' /\ NoOrphanPolicies'
  <2>1. \A x \in Services \ {s} : service'[x] = service[x]
    BY <1>1 DEF CreateServiceProvider, CountInv, RegistryTypeOK
  <2>2. service'[s].policy_count = 0 /\ service[s] = Closed /\ service'[s] # Closed
        /\ adminClosed' = adminClosed
    <3> DEFINE new == [authority |-> auth, secret_share_threshold |-> n,
                     trustees |-> ts, policy_count |-> 0, proof_request_count |-> 0]
    <3>1. new \in ServiceAccount
      BY RegistryAssumption DEF ServiceAccount, RegistryAssumption
    <3> QED
      BY <1>1, <3>1, RegistryAssumption
      DEF CreateServiceProvider, CountInv, RegistryTypeOK, RegistryAssumption
  <2> QED
    BY <1>0, <2>1, <2>2, FS_EmptySet DEF CountInv, PolicyCountExact, NoOrphanPolicies
<1>2. ASSUME NEW auth \in Signers \cup {None}, NEW n \in Thresholds \cup {None},
             NEW clear \in BOOLEAN, NEW ts \in TrusteeLists,
             UpdateServiceProvider(a, s, auth, n, clear, ts)
      PROVE  PolicyCountExact' /\ NoOrphanPolicies'
  <2>1. \A x \in Services \ {s} : service'[x] = service[x]
    BY <1>2 DEF UpdateServiceProvider, CountInv, RegistryTypeOK
  <2>2. service[s] # Closed /\ adminClosed' = adminClosed
    BY <1>2 DEF UpdateServiceProvider
  <2>3. service'[s].policy_count = service[s].policy_count /\ service'[s] # Closed
    <3> DEFINE old == service[s]
               new == [old EXCEPT !.authority = OrElse(auth, old.authority),
                         !.secret_share_threshold = OrElse(n, old.secret_share_threshold),
                         !.trustees = IF clear \/ ts # <<>> THEN ts ELSE old.trustees]
    <3>1. old \in ServiceAccount
      BY <2>2 DEF CountInv, RegistryTypeOK
    <3>2. new \in ServiceAccount /\ new.policy_count = old.policy_count
      BY <3>1, RegistryAssumption DEF ServiceAccount, OrElse, RegistryAssumption
    <3>3. service'[s] = new
      BY <1>2 DEF UpdateServiceProvider, CountInv, RegistryTypeOK
    <3> QED
      BY <3>2, <3>3, RegistryAssumption DEF RegistryAssumption
  <2> QED
    BY <1>0, <2>1, <2>2, <2>3 DEF CountInv, PolicyCountExact, NoOrphanPolicies
<1>3. CASE DeleteServiceProvider(a, s)
  <2>1. \A x \in Services \ {s} : service'[x] = service[x]
    BY <1>3 DEF DeleteServiceProvider, CountInv, RegistryTypeOK
  <2>2. service'[s] = Closed /\ adminClosed' = adminClosed \cup {s}
    BY <1>3 DEF DeleteServiceProvider, CountInv, RegistryTypeOK
  <2> QED
    BY <1>0, <2>1, <2>2 DEF CountInv, PolicyCountExact, NoOrphanPolicies
<1> QED
  BY <1>1, <1>2, <1>3

LEMMA CountInvPolicy ==
  ASSUME CountInv, PolicyNext
  PROVE  PolicyCountExact' /\ NoOrphanPolicies'
<1> PICK p \in Policies :
      \/ \E c \in Circuits, rules \in RuleSets, period \in Periods, ret \in Retentions :
           CreatePolicy(p, c, rules, period, ret)
      \/ \E a \in Signers, rules \in RuleSets \cup {None},
            period \in Periods \cup {None}, ret \in Retentions \cup {None} :
           UpdatePolicy(a, p, rules, period, ret)
      \/ \E a \in Signers : DeletePolicy(a, p)
      \/ \E a \in Signers : AdminClosePolicy(a, p)
  BY DEF PolicyNext
<1> DEFINE s == ServiceOf(p)
<1>s. s \in Services
  BY DEF Policies, ServiceOf
<1>t. RegistryTypeOK /\ RegistryTypeOK'
  BY PolicyTypeStep DEF CountInv
<1>1. ASSUME NEW c \in Circuits, NEW rules \in RuleSets,
             NEW period \in Periods, NEW ret \in Retentions,
             CreatePolicy(p, c, rules, period, ret)
      PROVE  PolicyCountExact' /\ NoOrphanPolicies'
  <2>1. /\ service[s] \in ServiceAccount /\ service'[s] # Closed
        /\ service'[s].policy_count = service[s].policy_count + 1
        /\ adminClosed' = adminClosed
        /\ \A x \in Services \ {s} : service'[x] = service[x]
    <3>1. service[s] \in ServiceAccount
      BY <1>1, <1>s, <1>t DEF CreatePolicy, RegistryTypeOK
    <3>2. service' = [service EXCEPT ![s] = [service[s] EXCEPT !.policy_count = service[s].policy_count + 1]]
      BY <1>1 DEF CreatePolicy
    <3>3. [service[s] EXCEPT !.policy_count = service[s].policy_count + 1] \in ServiceAccount
      BY <3>1 DEF ServiceAccount
    <3>4. service = [x \in Services |-> service[x]] /\ adminClosed' = adminClosed
      BY <1>1, <1>t DEF CreatePolicy, RegistryTypeOK
    <3>5. /\ service'[s] = [service[s] EXCEPT !.policy_count = service[s].policy_count + 1]
          /\ \A x \in Services \ {s} : service'[x] = service[x]
      BY <1>s, <3>2, <3>4
    <3>6. service'[s].policy_count = service[s].policy_count + 1
      BY <3>1, <3>5 DEF ServiceAccount
    <3>7. service'[s] # Closed
      BY <3>3, <3>5, RegistryAssumption DEF RegistryAssumption
    <3> QED
      BY <3>1, <3>4, <3>5, <3>6, <3>7
  <2>2. policy[p] = Closed /\ policy'[p] # Closed
        /\ \A q \in Policies \ {p} : policy'[q] = policy[q]
    <3>1. [circuit |-> c, rules |-> rules, expiration_period |-> period,
           retention_period |-> ret, proof_request_count |-> 0] \in PolicyAccount
      BY RegistryAssumption DEF PolicyAccount, RegistryAssumption
    <3> QED
      BY <1>1, <1>t, <3>1, RegistryAssumption
      DEF CreatePolicy, RegistryTypeOK, RegistryAssumption
  <2>3. /\ PoliciesOf(s)' = PoliciesOf(s) \cup {p} /\ p \notin PoliciesOf(s)
        /\ \A x \in Services \ {s} : PoliciesOf(x)' = PoliciesOf(x)
    BY <2>2 DEF PoliciesOf
  <2>4. Cardinality(PoliciesOf(s)') = Cardinality(PoliciesOf(s)) + 1
    BY <1>s, <2>3, PoliciesFinite, FS_AddElement
  <2>5. service[s] # Closed
    BY <1>1 DEF CreatePolicy
  <2> QED
    BY <2>1, <2>3, <2>4, <2>5, <1>s DEF CountInv, PolicyCountExact, NoOrphanPolicies
<1>2. ASSUME NEW a \in Signers, NEW rules \in RuleSets \cup {None},
             NEW period \in Periods \cup {None}, NEW ret \in Retentions \cup {None},
             UpdatePolicy(a, p, rules, period, ret)
      PROVE  PolicyCountExact' /\ NoOrphanPolicies'
  <2>1. \A q \in Policies : policy'[q] = Closed <=> policy[q] = Closed
    <3> DEFINE old == policy[p]
               new == [old EXCEPT !.rules = OrElse(rules, old.rules),
                         !.expiration_period = OrElse(period, old.expiration_period),
                         !.retention_period = OrElse(ret, old.retention_period)]
    <3>1. old \in PolicyAccount
      BY <1>2, <1>t DEF UpdatePolicy, RegistryTypeOK
    <3>2. new \in PolicyAccount
      BY <3>1, RegistryAssumption DEF PolicyAccount, OrElse, RegistryAssumption
    <3>3. policy' = [policy EXCEPT ![p] = new]
      BY <1>2 DEF UpdatePolicy
    <3> HIDE DEF new
    <3> QED
      BY <1>t, <3>1, <3>2, <3>3, RegistryAssumption DEF RegistryTypeOK, RegistryAssumption
  <2>2. \A x \in Services : PoliciesOf(x)' = PoliciesOf(x)
    BY <2>1 DEF PoliciesOf
  <2> QED
    BY <1>2, <2>2 DEF UpdatePolicy, CountInv, PolicyCountExact, NoOrphanPolicies
<1>3. ASSUME NEW a \in Signers, DeletePolicy(a, p)
      PROVE  PolicyCountExact' /\ NoOrphanPolicies'
  <2>1. /\ service[s] # Closed /\ service[s] \in ServiceAccount /\ service'[s] # Closed
        /\ service'[s].policy_count = CountDown(service[s].policy_count)
        /\ adminClosed' = adminClosed
        /\ \A x \in Services \ {s} : service'[x] = service[x]
    <3>1. service[s] \in ServiceAccount
      BY <1>3, <1>s, <1>t DEF DeletePolicy, RegistryTypeOK
    <3>2. service' = [service EXCEPT ![s] =
                        [service[s] EXCEPT !.policy_count = CountDown(service[s].policy_count)]]
      BY <1>3 DEF DeletePolicy
    <3>3. [service[s] EXCEPT !.policy_count = CountDown(service[s].policy_count)] \in ServiceAccount
      BY <3>1 DEF ServiceAccount, CountDown
    <3> QED
      BY <1>3, <1>s, <1>t, <3>1, <3>2, <3>3, RegistryAssumption
      DEF DeletePolicy, RegistryTypeOK, RegistryAssumption, ServiceAccount
  <2>2. /\ PoliciesOf(s)' = PoliciesOf(s) \ {p} /\ p \in PoliciesOf(s)
        /\ \A x \in Services \ {s} : PoliciesOf(x)' = PoliciesOf(x)
    <3>1. policy[p] # Closed /\ policy'[p] = Closed
          /\ \A q \in Policies \ {p} : policy'[q] = policy[q]
      BY <1>3, <1>t DEF DeletePolicy, RegistryTypeOK
    <3> QED
      BY <3>1 DEF PoliciesOf
  <2>3. Cardinality(PoliciesOf(s)') = Cardinality(PoliciesOf(s)) - 1
    BY <1>s, <2>2, PoliciesFinite, FS_RemoveElement
  <2>4. Cardinality(PoliciesOf(s)) # 0
    BY <1>s, <2>2, PoliciesFinite, FS_EmptySet
  <2>5. s \notin adminClosed =>
          service'[s].policy_count = Cardinality(PoliciesOf(s)')
    BY <1>s, <2>1, <2>3, <2>4, PoliciesFinite DEF CountInv, PolicyCountExact, CountDown
  <2> QED
    BY <1>s, <2>1, <2>2, <2>5 DEF CountInv, PolicyCountExact, NoOrphanPolicies
<1>4. ASSUME NEW a \in Signers, AdminClosePolicy(a, p)
      PROVE  PolicyCountExact' /\ NoOrphanPolicies'
  <2>1. /\ service' = service /\ adminClosed' = adminClosed \cup {s}
        /\ \A q \in Policies \ {p} : policy'[q] = policy[q]
    BY <1>4, <1>t DEF AdminClosePolicy, RegistryTypeOK
  <2>2. \A x \in Services \ {s} : PoliciesOf(x)' = PoliciesOf(x)
    BY <2>1 DEF PoliciesOf
  <2> QED
    BY <2>1, <2>2 DEF CountInv, PolicyCountExact, NoOrphanPolicies
<1> QED
  BY <1>1, <1>2, <1>3, <1>4

LEMMA CountInvStep ==
  ASSUME CountInv, [RegistryNext]_registryVars
  PROVE  CountInv'
<1>1. CASE ServiceNext
  BY <1>1, ServiceTypeStep, CountInvService DEF CountInv
<1>2. CASE PolicyNext
  BY <1>2, PolicyTypeStep, CountInvPolicy DEF CountInv
<1>3. CASE UNCHANGED <<service, policy, adminClosed>>
  <2>1. PolicyCountExact' /\ NoOrphanPolicies'
    BY <1>3 DEF CountInv, PolicyCountExact, NoOrphanPolicies, PoliciesOf
  <2>2. RegistryTypeOK'
    BY RegistryTypeStep DEF CountInv, RegistryTypeOK, registryVars
  <2> QED
    BY <2>1, <2>2 DEF CountInv
<1>4. CircuitNext \/ IssuerNext \/ TrusteeNext => UNCHANGED <<service, policy, adminClosed>>
  BY DEF CircuitNext, IssuerNext, TrusteeNext, CreateCircuit, UpdateCircuitVk,
         DeleteCircuit, CreateIssuer, DeleteIssuer, CreateTrustee, UpdateTrustee,
         VerifyTrustee, DeleteTrustee
<1> QED
  BY <1>1, <1>2, <1>3, <1>4 DEF RegistryNext, registryVars

\* state.rs:284 counts a service's policies: the counter equals the number of
\* its live policies over every history of creations and deletions in which no
\* admin closed the service, or a policy of it, without the counter.
THEOREM PolicyCountCorrect == RegistrySpec => []PolicyCountExact
<1>1. RegistryInit => CountInv
  <2>1. RegistryInit => PolicyCountExact /\ NoOrphanPolicies
    BY DEF RegistryInit, PolicyCountExact, NoOrphanPolicies, PoliciesOf
  <2> QED
    BY <2>1, RegistryTypeInit DEF CountInv
<1>2. CountInv => PolicyCountExact
  BY DEF CountInv
<1> QED
  BY <1>1, <1>2, CountInvStep, PTL DEF RegistrySpec
=============================================================================
