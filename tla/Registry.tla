------------------------------ MODULE Registry ------------------------------
(***************************************************************************)
(* The account registry of the Albus program: service providers, policies, *)
(* circuits, issuers and trustees, with every instruction that creates,    *)
(* updates or closes one of them (programs/albus/src/instructions).        *)
(*                                                                         *)
(* An account lives at an address derived from its key (PDA): a service    *)
(* from its code, a policy from <<service, code>>, and so on, so the state *)
(* is one function per account type, Closed where no account exists.  A    *)
(* transaction that errors changes nothing, so an error return of a        *)
(* handler is a guard.  The descriptive fields (names, urls, created_at,   *)
(* bump) are left out.                                                     *)
(***************************************************************************)
EXTENDS Integers, Sequences, FiniteSets

CONSTANTS
  Signers,      \* the keys that sign transactions
  Admins,       \* AUTHORIZED_AUTHORITY, a subset of the signers
  Services,     \* service codes
  PolicyCodes,  \* policy codes within a service
  Circuits,     \* circuit codes
  Issuers,      \* issuer codes
  Trustees,     \* trustee keys
  TrusteeLists, \* the trustee lists a service may be given
  Thresholds,   \* secret_share_threshold values
  RuleSets,     \* the rule lists a policy may have
  Periods,      \* expiration_period values, 0 for none
  Retentions,   \* retention_period values
  Layouts,      \* circuit signal tables: signal name -> first input position
  VkVersions,   \* generations of a verification key
  IcLen,        \* ic points of a complete key: public inputs + 1
  MaxIc,        \* bound on the ic points an account collects
  ZkKeys,       \* issuer zk public keys
  MaxCount,     \* bound on the counters of a service
  Closed,       \* no account at this address
  None          \* an absent optional argument

Policies == Services \X PolicyCodes
ServiceOf(p) == p[1]

ServiceAccount == [authority: Signers, secret_share_threshold: Nat,
                   trustees: Seq(Trustees), policy_count: Nat,
                   proof_request_count: Nat]
PolicyAccount == [circuit: Circuits, rules: RuleSets, expiration_period: Nat,
                  retention_period: Nat, proof_request_count: Nat]
VerificationKey == [head: VkVersions \cup {None}, ic: Seq(VkVersions)]
CircuitAccount == [signals: Layouts, vk: VerificationKey]
IssuerAccount == [authority: Signers, zk_pubkey: ZkKeys, is_disabled: BOOLEAN]
TrusteeAccount == [authority: Signers, is_verified: BOOLEAN,
                   revealed_share_count: Nat]

ASSUME RegistryAssumption ==
  /\ Admins \subseteq Signers
  /\ IcLen \in Nat /\ MaxIc \in Nat /\ MaxCount \in Nat
  /\ Periods \subseteq Nat /\ Retentions \subseteq Nat /\ Thresholds \subseteq Nat
  /\ TrusteeLists \subseteq Seq(Trustees)
  /\ IsFiniteSet(Services) /\ IsFiniteSet(PolicyCodes)
  /\ Closed \notin PolicyAccount /\ Closed \notin ServiceAccount

VARIABLES
  service, policy, circuit, issuer, trustee,
  adminClosed   \* history: the services an admin closed, or closed a policy of

registryVars == <<service, policy, circuit, issuer, trustee, adminClosed>>

Live(accounts) == {k \in DOMAIN accounts : accounts[k] # Closed}

\* The key of one generation, whole: what a finished update leaves.
CompleteVk(v) == [head |-> v, ic |-> [i \in 1..IcLen |-> v]]

RegistryInit ==
  /\ service = [s \in Services |-> Closed]
  /\ policy = [p \in Policies |-> Closed]
  /\ circuit = [c \in Circuits |-> Closed]
  /\ issuer = [i \in Issuers |-> Closed]
  /\ trustee = [t \in Trustees |-> Closed]
  /\ adminClosed = {}

-----------------------------------------------------------------------------
\* Service providers.

\* An optional field of an instruction: None keeps what the account holds.
OrElse(new, old) == IF new = None THEN old ELSE new

CreateServiceProvider(a, s, auth, threshold, ts) ==
  /\ a \in Admins
  /\ service[s] = Closed
  /\ service' = [service EXCEPT ![s] =
       [authority |-> auth, secret_share_threshold |-> threshold,
        trustees |-> ts, policy_count |-> 0, proof_request_count |-> 0]]
  /\ UNCHANGED <<policy, circuit, issuer, trustee, adminClosed>>

SelectableTrustee(t) == trustee[t] # Closed /\ trustee[t].is_verified

\* Remaining accounts, when there are any, replace the trustees; every one of
\* them must be a verified trustee account.
UpdateServiceProvider(a, s, auth, threshold, clear, ts) ==
  /\ service[s] # Closed
  /\ a = service[s].authority
  /\ \A i \in DOMAIN ts : SelectableTrustee(ts[i])
  /\ service' = [service EXCEPT
       ![s].authority = OrElse(auth, @),
       ![s].secret_share_threshold = OrElse(threshold, @),
       ![s].trustees = IF clear \/ ts # <<>> THEN ts ELSE @]
  /\ UNCHANGED <<policy, circuit, issuer, trustee, adminClosed>>

\* Only the service account goes: its policies and requests stay behind.
DeleteServiceProvider(a, s) ==
  /\ a \in Admins
  /\ service[s] # Closed
  /\ service' = [service EXCEPT ![s] = Closed]
  /\ adminClosed' = adminClosed \cup {s}
  /\ UNCHANGED <<policy, circuit, issuer, trustee>>

-----------------------------------------------------------------------------
\* Policies.  Anybody may create one for any service.

CreatePolicy(p, c, rules, period, retention) ==
  /\ service[ServiceOf(p)] # Closed
  /\ service[ServiceOf(p)].policy_count < MaxCount
  /\ circuit[c] # Closed
  /\ policy[p] = Closed
  /\ service' = [service EXCEPT ![ServiceOf(p)].policy_count = @ + 1]
  /\ policy' = [policy EXCEPT ![p] =
       [circuit |-> c, rules |-> rules, expiration_period |-> period,
        retention_period |-> retention, proof_request_count |-> 0]]
  /\ UNCHANGED <<circuit, issuer, trustee, adminClosed>>

UpdatePolicy(a, p, rules, period, retention) ==
  /\ policy[p] # Closed /\ service[ServiceOf(p)] # Closed
  /\ a = service[ServiceOf(p)].authority
  /\ policy' = [policy EXCEPT
       ![p].rules = OrElse(rules, @),
       ![p].expiration_period = OrElse(period, @),
       ![p].retention_period = OrElse(retention, @)]
  /\ UNCHANGED <<service, circuit, issuer, trustee, adminClosed>>

Uncounted(n) == n            \* faults: the count is kept,
Wrapping(n) == n - 1         \*         or passes zero
CountDown(n) == IF n = 0 THEN 0 ELSE n - 1

DeletePolicy(a, p) ==
  /\ policy[p] # Closed /\ service[ServiceOf(p)] # Closed
  /\ a = service[ServiceOf(p)].authority
  /\ service' = [service EXCEPT ![ServiceOf(p)].policy_count = CountDown(@)]
  /\ policy' = [policy EXCEPT ![p] = Closed]
  /\ UNCHANGED <<circuit, issuer, trustee, adminClosed>>

-----------------------------------------------------------------------------
\* Circuits.  The verification key arrives in several transactions: the first
\* sets the head and starts the ic list, the following ones extend it.

CreateCircuit(a, c, signals) ==
  /\ a \in Admins
  /\ circuit[c] = Closed
  /\ circuit' = [circuit EXCEPT ![c] =
       [signals |-> signals, vk |-> [head |-> None, ic |-> <<>>]]]
  /\ UNCHANGED <<service, policy, issuer, trustee, adminClosed>>

UpdateCircuitVk(a, c, head, ic, extend) ==
  /\ a \in Admins
  /\ circuit[c] # Closed
  /\ LET old == circuit[c].vk
         all == IF extend THEN old.ic \o ic ELSE ic
     IN /\ Len(all) <= MaxIc
        /\ circuit' = [circuit EXCEPT ![c].vk =
             [head |-> OrElse(head, old.head), ic |-> all]]
  /\ UNCHANGED <<service, policy, issuer, trustee, adminClosed>>

DeleteCircuit(a, c) ==
  /\ a \in Admins
  /\ circuit[c] # Closed
  /\ circuit' = [circuit EXCEPT ![c] = Closed]
  /\ UNCHANGED <<service, policy, issuer, trustee, adminClosed>>

-----------------------------------------------------------------------------
\* Issuers.

CreateIssuer(a, i, auth, key) ==
  /\ a \in Admins
  /\ issuer[i] = Closed
  /\ issuer' = [issuer EXCEPT ![i] =
       [authority |-> auth, zk_pubkey |-> key, is_disabled |-> FALSE]]
  /\ UNCHANGED <<service, policy, circuit, trustee, adminClosed>>

DeleteIssuer(a, i) ==
  /\ a \in Admins
  /\ issuer[i] # Closed
  /\ issuer' = [issuer EXCEPT ![i] = Closed]
  /\ UNCHANGED <<service, policy, circuit, trustee, adminClosed>>

-----------------------------------------------------------------------------
\* Trustees.  Anybody may register a trustee for itself, an admin for another.

CreateTrustee(a, t, auth) ==
  /\ auth = None \/ a \in Admins
  /\ trustee[t] = Closed
  /\ trustee' = [trustee EXCEPT ![t] =
       [authority |-> OrElse(auth, a), is_verified |-> FALSE,
        revealed_share_count |-> 0]]
  /\ UNCHANGED <<service, policy, circuit, issuer, adminClosed>>

UpdateTrustee(a, t, auth) ==
  /\ trustee[t] # Closed
  /\ a = trustee[t].authority
  /\ trustee' = [trustee EXCEPT ![t].authority = auth]
  /\ UNCHANGED <<service, policy, circuit, issuer, adminClosed>>

VerifyTrustee(a, t) ==
  /\ a \in Admins
  /\ trustee[t] # Closed
  /\ trustee' = [trustee EXCEPT ![t].is_verified = TRUE]
  /\ UNCHANGED <<service, policy, circuit, issuer, adminClosed>>

DeleteTrustee(a, t) ==
  /\ a \in Admins
  /\ trustee[t] # Closed
  /\ trustee' = [trustee EXCEPT ![t] = Closed]
  /\ UNCHANGED <<service, policy, circuit, issuer, adminClosed>>

-----------------------------------------------------------------------------
\* close_account closes any account of the program and updates no counter.
\* Closing a service, circuit, issuer or trustee this way is what the delete
\* instructions above do; closing a policy is not.
AdminClosePolicy(a, p) ==
  /\ a \in Admins
  /\ policy[p] # Closed
  /\ policy' = [policy EXCEPT ![p] = Closed]
  /\ adminClosed' = adminClosed \cup {ServiceOf(p)}
  /\ UNCHANGED <<service, circuit, issuer, trustee>>

-----------------------------------------------------------------------------
ServiceNext == \E a \in Signers, s \in Services :
  \/ \E auth \in Signers, n \in Thresholds, ts \in TrusteeLists :
       CreateServiceProvider(a, s, auth, n, ts)
  \/ \E auth \in Signers \cup {None}, n \in Thresholds \cup {None},
        clear \in BOOLEAN, ts \in TrusteeLists :
       UpdateServiceProvider(a, s, auth, n, clear, ts)
  \/ DeleteServiceProvider(a, s)

PolicyNext == \E p \in Policies :
  \/ \E c \in Circuits, rules \in RuleSets, period \in Periods, ret \in Retentions :
       CreatePolicy(p, c, rules, period, ret)
  \/ \E a \in Signers, rules \in RuleSets \cup {None},
        period \in Periods \cup {None}, ret \in Retentions \cup {None} :
       UpdatePolicy(a, p, rules, period, ret)
  \/ \E a \in Signers : DeletePolicy(a, p)
  \/ \E a \in Signers : AdminClosePolicy(a, p)

\* ic chunks of one key generation; the first call of an update carries the head.
IcChunks == {[i \in 1..n |-> v] : v \in VkVersions, n \in 1..IcLen}

CircuitNext == \E a \in Signers, c \in Circuits :
  \/ \E signals \in Layouts : CreateCircuit(a, c, signals)
  \/ \E ic \in IcChunks : UpdateCircuitVk(a, c, ic[1], ic, FALSE)
  \/ \E ic \in IcChunks : UpdateCircuitVk(a, c, None, ic, TRUE)
  \/ DeleteCircuit(a, c)

IssuerNext == \E a \in Signers, i \in Issuers :
  \/ \E auth \in Signers, key \in ZkKeys : CreateIssuer(a, i, auth, key)
  \/ DeleteIssuer(a, i)

TrusteeNext == \E a \in Signers, t \in Trustees :
  \/ \E auth \in Signers \cup {None} : CreateTrustee(a, t, auth)
  \/ \E auth \in Signers : UpdateTrustee(a, t, auth)
  \/ VerifyTrustee(a, t)
  \/ DeleteTrustee(a, t)

RegistryNext == ServiceNext \/ PolicyNext \/ CircuitNext \/ IssuerNext \/ TrusteeNext

RegistrySpec == RegistryInit /\ [][RegistryNext]_registryVars

-----------------------------------------------------------------------------
RegistryTypeOK ==
  /\ service \in [Services -> ServiceAccount \cup {Closed}]
  /\ policy \in [Policies -> PolicyAccount \cup {Closed}]
  /\ circuit \in [Circuits -> CircuitAccount \cup {Closed}]
  /\ issuer \in [Issuers -> IssuerAccount \cup {Closed}]
  /\ trustee \in [Trustees -> TrusteeAccount \cup {Closed}]
  /\ adminClosed \subseteq Services

PoliciesOf(s) == {p \in Policies : ServiceOf(p) = s /\ policy[p] # Closed}

\* policy_count of a service is the number of its live policies, through every
\* interleaving of creations and deletions by different signers, as long as no
\* admin closed the service or one of its policies from under the counter.
PolicyCountExact ==
  \A s \in Services :
    service[s] # Closed /\ s \notin adminClosed =>
      service[s].policy_count = Cardinality(PoliciesOf(s))
=============================================================================
