------------------------- MODULE ProofRequestProofs -------------------------
(* What a proof request account keeps true through every interleaving of the *)
(* handlers, for any sets of users, policies, rules, signals and proofs.     *)
EXTENDS ProofRequest, RegistryProofs, WellFoundedInduction, SequenceTheorems

-----------------------------------------------------------------------------
(* Lemmas about the operators.                                               *)

\* Induction over the natural numbers, for sets.
LEMMA SetInduction ==
  ASSUME NEW S \in SUBSET Nat, 0 \in S, \A n \in S : n + 1 \in S
  PROVE  S = Nat
<1> SUFFICES ASSUME S # Nat PROVE FALSE
  OBVIOUS
<1> DEFINE R == Nat \ S
<1>1. R # {} /\ R \subseteq Nat
  OBVIOUS
<1>2. PICK m \in R : \A j \in R : ~ (<<j, m>> \in OpToRel(<, Nat))
  <2> HIDE DEF R
  <2> QED BY <1>1, NatLessThanWellFounded, WFMin
<1>3. \A j \in R : ~ (j < m)
  <2>1. \A j \in R : j \in Nat
    BY <1>1
  <2> HIDE DEF R
  <2> QED BY <1>1, <1>2, <2>1 DEF OpToRel
<1>4. m \in Nat /\ m \notin S /\ m # 0
  OBVIOUS
<1>5. m - 1 \in Nat /\ m - 1 < m /\ (m - 1) + 1 = m
  BY <1>4
<1>6. m - 1 \in S
  BY <1>3, <1>5
<1> QED
  BY <1>4, <1>5, <1>6

\* Two functions that start and go on in the same way are the same: what makes a
\* definition by recursion say what it says.
LEMMA SameRecursion ==
  ASSUME NEW N \in Nat, NEW f, NEW g, f[0] = g[0],
         \A n \in 0..(N - 1) : f[n] = g[n] => f[n + 1] = g[n + 1]
  PROVE  \A n \in 0..N : f[n] = g[n]
<1> DEFINE S == {n \in Nat : n \in 0..N => f[n] = g[n]}
<1>1. 0 \in S
  OBVIOUS
<1>2. \A n \in S : n + 1 \in S
  OBVIOUS
<1>3. S = Nat
  <2> HIDE DEF S
  <2>1. S \in SUBSET Nat
    BY DEF S
  <2> QED BY <1>1, <1>2, <2>1, SetInduction
<1> QED
  BY <1>3

\* LastOf picks a member: a set of positions of a sequence has a last one.
LEMMA LastOfMember ==
  ASSUME NEW n \in Nat, NEW S, S \subseteq 1..n, S # {}
  PROVE  LastOf(S) \in S
<1> DEFINE T == {n - k : k \in S}
<1>1. T \subseteq Nat /\ T # {}
  <2>1. \A k \in S : n - k \in Nat
    OBVIOUS
  <2>2. PICK k \in S : TRUE
    OBVIOUS
  <2> QED
    BY <2>1, <2>2
<1>2. PICK x \in T : \A y \in T : ~ (<<y, x>> \in OpToRel(<, Nat))
  <2> HIDE DEF T
  <2> QED BY <1>1, NatLessThanWellFounded, WFMin
<1>3. \A y \in T : ~ (y < x)
  BY <1>1, <1>2 DEF OpToRel
<1>4. PICK j \in S : x = n - j
  OBVIOUS
<1>5. \A k \in S : k <= j
  <2> TAKE k \in S
  <2>1. n - k \in T
    OBVIOUS
  <2>2. ~ (n - k < n - j)
    BY <1>3, <1>4, <2>1
  <2>3. k \in Int /\ j \in Int
    OBVIOUS
  <2> QED
    BY <2>2, <2>3
<1> QED
  BY <1>5 DEF LastOf

\* Applying the rules keeps the number of inputs and their type.
LEMMA ApplyRulesType ==
  ASSUME NEW inputs \in Seq(Nat), NEW signals, NEW rules \in RuleSets
  PROVE  /\ ApplyRules(inputs, signals, rules) \in Seq(Nat)
         /\ Len(ApplyRules(inputs, signals, rules)) = Len(inputs)
         /\ DOMAIN ApplyRules(inputs, signals, rules) = DOMAIN inputs
<1>1. rules \in Seq([key: STRING, value: Nat])
  BY ProofRequestAssumption DEF ProofRequestAssumption
<1>2. ASSUME NEW i \in DOMAIN inputs, RulesAt(signals, rules, i) # {}
      PROVE  rules[LastOf(RulesAt(signals, rules, i))].value \in Nat
  <2>1. RulesAt(signals, rules, i) \subseteq 1..Len(rules)
    BY <1>1 DEF RulesAt
  <2>2. LastOf(RulesAt(signals, rules, i)) \in 1..Len(rules)
    <3>1. Len(rules) \in Nat
      BY <1>1
    <3>2. LastOf(RulesAt(signals, rules, i)) \in RulesAt(signals, rules, i)
      BY ONLY <1>2, <2>1, <3>1, LastOfMember
    <3> QED
      BY ONLY <2>1, <3>2
  <2> DEFINE j == LastOf(RulesAt(signals, rules, i))
  <2>3. rules[j] \in [key: STRING, value: Nat]
    <3>1. j \in 1..Len(rules)
      BY <2>2
    <3> HIDE DEF j
    <3> QED BY <1>1, <3>1, ElementOfSeq
  <2> HIDE DEF j
  <2>4. rules[j].value \in Nat
    BY <2>3
  <2> QED
    BY <2>4 DEF j
<1>3. \A i \in DOMAIN inputs :
        (IF RulesAt(signals, rules, i) = {} THEN inputs[i]
         ELSE rules[LastOf(RulesAt(signals, rules, i))].value) \in Nat
  BY <1>2
<1> DEFINE f == ApplyRules(inputs, signals, rules)
<1>4. DOMAIN inputs = 1..Len(inputs) /\ Len(inputs) \in Nat
  OBVIOUS
<1>5. f \in [1..Len(inputs) -> Nat]
  BY <1>3, <1>4 DEF ApplyRules
<1> HIDE DEF f
<1>6. f \in Seq(Nat) /\ Len(f) = Len(inputs) /\ DOMAIN f = DOMAIN inputs
  BY <1>4, <1>5
<1> QED
  BY <1>6 DEF f

\* Binding the issuer's key overwrites one input with a field element.
LEMMA BindIssuerType ==
  ASSUME RegistryTypeOK,
         NEW inputs \in Seq(Nat), NEW signals, NEW iss \in Issuers \cup {None},
         iss # None => issuer[iss] # Closed,
         IssuerAccepted(inputs, signals, iss)
  PROVE  /\ BindIssuer(inputs, signals, iss) \in Seq(Nat)
         /\ Len(BindIssuer(inputs, signals, iss)) = Len(inputs)
         /\ DOMAIN BindIssuer(inputs, signals, iss) = DOMAIN inputs
<1>1. CASE "issuerPk" \in DOMAIN signals
  <2>1. iss \in Issuers /\ issuer[iss] # Closed /\ signals["issuerPk"] \in DOMAIN inputs
    BY <1>1 DEF IssuerAccepted
  <2>2. issuer[iss].zk_pubkey \in Nat
    <3>1. issuer[iss] \in IssuerAccount
      BY <2>1 DEF RegistryTypeOK
    <3> QED
      BY <3>1, ProofRequestAssumption DEF IssuerAccount, ProofRequestAssumption
  <2> DEFINE g == [inputs EXCEPT ![signals["issuerPk"]] = issuer[iss].zk_pubkey]
  <2>3. g \in [1..Len(inputs) -> Nat] /\ Len(inputs) \in Nat
    BY <2>1, <2>2
  <2>4. BindIssuer(inputs, signals, iss) = g
    BY <1>1 DEF BindIssuer
  <2> HIDE DEF g
  <2> QED
    BY <2>3, <2>4
<1>2. CASE "issuerPk" \notin DOMAIN signals
  <2>1. BindIssuer(inputs, signals, iss) = inputs
    BY <1>2 DEF BindIssuer
  <2> QED
    BY <2>1
<1> QED
  BY <1>1, <1>2

\* A request account stays one when a field is given a value of its type.
LEMMA FieldUpdate ==
  ASSUME NEW q \in RequestAccount
  PROVE  /\ \A c \in Circuits : [q EXCEPT !.circuit = c] \in RequestAccount
         /\ \A i \in Issuers \cup {None} : [q EXCEPT !.issuer = i] \in RequestAccount
         /\ \A s \in Status : [q EXCEPT !.status = s] \in RequestAccount
         /\ \A p \in ProofData \cup {None} : [q EXCEPT !.proof = p] \in RequestAccount
         /\ \A x \in Seq(Nat) : [q EXCEPT !.public_inputs = x] \in RequestAccount
         /\ \A n \in Nat : /\ [q EXCEPT !.identifier = n] \in RequestAccount
                           /\ [q EXCEPT !.created_at = n] \in RequestAccount
                           /\ [q EXCEPT !.expired_at = n] \in RequestAccount
                           /\ [q EXCEPT !.verified_at = n] \in RequestAccount
                           /\ [q EXCEPT !.proved_at = n] \in RequestAccount
<1>1. \A c \in Circuits : [q EXCEPT !.circuit = c] \in RequestAccount
  BY DEF RequestAccount
<1>2. \A i \in Issuers \cup {None} : [q EXCEPT !.issuer = i] \in RequestAccount
  BY DEF RequestAccount
<1>3. \A s \in Status : [q EXCEPT !.status = s] \in RequestAccount
  BY DEF RequestAccount
<1>4. \A p \in ProofData \cup {None} : [q EXCEPT !.proof = p] \in RequestAccount
  BY DEF RequestAccount
<1>5. \A x \in Seq(Nat) : [q EXCEPT !.public_inputs = x] \in RequestAccount
  BY DEF RequestAccount
<1>6. \A n \in Nat : /\ [q EXCEPT !.identifier = n] \in RequestAccount
                     /\ [q EXCEPT !.created_at = n] \in RequestAccount
                     /\ [q EXCEPT !.expired_at = n] \in RequestAccount
                     /\ [q EXCEPT !.verified_at = n] \in RequestAccount
                     /\ [q EXCEPT !.proved_at = n] \in RequestAccount
  BY DEF RequestAccount
<1> QED
  BY <1>1, <1>2, <1>3, <1>4, <1>5, <1>6

\* Extending a request keeps its type, with or without a reset.
LEMMA ExtendedType ==
  ASSUME NEW q \in RequestAccount, NEW inputs \in Seq(Nat), NEW reset \in BOOLEAN
  PROVE  Extended(q, inputs, reset) \in RequestAccount
<1>1. ResetRequest(q) \in RequestAccount
  <2> DEFINE q1 == [q EXCEPT !.status = "Pending"]
             q2 == [q1 EXCEPT !.proved_at = 0]
             q3 == [q2 EXCEPT !.proof = None]
             q4 == [q3 EXCEPT !.issuer = None]
             q5 == [q4 EXCEPT !.public_inputs = <<>>]
  <2>1. q1 \in RequestAccount
    BY FieldUpdate DEF Status
  <2> HIDE DEF q1
  <2>2. q2 \in RequestAccount
    BY <2>1, FieldUpdate
  <2> HIDE DEF q2
  <2>3. q3 \in RequestAccount
    BY <2>2, FieldUpdate
  <2> HIDE DEF q3
  <2>4. q4 \in RequestAccount
    BY <2>3, FieldUpdate
  <2> HIDE DEF q4
  <2>5. q5 \in RequestAccount
    <3>1. <<>> \in Seq(Nat)
      OBVIOUS
    <3> QED BY <2>4, <3>1, FieldUpdate
  <2>6. ResetRequest(q) = q5
    BY DEF ResetRequest, q1, q2, q3, q4, q5
  <2> QED
    BY <2>5, <2>6
<1> DEFINE base == IF reset THEN ResetRequest(q) ELSE q
<1>2. base \in RequestAccount
  BY <1>1
<1>3. base.public_inputs \o inputs \in Seq(Nat)
  BY <1>2 DEF RequestAccount
<1>4. Extended(q, inputs, reset) = [base EXCEPT !.public_inputs = base.public_inputs \o inputs]
  BY DEF Extended
<1> HIDE DEF base
<1> QED
  BY <1>2, <1>3, <1>4, FieldUpdate

\* A new account, or an old one created again, has the type.
LEMMA RenewedType ==
  ASSUME TypeOK, NEW p \in Policies, NEW q \in RequestAccount, NEW e \in ExpiresIn,
         policy[p] # Closed, service[ServiceOf(p)] # Closed
  PROVE  Renewed(q, p, e) \in RequestAccount
<1>1. /\ policy[p].circuit \in Circuits /\ policy[p].expiration_period \in Nat
      /\ NextIdentifier(p) \in Nat /\ now \in Nat /\ e \in Nat
  <2>1. policy[p] \in PolicyAccount
    BY DEF TypeOK, RegistryTypeOK
  <2>2. service[ServiceOf(p)] \in ServiceAccount
    BY DEF TypeOK, RegistryTypeOK, Policies, ServiceOf
  <2> QED
    BY <2>1, <2>2, ProofRequestAssumption
    DEF TypeOK, PolicyAccount, ServiceAccount, NextIdentifier, ProofRequestAssumption
<1>2. ExpiryOnCreate(e, policy[p].expiration_period, q.expired_at) \in Nat
  <2>1. q.expired_at \in Nat
    BY DEF RequestAccount
  <2> QED
    BY <1>1, <2>1 DEF ExpiryOnCreate
<1> DEFINE q1 == [q EXCEPT !.circuit = policy[p].circuit]
           q2 == [q1 EXCEPT !.identifier = NextIdentifier(p)]
           q3 == [q2 EXCEPT !.proved_at = 0]
           q4 == [q3 EXCEPT !.verified_at = 0]
           q5 == [q4 EXCEPT !.created_at = now]
           q6 == [q5 EXCEPT !.status = "Pending"]
           q7 == [q6 EXCEPT !.expired_at =
                    ExpiryOnCreate(e, policy[p].expiration_period, q.expired_at)]
<1>3. Renewed(q, p, e) = q7
  BY DEF Renewed
<1>4. q1 \in RequestAccount
  BY <1>1, FieldUpdate
<1> HIDE DEF q1
<1>5. q2 \in RequestAccount
  BY <1>1, <1>4, FieldUpdate
<1> HIDE DEF q2
<1>6. q3 \in RequestAccount
  BY <1>5, FieldUpdate
<1> HIDE DEF q3
<1>7. q4 \in RequestAccount
  BY <1>6, FieldUpdate
<1> HIDE DEF q4
<1>8. q5 \in RequestAccount
  BY <1>1, <1>7, FieldUpdate
<1> HIDE DEF q5
<1>9. q6 \in RequestAccount
  BY <1>8, FieldUpdate DEF Status
<1> HIDE DEF q6
<1>10. q7 \in RequestAccount
  BY <1>2, <1>9, FieldUpdate
<1> QED
  BY <1>3, <1>10

LEMMA BlankRequestType ==
  ASSUME NEW c \in Circuits
  PROVE  BlankRequest(c) \in RequestAccount
<1>1. <<>> \in Seq(Nat) /\ "Pending" \in Status
  BY DEF Status
<1> QED
  BY <1>1 DEF BlankRequest, RequestAccount

\* What the checks of the proof transaction ensure about the inputs they read.
LEMMA ExpiryType ==
  ASSUME NEW inputs \in Seq(Nat), NEW signals, NEW old \in Nat, now \in Nat,
         CredentialValid(inputs, signals)
  PROVE  /\ CappedExpiry(old, inputs, signals) \in Nat
         /\ old > 0 => CappedExpiry(old, inputs, signals) \in 1..old
<1>1. CASE "meta_validUntil" \in DOMAIN signals
  <2>1. signals["meta_validUntil"] \in DOMAIN inputs
    BY <1>1 DEF CredentialValid
  <2>2. inputs[signals["meta_validUntil"]] > now
    BY <1>1 DEF CredentialValid
  <2> DEFINE t == inputs[signals["meta_validUntil"]]
  <2>3. t \in Nat /\ t > 0
    BY <2>1, <2>2
  <2>4. CappedExpiry(old, inputs, signals) = IF old = 0 \/ t < old THEN t ELSE old
    BY <1>1 DEF CappedExpiry
  <2> HIDE DEF t
  <2> QED
    BY <2>3, <2>4
<1>2. CASE "meta_validUntil" \notin DOMAIN signals
  BY <1>2 DEF CappedExpiry
<1> QED
  BY <1>1, <1>2

\* The account the proof transaction writes has the type.
LEMMA ProvenType ==
  ASSUME RegistryTypeOK, now \in Nat,
         NEW q \in RequestAccount, NEW proof \in ProofData,
         NEW signals, NEW rules \in RuleSets, NEW iss \in Issuers \cup {None},
         iss # None => issuer[iss] # Closed,
         IssuerAccepted(q.public_inputs, signals, iss),
         CredentialValid(q.public_inputs, signals)
  PROVE  Proven(q, proof, signals, rules, iss) \in RequestAccount
<1>1. q.public_inputs \in Seq(Nat) /\ q.expired_at \in Nat
  BY DEF RequestAccount
<1> DEFINE expiry == CappedExpiry(q.expired_at, q.public_inputs, signals)
           named == IF "issuerPk" \in DOMAIN signals THEN iss ELSE None
           bound == BindIssuer(q.public_inputs, signals, iss)
           inputs == ApplyRules(bound, signals, rules)
<1>2. expiry \in Nat
  BY <1>1, ExpiryType
<1>3. bound \in Seq(Nat)
  BY <1>1, BindIssuerType
<1>4. inputs \in Seq(Nat)
  <2> HIDE DEF bound
  <2> QED BY <1>3, ApplyRulesType
<1>5. named \in Issuers \cup {None}
  OBVIOUS
<1> DEFINE q1 == [q EXCEPT !.status = "Proved"]
           q2 == [q1 EXCEPT !.proved_at = now]
           q3 == [q2 EXCEPT !.proof = proof]
           q4 == [q3 EXCEPT !.expired_at = expiry]
           q5 == [q4 EXCEPT !.issuer = named]
           q6 == [q5 EXCEPT !.public_inputs = inputs]
<1>6. Proven(q, proof, signals, rules, iss) = q6
  BY DEF Proven, ProvenStatus
<1> HIDE DEF expiry, named, bound, inputs
<1>7. q1 \in RequestAccount
  BY FieldUpdate DEF Status
<1> HIDE DEF q1
<1>8. q2 \in RequestAccount
  BY <1>7, FieldUpdate
<1> HIDE DEF q2
<1>9. q3 \in RequestAccount
  BY <1>8, FieldUpdate
<1> HIDE DEF q3
<1>10. q4 \in RequestAccount
  BY <1>2, <1>9, FieldUpdate
<1> HIDE DEF q4
<1>11. q5 \in RequestAccount
  BY <1>5, <1>10, FieldUpdate
<1> HIDE DEF q5
<1>12. q6 \in RequestAccount
  BY <1>4, <1>11, FieldUpdate
<1> QED
  BY <1>6, <1>12

-----------------------------------------------------------------------------
(* Every handler rewrites one request account and the history beside it.     *)

Rewrites(r, q, h) == /\ request' = [request EXCEPT ![r] = q]
                     /\ history' = [history EXCEPT ![r] = h]

LEMMA RewritesEffect ==
  ASSUME TypeOK, NEW r \in Requests, NEW q, NEW h, Rewrites(r, q, h)
  PROVE  /\ request'[r] = q /\ history'[r] = h
         /\ \A x \in Requests \ {r} : request'[x] = request[x] /\ history'[x] = history[x]
BY DEF TypeOK, Rewrites

LEMMA RewritesType ==
  ASSUME TypeOK, NEW r \in Requests,
         NEW q \in RequestAccount \cup {Closed}, NEW h \in HistoryType,
         Rewrites(r, q, h), RegistryTypeOK', now' \in Nat \ {0}
  PROVE  TypeOK'
BY DEF TypeOK, Rewrites

LEMMA RequestOf ==
  ASSUME TypeOK, NEW r \in Requests
  PROVE  /\ request[r] # Closed => request[r] \in RequestAccount
         /\ history[r] \in HistoryType
         /\ PolicyOf(r) \in Policies /\ OwnerOf(r) \in Users
         /\ ServiceOf(PolicyOf(r)) \in Services
         /\ Closed \notin RequestAccount /\ now \in Nat /\ now > 0
BY ProofRequestAssumption
DEF TypeOK, Requests, Policies, PolicyOf, OwnerOf, ServiceOf, ProofRequestAssumption

\* The registry as a request creation leaves it.
LEMMA CreateRegistry ==
  ASSUME RegistryTypeOK, NEW u \in Users, NEW p \in Policies, NEW e \in ExpiresIn,
         CreateProofRequest(u, p, e)
  PROVE  /\ RegistryTypeOK'
         /\ service[ServiceOf(p)] # Closed /\ service'[ServiceOf(p)] # Closed
         /\ service'[ServiceOf(p)].proof_request_count = NextIdentifier(p)
         /\ NextIdentifier(p) = service[ServiceOf(p)].proof_request_count + 1
         /\ service[ServiceOf(p)].proof_request_count \in Nat
         /\ \A s \in Services \ {ServiceOf(p)} : service'[s] = service[s]
<1> DEFINE s == ServiceOf(p)
           s1 == [service[s] EXCEPT !.proof_request_count = service[s].proof_request_count + 1]
           p1 == [policy[p] EXCEPT !.proof_request_count = policy[p].proof_request_count + 1]
<1>1. s \in Services
  BY DEF Policies, ServiceOf
<1>2. service[s] \in ServiceAccount /\ policy[p] \in PolicyAccount
  BY <1>1 DEF CreateProofRequest, RegistryTypeOK
<1>3. s1 \in ServiceAccount /\ s1.proof_request_count = service[s].proof_request_count + 1
      /\ service[s].proof_request_count \in Nat
  BY <1>2 DEF ServiceAccount
<1>4. p1 \in PolicyAccount
  BY <1>2 DEF PolicyAccount
<1>5. service' = [service EXCEPT ![s] = s1] /\ policy' = [policy EXCEPT ![p] = p1]
  BY DEF CreateProofRequest
<1>6. Closed \notin ServiceAccount
  BY RegistryAssumption DEF RegistryAssumption
<1> HIDE DEF s1, p1
<1>7. /\ service' \in [Services -> ServiceAccount \cup {Closed}]
      /\ policy' \in [Policies -> PolicyAccount \cup {Closed}]
      /\ service'[s] = s1 /\ \A x \in Services \ {s} : service'[x] = service[x]
  BY <1>1, <1>3, <1>4, <1>5 DEF RegistryTypeOK
<1>8. NextIdentifier(p) = service[s].proof_request_count + 1
  BY DEF NextIdentifier
<1>9. RegistryTypeOK'
  BY <1>7 DEF CreateProofRequest, RegistryTypeOK
<1> QED
  BY <1>2, <1>3, <1>6, <1>7, <1>8, <1>9

\* Which account each handler writes.
LEMMA CreateRewrites ==
  ASSUME TypeOK, NEW u \in Users, NEW p \in Policies, NEW e \in ExpiresIn,
         CreateProofRequest(u, p, e)
  PROVE  \E q \in RequestAccount :
           /\ \/ request[<<p, u>>] = Closed /\ q = BlankRequest(policy[p].circuit)
              \/ request[<<p, u>>] # Closed /\ q = request[<<p, u>>]
           /\ Renewed(q, p, e) \in RequestAccount
           /\ Rewrites(<<p, u>>, Renewed(q, p, e), history[<<p, u>>])
           /\ now' = now
<1> DEFINE r == <<p, u>>
           q == IF request[r] = Closed THEN BlankRequest(policy[p].circuit) ELSE request[r]
<1>1. r \in Requests
  BY DEF Requests
<1>2. policy[p] # Closed /\ service[ServiceOf(p)] # Closed
  BY DEF CreateProofRequest
<1>3. policy[p].circuit \in Circuits
  BY <1>2 DEF TypeOK, RegistryTypeOK, PolicyAccount
<1>4. q \in RequestAccount
  BY <1>1, <1>3, BlankRequestType, RequestOf
<1>5. Renewed(q, p, e) \in RequestAccount
  BY <1>2, <1>4, RenewedType
<1>6. request' = [request EXCEPT ![r] = Renewed(q, p, e)]
      /\ history' = history /\ now' = now
  BY DEF CreateProofRequest
<1>7. history' = [history EXCEPT ![r] = history[r]]
  BY <1>1, <1>6 DEF TypeOK
<1> HIDE DEF r
<1> QED
  BY <1>4, <1>5, <1>6, <1>7 DEF Rewrites, r

LEMMA ProofTakenType ==
  ASSUME RegistryTypeOK, NEW h \in HistoryType, NEW signals \in Layouts,
         NEW rules \in RuleSets, NEW n \in Nat, NEW iss \in Issuers \cup {None},
         iss # None => issuer[iss] # Closed
  PROVE  /\ ProofTaken(h, signals, rules, iss, n) \in HistoryType
         /\ ProofTaken(h, signals, rules, iss, n).verifier = h.verifier
         /\ ProofTaken(h, signals, rules, iss, n).signals = signals
         /\ ProofTaken(h, signals, rules, iss, n).rules = rules
         /\ ProofTaken(h, signals, rules, iss, n).count = n
         /\ iss # None => ProofTaken(h, signals, rules, iss, n).key = issuer[iss].zk_pubkey
<1> DEFINE k == IF iss = None THEN 0 ELSE issuer[iss].zk_pubkey
<1>1. k \in Nat
  <2>1. CASE iss # None
    <3>1. issuer[iss] \in IssuerAccount
      BY <2>1 DEF RegistryTypeOK
    <3> QED
      BY <2>1, <3>1, ProofRequestAssumption DEF IssuerAccount, ProofRequestAssumption
  <2>2. CASE iss = None
    BY <2>2
  <2> QED
    BY <2>1, <2>2
<1>2. ProofTaken(h, signals, rules, iss, n) =
        [h EXCEPT !.signals = signals, !.rules = rules, !.count = n, !.key = k]
  BY DEF ProofTaken
<1>3. iss # None => k = issuer[iss].zk_pubkey
  OBVIOUS
<1> HIDE DEF k
<1> QED
  BY <1>1, <1>2, <1>3 DEF HistoryType

LEMMA ProveRewrites ==
  ASSUME TypeOK, NEW a \in Signers, NEW r \in Requests, NEW inputs \in Chunks,
         NEW proof \in Proofs \cup {None}, NEW reset \in BOOLEAN,
         NEW iss \in Issuers \cup {None},
         ProveProofRequest(a, r, inputs, proof, reset, iss)
  PROVE  LET q == request[r]
             x == Extended(q, inputs, reset)
             signals == circuit[q.circuit].signals
             rules == policy[PolicyOf(r)].rules
             proven == Proven(x, proof, signals, rules, iss)
             taken == ProofTaken(history[r], signals, rules, iss, Len(x.public_inputs))
         IN /\ request[r] # Closed /\ q \in RequestAccount
            /\ x \in RequestAccount /\ inputs \in Seq(Nat)
            /\ signals \in Layouts /\ rules \in RuleSets
            /\ iss # None => issuer[iss] # Closed
            /\ now' = now /\ UNCHANGED registryVars
            /\ \/ proof = None /\ FitsAccount(x) /\ Rewrites(r, x, history[r])
               \/ /\ proof \in ProofData /\ proof # None
                  /\ CredentialValid(x.public_inputs, signals)
                  /\ IssuerAccepted(x.public_inputs, signals, iss)
                  /\ FitsAccount(proven)
                  /\ proven \in RequestAccount /\ taken \in HistoryType
                  /\ Rewrites(r, proven, taken)
<1> DEFINE q == request[r]
           x == Extended(q, inputs, reset)
           signals == circuit[q.circuit].signals
           rules == policy[PolicyOf(r)].rules
           proven == Proven(x, proof, signals, rules, iss)
           taken == ProofTaken(history[r], signals, rules, iss, Len(x.public_inputs))
<1>1. /\ q # Closed /\ policy[PolicyOf(r)] # Closed /\ circuit[q.circuit] # Closed
      /\ iss # None => issuer[iss] # Closed
      /\ now' = now /\ UNCHANGED registryVars
  BY DEF ProveProofRequest
<1>2. q \in RequestAccount /\ inputs \in Seq(Nat) /\ now \in Nat /\ history[r] \in HistoryType
      /\ RegistryTypeOK
  BY <1>1, RequestOf, ProofRequestAssumption DEF ProofRequestAssumption, TypeOK
<1>3. x \in RequestAccount
  BY <1>2, ExtendedType
<1>4. signals \in Layouts
  <2>1. q.circuit \in Circuits
    BY <1>2 DEF RequestAccount
  <2>2. circuit[q.circuit] \in CircuitAccount
    BY <1>1, <1>2, <2>1 DEF RegistryTypeOK
  <2> QED
    BY <2>2 DEF CircuitAccount
<1>5. rules \in RuleSets
  <2>1. policy[PolicyOf(r)] \in PolicyAccount
    BY <1>1, <1>2, RequestOf DEF RegistryTypeOK
  <2> QED
    BY <2>1 DEF PolicyAccount
<1>6. \/ proof = None /\ FitsAccount(x) /\ request' = [request EXCEPT ![r] = x]
         /\ history' = history
      \/ /\ proof # None
         /\ CredentialValid(x.public_inputs, signals)
         /\ IssuerAccepted(x.public_inputs, signals, iss)
         /\ FitsAccount(proven)
         /\ request' = [request EXCEPT ![r] = proven]
         /\ history' = [history EXCEPT ![r] = taken]
  BY DEF ProveProofRequest
<1> HIDE DEF q, x, signals, rules, proven, taken
<1>7. CASE proof = None
  <2>1. history' = [history EXCEPT ![r] = history[r]]
    BY <1>6, <1>7 DEF TypeOK
  <2>2. FitsAccount(x) /\ Rewrites(r, x, history[r])
    BY <1>6, <1>7, <2>1 DEF Rewrites
  <2> QED
    BY <1>1, <1>2, <1>3, <1>4, <1>5, <1>7, <2>2
    DEF q, x, signals, rules, proven, taken
<1>8. CASE proof # None
  <2>1. /\ CredentialValid(x.public_inputs, signals)
        /\ IssuerAccepted(x.public_inputs, signals, iss)
        /\ FitsAccount(proven) /\ Rewrites(r, proven, taken)
    BY <1>6, <1>8 DEF Rewrites
  <2>2. proof \in ProofData
    BY <1>8, ProofRequestAssumption DEF ProofRequestAssumption
  <2>3. proven \in RequestAccount
    BY <1>1, <1>2, <1>3, <1>5, <2>1, <2>2, ProvenType DEF proven
  <2>4. Len(x.public_inputs) \in Nat
    BY <1>3 DEF RequestAccount
  <2>5. taken \in HistoryType
    BY <1>1, <1>2, <1>4, <1>5, <2>4, ProofTakenType DEF taken
  <2> QED
    BY <1>1, <1>2, <1>3, <1>4, <1>5, <1>8, <2>1, <2>2, <2>3, <2>5
    DEF q, x, signals, rules, proven, taken
<1> QED
  BY <1>7, <1>8

\* The verdict of the program or of an admin.
Judged(q, status) == [q EXCEPT !.status = status, !.verified_at = now]

LEMMA JudgedType ==
  ASSUME NEW q \in RequestAccount, NEW status \in Status, now \in Nat
  PROVE  Judged(q, status) \in RequestAccount
<1> DEFINE q1 == [q EXCEPT !.status = status]
           q2 == [q1 EXCEPT !.verified_at = now]
<1>1. q1 \in RequestAccount
  BY FieldUpdate
<1>2. Judged(q, status) = q2
  BY DEF Judged
<1> HIDE DEF q1
<1>3. q2 \in RequestAccount
  BY <1>1, FieldUpdate
<1> QED
  BY <1>2, <1>3

LEMMA VerifyRewrites ==
  ASSUME TypeOK, NEW r \in Requests, VerifyProofRequest(r)
  PROVE  /\ request[r] # Closed /\ request[r].proof # None
         /\ Groth16Verifies(request[r].proof, request[r].public_inputs,
                            circuit[request[r].circuit].vk)
         /\ Judged(request[r], "Verified") \in RequestAccount
         /\ [history[r] EXCEPT !.verifier = "program"] \in HistoryType
         /\ Rewrites(r, Judged(request[r], "Verified"),
                     [history[r] EXCEPT !.verifier = "program"])
         /\ now' = now /\ UNCHANGED registryVars
<1>1. request[r] \in RequestAccount /\ history[r] \in HistoryType /\ now \in Nat
  BY RequestOf DEF VerifyProofRequest
<1>2. Judged(request[r], "Verified") \in RequestAccount
  BY <1>1, JudgedType DEF Status
<1>3. [history[r] EXCEPT !.verifier = "program"] \in HistoryType
  BY <1>1 DEF HistoryType
<1>4. Rewrites(r, Judged(request[r], "Verified"), [history[r] EXCEPT !.verifier = "program"])
  BY DEF VerifyProofRequest, Rewrites, Judged
<1> QED
  BY <1>2, <1>3, <1>4 DEF VerifyProofRequest

LEMMA UpdateRewrites ==
  ASSUME TypeOK, NEW a \in Signers, NEW r \in Requests, NEW status \in Status,
         UpdateProofRequest(a, r, status)
  PROVE  /\ request[r] # Closed
         /\ Judged(request[r], status) \in RequestAccount
         /\ [history[r] EXCEPT !.verifier = "admin"] \in HistoryType
         /\ Rewrites(r, Judged(request[r], status),
                     [history[r] EXCEPT !.verifier = "admin"])
         /\ now' = now /\ UNCHANGED registryVars
<1>1. request[r] \in RequestAccount /\ history[r] \in HistoryType /\ now \in Nat
  BY RequestOf DEF UpdateProofRequest
<1>2. Judged(request[r], status) \in RequestAccount
  BY <1>1, JudgedType
<1>3. [history[r] EXCEPT !.verifier = "admin"] \in HistoryType
  BY <1>1 DEF HistoryType
<1>4. Rewrites(r, Judged(request[r], status), [history[r] EXCEPT !.verifier = "admin"])
  BY DEF UpdateProofRequest, Rewrites, Judged
<1> QED
  BY <1>2, <1>3, <1>4 DEF UpdateProofRequest

LEMMA CloseRewrites ==
  ASSUME TypeOK, NEW a \in Signers, NEW r \in Requests,
         DeleteProofRequest(a, r) \/ AdminCloseProofRequest(a, r)
  PROVE  /\ NoHistory \in HistoryType
         /\ Rewrites(r, Closed, NoHistory)
         /\ now' = now /\ UNCHANGED registryVars
<1>1. <<>> \in RuleSets \cup {<<>>} /\ NoHistory.signals = [n \in {} |-> 1]
  BY DEF NoHistory
<1>2. NoHistory \in HistoryType
  BY <1>1 DEF NoHistory, HistoryType
<1> QED
  BY <1>2 DEF Rewrites, DeleteProofRequest, AdminCloseProofRequest

-----------------------------------------------------------------------------
(* Type correctness.                                                         *)

LEMMA TypeInit == Init => TypeOK
<1>1. NoHistory \in HistoryType
  BY DEF NoHistory, HistoryType
<1> QED
  BY <1>1, RegistryTypeInit DEF Init, TypeOK

LEMMA TypeStep ==
  ASSUME TypeOK, [Next]_vars
  PROVE  TypeOK'
<1>0. RegistryTypeOK /\ now \in Nat \ {0}
  BY DEF TypeOK
<1>r. UNCHANGED registryVars => RegistryTypeOK'
  BY <1>0 DEF registryVars, RegistryTypeOK
<1>1. ASSUME NEW u \in Users, NEW p \in Policies, NEW e \in ExpiresIn,
             CreateProofRequest(u, p, e)
      PROVE  TypeOK'
  <2>1. <<p, u>> \in Requests /\ history[<<p, u>>] \in HistoryType
    BY RequestOf DEF Requests
  <2>2. RegistryTypeOK'
    BY <1>0, <1>1, CreateRegistry
  <2> QED
    BY <1>0, <1>1, <2>1, <2>2, CreateRewrites, RewritesType
<1>2. ASSUME NEW a \in Signers, NEW r \in Requests, NEW inputs \in Chunks,
             NEW proof \in Proofs \cup {None}, NEW reset \in BOOLEAN,
             NEW iss \in Issuers \cup {None},
             ProveProofRequest(a, r, inputs, proof, reset, iss)
      PROVE  TypeOK'
  <2>1. history[r] \in HistoryType
    BY RequestOf
  <2>2. \E q \in RequestAccount, h \in HistoryType : Rewrites(r, q, h)
    BY <1>2, <2>1, ProveRewrites
  <2>3. UNCHANGED registryVars /\ now' = now
    BY <1>2 DEF ProveProofRequest
  <2> QED
    BY <1>0, <1>r, <2>2, <2>3, RewritesType
<1>3. ASSUME NEW r \in Requests, VerifyProofRequest(r)
      PROVE  TypeOK'
  BY <1>0, <1>r, <1>3, VerifyRewrites, RewritesType
<1>4. ASSUME NEW a \in Signers, NEW r \in Requests, NEW status \in Status,
             UpdateProofRequest(a, r, status)
      PROVE  TypeOK'
  BY <1>0, <1>r, <1>4, UpdateRewrites, RewritesType
<1>5. ASSUME NEW a \in Signers, NEW r \in Requests,
             DeleteProofRequest(a, r) \/ AdminCloseProofRequest(a, r)
      PROVE  TypeOK'
  BY <1>0, <1>r, <1>5, CloseRewrites, RewritesType
<1>6. CASE Tick
  BY <1>0, <1>r, <1>6 DEF Tick, TypeOK
<1>7. CASE RegistryStep
  BY <1>0, <1>7, RegistryTypeStep DEF RegistryStep, TypeOK, requestVars
<1>8. CASE UNCHANGED vars
  BY <1>0, <1>r, <1>8 DEF vars, requestVars, TypeOK
<1> QED
  BY <1>1, <1>2, <1>3, <1>4, <1>5, <1>6, <1>7, <1>8 DEF Next, ProofRequestNext

\* Type correctness of the accounts of state.rs under every handler: among the
\* rest, times and identifiers stay natural numbers and inputs field elements.
THEOREM TypeCorrect == Spec => []TypeOK
BY TypeInit, TypeStep, PTL DEF Spec
=============================================================================
