---------------------------- MODULE ProofRequest ----------------------------
(***************************************************************************)
(* The proof request of the Albus program, the account behind a compliance *)
(* certificate: one account per policy and user, taken by five handlers    *)
(* (create, prove, verify, update, delete) through the states Pending,     *)
(* Proved, Verified and Rejected, while the registry it depends on and the *)
(* clock move on.                                                          *)
(*                                                                         *)
(* A public input is a field element, modelled by a number.  A Groth16     *)
(* proof is the statement it proves: the public inputs it was generated    *)
(* for and the generation of the verification key.  An issuer's key takes  *)
(* two inputs, one after the other; they are one input here.               *)
(***************************************************************************)
EXTENDS Registry

CONSTANTS
  Users,            \* the signers that own proof requests
  Chunks,           \* public input lists a prove transaction may carry
  Proofs,           \* proofs a prove transaction may carry
  ExpiresIn,        \* expires_in values, 0 for none
  MaxPublicInputs,  \* max_public_inputs of a request account
  ProofSlots,       \* inputs that fit in the space of an absent proof
  Threshold,        \* TIMESTAMP_THRESHOLD, in clock ticks
  VerifyOnChain,    \* the verify-on-chain feature: devnet TRUE, mainnet FALSE
  MaxTime           \* bound on the clock

Requests == Policies \X Users
PolicyOf(r) == r[1]
OwnerOf(r) == r[2]

Status == {"Pending", "Proved", "Verified", "Rejected"}
ProofData == [inputs: Seq(Nat), vk: VkVersions]
RequestAccount ==
  [circuit: Circuits, issuer: Issuers \cup {None}, identifier: Nat,
   created_at: Nat, expired_at: Nat, verified_at: Nat, proved_at: Nat,
   retention_end_date: Nat, status: Status, proof: ProofData \cup {None},
   public_inputs: Seq(Nat)]

ASSUME ProofRequestAssumption ==
  /\ Users \subseteq Signers
  /\ Chunks \subseteq Seq(Nat) /\ Proofs \subseteq ProofData
  /\ ExpiresIn \subseteq Nat
  /\ MaxPublicInputs \in Nat /\ ProofSlots \in Nat
  /\ Threshold \in Nat /\ MaxTime \in Nat
  /\ VerifyOnChain \in BOOLEAN
  /\ ZkKeys \subseteq Nat
  /\ RuleSets \subseteq Seq([key: STRING, value: Nat])
  /\ \A l \in Layouts : \A n \in DOMAIN l : l[n] \in Nat \ {0}
  /\ Closed \notin RequestAccount /\ None \notin ProofData

VARIABLES
  now,       \* the clock sysvar
  request,   \* proof request accounts
  history    \* per request, read by the properties only: who verified it, and
             \* the signals, rules, issuer key and number of inputs of the
             \* moment its last proof was taken

requestVars == <<now, request, history>>
vars == <<registryVars, requestVars>>

NoHistory == [verifier |-> "nobody", signals |-> [n \in {} |-> 1],
              rules |-> <<>>, key |-> 0, count |-> 0]

Init ==
  /\ RegistryInit
  /\ now = 1
  /\ request = [r \in Requests |-> Closed]
  /\ history = [r \in Requests |-> NoHistory]

-----------------------------------------------------------------------------
\* CreateProofRequest.  The account is created if needed: on one that exists
\* the handler resets the status and the times, and leaves proof,
\* public_inputs and issuer as they are.  With neither period set, so is
\* expired_at.

BlankRequest(c) ==
  [circuit |-> c, issuer |-> None, identifier |-> 0, created_at |-> 0,
   expired_at |-> 0, verified_at |-> 0, proved_at |-> 0,
   retention_end_date |-> 0, status |-> "Pending", proof |-> None,
   public_inputs |-> <<>>]

ExpiryBackwards(expiresIn, period, old) ==         \* fault: the sign
  IF expiresIn > 0 THEN now - expiresIn ELSE now - period
ExpiryOnCreate(expiresIn, period, old) ==
  CASE expiresIn > 0 -> now + expiresIn
    [] expiresIn = 0 /\ period > 0 -> now + period
    [] OTHER -> old

\* fault: the policy's counter is taken for the service's
PolicyIdentifier(p) == policy[p].proof_request_count + 1
NextIdentifier(p) == service[ServiceOf(p)].proof_request_count + 1

Renewed(q, p, expiresIn) ==
  [q EXCEPT !.circuit = policy[p].circuit, !.identifier = NextIdentifier(p),
            !.proved_at = 0, !.verified_at = 0, !.created_at = now,
            !.status = "Pending",
            !.expired_at = ExpiryOnCreate(expiresIn, policy[p].expiration_period,
                                          q.expired_at)]

CreateProofRequest(u, p, expiresIn) ==
  LET s == ServiceOf(p)
      r == <<p, u>>
      old == IF request[r] = Closed THEN BlankRequest(policy[p].circuit)
             ELSE request[r]
  IN /\ service[s] # Closed /\ policy[p] # Closed
     /\ service[s].proof_request_count < MaxCount
     /\ policy[p].proof_request_count < MaxCount
     /\ service' = [service EXCEPT ![s].proof_request_count = @ + 1]
     /\ policy' = [policy EXCEPT ![p].proof_request_count = @ + 1]
     /\ request' = [request EXCEPT ![r] = Renewed(old, p, expiresIn)]
     /\ UNCHANGED <<circuit, issuer, trustee, adminClosed, now, history>>

-----------------------------------------------------------------------------
\* ProveProofRequest.  The inputs of a proof do not fit in one transaction, so
\* chunks of them come first; reset starts over; the transaction that carries
\* the proof also checks and overwrites inputs.

ResetKeepsStatus(q) ==         \* fault: only the inputs are cleared
  [q EXCEPT !.public_inputs = <<>>]
ResetRequest(q) == [q EXCEPT !.status = "Pending", !.proved_at = 0,
                             !.proof = None, !.issuer = None,
                             !.public_inputs = <<>>]

Extended(q, inputs, reset) ==
  LET base == IF reset THEN ResetRequest(q) ELSE q
  IN [base EXCEPT !.public_inputs = base.public_inputs \o inputs]

\* The k-th rule with a given key goes to the k-th position of its signal.
RuleSlot(signals, rules, j) ==
  signals[rules[j].key]
    + Cardinality({m \in 1..(j - 1) : rules[m].key = rules[j].key})

RulesAt(signals, rules, i) ==
  {j \in DOMAIN rules : /\ rules[j].key \in DOMAIN signals
                        /\ RuleSlot(signals, rules, j) = i}

\* A position several rules reach keeps the value of the last one.
LastOf(S) == CHOOSE j \in S : \A k \in S : k <= j

RulesSkipped(inputs, signals, rules) == inputs     \* fault: policy not applied
ApplyRules(inputs, signals, rules) ==
  [i \in DOMAIN inputs |->
     IF RulesAt(signals, rules, i) = {} THEN inputs[i]
     ELSE rules[LastOf(RulesAt(signals, rules, i))].value]

\* req.public_inputs[s.index] panics, and the transaction aborts, out of range.
TimestampRecent(inputs, signals) ==
  "timestamp" \in DOMAIN signals =>
    /\ signals["timestamp"] \in DOMAIN inputs
    /\ inputs[signals["timestamp"]] >= now - Threshold

CredentialValid(inputs, signals) ==
  "meta_validUntil" \in DOMAIN signals =>
    /\ signals["meta_validUntil"] \in DOMAIN inputs
    /\ inputs[signals["meta_validUntil"]] > now

IssuerAccepted(inputs, signals, iss) ==
  "issuerPk" \in DOMAIN signals =>
    /\ iss # None
    /\ ~issuer[iss].is_disabled
    /\ signals["issuerPk"] \in DOMAIN inputs

BindIssuer(inputs, signals, iss) ==
  IF "issuerPk" \in DOMAIN signals
  THEN [inputs EXCEPT ![signals["issuerPk"]] = issuer[iss].zk_pubkey]
  ELSE inputs

AnyExpiry(old, inputs, signals) ==                 \* fault: the bound is replaced
  IF "meta_validUntil" \in DOMAIN signals
  THEN inputs[signals["meta_validUntil"]] ELSE old
KeptExpiry(old, inputs, signals) ==                \* fault: only an absent one is set
  IF "meta_validUntil" \in DOMAIN signals /\ old = 0
  THEN inputs[signals["meta_validUntil"]] ELSE old
CappedExpiry(old, inputs, signals) ==
  IF /\ "meta_validUntil" \in DOMAIN signals
     /\ old = 0 \/ inputs[signals["meta_validUntil"]] < old
  THEN inputs[signals["meta_validUntil"]] ELSE old

KeptStatus(q) == q.status      \* fault: a new proof keeps the old outcome
ProvenStatus(q) == "Proved"

\* What the transaction with the proof writes, given the extended account q.
Proven(q, proof, signals, rules, iss) ==
  [q EXCEPT
     !.status = ProvenStatus(q), !.proved_at = now, !.proof = proof,
     !.expired_at = CappedExpiry(q.expired_at, q.public_inputs, signals),
     !.issuer = IF "issuerPk" \in DOMAIN signals THEN iss ELSE None,
     !.public_inputs =
        ApplyRules(BindIssuer(q.public_inputs, signals, iss), signals, rules)]

\* The account has room for max_public_inputs inputs next to a proof; the space
\* of a proof that is absent takes some more.
FitsAccount(q) ==
  Len(q.public_inputs) <=
    MaxPublicInputs + (IF q.proof = None THEN ProofSlots ELSE 0)

ProofTaken(h, signals, rules, iss, n) ==
  [h EXCEPT !.signals = signals, !.rules = rules, !.count = n,
            !.key = IF iss = None THEN 0 ELSE issuer[iss].zk_pubkey]

ProveProofRequest(a, r, inputs, proof, reset, iss) ==
  /\ request[r] # Closed
  /\ a = OwnerOf(r)
  /\ policy[PolicyOf(r)] # Closed
  /\ circuit[request[r].circuit] # Closed
  /\ iss # None => issuer[iss] # Closed
  /\ LET signals == circuit[request[r].circuit].signals
         rules == policy[PolicyOf(r)].rules
         extended == Extended(request[r], inputs, reset)
         proven == Proven(extended, proof, signals, rules, iss)
     IN \/ /\ proof = None
           /\ FitsAccount(extended)
           /\ request' = [request EXCEPT ![r] = extended]
           /\ UNCHANGED history
        \/ /\ proof # None
           /\ TimestampRecent(extended.public_inputs, signals)
           /\ CredentialValid(extended.public_inputs, signals)
           /\ IssuerAccepted(extended.public_inputs, signals, iss)
           /\ FitsAccount(proven)
           /\ request' = [request EXCEPT ![r] = proven]
           /\ history' = [history EXCEPT ![r] = ProofTaken(@, signals, rules, iss,
                                                   Len(extended.public_inputs))]
  /\ UNCHANGED <<registryVars, now>>

-----------------------------------------------------------------------------
\* VerifyProofRequest, by anybody.  It looks at the proof, the inputs and the
\* circuit's current key, and neither at the status nor at the expiry.

\* The Groth16 verifier: as many inputs as the key takes, and a proof made for
\* exactly these inputs and this key.  Two keys verify the same proof only if
\* they are the same, so a key half way through an update verifies none.
Groth16Verifies(proof, inputs, vk) ==
  /\ Len(inputs) + 1 = Len(vk.ic)
  /\ vk = CompleteVk(proof.vk)
  /\ proof.inputs = inputs

VerifyProofRequest(r) ==
  /\ VerifyOnChain
  /\ request[r] # Closed
  /\ circuit[request[r].circuit] # Closed
  /\ request[r].proof # None
  /\ Groth16Verifies(request[r].proof, request[r].public_inputs,
                     circuit[request[r].circuit].vk)
  /\ request' = [request EXCEPT ![r].status = "Verified", ![r].verified_at = now]
  /\ history' = [history EXCEPT ![r].verifier = "program"]
  /\ UNCHANGED <<registryVars, now>>

-----------------------------------------------------------------------------
\* UpdateProofRequest: an admin sets the outcome it found off chain.  The check
\* that the request has been proved is commented out in the source.

IsExpired(q) == q.expired_at > 0 /\ q.expired_at < now

UpdateProofRequest(a, r, status) ==
  /\ a \in Admins
  /\ request[r] # Closed
  /\ ~IsExpired(request[r])
  /\ status \in {"Verified", "Rejected"}
  /\ request' = [request EXCEPT ![r].status = status, ![r].verified_at = now]
  /\ history' = [history EXCEPT ![r].verifier = "admin"]
  /\ UNCHANGED <<registryVars, now>>

-----------------------------------------------------------------------------
\* DeleteProofRequest by the owner, and close_account by an admin.

IsVerified(q) == q.status = "Verified"

DeleteProofRequest(a, r) ==
  /\ request[r] # Closed
  /\ a = OwnerOf(r)
  /\ ~(IsVerified(request[r]) /\ now < request[r].retention_end_date)
  /\ request' = [request EXCEPT ![r] = Closed]
  /\ history' = [history EXCEPT ![r] = NoHistory]
  /\ UNCHANGED <<registryVars, now>>

AdminCloseProofRequest(a, r) ==
  /\ a \in Admins
  /\ request[r] # Closed
  /\ request' = [request EXCEPT ![r] = Closed]
  /\ history' = [history EXCEPT ![r] = NoHistory]
  /\ UNCHANGED <<registryVars, now>>

Tick ==
  /\ now < MaxTime
  /\ now' = now + 1
  /\ UNCHANGED <<registryVars, request, history>>

-----------------------------------------------------------------------------
ProofRequestNext ==
  \/ \E u \in Users, p \in Policies, e \in ExpiresIn : CreateProofRequest(u, p, e)
  \/ \E a \in Signers, r \in Requests :
       \/ \E inputs \in Chunks, proof \in Proofs \cup {None}, reset \in BOOLEAN,
             iss \in Issuers \cup {None} :
            ProveProofRequest(a, r, inputs, proof, reset, iss)
       \/ \E status \in Status : UpdateProofRequest(a, r, status)
       \/ DeleteProofRequest(a, r)
       \/ AdminCloseProofRequest(a, r)
  \/ \E r \in Requests : VerifyProofRequest(r)
  \/ Tick

\* A registry step of any signer, at any moment of a request's life.
RegistryStep == RegistryNext /\ UNCHANGED requestVars

Next == ProofRequestNext \/ RegistryStep

Spec == Init /\ [][Next]_vars

-----------------------------------------------------------------------------
HistoryType == [verifier: {"nobody", "program", "admin"},
                signals: Layouts \cup {NoHistory.signals},
                rules: RuleSets \cup {<<>>}, key: Nat, count: Nat]

TypeOK ==
  /\ RegistryTypeOK
  /\ now \in Nat \ {0}
  /\ request \in [Requests -> RequestAccount \cup {Closed}]
  /\ history \in [Requests -> HistoryType]

LiveRequests == {r \in Requests : request[r] # Closed}
VerifiedByProgram(q, h) == q.status = "Verified" /\ h.verifier = "program"

StartsWith(long, short) ==
  Len(short) <= Len(long) /\ \A i \in DOMAIN short : long[i] = short[i]

HoldsProof(q, h) ==
  VerifiedByProgram(q, h) =>
    q.proof # None /\ StartsWith(q.public_inputs, q.proof.inputs)

\* A certificate the program itself verified still holds the proof it verified,
\* and the inputs of that proof are the leading inputs of the account, whatever
\* chunks, resets, re-creations, policy and key changes came between.
CertificateHoldsProof == \A r \in LiveRequests : HoldsProof(request[r], history[r])

InputsBound(q, h) ==
  q.proof # None =>
    LET forced(i) == RulesAt(h.signals, h.rules, i)
    IN /\ h.count <= Len(q.public_inputs)
       /\ \A i \in 1..h.count :
            forced(i) # {} =>
              q.public_inputs[i] = h.rules[LastOf(forced(i))].value
       /\ "issuerPk" \in DOMAIN h.signals =>
            /\ q.issuer # None
            /\ h.signals["issuerPk"] \in 1..h.count
            /\ forced(h.signals["issuerPk"]) = {} =>
                 q.public_inputs[h.signals["issuerPk"]] = h.key

\* An account with a proof carries the inputs the program forced at the moment
\* it took the proof: the key of the issuer it names, and the rules the policy
\* had then, at the positions the circuit had then, as far as the account had
\* inputs then.
BoundInputs == \A r \in LiveRequests : InputsBound(request[r], history[r])

\* Position i is not the client's: a rule or the issuer's key went there.
Overwritten(h, i) ==
  \/ RulesAt(h.signals, h.rules, i) # {}
  \/ "issuerPk" \in DOMAIN h.signals /\ h.signals["issuerPk"] = i

WithinCredential(q, h) ==
  q.proved_at > 0 =>
    /\ q.proof # None
    /\ "meta_validUntil" \in DOMAIN h.signals =>
         LET i == h.signals["meta_validUntil"]
         IN /\ i \in 1..h.count
            /\ ~Overwritten(h, i) => q.expired_at \in 1..q.public_inputs[i]

\* prove_proof_request.rs:84-95: a request proved since it was last created
\* expires, and no later than the credential its stored inputs name, whatever is
\* appended, reset, proved again or judged.  Since it was last created: a
\* re-created request takes a fresh expiry and keeps the old proof, which can be
\* verified again, and then the certificate does outlive the credential.
ExpiryWithinCredential == \A r \in LiveRequests : WithinCredential(request[r], history[r])

\* state.rs:443, "Auto-increment service specific identifier": two live requests
\* of one service never share one, and none is ahead of the service's counter,
\* over any order of creations, re-creations and deletions, unless an admin
\* closed the service (its counter starts over).
IdentifiersUnique ==
  \A r, q \in LiveRequests :
    LET s == ServiceOf(PolicyOf(r)) IN
    service[s] # Closed /\ s \notin adminClosed =>
      /\ request[r].identifier <= service[s].proof_request_count
      /\ (ServiceOf(PolicyOf(q)) = s /\ r # q) =>
            request[r].identifier # request[q].identifier

InOrder(q) ==
  /\ q.created_at <= now /\ q.proved_at <= now /\ q.verified_at <= now
  /\ q.status = "Verified" =>
       q.created_at <= q.verified_at /\ q.proved_at <= q.verified_at

\* The times of a verified request are in the order of its life: created, then
\* verified, and the proof it holds is not younger than the verification.
TimesOrdered == \A r \in LiveRequests : InOrder(request[r])

ExpiryShrinks(r) ==
  /\ request[r] # Closed /\ request'[r] # Closed
  /\ ServiceOf(PolicyOf(r)) \notin adminClosed
  /\ request'[r].identifier = request[r].identifier
  /\ request[r].expired_at > 0
  => request'[r].expired_at \in 1..request[r].expired_at

\* Nothing done to a request between two creations widens its life: once it
\* expires at some time, only an earlier time may replace it.  (A service that an
\* admin closed gives out its identifiers again.)
ExpiryOnlyShrinks == [][\A r \in Requests : ExpiryShrinks(r)]_vars

=============================================================================
