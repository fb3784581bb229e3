-------------------------- MODULE CertificateProofs --------------------------
(* The safety of a compliance certificate: what a verified request holds, what *)
(* the program bound into it, and how its times and identifier develop.        *)
EXTENDS ProofRequestProofs

-----------------------------------------------------------------------------
(* What each handler leaves in the fields of an account.                     *)

LEMMA RenewedFields ==
  ASSUME NEW q \in RequestAccount, NEW p, NEW e
  PROVE  LET z == Renewed(q, p, e)
         IN /\ z.status = "Pending" /\ z.identifier = NextIdentifier(p)
            /\ z.created_at = now /\ z.proved_at = 0 /\ z.verified_at = 0
            /\ z.proof = q.proof /\ z.public_inputs = q.public_inputs
            /\ z.issuer = q.issuer
BY DEF Renewed, RequestAccount

LEMMA ExtendedFields ==
  ASSUME NEW q \in RequestAccount, NEW inputs \in Seq(Nat), NEW reset \in BOOLEAN
  PROVE  LET z == Extended(q, inputs, reset)
         IN /\ z.identifier = q.identifier /\ z.created_at = q.created_at
            /\ z.expired_at = q.expired_at /\ z.verified_at = q.verified_at
            /\ reset => z.status = "Pending" /\ z.proof = None /\ z.proved_at = 0
            /\ ~reset => /\ z.status = q.status /\ z.proof = q.proof
                         /\ z.proved_at = q.proved_at /\ z.issuer = q.issuer
                         /\ z.public_inputs = q.public_inputs \o inputs
<1>1. CASE reset
  BY <1>1 DEF Extended, ResetRequest, RequestAccount
<1>2. CASE ~reset
  BY <1>2 DEF Extended, RequestAccount
<1> QED
  BY <1>1, <1>2

LEMMA ProvenFields ==
  ASSUME NEW q \in RequestAccount, NEW proof, NEW signals, NEW rules, NEW iss
  PROVE  LET z == Proven(q, proof, signals, rules, iss)
         IN /\ z.identifier = q.identifier /\ z.created_at = q.created_at
            /\ z.verified_at = q.verified_at /\ z.proved_at = now
            /\ z.status = "Proved" /\ z.proof = proof
            /\ z.issuer = IF "issuerPk" \in DOMAIN signals THEN iss ELSE None
            /\ z.expired_at = CappedExpiry(q.expired_at, q.public_inputs, signals)
            /\ z.public_inputs =
                 ApplyRules(BindIssuer(q.public_inputs, signals, iss), signals, rules)
BY DEF Proven, ProvenStatus, RequestAccount

LEMMA JudgedFields ==
  ASSUME NEW q \in RequestAccount, NEW status
  PROVE  LET z == Judged(q, status)
         IN /\ z.identifier = q.identifier /\ z.created_at = q.created_at
            /\ z.expired_at = q.expired_at /\ z.proved_at = q.proved_at
            /\ z.verified_at = now /\ z.status = status /\ z.proof = q.proof
            /\ z.issuer = q.issuer /\ z.public_inputs = q.public_inputs
BY DEF Judged, RequestAccount

-----------------------------------------------------------------------------
(* Each handler keeps a good account good.                                   *)

Good(q, h) ==
  HoldsProof(q, h) /\ InputsBound(q, h) /\ WithinCredential(q, h) /\ InOrder(q)

LEMMA AppendKeeps ==
  ASSUME NEW s \in Seq(Nat), NEW t \in Seq(Nat)
  PROVE  /\ Len(s \o t) >= Len(s)
         /\ \A i \in 1..Len(s) : (s \o t)[i] = s[i]
OBVIOUS

LEMMA StartsWithAppend ==
  ASSUME NEW long \in Seq(Nat), NEW more \in Seq(Nat), NEW short \in Seq(Nat),
         StartsWith(long, short)
  PROVE  StartsWith(long \o more, short)
BY DEF StartsWith

LEMMA RenewedGood ==
  ASSUME NEW q \in RequestAccount, NEW h \in HistoryType, NEW p, NEW e, now \in Nat,
         InputsBound(q, h)
  PROVE  Good(Renewed(q, p, e), h)
<1> DEFINE z == Renewed(q, p, e)
<1>1. /\ z.status = "Pending" /\ z.created_at = now /\ z.proved_at = 0 /\ z.verified_at = 0
      /\ z.proof = q.proof /\ z.public_inputs = q.public_inputs /\ z.issuer = q.issuer
  BY RenewedFields
<1> HIDE DEF z
<1>2. HoldsProof(z, h) /\ InOrder(z)
  BY <1>1 DEF HoldsProof, VerifiedByProgram, InOrder
<1>3. InputsBound(z, h)
  BY <1>1 DEF InputsBound
<1>4. WithinCredential(z, h)
  BY <1>1 DEF WithinCredential
<1> QED
  BY <1>2, <1>3, <1>4 DEF Good, z

LEMMA ExtendedGood ==
  ASSUME NEW q \in RequestAccount, NEW h \in HistoryType, NEW inputs \in Seq(Nat),
         NEW reset \in BOOLEAN, now \in Nat, Good(q, h)
  PROVE  Good(Extended(q, inputs, reset), h)
<1> DEFINE z == Extended(q, inputs, reset)
<1>1. /\ z.created_at = q.created_at /\ z.verified_at = q.verified_at
      /\ z.expired_at = q.expired_at
      /\ reset => z.status = "Pending" /\ z.proof = None /\ z.proved_at = 0
      /\ ~reset => /\ z.status = q.status /\ z.proof = q.proof
                   /\ z.proved_at = q.proved_at /\ z.issuer = q.issuer
                   /\ z.public_inputs = q.public_inputs \o inputs
  BY ExtendedFields
<1>2. q.public_inputs \in Seq(Nat) /\ h.count \in Nat
      /\ (q.proof # None => q.proof.inputs \in Seq(Nat))
  BY DEF RequestAccount, HistoryType, ProofData
<1> SUFFICES Good(z, h)
  OBVIOUS
<1> HIDE DEF z
<1>3. CASE reset
  BY <1>1, <1>3
  DEF Good, HoldsProof, VerifiedByProgram, InputsBound, InOrder, WithinCredential
<1>4. CASE ~reset
  <2>1. HoldsProof(z, h)
    BY <1>1, <1>2, <1>4, StartsWithAppend DEF Good, HoldsProof, VerifiedByProgram
  <2>2. InOrder(z)
    BY <1>1, <1>4 DEF Good, InOrder
  <2>3. z.proof # None =>
          /\ Len(z.public_inputs) >= h.count
          /\ \A i \in 1..h.count : z.public_inputs[i] = q.public_inputs[i]
    <3>1. SUFFICES ASSUME z.proof # None
                   PROVE  /\ Len(z.public_inputs) >= h.count
                          /\ \A i \in 1..h.count :
                               z.public_inputs[i] = q.public_inputs[i]
      OBVIOUS
    <3>2. h.count <= Len(q.public_inputs)
      BY <1>1, <1>4, <3>1 DEF Good, InputsBound
    <3> QED
      <4> DEFINE s == q.public_inputs
      <4>1. z.public_inputs = s \o inputs /\ s \in Seq(Nat) /\ h.count \in Nat
        BY <1>1, <1>2, <1>4
      <4>2. Len(s) \in Nat /\ h.count <= Len(s) /\ Len(s \o inputs) \in Nat
        BY <3>2, <4>1
      <4> HIDE DEF s
      <4>3. \A i \in 1..h.count : i \in 1..Len(s)
        BY <4>1, <4>2
      <4> QED
        BY <4>1, <4>2, <4>3, AppendKeeps DEF s
  <2>4. InputsBound(z, h)
    <3>1. SUFFICES ASSUME z.proof # None
                   PROVE  InputsBound(z, h)
      BY DEF InputsBound
    <3>2. InputsBound(q, h) /\ q.proof # None
      BY <1>1, <1>4, <3>1 DEF Good
    <3> QED
      BY <1>1, <1>2, <1>4, <2>3, <3>1, <3>2 DEF InputsBound
  <2>5. WithinCredential(z, h)
    <3>1. WithinCredential(q, h)
      BY DEF Good
    <3> QED
      BY <1>1, <1>4, <2>3, <3>1 DEF WithinCredential
  <2> QED
    BY <2>1, <2>2, <2>4, <2>5 DEF Good
<1> QED
  BY <1>3, <1>4

LEMMA ProvenGood ==
  ASSUME RegistryTypeOK, now \in Nat \ {0},
         NEW q \in RequestAccount, NEW h \in HistoryType, NEW proof \in ProofData,
         NEW signals \in Layouts, NEW rules \in RuleSets, NEW iss \in Issuers \cup {None},
         iss # None => issuer[iss] # Closed,
         CredentialValid(q.public_inputs, signals),
         IssuerAccepted(q.public_inputs, signals, iss), InOrder(q)
  PROVE  Good(Proven(q, proof, signals, rules, iss),
              ProofTaken(h, signals, rules, iss, Len(q.public_inputs)))
<1> DEFINE z == Proven(q, proof, signals, rules, iss)
           t == ProofTaken(h, signals, rules, iss, Len(q.public_inputs))
           bound == BindIssuer(q.public_inputs, signals, iss)
           inputs == ApplyRules(bound, signals, rules)
<1>0. q.public_inputs \in Seq(Nat) /\ Len(q.public_inputs) \in Nat
  BY DEF RequestAccount
<1>1. /\ z.created_at = q.created_at /\ z.verified_at = q.verified_at /\ z.proved_at = now
      /\ z.status = "Proved" /\ z.proof = proof
      /\ z.issuer = IF "issuerPk" \in DOMAIN signals THEN iss ELSE None
      /\ z.expired_at = CappedExpiry(q.expired_at, q.public_inputs, signals)
      /\ z.public_inputs = inputs
  BY ProvenFields
<1>2. /\ t.signals = signals /\ t.rules = rules /\ t.count = Len(q.public_inputs)
      /\ iss # None => t.key = issuer[iss].zk_pubkey
  BY <1>0, ProofTakenType
<1>3. bound \in Seq(Nat) /\ Len(bound) = Len(q.public_inputs)
      /\ DOMAIN bound = 1..Len(q.public_inputs)
  BY <1>0, BindIssuerType
<1>4. Len(inputs) = Len(q.public_inputs)
      /\ \A i \in 1..Len(q.public_inputs) :
           inputs[i] = IF RulesAt(signals, rules, i) = {} THEN bound[i]
                       ELSE rules[LastOf(RulesAt(signals, rules, i))].value
  <2> HIDE DEF bound
  <2> QED BY <1>3, ApplyRulesType DEF ApplyRules
<1>5. "issuerPk" \in DOMAIN signals =>
        /\ iss # None /\ signals["issuerPk"] \in 1..Len(q.public_inputs)
        /\ bound[signals["issuerPk"]] = issuer[iss].zk_pubkey
  BY <1>0 DEF IssuerAccepted, BindIssuer
<1>w. WithinCredential(z, t)
  <2> DEFINE i == signals["meta_validUntil"]
             s == q.public_inputs
  <2> SUFFICES ASSUME "meta_validUntil" \in DOMAIN signals
               PROVE  /\ i \in 1..Len(s)
                      /\ ~Overwritten(t, i) => z.expired_at \in 1..inputs[i]
    <3> HIDE DEF z, t, inputs
    <3>1. z.proof # None
      BY <1>1, ProofRequestAssumption DEF ProofRequestAssumption
    <3> QED
      BY <1>1, <1>2, <3>1 DEF WithinCredential
  <2>1. i \in 1..Len(s) /\ s[i] \in Nat /\ s[i] > now
    BY <1>0 DEF CredentialValid
  <2>2. q.expired_at \in Nat
    BY DEF RequestAccount
  <2>3. CappedExpiry(q.expired_at, s, signals) \in 1..s[i]
    <3> HIDE DEF i, s
    <3>1. CappedExpiry(q.expired_at, s, signals) =
            IF q.expired_at = 0 \/ s[i] < q.expired_at THEN s[i] ELSE q.expired_at
      BY DEF CappedExpiry, i
    <3>2. PICK e \in Nat : e = q.expired_at
      BY <2>2
    <3>3. PICK v \in Nat : v = s[i] /\ v > 0
      BY <2>1
    <3> QED
      BY <3>1, <3>2, <3>3
  <2>4. ASSUME ~Overwritten(t, i)
        PROVE  inputs[i] = s[i]
    <3> HIDE DEF t, inputs, bound
    <3>1. RulesAt(signals, rules, i) = {}
          /\ ~("issuerPk" \in DOMAIN signals /\ signals["issuerPk"] = i)
      BY <1>2, <2>4 DEF Overwritten
    <3>2. inputs[i] = bound[i]
      BY <1>4, <2>1, <3>1
    <3>3. bound[i] = s[i]
      BY <1>0, <2>1, <3>1 DEF bound, BindIssuer
    <3> QED
      BY <3>2, <3>3
  <2> QED
    BY <1>1, <2>1, <2>3, <2>4
<1> HIDE DEF z, t, bound, inputs
<1>6. HoldsProof(z, t)
  BY <1>1 DEF HoldsProof, VerifiedByProgram
<1>7. InOrder(z)
  BY <1>1 DEF InOrder
<1>8. InputsBound(z, t)
  <2> DEFINE forced(i) == RulesAt(signals, rules, i)
             n == Len(q.public_inputs)
  <2>1. t.count = n /\ Len(z.public_inputs) = n /\ n \in Nat
    BY <1>0, <1>1, <1>2, <1>4
  <2>2. \A i \in 1..n : forced(i) # {} => z.public_inputs[i] = rules[LastOf(forced(i))].value
    BY <1>1, <1>4
  <2>3. "issuerPk" \in DOMAIN signals =>
          /\ z.issuer # None /\ signals["issuerPk"] \in 1..n
          /\ forced(signals["issuerPk"]) = {} => z.public_inputs[signals["issuerPk"]] = t.key
    BY <1>1, <1>2, <1>4, <1>5
  <2> HIDE DEF n
  <2> QED BY <1>2, <2>1, <2>2, <2>3 DEF InputsBound
<1> QED
  BY <1>6, <1>7, <1>8, <1>w DEF Good, z, t

\* The program's verdict counts only for the inputs the proof was made for; an
\* admin's is not the program's.
LEMMA VerifiedGood ==
  ASSUME NEW q \in RequestAccount, NEW h \in HistoryType, now \in Nat, Good(q, h),
         q.proof # None, NEW vk, Groth16Verifies(q.proof, q.public_inputs, vk)
  PROVE  Good(Judged(q, "Verified"), [h EXCEPT !.verifier = "program"])
<1> DEFINE z == Judged(q, "Verified")
           t == [h EXCEPT !.verifier = "program"]
<1>1. /\ z.created_at = q.created_at /\ z.proved_at = q.proved_at
      /\ z.verified_at = now /\ z.status = "Verified" /\ z.proof = q.proof
      /\ z.issuer = q.issuer /\ z.public_inputs = q.public_inputs
      /\ z.expired_at = q.expired_at
  BY JudgedFields
<1>2. /\ t.signals = h.signals /\ t.rules = h.rules /\ t.key = h.key
      /\ t.count = h.count
  BY DEF HistoryType
<1>3. q.proof.inputs = q.public_inputs /\ q.public_inputs \in Seq(Nat)
  BY DEF Groth16Verifies, RequestAccount
<1> SUFFICES Good(z, t)
  OBVIOUS
<1> HIDE DEF z, t
<1>4. HoldsProof(z, t)
  BY <1>1, <1>3 DEF HoldsProof, StartsWith
<1>5. InputsBound(z, t)
  BY <1>1, <1>2 DEF Good, InputsBound
<1>6. InOrder(z)
  BY <1>1 DEF Good, InOrder
<1>7. WithinCredential(z, t)
  BY <1>1, <1>2 DEF Good, WithinCredential, Overwritten
<1> QED
  BY <1>4, <1>5, <1>6, <1>7 DEF Good

LEMMA UpdatedGood ==
  ASSUME NEW q \in RequestAccount, NEW h \in HistoryType, NEW status \in Status,
         now \in Nat, Good(q, h)
  PROVE  Good(Judged(q, status), [h EXCEPT !.verifier = "admin"])
<1> DEFINE z == Judged(q, status)
           t == [h EXCEPT !.verifier = "admin"]
<1>1. /\ z.created_at = q.created_at /\ z.proved_at = q.proved_at
      /\ z.verified_at = now /\ z.proof = q.proof
      /\ z.issuer = q.issuer /\ z.public_inputs = q.public_inputs
      /\ z.expired_at = q.expired_at
  BY JudgedFields
<1>2. /\ t.signals = h.signals /\ t.rules = h.rules /\ t.key = h.key
      /\ t.count = h.count /\ t.verifier = "admin"
  BY DEF HistoryType
<1> SUFFICES Good(z, t)
  OBVIOUS
<1> HIDE DEF z, t
<1>3. HoldsProof(z, t)
  BY <1>2 DEF HoldsProof, VerifiedByProgram
<1>4. InputsBound(z, t)
  BY <1>1, <1>2 DEF Good, InputsBound
<1>5. InOrder(z)
  BY <1>1 DEF Good, InOrder
<1>6. WithinCredential(z, t)
  BY <1>1, <1>2 DEF Good, WithinCredential, Overwritten
<1> QED
  BY <1>3, <1>4, <1>5, <1>6 DEF Good

-----------------------------------------------------------------------------
(* The invariants of a single account, together.                             *)

GoodInv == TypeOK /\ \A r \in LiveRequests : Good(request[r], history[r])

\* Rewriting one account with a good one keeps all of them good.
LEMMA RewritesGood ==
  ASSUME GoodInv, NEW r \in Requests, NEW q, NEW h, Rewrites(r, q, h),
         q = Closed \/ Good(q, h), now' = now
  PROVE  \A x \in LiveRequests' : HoldsProof(request'[x], history'[x])
                               /\ InputsBound(request'[x], history'[x])
                               /\ WithinCredential(request'[x], history'[x])
                               /\ InOrder(request[x])'
<1>1. TypeOK
  BY DEF GoodInv
<1>2. /\ request'[r] = q /\ history'[r] = h
      /\ \A x \in Requests \ {r} : request'[x] = request[x] /\ history'[x] = history[x]
  BY <1>1, RewritesEffect
<1>3. \A x \in LiveRequests' : HoldsProof(request'[x], history'[x])
                            /\ InputsBound(request'[x], history'[x])
                            /\ WithinCredential(request'[x], history'[x])
                            /\ InOrder(request'[x])
  BY <1>2 DEF GoodInv, Good, LiveRequests
<1> QED
  BY <1>3 DEF InOrder

LEMMA GoodStep ==
  ASSUME GoodInv, [Next]_vars
  PROVE  GoodInv'
<1> DEFINE Kept == \A x \in LiveRequests' : HoldsProof(request'[x], history'[x])
                                         /\ InputsBound(request'[x], history'[x])
                                         /\ WithinCredential(request'[x], history'[x])
                                         /\ InOrder(request[x])'
<1>0. TypeOK /\ TypeOK' /\ RegistryTypeOK
  BY TypeStep DEF GoodInv, TypeOK
<1>s. SUFFICES Kept
  BY <1>0 DEF GoodInv, Good, HoldsProof, InputsBound, VerifiedByProgram,
              WithinCredential, Overwritten
<1>1. ASSUME NEW u \in Users, NEW p \in Policies, NEW e \in ExpiresIn,
             CreateProofRequest(u, p, e)
      PROVE  Kept
  <2> DEFINE r == <<p, u>>
  <2>1. r \in Requests
    BY DEF Requests
  <2>2. PICK q \in RequestAccount :
          /\ \/ request[r] = Closed /\ q = BlankRequest(policy[p].circuit)
             \/ request[r] # Closed /\ q = request[r]
          /\ Rewrites(r, Renewed(q, p, e), history[r])
          /\ now' = now
    BY <1>0, <1>1, CreateRewrites
  <2>3. history[r] \in HistoryType /\ now \in Nat
    BY <1>0, <2>1, RequestOf
  <2>4. InputsBound(q, history[r])
    <3>1. CASE q = BlankRequest(policy[p].circuit)
      BY <3>1 DEF BlankRequest, InputsBound
    <3>2. CASE request[r] # Closed /\ q = request[r]
      BY <2>1, <3>2 DEF GoodInv, Good, LiveRequests
    <3> QED
      BY <2>2, <3>1, <3>2
  <2>5. Good(Renewed(q, p, e), history[r])
    BY <2>3, <2>4, RenewedGood
  <2> QED
    BY <2>1, <2>2, <2>5, RewritesGood
<1>2. ASSUME NEW a \in Signers, NEW r \in Requests, NEW inputs \in Chunks,
             NEW proof \in Proofs \cup {None}, NEW reset \in BOOLEAN,
             NEW iss \in Issuers \cup {None},
             ProveProofRequest(a, r, inputs, proof, reset, iss)
      PROVE  Kept
  <2> DEFINE q == request[r]
             x == Extended(q, inputs, reset)
             signals == circuit[q.circuit].signals
             rules == policy[PolicyOf(r)].rules
             proven == Proven(x, proof, signals, rules, iss)
             taken == ProofTaken(history[r], signals, rules, iss, Len(x.public_inputs))
  <2>1. /\ q # Closed /\ q \in RequestAccount /\ x \in RequestAccount
        /\ inputs \in Seq(Nat) /\ signals \in Layouts /\ rules \in RuleSets
        /\ iss # None => issuer[iss] # Closed
        /\ now' = now
        /\ \/ Rewrites(r, x, history[r])
           \/ /\ proof \in ProofData
              /\ CredentialValid(x.public_inputs, signals)
              /\ IssuerAccepted(x.public_inputs, signals, iss)
              /\ Rewrites(r, proven, taken)
    BY ONLY <1>0, <1>2, ProveRewrites
  <2>2. history[r] \in HistoryType /\ now \in Nat /\ now \in Nat \ {0}
    BY <1>0, RequestOf DEF TypeOK
  <2>3. Good(q, history[r])
    BY <2>1 DEF GoodInv, LiveRequests
  <2>4. Good(x, history[r])
    BY <2>1, <2>2, <2>3, ExtendedGood
  <2> HIDE DEF q, x, signals, rules
  <2>5. CASE Rewrites(r, x, history[r])
    BY <2>1, <2>4, <2>5, RewritesGood
  <2>6. CASE /\ proof \in ProofData
             /\ CredentialValid(x.public_inputs, signals)
             /\ IssuerAccepted(x.public_inputs, signals, iss)
             /\ Rewrites(r, proven, taken)
    <3>1. Good(proven, taken)
      BY <1>0, <2>1, <2>2, <2>4, <2>6, ProvenGood DEF Good
    <3> HIDE DEF proven, taken
    <3> QED
      BY <2>1, <2>6, <3>1, RewritesGood
  <2> QED
    BY <2>1, <2>5, <2>6
<1>3. ASSUME NEW r \in Requests, VerifyProofRequest(r)
      PROVE  Kept
  <2>1. request[r] \in RequestAccount /\ history[r] \in HistoryType /\ now \in Nat
    BY <1>0, <1>3, RequestOf, VerifyRewrites
  <2>2. Good(request[r], history[r])
    BY <1>0, <1>3, VerifyRewrites DEF GoodInv, LiveRequests
  <2>3. Good(Judged(request[r], "Verified"), [history[r] EXCEPT !.verifier = "program"])
    BY <1>0, <1>3, <2>1, <2>2, VerifyRewrites, VerifiedGood
  <2> QED
    BY <1>0, <1>3, <2>3, VerifyRewrites, RewritesGood
<1>4. ASSUME NEW a \in Signers, NEW r \in Requests, NEW status \in Status,
             UpdateProofRequest(a, r, status)
      PROVE  Kept
  <2>1. request[r] \in RequestAccount /\ history[r] \in HistoryType /\ now \in Nat
    BY <1>0, <1>4, RequestOf, UpdateRewrites
  <2>2. Good(request[r], history[r])
    BY <1>0, <1>4, UpdateRewrites DEF GoodInv, LiveRequests
  <2>3. Good(Judged(request[r], status), [history[r] EXCEPT !.verifier = "admin"])
    BY <2>1, <2>2, UpdatedGood
  <2> QED
    BY <1>0, <1>4, <2>3, UpdateRewrites, RewritesGood
<1>5. ASSUME NEW a \in Signers, NEW r \in Requests,
             DeleteProofRequest(a, r) \/ AdminCloseProofRequest(a, r)
      PROVE  Kept
  BY <1>0, <1>5, CloseRewrites, RewritesGood
<1>6. ASSUME UNCHANGED <<request, history>>, now' >= now
      PROVE  Kept
  <2>1. LiveRequests' = LiveRequests /\ now \in Nat /\ now' \in Nat
    BY <1>0, <1>6 DEF LiveRequests, TypeOK
  <2>2. ASSUME NEW x \in LiveRequests
        PROVE  /\ HoldsProof(request'[x], history'[x])
               /\ InputsBound(request'[x], history'[x])
               /\ WithinCredential(request'[x], history'[x])
               /\ InOrder(request[x])'
    <3>1. Good(request[x], history[x]) /\ request[x] \in RequestAccount
      BY RequestOf, <1>0 DEF GoodInv, LiveRequests
    <3>2. request[x].created_at \in Nat /\ request[x].proved_at \in Nat
          /\ request[x].verified_at \in Nat
      BY <3>1 DEF RequestAccount
    <3>3. InOrder(request[x])'
      BY <1>6, <2>1, <3>1, <3>2 DEF Good, InOrder
    <3> QED
      BY <1>6, <3>1, <3>3 DEF Good
  <2> QED
    BY <2>1, <2>2
<1>7. CASE Tick
  BY <1>0, <1>6, <1>7 DEF Tick, TypeOK
<1>8. CASE RegistryStep \/ UNCHANGED vars
  BY <1>0, <1>6, <1>8 DEF RegistryStep, vars, requestVars, TypeOK
<1> QED
  BY <1>1, <1>2, <1>3, <1>4, <1>5, <1>7, <1>8 DEF Next, ProofRequestNext

LEMMA GoodAlways == Spec => []GoodInv
<1>1. Init => GoodInv
  BY TypeInit DEF Init, GoodInv, LiveRequests
<1> QED
  BY <1>1, GoodStep, PTL DEF Spec

\* verify_proof_request.rs: a request the program verified still holds the proof
\* and starts with the inputs it was verified for, through every interleaving of
\* handlers, registry changes and the clock.
THEOREM CertificateHoldsItsProof == Spec => []CertificateHoldsProof
<1>1. GoodInv => CertificateHoldsProof
  BY DEF GoodInv, Good, CertificateHoldsProof
<1> QED
  BY <1>1, GoodAlways, PTL

\* prove_proof_request.rs: what the program forced into the inputs when it took
\* the proof, the policy's rules and the issuer's key, is there as long as the
\* proof is.
THEOREM InputsStayBound == Spec => []BoundInputs
<1>1. GoodInv => BoundInputs
  BY DEF GoodInv, Good, BoundInputs
<1> QED
  BY <1>1, GoodAlways, PTL

\* prove_proof_request.rs:84-95: a request proved since it was last created
\* expires, and not later than the credential its inputs name, in whatever order
\* chunks, proofs, verdicts, policies and circuits change.
THEOREM ExpiryStaysWithinCredential == Spec => []ExpiryWithinCredential
<1>1. GoodInv => ExpiryWithinCredential
  BY DEF GoodInv, Good, ExpiryWithinCredential
<1> QED
  BY <1>1, GoodAlways, PTL

\* The times the handlers write are in the order of the request's life.
THEOREM TimesStayOrdered == Spec => []TimesOrdered
<1>1. GoodInv => TimesOrdered
  BY DEF GoodInv, Good, TimesOrdered
<1> QED
  BY <1>1, GoodAlways, PTL

-----------------------------------------------------------------------------
(* Identifiers.  They are unique because a live request's service is live, or  *)
(* was closed by an admin: its counter has not started over meanwhile.         *)

RequestsNeedService ==
  \A r \in LiveRequests :
    \/ service[ServiceOf(PolicyOf(r))] # Closed
    \/ ServiceOf(PolicyOf(r)) \in adminClosed

IdInv == TypeOK /\ IdentifiersUnique /\ RequestsNeedService

\* What a registry step may do to a counter of requests.
LEMMA RegistryKeepsCounters ==
  ASSUME RegistryTypeOK, RegistryNext, NEW s \in Services
  PROVE  /\ adminClosed \subseteq adminClosed'
         /\ service[s] # Closed /\ service'[s] = Closed => s \in adminClosed'
         /\ service[s] # Closed /\ service'[s] # Closed =>
              service'[s].proof_request_count = service[s].proof_request_count
<1> DEFINE Goal == /\ adminClosed \subseteq adminClosed'
                   /\ service[s] # Closed /\ service'[s] = Closed => s \in adminClosed'
                   /\ service[s] # Closed /\ service'[s] # Closed =>
                        service'[s].proof_request_count = service[s].proof_request_count
<1>1. ASSUME NEW z \in Services, NEW x \in ServiceAccount,
             service' = [service EXCEPT ![z] = x], adminClosed' = adminClosed,
             service[z] = Closed
                \/ x.proof_request_count = service[z].proof_request_count
      PROVE  Goal
  <2>1. x # Closed
    BY RegistryAssumption DEF RegistryAssumption
  <2> QED
    BY <1>1, <2>1 DEF RegistryTypeOK
<1>2. CASE ServiceNext
  <2> PICK a \in Signers, z \in Services :
        \/ \E auth \in Signers, n \in Thresholds, ts \in TrusteeLists :
             CreateServiceProvider(a, z, auth, n, ts)
        \/ \E auth \in Signers \cup {None}, n \in Thresholds \cup {None},
              clear \in BOOLEAN, ts \in TrusteeLists :
             UpdateServiceProvider(a, z, auth, n, clear, ts)
        \/ DeleteServiceProvider(a, z)
    BY <1>2 DEF ServiceNext
  <2>1. ASSUME NEW auth \in Signers, NEW n \in Thresholds, NEW ts \in TrusteeLists,
               CreateServiceProvider(a, z, auth, n, ts)
        PROVE  Goal
    <3> DEFINE x == [authority |-> auth, secret_share_threshold |-> n,
                     trustees |-> ts, policy_count |-> 0, proof_request_count |-> 0]
    <3>1. x \in ServiceAccount
      BY RegistryAssumption DEF ServiceAccount, RegistryAssumption
    <3>2. service' = [service EXCEPT ![z] = x] /\ adminClosed' = adminClosed
          /\ service[z] = Closed
      BY <2>1 DEF CreateServiceProvider
    <3> HIDE DEF x
    <3> QED
      BY <1>1, <3>1, <3>2
  <2>2. ASSUME NEW auth \in Signers \cup {None}, NEW n \in Thresholds \cup {None},
               NEW clear \in BOOLEAN, NEW ts \in TrusteeLists,
               UpdateServiceProvider(a, z, auth, n, clear, ts)
        PROVE  Goal
    <3> DEFINE old == service[z]
               x == [old EXCEPT !.authority = OrElse(auth, old.authority),
                       !.secret_share_threshold = OrElse(n, old.secret_share_threshold),
                       !.trustees = IF clear \/ ts # <<>> THEN ts ELSE old.trustees]
    <3>1. old \in ServiceAccount
      BY <2>2 DEF UpdateServiceProvider, RegistryTypeOK
    <3>2. x \in ServiceAccount /\ x.proof_request_count = old.proof_request_count
      BY <3>1, RegistryAssumption DEF ServiceAccount, OrElse, RegistryAssumption
    <3>3. service' = [service EXCEPT ![z] = x] /\ adminClosed' = adminClosed
      BY <2>2 DEF UpdateServiceProvider
    <3> HIDE DEF x
    <3> QED
      BY <1>1, <3>2, <3>3
  <2>3. CASE DeleteServiceProvider(a, z)
    BY <2>3 DEF DeleteServiceProvider, RegistryTypeOK
  <2> QED
    BY <2>1, <2>2, <2>3
<1>3. CASE PolicyNext
  <2> PICK p \in Policies :
        \/ \E c \in Circuits, rules \in RuleSets, period \in Periods, ret \in Retentions :
             CreatePolicy(p, c, rules, period, ret)
        \/ \E a \in Signers, rules \in RuleSets \cup {None},
              period \in Periods \cup {None}, ret \in Retentions \cup {None} :
             UpdatePolicy(a, p, rules, period, ret)
        \/ \E a \in Signers : DeletePolicy(a, p)
        \/ \E a \in Signers : AdminClosePolicy(a, p)
    BY <1>3 DEF PolicyNext
  <2> DEFINE z == ServiceOf(p)
             Counted(n) == [service[z] EXCEPT !.policy_count = n]
  <2>1. z \in Services
    BY DEF Policies, ServiceOf
  <2>2. ASSUME service[z] # Closed, NEW n \in Nat,
               service' = [service EXCEPT ![z] = Counted(n)], adminClosed' = adminClosed
        PROVE  Goal
    <3>1. service[z] \in ServiceAccount
      BY <2>1, <2>2 DEF RegistryTypeOK
    <3>2. Counted(n) \in ServiceAccount
          /\ Counted(n).proof_request_count = service[z].proof_request_count
      BY <3>1 DEF ServiceAccount
    <3> QED
      BY <1>1, <2>1, <2>2, <3>2
  <2>3. service[z] # Closed => service[z].policy_count \in Nat
    BY <2>1 DEF RegistryTypeOK, ServiceAccount
  <2>4. ASSUME NEW c \in Circuits, NEW rules \in RuleSets, NEW period \in Periods,
               NEW ret \in Retentions, CreatePolicy(p, c, rules, period, ret)
        PROVE  Goal
    <3>1. /\ service[z] # Closed /\ adminClosed' = adminClosed
          /\ service' = [service EXCEPT ![z] = Counted(service[z].policy_count + 1)]
      BY <2>4 DEF CreatePolicy
    <3>2. service[z].policy_count + 1 \in Nat
      BY <2>3, <3>1
    <3> HIDE DEF Counted, z, Goal
    <3> QED
      BY <2>2, <3>1, <3>2
  <2>5. ASSUME NEW a \in Signers, DeletePolicy(a, p)
        PROVE  Goal
    <3>1. /\ service[z] # Closed /\ adminClosed' = adminClosed
          /\ service' = [service EXCEPT ![z] = Counted(CountDown(service[z].policy_count))]
      BY <2>5 DEF DeletePolicy
    <3>2. CountDown(service[z].policy_count) \in Nat
      BY <2>3, <3>1 DEF CountDown
    <3> HIDE DEF Counted, z, Goal
    <3> QED
      BY <2>2, <3>1, <3>2
  <2>6. CASE \/ \E a \in Signers, rules \in RuleSets \cup {None},
                   period \in Periods \cup {None}, ret \in Retentions \cup {None} :
                  UpdatePolicy(a, p, rules, period, ret)
             \/ \E a \in Signers : AdminClosePolicy(a, p)
    BY <2>6 DEF UpdatePolicy, AdminClosePolicy
  <2> QED
    BY <2>4, <2>5, <2>6
<1>4. CircuitNext \/ IssuerNext \/ TrusteeNext => UNCHANGED <<service, adminClosed>>
  BY DEF CircuitNext, IssuerNext, TrusteeNext, CreateCircuit, UpdateCircuitVk,
         DeleteCircuit, CreateIssuer, DeleteIssuer, CreateTrustee, UpdateTrustee,
         VerifyTrustee, DeleteTrustee
<1> QED
  BY <1>2, <1>3, <1>4 DEF RegistryNext

\* Steps that keep the identifiers of the requests they keep.
LEMMA SameIdentifiers ==
  ASSUME IdInv,
         \A x \in LiveRequests' :
           x \in LiveRequests /\ request'[x].identifier = request[x].identifier,
         adminClosed \subseteq adminClosed',
         \A s \in Services :
           /\ service[s] # Closed /\ service'[s] = Closed => s \in adminClosed'
           /\ service[s] # Closed /\ service'[s] # Closed =>
                service'[s].proof_request_count = service[s].proof_request_count
  PROVE  IdentifiersUnique' /\ RequestsNeedService'
<1>0. \A x \in LiveRequests' : ServiceOf(PolicyOf(x)) \in Services
  BY RequestOf DEF IdInv, LiveRequests
<1>1. RequestsNeedService'
  BY <1>0 DEF IdInv, RequestsNeedService
<1>2. ASSUME NEW x \in LiveRequests', service'[ServiceOf(PolicyOf(x))] # Closed,
             ServiceOf(PolicyOf(x)) \notin adminClosed'
      PROVE  /\ x \in LiveRequests
             /\ service[ServiceOf(PolicyOf(x))] # Closed
             /\ ServiceOf(PolicyOf(x)) \notin adminClosed
             /\ service'[ServiceOf(PolicyOf(x))].proof_request_count =
                  service[ServiceOf(PolicyOf(x))].proof_request_count
  BY <1>0, <1>2 DEF IdInv, RequestsNeedService
<1>3. IdentifiersUnique'
  BY <1>2 DEF IdInv, IdentifiersUnique
<1> QED
  BY <1>1, <1>3

LEMMA IdStep ==
  ASSUME IdInv, [Next]_vars
  PROVE  IdInv'
<1>0. TypeOK /\ TypeOK' /\ RegistryTypeOK
  BY TypeStep DEF IdInv, TypeOK
<1> SUFFICES IdentifiersUnique' /\ RequestsNeedService'
  BY <1>0 DEF IdInv
<1>1. ASSUME NEW u \in Users, NEW p \in Policies, NEW e \in ExpiresIn,
             CreateProofRequest(u, p, e)
      PROVE  IdentifiersUnique' /\ RequestsNeedService'
  <2> DEFINE r == <<p, u>>
             s == ServiceOf(p)
  <2>1. r \in Requests /\ s \in Services /\ ServiceOf(PolicyOf(r)) = s
    BY DEF Requests, Policies, PolicyOf, ServiceOf
  <2>2. /\ service[s] # Closed /\ service'[s] # Closed
        /\ service'[s].proof_request_count = service[s].proof_request_count + 1
        /\ NextIdentifier(p) = service[s].proof_request_count + 1
        /\ service[s].proof_request_count \in Nat
        /\ \A x \in Services \ {s} : service'[x] = service[x]
    BY <1>0, <1>1, CreateRegistry
  <2>3. PICK q \in RequestAccount : Rewrites(r, Renewed(q, p, e), history[r])
    BY <1>0, <1>1, CreateRewrites
  <2>4. /\ request'[r].identifier = service[s].proof_request_count + 1
        /\ \A x \in Requests \ {r} : request'[x] = request[x]
    BY <1>0, <2>1, <2>2, <2>3, RewritesEffect, RenewedFields
  <2>5. adminClosed' = adminClosed
    BY <1>1 DEF CreateProofRequest
  <2>6. \A x \in Requests : ServiceOf(PolicyOf(x)) \in Services
    BY <1>0, RequestOf
  <2>7. \A x \in LiveRequests' : x = r \/ x \in LiveRequests
    BY <2>4 DEF LiveRequests
  <2>8. \A x \in LiveRequests' : x \in Requests
    BY DEF LiveRequests
  <2>9. \A x \in LiveRequests : request[x].identifier \in Nat
    BY <1>0, RequestOf DEF LiveRequests, RequestAccount
  <2> HIDE DEF r, s
  <2>10. RequestsNeedService'
    BY <2>1, <2>2, <2>5, <2>6, <2>7, <2>8 DEF IdInv, RequestsNeedService
  <2>11. ASSUME NEW x \in LiveRequests', NEW y \in LiveRequests',
                service'[ServiceOf(PolicyOf(x))] # Closed,
                ServiceOf(PolicyOf(x)) \notin adminClosed'
         PROVE  /\ request'[x].identifier <= service'[ServiceOf(PolicyOf(x))].proof_request_count
                /\ ServiceOf(PolicyOf(y)) = ServiceOf(PolicyOf(x)) /\ x # y =>
                     request'[x].identifier # request'[y].identifier
    <3>1. CASE ServiceOf(PolicyOf(x)) # s
      <4>1. x # r /\ x \in LiveRequests /\ request'[x] = request[x]
            /\ service'[ServiceOf(PolicyOf(x))] = service[ServiceOf(PolicyOf(x))]
        BY <2>1, <2>2, <2>4, <2>6, <2>7, <2>8, <3>1
      <4>2. ServiceOf(PolicyOf(y)) = ServiceOf(PolicyOf(x)) =>
              y # r /\ y \in LiveRequests /\ request'[y] = request[y]
        BY <2>1, <2>4, <2>7, <2>8, <3>1
      <4> QED
        BY <2>5, <2>11, <4>1, <4>2 DEF IdInv, IdentifiersUnique
    <3>2. CASE ServiceOf(PolicyOf(x)) = s
      <4>1. \A z \in LiveRequests : ServiceOf(PolicyOf(z)) = s =>
              request[z].identifier <= service[s].proof_request_count
        BY <2>2, <2>5, <2>11, <3>2 DEF IdInv, IdentifiersUnique
      <4>2. CASE x = r
        <5>1. y # r /\ ServiceOf(PolicyOf(y)) = s =>
                /\ request'[y] = request[y] /\ request[y].identifier \in Nat
                /\ request[y].identifier <= service[s].proof_request_count
          BY <2>4, <2>7, <2>8, <2>9, <4>1
        <5> QED
          BY <2>2, <2>4, <3>2, <4>2, <5>1
      <4>3. CASE x # r
        <5>1. /\ x \in LiveRequests /\ request'[x] = request[x]
              /\ request[x].identifier \in Nat
              /\ request[x].identifier <= service[s].proof_request_count
          BY <2>4, <2>7, <2>8, <2>9, <3>2, <4>1, <4>3
        <5>2. y # r /\ x # y /\ ServiceOf(PolicyOf(y)) = s =>
                request'[y] = request[y] /\ request[x].identifier # request[y].identifier
          BY <2>2, <2>4, <2>5, <2>7, <2>8, <2>11, <3>2, <5>1 DEF IdInv, IdentifiersUnique
        <5> QED
          BY <2>2, <2>4, <3>2, <5>1, <5>2
      <4> QED
        BY <4>2, <4>3
    <3> QED
      BY <3>1, <3>2
  <2> QED
    BY <2>10, <2>11 DEF IdentifiersUnique
<1>k. ASSUME NEW r \in Requests, NEW q, NEW h, Rewrites(r, q, h), UNCHANGED registryVars,
             q = Closed \/ (request[r] # Closed /\ q.identifier = request[r].identifier)
      PROVE  IdentifiersUnique' /\ RequestsNeedService'
  <2>1. \A x \in LiveRequests' :
          x \in LiveRequests /\ request'[x].identifier = request[x].identifier
    BY <1>0, <1>k, RewritesEffect DEF LiveRequests
  <2> QED
    BY <1>k, <2>1, SameIdentifiers DEF registryVars
<1>2. ASSUME NEW a \in Signers, NEW r \in Requests, NEW inputs \in Chunks,
             NEW proof \in Proofs \cup {None}, NEW reset \in BOOLEAN,
             NEW iss \in Issuers \cup {None},
             ProveProofRequest(a, r, inputs, proof, reset, iss)
      PROVE  IdentifiersUnique' /\ RequestsNeedService'
  <2> DEFINE q == request[r]
             x == Extended(q, inputs, reset)
             signals == circuit[q.circuit].signals
             rules == policy[PolicyOf(r)].rules
             proven == Proven(x, proof, signals, rules, iss)
  <2>1. /\ q # Closed /\ q \in RequestAccount /\ x \in RequestAccount
        /\ inputs \in Seq(Nat) /\ UNCHANGED registryVars
        /\ \E h : Rewrites(r, x, h) \/ Rewrites(r, proven, h)
    BY <1>0, <1>2, ProveRewrites
  <2>2. x.identifier = q.identifier
    BY <2>1, ExtendedFields
  <2> HIDE DEF x, signals, rules
  <2>3. proven.identifier = x.identifier
    BY <2>1, ProvenFields
  <2> HIDE DEF proven
  <2> QED
    BY <1>k, <2>1, <2>2, <2>3
<1>3. ASSUME NEW r \in Requests, VerifyProofRequest(r)
      PROVE  IdentifiersUnique' /\ RequestsNeedService'
  <2>1. request[r] # Closed /\ request[r] \in RequestAccount
    BY <1>0, <1>3, VerifyRewrites, RequestOf
  <2>2. Judged(request[r], "Verified").identifier = request[r].identifier
    BY <2>1, JudgedFields
  <2>3. UNCHANGED registryVars /\ \E q, h : /\ Rewrites(r, q, h)
                                            /\ q.identifier = request[r].identifier
    BY <1>0, <1>3, <2>2, VerifyRewrites
  <2> QED
    BY <1>k, <2>1, <2>3
<1>4. ASSUME NEW a \in Signers, NEW r \in Requests, NEW status \in Status,
             UpdateProofRequest(a, r, status)
      PROVE  IdentifiersUnique' /\ RequestsNeedService'
  <2>1. request[r] # Closed /\ request[r] \in RequestAccount
    BY <1>0, <1>4, UpdateRewrites, RequestOf
  <2>2. Judged(request[r], status).identifier = request[r].identifier
    BY <2>1, JudgedFields
  <2>3. UNCHANGED registryVars /\ \E q, h : /\ Rewrites(r, q, h)
                                            /\ q.identifier = request[r].identifier
    BY <1>0, <1>4, <2>2, UpdateRewrites
  <2> QED
    BY <1>k, <2>1, <2>3
<1>5. ASSUME NEW a \in Signers, NEW r \in Requests,
             DeleteProofRequest(a, r) \/ AdminCloseProofRequest(a, r)
      PROVE  IdentifiersUnique' /\ RequestsNeedService'
  BY <1>0, <1>5, <1>k, CloseRewrites
<1>6. CASE RegistryStep
  <2>1. RegistryNext /\ request' = request
    BY <1>6 DEF RegistryStep, requestVars
  <2>2. adminClosed \subseteq adminClosed'
    <3>1. CASE \E s \in Services : TRUE
      BY <1>0, <2>1, <3>1, RegistryKeepsCounters
    <3>2. CASE Services = {}
      BY <1>0, <3>2 DEF RegistryTypeOK
    <3> QED
      BY <3>1, <3>2
  <2>3. \A s \in Services :
          /\ service[s] # Closed /\ service'[s] = Closed => s \in adminClosed'
          /\ service[s] # Closed /\ service'[s] # Closed =>
               service'[s].proof_request_count = service[s].proof_request_count
    BY <1>0, <2>1, RegistryKeepsCounters
  <2>4. \A x \in LiveRequests' :
          x \in LiveRequests /\ request'[x].identifier = request[x].identifier
    BY <2>1 DEF LiveRequests
  <2> QED
    BY <2>2, <2>3, <2>4, SameIdentifiers
<1>7. CASE Tick \/ UNCHANGED vars
  BY <1>7, SameIdentifiers DEF Tick, vars, registryVars, requestVars, LiveRequests
<1> QED
  BY <1>1, <1>2, <1>3, <1>4, <1>5, <1>6, <1>7 DEF Next, ProofRequestNext

LEMMA IdAlways == Spec => []IdInv
<1>1. Init => IdInv
  BY TypeInit DEF Init, IdInv, IdentifiersUnique, RequestsNeedService, LiveRequests
<1> QED
  BY <1>1, IdStep, PTL DEF Spec

\* create_proof_request.rs: identifiers of a service's live requests differ, and
\* none is ahead of its counter, unless an admin closed the service.
THEOREM IdentifiersStayUnique == Spec => []IdentifiersUnique
<1>1. IdInv => IdentifiersUnique
  BY DEF IdInv
<1> QED
  BY <1>1, IdAlways, PTL

-----------------------------------------------------------------------------
(* The expiry of a request.                                                  *)

LEMMA SameExpiry ==
  ASSUME TypeOK, NEW x \in Requests,
         request'[x] # Closed => request'[x].expired_at = request[x].expired_at
  PROVE  ExpiryShrinks(x)
<1> SUFFICES ASSUME request[x] # Closed, request'[x] # Closed, request[x].expired_at > 0
             PROVE  request'[x].expired_at \in 1..request[x].expired_at
  BY DEF ExpiryShrinks
<1>1. request[x].expired_at \in Nat
  BY RequestOf DEF RequestAccount
<1> QED
  BY <1>1

LEMMA ExpiryStep ==
  ASSUME IdInv, [Next]_vars
  PROVE  \A x \in Requests : ExpiryShrinks(x)
<1>0. TypeOK /\ RegistryTypeOK
  BY DEF IdInv, TypeOK
<1> TAKE x \in Requests
<1>1. ASSUME NEW u \in Users, NEW p \in Policies, NEW e \in ExpiresIn,
             CreateProofRequest(u, p, e)
      PROVE  ExpiryShrinks(x)
  <2> DEFINE r == <<p, u>>
  <2>1. r \in Requests /\ PolicyOf(r) = p
    BY DEF Requests, PolicyOf
  <2>2. PICK q \in RequestAccount : Rewrites(r, Renewed(q, p, e), history[r])
    BY <1>0, <1>1, CreateRewrites
  <2>3. CASE x # r
    BY <1>0, <2>1, <2>2, <2>3, RewritesEffect, SameExpiry
  <2>4. CASE x = r
    <3>1. request'[r].identifier = NextIdentifier(p)
      BY <1>0, <2>1, <2>2, RewritesEffect, RenewedFields
    <3>2. /\ service[ServiceOf(p)] # Closed /\ service[ServiceOf(p)].proof_request_count \in Nat
          /\ NextIdentifier(p) = service[ServiceOf(p)].proof_request_count + 1
      BY <1>0, <1>1, CreateRegistry
    <3>3. request[r] # Closed /\ ServiceOf(p) \notin adminClosed =>
            /\ request[r].identifier <= service[ServiceOf(p)].proof_request_count
            /\ request[r].identifier \in Nat
      BY <1>0, <2>1, <3>2, RequestOf DEF IdInv, IdentifiersUnique, LiveRequests, RequestAccount
    <3>4. request[r] # Closed /\ ServiceOf(p) \notin adminClosed =>
            request'[r].identifier # request[r].identifier
      BY <3>1, <3>2, <3>3
    <3> HIDE DEF r
    <3> QED
      BY <2>1, <2>4, <3>4 DEF ExpiryShrinks
  <2> QED
    BY <2>3, <2>4
<1>2. ASSUME NEW a \in Signers, NEW r \in Requests, NEW inputs \in Chunks,
             NEW proof \in Proofs \cup {None}, NEW reset \in BOOLEAN,
             NEW iss \in Issuers \cup {None},
             ProveProofRequest(a, r, inputs, proof, reset, iss)
      PROVE  ExpiryShrinks(x)
  <2> DEFINE q == request[r]
             z == Extended(q, inputs, reset)
             signals == circuit[q.circuit].signals
             rules == policy[PolicyOf(r)].rules
             proven == Proven(z, proof, signals, rules, iss)
  <2>1. /\ q # Closed /\ q \in RequestAccount /\ z \in RequestAccount
        /\ inputs \in Seq(Nat)
        /\ \E h : \/ Rewrites(r, z, h)
                  \/ /\ CredentialValid(z.public_inputs, signals)
                     /\ Rewrites(r, proven, h)
    BY <1>0, <1>2, ProveRewrites
  <2>2. z.expired_at = q.expired_at
    BY <2>1, ExtendedFields
  <2>3. z.public_inputs \in Seq(Nat) /\ q.expired_at \in Nat /\ now \in Nat
    BY <2>1, <1>0 DEF RequestAccount, TypeOK
  <2> HIDE DEF z, signals, rules
  <2>4. proven.expired_at = CappedExpiry(q.expired_at, z.public_inputs, signals)
    BY <2>1, <2>2, ProvenFields
  <2>5. CredentialValid(z.public_inputs, signals) /\ q.expired_at > 0 =>
          proven.expired_at \in 1..q.expired_at
    BY <2>3, <2>4, ExpiryType
  <2> HIDE DEF proven
  <2>6. CASE x # r
    BY <1>0, <2>1, <2>6, RewritesEffect, SameExpiry
  <2>7. CASE x = r
    <3>1. \/ request'[r] = z
          \/ /\ CredentialValid(z.public_inputs, signals)
             /\ request'[r] = proven
      BY <1>0, <2>1, RewritesEffect
    <3> QED
      BY <1>0, <2>2, <2>5, <2>7, <3>1, SameExpiry DEF ExpiryShrinks
  <2> QED
    BY <2>6, <2>7
<1>3. ASSUME NEW r \in Requests, VerifyProofRequest(r)
      PROVE  ExpiryShrinks(x)
  <2>1. request[r] \in RequestAccount
    BY <1>0, <1>3, VerifyRewrites, RequestOf
  <2>2. Judged(request[r], "Verified").expired_at = request[r].expired_at
    BY <2>1, JudgedFields
  <2>3. \E h : Rewrites(r, Judged(request[r], "Verified"), h)
    BY <1>0, <1>3, VerifyRewrites
  <2> QED
    BY <1>0, <2>2, <2>3, RewritesEffect, SameExpiry
<1>4. ASSUME NEW a \in Signers, NEW r \in Requests, NEW status \in Status,
             UpdateProofRequest(a, r, status)
      PROVE  ExpiryShrinks(x)
  <2>1. request[r] \in RequestAccount
    BY <1>0, <1>4, UpdateRewrites, RequestOf
  <2>2. Judged(request[r], status).expired_at = request[r].expired_at
    BY <2>1, JudgedFields
  <2>3. \E h : Rewrites(r, Judged(request[r], status), h)
    BY <1>0, <1>4, UpdateRewrites
  <2> QED
    BY <1>0, <2>2, <2>3, RewritesEffect, SameExpiry
<1>5. ASSUME NEW a \in Signers, NEW r \in Requests,
             DeleteProofRequest(a, r) \/ AdminCloseProofRequest(a, r)
      PROVE  ExpiryShrinks(x)
  BY <1>0, <1>5, CloseRewrites, RewritesEffect, SameExpiry
<1>6. CASE UNCHANGED request
  BY <1>0, <1>6, SameExpiry
<1> QED
  BY <1>1, <1>2, <1>3, <1>4, <1>5, <1>6
  DEF Next, ProofRequestNext, RegistryStep, Tick, vars, requestVars

\* prove_proof_request.rs:91: between two creations of a request its expiry only
\* comes nearer, whatever credentials it is proved with.
THEOREM ExpiryNeverGrows == Spec => ExpiryOnlyShrinks
<1>1. IdInv /\ [Next]_vars => [\A r \in Requests : ExpiryShrinks(r)]_vars
  BY ExpiryStep
<1> QED
  BY <1>1, IdAlways, PTL DEF Spec, ExpiryOnlyShrinks
=============================================================================
