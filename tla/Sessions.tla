------------------------------ MODULE Sessions ------------------------------
(***************************************************************************)
(* Clients of the program: how ProofRequestManager.fullProve turns a         *)
(* credential into a certificate, in many steps that nothing holds together.  *)
(* It reads the request, then the service, circuit and policy behind it,      *)
(* generates a proof and sends it in several transactions, each confirmed     *)
(* before the next; meanwhile other clients, other devices of the same user,  *)
(* owners and admins call the SDK, the clock moves, and a client may stop     *)
(* anywhere.                                                                  *)
(*                                                                           *)
(* A client is a device with a wallet.  A transaction carries one             *)
(* instruction, a record with the arguments of its handler.                   *)
(***************************************************************************)
EXTENDS ProofRequest, Managers

CONSTANTS
  Clients,             \* devices
  Wallet,              \* client -> the signer whose key it holds
  Credentials,         \* what users hold: [validUntil, key, age]
  ArraySize,           \* signal -> the size of its array, 0 for a single value
  WithProof,           \* inputs a transaction with a proof has room for: 18
  WithoutProof,        \* and one without: 26
  TrusteeSize,         \* trustee keys the circuit takes
  MaxCalls             \* bound on the calls clients make

\* A signal's values stand side by side in the public inputs, from the position
\* the account gives it on, and the signals one after another.
Width(name) == IF ArraySize[name] = 0 THEN 1 ELSE ArraySize[name]
Span(signals, name) == signals[name]..(signals[name] + Width(name) - 1)
Positions(signals) == UNION {Span(signals, name) : name \in DOMAIN signals}

ASSUME SessionsAssumption ==
  /\ Wallet \in [Clients -> Signers]
  /\ Credentials \subseteq [validUntil: Nat, key: ZkKeys, age: Nat]
  /\ WithProof \in Nat \ {0} /\ WithoutProof \in Nat \ {0}
  /\ \A name \in {"timestamp", "issuerPk"} \cap DOMAIN ArraySize : ArraySize[name] = 0
  /\ \A l \in Layouts :
       /\ \A name \in DOMAIN l : name \in DOMAIN ArraySize /\ ArraySize[name] \in Nat
       /\ \A m, n \in DOMAIN l : m # n => Span(l, m) \cap Span(l, n) = {}
       /\ IsFiniteSet(Positions(l)) /\ Positions(l) = 1..Cardinality(Positions(l))

VARIABLES
  session,     \* per client: what its call is doing
  calls,       \* how many calls were made
  calm         \* history, per client: nobody else touched what its call reads

clientVars == <<session, calls, calm>>
allVars == <<vars, clientVars>>

Idle == [phase |-> "idle"]
Busy(d) == session[d].phase \in {"loaded", "fetched", "sending"}

\* What the transactions about a request depend on.
Watched(r) == <<request[r], circuit, issuer,
                IF policy[PolicyOf(r)] = Closed THEN None ELSE policy[PolicyOf(r)].rules>>
Touched(d) ==
  IF "r" \in DOMAIN session[d] THEN \E r \in {session[d].r} : Watched(r)' # Watched(r)
  ELSE "c" \in DOMAIN session[d] /\ circuit'[session[d].c] # circuit[session[d].c]
\* A step of d: the others notice.
Notice(d) == calm' = [e \in Clients |-> calm[e] /\ (e = d \/ ~Touched(e))]

\* d starts a call of several steps.
Start(d, s) ==
  /\ ~Busy(d)
  /\ calls < MaxCalls
  /\ calls' = calls + 1
  /\ session' = [session EXCEPT ![d] = s]
  /\ calm' = [calm EXCEPT ![d] = TRUE]
  /\ UNCHANGED vars

\* A step of d's call that sends nothing.
Continue(d, s) ==
  /\ session' = [session EXCEPT ![d] = s]
  /\ UNCHANGED <<vars, calls, calm>>

-----------------------------------------------------------------------------
\* fullProve: load the request, then the accounts it names.

FullProve(d, r, cred, verify) ==
  /\ request[r] # Closed
  /\ Start(d, [phase |-> "loaded", r |-> r, c |-> request[r].circuit,
               cred |-> cred, verify |-> verify])

Fetch(d) ==
  /\ session[d].phase = "loaded"
  /\ LET s == session[d]
         p == PolicyOf(s.r)
     IN /\ service[ServiceOf(p)] # Closed
        /\ circuit[s.c] # Closed
        /\ policy[p] # Closed
        /\ Continue(d, [phase |-> "fetched", r |-> s.r, cred |-> s.cred, verify |-> s.verify,
                        trustees |-> service[ServiceOf(p)].trustees,
                        circuit |-> circuit[s.c], rules |-> policy[p].rules])

\* ProofInputBuilder.  A signal it knows, or the rules with the signal's name:
\* the first one for a single value, all of them for an array, filled up with 0.
\* NoInput where that gives no value the circuit takes.
NoInput == -1
LastRuleFirst(rules, name) ==    \* fault: the order of the rules
  LET named == SelectSeq(rules, LAMBDA rule : rule.key = name)
  IN [i \in DOMAIN named |-> named[Len(named) + 1 - i].value]
RuleValues(rules, name) ==
  LET values[n \in 0..Len(rules)] ==
        IF n = 0 THEN <<>>
        ELSE IF rules[n].key = name THEN Append(values[n - 1], rules[n].value)
        ELSE values[n - 1]
  IN values[Len(rules)]
PolicySignal(rules, name) ==
  LET values == RuleValues(rules, name)
      n == ArraySize[name]
  IN IF values = <<>> \/ (n > 0 /\ Len(values) > n) THEN [i \in 1..Width(name) |-> NoInput]
     ELSE IF n = 0 THEN <<values[1]>>
     ELSE values \o [i \in 1..(n - Len(values)) |-> 0]
PublicSignal(name, cred, rules) ==
  CASE name = "timestamp" -> <<now>>
    [] name = "issuerPk" -> <<cred.key>>
    [] OTHER -> PolicySignal(rules, name)
BuildInputs(signals, cred, rules) ==
  [i \in Positions(signals) |->
     LET name == CHOOSE n \in DOMAIN signals : i \in Span(signals, n)
     IN PublicSignal(name, cred, rules)[i - signals[name] + 1]]

\* The circuits of the repository take the claims as private signals: a witness
\* exists only for a valid credential that satisfies the rules.
Satisfies(cred, rules) ==
  /\ cred.validUntil = 0 \/ now < cred.validUntil
  /\ \A i \in DOMAIN RuleValues(rules, "minAge") : i = 1 =>
       cred.age >= RuleValues(rules, "minAge")[i]

\* The proof is made with the files of the circuit, of the key's generation.
GenerateProof(circ, inputs) == [inputs |-> inputs, vk |-> circ.vk.head]

-----------------------------------------------------------------------------
\* prove: the inputs that do not fit beside the proof go first.

ProveIx(r, inputs, proof, reset, iss) ==
  [op |-> "prove", r |-> r, inputs |-> inputs, proof |-> proof, reset |-> reset, issuer |-> iss]
VerifyIx(r) == [op |-> "verify", r |-> r]
StatusIx(r, status) == [op |-> "status", r |-> r, status |-> status]

ResetNever(i) == FALSE              \* fault: inputs of an earlier session stay
ResetFirst(i) == i = 1
Reset(i) == ResetFirst(i)

ProveTxs(r, inputs, proof, iss, verify) ==
  LET n == Len(inputs)
      early == IF n > WithProof THEN ChunksOf(SubSeq(inputs, 1, n - WithProof), WithoutProof)
               ELSE <<>>
      last == IF n > WithProof THEN SubSeq(inputs, n - WithProof + 1, n) ELSE inputs
      first == [i \in DOMAIN early |-> <<ProveIx(r, early[i], None, Reset(i), None)>>]
      whole == AddTransactions(NewBuilder,
                 Append(first, <<ProveIx(r, last, proof, n <= WithProof, iss)>>))
  IN SendAll(IF verify THEN AddTransaction(whole, <<VerifyIx(r)>>) ELSE whole)

\* What goes wrong before anything is sent ends the call: Stop.
Build(d) ==
  /\ session[d].phase = "fetched"
  /\ LET s == session[d]
         keys == SelectSeq(LoadTrusteeKeys(s.trustees), LAMBDA k : k # None)
     IN /\ Len(keys) >= TrusteeSize
        /\ Satisfies(s.cred, s.rules)
        /\ s.circuit.vk.head # None
        /\ \E inputs \in {BuildInputs(s.circuit.signals, s.cred, s.rules)} :
             /\ \A i \in DOMAIN inputs : inputs[i] # NoInput
             /\ \E iss \in IF "issuerPk" \in DOMAIN s.circuit.signals
                           THEN IssuersByZkPubkey(s.cred.key) ELSE {None} :
                  Continue(d,
                    [phase |-> "sending", r |-> s.r, verify |-> s.verify, rules |-> s.rules,
                     inputs |-> inputs, at |-> now,
                     whole |-> s.circuit.vk = CompleteVk(s.circuit.vk.head),
                     pending |-> ProveTxs(s.r, inputs, GenerateProof(s.circuit, inputs), iss,
                                          s.verify)])

\* CircuitManager.updateVk.
UpdateVk(d, c, v) ==
  Start(d, [phase |-> "sending", c |-> c, v |-> v, pending |-> UpdateVkTxs(c, v)])

\* An admin verifies the proof it reads, off chain, and then sends the outcome.
ProofVerifies(r) ==              \* fault: checked against the inputs it was made for
  Groth16Verifies(request[r].proof, request[r].proof.inputs, circuit[request[r].circuit].vk)
RequestVerifies(r) ==
  Groth16Verifies(request[r].proof, request[r].public_inputs, circuit[request[r].circuit].vk)
VerifyOffChain(r) == RequestVerifies(r)

Review(d, r) ==
  /\ request[r] # Closed
  /\ request[r].proof # None
  /\ circuit[request[r].circuit] # Closed
  /\ \E status \in {IF VerifyOffChain(r) THEN "Verified" ELSE "Rejected"} :
       Start(d, [phase |-> "sending", r |-> r, status |-> status,
                 pending |-> <<<<StatusIx(r, status)>>>>])

-----------------------------------------------------------------------------
\* Each transaction is confirmed before the next one goes; the first that fails
\* ends the call.

Handle(w, ix) ==
  \/ /\ ix.op = "prove"
     /\ ProveProofRequest(w, ix.r, ix.inputs, ix.proof, ix.reset, ix.issuer)
  \/ ix.op = "verify" /\ VerifyProofRequest(ix.r)
  \/ ix.op = "status" /\ UpdateProofRequest(w, ix.r, ix.status)
  \/ /\ ix.op = "vk"
     /\ UpdateCircuitVk(w, ix.circuit, ix.head, ix.ic, ix.extend)
     /\ UNCHANGED requestVars

Send(d) ==
  /\ session[d].phase = "sending"
  /\ Handle(Wallet[d], session[d].pending[1][1])
  /\ session' = [session EXCEPT
       ![d].phase = IF Len(session[d].pending) = 1 THEN "done" ELSE "sending",
       ![d].pending = Tail(@)]
  /\ Notice(d)
  /\ UNCHANGED calls

Fail(d) ==
  /\ session[d].phase = "sending"
  /\ ~ENABLED Handle(Wallet[d], session[d].pending[1][1])
  /\ Continue(d, [session[d] EXCEPT !.phase = "failed", !.pending = <<>>])

\* An error before sending, a rejected signature, a lost connection, a closed
\* tab.
Stop(d) == Busy(d) /\ Continue(d, Idle)

-----------------------------------------------------------------------------
\* One call, one transaction.

RequestCall(d) ==
  \/ \E p \in Policies, e \in ExpiresIn : CreateProofRequest(Wallet[d], p, e)
  \/ \E r \in Requests : DeleteProofRequest(Wallet[d], r) \/ VerifyProofRequest(r)

OwnerCall(d) ==
  \E p \in Policies :
    \/ \E rules \in RuleSets \cup {None}, period \in Periods \cup {None} :
         PolicyUpdate(Wallet[d], p, rules, period, None)
    \/ \E c \in Circuits, rules \in RuleSets \cup {None} : PolicyCreate(p, c, rules, None, None)
    \/ PolicyDelete(Wallet[d], p)

OtherCall(d) ==
  LET w == Wallet[d]
  IN \/ \E i \in Issuers, key \in ZkKeys : IssuerCreate(w, i, None, key)
     \/ \E i \in Issuers : IssuerDelete(w, i)
     \/ \E s \in Services, ts \in TrusteeLists : ServiceUpdate(w, s, None, None, ts)
     \/ \E t \in Trustees : TrusteeCreate(w, t, None) \/ TrusteeUpdate(w, t, None)
                            \/ TrusteeVerify(w, t) \/ TrusteeDelete(w, t)

Call(d) ==
  /\ ~Busy(d)
  /\ calls < MaxCalls
  /\ calls' = calls + 1
  /\ RequestCall(d) \/ ((OwnerCall(d) \/ OtherCall(d)) /\ UNCHANGED requestVars)
  /\ session' = [session EXCEPT ![d] = Idle]
  /\ Notice(d)

SessionStep(d) ==
  \/ \E r \in Requests, cred \in Credentials, verify \in BOOLEAN :
       OwnerOf(r) = Wallet[d] /\ FullProve(d, r, cred, verify)
  \/ Wallet[d] \in Admins /\ \E c \in Circuits, v \in VkVersions : UpdateVk(d, c, v)
  \/ Wallet[d] \in Admins /\ \E r \in Requests : Review(d, r)
  \/ Fetch(d) \/ Build(d) \/ Send(d) \/ Fail(d) \/ Stop(d)

SessionsNext ==
  \/ \E d \in Clients : SessionStep(d) \/ Call(d)
  \/ Tick /\ UNCHANGED clientVars

SessionsInit ==
  /\ session = [d \in Clients |-> Idle]
  /\ calls = 0
  /\ calm = [d \in Clients |-> TRUE]

\* The clients of a program in use: whatever accounts are there when they come.
InUse == TypeOK /\ SessionsInit /\ [][SessionsNext]_allVars

-----------------------------------------------------------------------------
Proving(d) == "inputs" \in DOMAIN session[d]
Ended(d, phase) == session[d].phase = phase /\ calm[d]

\* Where the builder and the program read the same out of the rules.  Of several
\* rules for a single value the builder takes the first and the program writes
\* the others over what follows; a rule for a signal the builder fills in itself
\* is the program's alone.
RulesAgree(rules) ==
  \A name \in DOMAIN ArraySize :
    Len(RuleValues(rules, name)) <=
      IF name \in {"timestamp", "issuerPk"} THEN 0 ELSE Width(name)

\* proofRequestManager.ts:378-555.  However the transactions of a proof session
\* interleave with other calls, it fails only because somebody changed the
\* request, the rules, the circuit or the issuer under it, because it took
\* longer than TIMESTAMP_THRESHOLD, or because the key it was to be verified with
\* was half uploaded or the program reads the rules in another way.
UndisturbedProves ==
  \A d \in Clients : Proving(d) /\ Ended(d, "failed") =>
    \/ now > session[d].at + Threshold
    \/ session[d].verify /\ (~session[d].whole \/ ~RulesAgree(session[d].rules))

\* A session nobody disturbed leaves exactly the inputs it built, split over any
\* number of transactions, next to a proof of them, whatever an earlier session
\* left in the account.
ProvenAsBuilt ==
  \A d \in Clients : Proving(d) /\ Ended(d, "done") /\ RulesAgree(session[d].rules) =>
    LET q == request[session[d].r]
    IN /\ q.public_inputs = session[d].inputs
       /\ q.proof.inputs = session[d].inputs
       /\ q.status = IF session[d].verify THEN "Verified" ELSE "Proved"

\* circuitManager.ts:141-211.  A key upload nobody disturbed leaves the whole new
\* key and nothing of the old one.
KeyUploaded ==
  \A d \in Clients : "v" \in DOMAIN session[d] /\ Ended(d, "done") =>
    circuit[session[d].c].vk = CompleteVk(session[d].v)

\* proofRequestManager.ts:226-272.  The outcome an admin sends fits the proof in
\* the account, if nobody changed the account or the circuit since it read them.
VerdictFits ==
  \A d \in Clients : "status" \in DOMAIN session[d] /\ Ended(d, "done") =>
    /\ request[session[d].r].proof # None
    /\ (request[session[d].r].status = "Verified") = RequestVerifies(session[d].r)

-----------------------------------------------------------------------------
\* The gate other programs put in front of their instructions (AlbusVerifier of
\* crates/solana-verifier): a certificate of this policy and this owner.
Admits(r) ==
  request[r] # Closed /\ ~IsExpired(request[r]) /\ request[r].status = "Verified"

\* docs/gitbook-sync/integration.md:38: the gate "verifies on-chain that a proof
\* request (Certificate) is not expired and contains a valid ZK Proof".  The
\* outcome an admin sends is not tied to the proof it looked at.
AdmittedHasProof == \A r \in LiveRequests : Admits(r) => request[r].proof # None
=============================================================================
