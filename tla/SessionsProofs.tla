--------------------------- MODULE SessionsProofs ---------------------------
(* What clients of the program can rely on between their own steps, for any  *)
(* number of clients and whatever accounts they find.                        *)
EXTENDS Sessions, ProofRequestProofs, TLAPS

-----------------------------------------------------------------------------
(* The inductive invariant.                                                  *)

\* Request accounts keep their fields.
Names == {"circuit", "issuer", "identifier", "created_at", "expired_at", "verified_at",
          "proved_at", "retention_end_date", "status", "proof", "public_inputs"}
Fields(q) == q = [n \in Names |-> q[n]]
Shape ==
  /\ request = [r \in Requests |-> request[r]]
  /\ \A r \in Requests : request[r] # Closed => Fields(request[r])

\* The review of a proof, until its outcome is sent and after it.
Reviewing(d) == "status" \in DOMAIN session[d]
Outcome(r) == IF RequestVerifies(r) THEN "Verified" ELSE "Rejected"

ReviewShape(d) ==
  Reviewing(d) =>
    session[d] = [n \in {"phase", "r", "status", "pending"} |-> session[d][n]]

ReviewPends(d) ==
  Reviewing(d) /\ session[d].phase = "sending" =>
    /\ session[d].r \in Requests
    /\ session[d].pending = <<<<StatusIx(session[d].r, session[d].status)>>>>
    /\ calm[d] =>
         /\ request[session[d].r] # Closed
         /\ request[session[d].r].proof # None
         /\ session[d].status = Outcome(session[d].r)

ReviewFits(d) ==
  Reviewing(d) /\ session[d].phase = "done" /\ calm[d] =>
    /\ request[session[d].r].proof # None
    /\ (request[session[d].r].status = "Verified") = RequestVerifies(session[d].r)

ReviewOf(d) == ReviewShape(d) /\ ReviewPends(d) /\ ReviewFits(d)

ReviewInv ==
  /\ Shape
  /\ session = [d \in Clients |-> session[d]]
  /\ calm = [d \in Clients |-> calm[d]]
  /\ \A d \in Clients : ReviewOf(d)

-----------------------------------------------------------------------------
(* The fields of request accounts.                                           *)

LEMMA NewAccount ==
  ASSUME Shape, NEW r, NEW q, r \in Requests => Fields(q) \/ q = Closed,
         request' = [request EXCEPT ![r] = q]
  PROVE  Shape'
<1>1. \A x \in Requests : request'[x] = IF x = r THEN q ELSE request[x]
  BY DEF Shape
<1>2. request' = [x \in Requests |-> request'[x]]
  BY DEF Shape
<1>3. ASSUME NEW x \in Requests, request'[x] # Closed
      PROVE  Fields(request'[x])
  <2>1. CASE x = r
    BY <1>1, <1>3, <2>1
  <2>2. CASE x # r
    BY <1>1, <1>3, <2>2 DEF Shape
  <2> QED
    BY <2>1, <2>2
<1>4. \A x \in Requests : (request[x] # Closed)' => Fields(request[x])'
  BY <1>3 DEF Fields
<1> QED
  BY <1>2, <1>4 DEF Shape

LEMMA CreateShape ==
  ASSUME Shape, NEW u, NEW p, NEW e, CreateProofRequest(u, p, e)
  PROVE  Shape'
<1> DEFINE r == <<p, u>>
           old == IF request[r] = Closed THEN BlankRequest(policy[p].circuit) ELSE request[r]
           q == Renewed(old, p, e)
<1>1. request' = [request EXCEPT ![r] = q]
  BY DEF CreateProofRequest
<1> SUFFICES ASSUME r \in Requests PROVE Fields(q)
  <2> HIDE DEF q, r
  <2> QED BY <1>1, NewAccount
<1>2. Fields(old)
  BY DEF Shape, Fields, Names, BlankRequest
<1>3. Fields(q)
  <2> HIDE DEF old
  <2> QED BY <1>2 DEF Fields, Renewed
<1> QED
  BY <1>3

LEMMA ProveShape ==
  ASSUME Shape, NEW a, NEW r, NEW inputs, NEW proof, NEW reset, NEW iss,
         ProveProofRequest(a, r, inputs, proof, reset, iss)
  PROVE  Shape'
<1> DEFINE signals == circuit[request[r].circuit].signals
           rules == policy[PolicyOf(r)].rules
           extended == Extended(request[r], inputs, reset)
           proven == Proven(extended, proof, signals, rules, iss)
<1>1. \/ request' = [request EXCEPT ![r] = extended]
      \/ request' = [request EXCEPT ![r] = proven]
  BY DEF ProveProofRequest
<1> SUFFICES ASSUME r \in Requests PROVE Fields(extended) /\ Fields(proven)
  <2> HIDE DEF extended, proven
  <2> QED BY <1>1, NewAccount
<1>2. Fields(extended)
  <2>1. Fields(request[r])
    BY DEF ProveProofRequest, Shape
  <2> QED
    BY <2>1 DEF Fields, Extended, ResetRequest
<1>3. Fields(proven)
  <2> HIDE DEF extended, signals, rules
  <2> QED BY <1>2 DEF Fields, Proven
<1> QED
  BY <1>2, <1>3

LEMMA VerifyShape ==
  ASSUME Shape, NEW r, VerifyProofRequest(r)
  PROVE  Shape'
<1> DEFINE q == [request[r] EXCEPT !.status = "Verified", !.verified_at = now]
<1>1. request' = [request EXCEPT ![r] = q]
  BY DEF VerifyProofRequest, Shape
<1>2. r \in Requests => Fields(q)
  BY DEF VerifyProofRequest, Shape, Fields
<1> HIDE DEF q
<1> QED
  BY <1>1, <1>2, NewAccount

LEMMA UpdateShape ==
  ASSUME Shape, NEW a, NEW r, NEW status, UpdateProofRequest(a, r, status)
  PROVE  /\ Shape'
         /\ r \in Requests =>
              /\ request'[r] = [request[r] EXCEPT !.status = status, !.verified_at = now]
              /\ Fields(request[r])
<1> DEFINE q == [request[r] EXCEPT !.status = status, !.verified_at = now]
<1>1. request' = [request EXCEPT ![r] = q]
  BY DEF UpdateProofRequest, Shape
<1>2. r \in Requests => Fields(q) /\ Fields(request[r])
  BY DEF UpdateProofRequest, Shape, Fields
<1>3. r \in Requests => request'[r] = q
  BY <1>1 DEF Shape
<1> HIDE DEF q
<1>4. Shape'
  BY <1>1, <1>2, NewAccount
<1> QED
  BY <1>2, <1>3, <1>4 DEF q

LEMMA DeleteShape ==
  ASSUME Shape, NEW a, NEW r, DeleteProofRequest(a, r)
  PROVE  Shape'
<1>1. request' = [request EXCEPT ![r] = Closed]
  BY DEF DeleteProofRequest
<1> QED
  BY <1>1, NewAccount

LEMMA SameShape ==
  ASSUME Shape, request' = request
  PROVE  Shape'
BY DEF Shape, Fields

LEMMA HandleShape ==
  ASSUME Shape, NEW w, NEW ix, Handle(w, ix)
  PROVE  Shape'
<1>1. ASSUME ProveProofRequest(w, ix.r, ix.inputs, ix.proof, ix.reset, ix.issuer)
      PROVE  Shape'
  BY <1>1, ProveShape
<1>2. ASSUME VerifyProofRequest(ix.r)
      PROVE  Shape'
  BY <1>2, VerifyShape
<1>3. ASSUME UpdateProofRequest(w, ix.r, ix.status)
      PROVE  Shape'
  BY <1>3, UpdateShape
<1>4. ASSUME UNCHANGED requestVars
      PROVE  Shape'
  BY <1>4, SameShape DEF requestVars
<1> QED
  BY <1>1, <1>2, <1>3, <1>4 DEF Handle

LEMMA CallShape ==
  ASSUME Shape, NEW d \in Clients, Call(d)
  PROVE  Shape'
<1>1. ASSUME NEW p \in Policies, NEW e \in ExpiresIn, CreateProofRequest(Wallet[d], p, e)
      PROVE  Shape'
  BY <1>1, CreateShape
<1>2. ASSUME NEW r \in Requests, DeleteProofRequest(Wallet[d], r)
      PROVE  Shape'
  BY <1>2, DeleteShape
<1>3. ASSUME NEW r \in Requests, VerifyProofRequest(r)
      PROVE  Shape'
  BY <1>3, VerifyShape
<1>4. ASSUME UNCHANGED requestVars
      PROVE  Shape'
  BY <1>4, SameShape DEF requestVars
<1> QED
  BY <1>1, <1>2, <1>3, <1>4 DEF Call, RequestCall

-----------------------------------------------------------------------------
(* The steps.                                                                *)

\* A step d notices nothing of leaves what its review depends on.
LEMMA Undisturbed ==
  ASSUME NEW d \in Clients, Reviewing(d), ReviewShape(d), ~Touched(d),
         NEW CONSTANT r, r = session[d].r
  PROVE  /\ request'[r] = request[r]
         /\ RequestVerifies(r)' = RequestVerifies(r)
<1>1. "r" \in DOMAIN session[d]
  BY DEF ReviewShape
<1>2. Watched(r)' = Watched(r)
  BY <1>1 DEF Touched
<1>3. request'[r] = request[r] /\ circuit' = circuit
  BY <1>2 DEF Watched
<1> QED
  BY <1>3 DEF RequestVerifies

\* So do the steps that change no request and no circuit.
LEMMA Untouched ==
  ASSUME UNCHANGED <<request, circuit>>, NEW CONSTANT r
  PROVE  request'[r] = request[r] /\ RequestVerifies(r)' = RequestVerifies(r)
BY DEF RequestVerifies

\* A review stays as it was, or loses its calm, while its accounts stay.
LEMMA ReviewKept ==
  ASSUME NEW d \in Clients, ReviewOf(d), session'[d] = session[d],
         calm'[d] => calm[d],
         \/ UNCHANGED <<request, circuit>>
         \/ calm'[d] => ~Touched(d)
  PROVE  ReviewOf(d)'
<1> SUFFICES ASSUME Reviewing(d)' PROVE ReviewOf(d)'
  BY DEF ReviewOf, ReviewShape, ReviewPends, ReviewFits, Reviewing
<1>1. Reviewing(d)
  BY DEF Reviewing
<1>2. PICK r : r = session[d].r /\ r = session'[d].r
  OBVIOUS
<1>3. calm'[d] => /\ calm[d]
                  /\ request'[r] = request[r]
                  /\ RequestVerifies(r)' = RequestVerifies(r)
  BY <1>1, <1>2, Undisturbed, Untouched DEF ReviewOf
<1>4. ReviewShape(d)'
  BY DEF ReviewOf, ReviewShape, Reviewing
<1>5. ReviewPends(d)'
  <2>1. ReviewPends(d)
    BY DEF ReviewOf
  <2>2. calm'[d] => Outcome(r)' = Outcome(r)
    BY <1>3 DEF Outcome
  <2> QED
    BY <1>2, <1>3, <2>1, <2>2 DEF ReviewPends, Reviewing, StatusIx
<1>6. ReviewFits(d)'
  <2>1. ReviewFits(d)
    BY DEF ReviewOf
  <2> QED
    BY <1>2, <1>3, <2>1 DEF ReviewFits, Reviewing
<1> QED
  BY <1>4, <1>5, <1>6 DEF ReviewOf

\* A client that does something else is in no review.
LEMMA NotReviewing ==
  ASSUME NEW d \in Clients, "status" \notin DOMAIN session'[d]
  PROVE  ReviewOf(d)'
BY DEF ReviewOf, ReviewShape, ReviewPends, ReviewFits, Reviewing

\* What is left to show of a step of d: its own review.
LEMMA OneClient ==
  ASSUME ReviewInv, NEW d \in Clients, NEW s, Shape', ReviewOf(d)',
         session' = [session EXCEPT ![d] = s],
         \/ UNCHANGED <<request, circuit, calm>>
         \/ UNCHANGED <<request, circuit>> /\ calm' = [calm EXCEPT ![d] = TRUE]
         \/ Notice(d)
  PROVE  ReviewInv'
<1>1. session' = [e \in Clients |-> session'[e]] /\ calm' = [e \in Clients |-> calm'[e]]
  BY DEF ReviewInv, Notice
<1>2. ASSUME NEW e \in Clients, e # d
      PROVE  ReviewOf(e)'
  <2>1. session'[e] = session[e] /\ ReviewOf(e)
    BY <1>2 DEF ReviewInv
  <2>2. CASE UNCHANGED <<request, circuit, calm>>
    BY <2>1, <2>2, ReviewKept
  <2>3. CASE UNCHANGED <<request, circuit>> /\ calm' = [calm EXCEPT ![d] = TRUE]
    <3>1. calm'[e] = calm[e]
      BY <1>2, <2>3 DEF ReviewInv
    <3> QED
      BY <2>1, <2>3, <3>1, ReviewKept
  <2>4. CASE Notice(d)
    <3>1. calm'[e] = (calm[e] /\ ~Touched(e))
      BY <1>2, <2>4 DEF Notice
    <3> QED
      BY <2>1, <3>1, ReviewKept
  <2> QED
    BY <2>2, <2>3, <2>4
<1> QED
  BY <1>1, <1>2 DEF ReviewInv

LEMMA StartStep ==
  ASSUME ReviewInv, NEW d \in Clients, NEW s, "status" \notin DOMAIN s, Start(d, s)
  PROVE  ReviewInv'
<1>1. session'[d] = s
  BY DEF ReviewInv, Start
<1>2. ReviewOf(d)'
  BY <1>1, NotReviewing
<1>3. UNCHANGED <<request, circuit>>
  BY DEF Start, vars, requestVars, registryVars
<1>4. Shape'
  BY <1>3, SameShape DEF ReviewInv
<1> QED
  BY <1>2, <1>3, <1>4, OneClient DEF Start

LEMMA ContinueStep ==
  ASSUME ReviewInv, NEW d \in Clients, NEW s, Continue(d, s),
         \/ "status" \notin DOMAIN s
         \/ s = [session[d] EXCEPT !.phase = "failed", !.pending = <<>>]
  PROVE  ReviewInv'
<1>1. session'[d] = s
  BY DEF ReviewInv, Continue
<1>2. ReviewOf(d)'
  <2>1. CASE "status" \notin DOMAIN s
    BY <1>1, <2>1, NotReviewing
  <2>2. CASE /\ "status" \in DOMAIN s
             /\ s = [session[d] EXCEPT !.phase = "failed", !.pending = <<>>]
    <3>1. Reviewing(d)
      BY <2>2 DEF Reviewing
    <3>2. /\ s = [n \in {"phase", "r", "status", "pending"} |-> s[n]]
          /\ s.phase = "failed"
      BY <2>2, <3>1 DEF ReviewInv, ReviewOf, ReviewShape
    <3> QED
      BY <1>1, <3>2 DEF ReviewOf, ReviewShape, ReviewPends, ReviewFits
  <2> QED
    BY <2>1, <2>2
<1>3. UNCHANGED <<request, circuit, calm>>
  BY DEF Continue, vars, requestVars, registryVars
<1>4. Shape'
  BY <1>3, SameShape DEF ReviewInv
<1> QED
  BY <1>2, <1>3, <1>4, OneClient DEF Continue

LEMMA ReviewStep ==
  ASSUME ReviewInv, NEW d \in Clients, NEW r \in Requests, Review(d, r)
  PROVE  ReviewInv'
<1>1. PICK status : /\ status = IF VerifyOffChain(r) THEN "Verified" ELSE "Rejected"
                    /\ Start(d, [phase |-> "sending", r |-> r, status |-> status,
                                  pending |-> <<<<StatusIx(r, status)>>>>])
  BY DEF Review
<1> DEFINE s == [phase |-> "sending", r |-> r, status |-> status,
                 pending |-> <<<<StatusIx(r, status)>>>>]
<1>2. session'[d] = s
  BY <1>1 DEF ReviewInv, Start
<1>3. UNCHANGED <<request, circuit>>
  BY <1>1 DEF Start, vars, requestVars, registryVars
<1>4. Shape'
  BY <1>3, SameShape DEF ReviewInv
<1>5. status = Outcome(r)'
  BY <1>1, <1>3, Untouched DEF VerifyOffChain, Outcome
<1>6. request'[r] # Closed /\ request'[r].proof # None
  BY <1>3 DEF Review
<1>7. ReviewOf(d)'
  <2>1. session'[d].r = r /\ session'[d].status = status /\ session'[d].phase = "sending"
    BY <1>2
  <2>2. ReviewShape(d)'
    BY <1>2, <2>1 DEF ReviewShape
  <2>3. ReviewPends(d)'
    BY <1>2, <2>1, <1>5, <1>6 DEF ReviewPends, StatusIx
  <2>4. ReviewFits(d)'
    BY <2>1 DEF ReviewFits
  <2> QED
    BY <2>2, <2>3, <2>4 DEF ReviewOf
<1> HIDE DEF s
<1> QED
  BY <1>1, <1>3, <1>4, <1>7, OneClient DEF Start, s

LEMMA SendStep ==
  ASSUME ReviewInv, NEW d \in Clients, Send(d)
  PROVE  ReviewInv'
<1> DEFINE ix == session[d].pending[1][1]
           s == [session[d] EXCEPT
                   !.phase = IF Len(session[d].pending) = 1 THEN "done" ELSE "sending",
                   !.pending = Tail(@)]
<1>1. Handle(Wallet[d], ix) /\ Notice(d)
  BY DEF Send
<1>2. session' = [session EXCEPT ![d] = s]
  BY DEF Send, ReviewInv
<1>3. session'[d] = s
  BY <1>2 DEF ReviewInv
<1>4. Shape'
  BY <1>1, HandleShape DEF ReviewInv
<1>5. CASE ~Reviewing(d)
  <2>1. "status" \notin DOMAIN s
    BY <1>5 DEF Reviewing
  <2>2. ReviewOf(d)'
    BY <1>3, <2>1, NotReviewing
  <2> HIDE DEF s
  <2> QED
    BY <1>1, <1>2, <1>4, <2>2, OneClient
<1>6. CASE Reviewing(d)
  <2>1. ReviewShape(d) /\ ReviewPends(d) /\ session[d].phase = "sending"
    BY <1>6 DEF ReviewInv, ReviewOf, Send
  <2>1a. PICK r \in Requests : r = session[d].r
    BY <1>6, <2>1 DEF ReviewPends
  <2>2. PICK status : r = session[d].r /\ status = session[d].status
    BY <2>1a
  <2>3. session[d].pending = <<<<StatusIx(r, status)>>>>
    BY <1>6, <2>1, <2>2 DEF ReviewPends
  <2>4. /\ s = [n \in {"phase", "r", "status", "pending"} |-> s[n]]
        /\ s.phase = "done" /\ s.r = r
    BY <1>6, <2>1, <2>2, <2>3 DEF ReviewShape
  <2>5. UpdateProofRequest(Wallet[d], r, status)
    BY <1>1, <2>3 DEF Handle, StatusIx
  <2>6. /\ request'[r] = [request[r] EXCEPT !.status = status, !.verified_at = now]
        /\ Fields(request[r])
    BY <2>5, UpdateShape DEF ReviewInv
  <2>7. /\ request'[r].status = status
        /\ request'[r].proof = request[r].proof
        /\ request'[r].public_inputs = request[r].public_inputs
        /\ request'[r].circuit = request[r].circuit
    BY <2>6 DEF Fields, Names
  <2>8. RequestVerifies(r)' = RequestVerifies(r)
    <3>1. circuit' = circuit
      BY <2>5 DEF UpdateProofRequest, registryVars
    <3> QED
      BY <2>7, <3>1 DEF RequestVerifies
  <2>9. calm[d] => status = Outcome(r) /\ request[r].proof # None
    BY <1>6, <2>1, <2>2 DEF ReviewPends
  <2>10. calm'[d] => calm[d]
    BY <1>1 DEF Notice, ReviewInv
  <2>11. ReviewOf(d)'
    <3>1. session'[d].r = r /\ session'[d].phase = "done"
      BY <1>3, <2>4
    <3>2. ReviewShape(d)' /\ ReviewPends(d)'
      BY <1>3, <2>4, <3>1 DEF ReviewShape, ReviewPends
    <3>3. RequestVerifies(r) \in BOOLEAN
      BY DEF RequestVerifies, Groth16Verifies
    <3>4. ReviewFits(d)'
      BY <3>3, <2>7, <2>8, <2>9, <2>10, <3>1 DEF ReviewFits, Outcome
    <3> QED
      BY <3>2, <3>4 DEF ReviewOf
  <2> HIDE DEF s
  <2> QED
    BY <1>1, <1>2, <1>4, <2>11, OneClient
<1> QED
  BY <1>5, <1>6

LEMMA CallStep ==
  ASSUME ReviewInv, NEW d \in Clients, Call(d)
  PROVE  ReviewInv'
<1>1. session'[d] = Idle
  BY DEF ReviewInv, Call
<1>2. ReviewOf(d)'
  BY <1>1, NotReviewing DEF Idle
<1>3. Shape'
  BY CallShape DEF ReviewInv
<1> QED
  BY <1>2, <1>3, OneClient DEF Call

LEMMA SessionStepKeeps ==
  ASSUME ReviewInv, NEW d \in Clients, SessionStep(d)
  PROVE  ReviewInv'
<1>1. ASSUME NEW r \in Requests, NEW cred, NEW verify, FullProve(d, r, cred, verify)
      PROVE  ReviewInv'
  BY <1>1, StartStep DEF FullProve
<1>2. ASSUME NEW c, NEW v, UpdateVk(d, c, v)
      PROVE  ReviewInv'
  BY <1>2, StartStep DEF UpdateVk
<1>3. ASSUME NEW r \in Requests, Review(d, r)
      PROVE  ReviewInv'
  BY <1>3, ReviewStep
<1>4. ASSUME Fetch(d)
      PROVE  ReviewInv'
  <2>1. PICK s : Continue(d, s) /\ "status" \notin DOMAIN s
    BY <1>4 DEF Fetch
  <2> QED
    BY <2>1, ContinueStep
<1>5. ASSUME Build(d)
      PROVE  ReviewInv'
  <2>1. PICK s : Continue(d, s) /\ "status" \notin DOMAIN s
    BY <1>5 DEF Build
  <2> QED
    BY <2>1, ContinueStep
<1>6. ASSUME Send(d)
      PROVE  ReviewInv'
  BY <1>6, SendStep
<1>7. ASSUME Fail(d)
      PROVE  ReviewInv'
  <2>1. Continue(d, [session[d] EXCEPT !.phase = "failed", !.pending = <<>>])
    BY <1>7 DEF Fail
  <2> QED
    BY <2>1, ContinueStep
<1>8. ASSUME Stop(d)
      PROVE  ReviewInv'
  BY <1>8, ContinueStep DEF Stop, Idle
<1> QED
  BY <1>1, <1>2, <1>3, <1>4, <1>5, <1>6, <1>7, <1>8 DEF SessionStep

LEMMA ReviewInvInit == TypeOK /\ SessionsInit => ReviewInv
<1> SUFFICES ASSUME TypeOK, SessionsInit PROVE ReviewInv
  OBVIOUS
<1>1. Shape
  <2>1. request \in [Requests -> RequestAccount \cup {Closed}]
    BY DEF TypeOK
  <2>2. \A q \in RequestAccount : Fields(q)
    BY DEF RequestAccount, Fields, Names
  <2> QED
    BY <2>1, <2>2 DEF Shape
<1>2. session = [d \in Clients |-> session[d]] /\ calm = [d \in Clients |-> calm[d]]
  BY DEF SessionsInit
<1>3. \A d \in Clients : session[d] = Idle
  BY DEF SessionsInit
<1>4. ASSUME NEW d \in Clients
      PROVE  ReviewOf(d)
  <2>1. ~Reviewing(d)
    BY <1>3 DEF Reviewing, Idle
  <2> QED
    BY <2>1 DEF ReviewOf, ReviewShape, ReviewPends, ReviewFits
<1> QED
  BY <1>1, <1>2, <1>4 DEF ReviewInv

LEMMA ReviewInvNext == ReviewInv /\ [SessionsNext]_allVars => ReviewInv'
<1> SUFFICES ASSUME ReviewInv, [SessionsNext]_allVars PROVE ReviewInv'
  OBVIOUS
<1>1. ASSUME UNCHANGED <<request, circuit, clientVars>>
      PROVE  ReviewInv'
  <2>1. Shape'
    BY <1>1, SameShape DEF ReviewInv
  <2>2. session' = session /\ calm' = calm
    BY <1>1 DEF clientVars
  <2>3. ASSUME NEW d \in Clients
        PROVE  ReviewOf(d)'
    BY <1>1, <2>2, ReviewKept DEF ReviewInv
  <2> QED
    BY <2>1, <2>2, <2>3 DEF ReviewInv
<1>2. CASE UNCHANGED allVars
  BY <1>1, <1>2 DEF allVars, vars, requestVars, registryVars, clientVars
<1>3. CASE Tick /\ UNCHANGED clientVars
  BY <1>1, <1>3 DEF Tick, registryVars, clientVars
<1>4. CASE \E d \in Clients : SessionStep(d) \/ Call(d)
  BY <1>4, SessionStepKeeps, CallStep
<1> QED
  BY <1>2, <1>3, <1>4 DEF SessionsNext

\* proofRequestManager.ts:226-272.  An admin reads a proof, verifies it and then
\* sends the outcome: whatever the other clients do, the outcome fits the proof
\* in the account where nobody touched the account or its circuit in between.
THEOREM VerdictsFit == InUse => []VerdictFits
<1>1. ReviewInv => VerdictFits
  BY DEF ReviewInv, ReviewOf, ReviewFits, Reviewing, VerdictFits, Ended
<1> QED
  BY <1>1, ReviewInvInit, ReviewInvNext, PTL DEF InUse

-----------------------------------------------------------------------------
(* Recursion over a list.  *)

LEMMA BuilderKeeps ==
  ASSUME NEW X, NEW list \in Seq(X), <<>> \notin X, list # <<>>
  PROVE  AddTransactions(NewBuilder, list) = list
<1> DEFINE N == Len(list)
           F(f) == [n \in 0..N |-> IF n = 0 THEN NewBuilder ELSE AddTransaction(f[n - 1], list[n])]
           g == [n \in 0..N |-> IF n = 0 THEN NewBuilder ELSE [i \in 1..n |-> list[i]]]
           built == CHOOSE f : f = F(f)
<1>1. N \in Nat \ {0} /\ list = [i \in 1..N |-> list[i]] /\ \A i \in 1..N : list[i] \in X
  OBVIOUS
<1>2. AddTransactions(NewBuilder, list) = built[N]
  BY DEF AddTransactions
<1>3. ASSUME NEW n \in 0..(N - 1)
      PROVE  g[n + 1] = AddTransaction(g[n], list[n + 1])
  <2>1. CASE n = 0
    <3>1. g[1] = [i \in 1..1 |-> list[i]] /\ g[0] = <<<<>>>>
      BY <2>1 DEF NewBuilder
    <3>2. AddTransaction(g[0], list[1]) = <<list[1]>>
      <4> HIDE DEF g
      <4> QED BY <3>1 DEF AddTransaction
    <3>3. [i \in 1..1 |-> list[i]] = <<list[1]>>
      OBVIOUS
    <3> HIDE DEF g
    <3> QED BY <2>1, <3>1, <3>2, <3>3
  <2>2. CASE n > 0
    <3> DEFINE p == [i \in 1..n |-> list[i]]
               q == [i \in 1..(n + 1) |-> list[i]]
    <3>1. g[n + 1] = q /\ g[n] = p
      BY <2>2
    <3>2. p[1] # <<>>
      BY <1>1, <2>2
    <3>3. q = Append(p, list[n + 1])
      BY <1>1, <2>2
    <3> HIDE DEF g, p, q
    <3> QED BY <3>1, <3>2, <3>3 DEF AddTransaction
  <2> HIDE DEF g
  <2> QED BY <1>1, <2>1, <2>2
<1>4. ASSUME NEW f
      PROVE  /\ F(f)[0] = NewBuilder
             /\ \A n \in 0..(N - 1) : F(f)[n + 1] = AddTransaction(f[n], list[n + 1])
  BY <1>1
<1>5. g[0] = NewBuilder /\ g[N] = list
  BY <1>1
<1>6. g = F(g)
  <2>1. ASSUME NEW n \in 0..N
        PROVE  g[n] = IF n = 0 THEN NewBuilder ELSE AddTransaction(g[n - 1], list[n])
    <3>1. n = 0 \/ (n - 1 \in 0..(N - 1) /\ (n - 1) + 1 = n)
      BY <1>1
    <3> HIDE DEF g
    <3> QED BY <1>3, <1>5, <3>1
  <2>2. g = [n \in 0..N |-> g[n]]
    OBVIOUS
  <2> HIDE DEF g
  <2> QED BY <2>1, <2>2
<1>7. built = F(built)
  <2> HIDE DEF g, F
  <2> QED BY <1>6
<1> HIDE DEF g, F, built
<1>8. \A n \in 0..N : built[n] = g[n]
  <2>1. built[0] = g[0]
    BY <1>4, <1>5, <1>7
  <2>2. \A n \in 0..(N - 1) : built[n + 1] = AddTransaction(built[n], list[n + 1])
    BY <1>4, <1>7
  <2>3. \A n \in 0..(N - 1) : built[n] = g[n] => built[n + 1] = g[n + 1]
    BY <1>3, <2>2
  <2> HIDE DEF N
  <2> QED BY <1>1, <2>1, <2>3, SameRecursion
<1> QED
  BY <1>1, <1>2, <1>5, <1>8

LEMMA AllSent ==
  ASSUME NEW X, NEW list \in Seq(X), <<>> \notin X
  PROVE  SendAll(list) = list
<1> DEFINE N == Len(list)
           F(f) == [n \in 0..N |-> IF n = 0 THEN <<>>
                                   ELSE IF list[n] # <<>> THEN Append(f[n - 1], list[n])
                                   ELSE f[n - 1]]
           g == [n \in 0..N |-> [i \in 1..n |-> list[i]]]
           sent == CHOOSE f : f = F(f)
<1>1. N \in Nat /\ list = [i \in 1..N |-> list[i]] /\ \A i \in 1..N : list[i] \in X
  OBVIOUS
<1>2. SendAll(list) = sent[N]
  BY DEF SendAll
<1>3. ASSUME NEW n \in 0..(N - 1)
      PROVE  g[n + 1] = Append(g[n], list[n + 1])
  BY <1>1
<1>4. ASSUME NEW f
      PROVE  /\ F(f)[0] = <<>>
             /\ \A n \in 0..(N - 1) : F(f)[n + 1] = Append(f[n], list[n + 1])
  BY <1>1
<1>5. g[0] = <<>> /\ g[N] = list
  BY <1>1
<1>6. g = F(g)
  <2>1. ASSUME NEW n \in 0..N
        PROVE  g[n] = IF n = 0 THEN <<>>
                      ELSE IF list[n] # <<>> THEN Append(g[n - 1], list[n]) ELSE g[n - 1]
    <3>1. n = 0 \/ (n - 1 \in 0..(N - 1) /\ (n - 1) + 1 = n /\ list[n] # <<>>)
      BY <1>1
    <3> HIDE DEF g
    <3> QED BY <1>3, <1>5, <3>1
  <2>2. g = [n \in 0..N |-> g[n]]
    OBVIOUS
  <2> HIDE DEF g
  <2> QED BY <2>1, <2>2
<1>7. sent = F(sent)
  <2> HIDE DEF g, F
  <2> QED BY <1>6
<1> HIDE DEF g, F, sent
<1>8. \A n \in 0..N : sent[n] = g[n]
  <2>1. sent[0] = g[0]
    BY <1>4, <1>5, <1>7
  <2>2. \A n \in 0..(N - 1) : sent[n + 1] = Append(sent[n], list[n + 1])
    BY <1>4, <1>7
  <2>3. \A n \in 0..(N - 1) : sent[n] = g[n] => sent[n + 1] = g[n + 1]
    BY <1>3, <2>2
  <2> HIDE DEF N
  <2> QED BY <1>1, <2>1, <2>3, SameRecursion
<1> QED
  BY <1>1, <1>2, <1>5, <1>8

-----------------------------------------------------------------------------
(* Sequences in pieces.                                                      *)

\* A sequence up to b is the sequence up to a, and what lies between.
LEMMA Between ==
  ASSUME NEW X, NEW s \in Seq(X), NEW a \in Nat, NEW b \in Nat, a <= b, b <= Len(s)
  PROVE  /\ SubSeq(s, 1, a) \in Seq(X) /\ SubSeq(s, a + 1, b) \in Seq(X)
         /\ Len(SubSeq(s, 1, a)) = a /\ Len(SubSeq(s, a + 1, b)) = b - a
         /\ SubSeq(s, 1, a) \o SubSeq(s, a + 1, b) = SubSeq(s, 1, b)
<1>1. SubSeq(s, 1, a) \in Seq(X) /\ Len(SubSeq(s, 1, a)) = a
  <2>1. \A i \in 1..a : s[i] \in X
    BY ElementOfSeq
  <2> QED BY <2>1, SubSeqProperties
<1>2. SubSeq(s, a + 1, b) \in Seq(X) /\ Len(SubSeq(s, a + 1, b)) = b - a
  <2>1. \A i \in (a + 1)..b : s[i] \in X
    BY ElementOfSeq
  <2> QED BY <2>1, SubSeqProperties
<1>3. SubSeq(s, 1, a) \o SubSeq(s, a + 1, b) = SubSeq(s, 1, b)
  BY ConcatAdjacentSubSeq
<1> QED
  BY <1>1, <1>2, <1>3

\* How many chunks there are, and how much of m elements the first i chunks of n hold.
Upto(m, n, i) == IF i * n < m THEN i * n ELSE m

ChunkCount(s, n) == (Len(s) + n - 1) \div n

LEMMA Quotient ==
  ASSUME NEW m \in Nat, NEW n \in Nat \ {0}
  PROVE  LET q == (m + n - 1) \div n
         IN q \in Nat /\ m <= q * n /\ \A i \in 1..q : (i - 1) * n < m
<1> DEFINE q == (m + n - 1) \div n
<1>1. q \in Int /\ q * n <= m + n - 1 /\ m + n - 1 < q * n + n
  OBVIOUS
<1>2. q \in Nat
  <2>1. ASSUME q < 0 PROVE FALSE
    <3> HIDE DEF q
    <3>1. (q + 1) * n <= 0
      BY <1>1, <2>1
    <3> QED BY <1>1, <3>1
  <2> HIDE DEF q
  <2> QED BY <1>1, <2>1
<1>3. ASSUME NEW i \in 1..q PROVE (i - 1) * n < m
  <2> HIDE DEF q
  <2>1. (q - i) \in Nat /\ (q - i) * n >= 0
    BY <1>2
  <2>2. (q - i) * n = q * n - i * n /\ (i - 1) * n = i * n - n
    BY <1>2
  <2> QED BY <1>1, <1>2, <2>1, <2>2
<1> HIDE DEF q
<1>4. m <= q * n
  BY <1>1
<1> QED
  BY <1>2, <1>3, <1>4 DEF q

\* The chunks of a sequence are not empty, and put together they are the sequence.
LEMMA ChunkList ==
  ASSUME NEW X, NEW s \in Seq(X), NEW n \in Nat \ {0}
  PROVE  /\ ChunkCount(s, n) \in Nat
         /\ ChunksOf(s, n) = [i \in 1..ChunkCount(s, n) |-> ChunksOf(s, n)[i]]
         /\ \A i \in 1..ChunkCount(s, n) : /\ ChunksOf(s, n)[i] \in Seq(X) /\ ChunksOf(s, n)[i] # <<>>
                            /\ SubSeq(s, 1, Upto(Len(s), n, i - 1)) \o ChunksOf(s, n)[i]
                                 = SubSeq(s, 1, Upto(Len(s), n, i))
         /\ \A i \in 0..ChunkCount(s, n) : Upto(Len(s), n, i) \in 0..Len(s)
         /\ Upto(Len(s), n, 0) = 0 /\ Upto(Len(s), n, ChunkCount(s, n)) = Len(s)
<1> DEFINE m == Len(s)
           q == (m + n - 1) \div n
<1>1. m \in Nat
  OBVIOUS
<1>2. q \in Nat /\ m <= q * n /\ \A i \in 1..q : (i - 1) * n < m
  BY <1>1, Quotient
<1> HIDE DEF q
<1>3. ChunksOf(s, n) = [i \in 1..q |-> Slice(s, (i - 1) * n + 1, i * n)]
  BY DEF ChunksOf, q
<1>4. \A i \in 0..q : i * n \in Nat
  BY <1>2
<1>5. \A i \in 0..q : Upto(m, n, i) \in 0..m
  BY <1>1, <1>4 DEF Upto
<1>6. Upto(m, n, 0) = 0
  BY <1>1 DEF Upto
<1>7. Upto(m, n, q) = m
  BY <1>1, <1>2, <1>4 DEF Upto
<1>8. ASSUME NEW i \in 1..q
      PROVE  /\ ChunksOf(s, n)[i] \in Seq(X) /\ ChunksOf(s, n)[i] # <<>>
             /\ SubSeq(s, 1, Upto(m, n, i - 1)) \o ChunksOf(s, n)[i] = SubSeq(s, 1, Upto(m, n, i))
  <2> DEFINE a == (i - 1) * n
             b == Upto(m, n, i)
  <2>1. a \in Nat /\ a < m /\ i * n = a + n
    BY <1>2
  <2>2. Upto(m, n, i - 1) = a
    BY <2>1 DEF Upto
  <2>3. b \in Nat /\ a < b /\ b <= m /\ b = IF i * n < m THEN i * n ELSE m
    <3> HIDE DEF a
    <3> QED BY <1>1, <2>1 DEF Upto
  <2>4. ChunksOf(s, n)[i] = SubSeq(s, a + 1, b)
    <3>1. ChunksOf(s, n)[i] = Slice(s, a + 1, i * n)
      BY <1>3
    <3> HIDE DEF a, b
    <3> QED BY <2>3, <3>1 DEF Slice
  <2> HIDE DEF a, b
  <2>5. a \in Nat /\ b \in Nat /\ a < b /\ a <= b /\ b <= Len(s)
    BY <1>1, <2>1, <2>3 DEF m
  <2>6. /\ SubSeq(s, a + 1, b) \in Seq(X) /\ Len(SubSeq(s, a + 1, b)) = b - a
        /\ SubSeq(s, 1, a) \o SubSeq(s, a + 1, b) = SubSeq(s, 1, b)
    BY ONLY s \in Seq(X), <2>5, Between
  <2>7. SubSeq(s, a + 1, b) # <<>>
    <3>1. b - a # 0
      BY ONLY <2>5
    <3>2. Len(SubSeq(s, a + 1, b)) # 0
      BY ONLY <2>6, <3>1
    <3>3. Len(<<>>) = 0
      OBVIOUS
    <3> HIDE DEF m
    <3> QED BY <3>2, <3>3
  <2> QED BY <2>2, <2>4, <2>6, <2>7 DEF b
<1> HIDE DEF m
<1>9. ChunksOf(s, n) = [i \in 1..q |-> ChunksOf(s, n)[i]]
  BY <1>3
<1>10. ChunkCount(s, n) = q
  BY DEF ChunkCount, q, m
<1> QED
  BY <1>2, <1>5, <1>6, <1>7, <1>8, <1>9, <1>10 DEF m

-----------------------------------------------------------------------------
(* The transactions of a key upload.                                         *)

Points(v) == CompleteVk(v).ic
FrontPoints(v) == Slice(Points(v), 1, IcFirst)
OtherPoints(v) == Slice(Points(v), IcFirst + 1, Len(Points(v)))
Uploads(v) == 1 + ChunkCount(OtherPoints(v), IcChunk)
\* What the first k transactions leave in the account.
Uploaded(v, k) ==
  FrontPoints(v) \o SubSeq(OtherPoints(v), 1, Upto(Len(OtherPoints(v)), IcChunk, k - 1))
\* The points the k-th one carries.
UploadPart(v, k) ==
  IF k = 1 THEN FrontPoints(v) ELSE ChunksOf(OtherPoints(v), IcChunk)[k - 1]

LEMMA PointsSplit ==
  ASSUME NEW v \in VkVersions
  PROVE  /\ Points(v) \in Seq(VkVersions) /\ FrontPoints(v) \in Seq(VkVersions)
         /\ OtherPoints(v) \in Seq(VkVersions)
         /\ FrontPoints(v) \o OtherPoints(v) = Points(v)
<1> USE RegistryAssumption, ManagersAssumption DEF RegistryAssumption, ManagersAssumption
<1> DEFINE s == Points(v)
           m == Len(s)
           a == IF IcFirst < m THEN IcFirst ELSE m
<1>1. s \in Seq(VkVersions) /\ m \in Nat
  BY DEF Points, CompleteVk
<1> HIDE DEF s
<1>2. a \in Nat /\ a <= m /\ m \in Nat /\ m <= Len(s)
  BY <1>1
<1>3. FrontPoints(v) = SubSeq(s, 1, a)
  BY DEF FrontPoints, Slice, s
<1>4. OtherPoints(v) = SubSeq(s, a + 1, m)
  <2>1. OtherPoints(v) = SubSeq(s, IcFirst + 1, m)
    BY <1>1 DEF OtherPoints, Slice, s
  <2>2. CASE IcFirst < m
    BY <2>1, <2>2
  <2>3. CASE ~(IcFirst < m)
    <3>1. SubSeq(s, IcFirst + 1, m) = <<>>
      BY <1>1, <2>3, SubSeqEmpty
    <3>2. SubSeq(s, a + 1, m) = <<>>
      BY <1>1, <2>3, SubSeqEmpty
    <3> QED BY <2>1, <3>1, <3>2
  <2> QED BY <2>2, <2>3
<1>5. SubSeq(s, 1, m) = s
  BY <1>1, SubSeqFull
<1> HIDE DEF a, m
<1>6. /\ SubSeq(s, 1, a) \in Seq(VkVersions) /\ SubSeq(s, a + 1, m) \in Seq(VkVersions)
      /\ SubSeq(s, 1, a) \o SubSeq(s, a + 1, m) = SubSeq(s, 1, m)
  BY ONLY <1>1, <1>2, Between
<1> QED
  BY <1>1, <1>3, <1>4, <1>5, <1>6 DEF s

LEMMA UploadParts ==
  ASSUME NEW v \in VkVersions
  PROVE  /\ Uploads(v) \in Nat \ {0}
         /\ \A k \in 1..Uploads(v) : UploadPart(v, k) \in Seq(VkVersions)
         /\ UploadPart(v, 1) = Uploaded(v, 1)
         /\ \A k \in 1..(Uploads(v) - 1) :
              Uploaded(v, k) \o UploadPart(v, k + 1) = Uploaded(v, k + 1)
         /\ Uploaded(v, Uploads(v)) = Points(v)
<1> DEFINE s == OtherPoints(v)
           f == FrontPoints(v)
           q == ChunkCount(s, IcChunk)
           up(k) == Upto(Len(s), IcChunk, k)
<1>1. s \in Seq(VkVersions) /\ f \in Seq(VkVersions) /\ f \o s = Points(v)
  BY PointsSplit
<1>2. /\ q \in Nat
      /\ \A i \in 1..q : /\ ChunksOf(s, IcChunk)[i] \in Seq(VkVersions)
                         /\ SubSeq(s, 1, up(i - 1)) \o ChunksOf(s, IcChunk)[i] = SubSeq(s, 1, up(i))
      /\ \A i \in 0..q : up(i) \in 0..Len(s)
      /\ up(0) = 0 /\ up(q) = Len(s)
  <2> HIDE DEF s
  <2>1. IcChunk \in Nat \ {0}
    BY ManagersAssumption DEF ManagersAssumption
  <2>3. s \in Seq(VkVersions)
    BY <1>1
  <2> QED BY <2>1, <2>3, ChunkList
<1>3. Uploads(v) = q + 1
  BY <1>2 DEF Uploads
<1>4. \A k \in 1..(q + 1) : Uploaded(v, k) = f \o SubSeq(s, 1, up(k - 1))
  BY DEF Uploaded
<1>5. \A i \in 1..q : UploadPart(v, i + 1) = ChunksOf(s, IcChunk)[i]
  BY <1>2 DEF UploadPart
<1>6. UploadPart(v, 1) = f
  BY DEF UploadPart
<1> HIDE DEF s, f, q, up
<1>7. Uploaded(v, 1) = f
  <2>1. Uploaded(v, 1) = f \o SubSeq(s, 1, up(0))
    BY <1>2, <1>4
  <2>2. SubSeq(s, 1, up(0)) = <<>>
    BY <1>2, SubSeqEmpty
  <2> QED BY <1>1, <2>1, <2>2, ConcatEmptySeq
<1>8. Uploaded(v, q + 1) = Points(v)
  <2>1. Uploaded(v, q + 1) = f \o SubSeq(s, 1, Len(s))
    BY <1>2, <1>4
  <2> QED BY <1>1, <2>1, SubSeqFull
<1>9. ASSUME NEW k \in 1..q
      PROVE  Uploaded(v, k) \o UploadPart(v, k + 1) = Uploaded(v, k + 1)
  <2> DEFINE p == SubSeq(s, 1, up(k - 1))
             c == ChunksOf(s, IcChunk)[k]
  <2>1. c \in Seq(VkVersions) /\ p \o c = SubSeq(s, 1, up(k))
    BY <1>2
  <2>2. p \in Seq(VkVersions)
    <3>1. up(k - 1) \in 0..Len(s)
      BY <1>2
    <3>2. \A i \in 1..up(k - 1) : s[i] \in VkVersions
      BY <1>1, <3>1, ElementOfSeq
    <3> QED BY <3>1, <3>2, SubSeqProperties
  <2>3. Uploaded(v, k) = f \o p /\ UploadPart(v, k + 1) = c
        /\ Uploaded(v, k + 1) = f \o SubSeq(s, 1, up(k))
    <3>1. k \in 1..(q + 1) /\ k + 1 \in 1..(q + 1) /\ (k + 1) - 1 = k
      BY <1>2
    <3> QED BY <1>4, <1>5, <3>1
  <2> HIDE DEF p, c
  <2>4. (f \o p) \o c = f \o (p \o c)
    <3>1. f \in Seq(VkVersions) /\ p \in Seq(VkVersions) /\ c \in Seq(VkVersions)
      BY <1>1, <2>1, <2>2
    <3> QED BY ONLY <3>1, ConcatAssociative
  <2> QED BY <2>1, <2>3, <2>4
<1>10. \A k \in 1..Uploads(v) : UploadPart(v, k) \in Seq(VkVersions)
  <2> SUFFICES ASSUME NEW k \in 1..(q + 1) PROVE UploadPart(v, k) \in Seq(VkVersions)
    BY <1>3
  <2>1. k = 1 \/ (k - 1 \in 1..q /\ (k - 1) + 1 = k)
    BY <1>2
  <2> QED BY <1>1, <1>2, <1>5, <1>6, <2>1
<1>11. Uploads(v) - 1 = q /\ Uploads(v) \in Nat \ {0}
  BY <1>2, <1>3
<1> QED
  BY <1>3, <1>6, <1>7, <1>8, <1>9, <1>10, <1>11

VkIx(c, v, k) ==
  [op |-> "vk", circuit |-> c, head |-> IF k = 1 THEN v ELSE None,
   ic |-> UploadPart(v, k), extend |-> k > 1]

\* The upload is one transaction for each part of the key, in their order.
LEMMA UploadTxs ==
  ASSUME NEW c, NEW v \in VkVersions
  PROVE  UpdateVkTxs(c, v) = [k \in 1..Uploads(v) |-> <<VkIx(c, v, k)>>]
<1> DEFINE rest == ChunksOf(OtherPoints(v), IcChunk)
           parts == <<FrontPoints(v)>> \o rest
           N == Uploads(v)
           ixs == UpdateVkIx(c, v)
           list == [k \in 1..N |-> <<VkIx(c, v, k)>>]
<1>1. N \in Nat \ {0}
  BY UploadParts
<1>2. /\ rest \in Seq(Seq(VkVersions)) /\ N = 1 + Len(rest)
      /\ FrontPoints(v) \in Seq(VkVersions)
  <2>1. OtherPoints(v) \in Seq(VkVersions) /\ IcChunk \in Nat \ {0}
    BY PointsSplit, ManagersAssumption DEF ManagersAssumption
  <2> DEFINE q == ChunkCount(OtherPoints(v), IcChunk)
  <2>2. q \in Nat /\ rest = [i \in 1..q |-> rest[i]] /\ \A i \in 1..q : rest[i] \in Seq(VkVersions)
    BY <2>1, ChunkList
  <2>3. N = 1 + q
    BY DEF Uploads
  <2> HIDE DEF q, rest, N
  <2>4. rest \in Seq(Seq(VkVersions)) /\ Len(rest) = q
    BY <2>2
  <2> QED BY <2>3, <2>4, PointsSplit
<1>3. DOMAIN parts = 1..N /\ \A k \in 1..N : parts[k] = UploadPart(v, k)
  <2> DEFINE f == FrontPoints(v)
  <2>1. <<f>> \in Seq(Seq(VkVersions)) /\ Len(<<f>>) = 1 /\ <<f>>[1] = f
    BY <1>2
  <2>2. \A k \in 1..N : UploadPart(v, k) = IF k = 1 THEN f ELSE rest[k - 1]
    BY DEF UploadPart
  <2> HIDE DEF f, rest, N
  <2>3. /\ Len(<<f>> \o rest) = N /\ <<f>> \o rest \in Seq(Seq(VkVersions))
        /\ \A k \in 1..N : (<<f>> \o rest)[k] = IF k <= 1 THEN <<f>>[k] ELSE rest[k - 1]
    BY <1>2, <2>1, ConcatProperties
  <2>4. \A k \in 1..N : (k <= 1) = (k = 1)
    BY <1>1
  <2> QED BY <2>1, <2>2, <2>3, <2>4 DEF f
<1>4. ixs = [i \in DOMAIN parts |->
               [op |-> "vk", circuit |-> c, head |-> IF i = 1 THEN v ELSE None,
                ic |-> parts[i], extend |-> i > 1]]
  BY DEF UpdateVkIx, ExtendIc, LaterExtend, FrontPoints, OtherPoints, Points
<1>5. DOMAIN ixs = 1..N /\ \A k \in 1..N : ixs[k] = VkIx(c, v, k)
  <2> HIDE DEF parts, ixs, N
  <2> QED BY <1>3, <1>4 DEF VkIx
<1>6. [i \in DOMAIN ixs |-> <<ixs[i]>>] = list
  <2> HIDE DEF ixs, N
  <2> QED BY <1>5
<1> DEFINE X == {<<VkIx(c, v, k)>> : k \in 1..N}
<1>7. list \in Seq(X) /\ <<>> \notin X /\ list # <<>>
  <2>1. N \in Nat /\ N # 0
    BY <1>1
  <2> HIDE DEF N
  <2>2. list \in Seq(X) /\ Len(list) = N
    BY <2>1
  <2> HIDE DEF list
  <2>3. list # <<>>
    BY <2>1, <2>2
  <2> QED BY <2>2, <2>3
<1>8. AddTransactions(NewBuilder, list) = list /\ SendAll(list) = list
  <2> HIDE DEF list, X
  <2> QED BY <1>7, BuilderKeeps, AllSent
<1>9. UpdateVkTxs(c, v) = SendAll(AddTransactions(NewBuilder, [i \in DOMAIN ixs |-> <<ixs[i]>>]))
  BY DEF UpdateVkTxs
<1> HIDE DEF ixs, list
<1> QED
  BY <1>6, <1>8, <1>9 DEF list

-----------------------------------------------------------------------------
(* The state of a key upload.                                                *)

CircuitShape ==
  /\ circuit = [c \in Circuits |-> circuit[c]]
  /\ \A c \in Circuits : circuit[c] # Closed =>
       circuit[c] = [n \in {"signals", "vk"} |-> circuit[c][n]]

Uploading(d) == "v" \in DOMAIN session[d]

UploadShape(d) ==
  Uploading(d) =>
    /\ session[d] = [n \in {"phase", "c", "v", "pending"} |-> session[d][n]]
    /\ session[d].c \in Circuits /\ session[d].v \in VkVersions

\* The transactions from the k-th on.
RestOf(c, v, k) == SubSeq(UpdateVkTxs(c, v), k, Uploads(v))

\* The k-th transaction is next: the account has what the others left there.
UploadNext(d, c, v, k) ==
  /\ session[d].pending = RestOf(c, v, k)
  /\ calm[d] /\ k > 1 => circuit[c].vk = [head |-> v, ic |-> Uploaded(v, k - 1)]

UploadPends(d) ==
  Uploading(d) /\ session[d].phase = "sending" =>
    \E k \in 1..Uploads(session[d].v) : UploadNext(d, session[d].c, session[d].v, k)

UploadEnds(d) ==
  Uploading(d) /\ session[d].phase = "done" /\ calm[d] =>
    circuit[session[d].c].vk = CompleteVk(session[d].v)

UploadOf(d) == UploadShape(d) /\ UploadPends(d) /\ UploadEnds(d)

UploadInv ==
  /\ CircuitShape
  /\ session = [d \in Clients |-> session[d]]
  /\ calm = [d \in Clients |-> calm[d]]
  /\ \A d \in Clients : UploadOf(d)

\* What an upload instruction writes, and nothing else writes a circuit.
LEMMA VkWritten ==
  ASSUME CircuitShape, NEW w, NEW c, NEW head, NEW ic, NEW extend,
         UpdateCircuitVk(w, c, head, ic, extend)
  PROVE  /\ CircuitShape'
         /\ c \in Circuits =>
              circuit'[c].vk = [head |-> OrElse(head, circuit[c].vk.head),
                                ic |-> IF extend THEN circuit[c].vk.ic \o ic ELSE ic]
<1> DEFINE vk == [head |-> OrElse(head, circuit[c].vk.head),
                  ic |-> IF extend THEN circuit[c].vk.ic \o ic ELSE ic]
           new == [circuit[c] EXCEPT !.vk = vk]
<1>1. circuit[c] # Closed /\ circuit' = [circuit EXCEPT ![c] = new]
  BY DEF UpdateCircuitVk
<1> HIDE DEF vk
<1>2. c \in Circuits => new = [n \in {"signals", "vk"} |-> new[n]] /\ new.vk = vk
  BY <1>1 DEF CircuitShape
<1> HIDE DEF new
<1>3. \A x \in Circuits : circuit'[x] = IF x = c THEN new ELSE circuit[x]
  BY <1>1 DEF CircuitShape
<1>4. circuit' = [x \in Circuits |-> circuit'[x]]
  BY <1>1 DEF CircuitShape
<1>5. ASSUME NEW x \in Circuits, circuit'[x] # Closed
      PROVE  circuit'[x] = [n \in {"signals", "vk"} |-> circuit'[x][n]]
  BY <1>2, <1>3, <1>5 DEF CircuitShape
<1> QED
  BY <1>2, <1>3, <1>4, <1>5 DEF CircuitShape, vk

LEMMA HandleCircuit ==
  ASSUME NEW w, NEW ix, Handle(w, ix)
  PROVE  \/ circuit' = circuit
         \/ /\ ix.op = "vk"
            /\ UpdateCircuitVk(w, ix.circuit, ix.head, ix.ic, ix.extend)
BY DEF Handle, ProveProofRequest, VerifyProofRequest, UpdateProofRequest, registryVars

LEMMA CallCircuit ==
  ASSUME NEW d, Call(d)
  PROVE  circuit' = circuit
<1>1. RequestCall(d) => circuit' = circuit
  BY DEF RequestCall, CreateProofRequest, DeleteProofRequest, VerifyProofRequest, registryVars
<1>2. OwnerCall(d) => circuit' = circuit
  BY DEF OwnerCall, PolicyUpdate, PolicyCreate, PolicyDelete, UpdatePolicy, CreatePolicy,
         DeletePolicy
<1>3. OtherCall(d) => circuit' = circuit
  BY DEF OtherCall, IssuerCreate, IssuerDelete, ServiceUpdate, TrusteeCreate, TrusteeUpdate,
         TrusteeVerify, TrusteeDelete, CreateIssuer, DeleteIssuer, UpdateServiceProvider,
         CreateTrustee, UpdateTrustee, VerifyTrustee, DeleteTrustee
<1> QED
  BY <1>1, <1>2, <1>3 DEF Call

LEMMA SameCircuits ==
  ASSUME CircuitShape, circuit' = circuit
  PROVE  CircuitShape'
BY DEF CircuitShape

\* An upload stays as it was, or loses its calm, while its circuit stays.
LEMMA UploadKept ==
  ASSUME NEW d \in Clients, UploadOf(d), session'[d] = session[d],
         calm'[d] => calm[d],
         circuit' = circuit \/ (calm'[d] => ~Touched(d))
  PROVE  UploadOf(d)'
<1> SUFFICES ASSUME Uploading(d)' PROVE UploadOf(d)'
  BY DEF UploadOf, UploadShape, UploadPends, UploadEnds, Uploading
<1>1. Uploading(d)
  BY DEF Uploading
<1>2. PICK c, v : c = session[d].c /\ v = session[d].v
  OBVIOUS
<1>3. calm'[d] => calm[d] /\ circuit'[c] = circuit[c]
  <2>1. "r" \notin DOMAIN session[d] /\ "c" \in DOMAIN session[d]
    BY <1>1 DEF UploadOf, UploadShape
  <2> QED
    BY <1>2, <2>1 DEF Touched
<1>4. UploadShape(d)'
  BY DEF UploadOf, UploadShape, Uploading
<1>5. UploadPends(d)'
  <2> SUFFICES ASSUME session'[d].phase = "sending"
               PROVE  \E k \in 1..Uploads(v) : UploadNext(d, c, v, k)'
    BY <1>2 DEF UploadPends
  <2>1. PICK k \in 1..Uploads(v) : UploadNext(d, c, v, k)
    BY <1>1, <1>2 DEF UploadOf, UploadPends
  <2>2. UploadNext(d, c, v, k)'
    BY <1>3, <2>1 DEF UploadNext
  <2> QED
    BY <2>2
<1>6. UploadEnds(d)'
  BY <1>1, <1>2, <1>3 DEF UploadOf, UploadEnds
<1> QED
  BY <1>4, <1>5, <1>6 DEF UploadOf

LEMMA NotUploading ==
  ASSUME NEW d \in Clients, "v" \notin DOMAIN session'[d]
  PROVE  UploadOf(d)'
BY DEF UploadOf, UploadShape, UploadPends, UploadEnds, Uploading

\* What is left to show of a step of d: its own upload.
LEMMA OneUploader ==
  ASSUME UploadInv, NEW d \in Clients, NEW s, CircuitShape', UploadOf(d)',
         session' = [session EXCEPT ![d] = s],
         \/ UNCHANGED <<circuit, calm>>
         \/ circuit' = circuit /\ calm' = [calm EXCEPT ![d] = TRUE]
         \/ Notice(d)
  PROVE  UploadInv'
<1>1. session' = [e \in Clients |-> session'[e]] /\ calm' = [e \in Clients |-> calm'[e]]
  BY DEF UploadInv, Notice
<1>2. ASSUME NEW e \in Clients, e # d
      PROVE  UploadOf(e)'
  <2>1. session'[e] = session[e] /\ UploadOf(e)
    BY <1>2 DEF UploadInv
  <2>2. CASE UNCHANGED <<circuit, calm>>
    BY <2>1, <2>2, UploadKept
  <2>3. CASE circuit' = circuit /\ calm' = [calm EXCEPT ![d] = TRUE]
    <3>1. calm'[e] = calm[e]
      BY <1>2, <2>3 DEF UploadInv
    <3> QED
      BY <2>1, <2>3, <3>1, UploadKept
  <2>4. CASE Notice(d)
    <3>1. calm'[e] = (calm[e] /\ ~Touched(e))
      BY <1>2, <2>4 DEF Notice
    <3> QED
      BY <2>1, <3>1, UploadKept
  <2> QED
    BY <2>2, <2>3, <2>4
<1> QED
  BY <1>1, <1>2 DEF UploadInv

LEMMA StartsOther ==
  ASSUME UploadInv, NEW d \in Clients, NEW s, "v" \notin DOMAIN s, Start(d, s)
  PROVE  UploadInv'
<1>1. session'[d] = s
  BY DEF UploadInv, Start
<1>2. UploadOf(d)'
  BY <1>1, NotUploading
<1>3. circuit' = circuit
  BY DEF Start, vars, registryVars
<1>4. CircuitShape'
  BY <1>3, SameCircuits DEF UploadInv
<1> QED
  BY <1>2, <1>3, <1>4, OneUploader DEF Start

LEMMA ContinuesOther ==
  ASSUME UploadInv, NEW d \in Clients, NEW s, Continue(d, s),
         \/ "v" \notin DOMAIN s
         \/ s = [session[d] EXCEPT !.phase = "failed", !.pending = <<>>]
  PROVE  UploadInv'
<1>1. session'[d] = s
  BY DEF UploadInv, Continue
<1>2. UploadOf(d)'
  <2>1. CASE "v" \notin DOMAIN s
    BY <1>1, <2>1, NotUploading
  <2>2. CASE /\ "v" \in DOMAIN s
             /\ s = [session[d] EXCEPT !.phase = "failed", !.pending = <<>>]
    <3>1. Uploading(d)
      BY <2>2 DEF Uploading
    <3>2. /\ s = [n \in {"phase", "c", "v", "pending"} |-> s[n]]
          /\ s.phase = "failed" /\ s.c \in Circuits /\ s.v \in VkVersions
      BY <2>2, <3>1 DEF UploadInv, UploadOf, UploadShape
    <3> QED
      BY <1>1, <3>2 DEF UploadOf, UploadShape, UploadPends, UploadEnds
  <2> QED
    BY <2>1, <2>2
<1>3. UNCHANGED <<circuit, calm>>
  BY DEF Continue, vars, registryVars
<1>4. CircuitShape'
  BY <1>3, SameCircuits DEF UploadInv
<1> QED
  BY <1>2, <1>3, <1>4, OneUploader DEF Continue

LEMMA UploadStart ==
  ASSUME UploadInv, NEW d \in Clients, NEW c \in Circuits, NEW v \in VkVersions,
         UpdateVk(d, c, v)
  PROVE  UploadInv'
<1> DEFINE s == [phase |-> "sending", c |-> c, v |-> v, pending |-> UpdateVkTxs(c, v)]
<1>1. Start(d, s)
  BY DEF UpdateVk
<1>2. session'[d] = s
  BY <1>1 DEF UploadInv, Start
<1>3. circuit' = circuit
  BY <1>1 DEF Start, vars, registryVars
<1>4. CircuitShape'
  BY <1>3, SameCircuits DEF UploadInv
<1>5. UpdateVkTxs(c, v) = RestOf(c, v, 1) /\ 1 \in 1..Uploads(v)
  <2> DEFINE txs == UpdateVkTxs(c, v)
  <2>1. Uploads(v) \in Nat \ {0}
    BY UploadParts
  <2>2. txs = [k \in 1..Uploads(v) |-> txs[k]]
    BY UploadTxs
  <2> HIDE DEF txs
  <2>3. txs \in Seq({txs[k] : k \in 1..Uploads(v)}) /\ Len(txs) = Uploads(v)
    BY <2>1, <2>2
  <2>4. txs = SubSeq(txs, 1, Uploads(v))
    BY <2>3, SubSeqFull
  <2> QED
    BY <2>1, <2>4 DEF txs, RestOf
<1>6. UploadOf(d)'
  <2>1. /\ session'[d].c = c /\ session'[d].v = v /\ session'[d].phase = "sending"
        /\ session'[d].pending = UpdateVkTxs(c, v)
    BY <1>2
  <2>2. UploadShape(d)'
    BY <1>2, <2>1 DEF UploadShape
  <2>3. UploadNext(d, c, v, 1)'
    BY <1>5, <2>1 DEF UploadNext
  <2>4. UploadPends(d)'
    BY <1>5, <2>1, <2>3 DEF UploadPends
  <2>5. UploadEnds(d)'
    BY <2>1 DEF UploadEnds
  <2> QED
    BY <2>2, <2>4, <2>5 DEF UploadOf
<1> HIDE DEF s
<1> QED
  BY <1>1, <1>3, <1>4, <1>6, OneUploader DEF Start

\* The first of them, and the others.
LEMMA UploadRest ==
  ASSUME NEW c, NEW v \in VkVersions, NEW k \in 1..Uploads(v)
  PROVE  /\ RestOf(c, v, k)[1][1] = VkIx(c, v, k)
         /\ Tail(RestOf(c, v, k)) = RestOf(c, v, k + 1)
         /\ (Len(RestOf(c, v, k)) = 1) = (k = Uploads(v))
<1> DEFINE N == Uploads(v)
           list == RestOf(c, v, k)
           txs == UpdateVkTxs(c, v)
           X == {<<VkIx(c, v, i)>> : i \in 1..N}
<1>1. N \in Nat \ {0}
  BY UploadParts
<1>2. txs = [i \in 1..N |-> <<VkIx(c, v, i)>>]
  BY UploadTxs
<1>3. txs[k] = <<VkIx(c, v, k)>> /\ txs \in Seq(X) /\ Len(txs) = N
  <2> HIDE DEF txs
  <2>1. DOMAIN txs = 1..N /\ \A i \in 1..N : txs[i] = <<VkIx(c, v, i)>>
    BY <1>2
  <2>2. \A i \in 1..N : txs[i] \in X
    BY <2>1
  <2>3. txs = [i \in 1..N |-> txs[i]]
    BY <1>2, <2>1
  <2>4. txs[k] = <<VkIx(c, v, k)>>
    BY <2>1
  <2> HIDE DEF N, X
  <2>5. txs \in Seq(X) /\ Len(txs) = N
    BY <1>1, <2>1, <2>2, <2>3
  <2> QED BY <2>4, <2>5
<1> HIDE DEF X
<1>4. list = SubSeq(txs, k, N) /\ RestOf(c, v, k + 1) = SubSeq(txs, k + 1, N)
  BY DEF RestOf
<1> HIDE DEF txs, N, list
<1>5. k \in 1..N /\ k <= N
  BY <1>1 DEF N
<1>6. list[1] = txs[k] /\ Len(list) = N - k + 1 /\ Tail(list) = SubSeq(txs, k + 1, N)
  <2>1. \A i \in k..N : txs[i] \in X
    BY <1>1, <1>3, <1>5, ElementOfSeq
  <2>2. list \in Seq(X) /\ Len(list) = N - k + 1
        /\ \A i \in 1..(N - k + 1) : list[i] = txs[k + i - 1]
    BY <1>1, <1>4, <1>5, <2>1, SubSeqProperties
  <2>3. Tail(list) = SubSeq(txs, k + 1, N)
    BY <1>1, <1>3, <1>4, <1>5, HeadTailOfSubSeq
  <2>4. list[1] = txs[k]
    <3>1. 1 \in 1..(N - k + 1) /\ k + 1 - 1 = k
      BY <1>1, <1>5
    <3> QED BY <2>2, <3>1
  <2> QED BY <2>2, <2>3, <2>4
<1>7. (Len(list) = 1) = (k = N)
  BY <1>1, <1>5, <1>6
<1>8. list[1][1] = VkIx(c, v, k)
  BY <1>3, <1>6
<1>9. Tail(list) = RestOf(c, v, k + 1)
  BY <1>4, <1>6
<1> QED
  BY <1>7, <1>8, <1>9 DEF N, list

\* The k-th transaction adds its part of the key to what the others left there.
LEMMA UploadWrites ==
  ASSUME CircuitShape, NEW w, NEW c \in Circuits, NEW v \in VkVersions,
         NEW k \in 1..Uploads(v), NEW old, old = circuit[c].vk,
         k > 1 => old = [head |-> v, ic |-> Uploaded(v, k - 1)],
         UpdateCircuitVk(w, c, IF k = 1 THEN v ELSE None, UploadPart(v, k), k > 1)
  PROVE  circuit'[c].vk = [head |-> v, ic |-> Uploaded(v, k)]
<1> DEFINE head == IF k = 1 THEN v ELSE None
           ic == UploadPart(v, k)
<1>1. circuit'[c].vk = [head |-> OrElse(head, old.head),
                        ic |-> IF k > 1 THEN old.ic \o ic ELSE ic]
  <2> HIDE DEF head, ic
  <2>1. PICK extend : extend = (k > 1)
    OBVIOUS
  <2>2. UpdateCircuitVk(w, c, head, ic, extend)
    BY <2>1 DEF head, ic
  <2>3. circuit'[c].vk = [head |-> OrElse(head, circuit[c].vk.head),
                          ic |-> IF extend THEN circuit[c].vk.ic \o ic ELSE ic]
    BY <2>2, VkWritten
  <2> QED BY <2>1, <2>3
<1>2. Uploads(v) \in Nat \ {0} /\ v # None
  BY UploadParts, ManagersAssumption DEF ManagersAssumption
<1>3. CASE k = 1
  <2>1. UploadPart(v, 1) = Uploaded(v, 1)
    BY UploadParts
  <2> QED BY <1>1, <1>2, <1>3, <2>1 DEF OrElse
<1>4. CASE k > 1
  <2>1. k - 1 \in 1..(Uploads(v) - 1) /\ (k - 1) + 1 = k
    BY <1>2, <1>4
  <2>2. Uploaded(v, k - 1) \o UploadPart(v, k) = Uploaded(v, k)
    BY <2>1, UploadParts
  <2>3. k # 1 /\ old.head = v /\ old.ic = Uploaded(v, k - 1)
    BY <1>4
  <2> QED BY <1>1, <1>4, <2>2, <2>3 DEF OrElse
<1> QED
  BY <1>2, <1>3, <1>4

LEMMA UploadSend ==
  ASSUME UploadInv, NEW d \in Clients, Send(d)
  PROVE  UploadInv'
<1> DEFINE ix == session[d].pending[1][1]
           s == [session[d] EXCEPT
                   !.phase = IF Len(session[d].pending) = 1 THEN "done" ELSE "sending",
                   !.pending = Tail(@)]
<1>1. Handle(Wallet[d], ix) /\ Notice(d)
  BY DEF Send
<1>2. session' = [session EXCEPT ![d] = s]
  BY DEF Send, UploadInv
<1>3. session'[d] = s
  BY <1>2 DEF UploadInv
<1>4. \/ circuit' = circuit
      \/ /\ ix.op = "vk"
         /\ UpdateCircuitVk(Wallet[d], ix.circuit, ix.head, ix.ic, ix.extend)
  <2> HIDE DEF ix
  <2> QED BY <1>1, HandleCircuit
<1>5. CircuitShape'
  BY <1>4, SameCircuits, VkWritten DEF UploadInv
<1>6. CASE ~Uploading(d)
  <2>1. "v" \notin DOMAIN s
    BY <1>6 DEF Uploading
  <2>2. UploadOf(d)'
    BY <1>3, <2>1, NotUploading
  <2> HIDE DEF s
  <2> QED
    BY <1>1, <1>2, <1>5, <2>2, OneUploader
<1>7. CASE Uploading(d)
  <2>1. UploadShape(d) /\ UploadPends(d) /\ session[d].phase = "sending"
    BY <1>7 DEF UploadInv, UploadOf, Send
  <2>2. PICK c \in Circuits : c = session[d].c
    BY <1>7, <2>1 DEF UploadShape
  <2>3. PICK v \in VkVersions : v = session[d].v
    BY <1>7, <2>1 DEF UploadShape
  <2>4. PICK k \in 1..Uploads(v) : UploadNext(d, c, v, k)
    BY <1>7, <2>1, <2>2, <2>3 DEF UploadPends
  <2>5. PICK list : list = session[d].pending
    OBVIOUS
  <2>6. /\ list[1][1] = VkIx(c, v, k)
        /\ Tail(list) = RestOf(c, v, k + 1)
        /\ (Len(list) = 1) = (k = Uploads(v))
    <3>1. list = RestOf(c, v, k)
      BY <2>4, <2>5 DEF UploadNext
    <3>2. v \in VkVersions /\ k \in 1..Uploads(v)
      OBVIOUS
    <3> QED BY ONLY <3>1, <3>2, UploadRest
  <2>7. /\ s = [n \in {"phase", "c", "v", "pending"} |-> s[n]]
        /\ s.phase = IF k = Uploads(v) THEN "done" ELSE "sending"
        /\ s.c = c /\ s.v = v /\ s.pending = Tail(list)
    BY <1>7, <2>1, <2>2, <2>3, <2>5, <2>6 DEF UploadShape
  <2>8. UpdateCircuitVk(Wallet[d], c, IF k = 1 THEN v ELSE None, UploadPart(v, k), k > 1)
    BY <1>1, <2>5, <2>6 DEF Handle, VkIx
  <2>9. calm'[d] => calm[d]
    BY <1>1 DEF Notice, UploadInv
  <2>10. calm'[d] => circuit'[c].vk = [head |-> v, ic |-> Uploaded(v, k)]
    <3> SUFFICES ASSUME calm[d]
                 PROVE  circuit'[c].vk = [head |-> v, ic |-> Uploaded(v, k)]
      BY <2>9
    <3>1. PICK old : old = circuit[c].vk
      OBVIOUS
    <3>2. k > 1 => old = [head |-> v, ic |-> Uploaded(v, k - 1)]
      BY <2>4, <3>1 DEF UploadNext
    <3>3. CircuitShape
      BY DEF UploadInv
    <3> QED BY ONLY <2>8, <3>1, <3>2, <3>3, UploadWrites
  <2>11. UploadOf(d)'
    <3> HIDE DEF s, ix
    <3>1. Uploads(v) \in Nat \ {0}
      BY UploadParts
    <3>2. UploadShape(d)'
      BY <1>3, <2>7 DEF UploadShape
    <3>3. UploadPends(d)'
      <4> SUFFICES ASSUME k # Uploads(v) PROVE UploadPends(d)'
        BY <1>3, <2>7 DEF UploadPends
      <4>1. k + 1 \in 1..Uploads(v) /\ (k + 1) - 1 = k
        BY <3>1
      <4>2. UploadNext(d, c, v, k + 1)'
        BY <1>3, <2>6, <2>7, <2>10, <4>1 DEF UploadNext
      <4> QED BY <1>3, <2>7, <4>1, <4>2 DEF UploadPends
    <3>4. UploadEnds(d)'
      <4> SUFFICES ASSUME k = Uploads(v), calm'[d]
                   PROVE  circuit'[c].vk = CompleteVk(v)
        BY <1>3, <2>7 DEF UploadEnds
      <4>1. Uploaded(v, Uploads(v)) = CompleteVk(v).ic
        BY UploadParts DEF Points
      <4>2. CompleteVk(v) = [head |-> v, ic |-> CompleteVk(v).ic]
        BY DEF CompleteVk
      <4> QED BY <2>10, <4>1, <4>2
    <3> QED
      BY <3>2, <3>3, <3>4 DEF UploadOf
  <2> HIDE DEF s, ix
  <2> QED
    BY <1>1, <1>2, <1>5, <2>11, OneUploader
<1> QED
  BY <1>6, <1>7

LEMMA UploadCall ==
  ASSUME UploadInv, NEW d \in Clients, Call(d)
  PROVE  UploadInv'
<1>1. session'[d] = Idle
  BY DEF UploadInv, Call
<1>2. UploadOf(d)'
  BY <1>1, NotUploading DEF Idle
<1>3. CircuitShape'
  BY CallCircuit, SameCircuits DEF UploadInv
<1> QED
  BY <1>2, <1>3, OneUploader DEF Call

LEMMA UploadSessionStep ==
  ASSUME UploadInv, NEW d \in Clients, SessionStep(d)
  PROVE  UploadInv'
<1>1. ASSUME NEW r \in Requests, NEW cred, NEW verify, FullProve(d, r, cred, verify)
      PROVE  UploadInv'
  BY <1>1, StartsOther DEF FullProve
<1>2. ASSUME NEW c \in Circuits, NEW v \in VkVersions, UpdateVk(d, c, v)
      PROVE  UploadInv'
  BY <1>2, UploadStart
<1>3. ASSUME NEW r \in Requests, Review(d, r)
      PROVE  UploadInv'
  <2>1. PICK s : Start(d, s) /\ "v" \notin DOMAIN s
    BY <1>3 DEF Review
  <2> QED
    BY <2>1, StartsOther
<1>4. ASSUME Fetch(d)
      PROVE  UploadInv'
  <2>1. PICK s : Continue(d, s) /\ "v" \notin DOMAIN s
    BY <1>4 DEF Fetch
  <2> QED
    BY <2>1, ContinuesOther
<1>5. ASSUME Build(d)
      PROVE  UploadInv'
  <2>1. PICK s : Continue(d, s) /\ "v" \notin DOMAIN s
    BY <1>5 DEF Build
  <2> QED
    BY <2>1, ContinuesOther
<1>6. ASSUME Send(d)
      PROVE  UploadInv'
  BY <1>6, UploadSend
<1>7. ASSUME Fail(d)
      PROVE  UploadInv'
  <2>1. Continue(d, [session[d] EXCEPT !.phase = "failed", !.pending = <<>>])
    BY <1>7 DEF Fail
  <2> QED
    BY <2>1, ContinuesOther
<1>8. ASSUME Stop(d)
      PROVE  UploadInv'
  BY <1>8, ContinuesOther DEF Stop, Idle
<1> QED
  BY <1>1, <1>2, <1>3, <1>4, <1>5, <1>6, <1>7, <1>8 DEF SessionStep

LEMMA UploadInvInit == TypeOK /\ SessionsInit => UploadInv
<1> SUFFICES ASSUME TypeOK, SessionsInit PROVE UploadInv
  OBVIOUS
<1>1. CircuitShape
  <2>1. circuit \in [Circuits -> CircuitAccount \cup {Closed}]
    BY DEF TypeOK, RegistryTypeOK
  <2>2. \A a \in CircuitAccount : a = [n \in {"signals", "vk"} |-> a[n]]
    BY DEF CircuitAccount
  <2> QED
    BY <2>1, <2>2 DEF CircuitShape
<1>2. session = [d \in Clients |-> session[d]] /\ calm = [d \in Clients |-> calm[d]]
  BY DEF SessionsInit
<1>3. \A d \in Clients : session[d] = Idle
  BY DEF SessionsInit
<1>4. ASSUME NEW d \in Clients
      PROVE  UploadOf(d)
  <2>1. ~Uploading(d)
    BY <1>3 DEF Uploading, Idle
  <2> QED
    BY <2>1 DEF UploadOf, UploadShape, UploadPends, UploadEnds
<1> QED
  BY <1>1, <1>2, <1>4 DEF UploadInv

LEMMA UploadInvNext == UploadInv /\ [SessionsNext]_allVars => UploadInv'
<1> SUFFICES ASSUME UploadInv, [SessionsNext]_allVars PROVE UploadInv'
  OBVIOUS
<1>1. ASSUME UNCHANGED <<circuit, clientVars>>
      PROVE  UploadInv'
  <2>1. CircuitShape'
    BY <1>1, SameCircuits DEF UploadInv
  <2>2. session' = session /\ calm' = calm
    BY <1>1 DEF clientVars
  <2>3. ASSUME NEW d \in Clients
        PROVE  UploadOf(d)'
    BY <1>1, <2>2, UploadKept DEF UploadInv
  <2> QED
    BY <2>1, <2>2, <2>3 DEF UploadInv
<1>2. CASE UNCHANGED allVars
  BY <1>1, <1>2 DEF allVars, vars, registryVars, clientVars
<1>3. CASE Tick /\ UNCHANGED clientVars
  BY <1>1, <1>3 DEF Tick, registryVars, clientVars
<1>4. CASE \E d \in Clients : SessionStep(d) \/ Call(d)
  BY <1>4, UploadSessionStep, UploadCall
<1> QED
  BY <1>2, <1>3, <1>4 DEF SessionsNext

\* circuitManager.ts:141-211.  A verification key goes up in as many transactions
\* as its size needs: whatever the other clients do in between, the account of a
\* circuit nobody else wrote to ends up with the whole new key and nothing of the
\* old one.
THEOREM KeysUploadWhole == InUse => []KeyUploaded
<1>1. UploadInv => KeyUploaded
  BY DEF UploadInv, UploadOf, UploadEnds, Uploading, KeyUploaded, Ended
<1> QED
  BY <1>1, UploadInvInit, UploadInvNext, PTL DEF InUse

-----------------------------------------------------------------------------
(* The values a policy has for a signal.                                     *)

RuleList == Seq([key: STRING, value: Nat])
\* The rules for a signal among the first n.
Named(rules, name, n) == {m \in 1..n : rules[m].key = name}
Count(rules, name, n) == Cardinality(Named(rules, name, n))

Counts(rules, name) ==
  /\ Count(rules, name, 0) = 0
  /\ \A n \in Nat : /\ Count(rules, name, n) \in Nat
                    /\ Count(rules, name, n + 1) =
                         IF rules[n + 1].key = name THEN Count(rules, name, n) + 1
                         ELSE Count(rules, name, n)

\* Counting the rules for a signal, one rule at a time.
LEMMA Counted ==
  ASSUME NEW rules, NEW name
  PROVE  Counts(rules, name)
<1>1. Count(rules, name, 0) = 0
  <2>1. Named(rules, name, 0) = {}
    BY DEF Named
  <2> QED BY <2>1, FS_EmptySet DEF Count
<1>2. ASSUME NEW n \in Nat
      PROVE  /\ Count(rules, name, n) \in Nat
             /\ Count(rules, name, n + 1) = IF rules[n + 1].key = name
                                            THEN Count(rules, name, n) + 1
                                            ELSE Count(rules, name, n)
  <2> DEFINE S == Named(rules, name, n)
  <2>1. IsFiniteSet(1..n) /\ S \in SUBSET (1..n)
    BY FS_Interval DEF Named
  <2>2. IsFiniteSet(S)
    BY <2>1, FS_Subset
  <2>3. n + 1 \notin S
    BY <2>1
  <2>4. Named(rules, name, n + 1) = IF rules[n + 1].key = name THEN S \cup {n + 1} ELSE S
    BY DEF Named
  <2> HIDE DEF S
  <2>5. Cardinality(S) \in Nat /\ Cardinality(S \cup {n + 1}) = Cardinality(S) + 1
    BY <2>2, <2>3, FS_CardinalityType, FS_AddElement
  <2> QED BY <2>4, <2>5 DEF Count, S
<1> QED
  BY <1>1, <1>2 DEF Counts

\* The values collected from the first n rules, one rule after another.
Collects(f, rules, name) ==
  /\ RuleValues(rules, name) = f[Len(rules)]
  /\ f[0] = <<>>
  /\ \A n \in 0..(Len(rules) - 1) :
       f[n + 1] = IF rules[n + 1].key = name THEN Append(f[n], rules[n + 1].value) ELSE f[n]

\* The recursion goes through: RuleValues is what its steps say.
LEMMA RuleSteps ==
  ASSUME NEW rules \in RuleList, NEW name
  PROVE  \E f : Collects(f, rules, name)
<1> DEFINE N == Len(rules)
           Step(f, n) == IF n = 0 THEN <<>>
                         ELSE IF rules[n].key = name THEN Append(f[n - 1], rules[n].value)
                         ELSE f[n - 1]
           F(f) == [n \in 0..N |-> Step(f, n)]
           values == CHOOSE f : f = F(f)
           S == {n \in Nat : \E f : f = [m \in 0..n |-> Step(f, m)]}
<1>1. N \in Nat
  BY DEF RuleList
<1>2. RuleValues(rules, name) = values[N]
  BY DEF RuleValues
<1>3. 0 \in S
  <2> DEFINE f == [m \in 0..0 |-> <<>>]
  <2>1. \A m \in 0..0 : Step(f, m) = <<>>
    OBVIOUS
  <2>2. f = [m \in 0..0 |-> Step(f, m)]
    <3> HIDE DEF Step
    <3> QED BY <2>1
  <2> HIDE DEF f, Step
  <2> QED BY <2>2
<1>4. ASSUME NEW n \in S
      PROVE  n + 1 \in S
  <2>1. n \in Nat
    OBVIOUS
  <2>2. PICK f : f = [m \in 0..n |-> Step(f, m)]
    OBVIOUS
  <2> DEFINE last == IF rules[n + 1].key = name THEN Append(f[n], rules[n + 1].value) ELSE f[n]
             g == [m \in 0..(n + 1) |-> IF m = n + 1 THEN last ELSE f[m]]
  <2>3. ASSUME NEW m \in 0..(n + 1)
        PROVE  g[m] = Step(g, m)
    <3>1. CASE m = n + 1
      <4>1. g[n] = f[n] /\ g[m] = last /\ m # 0 /\ m - 1 = n
        BY <2>1, <3>1
      <4> HIDE DEF g
      <4> QED BY <3>1, <4>1
    <3>2. CASE m # n + 1
      <4>1. m \in 0..n /\ g[m] = f[m]
        BY <2>1, <3>2
      <4>2. m # 0 => m - 1 \in 0..n /\ g[m - 1] = f[m - 1]
        BY <2>1, <3>2
      <4>3. f[m] = Step(f, m)
        <5> HIDE DEF Step
        <5> QED BY <2>2, <4>1
      <4> HIDE DEF g
      <4> QED BY <4>1, <4>2, <4>3
    <3> QED BY <3>1, <3>2
  <2>4. g = [m \in 0..(n + 1) |-> g[m]]
    OBVIOUS
  <2> HIDE DEF g, Step
  <2>5. g = [m \in 0..(n + 1) |-> Step(g, m)]
    BY <2>3, <2>4
  <2> QED BY <2>1, <2>5
<1>5. N \in S
  <2>1. S \in SUBSET Nat
    OBVIOUS
  <2> HIDE DEF S
  <2> QED BY <1>1, <1>3, <1>4, <2>1, SetInduction
<1>6. values = F(values)
  <2>1. \E f : f = F(f)
    <3> HIDE DEF Step
    <3> QED BY <1>5
  <2> HIDE DEF F
  <2> QED BY <2>1
<1>7. values[0] = <<>>
  <2> HIDE DEF values
  <2>1. values[0] = Step(values, 0)
    <3> HIDE DEF Step
    <3> QED BY <1>1, <1>6
  <2> QED BY <2>1
<1>8. ASSUME NEW n \in 0..(N - 1)
      PROVE  values[n + 1] = IF rules[n + 1].key = name
                             THEN Append(values[n], rules[n + 1].value) ELSE values[n]
  <2> HIDE DEF values
  <2>1. n + 1 \in 0..N /\ n + 1 # 0 /\ (n + 1) - 1 = n
    BY <1>1
  <2>2. values[n + 1] = Step(values, n + 1)
    <3> HIDE DEF Step
    <3> QED BY <1>6, <2>1
  <2> QED BY <2>1, <2>2
<1> HIDE DEF values
<1>9. Collects(values, rules, name)
  BY <1>2, <1>7, <1>8 DEF Collects
<1> QED
  BY <1>9

\* Each rule for a signal gives the value after those of the rules before it.
LEMMA RuleValuesAre ==
  ASSUME NEW rules \in RuleList, NEW name
  PROVE  /\ RuleValues(rules, name) \in Seq(Nat)
         /\ \A j \in DOMAIN rules : rules[j].key = name =>
              /\ Count(rules, name, j - 1) + 1 \in 1..Len(RuleValues(rules, name))
              /\ RuleValues(rules, name)[Count(rules, name, j - 1) + 1] = rules[j].value
<1> DEFINE N == Len(rules)
<1>1. N \in Nat /\ DOMAIN rules = 1..N /\ \A j \in 1..N : rules[j].value \in Nat
  <2>1. N \in Nat /\ DOMAIN rules = 1..N
    BY DEF RuleList
  <2>2. \A j \in 1..N : rules[j] \in [key: STRING, value: Nat]
    BY ElementOfSeq DEF RuleList
  <2> HIDE DEF N
  <2> QED BY <2>1, <2>2
<1>f. PICK f : Collects(f, rules, name)
  BY RuleSteps
<1>2. /\ RuleValues(rules, name) = f[N]
      /\ f[0] = <<>>
      /\ \A n \in 0..(N - 1) :
           f[n + 1] = IF rules[n + 1].key = name THEN Append(f[n], rules[n + 1].value) ELSE f[n]
  BY <1>f DEF Collects
<1> DEFINE c(n) == Count(rules, name, n)
           P(n) == /\ f[n] \in Seq(Nat) /\ Len(f[n]) = c(n)
                   /\ \A j \in 1..n : rules[j].key = name =>
                        c(j - 1) + 1 \in 1..c(n) /\ f[n][c(j - 1) + 1] = rules[j].value
           S == {n \in Nat : n \in 0..N => P(n)}
<1>3. c(0) = 0 /\ \A n \in Nat : /\ c(n) \in Nat
                                 /\ c(n + 1) = IF rules[n + 1].key = name THEN c(n) + 1 ELSE c(n)
  <2>1. Counts(rules, name)
    BY Counted
  <2> QED BY <2>1 DEF Counts
<1> HIDE DEF N, c
<1>4. 0 \in S
  <2>1. f[0] \in Seq(Nat) /\ Len(f[0]) = 0
    BY <1>2
  <2>2. f[0] \in Seq(Nat) /\ Len(f[0]) = c(0)
    BY <1>3, <2>1
  <2>3. \A j \in 1..0 : FALSE
    OBVIOUS
  <2>4. P(0)
    BY <2>2, <2>3
  <2> HIDE DEF P
  <2> QED BY <2>4
<1>5. ASSUME NEW n \in S
      PROVE  n + 1 \in S
  <2> SUFFICES ASSUME n + 1 \in 0..N PROVE P(n + 1)
    OBVIOUS
  <2>1. n \in Nat /\ n \in 0..(N - 1) /\ n + 1 \in 1..N /\ P(n)
    BY <1>1
  <2>2. c(n) \in Nat
    BY <1>3, <2>1
  <2>3. CASE rules[n + 1].key = name
    <3>1. f[n + 1] = Append(f[n], rules[n + 1].value) /\ c(n + 1) = c(n) + 1
      BY <1>2, <1>3, <2>1, <2>3
    <3>2. rules[n + 1].value \in Nat
      BY <1>1, <2>1
    <3>3. /\ f[n + 1] \in Seq(Nat) /\ Len(f[n + 1]) = c(n) + 1
          /\ f[n + 1][c(n) + 1] = rules[n + 1].value
          /\ \A i \in 1..c(n) : f[n + 1][i] = f[n][i]
      BY <2>1, <2>2, <3>1, <3>2
    <3>4. ASSUME NEW j \in 1..(n + 1), rules[j].key = name
          PROVE  c(j - 1) + 1 \in 1..c(n + 1) /\ f[n + 1][c(j - 1) + 1] = rules[j].value
      <4>1. CASE j = n + 1
        <5>1. j - 1 = n
          BY <2>1, <4>1
        <5> QED BY <2>2, <3>1, <3>3, <4>1, <5>1
      <4>2. CASE j # n + 1
        <5>1. j \in 1..n
          BY <2>1, <4>2
        <5>2. c(j - 1) + 1 \in 1..c(n) /\ f[n][c(j - 1) + 1] = rules[j].value
          BY <2>1, <3>4, <5>1
        <5> QED BY <2>2, <3>1, <3>3, <5>2
      <4> QED BY <4>1, <4>2
    <3> QED BY <3>1, <3>3, <3>4
  <2>4. CASE rules[n + 1].key # name
    <3>1. f[n + 1] = f[n] /\ c(n + 1) = c(n)
      BY <1>2, <1>3, <2>1, <2>4
    <3>2. ASSUME NEW j \in 1..(n + 1), rules[j].key = name
          PROVE  c(j - 1) + 1 \in 1..c(n + 1) /\ f[n + 1][c(j - 1) + 1] = rules[j].value
      <4>1. j \in 1..n
        BY <2>1, <2>4, <3>2
      <4>2. c(j - 1) + 1 \in 1..c(n) /\ f[n][c(j - 1) + 1] = rules[j].value
        BY <2>1, <3>2, <4>1
      <4> QED BY <3>1, <4>2
    <3> QED BY <2>1, <3>1, <3>2
  <2> QED BY <2>3, <2>4
<1>6. N \in S
  <2>1. S \in SUBSET Nat
    OBVIOUS
  <2> HIDE DEF S
  <2> QED BY <1>1, <1>4, <1>5, <2>1, SetInduction
<1>7. P(N)
  BY <1>1, <1>6
<1> QED
  BY <1>1, <1>2, <1>7 DEF c

-----------------------------------------------------------------------------
(* The inputs a session builds.                                              *)

\* A layout of signals, and what its circuit takes of them.
LEMMA LayoutFacts ==
  ASSUME NEW l \in Layouts
  PROVE  /\ \A name \in DOMAIN l :
              /\ name \in DOMAIN ArraySize /\ ArraySize[name] \in Nat
              /\ name \in {"timestamp", "issuerPk"} => ArraySize[name] = 0
              /\ l[name] \in Nat \ {0} /\ Width(name) \in Nat \ {0}
              /\ l[name] \in Span(l, name) /\ Span(l, name) \subseteq Positions(l)
         /\ \A m, n \in DOMAIN l : m # n => Span(l, m) \cap Span(l, n) = {}
         /\ Cardinality(Positions(l)) \in Nat /\ Positions(l) = 1..Cardinality(Positions(l))
<1>1. /\ \A name \in DOMAIN l : name \in DOMAIN ArraySize /\ ArraySize[name] \in Nat
      /\ \A m, n \in DOMAIN l : m # n => Span(l, m) \cap Span(l, n) = {}
      /\ IsFiniteSet(Positions(l)) /\ Positions(l) = 1..Cardinality(Positions(l))
      /\ \A name \in {"timestamp", "issuerPk"} \cap DOMAIN ArraySize : ArraySize[name] = 0
  BY SessionsAssumption DEF SessionsAssumption
<1>2. Cardinality(Positions(l)) \in Nat
  BY <1>1, FS_CardinalityType
<1>3. ASSUME NEW name \in DOMAIN l
      PROVE  /\ l[name] \in Nat \ {0} /\ Width(name) \in Nat \ {0}
             /\ l[name] \in Span(l, name) /\ Span(l, name) \subseteq Positions(l)
  <2>1. l[name] \in Nat \ {0}
    BY ProofRequestAssumption DEF ProofRequestAssumption
  <2>2. Width(name) \in Nat \ {0}
    BY <1>1 DEF Width
  <2>3. Span(l, name) \subseteq Positions(l)
    BY DEF Positions
  <2>4. l[name] \in Span(l, name)
    BY <2>1, <2>2 DEF Span
  <2> QED BY <2>1, <2>2, <2>3, <2>4
<1> QED
  BY <1>1, <1>2, <1>3

\* Each signal's values are where the account has the signal.
LEMMA InputAt ==
  ASSUME NEW l \in Layouts, NEW cred, NEW rules, NEW name \in DOMAIN l, NEW i \in Span(l, name)
  PROVE  /\ i \in Positions(l)
         /\ BuildInputs(l, cred, rules)[i] = PublicSignal(name, cred, rules)[i - l[name] + 1]
         /\ i - l[name] + 1 \in 1..Width(name)
<1>1. i \in Positions(l)
  BY LayoutFacts
<1>2. (CHOOSE n \in DOMAIN l : i \in Span(l, n)) = name
  <2>1. \A n \in DOMAIN l : i \in Span(l, n) => n = name
    BY LayoutFacts
  <2> QED BY <2>1
<1>3. i - l[name] + 1 \in 1..Width(name)
  BY LayoutFacts DEF Span
<1> QED
  BY <1>1, <1>2, <1>3 DEF BuildInputs

\* A signal has as many values as it is wide.
LEMMA SignalValues ==
  ASSUME NEW l \in Layouts, NEW cred \in Credentials, NEW rules \in RuleList,
         NEW name \in DOMAIN l, now \in Nat, NEW k \in 1..Width(name)
  PROVE  PublicSignal(name, cred, rules)[k] \in Nat \cup {NoInput}
<1> DEFINE values == RuleValues(rules, name)
           n == ArraySize[name]
<1>1. n \in Nat /\ Width(name) = IF n = 0 THEN 1 ELSE n
  BY LayoutFacts DEF Width
<1>2. values \in Seq(Nat)
  BY RuleValuesAre
<1>3. name \in {"timestamp", "issuerPk"} => k = 1
  BY <1>1, LayoutFacts
<1>4. cred.key \in Nat
  BY SessionsAssumption, ProofRequestAssumption DEF SessionsAssumption, ProofRequestAssumption
<1>5. CASE name \in {"timestamp", "issuerPk"}
  BY <1>3, <1>4, <1>5 DEF PublicSignal
<1>6. CASE name \notin {"timestamp", "issuerPk"}
  <2>1. PublicSignal(name, cred, rules) = PolicySignal(rules, name)
    BY <1>6 DEF PublicSignal
  <2>2. PolicySignal(rules, name) =
          IF values = <<>> \/ (n > 0 /\ Len(values) > n) THEN [i \in 1..Width(name) |-> NoInput]
          ELSE IF n = 0 THEN <<values[1]>>
          ELSE values \o [i \in 1..(n - Len(values)) |-> 0]
    BY DEF PolicySignal
  <2> HIDE DEF values, n
  <2>3. CASE values = <<>> \/ (n > 0 /\ Len(values) > n)
    BY <2>1, <2>2, <2>3
  <2>4. CASE ~(values = <<>> \/ (n > 0 /\ Len(values) > n)) /\ n = 0
    BY <1>1, <1>2, <2>1, <2>2, <2>4
  <2>5. CASE ~(values = <<>> \/ (n > 0 /\ Len(values) > n)) /\ n # 0
    <3> DEFINE pad == [i \in 1..(n - Len(values)) |-> 0]
    <3>1. pad \in Seq(Nat) /\ Len(pad) = n - Len(values)
      BY <1>1, <1>2, <2>5
    <3> HIDE DEF pad
    <3>2. values \o pad \in Seq(Nat) /\ Len(values \o pad) = n
      <4>1. Len(values) \in Nat /\ Len(values) + (n - Len(values)) = n
        BY <1>1, <1>2
      <4>2. values \o pad \in Seq(Nat) /\ Len(values \o pad) = Len(values) + Len(pad)
        BY <1>2, <3>1, ConcatProperties
      <4> QED BY <3>1, <4>1, <4>2
    <3>3. (values \o pad)[k] \in Nat
      BY <1>1, <2>5, <3>2, ElementOfSeq
    <3> QED BY <2>1, <2>2, <2>5, <3>3 DEF pad
  <2> QED BY <2>3, <2>4, <2>5
<1> QED
  BY <1>5, <1>6

\* What the builder lets through is a sequence of numbers, one for each position.
LEMMA InputsTyped ==
  ASSUME NEW l \in Layouts, NEW cred \in Credentials, NEW rules \in RuleList, now \in Nat,
         NEW inputs, inputs = BuildInputs(l, cred, rules),
         \A i \in DOMAIN inputs : inputs[i] # NoInput
  PROVE  inputs \in Seq(Nat) /\ DOMAIN inputs = Positions(l)
<1> DEFINE n == Cardinality(Positions(l))
<1>1. n \in Nat /\ Positions(l) = 1..n
  BY LayoutFacts
<1>2. DOMAIN inputs = Positions(l) /\ inputs = [i \in Positions(l) |-> inputs[i]]
  BY DEF BuildInputs
<1>3. ASSUME NEW i \in Positions(l)
      PROVE  inputs[i] \in Nat
  <2>1. PICK name \in DOMAIN l : i \in Span(l, name)
    BY DEF Positions
  <2>2. /\ inputs[i] = PublicSignal(name, cred, rules)[i - l[name] + 1]
        /\ i - l[name] + 1 \in 1..Width(name)
    BY <2>1, InputAt
  <2>3. inputs[i] \in Nat \cup {NoInput}
    BY <2>2, SignalValues
  <2> QED BY <1>2, <2>3
<1> HIDE DEF n
<1> QED
  BY <1>1, <1>2, <1>3

\* Where the builder and the program read the same out of the rules, a rule finds
\* its own value at the position the program writes it to.
LEMMA RuleFound ==
  ASSUME NEW l \in Layouts, NEW cred, NEW rules \in RuleList, RulesAgree(rules),
         NEW i, NEW j \in RulesAt(l, rules, i)
  PROVE  BuildInputs(l, cred, rules)[i] = rules[j].value
<1> DEFINE name == rules[j].key
           values == RuleValues(rules, name)
           k == Count(rules, name, j - 1) + 1
           n == ArraySize[name]
<1>1. j \in DOMAIN rules /\ name \in DOMAIN l /\ RuleSlot(l, rules, j) = i
  BY DEF RulesAt
<1>2. j \in 1..Len(rules) /\ Len(rules) \in Nat
  BY <1>1 DEF RuleList
<1>3. Count(rules, name, j - 1) \in Nat /\ l[name] \in Nat
  <2>1. j - 1 \in Nat
    BY <1>2
  <2>2. Count(rules, name, j - 1) \in Nat
    <3>1. Counts(rules, name)
      BY Counted
    <3> QED BY <2>1, <3>1 DEF Counts
  <2>3. l[name] \in Nat
    BY <1>1, LayoutFacts
  <2> QED BY <2>2, <2>3
<1>4. i = l[name] + (k - 1)
  <2>1. Count(rules, name, j - 1) = Cardinality({m \in 1..(j - 1) : rules[m].key = rules[j].key})
    BY DEF Count, Named
  <2>2. RuleSlot(l, rules, j) = l[name]
          + Cardinality({m \in 1..(j - 1) : rules[m].key = rules[j].key})
    BY DEF RuleSlot
  <2> HIDE DEF name
  <2> QED BY <1>1, <1>3, <2>1, <2>2
<1>5. values \in Seq(Nat) /\ k \in 1..Len(values) /\ values[k] = rules[j].value
  BY <1>1, RuleValuesAre
<1>6. name \notin {"timestamp", "issuerPk"} /\ Len(values) <= Width(name)
  <2>1. name \in DOMAIN ArraySize
    BY <1>1, LayoutFacts
  <2>2. Len(values) <= IF name \in {"timestamp", "issuerPk"} THEN 0 ELSE Width(name)
    BY <2>1 DEF RulesAgree
  <2> HIDE DEF k, values, name
  <2>3. Len(values) > 0
    BY <1>5
  <2> QED BY <1>5, <2>2, <2>3
<1>7. n \in Nat /\ Width(name) = IF n = 0 THEN 1 ELSE n
  BY <1>1, LayoutFacts DEF Width
<1> HIDE DEF k, values
<1>8. PolicySignal(rules, name)[k] = rules[j].value
  <2>1. PolicySignal(rules, name) =
          IF values = <<>> \/ (n > 0 /\ Len(values) > n) THEN [x \in 1..Width(name) |-> NoInput]
          ELSE IF n = 0 THEN <<values[1]>>
          ELSE values \o [x \in 1..(n - Len(values)) |-> 0]
    BY DEF PolicySignal, values
  <2>2. values # <<>> /\ ~(n > 0 /\ Len(values) > n)
    <3>1. Len(values) # 0
      BY <1>5
    <3>2. Len(<<>>) = 0
      OBVIOUS
    <3> HIDE DEF name, n
    <3> QED BY <1>5, <1>6, <1>7, <3>1, <3>2
  <2> HIDE DEF name, n
  <2>3. CASE n = 0
    <3>1. k = 1
      BY <1>5, <1>6, <1>7, <2>3
    <3> QED BY <1>5, <2>1, <2>2, <2>3, <3>1
  <2>4. CASE n # 0
    <3> DEFINE pad == [x \in 1..(n - Len(values)) |-> 0]
    <3>1. pad \in Seq(Nat)
      BY <1>5, <1>6, <1>7, <2>4
    <3> HIDE DEF pad
    <3>2. (values \o pad)[k] = values[k]
      BY <1>5, <3>1, ConcatProperties
    <3>3. PolicySignal(rules, name) = values \o pad
      BY <2>1, <2>2, <2>4 DEF pad
    <3> QED BY <1>5, <3>2, <3>3
  <2> QED BY <2>3, <2>4
<1>9. i \in Span(l, name) /\ i - l[name] + 1 = k
  BY <1>3, <1>4, <1>5, <1>6, <1>7 DEF Span
<1>10. PublicSignal(name, cred, rules) = PolicySignal(rules, name)
  BY <1>6 DEF PublicSignal
<1>11. BuildInputs(l, cred, rules)[i] = PublicSignal(name, cred, rules)[i - l[name] + 1]
  BY <1>1, <1>9, InputAt
<1> QED
  BY <1>8, <1>9, <1>10, <1>11

\* Then the program changes nothing of what the builder built.
LEMMA InputsStay ==
  ASSUME NEW l \in Layouts, NEW cred \in Credentials, NEW rules \in RuleList, now \in Nat,
         NEW inputs, inputs = BuildInputs(l, cred, rules), NEW iss,
         \A i \in DOMAIN inputs : inputs[i] # NoInput,
         "issuerPk" \in DOMAIN l => issuer[iss].zk_pubkey = cred.key,
         RulesAgree(rules)
  PROVE  ApplyRules(BindIssuer(inputs, l, iss), l, rules) = inputs
<1>1. inputs \in Seq(Nat) /\ DOMAIN inputs = Positions(l)
  BY InputsTyped
<1>2. BindIssuer(inputs, l, iss) = inputs
  <2> SUFFICES ASSUME "issuerPk" \in DOMAIN l PROVE BindIssuer(inputs, l, iss) = inputs
    BY DEF BindIssuer
  <2> DEFINE i == l["issuerPk"]
  <2>1. i \in Span(l, "issuerPk") /\ i \in Nat
    BY LayoutFacts
  <2>2. inputs[i] = PublicSignal("issuerPk", cred, rules)[i - l["issuerPk"] + 1]
    BY <2>1, InputAt
  <2>3. inputs[i] = cred.key
    BY <2>1, <2>2 DEF PublicSignal
  <2>4. BindIssuer(inputs, l, iss) = [inputs EXCEPT ![i] = issuer[iss].zk_pubkey]
    BY DEF BindIssuer
  <2> HIDE DEF i
  <2> QED BY <1>1, <2>3, <2>4
<1>3. ApplyRules(inputs, l, rules) = inputs
  <2>1. ASSUME NEW i \in DOMAIN inputs, RulesAt(l, rules, i) # {}
        PROVE  rules[LastOf(RulesAt(l, rules, i))].value = inputs[i]
    <3> DEFINE S == RulesAt(l, rules, i)
    <3>1. Len(rules) \in Nat /\ S \subseteq 1..Len(rules)
      BY DEF RulesAt, RuleList
    <3>2. LastOf(S) \in S
      <4> HIDE DEF S
      <4>1. S # {}
        BY <2>1 DEF S
      <4> QED BY <3>1, <4>1, LastOfMember
    <3>3. PICK j \in S : j = LastOf(S)
      BY <3>2
    <3> QED BY <3>3, RuleFound
  <2>2. ApplyRules(inputs, l, rules) = [i \in DOMAIN inputs |-> inputs[i]]
    BY <2>1 DEF ApplyRules
  <2> QED BY <1>1, <2>2
<1> QED
  BY <1>2, <1>3

-----------------------------------------------------------------------------
(* The transactions of a proof session.                                      *)

\* The inputs that go first, in their chunks, and those beside the proof.
FrontOf(inputs) == SubSeq(inputs, 1, Len(inputs) - WithProof)
LastPart(inputs) ==
  IF Len(inputs) > WithProof
  THEN SubSeq(inputs, Len(inputs) - WithProof + 1, Len(inputs)) ELSE inputs
Firsts(inputs) == ChunkCount(FrontOf(inputs), WithoutProof)
\* The inputs the k-th transaction carries, and those the first k carry.
InputPart(inputs, k) ==
  IF k <= Firsts(inputs) THEN ChunksOf(FrontOf(inputs), WithoutProof)[k] ELSE LastPart(inputs)
InputsSent(inputs, k) ==
  IF k <= Firsts(inputs)
  THEN SubSeq(FrontOf(inputs), 1, Upto(Len(FrontOf(inputs)), WithoutProof, k)) ELSE inputs

\* The inputs are those that go first and those beside the proof.
LEMMA FrontAndLast ==
  ASSUME NEW inputs \in Seq(Nat)
  PROVE  /\ FrontOf(inputs) \in Seq(Nat) /\ LastPart(inputs) \in Seq(Nat)
         /\ (Len(FrontOf(inputs)) = 0) = (Len(inputs) <= WithProof)
         /\ FrontOf(inputs) \o LastPart(inputs) = inputs
<1> DEFINE n == Len(inputs)
           f == FrontOf(inputs)
           l == LastPart(inputs)
<1>1. n \in Nat /\ WithProof \in Nat \ {0}
  BY SessionsAssumption DEF SessionsAssumption
<1>2. f = SubSeq(inputs, 1, n - WithProof)
  BY DEF FrontOf
<1>3. l = IF n > WithProof THEN SubSeq(inputs, n - WithProof + 1, n) ELSE inputs
  BY DEF LastPart
<1>4. CASE n > WithProof
  <2> DEFINE a == n - WithProof
  <2>1. a \in Nat \ {0} /\ a <= n /\ n <= Len(inputs)
    BY <1>1, <1>4
  <2>2. f = SubSeq(inputs, 1, a) /\ l = SubSeq(inputs, a + 1, n)
    BY <1>2, <1>3, <1>4
  <2>3. SubSeq(inputs, 1, n) = inputs
    BY SubSeqFull
  <2> HIDE DEF a, f, l, n
  <2>4. /\ SubSeq(inputs, 1, a) \in Seq(Nat) /\ SubSeq(inputs, a + 1, n) \in Seq(Nat)
        /\ Len(SubSeq(inputs, 1, a)) = a
        /\ SubSeq(inputs, 1, a) \o SubSeq(inputs, a + 1, n) = SubSeq(inputs, 1, n)
    BY <1>1, <2>1, Between
  <2>5. Len(f) # 0 /\ ~(n <= WithProof)
    BY <1>1, <1>4, <2>1, <2>2, <2>4
  <2>6. f \in Seq(Nat) /\ l \in Seq(Nat) /\ f \o l = inputs
    BY <2>2, <2>3, <2>4
  <2> QED BY <2>5, <2>6 DEF f, l, n
<1>5. CASE ~(n > WithProof)
  <2>1. f = <<>>
    BY <1>1, <1>2, <1>5, SubSeqEmpty
  <2>2. l = inputs
    BY <1>3, <1>5
  <2>3. Len(<<>>) = 0 /\ <<>> \in Seq(Nat)
    OBVIOUS
  <2>4. <<>> \o inputs = inputs
    BY ConcatEmptySeq
  <2>5. n <= WithProof
    BY <1>1, <1>5
  <2> HIDE DEF f, l
  <2> QED BY <2>1, <2>2, <2>3, <2>4, <2>5 DEF f, l
<1> QED
  BY <1>4, <1>5

\* Put together in the order they go, the parts are the inputs.
LEMMA InputParts ==
  ASSUME NEW inputs \in Seq(Nat)
  PROVE  /\ Firsts(inputs) \in Nat
         /\ (Firsts(inputs) = 0) = (Len(inputs) <= WithProof)
         /\ InputPart(inputs, 1) = InputsSent(inputs, 1)
         /\ \A k \in 1..Firsts(inputs) :
              InputsSent(inputs, k) \o InputPart(inputs, k + 1) = InputsSent(inputs, k + 1)
         /\ InputsSent(inputs, Firsts(inputs) + 1) = inputs
         /\ \A k \in 1..(Firsts(inputs) + 1) : InputPart(inputs, k) \in Seq(Nat)
<1> DEFINE s == FrontOf(inputs)
           l == LastPart(inputs)
           q == Firsts(inputs)
           up(k) == Upto(Len(s), WithoutProof, k)
           chunk(k) == ChunksOf(s, WithoutProof)[k]
<1>1. /\ s \in Seq(Nat) /\ l \in Seq(Nat) /\ s \o l = inputs
      /\ (Len(s) = 0) = (Len(inputs) <= WithProof)
  BY FrontAndLast
<1>2. /\ q \in Nat
      /\ \A i \in 1..q : /\ chunk(i) \in Seq(Nat) /\ chunk(i) # <<>>
                         /\ SubSeq(s, 1, up(i - 1)) \o chunk(i) = SubSeq(s, 1, up(i))
      /\ \A i \in 0..q : up(i) \in 0..Len(s)
      /\ up(0) = 0 /\ up(q) = Len(s)
  <2>1. q = ChunkCount(s, WithoutProof)
    BY DEF Firsts
  <2>2. WithoutProof \in Nat \ {0}
    BY SessionsAssumption DEF SessionsAssumption
  <2> HIDE DEF s, q
  <2> QED BY <1>1, <2>1, <2>2, ChunkList
<1>3. \A k \in 1..q : InputPart(inputs, k) = chunk(k) /\ InputsSent(inputs, k) = SubSeq(s, 1, up(k))
  BY <1>2 DEF InputPart, InputsSent
<1>4. InputPart(inputs, q + 1) = l /\ InputsSent(inputs, q + 1) = inputs
  <2>1. ~(q + 1 <= q)
    BY <1>2
  <2> QED BY <2>1 DEF InputPart, InputsSent
<1> HIDE DEF s, l, q, up, chunk
<1>5. SubSeq(s, 1, up(0)) = <<>> /\ SubSeq(s, 1, up(q)) = s
  <2>1. SubSeq(s, 1, 0) = <<>>
    BY <1>1, SubSeqEmpty
  <2>2. SubSeq(s, 1, Len(s)) = s
    BY <1>1, SubSeqFull
  <2> QED BY <1>2, <2>1, <2>2
<1>6. (q = 0) = (Len(s) = 0)
  <2>1. ASSUME q = 0 PROVE Len(s) = 0
    BY <1>2, <2>1
  <2>2. ASSUME q # 0, Len(s) = 0 PROVE FALSE
    <3>1. 1 \in 1..q /\ 1 \in 0..q /\ 0 \in 0..q /\ 1 - 1 = 0
      BY <1>2, <2>2
    <3>2. up(1) = 0 /\ up(0) = 0
      BY <1>2, <2>2, <3>1
    <3>3. <<>> \o chunk(1) = <<>> /\ chunk(1) \in Seq(Nat) /\ chunk(1) # <<>>
      BY <1>2, <1>5, <3>1, <3>2
    <3> QED BY <3>3, ConcatEmptySeq
  <2> QED BY <2>1, <2>2
<1>7. InputPart(inputs, 1) = InputsSent(inputs, 1)
  <2>1. CASE q = 0
    <3>1. s = <<>>
      <4>1. Len(s) = 0
        BY <1>6, <2>1
      <4> QED BY <1>1, <4>1, EmptySeq
    <3>2. l = inputs
      BY <1>1, <3>1, ConcatEmptySeq
    <3> QED BY <1>4, <2>1, <3>2
  <2>2. CASE q # 0
    <3>1. 1 \in 1..q /\ 1 - 1 = 0
      BY <1>2, <2>2
    <3>2. <<>> \o chunk(1) = SubSeq(s, 1, up(1)) /\ chunk(1) \in Seq(Nat)
      BY <1>2, <1>5, <3>1
    <3> QED BY <1>3, <3>1, <3>2, ConcatEmptySeq
  <2> QED BY <2>1, <2>2
<1>8. ASSUME NEW k \in 1..q
      PROVE  InputsSent(inputs, k) \o InputPart(inputs, k + 1) = InputsSent(inputs, k + 1)
  <2>1. CASE k = q
    BY <1>1, <1>3, <1>4, <1>5, <2>1
  <2>2. CASE k # q
    <3>1. k + 1 \in 1..q /\ (k + 1) - 1 = k
      BY <1>2, <2>2
    <3> QED BY <1>2, <1>3, <3>1
  <2> QED BY <2>1, <2>2
<1>9. ASSUME NEW k \in 1..(q + 1)
      PROVE  InputPart(inputs, k) \in Seq(Nat)
  <2>1. k \in 1..q \/ k = q + 1
    BY <1>2
  <2> QED BY <1>1, <1>2, <1>3, <1>4, <2>1
<1> QED
  BY <1>1, <1>2, <1>4, <1>6, <1>7, <1>8, <1>9 DEF q

ProofIx(r, inputs, proof, iss, k) ==
  ProveIx(r, InputPart(inputs, k), IF k <= Firsts(inputs) THEN None ELSE proof, k = 1,
          IF k <= Firsts(inputs) THEN None ELSE iss)
ProofSteps(inputs, verify) == Firsts(inputs) + 1 + (IF verify THEN 1 ELSE 0)
SessionIx(r, inputs, proof, iss, k) ==
  IF k <= Firsts(inputs) + 1 THEN ProofIx(r, inputs, proof, iss, k) ELSE VerifyIx(r)

\* A session is one transaction for each part of the inputs, in their order, the
\* last with the proof, and where it is asked for one to verify it.
LEMMA ProofTxs ==
  ASSUME NEW r, NEW inputs \in Seq(Nat), NEW proof, NEW iss, NEW verify \in BOOLEAN
  PROVE  ProveTxs(r, inputs, proof, iss, verify) =
           [k \in 1..ProofSteps(inputs, verify) |-> <<SessionIx(r, inputs, proof, iss, k)>>]
<1> DEFINE n == Len(inputs)
           q == Firsts(inputs)
           early == IF n > WithProof
                    THEN ChunksOf(SubSeq(inputs, 1, n - WithProof), WithoutProof) ELSE <<>>
           last == IF n > WithProof THEN SubSeq(inputs, n - WithProof + 1, n) ELSE inputs
           first == [i \in DOMAIN early |-> <<ProveIx(r, early[i], None, Reset(i), None)>>]
           with == <<ProveIx(r, last, proof, n <= WithProof, iss)>>
           list == [k \in 1..(q + 1) |-> <<ProofIx(r, inputs, proof, iss, k)>>]
           verifying == <<VerifyIx(r)>>
           X == {<<SessionIx(r, inputs, proof, iss, k)>> : k \in 1..(q + 2)}
<1>1. n \in Nat /\ q \in Nat /\ (q = 0) = (n <= WithProof) /\ WithProof \in Nat
  BY InputParts, SessionsAssumption DEF SessionsAssumption
<1>2. /\ DOMAIN early = 1..q
      /\ \A i \in 1..q : early[i] = InputPart(inputs, i)
  <2>1. CASE n > WithProof
    <3> DEFINE s == FrontOf(inputs)
    <3>1. early = ChunksOf(s, WithoutProof)
      BY <2>1 DEF FrontOf
    <3>2. ChunksOf(s, WithoutProof) = [i \in 1..q |-> ChunksOf(s, WithoutProof)[i]]
      <4>1. s \in Seq(Nat) /\ WithoutProof \in Nat \ {0} /\ q = ChunkCount(s, WithoutProof)
        BY FrontAndLast, SessionsAssumption DEF SessionsAssumption, Firsts
      <4> HIDE DEF s, q
      <4> QED BY <4>1, ChunkList
    <3>3. \A i \in 1..q : InputPart(inputs, i) = ChunksOf(s, WithoutProof)[i]
      BY <1>1 DEF InputPart
    <3> HIDE DEF s, q, early
    <3> QED BY <3>1, <3>2, <3>3
  <2>2. CASE ~(n > WithProof)
    <3>1. early = <<>> /\ q = 0
      BY <1>1, <2>2
    <3> HIDE DEF early, q
    <3> QED BY <3>1
  <2> QED BY <2>1, <2>2
<1>3. last = InputPart(inputs, q + 1)
  <2>1. ~(q + 1 <= q)
    BY <1>1
  <2> QED BY <2>1 DEF InputPart, LastPart
<1>4. Append(first, with) = list
  <2>1. first = [i \in 1..q |-> <<ProofIx(r, inputs, proof, iss, i)>>]
    <3>1. \A i \in 1..q : ProveIx(r, early[i], None, Reset(i), None)
                            = ProofIx(r, inputs, proof, iss, i)
      <4> HIDE DEF early
      <4> QED BY <1>1, <1>2 DEF ProofIx, Reset, ResetFirst
    <3> HIDE DEF early
    <3> QED BY <1>2, <3>1
  <2>2. with = <<ProofIx(r, inputs, proof, iss, q + 1)>>
    <3>1. ~(q + 1 <= q)
      BY <1>1
    <3>2. (n <= WithProof) = (q + 1 = 1)
      BY <1>1
    <3> HIDE DEF last
    <3> QED BY <1>3, <3>1, <3>2 DEF ProofIx
  <2> HIDE DEF first, with, q
  <2>3. Append(first, with) = [k \in 1..(q + 1) |-> IF k = q + 1 THEN with ELSE first[k]]
    BY <1>1, <2>1
  <2>4. \A k \in 1..(q + 1) : (IF k = q + 1 THEN with ELSE first[k])
                                = <<ProofIx(r, inputs, proof, iss, k)>>
    BY <1>1, <2>1, <2>2
  <2> QED BY <2>3, <2>4
<1>5. /\ \A k \in 1..(q + 1) : ProofIx(r, inputs, proof, iss, k) = SessionIx(r, inputs, proof, iss, k)
      /\ VerifyIx(r) = SessionIx(r, inputs, proof, iss, q + 2)
  <2>1. ~(q + 2 <= q + 1)
    BY <1>1
  <2> QED BY <1>1, <2>1 DEF SessionIx
<1> HIDE DEF first, with, early, last
<1>6. list \in Seq(X) /\ list # <<>> /\ list[1] # <<>> /\ <<>> \notin X /\ verifying \in X
      /\ Len(list) = q + 1
  <2>1. \A k \in 1..(q + 1) : list[k] \in X
    BY <1>1, <1>5
  <2>2. list = [k \in 1..(q + 1) |-> list[k]]
    OBVIOUS
  <2>3. list[1] # <<>>
    BY <1>1
  <2>4. verifying \in X
    BY <1>1, <1>5
  <2>5. <<>> \notin X
    OBVIOUS
  <2> HIDE DEF list, X, q
  <2>6. list \in Seq(X) /\ Len(list) = q + 1
    <3>1. q + 1 \in Nat
      BY <1>1
    <3> QED BY <2>1, <2>2, <3>1
  <2>7. Len(list) # 0 /\ Len(<<>>) = 0
    BY <1>1, <2>6
  <2> QED BY <2>3, <2>4, <2>5, <2>6, <2>7
<1>7. AddTransactions(NewBuilder, list) = list
  <2> HIDE DEF list, X
  <2> QED BY <1>6, BuilderKeeps
<1>8. ProveTxs(r, inputs, proof, iss, verify)
        = SendAll(IF verify THEN AddTransaction(list, verifying) ELSE list)
  <2>1. ProveTxs(r, inputs, proof, iss, verify)
          = SendAll(IF verify THEN AddTransaction(AddTransactions(NewBuilder, Append(first, with)),
                                                  <<VerifyIx(r)>>)
                    ELSE AddTransactions(NewBuilder, Append(first, with)))
    BY DEF ProveTxs, first, with, early, last
  <2> HIDE DEF list
  <2> QED BY <1>4, <1>7, <2>1
<1>9. CASE verify
  <2>1. AddTransaction(list, verifying) = Append(list, verifying)
    <3> HIDE DEF list
    <3> QED BY <1>6 DEF AddTransaction
  <2>2. Append(list, verifying) \in Seq(X)
    <3> HIDE DEF list, X, verifying
    <3> QED BY <1>6, AppendProperties
  <2>3. SendAll(Append(list, verifying)) = Append(list, verifying)
    <3> HIDE DEF list, X, verifying
    <3> QED BY <1>6, <2>2, AllSent
  <2>4. ProofSteps(inputs, verify) = q + 2
    BY <1>1, <1>9 DEF ProofSteps
  <2>5. Append(list, verifying) = [k \in 1..(q + 2) |-> <<SessionIx(r, inputs, proof, iss, k)>>]
    <3>1. list = [k \in 1..(q + 1) |-> <<SessionIx(r, inputs, proof, iss, k)>>]
      BY <1>5
    <3>2. verifying = <<SessionIx(r, inputs, proof, iss, q + 2)>>
      BY <1>5
    <3> HIDE DEF list, X, verifying, q
    <3>3. Append(list, verifying) = [k \in 1..(q + 2) |-> IF k = q + 2 THEN verifying ELSE list[k]]
      BY <1>1, <3>1
    <3>4. \A k \in 1..(q + 2) : (IF k = q + 2 THEN verifying ELSE list[k])
                                  = <<SessionIx(r, inputs, proof, iss, k)>>
      BY <1>1, <3>1, <3>2
    <3> QED BY <3>3, <3>4
  <2> QED BY <1>8, <1>9, <2>1, <2>3, <2>4, <2>5
<1>10. CASE ~verify
  <2>1. SendAll(list) = list
    <3> HIDE DEF list, X
    <3> QED BY <1>6, AllSent
  <2>2. ProofSteps(inputs, verify) = q + 1
    BY <1>1, <1>10 DEF ProofSteps
  <2>3. list = [k \in 1..(q + 1) |-> <<SessionIx(r, inputs, proof, iss, k)>>]
    BY <1>5
  <2> QED BY <1>8, <1>10, <2>1, <2>2, <2>3
<1> QED
  BY <1>9, <1>10

\* What is left of a list from k on: its head, its tail, and whether it is the last.
FromOn(list, k) == SubSeq(list, k, Len(list))

\* The head and the tail of what is left.
LEMMA RestOfList ==
  ASSUME NEW X, NEW list \in Seq(X), NEW k \in 1..Len(list)
  PROVE  /\ FromOn(list, k)[1] = list[k]
         /\ Tail(FromOn(list, k)) = FromOn(list, k + 1)
         /\ (Len(FromOn(list, k)) = 1) = (k = Len(list))
<1> DEFINE N == Len(list)
           rest == FromOn(list, k)
<1>1. N \in Nat /\ k \in 1..N /\ k <= N
  OBVIOUS
<1>2. rest = SubSeq(list, k, N) /\ FromOn(list, k + 1) = SubSeq(list, k + 1, N)
  BY DEF FromOn
<1> HIDE DEF rest
<1>3. \A i \in k..N : list[i] \in X
  BY <1>1, ElementOfSeq
<1>4. rest \in Seq(X) /\ Len(rest) = N - k + 1
      /\ \A i \in 1..(N - k + 1) : rest[i] = list[k + i - 1]
  BY <1>1, <1>2, <1>3, SubSeqProperties
<1>5. Tail(rest) = SubSeq(list, k + 1, N)
  BY <1>1, <1>2, HeadTailOfSubSeq
<1>6. rest[1] = list[k]
  <2>1. 1 \in 1..(N - k + 1) /\ k + 1 - 1 = k
    BY <1>1
  <2> QED BY <1>4, <2>1
<1>7. (Len(rest) = 1) = (k = N)
  BY <1>1, <1>4
<1> QED
  BY <1>2, <1>5, <1>6, <1>7 DEF rest

-----------------------------------------------------------------------------
(* What the accounts a session reads look like.                              *)

PolicyNames ==
  {"circuit", "rules", "expiration_period", "retention_period", "proof_request_count"}
PolicyShape(a) ==
  /\ a = [n \in PolicyNames |-> a[n]]
  /\ a.circuit \in Circuits /\ a.rules \in RuleList

Typed ==
  /\ now \in Nat
  /\ policy = [p \in Policies |-> policy[p]]
  /\ \A p \in Policies : policy[p] # Closed => PolicyShape(policy[p])
  /\ \A c \in Circuits : circuit[c] # Closed =>
       circuit[c].signals \in Layouts /\ circuit[c].vk.head \in VkVersions \cup {None}
  /\ \A r \in Requests : request[r] # Closed => request[r].circuit \in Circuits

LEMMA TypedSame ==
  ASSUME Typed, UNCHANGED <<now, policy, circuit, request>>
  PROVE  Typed'
BY DEF Typed, PolicyShape

\* One policy is written, the rest stays.
LEMMA TypedPolicy ==
  ASSUME Typed, NEW p, NEW a, p \in Policies => PolicyShape(a) \/ a = Closed,
         policy' = [policy EXCEPT ![p] = a], UNCHANGED <<now, circuit, request>>
  PROVE  Typed'
<1>1. policy' = [x \in Policies |-> policy'[x]]
      /\ \A x \in Policies : policy'[x] = IF x = p THEN a ELSE policy[x]
  BY DEF Typed
<1>2. ASSUME NEW x \in Policies, policy'[x] # Closed
      PROVE  PolicyShape(policy'[x])
  BY <1>1, <1>2 DEF Typed
<1>3. \A x \in Policies : (policy[x] # Closed => PolicyShape(policy[x]))'
  BY <1>2 DEF PolicyShape
<1> QED
  BY <1>1, <1>3 DEF Typed

\* One request is written, the rest stays.
LEMMA TypedRequest ==
  ASSUME Shape, Typed, NEW r, NEW q, r \in Requests => q = Closed \/ q.circuit \in Circuits,
         request' = [request EXCEPT ![r] = q], UNCHANGED <<now, circuit, policy>>
  PROVE  Typed'
<1>1. \A x \in Requests : request'[x] = IF x = r THEN q ELSE request[x]
  BY DEF Shape
<1>2. \A x \in Requests : request'[x] # Closed => request'[x].circuit \in Circuits
  BY <1>1 DEF Typed
<1>3. \A x \in Policies : (policy[x] # Closed => PolicyShape(policy[x]))'
  BY DEF Typed, PolicyShape
<1> QED
  BY <1>2, <1>3 DEF Typed

-----------------------------------------------------------------------------
(* What the handlers of a session write.                                     *)

RulesNow(r) == IF policy[PolicyOf(r)] = Closed THEN None ELSE policy[PolicyOf(r)].rules
SignalsNow(r) == circuit[request[r].circuit].signals

\* A transaction without the proof adds its inputs, or begins anew.
LEMMA ExtendedFields ==
  ASSUME NEW q, Fields(q), NEW part \in Seq(Nat), NEW reset \in BOOLEAN
  PROVE  /\ Fields(Extended(q, part, reset))
         /\ Extended(q, part, reset).circuit = q.circuit
         /\ Extended(q, part, reset).public_inputs =
              IF reset THEN part ELSE q.public_inputs \o part
<1>1. CASE reset
  <2> DEFINE base == ResetRequest(q)
  <2>1. Fields(base) /\ base.circuit = q.circuit /\ base.public_inputs = <<>>
    BY DEF Fields, Names, ResetRequest
  <2>2. Extended(q, part, reset) = [base EXCEPT !.public_inputs = base.public_inputs \o part]
    BY <1>1 DEF Extended
  <2>3. <<>> \o part = part
    BY ConcatEmptySeq
  <2> HIDE DEF base
  <2> QED BY <1>1, <2>1, <2>2, <2>3 DEF Fields, Names
<1>2. CASE ~reset
  <2>1. Extended(q, part, reset) = [q EXCEPT !.public_inputs = q.public_inputs \o part]
    BY <1>2 DEF Extended
  <2> QED BY <1>2, <2>1 DEF Fields, Names
<1> QED
  BY <1>1, <1>2

\* One with the proof has the program write its own values over them.
LEMMA ProvenFields ==
  ASSUME NEW q, Fields(q), NEW proof, NEW l, NEW rules, NEW iss
  PROVE  /\ Proven(q, proof, l, rules, iss).circuit = q.circuit
         /\ Proven(q, proof, l, rules, iss).public_inputs =
              ApplyRules(BindIssuer(q.public_inputs, l, iss), l, rules)
         /\ Proven(q, proof, l, rules, iss).proof = proof
         /\ Proven(q, proof, l, rules, iss).status = "Proved"
<1> DEFINE new == ApplyRules(BindIssuer(q.public_inputs, l, iss), l, rules)
           expiry == CappedExpiry(q.expired_at, q.public_inputs, l)
           iss2 == IF "issuerPk" \in DOMAIN l THEN iss ELSE None
<1>1. Proven(q, proof, l, rules, iss) =
        [q EXCEPT !.status = "Proved", !.proved_at = now, !.proof = proof,
                  !.expired_at = expiry, !.issuer = iss2, !.public_inputs = new]
  BY DEF Proven, ProvenStatus
<1> HIDE DEF new, expiry, iss2
<1> QED
  BY <1>1 DEF Fields, Names, new

\* A transaction of a session: inputs alone, or the rest of them and the proof.
LEMMA ProveEffect ==
  ASSUME Shape, NEW w, NEW r \in Requests, NEW part \in Seq(Nat), NEW proof,
         NEW reset \in BOOLEAN, NEW iss, ProveProofRequest(w, r, part, proof, reset, iss)
  PROVE  /\ request'[r].circuit = request[r].circuit
         /\ proof = None => request'[r].public_inputs =
              IF reset THEN part ELSE request[r].public_inputs \o part
         /\ proof # None =>
              /\ request'[r].public_inputs =
                   ApplyRules(BindIssuer(IF reset THEN part ELSE request[r].public_inputs \o part,
                                         SignalsNow(r), iss),
                              SignalsNow(r), RulesNow(r))
              /\ request'[r].proof = proof /\ request'[r].status = "Proved"
<1> DEFINE ext == Extended(request[r], part, reset)
           rules == policy[PolicyOf(r)].rules
           pro == Proven(ext, proof, SignalsNow(r), rules, iss)
<1>1. request[r] # Closed /\ policy[PolicyOf(r)] # Closed
  BY DEF ProveProofRequest
<1>2. /\ proof = None => request' = [request EXCEPT ![r] = ext]
      /\ proof # None => request' = [request EXCEPT ![r] = pro]
  BY DEF ProveProofRequest, SignalsNow
<1>3. Fields(request[r])
  BY <1>1 DEF Shape
<1>4. /\ Fields(ext) /\ ext.circuit = request[r].circuit
      /\ ext.public_inputs = IF reset THEN part ELSE request[r].public_inputs \o part
  BY <1>3, ExtendedFields
<1>5. RulesNow(r) = rules
  BY <1>1 DEF RulesNow
<1> HIDE DEF ext, rules
<1>6. /\ pro.circuit = ext.circuit
      /\ pro.public_inputs =
           ApplyRules(BindIssuer(ext.public_inputs, SignalsNow(r), iss), SignalsNow(r), rules)
      /\ pro.proof = proof /\ pro.status = "Proved"
  BY <1>4, ProvenFields
<1> HIDE DEF pro
<1>7. /\ proof = None => request'[r] = ext
      /\ proof # None => request'[r] = pro
  BY <1>2 DEF Shape
<1> QED
  BY <1>4, <1>5, <1>6, <1>7

\* The one that verifies leaves inputs and proof alone.
LEMMA VerifyEffect ==
  ASSUME Shape, NEW r \in Requests, VerifyProofRequest(r)
  PROVE  /\ request'[r].circuit = request[r].circuit
         /\ request'[r].public_inputs = request[r].public_inputs
         /\ request'[r].proof = request[r].proof
         /\ request'[r].status = "Verified"
<1> DEFINE q == [request[r] EXCEPT !.status = "Verified", !.verified_at = now]
<1>1. request' = [request EXCEPT ![r] = q]
  BY DEF VerifyProofRequest, Shape
<1>2. Fields(request[r])
  BY DEF VerifyProofRequest, Shape
<1>3. request'[r] = q
  BY <1>1 DEF Shape
<1> QED
  BY <1>2, <1>3 DEF Fields, Names

-----------------------------------------------------------------------------
(* Every step keeps them so.                                                 *)

LEMMA ProveTyped ==
  ASSUME Shape, Typed, NEW w, NEW r, NEW part, NEW proof, NEW reset, NEW iss,
         ProveProofRequest(w, r, part, proof, reset, iss)
  PROVE  Typed'
<1> DEFINE signals == circuit[request[r].circuit].signals
           rules == policy[PolicyOf(r)].rules
           ext == Extended(request[r], part, reset)
           pro == Proven(ext, proof, signals, rules, iss)
<1>1. \/ request' = [request EXCEPT ![r] = ext]
      \/ request' = [request EXCEPT ![r] = pro]
  BY DEF ProveProofRequest
<1>2. UNCHANGED <<now, circuit, policy>>
  BY DEF ProveProofRequest, registryVars
<1> SUFFICES ASSUME r \in Requests PROVE ext.circuit \in Circuits /\ pro.circuit \in Circuits
  <2> HIDE DEF ext, pro
  <2> QED BY <1>1, <1>2, TypedRequest
<1>3. Fields(request[r]) /\ request[r].circuit \in Circuits
  BY DEF ProveProofRequest, Shape, Typed
<1>4. Fields(ext) /\ ext.circuit = request[r].circuit
  BY <1>3 DEF Fields, Names, Extended, ResetRequest
<1> HIDE DEF ext, rules, signals
<1>5. pro.circuit = ext.circuit
  BY <1>4, ProvenFields
<1> QED
  BY <1>3, <1>4, <1>5

LEMMA JudgeTyped ==
  ASSUME Shape, Typed, NEW r, NEW status,
         request[r] # Closed, UNCHANGED <<now, circuit, policy>>,
         request' = [request EXCEPT ![r].status = status, ![r].verified_at = now]
  PROVE  Typed'
<1> DEFINE q == [request[r] EXCEPT !.status = status, !.verified_at = now]
<1>1. request' = [request EXCEPT ![r] = q]
  BY DEF Shape
<1>2. r \in Requests => q.circuit \in Circuits
  <2> SUFFICES ASSUME r \in Requests PROVE q.circuit \in Circuits
    OBVIOUS
  <2>1. Fields(request[r]) /\ request[r].circuit \in Circuits
    BY DEF Shape, Typed
  <2> QED BY <2>1 DEF Fields, Names
<1> HIDE DEF q
<1> QED
  BY <1>1, <1>2, TypedRequest

LEMMA UploadTyped ==
  ASSUME CircuitShape, Typed, NEW w, NEW c, NEW head \in VkVersions \cup {None}, NEW ic, NEW extend,
         UpdateCircuitVk(w, c, head, ic, extend), UNCHANGED requestVars
  PROVE  Typed'
<1> DEFINE vk == [head |-> OrElse(head, circuit[c].vk.head),
                  ic |-> IF extend THEN circuit[c].vk.ic \o ic ELSE ic]
           new == [circuit[c] EXCEPT !.vk = vk]
<1>1. circuit[c] # Closed /\ circuit' = [circuit EXCEPT ![c] = new]
  BY DEF UpdateCircuitVk
<1>2. UNCHANGED <<now, policy, request>>
  BY DEF UpdateCircuitVk, requestVars
<1>3. c \in Circuits => new.signals = circuit[c].signals /\ new.vk.head \in VkVersions \cup {None}
  <2> SUFFICES ASSUME c \in Circuits
               PROVE  new.signals = circuit[c].signals /\ new.vk.head \in VkVersions \cup {None}
    OBVIOUS
  <2>1. vk.head \in VkVersions \cup {None}
    BY <1>1 DEF Typed, OrElse
  <2> HIDE DEF vk
  <2>2. new.signals = circuit[c].signals /\ new.vk = vk
    BY <1>1 DEF CircuitShape
  <2> QED BY <2>1, <2>2
<1> HIDE DEF new
<1>4. \A x \in Circuits : circuit'[x] = IF x = c THEN new ELSE circuit[x]
  BY <1>1 DEF CircuitShape
<1>5. \A x \in Circuits : (circuit[x] # Closed =>
         circuit[x].signals \in Layouts /\ circuit[x].vk.head \in VkVersions \cup {None})'
  BY <1>1, <1>3, <1>4 DEF Typed
<1>6. \A x \in Policies : (policy[x] # Closed => PolicyShape(policy[x]))'
  BY <1>2 DEF Typed, PolicyShape
<1> QED
  BY <1>2, <1>5, <1>6 DEF Typed

LEMMA HandleTyped ==
  ASSUME Shape, CircuitShape, Typed, NEW w, NEW ix, Handle(w, ix),
         ix.op = "vk" => ix.head \in VkVersions \cup {None}
  PROVE  Typed'
<1>1. ASSUME ProveProofRequest(w, ix.r, ix.inputs, ix.proof, ix.reset, ix.issuer)
      PROVE  Typed'
  BY <1>1, ProveTyped
<1>2. ASSUME VerifyProofRequest(ix.r)
      PROVE  Typed'
  <2>1. PICK r : r = ix.r
    OBVIOUS
  <2>2. UNCHANGED <<now, circuit, policy>>
    BY <1>2 DEF VerifyProofRequest, registryVars
  <2>3. /\ request[r] # Closed
        /\ request' = [request EXCEPT ![r].status = "Verified", ![r].verified_at = now]
    BY <1>2, <2>1 DEF VerifyProofRequest
  <2> QED
    BY <2>2, <2>3, JudgeTyped
<1>3. ASSUME UpdateProofRequest(w, ix.r, ix.status)
      PROVE  Typed'
  <2>1. PICK r, status : r = ix.r /\ status = ix.status
    OBVIOUS
  <2>2. UNCHANGED <<now, circuit, policy>>
    BY <1>3 DEF UpdateProofRequest, registryVars
  <2>3. /\ request[r] # Closed
        /\ request' = [request EXCEPT ![r].status = status, ![r].verified_at = now]
    BY <1>3, <2>1 DEF UpdateProofRequest
  <2> QED
    BY <2>2, <2>3, JudgeTyped
<1>4. ASSUME ix.op = "vk", UpdateCircuitVk(w, ix.circuit, ix.head, ix.ic, ix.extend),
             UNCHANGED requestVars
      PROVE  Typed'
  BY <1>4, UploadTyped
<1> QED
  BY <1>1, <1>2, <1>3, <1>4 DEF Handle

LEMMA CreateTyped ==
  ASSUME Shape, Typed, NEW u, NEW p \in Policies, NEW e, CreateProofRequest(u, p, e)
  PROVE  Typed'
<1> DEFINE r == <<p, u>>
           old == IF request[r] = Closed THEN BlankRequest(policy[p].circuit) ELSE request[r]
           q == Renewed(old, p, e)
           a == [policy[p] EXCEPT !.proof_request_count = @ + 1]
           middle == [policy EXCEPT ![p] = a]
<1>1. /\ policy[p] # Closed /\ request' = [request EXCEPT ![r] = q]
      /\ policy' = middle /\ UNCHANGED <<now, circuit>>
  BY DEF CreateProofRequest
<1>2. PolicyShape(policy[p])
  BY <1>1 DEF Typed
<1>3. PolicyShape(a)
  BY <1>2 DEF PolicyShape, PolicyNames
<1>4. r \in Requests => q.circuit \in Circuits
  <2> SUFFICES ASSUME r \in Requests PROVE q.circuit \in Circuits
    OBVIOUS
  <2>1. Fields(old)
    BY DEF Shape, Fields, Names, BlankRequest
  <2> HIDE DEF old
  <2>2. q.circuit = policy[p].circuit
    BY <2>1 DEF Fields, Names, Renewed
  <2> QED BY <1>2, <2>2 DEF PolicyShape
<1> HIDE DEF q, a, r, old
<1>5. \A x \in Requests : request'[x] = IF x = r THEN q ELSE request[x]
  BY <1>1 DEF Shape
<1>6. \A x \in Requests : request'[x] # Closed => request'[x].circuit \in Circuits
  BY <1>4, <1>5 DEF Typed
<1>7. policy' = [x \in Policies |-> policy'[x]]
      /\ \A x \in Policies : policy'[x] = IF x = p THEN a ELSE policy[x]
  BY <1>1 DEF Typed
<1>8. ASSUME NEW x \in Policies, policy'[x] # Closed
      PROVE  PolicyShape(policy'[x])
  BY <1>3, <1>7, <1>8 DEF Typed
<1>9. \A x \in Policies : (policy[x] # Closed => PolicyShape(policy[x]))'
  BY <1>8 DEF PolicyShape
<1> QED
  BY <1>1, <1>6, <1>7, <1>9 DEF Typed

LEMMA OwnerTyped ==
  ASSUME Typed, NEW d, OwnerCall(d), UNCHANGED requestVars
  PROVE  Typed'
<1> USE DEF requestVars
<1>1. ASSUME NEW rules \in RuleSets \cup {None}
      PROVE  PreparePolicyRules(rules) \in RuleList
  <2>1. RuleSets \subseteq RuleList /\ <<>> \in RuleList
    BY ProofRequestAssumption DEF ProofRequestAssumption, RuleList
  <2> QED BY <2>1 DEF PreparePolicyRules, OrElse
<1>2. ASSUME NEW p \in Policies, NEW rules \in RuleSets \cup {None},
             NEW period \in Periods \cup {None}, PolicyUpdate(Wallet[d], p, rules, period, None)
      PROVE  Typed'
  <2> DEFINE new == OrElse(PreparePolicyRules(rules), policy[p].rules)
             per == OrElse(period, policy[p].expiration_period)
             ret == OrElse(None, policy[p].retention_period)
             a == [policy[p] EXCEPT !.rules = new, !.expiration_period = per,
                                    !.retention_period = ret]
  <2>1. policy[p] # Closed /\ PolicyShape(policy[p])
    BY <1>2 DEF PolicyUpdate, UpdatePolicy, Typed
  <2>2. new \in RuleList
    BY <1>1, <2>1 DEF OrElse, PolicyShape
  <2>3. policy' = [policy EXCEPT ![p] = a] /\ UNCHANGED <<now, circuit, request>>
    BY <1>2, <2>1 DEF PolicyUpdate, UpdatePolicy, Typed, PolicyShape, PolicyNames
  <2> HIDE DEF new, per, ret
  <2>4. PolicyShape(a)
    BY <2>1, <2>2 DEF PolicyShape, PolicyNames
  <2> HIDE DEF a
  <2> QED BY <2>3, <2>4, TypedPolicy
<1>3. ASSUME NEW p \in Policies, NEW c \in Circuits, NEW rules \in RuleSets \cup {None},
             PolicyCreate(p, c, rules, None, None)
      PROVE  Typed'
  <2> DEFINE a == [circuit |-> c, rules |-> PreparePolicyRules(rules),
                   expiration_period |-> OrElse(None, 0), retention_period |-> OrElse(None, 0),
                   proof_request_count |-> 0]
  <2>1. policy' = [policy EXCEPT ![p] = a] /\ UNCHANGED <<now, circuit, request>>
    BY <1>3 DEF PolicyCreate, CreatePolicy
  <2>2. PolicyShape(a)
    BY <1>1 DEF PolicyShape, PolicyNames
  <2> HIDE DEF a
  <2> QED BY <2>1, <2>2, TypedPolicy
<1>4. ASSUME NEW p \in Policies, PolicyDelete(Wallet[d], p)
      PROVE  Typed'
  <2>1. policy' = [policy EXCEPT ![p] = Closed] /\ UNCHANGED <<now, circuit, request>>
    BY <1>4 DEF PolicyDelete, DeletePolicy
  <2> QED BY <2>1, TypedPolicy
<1> QED
  BY <1>2, <1>3, <1>4 DEF OwnerCall

LEMMA CallTyped ==
  ASSUME Shape, Typed, NEW d, Call(d)
  PROVE  Typed'
<1>1. ASSUME NEW p \in Policies, NEW e, CreateProofRequest(Wallet[d], p, e)
      PROVE  Typed'
  BY <1>1, CreateTyped
<1>2. ASSUME NEW r \in Requests, DeleteProofRequest(Wallet[d], r)
      PROVE  Typed'
  <2>1. request' = [request EXCEPT ![r] = Closed] /\ UNCHANGED <<now, circuit, policy>>
    BY <1>2 DEF DeleteProofRequest, registryVars
  <2> QED BY <2>1, TypedRequest
<1>3. ASSUME NEW r \in Requests, VerifyProofRequest(r)
      PROVE  Typed'
  <2>1. /\ request[r] # Closed /\ UNCHANGED <<now, circuit, policy>>
        /\ request' = [request EXCEPT ![r].status = "Verified", ![r].verified_at = now]
    BY <1>3 DEF VerifyProofRequest, registryVars
  <2> QED BY <2>1, JudgeTyped
<1>4. ASSUME OwnerCall(d), UNCHANGED requestVars
      PROVE  Typed'
  BY <1>4, OwnerTyped
<1>5. ASSUME OtherCall(d), UNCHANGED requestVars
      PROVE  Typed'
  <2>1. UNCHANGED <<policy, circuit>>
    BY <1>5 DEF OtherCall, IssuerCreate, IssuerDelete, ServiceUpdate, TrusteeCreate,
         TrusteeUpdate, TrusteeVerify, TrusteeDelete, CreateIssuer, DeleteIssuer,
         UpdateServiceProvider, CreateTrustee, UpdateTrustee, VerifyTrustee, DeleteTrustee
  <2> QED BY <1>5, <2>1, TypedSame DEF requestVars
<1> QED
  BY <1>1, <1>2, <1>3, <1>4, <1>5 DEF Call, RequestCall

-----------------------------------------------------------------------------
(* The state of a proof session.                                             *)

\* It has read the request and the circuit's name.
LoadedOf(d) ==
  session[d].phase = "loaded" =>
    /\ session[d] = [n \in {"phase", "r", "c", "cred", "verify"} |-> session[d][n]]
    /\ session[d].r \in Requests /\ session[d].c \in Circuits
    /\ session[d].cred \in Credentials /\ session[d].verify \in BOOLEAN
    /\ calm[d] => request[session[d].r].circuit = session[d].c

\* It has read the circuit and the rules.
FetchedOf(d) ==
  session[d].phase = "fetched" =>
    /\ session[d] = [n \in {"phase", "r", "cred", "verify", "trustees", "circuit", "rules"}
                       |-> session[d][n]]
    /\ session[d].r \in Requests
    /\ session[d].cred \in Credentials /\ session[d].verify \in BOOLEAN
    /\ session[d].circuit.signals \in Layouts
    /\ session[d].circuit.vk.head \in VkVersions \cup {None}
    /\ session[d].rules \in RuleList
    /\ calm[d] => /\ SignalsNow(session[d].r) = session[d].circuit.signals
                  /\ RulesNow(session[d].r) = session[d].rules

\* It has built the inputs.
ProvingOf(d) ==
  Proving(d) =>
    /\ session[d] = [n \in {"phase", "r", "verify", "rules", "inputs", "at", "whole", "pending"}
                       |-> session[d][n]]
    /\ session[d].r \in Requests
    /\ session[d].inputs \in Seq(Nat) /\ session[d].verify \in BOOLEAN

\* What k transactions of a session leave in the account.
Progress(d, r, inputs, k) ==
  /\ k \in 1..Firsts(inputs) => request[r].public_inputs = InputsSent(inputs, k)
  /\ k > Firsts(inputs) /\ RulesAgree(session[d].rules) =>
       /\ request[r].public_inputs = inputs
       /\ request[r].proof.inputs = inputs
       /\ request[r].status = IF k = Firsts(inputs) + 1 THEN "Proved" ELSE "Verified"

SessionTxs(r, inputs, v, iss, verify) ==
  ProveTxs(r, inputs, [inputs |-> inputs, vk |-> v], iss, verify)

\* The k-th transaction is next.  The program will read the rules the session
\* has read, and change nothing of the inputs.
ProofNext(d, r, inputs, verify, iss, v, k) ==
  /\ session[d].pending = FromOn(SessionTxs(r, inputs, v, iss, verify), k)
  /\ calm[d] =>
       /\ RulesNow(r) = session[d].rules
       /\ RulesAgree(session[d].rules) =>
            ApplyRules(BindIssuer(inputs, SignalsNow(r), iss), SignalsNow(r), session[d].rules)
              = inputs
       /\ Progress(d, r, inputs, k - 1)

ProofPends(d) ==
  Proving(d) /\ session[d].phase = "sending" =>
    \E k \in 1..ProofSteps(session[d].inputs, session[d].verify), v \in VkVersions : \E iss :
      ProofNext(d, session[d].r, session[d].inputs, session[d].verify, iss, v, k)

ProofEnds(d) ==
  Proving(d) /\ session[d].phase = "done" /\ calm[d] =>
    Progress(d, session[d].r, session[d].inputs,
             ProofSteps(session[d].inputs, session[d].verify))

\* Nothing else is sent but uploads and reviews.
Sends(d) ==
  session[d].phase = "sending" => Proving(d) \/ Uploading(d) \/ Reviewing(d)

ProofOf(d) ==
  LoadedOf(d) /\ FetchedOf(d) /\ ProvingOf(d) /\ ProofPends(d) /\ ProofEnds(d) /\ Sends(d)

ProofInv == Typed /\ \A d \in Clients : ProofOf(d)

\* A step that a session's client notices nothing of leaves what it depends on.
LEMMA Unnoticed ==
  ASSUME NEW d \in Clients, NEW CONSTANT r, r = session[d].r, "r" \in DOMAIN session[d],
         UNCHANGED <<request, circuit, issuer, policy>> \/ ~Touched(d)
  PROVE  /\ request'[r] = request[r] /\ circuit' = circuit /\ issuer' = issuer
         /\ RulesNow(r)' = RulesNow(r)
<1>1. CASE UNCHANGED <<request, circuit, issuer, policy>>
  BY <1>1 DEF RulesNow
<1>2. CASE ~Touched(d)
  <2>1. Watched(r)' = Watched(r)
    BY <1>2 DEF Touched
  <2> QED BY <2>1 DEF Watched, RulesNow
<1> QED
  BY <1>1, <1>2

\* What was sent stays while nobody writes to the account.
LEMMA ProgressKept ==
  ASSUME NEW d, NEW CONSTANT r, NEW CONSTANT inputs, NEW CONSTANT k, Progress(d, r, inputs, k),
         session'[d] = session[d], request'[r] = request[r]
  PROVE  Progress(d, r, inputs, k)'
BY DEF Progress, InputsSent, Firsts, FrontOf, RulesAgree

\* A session stays as it was, or loses its calm, while its accounts stay.
LEMMA ProofKept ==
  ASSUME NEW d \in Clients, ProofOf(d), session'[d] = session[d],
         calm'[d] => calm[d],
         UNCHANGED <<request, circuit, issuer, policy>> \/ (calm'[d] => ~Touched(d))
  PROVE  ProofOf(d)'
<1>1. PICK r : r = session[d].r
  OBVIOUS
<1>2. ASSUME calm'[d], "r" \in DOMAIN session[d]
      PROVE  /\ calm[d] /\ request'[r] = request[r] /\ circuit' = circuit /\ issuer' = issuer
             /\ RulesNow(r)' = RulesNow(r) /\ SignalsNow(r)' = SignalsNow(r)
  <2>1. /\ request'[r] = request[r] /\ circuit' = circuit /\ issuer' = issuer
        /\ RulesNow(r)' = RulesNow(r)
    BY <1>1, <1>2, Unnoticed
  <2> QED BY <1>2, <2>1 DEF SignalsNow
<1>3. LoadedOf(d)'
  BY <1>1, <1>2 DEF ProofOf, LoadedOf
<1>4. FetchedOf(d)'
  <2> SUFFICES ASSUME session'[d].phase = "fetched" PROVE FetchedOf(d)'
    BY DEF FetchedOf
  <2>1. FetchedOf(d) /\ session[d].phase = "fetched"
    BY DEF ProofOf
  <2>2. "r" \in DOMAIN session[d]
    BY <2>1 DEF FetchedOf
  <2> QED BY <1>1, <1>2, <2>1, <2>2 DEF FetchedOf, RuleList
<1>5. ProvingOf(d)' /\ Sends(d)'
  BY DEF ProofOf, ProvingOf, Sends, Proving, Uploading, Reviewing
<1>6. Proving(d) => "r" \in DOMAIN session[d]
  BY DEF ProofOf, ProvingOf
<1>7. PICK inputs, verify : inputs = session[d].inputs /\ verify = session[d].verify
  OBVIOUS
<1>8. ProofPends(d)'
  <2> SUFFICES ASSUME Proving(d), session[d].phase = "sending"
               PROVE  \E k \in 1..ProofSteps(inputs, verify), v \in VkVersions : \E iss :
                        ProofNext(d, r, inputs, verify, iss, v, k)'
    BY <1>1, <1>7 DEF ProofPends, Proving, ProofSteps, Firsts, FrontOf
  <2>1. PICK k \in 1..ProofSteps(inputs, verify), v \in VkVersions : \E iss :
          ProofNext(d, r, inputs, verify, iss, v, k)
    BY <1>1, <1>7 DEF ProofOf, ProofPends
  <2>2. PICK iss : ProofNext(d, r, inputs, verify, iss, v, k)
    BY <2>1
  <2>3. session'[d].pending = FromOn(SessionTxs(r, inputs, v, iss, verify), k)
    BY <2>2 DEF ProofNext
  <2>4. ASSUME calm'[d]
        PROVE  /\ RulesNow(r)' = session[d].rules
               /\ RulesAgree(session[d].rules) =>
                    ApplyRules(BindIssuer(inputs, SignalsNow(r), iss)', SignalsNow(r)',
                               session[d].rules) = inputs
               /\ Progress(d, r, inputs, k - 1)'
    <3>1. /\ calm[d] /\ request'[r] = request[r] /\ circuit' = circuit /\ issuer' = issuer
          /\ RulesNow(r)' = RulesNow(r) /\ SignalsNow(r)' = SignalsNow(r)
      BY <1>2, <1>6, <2>4
    <3>2. BindIssuer(inputs, SignalsNow(r), iss)' = BindIssuer(inputs, SignalsNow(r), iss)
      BY <3>1 DEF BindIssuer
    <3>3. /\ RulesNow(r) = session[d].rules
          /\ RulesAgree(session[d].rules) =>
               ApplyRules(BindIssuer(inputs, SignalsNow(r), iss), SignalsNow(r), session[d].rules)
                 = inputs
          /\ Progress(d, r, inputs, k - 1)
      BY <2>2, <3>1 DEF ProofNext
    <3>4. PICK before : before = k - 1
      OBVIOUS
    <3>5. Progress(d, r, inputs, before)'
      BY <3>1, <3>3, <3>4, ProgressKept
    <3> QED BY <3>1, <3>2, <3>3, <3>4, <3>5
  <2>5. ProofNext(d, r, inputs, verify, iss, v, k)'
    BY <2>3, <2>4 DEF ProofNext, RulesAgree, SessionTxs
  <2> QED BY <2>5
<1>9. ProofEnds(d)'
  <2> SUFFICES ASSUME Proving(d), session[d].phase = "done", calm'[d]
               PROVE  Progress(d, r, inputs, ProofSteps(inputs, verify))'
    BY <1>1, <1>7 DEF ProofEnds, Proving
  <2>1. calm[d] /\ request'[r] = request[r]
    BY <1>2, <1>6
  <2>2. PICK k : k = ProofSteps(inputs, verify)
    OBVIOUS
  <2>3. Progress(d, r, inputs, k)
    BY <1>1, <1>7, <2>1, <2>2 DEF ProofOf, ProofEnds
  <2>4. Progress(d, r, inputs, k)'
    BY <2>1, <2>3, ProgressKept
  <2> QED BY <2>2, <2>4
<1> QED
  BY <1>3, <1>4, <1>5, <1>8, <1>9 DEF ProofOf

\* A client that does something else is in no proof session.
LEMMA NotProving ==
  ASSUME NEW d \in Clients, session'[d].phase \notin {"loaded", "fetched"},
         "inputs" \notin DOMAIN session'[d],
         session'[d].phase = "sending" =>
           "v" \in DOMAIN session'[d] \/ "status" \in DOMAIN session'[d]
  PROVE  ProofOf(d)'
BY DEF ProofOf, LoadedOf, FetchedOf, ProvingOf, ProofPends, ProofEnds, Sends, Proving,
       Uploading, Reviewing

\* What is left to show of a step of d: its own session.
LEMMA OneProver ==
  ASSUME UploadInv, ProofInv, NEW d \in Clients, NEW s, Typed', ProofOf(d)',
         session' = [session EXCEPT ![d] = s],
         \/ UNCHANGED <<vars, calm>>
         \/ UNCHANGED vars /\ calm' = [calm EXCEPT ![d] = TRUE]
         \/ Notice(d)
  PROVE  ProofInv'
<1>1. ASSUME NEW e \in Clients, e # d
      PROVE  ProofOf(e)'
  <2>1. session'[e] = session[e] /\ ProofOf(e)
    BY <1>1 DEF ProofInv, UploadInv
  <2>2. CASE UNCHANGED <<vars, calm>>
    <3>1. UNCHANGED <<request, circuit, issuer, policy>>
      BY <2>2 DEF vars, requestVars, registryVars
    <3> QED
      BY <2>1, <2>2, <3>1, ProofKept
  <2>3. CASE UNCHANGED vars /\ calm' = [calm EXCEPT ![d] = TRUE]
    <3>1. calm'[e] = calm[e]
      BY <1>1, <2>3 DEF UploadInv
    <3>2. UNCHANGED <<request, circuit, issuer, policy>>
      BY <2>3 DEF vars, requestVars, registryVars
    <3> QED
      BY <2>1, <3>1, <3>2, ProofKept
  <2>4. CASE Notice(d)
    <3>1. calm'[e] = (calm[e] /\ ~Touched(e))
      BY <1>1, <2>4 DEF Notice
    <3> QED
      BY <2>1, <3>1, ProofKept
  <2> QED
    BY <2>2, <2>3, <2>4
<1> QED
  BY <1>1 DEF ProofInv

LEMMA SameTyped ==
  ASSUME Typed, UNCHANGED vars
  PROVE  Typed'
BY TypedSame DEF vars, requestVars, registryVars

\* d starts a call, or goes on without sending.
LEMMA ProverStarts ==
  ASSUME UploadInv, ProofInv, NEW d \in Clients, NEW s, Start(d, s), ProofOf(d)'
  PROVE  ProofInv'
<1>1. UNCHANGED vars
  BY DEF Start
<1>2. Typed'
  BY <1>1, SameTyped DEF ProofInv
<1> QED
  BY <1>1, <1>2, OneProver DEF Start

LEMMA ProverContinues ==
  ASSUME UploadInv, ProofInv, NEW d \in Clients, NEW s, Continue(d, s), ProofOf(d)'
  PROVE  ProofInv'
<1>1. UNCHANGED <<vars, calm>>
  BY DEF Continue
<1>2. Typed'
  BY <1>1, SameTyped DEF ProofInv
<1> QED
  BY <1>1, <1>2, OneProver DEF Continue

\* fullProve reads the request.
LEMMA FullProveStep ==
  ASSUME UploadInv, ProofInv, NEW d \in Clients, NEW r \in Requests, NEW cred \in Credentials,
         NEW verify \in BOOLEAN, FullProve(d, r, cred, verify)
  PROVE  ProofInv'
<1> DEFINE s == [phase |-> "loaded", r |-> r, c |-> request[r].circuit,
                 cred |-> cred, verify |-> verify]
<1>1. Start(d, s) /\ request[r] # Closed
  BY DEF FullProve
<1>2. session'[d] = s /\ UNCHANGED vars
  BY <1>1 DEF Start, UploadInv
<1>3. request[r].circuit \in Circuits /\ request' = request
  BY <1>1, <1>2 DEF ProofInv, Typed, vars, requestVars
<1>4. LoadedOf(d)'
  BY <1>2, <1>3 DEF LoadedOf
<1>5. FetchedOf(d)' /\ ProvingOf(d)' /\ ProofPends(d)' /\ ProofEnds(d)' /\ Sends(d)'
  BY <1>2 DEF FetchedOf, ProvingOf, ProofPends, ProofEnds, Sends, Proving
<1> HIDE DEF s
<1> QED
  BY <1>1, <1>4, <1>5, ProverStarts DEF ProofOf

LEMMA OtherStart ==
  ASSUME UploadInv, ProofInv, NEW d \in Clients, NEW s, Start(d, s), s.phase = "sending",
         "inputs" \notin DOMAIN s, "v" \in DOMAIN s \/ "status" \in DOMAIN s
  PROVE  ProofInv'
<1>1. session'[d] = s
  BY DEF Start, UploadInv
<1>2. ProofOf(d)'
  BY <1>1, NotProving
<1> QED
  BY <1>2, ProverStarts

\* It reads what the request names: if nothing was touched since, that is what
\* the program will read.
LEMMA FetchStep ==
  ASSUME UploadInv, ProofInv, NEW d \in Clients, Fetch(d)
  PROVE  ProofInv'
<1> DEFINE r == session[d].r
           p == PolicyOf(r)
           c == session[d].c
           s == [phase |-> "fetched", r |-> r, cred |-> session[d].cred,
                 verify |-> session[d].verify, trustees |-> service[ServiceOf(p)].trustees,
                 circuit |-> circuit[c], rules |-> policy[p].rules]
<1>1. /\ session[d].phase = "loaded" /\ circuit[c] # Closed /\ policy[p] # Closed
      /\ Continue(d, s)
  BY DEF Fetch
<1>2. session'[d] = s /\ UNCHANGED <<vars, calm>>
  BY <1>1 DEF Continue, UploadInv
<1>3. UNCHANGED <<request, circuit, policy>>
  BY <1>2 DEF vars, requestVars, registryVars
<1>4. /\ r \in Requests /\ c \in Circuits /\ session[d].cred \in Credentials
      /\ session[d].verify \in BOOLEAN /\ (calm[d] => request[r].circuit = c)
  BY <1>1 DEF ProofInv, ProofOf, LoadedOf
<1>5. /\ circuit[c].signals \in Layouts /\ circuit[c].vk.head \in VkVersions \cup {None}
  BY <1>1, <1>4 DEF ProofInv, Typed
<1>6. p \in Policies /\ policy[p].rules \in RuleList
  <2>1. p \in Policies
    BY <1>4 DEF Requests, PolicyOf
  <2> QED BY <1>1, <2>1 DEF ProofInv, Typed, PolicyShape
<1>7. RulesNow(r) = policy[p].rules
  BY <1>1 DEF RulesNow
<1> HIDE DEF p, c
<1>8. FetchedOf(d)'
  <2>1. /\ s.r = r /\ s.cred = session[d].cred /\ s.verify = session[d].verify
        /\ s.circuit = circuit[c] /\ s.rules = policy[p].rules
        /\ s = [n \in {"phase", "r", "cred", "verify", "trustees", "circuit", "rules"} |-> s[n]]
    OBVIOUS
  <2>2. calm'[d] => SignalsNow(r)' = circuit[c].signals /\ RulesNow(r)' = policy[p].rules
    <3>1. PICK x : x = r
      OBVIOUS
    <3>2. RulesNow(x)' = RulesNow(x) /\ (calm'[d] => request'[x].circuit = c) /\ circuit' = circuit
      BY <1>2, <1>3, <1>4, <3>1 DEF RulesNow
    <3>3. session'[d].r = x
      BY <1>2, <3>1
    <3> QED BY <1>7, <3>1, <3>2, <3>3 DEF SignalsNow
  <2> HIDE DEF s
  <2>3. session'[d].r = r
    BY <1>2, <2>1
  <2> QED BY <1>2, <1>4, <1>5, <1>6, <2>1, <2>2, <2>3 DEF FetchedOf
<1>9. LoadedOf(d)' /\ ProvingOf(d)' /\ ProofPends(d)' /\ ProofEnds(d)' /\ Sends(d)'
  BY <1>2 DEF LoadedOf, ProvingOf, ProofPends, ProofEnds, Sends, Proving
<1> HIDE DEF s
<1> QED
  BY <1>1, <1>8, <1>9, ProverContinues DEF ProofOf

\* The whole list comes first.
LEMMA FromFirst ==
  ASSUME NEW r, NEW inputs \in Seq(Nat), NEW v, NEW iss, NEW verify \in BOOLEAN
  PROVE  /\ Len(SessionTxs(r, inputs, v, iss, verify)) = ProofSteps(inputs, verify)
         /\ SessionTxs(r, inputs, v, iss, verify)
              \in Seq(Range(SessionTxs(r, inputs, v, iss, verify)))
         /\ FromOn(SessionTxs(r, inputs, v, iss, verify), 1)
              = SessionTxs(r, inputs, v, iss, verify)
         /\ ProofSteps(inputs, verify) \in Nat \ {0}
         /\ \A k \in 1..ProofSteps(inputs, verify) :
              SessionTxs(r, inputs, v, iss, verify)[k]
                = <<SessionIx(r, inputs, [inputs |-> inputs, vk |-> v], iss, k)>>
<1> DEFINE N == ProofSteps(inputs, verify)
           proof == [inputs |-> inputs, vk |-> v]
           txs == SessionTxs(r, inputs, v, iss, verify)
<1>1. N \in Nat \ {0}
  BY InputParts DEF ProofSteps
<1>2. txs = [k \in 1..N |-> <<SessionIx(r, inputs, proof, iss, k)>>]
  <2> HIDE DEF proof
  <2>1. txs = ProveTxs(r, inputs, proof, iss, verify)
    BY DEF SessionTxs, proof
  <2> QED BY <2>1, ProofTxs
<1> HIDE DEF txs, N, proof
<1>3. txs = [k \in 1..N |-> txs[k]] /\ \A k \in 1..N : txs[k] \in Range(txs)
  BY <1>2 DEF Range
<1>4. Len(txs) = N /\ txs \in Seq(Range(txs))
  <2>1. PICK X : X = Range(txs)
    OBVIOUS
  <2>2. \A k \in 1..N : txs[k] \in X
    BY <1>3, <2>1
  <2>3. [k \in 1..N |-> txs[k]] \in Seq(X) /\ Len([k \in 1..N |-> txs[k]]) = N
    BY <1>1, <2>2
  <2> QED BY <1>3, <2>1, <2>3
<1>5. FromOn(txs, 1) = txs
  BY <1>4, SubSeqFull DEF FromOn
<1>6. \A k \in 1..N : txs[k] = <<SessionIx(r, inputs, proof, iss, k)>>
  BY <1>2
<1> QED
  BY <1>1, <1>4, <1>5, <1>6 DEF N, txs, proof

\* It builds the inputs, and nothing is sent yet.
LEMMA BuildStep ==
  ASSUME UploadInv, ProofInv, NEW d \in Clients, Build(d)
  PROVE  ProofInv'
<1>1. PICK b : b = session[d]
  OBVIOUS
<1>2. PICK l, rules, cred, verify, v, r :
        /\ l = b.circuit.signals /\ rules = b.rules /\ cred = b.cred /\ verify = b.verify
        /\ v = b.circuit.vk.head /\ r = b.r
  OBVIOUS
<1>3. PICK inputs : inputs = BuildInputs(l, cred, rules)
  OBVIOUS
<1>4. /\ b.phase = "fetched" /\ v # None /\ \A i \in DOMAIN inputs : inputs[i] # NoInput
  BY <1>1, <1>2, <1>3 DEF Build
<1>5. PICK iss :
        /\ iss \in IF "issuerPk" \in DOMAIN l THEN IssuersByZkPubkey(cred.key) ELSE {None}
        /\ Continue(d,
             [phase |-> "sending", r |-> r, verify |-> verify, rules |-> rules,
              inputs |-> inputs, at |-> now,
              whole |-> b.circuit.vk = CompleteVk(v),
              pending |-> ProveTxs(r, inputs, GenerateProof(b.circuit, inputs), iss, verify)])
  BY <1>1, <1>2, <1>3 DEF Build
<1> DEFINE txs == SessionTxs(r, inputs, v, iss, verify)
           s == [phase |-> "sending", r |-> r, verify |-> verify, rules |-> rules,
                 inputs |-> inputs, at |-> now,
                 whole |-> b.circuit.vk = CompleteVk(v), pending |-> txs]
<1>6. Continue(d, s)
  BY <1>2, <1>5 DEF GenerateProof, SessionTxs
<1>7. session'[d] = s /\ UNCHANGED <<vars, calm>>
  BY <1>6 DEF Continue, UploadInv
<1>8. UNCHANGED <<request, circuit, issuer, policy, now>>
  BY <1>7 DEF vars, requestVars, registryVars
<1>9. /\ l \in Layouts /\ rules \in RuleList /\ cred \in Credentials /\ verify \in BOOLEAN
      /\ v \in VkVersions /\ r \in Requests
      /\ calm[d] => SignalsNow(r) = l /\ RulesNow(r) = rules
  BY <1>1, <1>2, <1>4 DEF ProofInv, ProofOf, FetchedOf
<1>10. now \in Nat
  BY DEF ProofInv, Typed
<1>11. inputs \in Seq(Nat)
  BY <1>3, <1>4, <1>9, <1>10, InputsTyped
<1>12. "issuerPk" \in DOMAIN l => issuer[iss].zk_pubkey = cred.key
  BY <1>5 DEF IssuersByZkPubkey
<1>13. RulesAgree(rules) => ApplyRules(BindIssuer(inputs, l, iss), l, rules) = inputs
  BY <1>3, <1>4, <1>9, <1>10, <1>12, InputsStay
<1>14. /\ txs = FromOn(txs, 1) /\ 1 \in 1..ProofSteps(inputs, verify)
       /\ Firsts(inputs) \in Nat
  <2>1. /\ FromOn(txs, 1) = txs /\ ProofSteps(inputs, verify) \in Nat \ {0}
    BY <1>9, <1>11, FromFirst
  <2>2. Firsts(inputs) \in Nat
    BY <1>11, InputParts
  <2> HIDE DEF txs
  <2> QED BY <2>1, <2>2
<1> HIDE DEF txs
<1>15. /\ s.r = r /\ s.inputs = inputs /\ s.verify = verify /\ s.rules = rules
       /\ s.pending = txs /\ s.phase = "sending" /\ "inputs" \in DOMAIN s
       /\ s = [n \in {"phase", "r", "verify", "rules", "inputs", "at", "whole", "pending"} |-> s[n]]
  OBVIOUS
<1> HIDE DEF s
<1>16. ProofNext(d, r, inputs, verify, iss, v, 1)'
  <2>1. session'[d].pending = FromOn(SessionTxs(r, inputs, v, iss, verify), 1)
    BY <1>7, <1>14, <1>15 DEF txs
  <2>2. ASSUME calm'[d]
        PROVE  /\ RulesNow(r)' = rules
               /\ RulesAgree(rules) =>
                    ApplyRules(BindIssuer(inputs, SignalsNow(r), iss)', SignalsNow(r)', rules)
                      = inputs
    <3>1. RulesNow(r)' = RulesNow(r) /\ SignalsNow(r)' = SignalsNow(r)
      BY <1>8 DEF RulesNow, SignalsNow
    <3>2. SignalsNow(r) = l /\ RulesNow(r) = rules
      BY <1>7, <1>9, <2>2
    <3>3. BindIssuer(inputs, SignalsNow(r), iss)' = BindIssuer(inputs, l, iss)
      BY <1>8, <3>1, <3>2 DEF BindIssuer
    <3> QED BY <1>13, <3>1, <3>2, <3>3
  <2>3. Progress(d, r, inputs, 0)'
    BY <1>14 DEF Progress
  <2>4. session'[d].rules = rules /\ 1 - 1 = 0
    BY <1>7, <1>15
  <2> QED BY <2>1, <2>2, <2>3, <2>4 DEF ProofNext, RulesAgree
<1>17. ProvingOf(d)'
  BY <1>7, <1>9, <1>11, <1>15 DEF ProvingOf
<1>18. ProofPends(d)'
  BY <1>7, <1>9, <1>14, <1>15, <1>16 DEF ProofPends
<1>19. LoadedOf(d)' /\ FetchedOf(d)' /\ ProofEnds(d)' /\ Sends(d)'
  BY <1>7, <1>15 DEF LoadedOf, FetchedOf, ProofEnds, Sends, Proving
<1>20. ProofOf(d)'
  BY <1>17, <1>18, <1>19 DEF ProofOf
<1> QED
  BY <1>6, <1>20, ProverContinues

\* A transaction fails: the session ends, with nothing to show.
LEMMA FailStep ==
  ASSUME UploadInv, ProofInv, NEW d \in Clients,
         Continue(d, [session[d] EXCEPT !.phase = "failed", !.pending = <<>>]),
         session[d].phase = "sending"
  PROVE  ProofInv'
<1> DEFINE s == [session[d] EXCEPT !.phase = "failed", !.pending = <<>>]
<1>1. session'[d] = s
  BY DEF Continue, UploadInv
<1>2. CASE ~Proving(d)
  <2>1. "inputs" \notin DOMAIN s
    BY <1>2 DEF Proving
  <2>2. s.phase = "failed"
    <3>1. Uploading(d) \/ Reviewing(d)
      BY <1>2 DEF ProofInv, ProofOf, Sends
    <3>2. CASE Uploading(d)
      BY <3>2 DEF UploadInv, UploadOf, UploadShape
    <3>3. CASE Reviewing(d)
      BY <3>3 DEF Reviewing
    <3> QED BY <3>1, <3>2, <3>3
  <2>3. ProofOf(d)'
    BY <1>1, <2>1, <2>2, NotProving
  <2> HIDE DEF s
  <2> QED BY <2>3, ProverContinues DEF s
<1>3. CASE Proving(d)
  <2>1. /\ s = [n \in {"phase", "r", "verify", "rules", "inputs", "at", "whole", "pending"} |-> s[n]]
        /\ s.phase = "failed" /\ s.r \in Requests /\ s.inputs \in Seq(Nat) /\ s.verify \in BOOLEAN
    BY <1>3 DEF ProofInv, ProofOf, ProvingOf
  <2> HIDE DEF s
  <2>2. ProofOf(d)'
    BY <1>1, <2>1 DEF ProofOf, LoadedOf, FetchedOf, ProvingOf, ProofPends, ProofEnds, Sends
  <2> QED BY <2>2, ProverContinues DEF s
<1> QED
  BY <1>2, <1>3

\* The k-th instruction, with a proof made for the inputs.
SentIx(r, inputs, v, iss, k) ==
  SessionIx(r, inputs, [inputs |-> inputs, vk |-> v], iss, k)

\* The head, the tail and the length of what a session has left to send.
LEMMA ProofRest ==
  ASSUME NEW r, NEW inputs \in Seq(Nat), NEW v, NEW iss, NEW verify \in BOOLEAN,
         NEW k \in 1..ProofSteps(inputs, verify), NEW list,
         list = FromOn(SessionTxs(r, inputs, v, iss, verify), k)
  PROVE  /\ list[1][1] = SentIx(r, inputs, v, iss, k)
         /\ Tail(list) = FromOn(SessionTxs(r, inputs, v, iss, verify), k + 1)
         /\ (Len(list) = 1) = (k = ProofSteps(inputs, verify))
<1>1. PICK txs : txs = SessionTxs(r, inputs, v, iss, verify)
  OBVIOUS
<1>2. PICK X : X = Range(SessionTxs(r, inputs, v, iss, verify))
  OBVIOUS
<1>3. /\ txs \in Seq(X) /\ Len(txs) = ProofSteps(inputs, verify)
      /\ txs[k] = <<SentIx(r, inputs, v, iss, k)>>
  <2>1. /\ SessionTxs(r, inputs, v, iss, verify) \in Seq(X)
        /\ Len(SessionTxs(r, inputs, v, iss, verify)) = ProofSteps(inputs, verify)
    BY <1>2, FromFirst
  <2>2. SessionTxs(r, inputs, v, iss, verify)[k]
          = <<SentIx(r, inputs, v, iss, k)>>
    BY FromFirst DEF SentIx
  <2> QED BY <1>1, <2>1, <2>2
<1>4. k \in 1..Len(txs)
  BY <1>3
<1>5. /\ list[1] = txs[k] /\ Tail(list) = FromOn(txs, k + 1)
      /\ (Len(list) = 1) = (k = Len(txs))
  <2>1. list = FromOn(txs, k)
    BY <1>1
  <2> QED BY ONLY <1>3, <1>4, <2>1, RestOfList
<1>6. list[1][1] = SentIx(r, inputs, v, iss, k)
  BY <1>3, <1>5
<1> QED
  BY <1>1, <1>3, <1>5, <1>6

\* The inputs are all there with the k-th transaction if they were with the one
\* before.
LEMMA PartSent ==
  ASSUME NEW inputs \in Seq(Nat), NEW k \in 1..(Firsts(inputs) + 1), NEW before,
         NEW j, j = k - 1, j \in 1..Firsts(inputs) => before = InputsSent(inputs, j)
  PROVE  (IF k = 1 THEN InputPart(inputs, k) ELSE before \o InputPart(inputs, k))
           = InputsSent(inputs, k)
<1>1. Firsts(inputs) \in Nat
  BY InputParts
<1>2. CASE k = 1
  BY <1>2, InputParts
<1>3. CASE k # 1
  <2>1. j \in 1..Firsts(inputs) /\ j + 1 = k
    BY <1>1, <1>3
  <2>2. InputsSent(inputs, j) \o InputPart(inputs, j + 1) = InputsSent(inputs, j + 1)
    BY <2>1, InputParts
  <2> QED BY <1>3, <2>1, <2>2
<1> QED
  BY <1>2, <1>3

\* What the k-th transaction of a session leaves in the account.
LEMMA ProofWrites ==
  ASSUME Shape, NEW d, NEW w, NEW r \in Requests, NEW inputs \in Seq(Nat), NEW v \in VkVersions,
         NEW iss, NEW verify \in BOOLEAN, NEW k \in 1..ProofSteps(inputs, verify),
         Handle(w, SentIx(r, inputs, v, iss, k)),
         session'[d].rules = session[d].rules,
         NEW j, j = k - 1, Progress(d, r, inputs, j), RulesNow(r) = session[d].rules,
         RulesAgree(session[d].rules) =>
           ApplyRules(BindIssuer(inputs, SignalsNow(r), iss), SignalsNow(r), session[d].rules)
             = inputs
  PROVE  Progress(d, r, inputs, k)'
<1> DEFINE N == Firsts(inputs)
<1>1. N \in Nat /\ k \in Nat \ {0} /\ (k <= N + 1 \/ (verify /\ k = N + 2))
  BY InputParts DEF ProofSteps
<1>2. PICK proof : proof = [inputs |-> inputs, vk |-> v]
  OBVIOUS
<1>3. proof.inputs = inputs /\ proof # None
  <2>1. proof \in ProofData
    BY <1>2 DEF ProofData
  <2> QED BY <1>2, <2>1, ProofRequestAssumption DEF ProofRequestAssumption
<1>4. PICK rules : rules = session[d].rules
  OBVIOUS
<1>5. PICK before : before = request[r].public_inputs
  OBVIOUS
<1>6. /\ (RulesAgree(session[d].rules))' = RulesAgree(rules)
      /\ Firsts(inputs)' = Firsts(inputs) /\ InputsSent(inputs, k)' = InputsSent(inputs, k)
  BY <1>4 DEF RulesAgree, InputsSent, Firsts, FrontOf
<1>7. CASE k <= N + 1
  <2>1. PICK part : part = InputPart(inputs, k)
    OBVIOUS
  <2>2. PICK sent : sent = IF k <= N THEN None ELSE proof
    OBVIOUS
  <2>3. PICK by : by = IF k <= N THEN None ELSE iss
    OBVIOUS
  <2>4. PICK reset \in BOOLEAN : reset = (k = 1)
    OBVIOUS
  <2>5. ProveProofRequest(w, r, part, sent, reset, by)
    BY <1>2, <1>7, <2>1, <2>2, <2>3, <2>4
       DEF Handle, SentIx, SessionIx, ProofIx, ProveIx, VerifyIx
  <2>6. part \in Seq(Nat)
    BY <1>1, <1>7, <2>1, InputParts
  <2>7. (IF reset THEN part ELSE before \o part) = InputsSent(inputs, k)
    <3>1. k \in 1..(Firsts(inputs) + 1)
      BY <1>1, <1>7
    <3>2. j \in 1..Firsts(inputs) => before = InputsSent(inputs, j)
      BY <1>5 DEF Progress
    <3> QED BY <2>1, <2>4, <3>1, <3>2, PartSent
  <2>e. /\ sent = None => request'[r].public_inputs =
              IF reset THEN part ELSE request[r].public_inputs \o part
        /\ sent # None =>
             /\ request'[r].public_inputs =
                  ApplyRules(BindIssuer(IF reset THEN part ELSE request[r].public_inputs \o part,
                                        SignalsNow(r), by),
                             SignalsNow(r), RulesNow(r))
             /\ request'[r].proof = sent /\ request'[r].status = "Proved"
    BY ONLY Shape, r \in Requests, reset \in BOOLEAN, <2>5, <2>6, ProveEffect
  <2>8. CASE k <= N
    <3>1. request'[r].public_inputs = InputsSent(inputs, k)
      BY <1>5, <2>2, <2>7, <2>8, <2>e
    <3>2. ~(k > N)
      BY <1>1, <2>8
    <3> QED BY <1>6, <3>1, <3>2 DEF Progress
  <2>9. CASE k = N + 1
    <3>1. ~(k <= N) /\ sent = proof /\ by = iss
      BY <1>1, <2>2, <2>3, <2>9
    <3>2. InputsSent(inputs, k) = inputs
      BY <2>9, InputParts
    <3>3. /\ request'[r].public_inputs =
               ApplyRules(BindIssuer(inputs, SignalsNow(r), iss), SignalsNow(r), RulesNow(r))
          /\ request'[r].proof = proof /\ request'[r].status = "Proved"
      BY <1>3, <1>5, <2>7, <2>e, <3>1, <3>2
    <3>4. RulesAgree(rules) => request'[r].public_inputs = inputs
      BY <1>4, <3>3
    <3> HIDE DEF N
    <3> QED BY <1>3, <1>6, <2>9, <3>1, <3>3, <3>4 DEF Progress, N
  <2> QED BY <1>1, <1>7, <2>8, <2>9
<1>8. CASE verify /\ k = N + 2
  <2>1. ~(k <= N + 1) /\ ~(k \in 1..N) /\ j = N + 1 /\ j > N /\ k # N + 1 /\ ~(k <= N)
    BY <1>1, <1>8
  <2>2. VerifyProofRequest(r)
    BY <2>1 DEF Handle, SentIx, SessionIx, VerifyIx
  <2>3. /\ request'[r].public_inputs = request[r].public_inputs
        /\ request'[r].proof = request[r].proof
        /\ request'[r].status = "Verified"
    BY <2>2, VerifyEffect
  <2>4. RulesAgree(rules) => /\ request[r].public_inputs = inputs
                             /\ request[r].proof.inputs = inputs
    BY <1>4, <2>1 DEF Progress
  <2> HIDE DEF N
  <2> QED BY <1>6, <2>1, <2>3, <2>4 DEF Progress, N
<1> QED
  BY <1>1, <1>7, <1>8

\* Which instruction comes next depends on what the client is doing.
LEMMA NextIx ==
  ASSUME ReviewInv, UploadInv, ProofInv, NEW d \in Clients, session[d].phase = "sending",
         NEW ix, ix = session[d].pending[1][1]
  PROVE  ix.op = "vk" => ix.head \in VkVersions \cup {None}
<1>1. CASE Proving(d)
  <2>1. PICK r, inputs, verify :
          r = session[d].r /\ inputs = session[d].inputs /\ verify = session[d].verify
    OBVIOUS
  <2>2. inputs \in Seq(Nat) /\ verify \in BOOLEAN
    BY <1>1, <2>1 DEF ProofInv, ProofOf, ProvingOf
  <2>3. PICK k \in 1..ProofSteps(inputs, verify), v \in VkVersions : \E iss :
          ProofNext(d, r, inputs, verify, iss, v, k)
    BY <1>1, <2>1 DEF ProofInv, ProofOf, ProofPends
  <2>4. PICK iss : ProofNext(d, r, inputs, verify, iss, v, k)
    BY <2>3
  <2>5. PICK list : list = session[d].pending
    OBVIOUS
  <2>6. list = FromOn(SessionTxs(r, inputs, v, iss, verify), k)
    BY <2>4, <2>5 DEF ProofNext
  <2>7. ix = SentIx(r, inputs, v, iss, k)
    <3>1. list[1][1] = SentIx(r, inputs, v, iss, k)
      BY ONLY <2>2, k \in 1..ProofSteps(inputs, verify), <2>6, ProofRest
    <3> QED BY <2>5, <3>1
  <2> QED BY <2>7 DEF SentIx, SessionIx, ProofIx, ProveIx, VerifyIx
<1>2. CASE Uploading(d)
  <2>1. UploadShape(d) /\ UploadPends(d)
    BY DEF UploadInv, UploadOf
  <2>2. PICK c \in Circuits : c = session[d].c
    BY <1>2, <2>1 DEF UploadShape
  <2>3. PICK v \in VkVersions : v = session[d].v
    BY <1>2, <2>1 DEF UploadShape
  <2>4. PICK k \in 1..Uploads(v) : UploadNext(d, c, v, k)
    BY <1>2, <2>1, <2>2, <2>3 DEF UploadPends
  <2>5. RestOf(c, v, k)[1][1] = VkIx(c, v, k)
    BY ONLY v \in VkVersions, k \in 1..Uploads(v), UploadRest
  <2>6. ix = VkIx(c, v, k)
    BY <2>4, <2>5 DEF UploadNext
  <2> QED BY <2>6 DEF VkIx
<1>3. CASE Reviewing(d)
  <2>1. PICK r, status : ix = StatusIx(r, status)
    BY <1>3 DEF ReviewInv, ReviewOf, ReviewPends
  <2> QED BY <2>1 DEF StatusIx
<1> QED
  BY <1>1, <1>2, <1>3 DEF ProofInv, ProofOf, Sends

\* What it sends keeps the accounts well formed.
LEMMA SendTyped ==
  ASSUME ReviewInv, UploadInv, ProofInv, NEW d \in Clients, Send(d)
  PROVE  Typed'
<1>1. PICK ix : ix = session[d].pending[1][1]
  OBVIOUS
<1>2. Handle(Wallet[d], ix) /\ session[d].phase = "sending"
  BY <1>1 DEF Send
<1>3. ix.op = "vk" => ix.head \in VkVersions \cup {None}
  BY <1>1, <1>2, NextIx
<1> QED
  BY <1>2, <1>3, HandleTyped DEF ReviewInv, UploadInv, ProofInv

\* The circuit of a request stays when a session writes to it, and so do the
\* accounts it reads.
LEMMA ProofReads ==
  ASSUME Shape, NEW w, NEW r \in Requests, NEW inputs \in Seq(Nat), NEW proof, NEW iss,
         NEW verify \in BOOLEAN, NEW k \in 1..ProofSteps(inputs, verify),
         Handle(w, SessionIx(r, inputs, proof, iss, k))
  PROVE  /\ request'[r].circuit = request[r].circuit
         /\ UNCHANGED <<circuit, issuer, policy>>
<1>1. Firsts(inputs) \in Nat
  BY InputParts
<1>2. CASE k <= Firsts(inputs) + 1
  <2>1. PICK part : part = InputPart(inputs, k)
    OBVIOUS
  <2>2. PICK sent, by :
          /\ sent = IF k <= Firsts(inputs) THEN None ELSE proof
          /\ by = IF k <= Firsts(inputs) THEN None ELSE iss
    OBVIOUS
  <2>3. PICK reset \in BOOLEAN : reset = (k = 1)
    OBVIOUS
  <2>4. ProveProofRequest(w, r, part, sent, reset, by)
    BY <1>2, <2>1, <2>2, <2>3 DEF Handle, SessionIx, ProofIx, ProveIx
  <2>5. part \in Seq(Nat)
    BY <1>1, <1>2, <2>1, InputParts DEF ProofSteps
  <2>6. request'[r].circuit = request[r].circuit
    BY ONLY Shape, r \in Requests, reset \in BOOLEAN, <2>4, <2>5, ProveEffect
  <2> QED BY <2>4, <2>6 DEF ProveProofRequest, registryVars
<1>3. CASE ~(k <= Firsts(inputs) + 1)
  <2>1. VerifyProofRequest(r)
    BY <1>3 DEF Handle, SessionIx, VerifyIx
  <2> QED BY <2>1, VerifyEffect DEF VerifyProofRequest, registryVars
<1> QED
  BY <1>2, <1>3

\* A transaction of a session is confirmed: the next is one further on.
LEMMA ProofSend ==
  ASSUME ReviewInv, UploadInv, ProofInv, NEW d \in Clients, Send(d)
  PROVE  ProofInv'
<1> DEFINE s == [session[d] EXCEPT
                   !.phase = IF Len(session[d].pending) = 1 THEN "done" ELSE "sending",
                   !.pending = Tail(@)]
<1>1. PICK ix : ix = session[d].pending[1][1]
  OBVIOUS
<1>2. Handle(Wallet[d], ix) /\ Notice(d) /\ session[d].phase = "sending"
  BY <1>1 DEF Send
<1>3. session' = [session EXCEPT ![d] = s]
  BY DEF Send, UploadInv
<1>4. session'[d] = s
  BY <1>3 DEF UploadInv
<1>5. Typed'
  BY SendTyped
<1>6. ASSUME ProofOf(d)'
      PROVE  ProofInv'
  <2> HIDE DEF s
  <2> QED BY <1>2, <1>3, <1>5, <1>6, OneProver
<1>7. CASE ~Proving(d)
  <2>1. DOMAIN s = DOMAIN session[d] /\ s.phase \in {"done", "sending"}
    <3>1. Uploading(d) \/ Reviewing(d)
      BY <1>2, <1>7 DEF ProofInv, ProofOf, Sends
    <3>2. CASE Uploading(d)
      BY <3>2 DEF UploadInv, UploadOf, UploadShape
    <3>3. CASE Reviewing(d)
      BY <3>3 DEF ReviewInv, ReviewOf, ReviewShape
    <3> QED BY <3>1, <3>2, <3>3
  <2> HIDE DEF s
  <2>2. /\ "inputs" \notin DOMAIN s
        /\ "v" \in DOMAIN s \/ "status" \in DOMAIN s
    BY <1>2, <1>7, <2>1 DEF ProofInv, ProofOf, Sends, Proving, Uploading, Reviewing
  <2>3. ProofOf(d)'
    BY <1>4, <2>1, <2>2, NotProving
  <2> QED BY <1>6, <2>3
<1>8. CASE Proving(d)
  <2>1. PICK r, inputs, verify, rules, list :
          /\ r = session[d].r /\ inputs = session[d].inputs /\ verify = session[d].verify
          /\ rules = session[d].rules /\ list = session[d].pending
    OBVIOUS
  <2>2. r \in Requests /\ inputs \in Seq(Nat) /\ verify \in BOOLEAN
    BY <1>8, <2>1 DEF ProofInv, ProofOf, ProvingOf
  <2>3. PICK k \in 1..ProofSteps(inputs, verify), v \in VkVersions : \E iss :
          ProofNext(d, r, inputs, verify, iss, v, k)
    BY <1>2, <1>8, <2>1 DEF ProofInv, ProofOf, ProofPends
  <2>4. PICK iss : ProofNext(d, r, inputs, verify, iss, v, k)
    BY <2>3
  <2>5. /\ list = FromOn(SessionTxs(r, inputs, v, iss, verify), k)
        /\ calm[d] =>
             /\ RulesNow(r) = rules
             /\ RulesAgree(rules) =>
                  ApplyRules(BindIssuer(inputs, SignalsNow(r), iss), SignalsNow(r), rules) = inputs
             /\ Progress(d, r, inputs, k - 1)
    BY <2>1, <2>4 DEF ProofNext
  <2>6. /\ list[1][1] = SentIx(r, inputs, v, iss, k)
        /\ Tail(list) = FromOn(SessionTxs(r, inputs, v, iss, verify), k + 1)
        /\ (Len(list) = 1) = (k = ProofSteps(inputs, verify))
    <3>1. list = FromOn(SessionTxs(r, inputs, v, iss, verify), k)
      BY <2>5
    <3>2. inputs \in Seq(Nat) /\ verify \in BOOLEAN /\ k \in 1..ProofSteps(inputs, verify)
      BY <2>2
    <3> QED BY ONLY <3>1, <3>2, ProofRest
  <2>7. Handle(Wallet[d], SentIx(r, inputs, v, iss, k))
    BY <1>1, <1>2, <2>1, <2>6
  <2>8. /\ s = [n \in {"phase", "r", "verify", "rules", "inputs", "at", "whole", "pending"} |-> s[n]]
        /\ s.phase = IF k = ProofSteps(inputs, verify) THEN "done" ELSE "sending"
        /\ s.r = r /\ s.inputs = inputs /\ s.verify = verify /\ s.rules = rules
        /\ s.pending = Tail(list)
    BY <1>8, <2>1, <2>6 DEF ProofInv, ProofOf, ProvingOf
  <2> HIDE DEF s
  <2>9. calm'[d] => calm[d]
    BY <1>2 DEF Notice, UploadInv
  <2>10. Shape
    BY DEF ReviewInv
  <2>11. ASSUME calm'[d]
         PROVE  Progress(d, r, inputs, k)'
    <3>1. PICK j : j = k - 1
      OBVIOUS
    <3>2. session'[d].rules = session[d].rules
      BY <1>4, <2>1, <2>8
    <3>3. /\ Progress(d, r, inputs, j) /\ RulesNow(r) = session[d].rules
          /\ RulesAgree(session[d].rules) =>
               ApplyRules(BindIssuer(inputs, SignalsNow(r), iss), SignalsNow(r), session[d].rules)
                 = inputs
      BY <2>1, <2>5, <2>9, <2>11, <3>1
    <3> QED
      BY ONLY <2>2, v \in VkVersions, k \in 1..ProofSteps(inputs, verify), <2>7, <2>10, <3>1,
              <3>2, <3>3, ProofWrites
  <2>12. request'[r].circuit = request[r].circuit /\ UNCHANGED <<circuit, issuer, policy>>
    <3>1. PICK proof : proof = [inputs |-> inputs, vk |-> v]
      OBVIOUS
    <3>2. Handle(Wallet[d], SessionIx(r, inputs, proof, iss, k))
      BY <2>7, <3>1 DEF SentIx
    <3> QED BY ONLY <2>2, k \in 1..ProofSteps(inputs, verify), <2>10, <3>2, ProofReads
  <2>13. ASSUME calm'[d]
         PROVE  /\ RulesNow(r)' = rules
                /\ RulesAgree(rules) =>
                     ApplyRules(BindIssuer(inputs, SignalsNow(r), iss)', SignalsNow(r)', rules)
                       = inputs
    <3>1. RulesNow(r)' = RulesNow(r) /\ SignalsNow(r)' = SignalsNow(r)
      BY <2>12 DEF RulesNow, SignalsNow
    <3>2. BindIssuer(inputs, SignalsNow(r), iss)' = BindIssuer(inputs, SignalsNow(r), iss)
      BY <2>12, <3>1 DEF BindIssuer
    <3> QED BY <2>5, <2>9, <2>13, <3>1, <3>2
  <2>14. ProofOf(d)'
    <3>1. LoadedOf(d)' /\ FetchedOf(d)' /\ ProvingOf(d)' /\ Sends(d)'
      BY <1>4, <2>2, <2>8 DEF LoadedOf, FetchedOf, ProvingOf, Sends, Proving
    <3>2. ProofSteps(inputs, verify) \in Nat \ {0} /\ k \in 1..ProofSteps(inputs, verify)
      BY <2>2, FromFirst
    <3>3. ProofSteps(inputs, verify)' = ProofSteps(inputs, verify)
      BY DEF ProofSteps, Firsts, FrontOf
    <3>4. ProofPends(d)'
      <4> SUFFICES ASSUME k # ProofSteps(inputs, verify) PROVE ProofPends(d)'
        BY <1>4, <2>8 DEF ProofPends
      <4>1. PICK next \in 1..ProofSteps(inputs, verify) : next = k + 1 /\ next - 1 = k
        BY <3>2
      <4>2. ProofNext(d, r, inputs, verify, iss, v, next)'
        <5>1. session'[d].pending = FromOn(SessionTxs(r, inputs, v, iss, verify), next)
          BY <1>4, <2>6, <2>8, <4>1
        <5>2. session'[d].rules = rules
          BY <1>4, <2>8
        <5>3. SessionTxs(r, inputs, v, iss, verify)' = SessionTxs(r, inputs, v, iss, verify)
          BY DEF SessionTxs
        <5> QED BY <2>11, <2>13, <4>1, <5>1, <5>2, <5>3 DEF ProofNext, RulesAgree
      <4>3. /\ session'[d].r = r /\ session'[d].inputs = inputs /\ session'[d].verify = verify
        BY <1>4, <2>8
      <4> QED BY <3>3, <4>2, <4>3 DEF ProofPends
    <3>5. ProofEnds(d)'
      <4> SUFFICES ASSUME k = ProofSteps(inputs, verify), calm'[d] PROVE ProofEnds(d)'
        BY <1>4, <2>8 DEF ProofEnds
      <4>1. Progress(d, r, inputs, k)'
        BY <2>11
      <4>2. /\ session'[d].r = r /\ session'[d].inputs = inputs /\ session'[d].verify = verify
        BY <1>4, <2>8
      <4> QED BY <3>3, <4>1, <4>2 DEF ProofEnds
    <3> QED BY <3>1, <3>4, <3>5 DEF ProofOf
  <2> QED BY <1>6, <2>14
<1> QED
  BY <1>7, <1>8

\* Another call, one transaction, ends what the client was doing.
LEMMA ProofCall ==
  ASSUME ReviewInv, UploadInv, ProofInv, NEW d \in Clients, Call(d)
  PROVE  ProofInv'
<1>1. session' = [session EXCEPT ![d] = Idle] /\ Notice(d)
  BY DEF Call
<1>2. session'[d] = Idle
  BY <1>1 DEF UploadInv
<1>3. ProofOf(d)'
  BY <1>2, NotProving DEF Idle
<1>4. Typed'
  BY CallTyped DEF ReviewInv, ProofInv
<1> QED
  BY <1>1, <1>3, <1>4, OneProver

LEMMA ProofSessionStep ==
  ASSUME ReviewInv, UploadInv, ProofInv, NEW d \in Clients, SessionStep(d)
  PROVE  ProofInv'
<1>1. ASSUME NEW r \in Requests, NEW cred \in Credentials, NEW verify \in BOOLEAN,
             FullProve(d, r, cred, verify)
      PROVE  ProofInv'
  BY <1>1, FullProveStep
<1>2. ASSUME NEW c, NEW v, UpdateVk(d, c, v)
      PROVE  ProofInv'
  <2>1. PICK s : /\ Start(d, s) /\ s.phase = "sending"
                 /\ "inputs" \notin DOMAIN s /\ "v" \in DOMAIN s
    BY <1>2 DEF UpdateVk
  <2> QED
    BY <2>1, OtherStart
<1>3. ASSUME NEW r, Review(d, r)
      PROVE  ProofInv'
  <2>1. PICK s : /\ Start(d, s) /\ s.phase = "sending"
                 /\ "inputs" \notin DOMAIN s /\ "status" \in DOMAIN s
    BY <1>3 DEF Review
  <2> QED
    BY <2>1, OtherStart
<1>4. ASSUME Fetch(d)
      PROVE  ProofInv'
  BY <1>4, FetchStep
<1>5. ASSUME Build(d)
      PROVE  ProofInv'
  BY <1>5, BuildStep
<1>6. ASSUME Send(d)
      PROVE  ProofInv'
  BY <1>6, ProofSend
<1>7. ASSUME Fail(d)
      PROVE  ProofInv'
  BY <1>7, FailStep DEF Fail
<1>8. ASSUME Stop(d)
      PROVE  ProofInv'
  <2>1. Continue(d, Idle)
    BY <1>8 DEF Stop
  <2>2. session'[d] = Idle
    BY <2>1 DEF Continue, UploadInv
  <2>3. ProofOf(d)'
    BY <2>2, NotProving DEF Idle
  <2> QED
    BY <2>1, <2>3, ProverContinues
<1> QED
  BY <1>1, <1>2, <1>3, <1>4, <1>5, <1>6, <1>7, <1>8 DEF SessionStep

LEMMA ProofInvInit == TypeOK /\ SessionsInit => ProofInv
<1> SUFFICES ASSUME TypeOK, SessionsInit PROVE ProofInv
  OBVIOUS
<1>1. Typed
  <2>1. now \in Nat /\ policy \in [Policies -> PolicyAccount \cup {Closed}]
    BY DEF TypeOK, RegistryTypeOK
  <2>2. circuit \in [Circuits -> CircuitAccount \cup {Closed}]
    BY DEF TypeOK, RegistryTypeOK
  <2>3. request \in [Requests -> RequestAccount \cup {Closed}]
    BY DEF TypeOK
  <2>4. \A a \in PolicyAccount : PolicyShape(a)
    <3>1. RuleSets \subseteq RuleList
      BY ProofRequestAssumption DEF ProofRequestAssumption, RuleList
    <3> QED BY <3>1 DEF PolicyAccount, PolicyShape, PolicyNames
  <2>5. \A a \in CircuitAccount : a.signals \in Layouts /\ a.vk.head \in VkVersions \cup {None}
    BY DEF CircuitAccount, VerificationKey
  <2>6. \A q \in RequestAccount : q.circuit \in Circuits
    BY DEF RequestAccount
  <2> QED BY <2>1, <2>2, <2>3, <2>4, <2>5, <2>6 DEF Typed
<1>2. ASSUME NEW d \in Clients
      PROVE  ProofOf(d)
  <2>1. session[d] = Idle
    BY DEF SessionsInit
  <2>2. session[d].phase = "idle" /\ "inputs" \notin DOMAIN session[d]
    BY <2>1 DEF Idle
  <2> QED
    BY <2>2 DEF ProofOf, LoadedOf, FetchedOf, ProvingOf, ProofPends, ProofEnds, Sends, Proving
<1> QED
  BY <1>1, <1>2 DEF ProofInv

\* The three invariants hold each other up: the requests' fields, the sessions'
\* shape and what is sent next come from the other two.
LEMMA ProofInvNext ==
  ReviewInv /\ UploadInv /\ ProofInv /\ [SessionsNext]_allVars => ProofInv'
<1> SUFFICES ASSUME ReviewInv, UploadInv, ProofInv, [SessionsNext]_allVars PROVE ProofInv'
  OBVIOUS
<1>1. ASSUME now' \in Nat, UNCHANGED <<request, circuit, issuer, policy, clientVars>>
      PROVE  ProofInv'
  <2>1. Typed'
    BY <1>1 DEF ProofInv, Typed, PolicyShape
  <2>2. session' = session /\ calm' = calm
    BY <1>1 DEF clientVars
  <2>3. ASSUME NEW d \in Clients
        PROVE  ProofOf(d)'
    BY <1>1, <2>2, ProofKept DEF ProofInv
  <2> QED
    BY <2>1, <2>3 DEF ProofInv
<1>2. CASE UNCHANGED allVars
  BY <1>1, <1>2 DEF allVars, vars, requestVars, registryVars, clientVars, ProofInv, Typed
<1>3. CASE Tick /\ UNCHANGED clientVars
  BY <1>1, <1>3 DEF Tick, registryVars, clientVars, ProofInv, Typed
<1>4. CASE \E d \in Clients : SessionStep(d) \/ Call(d)
  BY <1>4, ProofSessionStep, ProofCall
<1> QED
  BY <1>2, <1>3, <1>4 DEF SessionsNext

\* proofRequestManager.ts:378-555.  fullProve sends its inputs in as many
\* transactions as their number needs.  Whatever the other clients and devices
\* do in between, and whatever an earlier session left in the account: when the
\* last transaction is confirmed and nobody touched the request, the rules, the
\* circuits or the issuers meanwhile, the account has exactly the inputs the
\* session built, beside a proof made for them, wherever builder and program read
\* the rules in the same way.
THEOREM SessionsProveAsBuilt == InUse => []ProvenAsBuilt
<1> DEFINE Inv == ReviewInv /\ UploadInv /\ ProofInv
<1>1. TypeOK /\ SessionsInit => Inv
  BY ReviewInvInit, UploadInvInit, ProofInvInit
<1>2. Inv /\ [SessionsNext]_allVars => Inv'
  BY ReviewInvNext, UploadInvNext, ProofInvNext
<1>3. Inv => ProvenAsBuilt
  <2> SUFFICES ASSUME ProofInv, NEW d \in Clients, Proving(d), Ended(d, "done"),
                      RulesAgree(session[d].rules)
               PROVE  LET q == request[session[d].r]
                      IN /\ q.public_inputs = session[d].inputs
                         /\ q.proof.inputs = session[d].inputs
                         /\ q.status = IF session[d].verify THEN "Verified" ELSE "Proved"
    BY DEF ProvenAsBuilt
  <2>1. PICK inputs, verify : inputs = session[d].inputs /\ verify = session[d].verify
    OBVIOUS
  <2>2. inputs \in Seq(Nat) /\ verify \in BOOLEAN
    BY <2>1 DEF ProofInv, ProofOf, ProvingOf
  <2>3. PICK k : k = ProofSteps(inputs, verify)
    OBVIOUS
  <2>4. Progress(d, session[d].r, inputs, k)
    BY <2>1, <2>3 DEF ProofInv, ProofOf, ProofEnds, Ended
  <2>5. /\ k > Firsts(inputs)
        /\ (k = Firsts(inputs) + 1) = ~verify
    BY <2>2, <2>3, InputParts DEF ProofSteps
  <2> QED BY <2>1, <2>2, <2>4, <2>5 DEF Progress
<1> HIDE DEF Inv
<1> QED
  BY <1>1, <1>2, <1>3, PTL DEF InUse
=============================================================================
