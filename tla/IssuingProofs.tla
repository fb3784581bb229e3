---------------------------- MODULE IssuingProofs ----------------------------
(* Credentials, for any sets of holders, mints, specifications, issuers and    *)
(* clients of issuers and any number of requests: the status of a request and   *)
(* the token agree, a wallet lists what was issued to its user, and the program  *)
(* implements the abstract book of credentials.                                *)
EXTENDS Issuing, RegistryProofs

LoadedJob == [phase: {"loaded"}, q: CredentialRequests, seen: CredentialRequest]
SentJob == [phase: {"sent"}, q: CredentialRequests, seen: CredentialRequest, mint: Mints,
            status: {"Approved", "Rejected", None}, uri: Documents]

WorkTypeOK ==
  /\ job \in [Workers -> {Idle} \cup LoadedJob \cup SentJob]
  /\ writer \in [Mints -> CredentialRequests \cup {None}]
  /\ crossed \subseteq Mints

\* A token of this program is frozen, and a mint without one was not written to.
TokensFrozen ==
  \A m \in Mints :
    /\ LiveToken(m) => token[m].frozen
    /\ token[m] = Fresh => writer[m] = None

\* A request names a minted token, its owner, and an issuer its owner asked.
RequestsOfOwners ==
  \A q \in CredentialRequests : creq[q] # Closed =>
    /\ token[creq[q].mint] # Fresh
    /\ LiveToken(creq[q].mint) => token[creq[q].mint].owner = creq[q].owner
    /\ <<creq[q].mint, creq[q].issuer>> \in asked

\* A document under way is by the issuer and for the owner of the request as loaded.
AsSeen(j) ==
  /\ j.uri.by = j.seen.issuer
  /\ j.uri.for \in {None, j.seen.owner}
  /\ j.status = "Approved" => j.uri.for = j.seen.owner
  /\ j.status = "Rejected" => j.uri.for = None

AnswersAsSeen == \A k \in Workers : job[k].phase = "sent" => AsSeen(job[k])

\* Whom a document of an issuer names is its owner, unless the request was crossed.
NamesOwner ==
  \A m \in Mints :
    LiveToken(m) /\ m \notin crossed /\ token[m].uri # Empty /\ token[m].uri.by \in Issuers =>
      token[m].uri.for \in {None, token[m].owner}

IssuingInv ==
  /\ RegistryTypeOK /\ IssuingTypeOK /\ WorkTypeOK
  /\ TokensFrozen /\ RequestsOfOwners /\ AnswersAsSeen /\ AnswerIsWritten /\ NamesOwner

\* What the steps of credentials may disturb.
Rest == IssuingTypeOK /\ WorkTypeOK /\ TokensFrozen /\ RequestsOfOwners
        /\ AnswersAsSeen /\ AnswerIsWritten /\ NamesOwner

-----------------------------------------------------------------------------
(* The shapes of accounts and jobs.                                          *)

LEMMA TokenShape ==
  ASSUME NEW t \in TokenAccount
  PROVE  /\ t # Fresh /\ t # Burnt
         /\ t.owner \in Users /\ t.uri \in Documents \cup {Empty}
         /\ \A uri \in Documents \cup {Empty} :
              LET z == [t EXCEPT !.uri = uri]
              IN z \in TokenAccount /\ z.owner = t.owner /\ z.frozen = t.frozen /\ z.uri = uri
BY IssuingAssumption DEF IssuingAssumption, TokenAccount

LEMMA DocumentShape ==
  ASSUME NEW d \in Documents
  PROVE  d # Empty /\ d.by \in Issuers \cup Admins /\ d.for \in Users \cup {None}
BY IssuingAssumption DEF IssuingAssumption, Documents

LEMMA RequestShape ==
  ASSUME NEW r \in CredentialRequest
  PROVE  /\ r # Closed
         /\ r.owner \in Users /\ r.mint \in Mints /\ r.issuer \in Issuers
         /\ \A status \in RequestStatus :
              LET z == [r EXCEPT !.status = status]
              IN /\ z \in CredentialRequest /\ z.status = status
                 /\ z.owner = r.owner /\ z.mint = r.mint /\ z.issuer = r.issuer
BY IssuingAssumption DEF IssuingAssumption, CredentialRequest

LEMMA JobShape ==
  ASSUME NEW k \in Workers, WorkTypeOK
  PROVE  /\ job[k].phase = "loaded" => job[k] \in LoadedJob
         /\ job[k].phase = "sent" => job[k] \in SentJob
BY DEF WorkTypeOK, Idle, LoadedJob, SentJob

\* A document that names nobody, or a user.
LEMMA DocumentBy ==
  ASSUME NEW i \in Issuers \cup Admins, NEW u \in Users \cup {None}
  PROVE  [by |-> i, for |-> u] \in Documents
BY DEF Documents

-----------------------------------------------------------------------------
(* Tokens.                                                                   *)

LEMMA CreateCredentialStep ==
  ASSUME IssuingInv, NEW w \in Users, NEW m \in Mints, CreateCredential(w, m)
  PROVE  Rest'
<1> DEFINE new == [owner |-> w, frozen |-> MintedFrozen, uri |-> Empty]
<1>1. new \in TokenAccount /\ new.owner = w /\ new.frozen /\ new.uri = Empty
  BY DEF TokenAccount, MintedFrozen, FrozenByDelegate
<1>2. token' = [token EXCEPT ![m] = new] /\ token[m] = Fresh
  BY DEF CreateCredential
<1> HIDE DEF new
<1>3. /\ token'[m] = new
      /\ \A x \in Mints \ {m} : token'[x] = token[x]
      /\ token' \in [Mints -> TokenAccount \cup {Fresh, Burnt}]
  BY <1>1, <1>2 DEF IssuingInv, IssuingTypeOK
<1>4. UNCHANGED <<registryVars, job, crossed, spec, creq, asked, writer>>
  BY DEF CreateCredential, quiet
<1>5. new # Fresh /\ new # Burnt
  BY <1>1, TokenShape
<1>6. \A q \in CredentialRequests : creq[q] # Closed => creq[q].mint # m
  BY <1>2 DEF IssuingInv, RequestsOfOwners
<1>7. writer[m] = None
  BY <1>2 DEF IssuingInv, TokensFrozen
<1>8. IssuingTypeOK' /\ WorkTypeOK' /\ AnswersAsSeen'
  BY <1>3, <1>4 DEF IssuingInv, IssuingTypeOK, WorkTypeOK, AnswersAsSeen
<1>9. TokensFrozen'
  BY <1>1, <1>3, <1>4, <1>5 DEF IssuingInv, TokensFrozen, LiveToken
<1>10. RequestsOfOwners'
  <2> SUFFICES ASSUME NEW q \in CredentialRequests, creq[q] # Closed
               PROVE  /\ token'[creq[q].mint] # Fresh
                      /\ token'[creq[q].mint] \in TokenAccount =>
                           token'[creq[q].mint].owner = creq[q].owner
                      /\ <<creq[q].mint, creq[q].issuer>> \in asked
    BY <1>4 DEF RequestsOfOwners, LiveToken
  <2>1. creq[q].mint \in Mints \ {m}
    BY <1>6, RequestShape DEF IssuingInv, IssuingTypeOK
  <2> QED
    BY <1>3, <2>1 DEF IssuingInv, RequestsOfOwners, LiveToken
<1>11. AnswerIsWritten'
  BY <1>3, <1>4, <1>7 DEF IssuingInv, AnswerIsWritten, LiveToken
<1>12. NamesOwner'
  BY <1>1, <1>3, <1>4 DEF IssuingInv, NamesOwner, LiveToken
<1> QED
  BY <1>8, <1>9, <1>10, <1>11, <1>12 DEF Rest

LEMMA DeleteCredentialStep ==
  ASSUME IssuingInv, NEW w \in Users, NEW m \in Mints, DeleteCredential(w, m)
  PROVE  Rest'
<1>1. /\ token'[m] = Burnt
      /\ \A x \in Mints \ {m} : token'[x] = token[x]
      /\ token' \in [Mints -> TokenAccount \cup {Fresh, Burnt}]
  BY DEF DeleteCredential, AfterBurn, AllBurnt, IssuingInv, IssuingTypeOK
<1>2. UNCHANGED <<registryVars, job, crossed, spec, creq, asked, writer>>
  BY DEF DeleteCredential, quiet
<1>3. Burnt \notin TokenAccount /\ Burnt # Fresh
  BY IssuingAssumption DEF IssuingAssumption
<1>4. IssuingTypeOK' /\ WorkTypeOK' /\ AnswersAsSeen'
  BY <1>1, <1>2 DEF IssuingInv, IssuingTypeOK, WorkTypeOK, AnswersAsSeen
<1>5. TokensFrozen' /\ AnswerIsWritten' /\ NamesOwner'
  BY <1>1, <1>2, <1>3 DEF IssuingInv, TokensFrozen, AnswerIsWritten, NamesOwner, LiveToken
<1>6. RequestsOfOwners'
  <2> SUFFICES ASSUME NEW q \in CredentialRequests, creq[q] # Closed
               PROVE  /\ token'[creq[q].mint] # Fresh
                      /\ token'[creq[q].mint] \in TokenAccount =>
                           token'[creq[q].mint].owner = creq[q].owner
                      /\ <<creq[q].mint, creq[q].issuer>> \in asked
    BY <1>2 DEF RequestsOfOwners, LiveToken
  <2>1. creq[q].mint \in Mints
    BY RequestShape DEF IssuingInv, IssuingTypeOK
  <2> QED
    BY <1>1, <1>3, <2>1 DEF IssuingInv, RequestsOfOwners, LiveToken
<1> QED
  BY <1>4, <1>5, <1>6 DEF Rest

\* Nothing this program mints can be transferred.
LEMMA NoTransfer ==
  ASSUME IssuingInv, NEW w \in Users, NEW m \in Mints, NEW to \in Users
  PROVE  ~Transfer(w, m, to)
BY DEF IssuingInv, TokensFrozen, Transfer

-----------------------------------------------------------------------------
(* Specifications and requests.                                              *)

LEMMA SpecStep ==
  ASSUME IssuingInv, NEW w \in Signers, NEW s \in Specs,
         CreateCredentialSpec(w, s) \/ DeleteCredentialSpec(w, s)
  PROVE  Rest'
<1>1. spec' \in [Specs -> Nat \cup {Closed}]
  BY DEF CreateCredentialSpec, DeleteCredentialSpec, IssuingInv, IssuingTypeOK
<1>2. UNCHANGED <<job, crossed, token, creq, asked, writer>>
  BY DEF CreateCredentialSpec, DeleteCredentialSpec, quiet
<1> QED
  BY <1>1, <1>2 DEF Rest, IssuingInv, IssuingTypeOK, WorkTypeOK, TokensFrozen, RequestsOfOwners,
     AnswersAsSeen, AnswerIsWritten, NamesOwner, LiveToken

LEMMA RequestCredentialStep ==
  ASSUME IssuingInv, NEW w \in Users, NEW s \in Specs, NEW m \in Mints,
         RequestCredential(w, s, m)
  PROVE  Rest'
<1> DEFINE r == <<s, w>>
           i == SpecIssuer(s)
           old == token[m]
           new == [old EXCEPT !.uri = Empty]
           made == [owner |-> old.owner, mint |-> m, issuer |-> i, status |-> "Pending"]
<1>1. r \in CredentialRequests /\ i \in Issuers
  BY IssuingAssumption DEF IssuingAssumption, CredentialRequests, SpecIssuer, Specs
<1>2. /\ spec' = [spec EXCEPT ![s] = @ + 1]
      /\ creq' = [creq EXCEPT ![r] = made]
      /\ token' = [token EXCEPT ![m] = new]
      /\ asked' = asked \cup {<<m, i>>}
      /\ writer' = [writer EXCEPT ![m] = r]
      /\ spec[s] # Closed
      /\ old \in TokenAccount
  BY DEF RequestCredential, LiveToken
<1>3. UNCHANGED <<job, crossed>>
  BY DEF RequestCredential, quiet
<1>4. /\ new \in TokenAccount /\ new.owner = old.owner /\ new.frozen = old.frozen
      /\ new.uri = Empty /\ new # Fresh
  BY <1>2, TokenShape
<1>5. /\ made \in CredentialRequest /\ made.mint = m /\ made.owner = old.owner
      /\ made.issuer = i /\ made.status = "Pending"
  BY <1>1, <1>2, TokenShape DEF CredentialRequest, RequestStatus
<1>6. /\ token'[m] = new /\ \A x \in Mints \ {m} : token'[x] = token[x]
      /\ creq'[r] = made /\ \A q \in CredentialRequests \ {r} : creq'[q] = creq[q]
      /\ writer'[m] = r /\ \A x \in Mints \ {m} : writer'[x] = writer[x]
  <2> HIDE DEF new, made, r
  <2> QED BY <1>1, <1>2 DEF IssuingInv, IssuingTypeOK, WorkTypeOK
<1>7. IssuingTypeOK'
  <2>1. spec' \in [Specs -> Nat \cup {Closed}]
    BY <1>2 DEF IssuingInv, IssuingTypeOK
  <2> HIDE DEF new, made, r, i
  <2> QED BY <1>1, <1>2, <1>4, <1>5, <2>1 DEF IssuingInv, IssuingTypeOK
<1>8. WorkTypeOK' /\ AnswersAsSeen'
  <2> HIDE DEF r
  <2> QED BY <1>1, <1>2, <1>3 DEF IssuingInv, WorkTypeOK, AnswersAsSeen
<1> HIDE DEF new, made, r, old, i
<1>t. token[m] = old
  BY DEF old
<1>9. TokensFrozen'
  BY <1>2, <1>4, <1>6, <1>t DEF IssuingInv, TokensFrozen, LiveToken
<1>10. RequestsOfOwners'
  <2> SUFFICES ASSUME NEW q \in CredentialRequests, creq'[q] # Closed
               PROVE  /\ token'[creq'[q].mint] # Fresh
                      /\ token'[creq'[q].mint] \in TokenAccount =>
                           token'[creq'[q].mint].owner = creq'[q].owner
                      /\ <<creq'[q].mint, creq'[q].issuer>> \in asked'
    BY DEF RequestsOfOwners, LiveToken
  <2>1. CASE q = r
    BY <1>2, <1>4, <1>5, <1>6, <2>1
  <2>2. CASE q # r
    <3>1. creq'[q] = creq[q] /\ creq[q].mint \in Mints
      BY <1>6, <2>2, RequestShape DEF IssuingInv, IssuingTypeOK
    <3>2. /\ token[creq[q].mint] # Fresh
          /\ token[creq[q].mint] \in TokenAccount => token[creq[q].mint].owner = creq[q].owner
          /\ <<creq[q].mint, creq[q].issuer>> \in asked
      BY <3>1 DEF IssuingInv, RequestsOfOwners, LiveToken
    <3> QED
      BY <1>2, <1>4, <1>6, <1>t, <3>1, <3>2
  <2> QED
    BY <2>1, <2>2
<1>11. AnswerIsWritten'
  <2> SUFFICES ASSUME NEW x \in Mints, token'[x] \in TokenAccount, writer'[x] # None,
                      NEW q, q = creq'[writer'[x]], q # Closed, q.mint = x
               PROVE  /\ q.status = "Pending" => token'[x].uri = Empty
                      /\ q.status = "Approved" => token'[x].uri # Empty /\ token'[x].uri.for # None
                      /\ q.status = "Rejected" => token'[x].uri # Empty /\ token'[x].uri.for = None
    BY DEF AnswerIsWritten, LiveToken
  <2>1. CASE x = m
    BY <1>4, <1>5, <1>6, <2>1
  <2>2. CASE x # m
    <3>1. writer'[x] = writer[x] /\ token'[x] = token[x] /\ writer[x] \in CredentialRequests
      BY <1>6, <2>2 DEF IssuingInv, WorkTypeOK
    <3>2. writer[x] # r
      BY <1>5, <1>6, <2>2, <3>1
    <3> QED
      BY <1>6, <3>1, <3>2 DEF IssuingInv, AnswerIsWritten, LiveToken
  <2> QED
    BY <2>1, <2>2
<1>12. NamesOwner'
  BY <1>3, <1>4, <1>6 DEF IssuingInv, NamesOwner, LiveToken
<1> QED
  BY <1>7, <1>8, <1>9, <1>10, <1>11, <1>12 DEF Rest

LEMMA DeleteCredentialRequestStep ==
  ASSUME IssuingInv, NEW w \in Signers, NEW q \in CredentialRequests,
         DeleteCredentialRequest(w, q)
  PROVE  Rest'
<1>1. /\ creq'[q] = Closed
      /\ \A x \in CredentialRequests \ {q} : creq'[x] = creq[x]
      /\ creq' \in [CredentialRequests -> CredentialRequest \cup {Closed}]
  BY DEF DeleteCredentialRequest, IssuingInv, IssuingTypeOK
<1>2. UNCHANGED <<job, crossed, token, spec, asked, writer>>
  BY DEF DeleteCredentialRequest, quiet
<1>3. IssuingTypeOK' /\ WorkTypeOK' /\ AnswersAsSeen' /\ TokensFrozen' /\ NamesOwner'
  BY <1>1, <1>2 DEF IssuingInv, IssuingTypeOK, WorkTypeOK, AnswersAsSeen, TokensFrozen,
     NamesOwner, LiveToken
<1>4. RequestsOfOwners'
  BY <1>1, <1>2 DEF IssuingInv, RequestsOfOwners, LiveToken
<1>5. AnswerIsWritten'
  BY <1>1, <1>2 DEF IssuingInv, WorkTypeOK, AnswerIsWritten, LiveToken
<1> QED
  BY <1>3, <1>4, <1>5 DEF Rest

-----------------------------------------------------------------------------
(* Answers.                                                                  *)

\* A status changes nothing else of its request.
LEMMA StatusKeeps ==
  ASSUME IssuingInv, NEW q \in CredentialRequests, creq[q] # Closed,
         NEW status \in RequestStatus,
         creq' = [creq EXCEPT ![q].status = status]
  PROVE  /\ creq' \in [CredentialRequests -> CredentialRequest \cup {Closed}]
         /\ \A x \in CredentialRequests \ {q} : creq'[x] = creq[x]
         /\ creq'[q] # Closed /\ creq'[q].status = status
         /\ creq'[q].owner = creq[q].owner /\ creq'[q].mint = creq[q].mint
         /\ creq'[q].issuer = creq[q].issuer
<1> DEFINE new == [creq[q] EXCEPT !.status = status]
<1>1. creq[q] \in CredentialRequest
  BY DEF IssuingInv, IssuingTypeOK
<1>2. /\ new \in CredentialRequest /\ new # Closed /\ new.status = status
      /\ new.owner = creq[q].owner /\ new.mint = creq[q].mint /\ new.issuer = creq[q].issuer
  BY <1>1, RequestShape
<1>3. creq' = [creq EXCEPT ![q] = new]
  OBVIOUS
<1> HIDE DEF new
<1>4. /\ creq' \in [CredentialRequests -> CredentialRequest \cup {Closed}]
      /\ creq'[q] = new /\ \A x \in CredentialRequests \ {q} : creq'[x] = creq[x]
  BY <1>2, <1>3 DEF IssuingInv, IssuingTypeOK
<1> QED
  BY <1>2, <1>4

\* A uri changes nothing else of its token.
LEMMA UriKeeps ==
  ASSUME IssuingInv, NEW m \in Mints, LiveToken(m), NEW uri \in Documents \cup {Empty},
         token' = [token EXCEPT ![m].uri = uri]
  PROVE  /\ token' \in [Mints -> TokenAccount \cup {Fresh, Burnt}]
         /\ \A x \in Mints \ {m} : token'[x] = token[x]
         /\ token'[m] \in TokenAccount /\ token'[m] # Fresh /\ token'[m].uri = uri
         /\ token'[m].owner = token[m].owner /\ token'[m].frozen = token[m].frozen
<1> DEFINE new == [token[m] EXCEPT !.uri = uri]
<1>1. token[m] \in TokenAccount
  BY DEF LiveToken
<1>2. /\ new \in TokenAccount /\ new # Fresh /\ new.uri = uri
      /\ new.owner = token[m].owner /\ new.frozen = token[m].frozen
  BY <1>1, TokenShape
<1>3. token' = [token EXCEPT ![m] = new]
  OBVIOUS
<1> HIDE DEF new
<1>4. /\ token' \in [Mints -> TokenAccount \cup {Fresh, Burnt}]
      /\ token'[m] = new /\ \A x \in Mints \ {m} : token'[x] = token[x]
  BY <1>2, <1>3 DEF IssuingInv, IssuingTypeOK
<1> QED
  BY <1>2, <1>4

\* A status set alone: nothing that is written is said to be its answer.
LEMMA UpdateStatusStep ==
  ASSUME IssuingInv, NEW k \in Workers, NEW status \in RequestStatus, UpdateStatus(k, status)
  PROVE  Rest'
<1> DEFINE q == job[k].q
<1>1. q \in CredentialRequests
  BY JobShape DEF UpdateStatus, LoadedJob, IssuingInv
<1>2. /\ creq[q] # Closed /\ creq' = [creq EXCEPT ![q].status = status]
      /\ writer' = [m \in Mints |-> IF writer[m] = q THEN None ELSE writer[m]]
      /\ UNCHANGED <<job, crossed, token, spec, asked>>
  BY DEF UpdateStatus, UpdateCredentialRequest, MayAnswer
<1> HIDE DEF q
<1>3. /\ creq' \in [CredentialRequests -> CredentialRequest \cup {Closed}]
      /\ \A x \in CredentialRequests \ {q} : creq'[x] = creq[x]
      /\ creq'[q] # Closed
      /\ creq'[q].owner = creq[q].owner /\ creq'[q].mint = creq[q].mint
      /\ creq'[q].issuer = creq[q].issuer
  BY <1>1, <1>2, StatusKeeps
<1>4. IssuingTypeOK' /\ WorkTypeOK' /\ AnswersAsSeen' /\ TokensFrozen' /\ NamesOwner'
  BY <1>2, <1>3 DEF IssuingInv, IssuingTypeOK, WorkTypeOK, AnswersAsSeen, TokensFrozen,
     NamesOwner, LiveToken
<1>5. RequestsOfOwners'
  BY <1>1, <1>2, <1>3 DEF IssuingInv, RequestsOfOwners, LiveToken
<1>6. AnswerIsWritten'
  <2> SUFFICES ASSUME NEW x \in Mints, token[x] \in TokenAccount, writer'[x] # None,
                      NEW r, r = creq'[writer'[x]], r # Closed, r.mint = x
               PROVE  /\ r.status = "Pending" => token[x].uri = Empty
                      /\ r.status = "Approved" => token[x].uri # Empty /\ token[x].uri.for # None
                      /\ r.status = "Rejected" => token[x].uri # Empty /\ token[x].uri.for = None
    BY <1>2 DEF AnswerIsWritten, LiveToken
  <2>1. writer'[x] = writer[x] /\ writer[x] # q /\ writer[x] \in CredentialRequests
    BY <1>2 DEF IssuingInv, WorkTypeOK
  <2> QED
    BY <1>3, <2>1 DEF IssuingInv, AnswerIsWritten, LiveToken
<1> QED
  BY <1>4, <1>5, <1>6 DEF Rest

\* An update of a token that is no answer to a request leaves no writer.
LEMMA UpdateCredentialStep ==
  ASSUME IssuingInv, NEW w, NEW m \in Mints, NEW q, NEW i, NEW uri \in Documents,
         UpdateCredential(w, m, q, i, uri),
         job' \in [Workers -> {Idle} \cup LoadedJob \cup SentJob], AnswersAsSeen',
         crossed' \subseteq Mints,
         \A x \in Mints \ {m} : x \in crossed' <=> x \in crossed,
         m \notin crossed' /\ uri.by \in Issuers => uri.for \in {None, token[m].owner}
  PROVE  Rest'
<1>1. /\ LiveToken(m) /\ token' = [token EXCEPT ![m].uri = uri]
      /\ writer' = [writer EXCEPT ![m] = None]
      /\ UNCHANGED <<spec, creq, asked>>
  BY DEF UpdateCredential
<1>2. /\ token' \in [Mints -> TokenAccount \cup {Fresh, Burnt}]
      /\ \A x \in Mints \ {m} : token'[x] = token[x]
      /\ token'[m] \in TokenAccount /\ token'[m] # Fresh /\ token'[m].uri = uri
      /\ token'[m].owner = token[m].owner /\ token'[m].frozen = token[m].frozen
  BY <1>1, UriKeeps
<1>3. /\ writer' \in [Mints -> CredentialRequests \cup {None}]
      /\ writer'[m] = None /\ \A x \in Mints \ {m} : writer'[x] = writer[x]
  BY <1>1 DEF IssuingInv, WorkTypeOK
<1>4. IssuingTypeOK' /\ WorkTypeOK'
  BY <1>1, <1>2, <1>3 DEF IssuingInv, IssuingTypeOK, WorkTypeOK
<1>5. TokensFrozen' /\ AnswerIsWritten' /\ NamesOwner'
  BY <1>1, <1>2, <1>3 DEF IssuingInv, TokensFrozen, AnswerIsWritten, NamesOwner, LiveToken
<1>6. RequestsOfOwners'
  <2> SUFFICES ASSUME NEW x \in CredentialRequests, creq[x] # Closed
               PROVE  /\ token'[creq[x].mint] # Fresh
                      /\ token'[creq[x].mint] \in TokenAccount =>
                           token'[creq[x].mint].owner = creq[x].owner
                      /\ <<creq[x].mint, creq[x].issuer>> \in asked
    BY <1>1 DEF RequestsOfOwners, LiveToken
  <2>1. creq[x].mint \in Mints
    BY RequestShape DEF IssuingInv, IssuingTypeOK
  <2> QED
    BY <1>1, <1>2, <2>1 DEF IssuingInv, RequestsOfOwners, LiveToken
<1> QED
  BY <1>4, <1>5, <1>6 DEF Rest

\* Whatever an admin writes, it is not an issuer's.
LEMMA AdminDocument ==
  ASSUME NEW w \in Admins, NEW u \in Users \cup {None}
  PROVE  [by |-> w, for |-> u] \in Documents /\ [by |-> w, for |-> u].by \notin Issuers
BY DocumentBy, RegistryAssumption, IssuingAssumption DEF RegistryAssumption, IssuingAssumption

AdminUpdate(w, m, u) ==
  UpdateCredential(w, m, None, None, [by |-> w, for |-> u]) /\ UNCHANGED <<job, crossed>>

LEMMA AdminUpdateStep ==
  ASSUME IssuingInv, NEW w \in Admins, NEW m \in Mints, NEW u \in Users \cup {None},
         AdminUpdate(w, m, u)
  PROVE  Rest'
<1> DEFINE uri == [by |-> w, for |-> u]
<1>1. uri \in Documents /\ uri.by \notin Issuers
  BY AdminDocument
<1>2. UpdateCredential(w, m, None, None, uri) /\ UNCHANGED <<job, crossed>>
  BY DEF AdminUpdate
<1> HIDE DEF uri
<1>3. job' \in [Workers -> {Idle} \cup LoadedJob \cup SentJob] /\ AnswersAsSeen'
      /\ crossed' \subseteq Mints /\ crossed' = crossed
  BY <1>2 DEF IssuingInv, WorkTypeOK, AnswersAsSeen
<1> QED
  BY <1>1, <1>2, <1>3, UpdateCredentialStep

\* A worker that reads, prepares or gives up changes its own job only.
LEMMA WorkerKeeps ==
  ASSUME IssuingInv, NEW k \in Workers, NEW step \in {Idle} \cup LoadedJob \cup SentJob,
         Worker(k, step),
         step.phase = "sent" => AsSeen(step)
  PROVE  Rest'
<1>1. /\ job' \in [Workers -> {Idle} \cup LoadedJob \cup SentJob]
      /\ job'[k] = step /\ \A x \in Workers \ {k} : job'[x] = job[x]
      /\ UNCHANGED <<token, spec, creq, asked, writer, crossed>>
  BY DEF Worker, IssuingInv, WorkTypeOK, credentialVars
<1>2. IssuingTypeOK' /\ WorkTypeOK' /\ TokensFrozen' /\ NamesOwner'
  BY <1>1 DEF IssuingInv, IssuingTypeOK, WorkTypeOK, TokensFrozen, NamesOwner, LiveToken
<1>3. RequestsOfOwners' /\ AnswerIsWritten'
  BY <1>1 DEF IssuingInv, RequestsOfOwners, AnswerIsWritten, LiveToken
<1>4. AnswersAsSeen'
  BY <1>1 DEF IssuingInv, AnswersAsSeen
<1> QED
  BY <1>2, <1>3, <1>4 DEF Rest

LEMMA LoadStep ==
  ASSUME IssuingInv, NEW k \in Workers, NEW q \in CredentialRequests,
         LoadCredentialRequest(k, q)
  PROVE  Rest'
<1> DEFINE step == [phase |-> "loaded", q |-> q, seen |-> creq[q]]
<1>1. creq[q] \in CredentialRequest /\ Worker(k, step)
  BY DEF LoadCredentialRequest, FindCredentialRequests, IssuingInv, IssuingTypeOK
<1>2. step \in LoadedJob /\ step.phase = "loaded"
  BY <1>1 DEF LoadedJob
<1> HIDE DEF step
<1> QED
  BY <1>1, <1>2, WorkerKeeps

LEMMA DropStep ==
  ASSUME IssuingInv, NEW k \in Workers, Drop(k)
  PROVE  Rest'
<1>1. Idle.phase = "idle"
  BY DEF Idle
<1> QED
  BY <1>1, WorkerKeeps DEF Drop

LEMMA SendStep ==
  ASSUME IssuingInv, NEW k \in Workers, NEW status \in {"Approved", "Rejected", None},
         NEW for, for \in {None, job[k].seen.owner}, Send(k, status, for),
         status = "Approved" => for = job[k].seen.owner,
         status = "Rejected" => for = None
  PROVE  Rest'
<1> DEFINE q == job[k].q
           seen == job[k].seen
           uri == [by |-> seen.issuer, for |-> for]
           step == [phase |-> "sent", q |-> q, seen |-> seen, mint |-> creq[q].mint,
                    status |-> status, uri |-> uri]
<1>1. /\ q \in CredentialRequests /\ seen \in CredentialRequest
      /\ creq[q] # Closed /\ Worker(k, step)
  BY JobShape DEF Send, LoadedJob, IssuingInv
<1>2. creq[q].mint \in Mints /\ seen.issuer \in Issuers /\ seen.owner \in Users
  BY <1>1, RequestShape DEF IssuingInv, IssuingTypeOK
<1>3. uri \in Documents /\ uri.by = seen.issuer /\ uri.for = for
  BY <1>2, DocumentBy
<1>4. step \in SentJob
  <2> HIDE DEF uri, q, seen
  <2> QED BY <1>1, <1>2, <1>3 DEF SentJob
<1>5. AsSeen(step)
  BY <1>3 DEF AsSeen
<1> HIDE DEF step
<1> QED
  BY <1>1, <1>4, <1>5, WorkerKeeps

LEMMA PrepareStep ==
  ASSUME IssuingInv, NEW k \in Workers,
         ApproveCredentialRequest(k) \/ RejectCredentialRequest(k) \/ Amend(k)
  PROVE  Rest'
<1>1. None # "Approved" /\ None # "Rejected"
  BY IssuingAssumption DEF IssuingAssumption, RequestStatus
<1>2. CASE ApproveCredentialRequest(k)
  BY <1>2, SendStep DEF ApproveCredentialRequest, SubjectFor, ForOwner
<1>3. CASE RejectCredentialRequest(k)
  BY <1>3, SendStep DEF RejectCredentialRequest
<1>4. CASE Amend(k)
  BY <1>1, <1>4, SendStep DEF Amend, SubjectFor, ForOwner
<1> QED
  BY <1>2, <1>3, <1>4

\* What a document that lands finds.
Found(k) ==
  LET q == job[k].q
      m == job[k].mint
  IN /\ q \in CredentialRequests /\ m \in Mints
     /\ job[k].uri \in Documents /\ job[k].seen \in CredentialRequest
     /\ AsSeen(job[k]) /\ job[k].seen.issuer \in Issuers
     /\ LiveToken(m) /\ creq[q] # Closed /\ creq[q] \in CredentialRequest
     /\ creq[q].mint = m /\ <<m, job[k].uri.by>> \in asked
     /\ token[m].owner = creq[q].owner

LEMMA LandFinds ==
  ASSUME IssuingInv, NEW k \in Workers, job[k].phase = "sent",
         LiveToken(job[k].mint),
         MayWrite(KeyOf[k], job[k].mint, job[k].q, job[k].seen.issuer)
  PROVE  Found(k) /\ job[k].status \in {"Approved", "Rejected", None}
<1> DEFINE q == job[k].q
           m == job[k].mint
<1>1. job[k] \in SentJob
  BY JobShape DEF IssuingInv
<1>2. /\ q \in CredentialRequests /\ m \in Mints /\ job[k].seen \in CredentialRequest
      /\ job[k].status \in {"Approved", "Rejected", None} /\ job[k].uri \in Documents
  BY <1>1 DEF SentJob
<1>3. /\ LiveToken(m) /\ creq[q] # Closed /\ creq[q].issuer = job[k].seen.issuer
      /\ creq[q].mint = m
  BY DEF MayAnswer, MayWrite, RequestedMint
<1>4. creq[q] \in CredentialRequest /\ job[k].seen.issuer \in Issuers
  BY <1>2, <1>3, RequestShape DEF IssuingInv, IssuingTypeOK
<1>5. <<m, job[k].seen.issuer>> \in asked /\ token[m].owner = creq[q].owner
  BY <1>2, <1>3 DEF IssuingInv, RequestsOfOwners
<1>6. AsSeen(job[k])
  BY DEF IssuingInv, AnswersAsSeen
<1>7. job[k].uri.by = job[k].seen.issuer
  BY <1>6 DEF AsSeen
<1> QED
  BY <1>2, <1>3, <1>4, <1>5, <1>6, <1>7 DEF Found

LEMMA Landed ==
  ASSUME IssuingInv, NEW k \in Workers, Land(k)
  PROVE  /\ Found(k) /\ job[k].status \in {"Approved", "Rejected"}
         /\ creq' = [creq EXCEPT ![job[k].q].status = job[k].status]
         /\ token' = [token EXCEPT ![job[k].mint].uri = job[k].uri]
<1>1. Found(k) /\ job[k].status \in {"Approved", "Rejected", None}
  BY LandFinds DEF Land, Lands
<1> QED
  BY <1>1 DEF Land, Written, WithUri

\* The history of crossed answers, after the worker has sent one.
LEMMA CrossingKeeps ==
  ASSUME IssuingInv, NEW k \in Workers, Found(k),
         crossed' = Crossing(job[k]), job' = [job EXCEPT ![k] = Idle]
  PROVE  /\ job' \in [Workers -> {Idle} \cup LoadedJob \cup SentJob] /\ AnswersAsSeen'
         /\ crossed' \subseteq Mints
         /\ \A x \in Mints \ {job[k].mint} : x \in crossed' <=> x \in crossed
         /\ job[k].mint \notin crossed' => job[k].uri.for \in {None, token[job[k].mint].owner}
<1> DEFINE q == job[k].q
           m == job[k].mint
           seen == job[k].seen
<1>1. /\ m \in Mints /\ creq[q] \in CredentialRequest /\ token[m].owner = creq[q].owner
      /\ job[k].uri.for \in {None, seen.owner}
      /\ crossed \subseteq Mints
      /\ crossed' = IF [creq[q] EXCEPT !.status = seen.status] = seen
                    THEN crossed \ {m} ELSE crossed \cup {m}
  BY DEF Found, AsSeen, Crossing, IssuingInv, WorkTypeOK
<1>2. [creq[q] EXCEPT !.status = seen.status].owner = creq[q].owner
  BY <1>1 DEF CredentialRequest
<1>3. job' \in [Workers -> {Idle} \cup LoadedJob \cup SentJob] /\ AnswersAsSeen'
  <2>1. /\ job' \in [Workers -> {Idle} \cup LoadedJob \cup SentJob]
        /\ job'[k].phase = "idle" /\ \A x \in Workers \ {k} : job'[x] = job[x]
    BY DEF IssuingInv, WorkTypeOK, Idle
  <2> QED
    BY <2>1 DEF IssuingInv, AnswersAsSeen
<1> HIDE DEF q, m, seen
<1>4. m \notin crossed' => seen.owner = creq[q].owner
  BY <1>1, <1>2
<1>5. /\ crossed' \subseteq Mints
      /\ \A x \in Mints \ {m} : x \in crossed' <=> x \in crossed
      /\ m \notin crossed' => job[k].uri.for \in {None, token[m].owner}
  BY <1>1, <1>4
<1> QED
  BY <1>3, <1>5 DEF m

LEMMA LandAmendedStep ==
  ASSUME IssuingInv, NEW k \in Workers, LandAmended(k)
  PROVE  Rest'
<1>1. /\ UpdateCredential(KeyOf[k], job[k].mint, job[k].q, job[k].seen.issuer, job[k].uri)
      /\ job[k].phase = "sent"
      /\ crossed' = Crossing(job[k]) /\ job' = [job EXCEPT ![k] = Idle]
  BY DEF LandAmended
<1>2. Found(k)
  <2>1. job[k].q # None
    BY <1>1, JobShape, IssuingAssumption DEF SentJob, IssuingInv, IssuingAssumption
  <2> QED
    BY <1>1, <2>1, LandFinds DEF UpdateCredential
<1>3. job[k].mint \in Mints /\ job[k].uri \in Documents
  BY <1>2 DEF Found
<1>4. /\ job' \in [Workers -> {Idle} \cup LoadedJob \cup SentJob] /\ AnswersAsSeen'
      /\ crossed' \subseteq Mints
      /\ \A x \in Mints \ {job[k].mint} : x \in crossed' <=> x \in crossed
      /\ job[k].mint \notin crossed' => job[k].uri.for \in {None, token[job[k].mint].owner}
  BY <1>1, <1>2, CrossingKeeps
<1> QED
  BY <1>1, <1>3, <1>4, UpdateCredentialStep

LEMMA LandStep ==
  ASSUME IssuingInv, NEW k \in Workers, Land(k)
  PROVE  Rest'
<1> DEFINE q == job[k].q
           m == job[k].mint
           seen == job[k].seen
           status == job[k].status
           uri == job[k].uri
<1>1. /\ q \in CredentialRequests /\ m \in Mints /\ seen \in CredentialRequest
      /\ status \in {"Approved", "Rejected"} /\ uri \in Documents
      /\ status = "Approved" => uri.for = seen.owner
      /\ status = "Rejected" => uri.for = None
      /\ LiveToken(m) /\ creq[q] # Closed /\ creq[q] \in CredentialRequest
      /\ creq[q].mint = m /\ token[m].owner = creq[q].owner
      /\ creq' = [creq EXCEPT ![q].status = status]
      /\ token' = [token EXCEPT ![m].uri = uri]
  BY Landed DEF Found, AsSeen
<1>2. /\ writer' = [writer EXCEPT ![m] = q]
      /\ UNCHANGED <<spec, asked>>
  BY DEF Land
<1>7. /\ job' \in [Workers -> {Idle} \cup LoadedJob \cup SentJob] /\ AnswersAsSeen'
      /\ crossed' \subseteq Mints
      /\ \A x \in Mints \ {m} : x \in crossed' <=> x \in crossed
      /\ m \notin crossed' => uri.for \in {None, token[m].owner}
  BY Landed, CrossingKeeps DEF Land
<1> HIDE DEF q, m, seen, status, uri
<1>3. status \in RequestStatus /\ uri # Empty /\ seen.owner \in Users /\ None \notin Users
  BY <1>1, DocumentShape, RequestShape, IssuingAssumption DEF IssuingAssumption, RequestStatus
<1>4. /\ creq' \in [CredentialRequests -> CredentialRequest \cup {Closed}]
      /\ \A x \in CredentialRequests \ {q} : creq'[x] = creq[x]
      /\ creq'[q] # Closed /\ creq'[q].status = status
      /\ creq'[q].owner = creq[q].owner /\ creq'[q].mint = m
      /\ creq'[q].issuer = creq[q].issuer
  BY <1>1, <1>3, StatusKeeps
<1>5. /\ token' \in [Mints -> TokenAccount \cup {Fresh, Burnt}]
      /\ \A x \in Mints \ {m} : token'[x] = token[x]
      /\ token'[m] \in TokenAccount /\ token'[m] # Fresh /\ token'[m].uri = uri
      /\ token'[m].owner = token[m].owner /\ token'[m].frozen = token[m].frozen
  BY <1>1, UriKeeps
<1>6. /\ writer' \in [Mints -> CredentialRequests \cup {None}]
      /\ writer'[m] = q /\ \A x \in Mints \ {m} : writer'[x] = writer[x]
  BY <1>1, <1>2 DEF IssuingInv, WorkTypeOK
<1>8. IssuingTypeOK' /\ WorkTypeOK'
  BY <1>2, <1>4, <1>5, <1>6, <1>7 DEF IssuingInv, IssuingTypeOK, WorkTypeOK
<1>10. TokensFrozen'
  BY <1>1, <1>5, <1>6 DEF IssuingInv, TokensFrozen, LiveToken
<1>11. RequestsOfOwners'
  <2> SUFFICES ASSUME NEW x \in CredentialRequests, creq'[x] # Closed
               PROVE  /\ token'[creq'[x].mint] # Fresh
                      /\ token'[creq'[x].mint] \in TokenAccount =>
                           token'[creq'[x].mint].owner = creq'[x].owner
                      /\ <<creq'[x].mint, creq'[x].issuer>> \in asked'
    BY DEF RequestsOfOwners, LiveToken
  <2>1. /\ creq[x] # Closed /\ creq'[x].mint = creq[x].mint /\ creq'[x].owner = creq[x].owner
        /\ creq'[x].issuer = creq[x].issuer
    BY <1>1, <1>4
  <2>2. creq[x].mint \in Mints
    BY <2>1, RequestShape DEF IssuingInv, IssuingTypeOK
  <2>3. LiveToken(m) /\ asked' = asked
    BY <1>1, <1>2
  <2> QED
    BY <1>5, <2>1, <2>2, <2>3 DEF IssuingInv, RequestsOfOwners, LiveToken
<1>12. AnswerIsWritten'
  <2> SUFFICES ASSUME NEW x \in Mints, token'[x] \in TokenAccount, writer'[x] # None,
                      NEW r, r = creq'[writer'[x]], r # Closed, r.mint = x
               PROVE  /\ r.status = "Pending" => token'[x].uri = Empty
                      /\ r.status = "Approved" => token'[x].uri # Empty /\ token'[x].uri.for # None
                      /\ r.status = "Rejected" => token'[x].uri # Empty /\ token'[x].uri.for = None
    BY DEF AnswerIsWritten, LiveToken
  <2>1. CASE x = m
    BY <1>1, <1>3, <1>4, <1>5, <1>6, <2>1
  <2>2. CASE x # m
    <3>1. writer'[x] = writer[x] /\ token'[x] = token[x] /\ writer[x] \in CredentialRequests
      BY <1>5, <1>6, <2>2 DEF IssuingInv, WorkTypeOK
    <3>2. writer[x] # q
      BY <1>4, <2>2, <3>1
    <3> QED
      BY <1>4, <3>1, <3>2 DEF IssuingInv, AnswerIsWritten, LiveToken
  <2> QED
    BY <2>1, <2>2
<1>13. NamesOwner'
  BY <1>5, <1>7 DEF IssuingInv, NamesOwner, LiveToken
<1> QED
  BY <1>7, <1>8, <1>10, <1>11, <1>12, <1>13 DEF Rest

LEMMA IssuerStepKeeps ==
  ASSUME IssuingInv, IssuerStep
  PROVE  Rest'
<1>1. UNCHANGED <<token, spec, creq, asked, job, writer, crossed>>
  BY DEF IssuerStep, credentialVars
<1> QED
  BY <1>1 DEF Rest, IssuingInv, IssuingTypeOK, WorkTypeOK, TokensFrozen, RequestsOfOwners,
     AnswersAsSeen, AnswerIsWritten, NamesOwner, LiveToken

-----------------------------------------------------------------------------
\* The steps of credentials, one by one; everything but the steps of issuers
\* leaves the registry alone.
LEMMA IssuingCases ==
  ASSUME IssuingNext
  PROVE  \/ \E w \in Users, m \in Mints : CreateCredential(w, m) \/ DeleteCredential(w, m)
         \/ \E w \in Users, m \in Mints, to \in Users : Transfer(w, m, to)
         \/ \E w \in Users, s \in Specs, m \in Mints : RequestCredential(w, s, m)
         \/ \E w \in Signers, s \in Specs : CreateCredentialSpec(w, s) \/ DeleteCredentialSpec(w, s)
         \/ \E w \in Signers, q \in CredentialRequests : DeleteCredentialRequest(w, q)
         \/ \E w \in Admins, m \in Mints, u \in Users \cup {None} : AdminUpdate(w, m, u)
         \/ \E k \in Workers, status \in RequestStatus : UpdateStatus(k, status)
         \/ IssuerStep
         \/ \E k \in Workers, q \in CredentialRequests : LoadCredentialRequest(k, q)
         \/ \E k \in Workers :
              ApproveCredentialRequest(k) \/ RejectCredentialRequest(k) \/ Amend(k)
         \/ \E k \in Workers : Land(k) \/ LandAmended(k) \/ Drop(k)
BY DEF IssuingNext, HolderStep, ManagerStep, WorkerStep, AdminUpdate

LEMMA RegistryKept ==
  ASSUME IssuingInv, IssuingNext
  PROVE  RegistryTypeOK'
<1>1. CASE IssuerStep
  BY <1>1, IssuerTypeStep DEF IssuerStep, IssuingInv
<1>2. CASE UNCHANGED registryVars
  BY <1>2 DEF IssuingInv, RegistryTypeOK, registryVars
<1>3. IssuerStep \/ UNCHANGED registryVars
  BY IssuingCases DEF CreateCredential, DeleteCredential, Transfer, RequestCredential,
     CreateCredentialSpec, DeleteCredentialSpec, DeleteCredentialRequest, UpdateCredential,
     AdminUpdate, LoadCredentialRequest, ApproveCredentialRequest, RejectCredentialRequest, Amend,
     Send, Land, LandAmended, Drop, UpdateStatus, UpdateCredentialRequest, Worker, quiet
<1> QED
  BY <1>1, <1>2, <1>3

LEMMA IssuingInvStep ==
  ASSUME IssuingInv, [IssuingNext]_issuingVars
  PROVE  IssuingInv'
<1>1. CASE IssuingNext
  <2>1. Rest'
    BY <1>1, IssuingCases, CreateCredentialStep, DeleteCredentialStep, NoTransfer,
       RequestCredentialStep, SpecStep, DeleteCredentialRequestStep, AdminUpdateStep,
       IssuerStepKeeps, LoadStep, PrepareStep, LandStep, LandAmendedStep, DropStep,
       UpdateStatusStep
  <2> QED
    BY <1>1, <2>1, RegistryKept DEF Rest, IssuingInv
<1>2. CASE UNCHANGED issuingVars
  BY <1>2 DEF issuingVars, registryVars, credentialVars, IssuingInv, RegistryTypeOK,
     IssuingTypeOK, WorkTypeOK, TokensFrozen, RequestsOfOwners, AnswersAsSeen, AnswerIsWritten,
     NamesOwner, LiveToken
<1> QED
  BY <1>1, <1>2

LEMMA IssuingInvInit ==
  RegistryInit /\ IssuingInit /\ spec = [s \in Specs |-> Closed] => IssuingInv
<1> SUFFICES ASSUME RegistryInit, IssuingInit, spec = [s \in Specs |-> Closed]
             PROVE  IssuingInv
  OBVIOUS
<1>1. RegistryTypeOK
  BY RegistryTypeInit
<1>2. IssuingTypeOK /\ WorkTypeOK
  BY DEF IssuingInit, IssuingTypeOK, WorkTypeOK
<1>3. Fresh \notin TokenAccount
  BY IssuingAssumption DEF IssuingAssumption
<1>4. TokensFrozen /\ RequestsOfOwners /\ AnswerIsWritten /\ NamesOwner
  BY <1>3 DEF IssuingInit, TokensFrozen, RequestsOfOwners, AnswerIsWritten, NamesOwner, LiveToken
<1>5. AnswersAsSeen
  BY DEF IssuingInit, AnswersAsSeen, Idle
<1> QED
  BY <1>1, <1>2, <1>4, <1>5 DEF IssuingInv

\* Every account of credentials stays of its type, whatever holders, managers and
\* clients do (state.rs, CredentialRequest and CredentialSpec).
THEOREM IssuingTypeCorrect == IssuingSpec => []IssuingTypeOK
<1>1. IssuingInv => IssuingTypeOK
  BY DEF IssuingInv
<1> QED
  BY <1>1, IssuingInvInit, IssuingInvStep, PTL DEF IssuingSpec

\* issuerClient.ts:173-233.  The answer a request claims is on its token, however
\* many clients answer it, and whatever becomes of the request and its issuer.
THEOREM AnswersWritten == IssuingSpec => []AnswerIsWritten
<1>1. IssuingInv => AnswerIsWritten
  BY DEF IssuingInv
<1> QED
  BY <1>1, IssuingInvInit, IssuingInvStep, PTL DEF IssuingSpec

\* credentialManager.ts:257-279.  What an issuer's client wrote, as an answer or as
\* a later update, and a wallet lists as issued, is issued to its user, but where
\* a request changed between the reading and the transaction; whatever admins
\* write meanwhile and statuses are set alone.
THEOREM SubjectsWritten == IssuingSpec => []WrittenToSubject
<1>1. IssuingInv => WrittenToSubject
  <2> SUFFICES ASSUME IssuingInv, NEW u \in Users, NEW c \in LoadAll(u, FALSE),
                      c.credential.status = "verified", c.credential.by \in Issuers,
                      c.address \notin crossed
               PROVE  c.credential.subject = u
    BY DEF WrittenToSubject
  <2> PICK m \in Listed(u, FALSE) : c = [address |-> m, credential |-> CredentialInfo(token[m].uri)]
    BY DEF LoadAll
  <2>0. /\ c.address = m /\ c.credential = CredentialInfo(token[m].uri)
    OBVIOUS
  <2>1. m \in Mints /\ LiveToken(m) /\ token[m].owner = u
    BY DEF Listed
  <2>2. token[m].uri # Empty /\ token[m].uri.for # None
    BY <2>0 DEF CredentialInfo
  <2>3. CredentialInfo(token[m].uri) =
          [status |-> "verified", by |-> token[m].uri.by, subject |-> token[m].uri.for]
    BY <2>2 DEF CredentialInfo
  <2>4. token[m].uri.by \in Issuers /\ c.credential.subject = token[m].uri.for
    BY <2>0, <2>3
  <2>5. token[m].uri.for = u
    BY <2>0, <2>1, <2>2, <2>4 DEF IssuingInv, NamesOwner
  <2> QED
    BY <2>4, <2>5
<1> QED
  BY <1>1, IssuingInvInit, IssuingInvStep, PTL DEF IssuingSpec

-----------------------------------------------------------------------------
(* The book of credentials: every step of the program and its clients is a     *)
(* step of the book, or none.                                                *)

HolderOf(m) == IF LiveToken(m) THEN token[m].owner ELSE token[m]
ContentOf(m) == IF LiveToken(m) THEN token[m].uri ELSE Empty

\* What the book sees of a step that leaves a token as it is.
LEMMA BookStutters ==
  ASSUME UNCHANGED <<token, asked>>
  PROVE  UNCHANGED Book!bookVars
BY DEF Book!bookVars, LiveToken

LEMMA BookInitially ==
  ASSUME IssuingInit
  PROVE  Book!BookInit
<1>1. Fresh \notin TokenAccount
  BY IssuingAssumption DEF IssuingAssumption
<1> QED
  BY <1>1 DEF IssuingInit, Book!BookInit, LiveToken

LEMMA CreateTakes ==
  ASSUME IssuingInv, NEW w \in Users, NEW m \in Mints, CreateCredential(w, m)
  PROVE  Book!Take(m)
<1> DEFINE new == [owner |-> w, frozen |-> MintedFrozen, uri |-> Empty]
<1>1. new \in TokenAccount /\ new.owner = w /\ new.uri = Empty
  BY DEF TokenAccount, MintedFrozen, FrozenByDelegate
<1>2. /\ token' = [token EXCEPT ![m] = new] /\ token[m] = Fresh /\ asked' = asked
      /\ Fresh \notin TokenAccount
  BY IssuingAssumption DEF CreateCredential, IssuingAssumption
<1> HIDE DEF new
<1>3. /\ token'[m] = new /\ \A x \in Mints \ {m} : token'[x] = token[x]
  BY <1>1, <1>2 DEF IssuingInv, IssuingTypeOK
<1>4. [x \in Mints |-> HolderOf(x)]' = [[x \in Mints |-> HolderOf(x)] EXCEPT ![m] = w]
  BY <1>1, <1>3 DEF HolderOf, LiveToken
<1>5. [x \in Mints |-> ContentOf(x)]' = [x \in Mints |-> ContentOf(x)]
  BY <1>1, <1>2, <1>3 DEF ContentOf, LiveToken
<1> QED
  BY <1>2, <1>4, <1>5 DEF Book!Take, HolderOf, ContentOf, LiveToken

LEMMA DeleteBurns ==
  ASSUME IssuingInv, NEW w \in Users, NEW m \in Mints, DeleteCredential(w, m)
  PROVE  Book!Burn(m)
<1>1. /\ token'[m] = Burnt /\ \A x \in Mints \ {m} : token'[x] = token[x]
      /\ LiveToken(m) /\ asked' = asked
  BY DEF DeleteCredential, AfterBurn, AllBurnt, IssuingInv, IssuingTypeOK
<1>2. Burnt \notin TokenAccount /\ token[m].owner \in Users
  BY <1>1, IssuingAssumption, TokenShape DEF IssuingAssumption, LiveToken
<1>3. [x \in Mints |-> HolderOf(x)]' = [[x \in Mints |-> HolderOf(x)] EXCEPT ![m] = Burnt]
  <2>1. HolderOf(m)' = Burnt /\ \A x \in Mints \ {m} : HolderOf(x)' = HolderOf(x)
    BY <1>1, <1>2 DEF HolderOf, LiveToken
  <2> QED
    BY <2>1
<1>4. [x \in Mints |-> ContentOf(x)]' = [[x \in Mints |-> ContentOf(x)] EXCEPT ![m] = Empty]
  <2>1. ContentOf(m)' = Empty /\ \A x \in Mints \ {m} : ContentOf(x)' = ContentOf(x)
    BY <1>1, <1>2 DEF ContentOf, LiveToken
  <2> QED
    BY <2>1
<1>5. [x \in Mints |-> HolderOf(x)][m] \in Users
  BY <1>1, <1>2 DEF HolderOf
<1> QED
  BY <1>1, <1>3, <1>4, <1>5 DEF Book!Burn, Book!Held, HolderOf, ContentOf, LiveToken

\* A new uri is a new content with the same holder.
LEMMA UriMaps ==
  ASSUME IssuingInv, NEW m \in Mints, LiveToken(m), NEW uri \in Documents \cup {Empty},
         token' = [token EXCEPT ![m].uri = uri]
  PROVE  /\ [x \in Mints |-> HolderOf(x)][m] \in Users
         /\ [x \in Mints |-> HolderOf(x)]' = [x \in Mints |-> HolderOf(x)]
         /\ [x \in Mints |-> ContentOf(x)]' = [[x \in Mints |-> ContentOf(x)] EXCEPT ![m] = uri]
<1>1. /\ \A x \in Mints \ {m} : token'[x] = token[x]
      /\ token'[m] \in TokenAccount /\ token'[m].uri = uri /\ token'[m].owner = token[m].owner
  BY UriKeeps
<1>2. token[m] \in TokenAccount /\ token[m].owner \in Users
  BY TokenShape DEF LiveToken
<1>3. [x \in Mints |-> HolderOf(x)]' = [x \in Mints |-> HolderOf(x)]
  BY <1>1, <1>2 DEF HolderOf, LiveToken
<1>4. [x \in Mints |-> ContentOf(x)]' = [[x \in Mints |-> ContentOf(x)] EXCEPT ![m] = uri]
  <2>1. ContentOf(m)' = uri /\ \A x \in Mints \ {m} : ContentOf(x)' = ContentOf(x)
    BY <1>1, <1>2 DEF ContentOf, LiveToken
  <2> QED
    BY <2>1
<1> QED
  BY <1>2, <1>3, <1>4 DEF HolderOf, LiveToken

LEMMA RequestAsks ==
  ASSUME IssuingInv, NEW w \in Users, NEW s \in Specs, NEW m \in Mints,
         RequestCredential(w, s, m)
  PROVE  Book!Ask(m)
<1>1. /\ LiveToken(m) /\ token' = [token EXCEPT ![m].uri = Empty]
      /\ SpecIssuer(s) \in Issuers /\ asked' = asked \cup {<<m, SpecIssuer(s)>>}
  BY DEF RequestCredential, SpecIssuer, Specs
<1> QED
  BY <1>1, UriMaps DEF Book!Ask, Book!Held, HolderOf, ContentOf, LiveToken

LEMMA AdminCorrects ==
  ASSUME IssuingInv, NEW w \in Admins, NEW m \in Mints, NEW u \in Users \cup {None},
         AdminUpdate(w, m, u)
  PROVE  Book!Correct(m)
<1> DEFINE uri == [by |-> w, for |-> u]
<1>1. LiveToken(m) /\ token' = [token EXCEPT ![m].uri = uri] /\ asked' = asked
  BY DEF AdminUpdate, UpdateCredential
<1>2. uri \in Documents /\ uri.by \notin Issuers
  BY AdminDocument
<1> HIDE DEF uri
<1> QED
  BY <1>1, <1>2, UriMaps DEF Book!Correct, Book!Held, HolderOf, ContentOf, LiveToken

LEMMA LandAnswers ==
  ASSUME IssuingInv, NEW k \in Workers, Found(k), NEW m \in Mints, m = job[k].mint,
         token' = [token EXCEPT ![job[k].mint].uri = job[k].uri], asked' = asked
  PROVE  Book!Answer(m)
<1> DEFINE uri == job[k].uri
<1>1. /\ uri \in Documents /\ LiveToken(m)
      /\ <<m, uri.by>> \in asked /\ token' = [token EXCEPT ![m].uri = uri]
  BY DEF Found
<1> HIDE DEF uri
<1> QED
  BY <1>1, UriMaps DEF Book!Answer, Book!Held, HolderOf, ContentOf, LiveToken

LEMMA LandingAnswers ==
  ASSUME IssuingInv, NEW k \in Workers, Land(k) \/ LandAmended(k)
  PROVE  \E m \in Mints : Book!Answer(m)
<1>1. CASE Land(k)
  <2>1. Found(k) /\ token' = [token EXCEPT ![job[k].mint].uri = job[k].uri] /\ asked' = asked
    BY <1>1, Landed DEF Land
  <2>2. job[k].mint \in Mints
    BY <2>1 DEF Found
  <2> QED
    BY <2>1, <2>2, LandAnswers
<1>2. CASE LandAmended(k)
  <2>1. /\ UpdateCredential(KeyOf[k], job[k].mint, job[k].q, job[k].seen.issuer, job[k].uri)
        /\ job[k].phase = "sent"
    BY <1>2 DEF LandAmended
  <2>2. job[k].q # None
    BY <2>1, JobShape, IssuingAssumption DEF SentJob, IssuingInv, IssuingAssumption
  <2>3. Found(k) /\ token' = [token EXCEPT ![job[k].mint].uri = job[k].uri] /\ asked' = asked
    BY <2>1, <2>2, LandFinds DEF UpdateCredential
  <2>4. job[k].mint \in Mints
    BY <2>3 DEF Found
  <2> QED
    BY <2>3, <2>4, LandAnswers
<1> QED
  BY <1>1, <1>2

LEMMA BookStep ==
  ASSUME IssuingInv, [IssuingNext]_issuingVars
  PROVE  [Book!BookNext]_Book!bookVars
<1>1. CASE \E w \in Users, m \in Mints : CreateCredential(w, m) \/ DeleteCredential(w, m)
  BY <1>1, CreateTakes, DeleteBurns DEF Book!BookNext
<1>2. CASE \E w \in Users, s \in Specs, m \in Mints : RequestCredential(w, s, m)
  BY <1>2, RequestAsks DEF Book!BookNext
<1>3. CASE \E w \in Admins, m \in Mints, u \in Users \cup {None} : AdminUpdate(w, m, u)
  BY <1>3, AdminCorrects DEF Book!BookNext
<1>4. CASE \E k \in Workers : Land(k) \/ LandAmended(k)
  BY <1>4, LandingAnswers DEF Book!BookNext
<1>6. CASE UNCHANGED <<token, asked>>
  BY <1>6, BookStutters
<1>7. CASE UNCHANGED issuingVars
  BY <1>6, <1>7 DEF issuingVars, credentialVars
<1>8. CASE \E w \in Signers, s \in Specs : CreateCredentialSpec(w, s) \/ DeleteCredentialSpec(w, s)
  BY <1>6, <1>8 DEF CreateCredentialSpec, DeleteCredentialSpec
<1>9. CASE \E w \in Signers, q \in CredentialRequests : DeleteCredentialRequest(w, q)
  BY <1>6, <1>9 DEF DeleteCredentialRequest
<1>10. CASE IssuerStep
  BY <1>6, <1>10 DEF IssuerStep, credentialVars
<1>11. CASE \E k \in Workers, q \in CredentialRequests : LoadCredentialRequest(k, q)
  BY <1>6, <1>11 DEF LoadCredentialRequest, Worker, credentialVars
<1>12. CASE \E k \in Workers : \/ ApproveCredentialRequest(k) \/ RejectCredentialRequest(k)
                              \/ Amend(k) \/ Drop(k)
  BY <1>6, <1>12 DEF ApproveCredentialRequest, RejectCredentialRequest, Amend, Send, Drop, Worker,
     credentialVars
<1>13. CASE \E k \in Workers, status \in RequestStatus : UpdateStatus(k, status)
  BY <1>6, <1>13 DEF UpdateStatus, UpdateCredentialRequest
<1>14. ASSUME IssuingNext
       PROVE  [Book!BookNext]_Book!bookVars
  BY <1>1, <1>2, <1>3, <1>4, <1>8, <1>9, <1>10, <1>11, <1>12, <1>13, <1>14,
     IssuingCases, NoTransfer
<1> QED
  BY <1>7, <1>14

\* programs/albus/src/instructions/credential.  The program and its clients
\* implement the book: a token stays with its first owner until he burns it, and
\* an issuer writes on it only after its owner has asked that issuer.
THEOREM BookKept == IssuingSpec => KeepsBook
<1>1. IssuingInit => Book!BookInit
  BY BookInitially
<1> QED
  BY <1>1, IssuingInvInit, IssuingInvStep, BookStep, PTL
  DEF IssuingSpec, KeepsBook, Book!BookSpec
=============================================================================
