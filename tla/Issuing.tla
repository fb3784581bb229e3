------------------------------- MODULE Issuing -------------------------------
(***************************************************************************)
(* Credentials: the life of the token that holds one, the requests a holder   *)
(* makes to an issuer, and the issuer's client (AlbusIssuerClient), which      *)
(* reads a request, prepares a document and sends it in one transaction, with   *)
(* the request's answer or alone, that may arrive when the request has changed. *)
(*                                                                           *)
(* A token is minted to its owner and frozen in the same transaction; only     *)
(* what is not frozen can be transferred.  The uri of its metadata stands for  *)
(* the document behind it: Empty while pending, or [by, for], a credential that *)
(* an issuer, or an admin, wrote on the token, for a user, or a rejection, for  *)
(* None.                                                                       *)
(***************************************************************************)
EXTENDS Registry

CONSTANTS
  Users,          \* who holds credentials
  Mints,          \* token mints; a mint is used once
  SpecCodes,      \* codes of credential specifications
  Workers,        \* clients of issuers
  KeyOf,          \* worker -> the signer it works for
  MaxRequests,    \* bound on the requests of one specification
  MaxCalls,       \* bound on the calls in a behaviour, but those of a worker's job
  Fresh, Burnt,   \* a mint before and after its token
  Empty           \* the uri of a pending credential

Specs == Issuers \X SpecCodes
SpecIssuer(s) == s[1]
CredentialRequests == Specs \X Signers    \* by specification and authority
SpecOf(q) == q[1]
AuthorityOf(q) == q[2]

RequestStatus == {"Pending", "InProgress", "Approved", "Rejected"}
Documents == [by: Issuers \cup Admins, for: Users \cup {None}]
TokenAccount == [owner: Users, frozen: BOOLEAN, uri: Documents \cup {Empty}]
CredentialRequest == [owner: Users, mint: Mints, issuer: Issuers, status: RequestStatus]

ASSUME IssuingAssumption ==
  /\ Users \subseteq Signers
  /\ KeyOf \in [Workers -> Signers]
  /\ MaxRequests \in Nat /\ MaxCalls \in Nat
  /\ Issuers \cap Signers = {}
  /\ Fresh \notin TokenAccount /\ Burnt \notin TokenAccount /\ Fresh # Burnt
  /\ Fresh \notin Users /\ Burnt \notin Users
  /\ Empty \notin Documents
  /\ None \notin Users /\ None \notin CredentialRequests /\ None \notin RequestStatus
  /\ Closed \notin CredentialRequest /\ Closed \notin Nat

VARIABLES
  token,      \* the token, its metadata and edition, per mint
  spec,       \* credential specifications: how many requests were made
  creq,       \* credential requests
  job,        \* per worker: the request it looks at and what it sends
  asked,      \* history: pairs of a mint and an issuer its owner asked
  writer,     \* history, per mint: the request whose status went with its uri
  calls,      \* calls so far
  crossed     \* history: mints answered by a worker whose request had changed

credentialVars == <<token, spec, creq, asked>>
issuingVars == <<registryVars, credentialVars, job, writer, calls, crossed>>
quiet == <<registryVars, job, crossed>>

LiveToken(m) == token[m] \in TokenAccount
Idle == [phase |-> "idle"]

IssuingInit ==
  /\ token = [m \in Mints |-> Fresh]
  /\ creq = [q \in CredentialRequests |-> Closed]
  /\ job = [k \in Workers |-> Idle]
  /\ asked = {}
  /\ writer = [m \in Mints |-> None]
  /\ calls = 0
  /\ crossed = {}

-----------------------------------------------------------------------------
\* The token.

KeptOpen == FALSE                 \* fault: the last call of the handler is missing
FrozenByDelegate == TRUE
MintedFrozen == FrozenByDelegate

CreateCredential(w, m) ==
  /\ token[m] = Fresh
  /\ token' = [token EXCEPT ![m] = [owner |-> w, frozen |-> MintedFrozen, uri |-> Empty]]
  /\ UNCHANGED <<quiet, spec, creq, asked, writer>>

\* Thawed and burnt; burning takes the owner's signature.
MetadataLeft(m) == [token[m] EXCEPT !.owner = None]   \* fault: only the token account goes
AllBurnt(m) == Burnt
AfterBurn(m) == AllBurnt(m)

DeleteCredential(w, m) ==
  /\ LiveToken(m)
  /\ w = token[m].owner
  /\ token' = [token EXCEPT ![m] = AfterBurn(m)]
  /\ UNCHANGED <<quiet, spec, creq, asked, writer>>

\* The token program, outside of this repository.
Transfer(w, m, to) ==
  /\ LiveToken(m)
  /\ w = token[m].owner /\ ~token[m].frozen
  /\ token' = [token EXCEPT ![m].owner = to]
  /\ UNCHANGED <<quiet, spec, creq, asked, writer>>

-----------------------------------------------------------------------------
\* Specifications and requests.

MayManage(w, i) == issuer[i] # Closed /\ (w \in Admins \/ w = issuer[i].authority)

CreateCredentialSpec(w, s) ==
  /\ MayManage(w, SpecIssuer(s))
  /\ spec[s] = Closed
  /\ spec' = [spec EXCEPT ![s] = 0]
  /\ UNCHANGED <<quiet, token, creq, asked, writer>>

DeleteCredentialSpec(w, s) ==
  /\ MayManage(w, SpecIssuer(s))
  /\ spec[s] # Closed
  /\ spec' = [spec EXCEPT ![s] = Closed]
  /\ UNCHANGED <<quiet, token, creq, asked, writer>>

\* The owner of the credential signs next to the authority of the request, which
\* may be somebody else.  One account per authority and specification: a new
\* request takes the place of the earlier one.  The credential is emptied.
RequestCredential(w, s, m) ==
  /\ spec[s] # Closed /\ spec[s] < MaxRequests
  /\ issuer[SpecIssuer(s)] # Closed
  /\ LiveToken(m)
  /\ spec' = [spec EXCEPT ![s] = @ + 1]
  /\ creq' = [creq EXCEPT ![<<s, w>>] =
       [owner |-> token[m].owner, mint |-> m, issuer |-> SpecIssuer(s), status |-> "Pending"]]
  /\ token' = [token EXCEPT ![m].uri = Empty]
  /\ asked' = asked \cup {<<m, SpecIssuer(s)>>}
  /\ writer' = [writer EXCEPT ![m] = <<s, w>>]
  /\ UNCHANGED quiet

DeleteCredentialRequest(w, q) ==
  /\ creq[q] # Closed
  /\ w \in Admins \/ w = AuthorityOf(q)
  /\ creq' = [creq EXCEPT ![q] = Closed]
  /\ UNCHANGED <<quiet, token, spec, asked, writer>>

-----------------------------------------------------------------------------
\* Answers.  The issuer named by the request, through its authority, sets its
\* status and writes to its mint: two instructions, each with its own checks.

MayAnswer(w, q, i) ==
  /\ creq[q] # Closed
  /\ creq[q].issuer = i
  /\ issuer[i] # Closed /\ issuer[i].authority = w

RequestedMint(w, m, q, i) ==
  /\ MayAnswer(w, q, i)
  /\ m = creq[q].mint
  /\ ~issuer[i].is_disabled
MayWrite(w, m, q, i) == RequestedMint(w, m, q, i)

UpdateCredentialRequest(w, q, i, status) ==
  /\ MayAnswer(w, q, i)
  /\ creq' = [creq EXCEPT ![q].status = status]
  /\ UNCHANGED <<registryVars, token, spec, asked>>

\* Without a request, an admin; whatever the uri says.
UpdateCredential(w, m, q, i, uri) ==
  /\ LiveToken(m)
  /\ IF q = None THEN w \in Admins ELSE MayWrite(w, m, q, i)
  /\ token' = [token EXCEPT ![m].uri = uri]
  /\ writer' = [writer EXCEPT ![m] = None]
  /\ UNCHANGED <<registryVars, spec, creq, asked>>

-----------------------------------------------------------------------------
\* AlbusIssuerClient.  A worker loads a request, takes its time to look at the
\* presentation and prepare the document, then sends it: the mint is read when
\* the transaction is built.

Worker(k, step) ==
  /\ job' = [job EXCEPT ![k] = step]
  /\ UNCHANGED <<registryVars, credentialVars, writer, crossed>>

FindCredentialRequests(i) == {q \in CredentialRequests : creq[q] # Closed /\ creq[q].issuer = i}

LoadCredentialRequest(k, q) ==
  /\ job[k] = Idle
  /\ \E i \in Issuers : q \in FindCredentialRequests(i)
  /\ Worker(k, [phase |-> "loaded", q |-> q, seen |-> creq[q]])

ForAuthority(k) == AuthorityOf(job[k].q)   \* fault: the authority is taken for the owner
ForOwner(k) == job[k].seen.owner
SubjectFor(k) == ForOwner(k)

\* Status None: no instruction for the request.
Send(k, status, for) ==
  /\ job[k].phase = "loaded"
  /\ creq[job[k].q] # Closed
  /\ Worker(k, [phase |-> "sent", q |-> job[k].q, seen |-> job[k].seen,
                mint |-> creq[job[k].q].mint, status |-> status,
                uri |-> [by |-> job[k].seen.issuer, for |-> for]])

ApproveCredentialRequest(k) == Send(k, "Approved", SubjectFor(k))
RejectCredentialRequest(k) == Send(k, "Rejected", None)

\* updateCredential: a new document, or a rejection, and no answer.
Amend(k) == Send(k, None, SubjectFor(k)) \/ Send(k, None, None)

\* Both instructions, or neither.
OnlyStatus(old, m, uri) == old    \* fault: the second instruction is forgotten
WithUri(old, m, uri) == [old EXCEPT ![m].uri = uri]
Written(old, m, uri) == WithUri(old, m, uri)

Crossing(a) ==
  IF [creq[a.q] EXCEPT !.status = a.seen.status] = a.seen
  THEN crossed \ {a.mint} ELSE crossed \cup {a.mint}

Lands(k) ==
  LET a == job[k]
  IN /\ LiveToken(a.mint)
     /\ MayAnswer(KeyOf[k], a.q, a.seen.issuer)
     /\ MayWrite(KeyOf[k], a.mint, a.q, a.seen.issuer)

Land(k) ==
  LET a == job[k]
  IN /\ a.phase = "sent" /\ a.status # None
     /\ Lands(k)
     /\ creq' = [creq EXCEPT ![a.q].status = a.status]
     /\ token' = Written(token, a.mint, a.uri)
     /\ writer' = [writer EXCEPT ![a.mint] = a.q]
     /\ crossed' = Crossing(a)
     /\ job' = [job EXCEPT ![k] = Idle]
     /\ UNCHANGED <<registryVars, spec, asked>>

LandAmended(k) ==
  LET a == job[k]
  IN /\ a.phase = "sent" /\ a.status = None
     /\ UpdateCredential(KeyOf[k], a.mint, a.q, a.seen.issuer, a.uri)
     /\ crossed' = Crossing(a)
     /\ job' = [job EXCEPT ![k] = Idle]

\* The transaction fails or gets lost, the worker gives up.
Drop(k) == job[k] # Idle /\ Worker(k, Idle)

\* credentialRequest.update sends any status, alone: that the work has started,
\* but also an answer that nothing is written for.
UpdateStatus(k, status) ==
  /\ job[k].phase = "loaded"
  /\ UpdateCredentialRequest(KeyOf[k], job[k].q, job[k].seen.issuer, status)
  /\ writer' = [m \in Mints |-> IF writer[m] = job[k].q THEN None ELSE writer[m]]
  /\ UNCHANGED <<job, crossed>>

-----------------------------------------------------------------------------
\* What a wallet shows its user: the tokens it owns, each with the credential
\* behind its uri or, for want of one, with the status the uri spells.

CredentialInfo(uri) ==
  IF uri = Empty THEN [status |-> "pending"]
  ELSE IF uri.for = None THEN [status |-> "rejected", by |-> uri.by]
  ELSE [status |-> "verified", by |-> uri.by, subject |-> uri.for]

Listed(u, pending) ==
  {m \in Mints : LiveToken(m) /\ token[m].owner = u /\ (pending => token[m].uri = Empty)}

LoadAll(u, pending) ==
  {[address |-> m, credential |-> CredentialInfo(token[m].uri)] : m \in Listed(u, pending)}

-----------------------------------------------------------------------------
HolderStep(w) ==
  \/ \E m \in Mints : CreateCredential(w, m) \/ DeleteCredential(w, m)
  \/ \E m \in Mints, to \in Users : Transfer(w, m, to)
  \/ \E s \in Specs, m \in Mints : RequestCredential(w, s, m)

ManagerStep(w) ==
  \/ \E s \in Specs : CreateCredentialSpec(w, s) \/ DeleteCredentialSpec(w, s)
  \/ \E q \in CredentialRequests : DeleteCredentialRequest(w, q)
  \/ \E m \in Mints, u \in Users \cup {None} :
       /\ w \in Admins /\ UpdateCredential(w, m, None, None, [by |-> w, for |-> u])
       /\ UNCHANGED <<job, crossed>>

WorkerStep(k) ==
  \/ \E q \in CredentialRequests : LoadCredentialRequest(k, q)
  \/ ApproveCredentialRequest(k) \/ RejectCredentialRequest(k) \/ Amend(k)
  \/ Land(k) \/ LandAmended(k) \/ Drop(k)

\* Issuers come and go while requests to them are pending.
IssuerStep == IssuerNext /\ UNCHANGED <<credentialVars, job, writer, crossed>>

IssuingNext ==
  \/ /\ calls < MaxCalls /\ calls' = calls + 1
     /\ \/ \E w \in Users : HolderStep(w)
        \/ \E w \in Signers : ManagerStep(w)
        \/ \E k \in Workers, status \in RequestStatus : UpdateStatus(k, status)
        \/ IssuerStep
  \/ UNCHANGED calls /\ \E k \in Workers : WorkerStep(k)

IssuingSpec ==
  RegistryInit /\ IssuingInit /\ spec = [s \in Specs |-> Closed] /\ [][IssuingNext]_issuingVars

-----------------------------------------------------------------------------
IssuingTypeOK ==
  /\ token \in [Mints -> TokenAccount \cup {Fresh, Burnt}]
  /\ spec \in [Specs -> Nat \cup {Closed}]
  /\ creq \in [CredentialRequests -> CredentialRequest \cup {Closed}]
  /\ asked \subseteq Mints \X Issuers

\* issuerClient.ts:173-233.  However many workers answer, and however requests
\* are repeated or deleted meanwhile, a request that says Approved or Rejected
\* has that answer on its token, unless another request or an update took the
\* token over since, or the status was set alone.
AnswerIsWritten ==
  \A m \in Mints : LiveToken(m) /\ writer[m] # None =>
    LET q == creq[writer[m]]
    IN q # Closed /\ q.mint = m =>
         /\ q.status = "Pending" => token[m].uri = Empty
         /\ q.status = "Approved" => token[m].uri # Empty /\ token[m].uri.for # None
         /\ q.status = "Rejected" => token[m].uri # Empty /\ token[m].uri.for = None

\* credentialManager.ts:257-279, issuerClient.ts:141-213.  What an issuer's client
\* wrote, with an answer or later, and a wallet shows its user as issued to
\* somebody, is issued to him, unless the request had changed between the time
\* its document was prepared for and the time it was written.  An admin's
\* update may name anybody.
WrittenToSubject ==
  \A u \in Users : \A c \in LoadAll(u, FALSE) :
    /\ c.credential.status = "verified" /\ c.credential.by \in Issuers
    /\ c.address \notin crossed
    => c.credential.subject = u

\* The promises of the credentials, kept by the program and its clients.
Book == INSTANCE CredentialBook WITH
  By <- LAMBDA c : c.by,
  Contents <- Documents,
  Nobody <- Fresh,
  holder <- [m \in Mints |-> IF LiveToken(m) THEN token[m].owner ELSE token[m]],
  content <- [m \in Mints |-> IF LiveToken(m) THEN token[m].uri ELSE Empty],
  consent <- asked

\* A credential never leaves its holder but to be burnt, and only an issuer its
\* holder asked, or an admin, ever writes on it.
KeepsBook == Book!BookSpec
=============================================================================
