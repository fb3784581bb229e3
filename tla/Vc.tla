--------------------------------- MODULE Vc ---------------------------------
(***************************************************************************)
(* Verifiable credentials and presentations: an issuer signs the root of a    *)
(* credential's claims tree, subjects are sealed to a reader and opened       *)
(* again, a holder signs a presentation of credentials, and each is verified  *)
(* against what the DIDs resolve to at that time.  The root of a claims tree   *)
(* is the sequence of the values in it (ClaimsTree, RootIsOfClaims): a value   *)
(* stands in it by its position, not by its claim's name.                     *)
(***************************************************************************)
EXTENDS Keys, FiniteSets
LOCAL INSTANCE SequencesExt

CONSTANTS
  Pairs,        \* key pairs
  Addresses,    \* issuer accounts
  ClaimSets,    \* claims to issue: sequences of [name, value]
  Types,        \* credential types of their own: <<>> or one
  Untils,       \* validUntil, 0 for none
  Challenges,
  MaxIssued, MaxEdits, MaxRegistrations     \* bounds

VARIABLES
  accounts,     \* the accounts on chain
  cache,        \* documentLoader's resolver keeps each document it has resolved
  wallet,       \* the holder's credentials, a sequence
  vp,           \* the presentation under way
  verdict,      \* what verifyPresentation last said of vp: None, TRUE, FALSE as records
  \* history
  signed,       \* what was signed by whom
  registered,   \* every key an account ever had
  edits         \* how often somebody changed a document on its way
vars == <<accounts, cache, wallet, vp, verdict, signed, registered, edits>>

-----------------------------------------------------------------------------
(* Credentials. *)

\* String(value).trim(): a value is its text and the spaces around it.
NormalizeClaims(claims) == [i \in DOMAIN claims |-> [claims[i] EXCEPT !.value.spaces = 0]]

Text(s) == [text |-> s, spaces |-> 0]
Time(n) == [time |-> n]
DefaultType == "VerifiableCredential"
AlbusType == "AlbusCredential"

\* meta.issuer and meta.type are ClaimValue objects, so flattenObject lists
\* their fields instead: the value and the hash option.
Hashed(name, value) ==
  <<[name |-> name \o ".value", value |-> value], [name |-> name \o ".opts.hash", value |-> Text("true")]>>
Meta(vc) ==
  (IF vc.issuer = None THEN <<>> ELSE Hashed("meta.issuer", [did |-> vc.issuer]))
  \o <<[name |-> "meta.validUntil", value |-> Time(vc.validUntil)],
       [name |-> "meta.validFrom", value |-> Time(IF vc.validFrom # 0 THEN vc.validFrom ELSE vc.issued)]>>
  \o (LET type == Last(vc.types) IN
      IF type \in {DefaultType, AlbusType} THEN <<>> ELSE Hashed("meta.type", Text(type)))
CreateCredentialTree(vc) == vc.subject.claims \o Meta(vc)
Root(vc) == LET tree == CreateCredentialTree(vc) IN [i \in DOMAIN tree |-> tree[i].value]

\* createCredentialProof: the self check always holds of an ideal signature.
CreateCredentialProof(root, secret, controller) ==
  [type |-> "BJJSignature2021", method |-> <<controller, Bjj(secret.of)>>, parsed |-> FALSE,
   value |-> Encode([kind |-> "proof", signature |-> Signed(secret, "bjj", root),
                     issuer |-> Bjj(secret.of)], 0)]
SignCredential(vc, secret) ==
  [vc EXCEPT !.proof = CreateCredentialProof(Root(vc), secret, vc.issuer)]
\* verifyCredentialProof and parseCredentialProof read the proof's text.
ParseCredentialProof(text) == Decode(text, 0)
VerifyCredentialProof(root, text, public) ==
  LET p == ParseCredentialProof(text)
  IN Holds(IF public = None THEN p.issuer ELSE public, root, p.signature)

Sealed(vc) == vc.subject.kind = "sealed"
EncryptCredential(vc, public, esk) ==
  IF Sealed(vc) THEN vc
  ELSE [vc EXCEPT !.subject = [kind |-> "sealed", encrypted |-> EncryptBytes(vc.subject, public, esk),
                               reader |-> public]]
DecryptCredentialIfNeeded(vc, secret, epk) ==
  IF ~Sealed(vc) THEN vc
  ELSE LET subject == DecryptBytes(vc.subject.encrypted, secret, epk)
       IN IF subject = Error THEN Error ELSE [vc EXCEPT !.subject = subject]

CreateVerifiableCredential(claims, opts) ==
  LET plain == [kind |-> "credential", types |-> <<DefaultType, AlbusType>> \o opts.type,
                issuer |-> opts.issuerDid, issued |-> 1, validFrom |-> opts.validFrom,
                validUntil |-> opts.validUntil, proof |-> None,
                subject |-> [kind |-> "plain", claims |-> NormalizeClaims(claims)]]
      vc == IF opts.secret = None THEN plain ELSE SignCredential(plain, opts.secret)
  IN IF opts.reader = None THEN vc ELSE EncryptCredential(vc, opts.reader, opts.esk)

\* validateCredentialPayload.
ValidateCredentialPayload(vc) ==
  /\ DefaultType \in ToSet(vc.types)
  /\ vc.subject.kind = "sealed" \/ vc.subject.claims # <<>>

\* As a slip would have it: the key the proof brings along is the one to trust.
KeyOfProof(document, proof) == Decode(proof.value, 0).issuer
\* The last Baby Jubjub key of the issuer's document.
IssuerKey(document, proof) ==
  LET found == {i \in DOMAIN document.methods : document.methods[i].type = "BJJVerificationKey2021"}
  IN IF found = {} THEN Error
     ELSE document.methods[CHOOSE i \in found : \A j \in found : j <= i].publicKeyBase58

(***************************************************************************)
(* verifyCredential: the opened credential, or an error.  The proof it was    *)
(* given is written to: the parsed key and signature stay in it.              *)
(***************************************************************************)
VerifyCredential(vc, secret) ==
  LET cred == IF ValidateCredentialPayload(vc) THEN DecryptCredentialIfNeeded(vc, secret, None) ELSE Error
      document == IF cred = Error THEN Error ELSE Resolve(cred.issuer, accounts)
      key == IF document = Error \/ cred.proof = None THEN Error ELSE IssuerKey(document, cred.proof)
  IN IF key = Error \/ ~VerifyCredentialProof(Root(cred), cred.proof.value, key) THEN Error
     ELSE [cred EXCEPT !.proof.parsed = TRUE]

-----------------------------------------------------------------------------
(* Presentations. *)

EncryptPresentation(p, public, esk) ==
  [p EXCEPT !.credentials = [i \in DOMAIN @ |-> EncryptCredential(@[i], public, esk)]]
\* What there is besides errors, in its order.
WithoutErrors(list) ==
  LET kept == {i \in DOMAIN list : list[i] # Error}
      Before(i) == Cardinality({h \in kept : h < i})
  IN [n \in 1..Cardinality(kept) |-> list[CHOOSE i \in kept : Before(i) = n - 1]]
\* A credential that does not open is left out, or throws with throwOnError.
DecryptPresentation(p, secret, throwOnError) ==
  LET opened == [i \in DOMAIN p.credentials |->
                   DecryptCredentialIfNeeded(p.credentials[i], secret, None)]
  IN IF throwOnError /\ Error \in ToSet(opened) THEN Error
     ELSE [p EXCEPT !.credentials = WithoutErrors(opened)]

\* What the suite signs: the document without its proof, and the proof's options.
VerifyData(p, challenge) ==
  [holder |-> p.holder, credentials |-> p.credentials, challenge |-> challenge]
SignPresentation(p, secret, challenge) ==
  LET key == EdKey(None, p.holder, Encode(EdPub(secret.of), EdPubCodec), Encode(secret, EdPrivCodec))
  IN [p EXCEPT !.proof = [type |-> "Ed25519Signature2020", method |-> key.id, challenge |-> challenge,
                          value |-> Encode(EdSign(key, VerifyData(p, challenge)), 0)]]

\* As a slip would have it: the holder signs what is sent.
SealThenSign(p, secret, challenge, reader) ==
  SignPresentation(IF reader = None THEN p ELSE EncryptPresentation(p, reader, None), secret, challenge)
\* The holder signs the clear form, then the subjects are sealed.
SignThenSeal(p, secret, challenge, reader) ==
  LET s == SignPresentation(p, secret, challenge)
  IN IF reader = None THEN s ELSE EncryptPresentation(s, reader, None)
CreateVerifiablePresentation(credentials, secret, holderDid, challenge, reader) ==
  LET holder == IF holderDid = None THEN EncodeDidKey(EdPub(secret.of)) ELSE holderDid
      p == [kind |-> "presentation", holder |-> holder, credentials |-> credentials, proof |-> None]
  IN SignThenSeal(p, secret, challenge, reader)

\* securityLoader: a document once resolved is served from the cache.
Loaded(did) == IF \E c \in cache : c.id = did THEN CHOOSE c \in cache : c.id = did
               ELSE Resolve(did, accounts)
ValidatePresentationPayload(p) ==
  \A i \in DOMAIN p.credentials : ValidateCredentialPayload(p.credentials[i])
\* assertVerificationMethod: the key types the suite knows.
KnownMethod(method) == method.type \in {"Ed25519VerificationKey2018", "Ed25519VerificationKey2020"}
\* getVerificationMethod: an older Ed25519 method is turned into one of 2020.
VerificationMethod(method) ==
  IF method = Error \/ ~KnownMethod(method) THEN Error
  ELSE IF method.type = "Ed25519VerificationKey2018" THEN EdExport(EdFrom2018(method))
  ELSE method
\* verifySignature of the suite, under the key the method gives.
VerifySignature(method, data, proof) ==
  EdVerify(EdKey(method.id, method.controller, method.publicKeyMultibase, None), data,
           Decode(proof.value, 0))
\* verifyPresentation: without a challenge of its own it takes the proof's.
VerifyPresentation(p, challenge) ==
  LET did == p.proof.method[1]
      method == VerificationMethod(MethodOf(Loaded(did), p.proof.method))
  IN /\ ValidatePresentationPayload(p)
     /\ method # Error
     /\ VerifySignature(method, VerifyData(p, p.proof.challenge), p.proof)
     /\ challenge \in {None, p.proof.challenge}

-----------------------------------------------------------------------------
(* What documents are made of. *)

Texts == STRING \cup {DefaultType, AlbusType, "Other", "other", "true"}
Claim == [name: Texts, value: [text: Texts, spaces: Nat]]
\* An empty subject does not pass validateCredentialPayload.
ASSUME VcAssumption ==
  /\ ClaimSets \subseteq Seq(Claim) \ {<<>>}
  /\ \A type \in Types : type = <<>> \/ (type[1] \in Texts /\ type = <<type[1]>>)
  /\ Untils \subseteq Nat

People == Pairs \cup {Fresh}
IssuerDids == {AlbusDid(a) : a \in Addresses}
KeyDids == {EncodeDidKey(EdPub(k)) : k \in People}
Dids == IssuerDids \cup KeyDids
KeyTexts == {Encode(EdPub(k), EdPubCodec) : k \in People}
Value == [text: Texts, spaces: Nat] \cup [did: IssuerDids] \cup [time: Nat]
ProofText(Data) ==
  [base: {"z"}, codec: {0},
   data: [kind: {"proof"}, issuer: {Bjj(k) : k \in Pairs},
          signature: [kind: {"signature"}, of: Pairs, scheme: {"bjj"}, data: Data]]]
CredentialProof ==
  [type: {"BJJSignature2021"}, method: IssuerDids \X {Bjj(k) : k \in Pairs}, parsed: BOOLEAN,
   value: ProofText(Seq(Value))]
PlainSubject == [kind: {"plain"}, claims: Seq(Claim)]
Envelope ==
  [nonce: SUBSET People] \X [tag: SUBSET People] \X [key: SUBSET People, message: PlainSubject]
    \X {XPub(k) : k \in People}
SealedSubject == [kind: {"sealed"}, encrypted: Envelope, reader: {EdPub(k) : k \in Pairs}]
Credential ==
  [kind: {"credential"}, types: Seq(Texts), issuer: IssuerDids, issued: Nat, validFrom: Nat,
   validUntil: Nat, proof: CredentialProof, subject: PlainSubject \cup SealedSubject]
KeyIds == {None} \cup (Dids \X KeyTexts) \cup (Dids \X {"thumbprint"} \X {EdPub(k) : k \in People})
EdKeys ==
  [kind: {"key"}, type: {"Ed25519VerificationKey2020"}, controller: Dids \cup {None}, id: KeyIds,
   public: KeyTexts, private: {None} \cup {Encode(Secret(k), EdPrivCodec) : k \in People}]

Presentation ==
  [kind: {"presentation"}, holder: Dids, credentials: Seq(Credential),
   proof: [type: {"Ed25519Signature2020"}, method: Dids \X KeyTexts, challenge: Challenges,
           value: [base: {"z"}, codec: {0},
                   data: [kind: {"signature"}, of: Pairs, scheme: {"ed"},
                          data: [holder: Dids, credentials: Seq(Credential),
                                 challenge: Challenges]]]]]
\* What did:key and did:albus resolve to.
KeyDocument(k) == Ed25519Doc(EdPub(k), Encode(EdPub(k), EdPubCodec))
IssuerDocument(did, k) == GenerateDidDocument(EdPub(k), Bjj(k), did)

\* undefined and a thrown error are none of the data.
Given(x) == x # None /\ x # Error
ASSUME GivenAssumption ==
  /\ \A k \in People :
       /\ Given(Secret(k)) /\ Given(EdPub(k)) /\ Given(Bjj(k))
       /\ Given(Encode(Secret(k), EdPrivCodec)) /\ Given(Encode(EdPub(k), EdPubCodec))
       /\ Given([kind |-> "tagged", codec |-> EdPubCodec, data |-> EdPub(k)])
       /\ Given([kind |-> "issuer", pubkey |-> EdPub(k), zkPubkey |-> Bjj(k)])
       /\ \A did \in Dids : Given(<<did, Encode(EdPub(k), EdPubCodec)>>)
       /\ \A doc \in {KeyDocument(k)} \cup {IssuerDocument(did, k) : did \in Dids} :
            Given(doc) /\ \A i \in 1..2 : Given(doc.methods[i])
  /\ \A did \in Dids : Given(did)
  /\ Error \notin PlainSubject /\ Error \notin Credential /\ None \notin CredentialProof
  /\ None \notin Presentation /\ Error \notin Presentation
  /\ None \notin EdKeys /\ Error \notin EdKeys

-----------------------------------------------------------------------------
(* The system. *)

Init ==
  /\ accounts = [a \in Addresses |-> None]
  /\ cache = {} /\ wallet = <<>> /\ vp = None /\ verdict = None
  /\ signed = {} /\ registered = {} /\ edits = 0

\* The chain: an issuer is registered with the keys of a pair, or deleted.
Register(a, k) ==
  /\ accounts[a] = None
  /\ accounts' = [accounts EXCEPT ![a] = [kind |-> "account", type |-> "issuer", pubkey |-> EdPub(k), zkPubkey |-> Bjj(k)]]
  /\ registered' = registered \cup {<<AlbusDid(a), k>>}
  /\ Cardinality(registered') <= MaxRegistrations
  /\ UNCHANGED <<cache, wallet, vp, verdict, signed, edits>>
Deregister(a) ==
  /\ accounts[a] # None
  /\ accounts' = [accounts EXCEPT ![a] = None]
  /\ UNCHANGED <<cache, wallet, vp, verdict, signed, registered, edits>>

\* An issuer issues to the holder's wallet.
Issue(a, k, claims, type, until, reader, esk) ==
  /\ Len(wallet) < MaxIssued /\ vp = None /\ accounts[a] # None
  /\ LET vc == CreateVerifiableCredential(claims,
                 [issuerDid |-> AlbusDid(a), secret |-> Secret(k), type |-> type, validFrom |-> 0,
                  validUntil |-> until, reader |-> reader, esk |-> esk])
     IN /\ wallet' = Append(wallet, vc)
        /\ signed' = signed \cup {[by |-> k, values |-> [i \in DOMAIN claims |-> claims[i].value.text],
                                   issuer |-> AlbusDid(a), until |-> until, type |-> type]}
  /\ UNCHANGED <<accounts, cache, vp, verdict, registered, edits>>

\* The holder opens or checks a credential of the wallet.
Keep(i, vc) == /\ vc # Error
               /\ wallet' = [wallet EXCEPT ![i] = vc]
               /\ UNCHANGED <<accounts, cache, vp, verdict, signed, registered, edits>>
OpenCredential(i, k) == Keep(i, DecryptCredentialIfNeeded(wallet[i], Secret(k), None))
CheckCredential(i, k) == Keep(i, VerifyCredential(wallet[i], Secret(k)))

Present(k, holderDid, challenge, reader) ==
  /\ vp = None /\ wallet # <<>>
  /\ vp' = CreateVerifiablePresentation(wallet, Secret(k), holderDid, challenge, reader)
  /\ signed' = signed \cup {[by |-> k, holder |-> vp'.holder, credentials |-> wallet, challenge |-> challenge]}
  /\ UNCHANGED <<accounts, cache, wallet, verdict, registered, edits>>

\* The verifier opens the presentation's subjects.
OpenPresentation(k, throwOnError) ==
  /\ vp # None
  /\ LET p == DecryptPresentation(vp, Secret(k), throwOnError)
     IN p # Error /\ vp' = p
  /\ verdict' = None
  /\ UNCHANGED <<accounts, cache, wallet, signed, registered, edits>>

\* verifyCredential of a credential of the presentation, before or after
\* verifyPresentation: the proof inside the presentation is the one written to.
CheckPresented(i, k) ==
  /\ VerifyCredential(vp.credentials[i], Secret(k)) # Error
  /\ vp' = [vp EXCEPT !.credentials[i].proof.parsed = TRUE]
  /\ verdict' = None
  /\ UNCHANGED <<accounts, cache, wallet, signed, registered, edits>>

Verify(challenge) ==
  /\ vp # None
  /\ verdict' = [kind |-> "verdict", accepted |-> VerifyPresentation(vp, challenge)]
  /\ cache' = LET document == Loaded(vp.proof.method[1])
              IN IF document = Error THEN cache ELSE cache \cup {document}
  /\ UNCHANGED <<accounts, wallet, vp, signed, registered, edits>>

\* Somebody changes a document on its way.
Edited(vc) ==
  {[vc EXCEPT !.validUntil = 9], [vc EXCEPT !.types = @ \o <<"Other">>]}
  \cup {[vc EXCEPT !.issuer = AlbusDid(a)] : a \in Addresses}
  \cup (IF Sealed(vc) THEN {}
        ELSE {[vc EXCEPT !.subject.claims[j].value = Text("other")] : j \in DOMAIN vc.subject.claims}
             \cup {[vc EXCEPT !.subject.claims = Tail(@)] : claims \in {vc.subject.claims} \ {<<>>}})
EditCredential(i) ==
  /\ edits < MaxEdits /\ vp = None
  /\ \E vc \in Edited(wallet[i]) : wallet' = [wallet EXCEPT ![i] = vc]
  /\ edits' = edits + 1
  /\ UNCHANGED <<accounts, cache, vp, verdict, signed, registered>>
EditPresentation ==
  /\ edits < MaxEdits /\ vp # None
  /\ \/ \E i \in DOMAIN vp.credentials : \E vc \in Edited(vp.credentials[i]) :
          vp' = [vp EXCEPT !.credentials[i] = vc]
     \/ vp.credentials # <<>> /\ vp' = [vp EXCEPT !.credentials = Tail(@)]
     \/ \E k \in Pairs : vp' = [vp EXCEPT !.holder = EncodeDidKey(EdPub(k))]
     \/ \E c \in Challenges : vp' = [vp EXCEPT !.proof.challenge = c]
  /\ edits' = edits + 1 /\ verdict' = None
  /\ UNCHANGED <<accounts, cache, wallet, signed, registered>>

Readers == {Secret(k) : k \in Pairs}
Next ==
  \/ \E a \in Addresses, k \in Pairs : Register(a, k)
  \/ \E a \in Addresses : Deregister(a)
  \/ \E a \in Addresses, k \in Pairs, claims \in ClaimSets, type \in Types, until \in Untils :
       \/ Issue(a, k, claims, type, until, None, None)
       \/ \E r \in Pairs, esk \in {None, Secret(k)} : Issue(a, k, claims, type, until, EdPub(r), esk)
  \/ \E i \in DOMAIN wallet, k \in Pairs : OpenCredential(i, k) \/ CheckCredential(i, k)
  \/ \E k \in Pairs, did \in {None} \cup {AlbusDid(a) : a \in Addresses}, c \in Challenges,
        reader \in {None} \cup {EdPub(r) : r \in Pairs} :
       Present(k, did, c, reader)
  \/ \E k \in Pairs, throw \in BOOLEAN : OpenPresentation(k, throw)
  \/ vp # None /\ \E i \in DOMAIN vp.credentials : \E k \in Pairs : CheckPresented(i, k)
  \/ \E c \in {None} \cup Challenges : Verify(c)
  \/ \E i \in DOMAIN wallet : EditCredential(i)
  \/ EditPresentation
Spec == Init /\ [][Next]_vars

-----------------------------------------------------------------------------
(* Properties. *)

\* A key is the same in every form it is passed in: see KeyFormsAgree.
KeyFormsAgreeOfPairs == KeyFormsAgree({r[2] : r \in registered} \cup {Fresh})

Documents == ToSet(wallet) \cup (IF vp = None THEN {} ELSE ToSet(vp.credentials))

\* A credential's types but the two that every credential has.
OwnTypes(types) == ToSet(types) \ {DefaultType, AlbusType}

\* verifyCredential accepts what an issuer signed with the key its account has
\* now, and nothing that was changed since: the values at their positions, the
\* issuer, the validity and the type.
CredentialsAuthentic ==
  \A vc \in Documents, s \in Readers :
    LET cred == VerifyCredential(vc, s) IN
    cred # Error =>
      \E st \in signed :
        /\ "values" \in DOMAIN st
        /\ accounts[cred.issuer.id] # None /\ accounts[cred.issuer.id].zkPubkey = Bjj(st.by)
        /\ st.issuer = cred.issuer /\ st.until = cred.validUntil
        /\ OwnTypes(st.type) = OwnTypes(cred.types)
        /\ st.values = [i \in DOMAIN cred.subject.claims |-> cred.subject.claims[i].value.text]

\* Sealing and opening lose nothing: as long as nobody changed a document, the
\* reader a credential is sealed to verifies it, and so does everybody when it
\* is not sealed, while the issuer's account has the key that signed.
IssuedVerifies ==
  edits = 0 =>
    \A vc \in Documents, s \in Readers :
      (/\ Sealed(vc) => vc.subject.reader = EdPub(s.of)
       /\ accounts[vc.issuer.id] # None
       /\ accounts[vc.issuer.id].zkPubkey = vc.proof.method[2])
      => VerifyCredential(vc, s) # Error

\* A sealed subject is opened by its reader and, with the reader's key as the
\* ephemeral one, by a sender that sealed it under a pair of its own; by nobody
\* else.
OnlyPartiesOpen ==
  \A vc \in Documents, s \in Readers, epk \in {None} \cup {EdPub(k) : k \in Pairs} :
    Sealed(vc) =>
      LET sender == vc.subject.encrypted[4].of
          opens == DecryptCredentialIfNeeded(vc, s, epk) # Error
      IN opens <=> IF epk = None THEN s.of = vc.subject.reader.of
                   ELSE {s.of, epk.of} = {sender, vc.subject.reader.of}
\* A presentation verifyPresentation accepts was signed by a key its DID had,
\* for this challenge and with these very credentials.
PresentationsAuthentic ==
  (verdict # None /\ verdict.accepted) =>
    \E st \in signed :
      /\ "credentials" \in DOMAIN st
      /\ st.holder = vp.holder /\ st.credentials = vp.credentials
      /\ st.challenge = vp.proof.challenge
      /\ \/ vp.proof.method[1] = EncodeDidKey(EdPub(st.by))
         \/ <<vp.proof.method[1], st.by>> \in registered

\* A presentation nobody changed verifies once its credentials have the form
\* they were signed in, and the holder's DID is its own key.
FormSigned == \E st \in signed : "credentials" \in DOMAIN st /\ st.credentials = vp.credentials
PresentedVerifies ==
  (vp # None /\ edits = 0 /\ vp.holder.method = "key" /\ FormSigned) =>
    VerifyPresentation(vp, None)

\* What verifyCredential and verifyPresentation accept was signed by who may.
OnlyAuthentic == CredentialsAuthentic /\ PresentationsAuthentic

\* What was issued or presented and left alone is accepted, with a key in any
\* of its forms.
HonestAccepted == KeyFormsAgreeOfPairs /\ IssuedVerifies /\ PresentedVerifies
=============================================================================
