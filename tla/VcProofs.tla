------------------------------ MODULE VcProofs ------------------------------
(* What readers, verifiers and honest parties can rely on, for any sets of    *)
(* key pairs, issuers, claims and challenges and any number of documents.     *)
EXTENDS Vc, FiniteSetTheorems, TLAPS
LOCAL INSTANCE SequencesExt

-----------------------------------------------------------------------------
(* The inductive invariant.                                                  *)

PubText(k) == Encode(EdPub(k), EdPubCodec)

\* A credential with its subject opened.
Clear(vc) ==
  IF Sealed(vc) THEN [vc EXCEPT !.subject = vc.subject.encrypted[3].message] ELSE vc

\* The key of an envelope is the one its ends share.
SealedRight(vc) ==
  Sealed(vc) =>
    vc.subject.encrypted[3].key = {vc.subject.encrypted[4].of, vc.subject.reader.of}

\* The proof signs what the credential says.
SignedRight(vc) ==
  \E k \in Pairs :
    /\ vc.proof.method[2] = Bjj(k)
    /\ vc.proof.value =
         Encode([kind |-> "proof", signature |-> Signed(Secret(k), "bjj", Root(Clear(vc))),
                 issuer |-> Bjj(k)], 0)
    /\ Clear(vc).subject.claims # <<>>

Proper(vc, untouched) ==
  /\ vc \in Credential
  /\ \E i \in DOMAIN vc.types : vc.types[i] = DefaultType
  /\ SealedRight(vc)
  /\ untouched => SignedRight(vc)

ProperAll(list, untouched) ==
  list \in Seq(Credential) /\ \A i \in DOMAIN list : Proper(list[i], untouched)

\* What the holder said by the signature of a presentation.
Statement(p) ==
  LET signature == p.proof.value.data IN
  [by |-> signature.of, holder |-> signature.data.holder,
   credentials |-> signature.data.credentials, challenge |-> signature.data.challenge]

PresentationOK(p, untouched, statements) ==
  LET said == Statement(p) IN
  /\ p \in Presentation
  /\ ProperAll(p.credentials, untouched)
  /\ p.proof.method = <<said.holder, PubText(said.by)>>
  /\ said.holder.method = "key" => said.holder = EncodeDidKey(EdPub(said.by))
  /\ said \in statements
  /\ \A st \in statements : "credentials" \in DOMAIN st => st = said
  /\ untouched => p.holder = said.holder /\ p.proof.challenge = said.challenge

VpOK ==
  /\ vp # None => PresentationOK(vp, edits = 0, signed)
  /\ vp = None => verdict = None /\ \A st \in signed : "credentials" \notin DOMAIN st

AccountOf(k) == [kind |-> "account", type |-> "issuer", pubkey |-> EdPub(k), zkPubkey |-> Bjj(k)]
AccountsOK ==
  /\ accounts = [a \in Addresses |-> accounts[a]]
  /\ \A a \in Addresses : accounts[a] # None =>
       \E k \in Pairs : accounts[a] = AccountOf(k) /\ <<AlbusDid(a), k>> \in registered
  /\ registered \subseteq IssuerDids \X Pairs

\* A document as one DID or the other resolves to.
Resolved(doc) ==
  \/ \E k \in People : doc = KeyDocument(k)
  \/ \E r \in registered : doc = IssuerDocument(r[1], r[2])
CacheOK == \A doc \in cache : Resolved(doc)

VcInv ==
  /\ edits \in Nat
  /\ ProperAll(wallet, edits = 0)
  /\ VpOK
  /\ AccountsOK
  /\ CacheOK
  /\ PresentationsAuthentic

-----------------------------------------------------------------------------
(* Credentials.                                                              *)

\* What an envelope holds.
LEMMA EnvelopeParts ==
  ASSUME NEW vc \in Credential, Sealed(vc)
  PROVE  /\ vc.subject \in SealedSubject
         /\ vc.subject.encrypted = <<vc.subject.encrypted[1], vc.subject.encrypted[2],
                                     vc.subject.encrypted[3], vc.subject.encrypted[4]>>
         /\ vc.subject.encrypted[3].message \in PlainSubject
         /\ vc.subject.encrypted[3].key \in SUBSET People
         /\ \E k \in People : vc.subject.encrypted[4] = XPub(k)
         /\ \E k \in Pairs : vc.subject.reader = EdPub(k)
<1>1. vc.subject \in SealedSubject
  BY DEF Credential, Sealed, PlainSubject
<1>2. vc.subject.encrypted \in Envelope /\ \E k \in Pairs : vc.subject.reader = EdPub(k)
  BY <1>1 DEF SealedSubject
<1> QED
  BY <1>1, <1>2 DEF Envelope

LEMMA ClearType ==
  ASSUME NEW vc \in Credential
  PROVE  /\ Clear(vc) \in Credential
         /\ Clear(vc).subject \in PlainSubject
         /\ ~Sealed(Clear(vc))
         /\ ~Sealed(vc) => Clear(vc) = vc
         /\ Sealed(vc) => Clear(vc).subject = vc.subject.encrypted[3].message
         /\ Clear(vc).types = vc.types /\ Clear(vc).issuer = vc.issuer
         /\ Clear(vc).issued = vc.issued /\ Clear(vc).validFrom = vc.validFrom
         /\ Clear(vc).validUntil = vc.validUntil /\ Clear(vc).proof = vc.proof
<1>1. CASE Sealed(vc)
  <2>1. vc.subject.encrypted[3].message \in PlainSubject
    BY <1>1, EnvelopeParts
  <2> DEFINE m == vc.subject.encrypted[3].message
             c == [vc EXCEPT !.subject = m]
  <2>2. Clear(vc) = c
    BY <1>1 DEF Clear
  <2> HIDE DEF m
  <2>3. c.subject = m /\ c \in Credential
    BY <2>1 DEF Credential, m
  <2>4. /\ c.types = vc.types /\ c.issuer = vc.issuer
        /\ c.issued = vc.issued /\ c.validFrom = vc.validFrom
        /\ c.validUntil = vc.validUntil /\ c.proof = vc.proof
    BY DEF Credential
  <2>5. m.kind = "plain"
    BY <2>1 DEF PlainSubject, m
  <2> HIDE DEF c
  <2>6. ~Sealed(c)
    BY <2>3, <2>5 DEF Sealed
  <2> QED
    BY <1>1, <2>1, <2>2, <2>3, <2>4, <2>6 DEF m
<1>2. CASE ~Sealed(vc)
  BY <1>2 DEF Clear, Credential, Sealed, SealedSubject
<1> QED
  BY <1>1, <1>2

\* The root depends on nothing else.
LEMMA SameRoot ==
  ASSUME NEW v, NEW w, v.subject.claims = w.subject.claims, v.issuer = w.issuer,
         v.validUntil = w.validUntil, v.validFrom = w.validFrom, v.issued = w.issued,
         v.types = w.types
  PROVE  Root(v) = Root(w)
BY DEF Root, CreateCredentialTree, Meta

\* Who opens an envelope.
Opens(vc, k, epk) ==
  vc.subject.encrypted[3].key =
    {k, IF epk = None THEN vc.subject.encrypted[4].of ELSE epk.of}

LEMMA Opening ==
  ASSUME NEW vc \in Credential, NEW k \in Pairs, NEW epk
  PROVE  DecryptCredentialIfNeeded(vc, Secret(k), epk) =
           IF Sealed(vc) /\ ~Opens(vc, k, epk) THEN Error ELSE Clear(vc)
<1>1. CASE ~Sealed(vc)
  BY <1>1 DEF DecryptCredentialIfNeeded, Clear
<1>2. CASE Sealed(vc)
  <2> DEFINE bytes == vc.subject.encrypted
             subject == DecryptBytes(bytes, Secret(k), epk)
  <2>1. MakeKeypair(Secret(k)) = Secret(k) /\ Secret(k) # Error
    BY GivenAssumption DEF MakeKeypair, Secret, GivenAssumption, Given, People
  <2>2. SubSeq(bytes, 1, 3)[3] = bytes[3]
    <3>1. bytes = <<bytes[1], bytes[2], bytes[3], bytes[4]>>
      BY <1>2, EnvelopeParts
    <3> HIDE DEF bytes
    <3> QED BY <3>1
  <2>3. subject = IF Opens(vc, k, epk) THEN bytes[3].message ELSE Error
    <3> HIDE DEF bytes
    <3>1. CASE epk = None
      BY <2>1, <2>2, <3>1 DEF DecryptBytes, Unseal, SharedKey, Opens, Secret, bytes
    <3>2. CASE epk # None
      BY <2>1, <2>2, <3>2 DEF DecryptBytes, Unseal, SharedKey, Opens, Secret, XPub, bytes
    <3> QED
      BY <3>1, <3>2
  <2>4. bytes[3].message # Error
    BY <1>2, EnvelopeParts, GivenAssumption DEF GivenAssumption
  <2> HIDE DEF subject
  <2> QED
    BY <1>2, <2>3, <2>4 DEF DecryptCredentialIfNeeded, Clear, subject
<1> QED
  BY <1>1, <1>2

LEMMA NotError ==
  ASSUME NEW vc \in Credential
  PROVE  vc # Error
BY GivenAssumption DEF GivenAssumption

-----------------------------------------------------------------------------
(* What becomes of a credential on its way.                                  *)

LEMMA AppendParts ==
  ASSUME NEW S, NEW list \in Seq(S), NEW e \in S, Len(list) = 3
  PROVE  /\ Append(list, e) \in Seq(S)
         /\ Len(Append(list, e)) = 4 /\ Append(list, e)[4] = e
         /\ \A i \in 1..3 : Append(list, e)[i] = list[i]
OBVIOUS

LEMMA AppendFourth ==
  ASSUME NEW a, NEW b, NEW c, NEW d
  PROVE  Append(<<a, b, c>>, d) = <<a, b, c, d>>
<1> DEFINE S == {a, b, c, d}
           list == <<a, b, c>>
           t == Append(list, d)
<1>1. list \in Seq(S) /\ Len(list) = 3 /\ list[1] = a /\ list[2] = b /\ list[3] = c
  OBVIOUS
<1>2. d \in S
  OBVIOUS
<1> HIDE DEF S, list
<1>3. t \in Seq(S) /\ Len(t) = 4 /\ t[4] = d /\ \A i \in 1..3 : t[i] = list[i]
  BY <1>1, <1>2, AppendParts
<1> HIDE DEF t
<1>4. t = <<a, b, c, d>>
  BY <1>1, <1>3
<1> QED
  BY <1>4 DEF t, list

LEMMA AppendType ==
  ASSUME NEW S, NEW list \in Seq(S), NEW e \in S
  PROVE  list \o <<e>> \in Seq(S)
OBVIOUS

LEMMA OtherValue ==
  ASSUME NEW claim \in Claim
  PROVE  [claim EXCEPT !.value = Text("other")] \in Claim
BY DEF Claim, Text, Texts

LEMMA ProperClear ==
  ASSUME NEW vc, NEW u \in BOOLEAN, Proper(vc, u)
  PROVE  Proper(Clear(vc), u)
<1>1. vc \in Credential
  BY DEF Proper
<1> DEFINE c == Clear(vc)
<1>2. c \in Credential /\ ~Sealed(c) /\ c.types = vc.types /\ c.proof = vc.proof
  BY <1>1, ClearType
<1>3. Clear(c) = c
  BY <1>2 DEF Clear
<1>4. ASSUME u PROVE SignedRight(c)
  BY <1>2, <1>3, <1>4 DEF Proper, SignedRight
<1> HIDE DEF c
<1>5. SealedRight(c)
  BY <1>2 DEF SealedRight
<1> QED
  BY <1>2, <1>4, <1>5 DEF Proper, c

LEMMA ProperParsed ==
  ASSUME NEW vc, NEW u \in BOOLEAN, Proper(vc, u)
  PROVE  Proper([vc EXCEPT !.proof.parsed = TRUE], u)
<1>1. vc \in Credential
  BY DEF Proper
<1> DEFINE c == [vc EXCEPT !.proof.parsed = TRUE]
<1>2. /\ c \in Credential
      /\ c.subject = vc.subject /\ c.types = vc.types /\ c.issuer = vc.issuer
      /\ c.issued = vc.issued /\ c.validFrom = vc.validFrom /\ c.validUntil = vc.validUntil
      /\ c.proof.method = vc.proof.method /\ c.proof.value = vc.proof.value
  BY <1>1 DEF Credential, CredentialProof
<1> HIDE DEF c
<1>3. Clear(c).subject = Clear(vc).subject
  BY <1>1, <1>2, ClearType DEF Clear, Sealed
<1>4. Root(Clear(c)) = Root(Clear(vc))
  <2>1. /\ Clear(c).types = Clear(vc).types /\ Clear(c).issuer = Clear(vc).issuer
        /\ Clear(c).issued = Clear(vc).issued /\ Clear(c).validFrom = Clear(vc).validFrom
        /\ Clear(c).validUntil = Clear(vc).validUntil
    BY <1>1, <1>2, ClearType
  <2> QED
    BY <1>3, <2>1, SameRoot
<1>5. ASSUME u PROVE SignedRight(c)
  BY <1>2, <1>3, <1>4, <1>5 DEF Proper, SignedRight
<1>6. SealedRight(c)
  BY <1>2 DEF Proper, SealedRight, Sealed
<1> QED
  BY <1>2, <1>5, <1>6 DEF Proper, c

LEMMA ProperSealed ==
  ASSUME NEW vc, NEW u \in BOOLEAN, Proper(vc, u), NEW r \in Pairs,
         NEW esk \in {None} \cup {Secret(k) : k \in Pairs}
  PROVE  Proper(EncryptCredential(vc, EdPub(r), esk), u)
<1>1. CASE Sealed(vc)
  BY <1>1 DEF EncryptCredential
<1>2. CASE ~Sealed(vc)
  <2>1. vc \in Credential /\ vc.subject \in PlainSubject
    BY <1>2 DEF Proper, Credential, Sealed, SealedSubject
  <2>2. PICK e \in People : EphemeralPair(esk) = Secret(e)
    <3>1. CASE esk = None
      BY <3>1 DEF EphemeralPair, People
    <3>2. CASE esk # None
      <4>1. PICK k \in Pairs : esk = Secret(k)
        BY <3>2
      <4> QED
        BY <3>2, <4>1 DEF EphemeralPair, MakeKeypair, Secret, People
    <3> QED
      BY <3>1, <3>2
  <2> DEFINE envelope == EncryptBytes(vc.subject, EdPub(r), esk)
             subject == [kind |-> "sealed", encrypted |-> envelope, reader |-> EdPub(r)]
             c == [vc EXCEPT !.subject = subject]
  <2>3. EncryptCredential(vc, EdPub(r), esk) = c
    BY <1>2 DEF EncryptCredential
  <2>4. envelope = <<[nonce |-> {e, r}], [tag |-> {e, r}],
                     [key |-> {e, r}, message |-> vc.subject], XPub(e)>>
    <3>1. Secret(e).of = e /\ EdPub(r).of = r
      BY DEF Secret, EdPub
    <3>2. envelope = Append(Seal({e, r}, vc.subject), XPub(e))
      BY <2>2, <3>1 DEF EncryptBytes, SharedKey
    <3> HIDE DEF envelope
    <3> QED BY <3>2, AppendFourth DEF Seal
  <2>5. envelope \in Envelope
    BY <2>1, <2>4 DEF Envelope, People
  <2>6. /\ envelope[3].key = {envelope[4].of, r}
        /\ envelope[3].message = vc.subject
    BY <2>4 DEF XPub
  <2> HIDE DEF envelope
  <2>7. subject \in SealedSubject /\ subject.kind = "sealed"
    BY <2>5 DEF SealedSubject
  <2>8. subject.encrypted = envelope /\ subject.reader.of = r
    BY DEF EdPub
  <2> HIDE DEF subject
  <2>9. /\ c \in Credential /\ c.subject = subject
        /\ c.types = vc.types /\ c.issuer = vc.issuer /\ c.proof = vc.proof
        /\ c.issued = vc.issued /\ c.validFrom = vc.validFrom /\ c.validUntil = vc.validUntil
    BY <2>1, <2>7 DEF Credential
  <2> HIDE DEF c
  <2>10. Sealed(c) /\ SealedRight(c)
    BY <2>6, <2>7, <2>8, <2>9 DEF Sealed, SealedRight
  <2>11. Clear(c).subject = vc.subject /\ Clear(vc) = vc
    BY <1>2, <2>1, <2>6, <2>8, <2>9, <2>10, ClearType
  <2>12. Root(Clear(c)) = Root(Clear(vc))
    BY <2>9, <2>11, ClearType, SameRoot
  <2>13. ASSUME u PROVE SignedRight(c)
    BY <2>9, <2>11, <2>12, <2>13 DEF Proper, SignedRight
  <2> QED
    BY <2>3, <2>9, <2>10, <2>13 DEF Proper
<1> QED
  BY <1>1, <1>2

LEMMA ProperEdit ==
  ASSUME NEW vc, NEW u \in BOOLEAN, Proper(vc, u), NEW c \in Edited(vc)
  PROVE  Proper(c, FALSE)
<1>1. vc \in Credential /\ SealedRight(vc) /\ \E i \in DOMAIN vc.types : vc.types[i] = DefaultType
  BY DEF Proper
<1>2. CASE c = [vc EXCEPT !.validUntil = 9]
  <2>1. c \in Credential /\ c.types = vc.types /\ c.subject = vc.subject
    BY <1>1, <1>2 DEF Credential
  <2> QED
    BY <1>1, <2>1 DEF Proper, SealedRight, Sealed
<1>3. CASE c = [vc EXCEPT !.types = @ \o <<"Other">>]
  <2> DEFINE types == vc.types \o <<"Other">>
  <2>1. types \in Seq(Texts) /\ vc.types \in Seq(Texts)
    <3>1. vc.types \in Seq(Texts)
      BY <1>1 DEF Credential
    <3>2. "Other" \in Texts
      BY DEF Texts
    <3> QED
      BY <3>1, <3>2, AppendType
  <2>2. PICK i \in DOMAIN vc.types : vc.types[i] = DefaultType
    BY <1>1
  <2>3. i \in DOMAIN types /\ types[i] = DefaultType
    BY <2>1, <2>2
  <2> HIDE DEF types
  <2>4. c \in Credential /\ c.types = types /\ c.subject = vc.subject
    BY <1>1, <1>3, <2>1 DEF Credential, types
  <2> QED
    BY <1>1, <2>3, <2>4 DEF Proper, SealedRight, Sealed
<1>4. ASSUME NEW a \in Addresses, c = [vc EXCEPT !.issuer = AlbusDid(a)]
      PROVE  Proper(c, FALSE)
  <2>1. c \in Credential /\ c.types = vc.types /\ c.subject = vc.subject
    BY <1>1, <1>4 DEF Credential, IssuerDids
  <2> QED
    BY <1>1, <2>1 DEF Proper, SealedRight, Sealed
<1>5. ASSUME ~Sealed(vc), NEW j \in DOMAIN vc.subject.claims,
             c = [vc EXCEPT !.subject.claims[j].value = Text("other")]
      PROVE  Proper(c, FALSE)
  <2> DEFINE claims == [vc.subject.claims EXCEPT ![j].value = Text("other")]
             subject == [vc.subject EXCEPT !.claims = claims]
  <2>1. vc.subject \in PlainSubject
    BY <1>1, <1>5 DEF Credential, Sealed, SealedSubject
  <2>2. vc.subject.claims \in Seq(Claim)
    BY <2>1 DEF PlainSubject
  <2>3. claims \in Seq(Claim)
    <3> DEFINE claim == [vc.subject.claims[j] EXCEPT !.value = Text("other")]
    <3>1. claim \in Claim
      <4>1. vc.subject.claims[j] \in Claim
        BY <2>2
      <4> QED
        BY <4>1, OtherValue
    <3>2. claims = [vc.subject.claims EXCEPT ![j] = claim]
      OBVIOUS
    <3> HIDE DEF claim
    <3> QED BY <2>2, <3>1, <3>2
  <2>4. c = [vc EXCEPT !.subject = subject]
    BY <1>5, <2>1 DEF PlainSubject
  <2>5. subject \in PlainSubject
    <3> HIDE DEF claims
    <3> QED BY <2>1, <2>3 DEF PlainSubject
  <2> HIDE DEF subject
  <2>6. c \in Credential /\ c.types = vc.types /\ c.subject = subject
    BY <1>1, <2>4, <2>5 DEF Credential
  <2> QED
    BY <1>1, <2>5, <2>6 DEF Proper, SealedRight, Sealed, PlainSubject
<1>6. ASSUME ~Sealed(vc), vc.subject.claims # <<>>, c = [vc EXCEPT !.subject.claims = Tail(@)]
      PROVE  Proper(c, FALSE)
  <2> DEFINE claims == Tail(vc.subject.claims)
             subject == [vc.subject EXCEPT !.claims = claims]
  <2>1. vc.subject \in PlainSubject
    BY <1>1, <1>6 DEF Credential, Sealed, SealedSubject
  <2>2. claims \in Seq(Claim)
    BY <1>6, <2>1 DEF PlainSubject
  <2>4. c = [vc EXCEPT !.subject = subject]
    BY <1>6, <2>1 DEF PlainSubject
  <2>5. subject \in PlainSubject
    <3> HIDE DEF claims
    <3> QED BY <2>1, <2>2 DEF PlainSubject
  <2> HIDE DEF subject
  <2>6. c \in Credential /\ c.types = vc.types /\ c.subject = subject
    BY <1>1, <2>4, <2>5 DEF Credential
  <2> QED
    BY <1>1, <2>5, <2>6 DEF Proper, SealedRight, Sealed, PlainSubject
<1> QED
  BY <1>2, <1>3, <1>4, <1>5, <1>6 DEF Edited

\* verifyCredential gives the opened credential back.
LEMMA Verified ==
  ASSUME NEW vc \in Credential, NEW k \in Pairs, VerifyCredential(vc, Secret(k)) # Error
  PROVE  VerifyCredential(vc, Secret(k)) = [Clear(vc) EXCEPT !.proof.parsed = TRUE]
<1> DEFINE cred == IF ValidateCredentialPayload(vc)
                   THEN DecryptCredentialIfNeeded(vc, Secret(k), None) ELSE Error
<1>1. cred \in {Error, Clear(vc)}
  BY Opening
<1> HIDE DEF cred
<1>2. cred # Error /\ VerifyCredential(vc, Secret(k)) = [cred EXCEPT !.proof.parsed = TRUE]
  BY DEF VerifyCredential, cred
<1> QED
  BY <1>1, <1>2
-----------------------------------------------------------------------------
(* What an issuer hands out.                                                 *)

LEMMA PairType ==
  ASSUME NEW S, NEW a \in S, NEW b \in S
  PROVE  <<a, b>> \in Seq(S)
OBVIOUS

LEMMA ConcatType ==
  ASSUME NEW S, NEW s \in Seq(S), NEW t \in Seq(S)
  PROVE  s \o t \in Seq(S)
OBVIOUS

LEMMA WiderType ==
  ASSUME NEW S, NEW T, S \subseteq T, NEW s \in Seq(S)
  PROVE  s \in Seq(T)
OBVIOUS

LEMMA ValuesType ==
  ASSUME NEW N, NEW V, NEW list \in Seq([name: N, value: V])
  PROVE  [i \in DOMAIN list |-> list[i].value] \in Seq(V)
<1> DEFINE Entry == [name: N, value: V]
<1>1. \A e \in Entry : e.value \in V
  OBVIOUS
<1>2. list \in Seq(Entry)
  OBVIOUS
<1> HIDE DEF Entry
<1> QED
  BY <1>1, <1>2

LEMMA ConcatParts ==
  ASSUME NEW S, NEW s \in Seq(S), NEW t \in Seq(S)
  PROVE  /\ s \o t \in Seq(S) /\ Len(s \o t) = Len(s) + Len(t)
         /\ \A i \in 1..Len(s) : (s \o t)[i] = s[i]
         /\ \A i \in 1..Len(t) : (s \o t)[Len(s) + i] = t[i]
OBVIOUS

LEMMA ConcatTwo ==
  ASSUME NEW S, NEW s \in Seq(S), NEW t \in Seq(S)
  PROVE  (Len(s) = 2 /\ Len(t) = 2) =>
           /\ s \o t \in Seq(S) /\ Len(s \o t) = 4
           /\ (s \o t)[1] = s[1] /\ (s \o t)[3] = t[1]
<1> DEFINE all == s \o t
<1>1. /\ all \in Seq(S) /\ Len(all) = Len(s) + Len(t)
      /\ \A i \in 1..Len(s) : all[i] = s[i]
      /\ \A i \in 1..Len(t) : all[Len(s) + i] = t[i]
  OBVIOUS
<1> HIDE DEF all
<1>2. ASSUME Len(s) = 2, Len(t) = 2
      PROVE  Len(all) = 4 /\ all[1] = s[1] /\ all[3] = t[1]
  <2>1. 1 \in 1..Len(s) /\ 1 \in 1..Len(t) /\ Len(s) + 1 = 3
    BY <1>2
  <2> QED
    BY <1>1, <1>2, <2>1
<1> QED
  BY <1>1, <1>2 DEF all

LEMMA ConcatFour ==
  ASSUME NEW S, NEW s \in Seq(S), NEW t \in Seq(S)
  PROVE  (Len(s) = 4 /\ Len(t) = 2) =>
           /\ s \o t \in Seq(S) /\ Len(s \o t) = 6
           /\ (s \o t)[1] = s[1] /\ (s \o t)[3] = s[3] /\ (s \o t)[5] = t[1]
<1> DEFINE all == s \o t
<1>1. /\ all \in Seq(S) /\ Len(all) = Len(s) + Len(t)
      /\ \A i \in 1..Len(s) : all[i] = s[i]
      /\ \A i \in 1..Len(t) : all[Len(s) + i] = t[i]
  OBVIOUS
<1> HIDE DEF all
<1>2. ASSUME Len(s) = 4, Len(t) = 2
      PROVE  Len(all) = 6 /\ all[1] = s[1] /\ all[3] = s[3] /\ all[5] = t[1]
  <2>1. 1 \in 1..Len(s) /\ 3 \in 1..Len(s) /\ 1 \in 1..Len(t) /\ Len(s) + 1 = 5
    BY <1>2
  <2> QED
    BY <1>1, <1>2, <2>1
<1> QED
  BY <1>1, <1>2 DEF all

LEMMA ConcatNone ==
  ASSUME NEW S, NEW s \in Seq(S)
  PROVE  s \o <<>> = s
OBVIOUS

\* The claims of a credential's tree, those of meta included.
Names == Texts \cup {"meta.issuer" \o ".value", "meta.issuer" \o ".opts.hash",
                     "meta.type" \o ".value", "meta.type" \o ".opts.hash",
                     "meta.validUntil", "meta.validFrom"}
Entries == [name: Names, value: Value]

\* What stands where in meta.
LEMMA MetaParts ==
  ASSUME NEW v, v.issuer \in IssuerDids, v.issued \in Nat, v.validFrom \in Nat,
         v.validUntil \in Nat, v.types \in Seq(Texts), v.types # <<>>
  PROVE  LET plain == Last(v.types) \in {DefaultType, AlbusType} IN
         /\ Meta(v) \in Seq(Entries)
         /\ Len(Meta(v)) = IF plain THEN 4 ELSE 6
         /\ Meta(v)[1].value = [did |-> v.issuer]
         /\ Meta(v)[3].value = Time(v.validUntil)
         /\ ~plain => Meta(v)[5].value = Text(Last(v.types))
<1>1. Text("true") \in Value
  BY DEF Text, Value, Texts
<1>2. ASSUME NEW x \in Value, NEW name \in {"meta.issuer", "meta.type"}
      PROVE  /\ Hashed(name, x) \in Seq(Entries)
             /\ Len(Hashed(name, x)) = 2 /\ Hashed(name, x)[1].value = x
  <2>1. /\ [name |-> name \o ".value", value |-> x] \in Entries
        /\ [name |-> name \o ".opts.hash", value |-> Text("true")] \in Entries
    BY <1>1, <1>2 DEF Entries, Names
  <2> QED
    BY <2>1, PairType DEF Hashed
<1>3. [did |-> v.issuer] \in Value /\ v.issuer # None
  BY GivenAssumption DEF Value, GivenAssumption, Given, Dids
<1>4. \A n \in Nat : Time(n) \in Value
  BY DEF Time, Value
<1>5. Text(Last(v.types)) \in Value
  <2>1. Last(v.types) \in Texts
    BY DEF Last
  <2> QED
    BY <2>1 DEF Text, Value
<1> DEFINE first == Hashed("meta.issuer", [did |-> v.issuer])
           until == [name |-> "meta.validUntil", value |-> Time(v.validUntil)]
           from == [name |-> "meta.validFrom",
                    value |-> Time(IF v.validFrom # 0 THEN v.validFrom ELSE v.issued)]
           dates == <<until, from>>
           type == Last(v.types)
           last == IF type \in {DefaultType, AlbusType} THEN <<>> ELSE Hashed("meta.type", Text(type))
<1>6. Meta(v) = (first \o dates) \o last
  BY <1>3 DEF Meta
<1>7. first \in Seq(Entries) /\ Len(first) = 2 /\ first[1].value = [did |-> v.issuer]
  BY <1>2, <1>3
<1>8. dates \in Seq(Entries) /\ Len(dates) = 2 /\ dates[1].value = Time(v.validUntil)
  <2>1. until \in Entries /\ from \in Entries
    BY <1>4 DEF Entries, Names
  <2>2. until.value = Time(v.validUntil)
    OBVIOUS
  <2> HIDE DEF until, from
  <2> QED
    BY <2>1, <2>2, PairType
<1> DEFINE both == first \o dates
<1> HIDE DEF first, dates, type
<1>9. /\ both \in Seq(Entries) /\ Len(both) = 4
      /\ both[1].value = [did |-> v.issuer] /\ both[3].value = Time(v.validUntil)
  BY <1>7, <1>8, ConcatTwo
<1> HIDE DEF both
<1>10. CASE type \in {DefaultType, AlbusType}
  <2>1. Meta(v) = both
    BY <1>6, <1>9, <1>10, ConcatNone DEF both
  <2> QED
    BY <1>9, <1>10, <2>1 DEF type
<1>11. CASE type \notin {DefaultType, AlbusType}
  <2> DEFINE name == Hashed("meta.type", Text(type))
  <2>1. name \in Seq(Entries) /\ Len(name) = 2 /\ name[1].value = Text(type)
    BY <1>2, <1>5 DEF type
  <2>2. Meta(v) = both \o name
    BY <1>6, <1>11 DEF both
  <2> HIDE DEF name
  <2> DEFINE all == both \o name
  <2>3. /\ all \in Seq(Entries) /\ Len(all) = 6
        /\ all[1] = both[1] /\ all[3] = both[3] /\ all[5] = name[1]
    <3>1. both \in Seq(Entries) /\ name \in Seq(Entries)
      BY <1>9, <2>1
    <3>2. (Len(both) = 4 /\ Len(name) = 2) =>
            /\ all \in Seq(Entries) /\ Len(all) = 6
            /\ all[1] = both[1] /\ all[3] = both[3] /\ all[5] = name[1]
      BY <3>1, ConcatFour
    <3> HIDE DEF all
    <3> QED
      BY <1>9, <2>1, <3>2
  <2> HIDE DEF all
  <2> QED
    BY <1>9, <1>11, <2>1, <2>2, <2>3 DEF type, all
<1> QED
  BY <1>10, <1>11

\* The root of a claims tree is a sequence of values, and what stands where.
LEMMA RootParts ==
  ASSUME NEW v, v.subject.claims \in Seq(Claim), v.issuer \in IssuerDids,
         v.issued \in Nat, v.validFrom \in Nat, v.validUntil \in Nat,
         v.types \in Seq(Texts), v.types # <<>>
  PROVE  LET root == Root(v)
             n == Len(v.subject.claims)
             plain == Last(v.types) \in {DefaultType, AlbusType}
         IN /\ root \in Seq(Value)
            /\ Len(root) = n + IF plain THEN 4 ELSE 6
            /\ \A i \in 1..n : root[i] = v.subject.claims[i].value
            /\ root[n + 1] = [did |-> v.issuer] /\ root[n + 3] = Time(v.validUntil)
            /\ ~plain => root[n + 5] = Text(Last(v.types))
<1> DEFINE claims == v.subject.claims
           meta == Meta(v)
           tree == claims \o meta
           n == Len(claims)
           plain == Last(v.types) \in {DefaultType, AlbusType}
<1>1. Claim \subseteq Entries
  BY DEF Claim, Value, Entries, Names
<1>2. claims \in Seq(Entries) /\ n \in Nat
  BY <1>1, WiderType
<1>3. /\ meta \in Seq(Entries)
      /\ Len(meta) = IF plain THEN 4 ELSE 6
      /\ meta[1].value = [did |-> v.issuer]
      /\ meta[3].value = Time(v.validUntil)
      /\ ~plain => meta[5].value = Text(Last(v.types))
  BY MetaParts
<1>4. Root(v) = [i \in DOMAIN tree |-> tree[i].value]
  BY DEF Root, CreateCredentialTree
<1> HIDE DEF claims, meta, plain
<1>5. /\ tree \in Seq(Entries) /\ Len(tree) = n + Len(meta)
      /\ \A i \in 1..n : tree[i] = claims[i]
      /\ \A i \in 1..Len(meta) : tree[n + i] = meta[i]
  <2> HIDE DEF n
  <2>t. claims \in Seq(Entries) /\ meta \in Seq(Entries)
    BY <1>2, <1>3
  <2>1. tree \in Seq(Entries) /\ Len(tree) = Len(claims) + Len(meta)
    BY ONLY <2>t, ConcatParts
  <2>2. \A i \in 1..Len(claims) : tree[i] = claims[i]
    BY ONLY <2>t, ConcatParts
  <2>3. \A i \in 1..Len(meta) : tree[Len(claims) + i] = meta[i]
    BY ONLY <2>t, ConcatParts
  <2> QED
    BY <2>1, <2>2, <2>3 DEF n
<1> HIDE DEF tree, n
<1>6. Root(v) \in Seq(Value)
  <2>1. [i \in DOMAIN tree |-> tree[i].value] \in Seq(Value)
    BY <1>5, ValuesType DEF Entries
  <2> QED
    BY <1>4, <2>1
<1>7. DOMAIN Root(v) = 1..Len(tree) /\ Len(Root(v)) = Len(tree)
  BY <1>4, <1>5
<1>8. \A i \in 1..Len(tree) : Root(v)[i] = tree[i].value
  BY <1>4, <1>5
<1>9. \A i \in 1..n : Root(v)[i] = claims[i].value
  <2>1. \A i \in 1..n : i \in 1..Len(tree)
    <3>1. Len(meta) \in {4, 6}
      BY <1>3
    <3>2. n \in Nat /\ Len(tree) = n + Len(meta)
      BY <1>2, <1>5
    <3> QED
      BY <3>1, <3>2
  <2> QED
    BY <1>5, <1>8, <2>1
<1>10. \A i \in 1..Len(meta) : Root(v)[n + i] = meta[i].value
  <2>1. \A i \in 1..Len(meta) : n + i \in 1..Len(tree)
    <3>1. Len(meta) \in {4, 6}
      BY <1>3
    <3>2. n \in Nat /\ Len(tree) = n + Len(meta)
      BY <1>2, <1>5
    <3> QED
      BY <3>1, <3>2
  <2> QED
    BY <1>5, <1>8, <2>1
<1>11. Len(meta) \in {4, 6} /\ (~plain => Len(meta) = 6)
  BY <1>3
<1>12. /\ Root(v)[n + 1] = meta[1].value /\ Root(v)[n + 3] = meta[3].value
       /\ ~plain => Root(v)[n + 5] = meta[5].value
  <2>1. CASE Len(meta) = 6
    <3>1. 1 \in 1..Len(meta) /\ 3 \in 1..Len(meta) /\ 5 \in 1..Len(meta)
      BY <2>1
    <3> QED
      BY <1>10, <3>1
  <2>2. CASE Len(meta) = 4
    <3>1. 1 \in 1..Len(meta) /\ 3 \in 1..Len(meta)
      BY <2>2
    <3> QED
      BY <1>10, <1>11, <2>2, <3>1
  <2> QED
    BY <1>11, <2>1, <2>2
<1> QED
  BY <1>3, <1>5, <1>6, <1>7, <1>9, <1>12 DEF n, claims, plain

LEMMA Normalized ==
  ASSUME NEW claims \in Seq(Claim) \ {<<>>}
  PROVE  NormalizeClaims(claims) \in Seq(Claim) /\ NormalizeClaims(claims) # <<>>
<1>1. \A i \in DOMAIN claims : [claims[i] EXCEPT !.value.spaces = 0] \in Claim
  <2>1. \A claim \in Claim : [claim EXCEPT !.value.spaces = 0] \in Claim
    BY DEF Claim
  <2> QED
    BY <2>1
<1>2. DOMAIN NormalizeClaims(claims) = DOMAIN claims
  BY DEF NormalizeClaims
<1> QED
  BY <1>1, <1>2 DEF NormalizeClaims

LEMMA IssuedTypes ==
  ASSUME NEW type \in Seq(Texts)
  PROVE  LET types == <<DefaultType, AlbusType>> \o type IN
         /\ types \in Seq(Texts) /\ types # <<>>
         /\ 1 \in DOMAIN types /\ types[1] = DefaultType
<1>1. DefaultType \in Texts /\ AlbusType \in Texts
  BY DEF Texts
<1> DEFINE both == <<DefaultType, AlbusType>>
<1>2. both \in Seq(Texts) /\ Len(both) = 2 /\ both[1] = DefaultType
  BY <1>1
<1> HIDE DEF both
<1> QED
  BY <1>2 DEF both

\* The options the system issues with.
IssueOptions(a, k, type, until, reader, esk) ==
  [issuerDid |-> AlbusDid(a), secret |-> Secret(k), type |-> type, validFrom |-> 0,
   validUntil |-> until, reader |-> reader, esk |-> esk]

LEMMA TypesType ==
  ASSUME NEW type \in Types
  PROVE  type \in Seq(Texts)
<1>1. type = <<>> \/ (type[1] \in Texts /\ type = <<type[1]>>)
  BY VcAssumption DEF VcAssumption
<1>2. CASE type = <<>>
  BY <1>2
<1>3. CASE type[1] \in Texts /\ type = <<type[1]>>
  <2> DEFINE s == type[1]
  <2>1. s \in Texts /\ type = <<s>>
    BY <1>3
  <2> HIDE DEF s
  <2> QED
    BY <2>1
<1> QED
  BY <1>1, <1>2, <1>3

LEMMA ProperIssued ==
  ASSUME NEW a \in Addresses, NEW k \in Pairs, NEW claims \in ClaimSets, NEW type \in Types,
         NEW until \in Untils, NEW reader \in {None} \cup {EdPub(r) : r \in Pairs},
         NEW esk \in {None} \cup {Secret(p) : p \in Pairs}
  PROVE  Proper(CreateVerifiableCredential(claims, IssueOptions(a, k, type, until, reader, esk)), TRUE)
<1> DEFINE opts == IssueOptions(a, k, type, until, reader, esk)
           types == <<DefaultType, AlbusType>> \o type
           subject == [kind |-> "plain", claims |-> NormalizeClaims(claims)]
           plain == [kind |-> "credential", types |-> types,
                     issuer |-> AlbusDid(a), issued |-> 1, validFrom |-> 0,
                     validUntil |-> until, proof |-> None, subject |-> subject]
           proof == CreateCredentialProof(Root(plain), Secret(k), AlbusDid(a))
           vc == [plain EXCEPT !.proof = proof]
<1>1. CreateVerifiableCredential(claims, opts) =
        IF reader = None THEN vc ELSE EncryptCredential(vc, reader, esk)
  <2>1. Secret(k) # None
    BY GivenAssumption DEF GivenAssumption, Given, People
  <2> QED
    BY <2>1 DEF CreateVerifiableCredential, SignCredential, IssueOptions
<1>2. /\ types \in Seq(Texts) /\ types # <<>>
      /\ 1 \in DOMAIN types /\ types[1] = DefaultType
  BY TypesType, IssuedTypes
<1>3. /\ NormalizeClaims(claims) \in Seq(Claim) /\ NormalizeClaims(claims) # <<>>
      /\ until \in Nat
  BY Normalized, VcAssumption DEF VcAssumption
<1> HIDE DEF types
<1>4. subject \in PlainSubject /\ subject.claims # <<>>
  BY <1>3 DEF PlainSubject
<1>5. AlbusDid(a) \in IssuerDids
  BY DEF IssuerDids
<1>6. Root(plain) \in Seq(Value)
  BY <1>2, <1>3, <1>5, RootParts
<1> DEFINE root == Root(plain)
<1>7. proof = [type |-> "BJJSignature2021", method |-> <<AlbusDid(a), Bjj(k)>>, parsed |-> FALSE,
               value |-> Encode([kind |-> "proof", signature |-> Signed(Secret(k), "bjj", root),
                                 issuer |-> Bjj(k)], 0)]
  BY DEF CreateCredentialProof, Secret
<1> HIDE DEF root
<1>8. proof \in CredentialProof
  <2>1. Signed(Secret(k), "bjj", root) \in
          [kind: {"signature"}, of: Pairs, scheme: {"bjj"}, data: Seq(Value)]
    BY <1>6 DEF Signed, Secret, root
  <2> HIDE DEF proof
  <2> QED
    BY <1>5, <1>7, <2>1 DEF CredentialProof, ProofText, Encode
<1>9. proof.method[2] = Bjj(k)
  <2> HIDE DEF proof
  <2> QED
    BY <1>7
<1> HIDE DEF proof, subject
<1>10. vc = [kind |-> "credential", types |-> types,
             issuer |-> AlbusDid(a), issued |-> 1, validFrom |-> 0,
             validUntil |-> until, proof |-> proof, subject |-> subject]
  OBVIOUS
<1>11. vc \in Credential
  BY <1>2, <1>3, <1>4, <1>5, <1>8, <1>10 DEF Credential
<1>12. vc.subject = subject /\ vc.proof = proof /\ vc.types = types
  OBVIOUS
<1>13. Root(vc) = Root(plain)
  BY SameRoot
<1> HIDE DEF vc
<1>14. ~Sealed(vc) /\ Clear(vc) = vc
  BY <1>4, <1>12 DEF PlainSubject, Sealed, Clear
<1>15. SignedRight(vc)
  <2>1. vc.proof.method[2] = Bjj(k)
    BY <1>9, <1>12
  <2>2. vc.proof.value =
         Encode([kind |-> "proof", signature |-> Signed(Secret(k), "bjj", Root(vc)),
                 issuer |-> Bjj(k)], 0)
    BY <1>7, <1>12, <1>13 DEF root
  <2> QED
    BY <1>4, <1>12, <1>14, <2>1, <2>2 DEF SignedRight
<1>16. Proper(vc, TRUE)
  BY <1>2, <1>11, <1>12, <1>14, <1>15 DEF Proper, SealedRight
<1>17. CASE reader = None
  BY <1>1, <1>16, <1>17
<1>18. CASE reader # None
  <2>1. PICK r \in Pairs : reader = EdPub(r)
    BY <1>18
  <2>2. Proper(EncryptCredential(vc, EdPub(r), esk), TRUE)
    BY <1>16, ProperSealed
  <2> QED
    BY <1>1, <1>18, <2>1, <2>2
<1> QED
  BY <1>17, <1>18

-----------------------------------------------------------------------------
(* What of a presentation is opened.                                         *)

\* The elements of a finite set of numbers are counted by how many are below.
LEMMA Counted ==
  ASSUME NEW kept \in SUBSET Nat, IsFiniteSet(kept),
         NEW m \in 0..(Cardinality(kept) - 1)
  PROVE  \E i \in kept : Cardinality({h \in kept : h < i}) = m
<1> DEFINE N == Cardinality(kept)
           Below(i) == {h \in kept : h < i}
           rank == [i \in kept |-> Cardinality(Below(i))]
<1>1. N \in Nat
  BY FS_CardinalityType
<1>2. \A i \in kept : IsFiniteSet(Below(i)) /\ Cardinality(Below(i)) \in Nat
  BY FS_Subset, FS_CardinalityType
<1>3. \A i \in kept : Cardinality(Below(i)) < N
  <2> TAKE i \in kept
  <2>1. Below(i) \in SUBSET kept /\ Below(i) # kept
    OBVIOUS
  <2> HIDE DEF Below
  <2> QED
    BY <1>1, <1>2, <2>1, FS_Subset
<1>4. \A i, j \in kept : i < j => Cardinality(Below(i)) < Cardinality(Below(j))
  <2> TAKE i, j \in kept
  <2> HAVE i < j
  <2>1. i \in Below(j) /\ i \notin Below(i)
    OBVIOUS
  <2>2. \A h \in Below(i) : h \in Below(j)
    OBVIOUS
  <2> HIDE DEF Below
  <2>3. Below(i) \in SUBSET Below(j) /\ Below(i) # Below(j)
    BY <2>1, <2>2
  <2> QED
    BY <1>2, <2>3, FS_Subset
<1>5. ASSUME NEW i \in kept, NEW j \in kept, rank[i] = rank[j] PROVE i = j
  <2>1. i < j \/ j < i \/ i = j
    OBVIOUS
  <2>2. Cardinality(Below(i)) = Cardinality(Below(j))
    BY <1>5
  <2> HIDE DEF Below
  <2> QED
    BY <1>2, <1>4, <2>1, <2>2
<1>6. SUFFICES ASSUME \A i \in kept : rank[i] # m PROVE FALSE
  OBVIOUS
<1> DEFINE others == (0..(N - 1)) \ {m}
<1>7. IsFiniteSet(others) /\ Cardinality(others) = N - 1
  <2>1. IsFiniteSet(0..(N - 1)) /\ Cardinality(0..(N - 1)) = N
    BY <1>1, FS_Interval
  <2> HIDE DEF N
  <2> QED
    BY <2>1, FS_RemoveElement DEF N
<1>8. rank \in [kept -> others]
  <2>1. \A i \in kept : rank[i] \in others
    <3> HIDE DEF Below
    <3> QED BY <1>1, <1>2, <1>3, <1>6
  <2> QED
    BY <2>1
<1> HIDE DEF others, rank
<1>9. Cardinality(others) < Cardinality(kept)
  BY <1>1, <1>7
<1>10. \E i, j \in kept : i # j /\ rank[i] = rank[j]
  <2> HIDE DEF N
  <2> QED BY <1>7, <1>8, <1>9, FS_PigeonHole
<1> QED
  BY <1>5, <1>10

\* Nothing but what is no error, each from its place.
LEMMA Kept ==
  ASSUME NEW S, Error \notin S, NEW list \in Seq(S \cup {Error})
  PROVE  /\ WithoutErrors(list) \in Seq(S)
         /\ \A n \in DOMAIN WithoutErrors(list) :
              \E i \in DOMAIN list : WithoutErrors(list)[n] = list[i] /\ list[i] # Error
<1> DEFINE kept == {i \in DOMAIN list : list[i] # Error}
           N == Cardinality(kept)
           At(n) == CHOOSE i \in kept : Cardinality({h \in kept : h < i}) = n - 1
           out == [n \in 1..N |-> list[At(n)]]
<1>1. out = WithoutErrors(list)
  BY DEF WithoutErrors
<1>2. kept \in SUBSET (1..Len(list)) /\ kept \in SUBSET Nat
  OBVIOUS
<1>3. \A i \in kept : i \in DOMAIN list /\ list[i] \in S /\ list[i] # Error
  OBVIOUS
<1> HIDE DEF kept
<1>4. IsFiniteSet(kept) /\ N \in Nat
  <2>1. IsFiniteSet(1..Len(list))
    BY FS_Interval
  <2>2. IsFiniteSet(kept)
    BY <1>2, <2>1, FS_Subset
  <2> QED
    BY <2>2, FS_CardinalityType
<1>5. \A n \in 1..N : At(n) \in kept
  <2> TAKE n \in 1..N
  <2>1. n - 1 \in 0..(N - 1)
    BY <1>4
  <2>2. \E i \in kept : Cardinality({h \in kept : h < i}) = n - 1
    <3> HIDE DEF N
    <3> QED BY <1>2, <1>4, <2>1, Counted DEF N
  <2> QED
    BY <2>2
<1> HIDE DEF At, N
<1>6. DOMAIN out = 1..N /\ \A n \in 1..N : out[n] = list[At(n)]
  OBVIOUS
<1>7. out \in Seq(S)
  BY <1>3, <1>4, <1>5
<1> QED
  BY <1>1, <1>3, <1>5, <1>6, <1>7

-----------------------------------------------------------------------------
(* Presentations.                                                            *)

\* A presentation whose credentials were sealed, opened or changed, and whose
\* proof still is the holder's.
LEMMA OtherCredentials ==
  ASSUME NEW p, NEW u \in BOOLEAN, NEW v \in BOOLEAN, NEW statements, NEW list,
         PresentationOK(p, u, statements), v => u, ProperAll(list, v)
  PROVE  PresentationOK([p EXCEPT !.credentials = list], v, statements)
<1> DEFINE q == [p EXCEPT !.credentials = list]
<1>1. p \in Presentation
  BY DEF PresentationOK
<1>2. /\ q \in Presentation /\ q.proof = p.proof /\ q.holder = p.holder
      /\ q.credentials = list
  BY <1>1 DEF Presentation, ProperAll
<1> HIDE DEF q
<1>3. Statement(q) = Statement(p)
  BY <1>2 DEF Statement
<1> QED
  BY <1>2, <1>3 DEF PresentationOK, q

LEMMA OneOther ==
  ASSUME NEW list, NEW u \in BOOLEAN, NEW v \in BOOLEAN, v => u, ProperAll(list, u),
         NEW i \in DOMAIN list, NEW vc, Proper(vc, v)
  PROVE  ProperAll([list EXCEPT ![i] = vc], v)
<1>1. list \in Seq(Credential) /\ vc \in Credential
  BY DEF ProperAll, Proper
<1>2. \A j \in DOMAIN list : Proper(list[j], v)
  BY DEF ProperAll, Proper
<1> QED
  BY <1>1, <1>2 DEF ProperAll

LEMMA AllSealed ==
  ASSUME NEW list, NEW u \in BOOLEAN, ProperAll(list, u), NEW r \in Pairs
  PROVE  ProperAll([i \in DOMAIN list |-> EncryptCredential(list[i], EdPub(r), None)], u)
<1>1. \A i \in DOMAIN list : Proper(EncryptCredential(list[i], EdPub(r), None), u)
  BY ProperSealed DEF ProperAll
<1>2. \A i \in DOMAIN list : EncryptCredential(list[i], EdPub(r), None) \in Credential
  BY <1>1 DEF Proper
<1>3. list \in Seq(Credential)
  BY DEF ProperAll
<1> QED
  BY <1>1, <1>2, <1>3 DEF ProperAll

LEMMA AllOpened ==
  ASSUME NEW list, NEW u \in BOOLEAN, ProperAll(list, u), NEW k \in Pairs
  PROVE  ProperAll(WithoutErrors([i \in DOMAIN list |->
                     DecryptCredentialIfNeeded(list[i], Secret(k), None)]), u)
<1> DEFINE opened == [i \in DOMAIN list |-> DecryptCredentialIfNeeded(list[i], Secret(k), None)]
           out == WithoutErrors(opened)
<1>1. list \in Seq(Credential) /\ \A i \in DOMAIN list : list[i] \in Credential
  BY DEF ProperAll
<1>2. \A i \in DOMAIN list : opened[i] \in {Error, Clear(list[i])}
  BY <1>1, Opening
<1>3. \A i \in DOMAIN list : Proper(Clear(list[i]), u) /\ Clear(list[i]) \in Credential
  BY <1>1, ProperClear, ClearType DEF ProperAll
<1>4. DOMAIN opened = DOMAIN list /\ opened \in Seq(Credential \cup {Error})
  <2>1. \A i \in DOMAIN list : opened[i] \in Credential \cup {Error}
    BY <1>2, <1>3
  <2> QED
    BY <1>1, <2>1
<1>5. Error \notin Credential
  BY GivenAssumption DEF GivenAssumption
<1> HIDE DEF opened
<1>6. /\ out \in Seq(Credential)
      /\ \A n \in DOMAIN out : \E i \in DOMAIN opened : out[n] = opened[i] /\ opened[i] # Error
  BY <1>4, <1>5, Kept
<1> HIDE DEF out
<1>7. \A n \in DOMAIN out : Proper(out[n], u)
  BY <1>2, <1>3, <1>4, <1>6
<1> QED
  BY <1>6, <1>7 DEF ProperAll, out, opened

LEMMA TailParts ==
  ASSUME NEW S, NEW list \in Seq(S), list # <<>>
  PROVE  /\ Tail(list) \in Seq(S)
         /\ \A i \in DOMAIN Tail(list) : i + 1 \in DOMAIN list /\ Tail(list)[i] = list[i + 1]
OBVIOUS

LEMMA TailProper ==
  ASSUME NEW list, NEW u \in BOOLEAN, ProperAll(list, u), list # <<>>
  PROVE  ProperAll(Tail(list), FALSE)
<1>1. list \in Seq(Credential)
  BY DEF ProperAll
<1>2. \A j \in DOMAIN list : Proper(list[j], FALSE)
  BY DEF ProperAll, Proper
<1>3. /\ Tail(list) \in Seq(Credential)
      /\ \A i \in DOMAIN Tail(list) : i + 1 \in DOMAIN list /\ Tail(list)[i] = list[i + 1]
  BY <1>1, TailParts
<1> QED
  BY <1>2, <1>3 DEF ProperAll

\* What the holder signs and sends.
LEMMA ProperPresented ==
  ASSUME NEW k \in Pairs, NEW holderDid \in {None} \cup IssuerDids, NEW c \in Challenges,
         NEW reader \in {None} \cup {EdPub(r) : r \in Pairs},
         NEW list, NEW u \in BOOLEAN, ProperAll(list, u), NEW statements,
         \A st \in statements : "credentials" \notin DOMAIN st
  PROVE  LET p == CreateVerifiablePresentation(list, Secret(k), holderDid, c, reader)
             said == [by |-> k, holder |-> p.holder, credentials |-> list, challenge |-> c]
         IN PresentationOK(p, u, statements \cup {said})
<1> DEFINE holder == IF holderDid = None THEN EncodeDidKey(EdPub(k)) ELSE holderDid
           data == [holder |-> holder, credentials |-> list, challenge |-> c]
           said == [by |-> k, holder |-> holder, credentials |-> list, challenge |-> c]
           signature == [kind |-> "signature", of |-> k, scheme |-> "ed", data |-> data]
           proof == [type |-> "Ed25519Signature2020", method |-> <<holder, PubText(k)>>,
                     challenge |-> c, value |-> Encode(signature, 0)]
           plain == [kind |-> "presentation", holder |-> holder, credentials |-> list, proof |-> proof]
           bare == [kind |-> "presentation", holder |-> holder, credentials |-> list, proof |-> None]
<1>1. k \in People /\ holder \in Dids
  BY DEF People, Dids, KeyDids
<1>2. holder.method = "key" => holder = EncodeDidKey(EdPub(k))
  BY DEF IssuerDids, AlbusDid
<1>3. /\ holder # None /\ Encode(Secret(k), EdPrivCodec) # None
      /\ Error \notin EdKeys
  BY <1>1, GivenAssumption DEF GivenAssumption, Given
<1> HIDE DEF holder
<1> DEFINE key == EdKey(None, holder, Encode(EdPub(k), EdPubCodec), Encode(Secret(k), EdPrivCodec))
<1>4. key.id = <<holder, PubText(k)>> /\ key.private = Encode(Secret(k), EdPrivCodec)
  <2>1. /\ IsValidKeyHeader(Encode(EdPub(k), EdPubCodec), EdPubCodec)
        /\ IsValidKeyHeader(Encode(Secret(k), EdPrivCodec), EdPrivCodec)
        /\ Encode(EdPub(k), EdPubCodec).data.kind = "ed"
    BY DEF IsValidKeyHeader, Encode, EdPub
  <2> QED
    BY <1>3, <2>1 DEF EdKey, PubText
<1> HIDE DEF key
<1>5. EdSign(key, data) = signature
  <2>1. Decode(Encode(Secret(k), EdPrivCodec), EdPrivCodec) = Secret(k)
    BY DEF Decode, Encode, EdPrivCodec
  <2> HIDE DEF data
  <2> QED
    BY <1>3, <1>4, <2>1 DEF EdSign, Signed, Secret
<1>6. SignPresentation(bare, Secret(k), c) = plain
  <2>1. Secret(k).of = k
    BY DEF Secret
  <2>2. VerifyData(bare, c) = data /\ bare.holder = holder
    BY DEF VerifyData
  <2>3. SignPresentation(bare, Secret(k), c) = [bare EXCEPT !.proof = proof]
    <3> HIDE DEF bare, data, signature
    <3> QED BY <1>4, <1>5, <2>1, <2>2 DEF SignPresentation, key
  <2> HIDE DEF proof
  <2> QED
    BY <2>3
<1>7. CreateVerifiablePresentation(list, Secret(k), holderDid, c, reader)
        = IF reader = None THEN plain ELSE EncryptPresentation(plain, reader, None)
  <2>1. Secret(k).of = k
    BY DEF Secret
  <2> HIDE DEF plain
  <2> QED
    BY <1>6, <2>1 DEF CreateVerifiablePresentation, SignThenSeal, holder
<1>8. PresentationOK(plain, u, statements \cup {said})
  <2>1. list \in Seq(Credential)
    BY DEF ProperAll
  <2>2. data \in [holder: Dids, credentials: Seq(Credential), challenge: Challenges]
    BY <1>1, <2>1
  <2>3. <<holder, PubText(k)>> \in Dids \X KeyTexts
    BY <1>1 DEF PubText, KeyTexts
  <2> HIDE DEF data
  <2>4. plain \in Presentation
    BY <1>1, <2>1, <2>2, <2>3 DEF Presentation, Encode
  <2>5. Statement(plain) = said
    BY DEF Statement, Encode, data
  <2>6. plain.proof.method = <<said.holder, PubText(said.by)>>
    OBVIOUS
  <2>7. plain.holder = holder /\ plain.credentials = list /\ plain.proof.challenge = c
        /\ said.holder = holder /\ said.by = k /\ said.challenge = c
    OBVIOUS
  <2> HIDE DEF plain, said
  <2> QED
    BY <1>2, <2>4, <2>5, <2>6, <2>7 DEF PresentationOK
<1>9. CASE reader = None
  <2>1. plain.holder = holder
    OBVIOUS
  <2> HIDE DEF plain
  <2> QED
    BY <1>7, <1>8, <1>9, <2>1
<1>10. CASE reader # None
  <2>1. PICK r \in Pairs : reader = EdPub(r)
    BY <1>10
  <2> DEFINE sealed == [i \in DOMAIN list |-> EncryptCredential(list[i], EdPub(r), None)]
             q == [plain EXCEPT !.credentials = sealed]
  <2>2. EncryptPresentation(plain, EdPub(r), None) = q
    BY DEF EncryptPresentation
  <2>3. ProperAll(sealed, u)
    BY AllSealed
  <2>4. q.holder = holder
    OBVIOUS
  <2> HIDE DEF plain, sealed
  <2>5. PresentationOK(q, u, statements \cup {said})
    <3> HIDE DEF said
    <3> QED BY <1>8, <2>3, OtherCredentials
  <2> HIDE DEF q
  <2> QED
    BY <1>7, <1>10, <2>1, <2>2, <2>4, <2>5
<1> QED
  BY <1>9, <1>10

-----------------------------------------------------------------------------
(* What DIDs resolve to.                                                     *)

LEMMA KeyResolves ==
  ASSUME NEW k \in People, NEW known
  PROVE  Resolve(EncodeDidKey(EdPub(k)), known) = KeyDocument(k)
<1> DEFINE did == EncodeDidKey(EdPub(k))
           tagged == [kind |-> "tagged", codec |-> EdPubCodec, data |-> EdPub(k)]
<1>1. did # None /\ tagged # Error
  BY GivenAssumption DEF GivenAssumption, Given, Dids, KeyDids
<1>2. did.method = "key" /\ did.id = PubText(k)
  BY DEF EncodeDidKey, PubText
<1>3. Decode(PubText(k), 0) = tagged
  BY DEF Decode, PubText, Encode, EdPubCodec
<1> HIDE DEF did
<1> QED
  BY <1>1, <1>2, <1>3 DEF Resolve, KeyResolve, KeyDocument, PubText, did

LEMMA AlbusResolves ==
  ASSUME NEW a \in Addresses, NEW k \in Pairs, NEW known,
         known[a] = AccountOf(k), known[a] # None
  PROVE  Resolve(AlbusDid(a), known) = IssuerDocument(AlbusDid(a), k)
<1> DEFINE did == AlbusDid(a)
           issuer == [kind |-> "issuer", pubkey |-> EdPub(k), zkPubkey |-> Bjj(k)]
<1>1. did # None /\ issuer # Error
  BY GivenAssumption DEF GivenAssumption, Given, Dids, IssuerDids, People
<1>2. did.method = "albus" /\ did.id = a
  BY DEF AlbusDid
<1>3. ParseIssuer(known[a]) = issuer
  BY DEF ParseIssuer, AccountOf
<1> HIDE DEF did
<1>4. Resolve(did, known) = AlbusResolve(did, known)
  BY <1>1, <1>2 DEF Resolve
<1>5. AlbusResolve(did, known) = GenerateDidDocument(issuer.pubkey, issuer.zkPubkey, did)
  BY <1>1, <1>2, <1>3 DEF AlbusResolve
<1> QED
  BY <1>4, <1>5 DEF IssuerDocument, did

LEMMA DocumentIds ==
  /\ \A k \in People : KeyDocument(k).id = EncodeDidKey(EdPub(k))
  /\ \A did, k : IssuerDocument(did, k).id = did
BY DEF KeyDocument, IssuerDocument, Ed25519Doc, GenerateDidDocument, EncodeDidKey

\* The loader gives the document of the DID it is asked for.
LEMMA LoadedResolved ==
  ASSUME AccountsOK, CacheOK, NEW did \in Dids, Loaded(did) # Error
  PROVE  Resolved(Loaded(did)) /\ Loaded(did).id = did
<1>1. CASE \E c \in cache : c.id = did
  BY <1>1 DEF Loaded, CacheOK
<1>2. CASE ~\E c \in cache : c.id = did
  <2>1. Loaded(did) = Resolve(did, accounts)
    BY <1>2 DEF Loaded
  <2>2. CASE did \in KeyDids
    <3>1. PICK k \in People : did = EncodeDidKey(EdPub(k))
      BY <2>2 DEF KeyDids
    <3> QED
      BY <2>1, <3>1, KeyResolves, DocumentIds DEF Resolved
  <2>3. CASE did \in IssuerDids
    <3>1. PICK a \in Addresses : did = AlbusDid(a)
      BY <2>3 DEF IssuerDids
    <3>2. accounts[a] # None
      <4>1. did.method = "albus" /\ did.id = a
        BY <3>1 DEF AlbusDid
      <4> QED
        BY <2>1, <4>1 DEF Resolve, AlbusResolve
    <3>3. PICK k \in Pairs : accounts[a] = AccountOf(k) /\ <<AlbusDid(a), k>> \in registered
      BY <3>2 DEF AccountsOK
    <3>4. Resolve(did, accounts) = IssuerDocument(did, k)
      BY <3>1, <3>2, <3>3, AlbusResolves
    <3> DEFINE r == <<did, k>>
    <3>5. r \in registered /\ r[1] = did /\ r[2] = k
      BY <3>1, <3>3
    <3> HIDE DEF r
    <3>6. IssuerDocument(did, k) = IssuerDocument(r[1], r[2])
      BY <3>5
    <3> QED
      BY <2>1, <3>4, <3>5, <3>6, DocumentIds DEF Resolved
  <2> QED
    BY <2>2, <2>3 DEF Dids
<1> QED
  BY <1>1, <1>2

\* The first method of an id among two.
LEMMA FirstOfTwo ==
  ASSUME NEW doc, doc # Error, DOMAIN doc.methods = 1..2, NEW id
  PROVE  /\ MethodOf(doc, id) # Error => MethodOf(doc, id) \in {doc.methods[1], doc.methods[2]}
         /\ doc.methods[1].id = id => MethodOf(doc, id) = doc.methods[1]
<1> DEFINE found == {i \in DOMAIN doc.methods : doc.methods[i].id = id}
           least == CHOOSE i \in found : \A j \in found : i <= j
<1>1. found \subseteq {1, 2}
  OBVIOUS
<1>2. MethodOf(doc, id) = IF found = {} THEN Error ELSE doc.methods[least]
  BY DEF MethodOf
<1>3. found # {} => least \in found /\ \A j \in found : least <= j
  <2> HIDE DEF found
  <2>1. ASSUME found # {} PROVE \E i \in found : \A j \in found : i <= j
    <3>1. CASE 1 \in found
      <4>1. \A j \in found : 1 <= j
        <5>1. \A j \in {1, 2} : 1 <= j
          OBVIOUS
        <5> QED BY <1>1, <5>1
      <4> QED BY <3>1, <4>1
    <3>2. CASE 1 \notin found
      <4>1. found = {2}
        BY <1>1, <2>1, <3>2
      <4> QED BY <4>1
    <3> QED
      BY <3>1, <3>2
  <2> QED
    BY <2>1
<1>4. doc.methods[1].id = id => 1 \in found
  OBVIOUS
<1> HIDE DEF found, least
<1>5. found # {} => least \in {1, 2}
  BY <1>1, <1>3
<1>6. 1 \in found => least = 1
  <2> HAVE 1 \in found
  <2>1. least <= 1 /\ least \in {1, 2}
    BY <1>3, <1>5
  <2> QED
    BY <2>1
<1> QED
  BY <1>2, <1>4, <1>5, <1>6

\* A key rebuilt from its text is that key.
LEMMA KeyOfText ==
  ASSUME NEW k \in People, NEW id, NEW controller
  PROVE  LET key == EdKey(id, controller, PubText(k), None) IN
         /\ key.public = PubText(k) /\ key.private = None
         /\ key.type = "Ed25519VerificationKey2020" /\ key.controller = controller
         /\ PubText(k).data = EdPub(k)
<1>1. /\ IsValidKeyHeader(PubText(k), EdPubCodec)
      /\ PubText(k).data = EdPub(k) /\ EdPub(k).kind = "ed"
  BY DEF IsValidKeyHeader, PubText, Encode, EdPub
<1> QED
  BY <1>1 DEF EdKey

\* The methods of a did:key document and the key each of them gives.
LEMMA KeyMethods ==
  ASSUME NEW k \in People
  PROVE  LET doc == KeyDocument(k) IN
         /\ doc # Error /\ DOMAIN doc.methods = 1..2
         /\ doc.methods[1].id = <<EncodeDidKey(EdPub(k)), PubText(k)>>
         /\ \A i \in 1..2 : /\ VerificationMethod(doc.methods[i]) # Error
                            /\ VerificationMethod(doc.methods[i]).publicKeyMultibase = PubText(k)
<1> DEFINE doc == KeyDocument(k)
           did == EncodeDidKey(EdPub(k))
           m1 == [id |-> <<did, PubText(k)>>, type |-> "Ed25519VerificationKey2018",
                  controller |-> did, publicKeyBase58 |-> EdPub(k)]
           m2 == [id |-> <<did, PubText(k)>>, type |-> "Ed25519VerificationKey2020",
                  controller |-> did, publicKeyMultibase |-> PubText(k)]
<1>1. doc.methods = <<m1, m2>>
  BY DEF KeyDocument, Ed25519Doc, EncodeDidKey, PubText, EdMethod
<1>2. doc # Error /\ doc.methods[1] # Error /\ doc.methods[2] # Error /\ <<did, PubText(k)>> # None
  BY GivenAssumption DEF GivenAssumption, Given, PubText, Dids, KeyDids
<1> HIDE DEF doc, did
<1>3. EdExport(EdFrom2018(m1)) = m2
  <2>1. EdFrom2018(m1) = EdKey(<<did, PubText(k)>>, did, PubText(k), None)
    BY DEF EdFrom2018, PubText
  <2> DEFINE key == EdKey(<<did, PubText(k)>>, did, PubText(k), None)
  <2>2. key.id = <<did, PubText(k)>>
    <3>1. /\ IsValidKeyHeader(PubText(k), EdPubCodec)
          /\ PubText(k).data = EdPub(k) /\ EdPub(k).kind = "ed"
      BY DEF IsValidKeyHeader, PubText, Encode, EdPub
    <3> QED
      BY <1>2, <3>1 DEF EdKey
  <2>3. /\ key.public = PubText(k) /\ key.type = "Ed25519VerificationKey2020"
        /\ key.controller = did
    BY KeyOfText
  <2> HIDE DEF key
  <2> QED
    BY <2>1, <2>2, <2>3 DEF EdExport, key
<1>4. VerificationMethod(m1) = m2 /\ VerificationMethod(m2) = m2
  <2>1. m1 # Error /\ m2 # Error
    BY <1>1, <1>2
  <2> QED
    BY <1>3, <2>1 DEF VerificationMethod, KnownMethod
<1>5. m2 # Error
  BY <1>1, <1>2
<1>6. /\ DOMAIN doc.methods = 1..2 /\ doc.methods[1] = m1 /\ doc.methods[2] = m2
  BY <1>1
<1>7. m1.id = <<did, PubText(k)>> /\ m2.publicKeyMultibase = PubText(k)
  OBVIOUS
<1> HIDE DEF m1, m2
<1> QED
  BY <1>2, <1>4, <1>5, <1>6, <1>7 DEF did, doc

\* The same of an issuer's document, whose other key is no Ed25519 key.
LEMMA IssuerMethods ==
  ASSUME NEW k \in Pairs, NEW did \in Dids
  PROVE  LET doc == IssuerDocument(did, k) IN
         /\ doc # Error /\ DOMAIN doc.methods = 1..2
         /\ VerificationMethod(doc.methods[1]).publicKeyMultibase = PubText(k)
         /\ VerificationMethod(doc.methods[2]) = Error
         /\ \A proof : IssuerKey(doc, proof) = Bjj(k)
<1> DEFINE doc == IssuerDocument(did, k)
           m1 == EdMethod(did, EdPub(k))
           m2 == BjjMethod(did, Bjj(k))
<1>1. doc.methods = <<m1, m2>>
  BY DEF IssuerDocument, GenerateDidDocument
<1>2. doc # Error /\ doc.methods[1] # Error
  BY GivenAssumption DEF GivenAssumption, Given, People
<1>3. /\ m1.type = "Ed25519VerificationKey2020" /\ m1.publicKeyMultibase = PubText(k)
      /\ m2.type = "BJJVerificationKey2021" /\ m2.publicKeyBase58 = Bjj(k)
  BY DEF EdMethod, BjjMethod, PubText
<1> HIDE DEF m1, m2, doc
<1>4. DOMAIN doc.methods = {1, 2} /\ doc.methods[1] = m1 /\ doc.methods[2] = m2
  BY <1>1
<1>5. VerificationMethod(m1) = m1 /\ VerificationMethod(m2) = Error
  BY <1>2, <1>3, <1>4 DEF VerificationMethod, KnownMethod
<1>6. ASSUME NEW proof PROVE IssuerKey(doc, proof) = Bjj(k)
  <2> DEFINE found == {i \in DOMAIN doc.methods : doc.methods[i].type = "BJJVerificationKey2021"}
  <2>1. found = {2}
    BY <1>3, <1>4
  <2> HIDE DEF found
  <2>2. (CHOOSE i \in found : \A j \in found : j <= i) = 2 /\ found # {}
    BY <2>1
  <2> QED
    BY <1>3, <1>4, <2>2 DEF IssuerKey, found
<1> QED
  BY <1>2, <1>3, <1>4, <1>5, <1>6 DEF doc

-----------------------------------------------------------------------------
(* Each action keeps the invariant.                                          *)

\* What verifyPresentation accepts is what the holder signed, under a key its
\* DID has or had.
LEMMA Accepted ==
  ASSUME AccountsOK, CacheOK, NEW u \in BOOLEAN, NEW p, PresentationOK(p, u, signed), NEW c,
         VerifyPresentation(p, c)
  PROVE  \E st \in signed :
           /\ "credentials" \in DOMAIN st
           /\ st.holder = p.holder /\ st.credentials = p.credentials
           /\ st.challenge = p.proof.challenge
           /\ \/ p.proof.method[1] = EncodeDidKey(EdPub(st.by))
              \/ <<p.proof.method[1], st.by>> \in registered
<1> DEFINE said == Statement(p)
           did == p.proof.method[1]
           doc == Loaded(did)
           m == MethodOf(doc, p.proof.method)
           method == VerificationMethod(m)
<1>1. /\ p \in Presentation /\ said \in signed
      /\ did \in Dids
  BY DEF PresentationOK, Presentation
<1>2. /\ method # Error
      /\ Holds(EdKey(method.id, method.controller, method.publicKeyMultibase, None).public.data,
               VerifyData(p, p.proof.challenge), Decode(p.proof.value, 0))
  BY DEF VerifyPresentation, VerifySignature, EdVerify
<1>3. m # Error /\ doc # Error
  BY <1>2 DEF VerificationMethod, MethodOf
<1>4. Resolved(doc) /\ doc.id = did
  BY <1>1, <1>3, LoadedResolved
<1>5. PICK k \in People :
        /\ method.publicKeyMultibase = PubText(k)
        /\ did = EncodeDidKey(EdPub(k)) \/ <<did, k>> \in registered
  <2>1. ASSUME NEW k \in People, doc = KeyDocument(k)
        PROVE  method.publicKeyMultibase = PubText(k) /\ did = EncodeDidKey(EdPub(k))
    <3>1. m \in {doc.methods[1], doc.methods[2]}
      BY <1>3, <2>1, KeyMethods, FirstOfTwo
    <3>2. \A i \in 1..2 : VerificationMethod(doc.methods[i]).publicKeyMultibase = PubText(k)
      BY <2>1, KeyMethods
    <3> HIDE DEF m, doc
    <3> QED
      BY <1>4, <2>1, <3>1, <3>2, DocumentIds
  <2>2. ASSUME NEW r \in registered, doc = IssuerDocument(r[1], r[2])
        PROVE  method.publicKeyMultibase = PubText(r[2]) /\ <<did, r[2]>> \in registered /\ r[2] \in People
    <3>1. r \in IssuerDids \X Pairs
      BY DEF AccountsOK
    <3>2. r[1] \in Dids /\ r[2] \in Pairs /\ r = <<r[1], r[2]>>
      BY <3>1 DEF Dids
    <3>3. m \in {doc.methods[1], doc.methods[2]}
      BY <1>3, <2>2, <3>2, IssuerMethods, FirstOfTwo
    <3>4. /\ VerificationMethod(doc.methods[1]).publicKeyMultibase = PubText(r[2])
          /\ VerificationMethod(doc.methods[2]) = Error
      BY <2>2, <3>2, IssuerMethods
    <3>5. method.publicKeyMultibase = PubText(r[2])
      <4> HIDE DEF m, doc
      <4> QED BY <1>2, <3>3, <3>4
    <3>6. did = r[1]
      BY <1>4, <2>2, DocumentIds
    <3> QED
      BY <3>2, <3>5, <3>6 DEF People
  <2> HIDE DEF method, did, doc
  <2> QED
    BY <1>4, <2>1, <2>2 DEF Resolved
<1>6. Holds(EdPub(k), VerifyData(p, p.proof.challenge), p.proof.value.data)
  <2>1. EdKey(method.id, method.controller, PubText(k), None).public.data = EdPub(k)
    BY KeyOfText
  <2>2. Decode(p.proof.value, 0) = p.proof.value.data
    BY <1>1 DEF Decode, Presentation
  <2> HIDE DEF method
  <2> QED
    BY <1>2, <1>5, <2>1, <2>2
<1>7. /\ said.by = k /\ "credentials" \in DOMAIN said
      /\ said.holder = p.holder /\ said.credentials = p.credentials
      /\ said.challenge = p.proof.challenge
  BY <1>6 DEF Holds, VerifyData, Statement, EdPub
<1> HIDE DEF said, did
<1> QED
  BY <1>1, <1>5, <1>7 DEF did

LEMMA IsPresentation ==
  ASSUME NEW p, NEW u, NEW statements, PresentationOK(p, u, statements)
  PROVE  p \in Presentation /\ p # None
BY GivenAssumption DEF PresentationOK, GivenAssumption

\* A step of the wallet or of the presentation.
LEMMA DocumentsStep ==
  ASSUME VcInv, UNCHANGED <<accounts, cache, registered>>,
         edits' \in Nat, ProperAll(wallet', edits' = 0), VpOK',
         verdict' = None \/ UNCHANGED <<verdict, signed, vp>>
  PROVE  VcInv'
<1>1. AccountsOK' /\ CacheOK'
  BY DEF VcInv, AccountsOK, CacheOK, Resolved
<1>2. PresentationsAuthentic'
  BY DEF VcInv, PresentationsAuthentic
<1> QED
  BY <1>1, <1>2 DEF VcInv

LEMMA RegisterStep ==
  ASSUME VcInv, NEW a \in Addresses, NEW k \in Pairs, Register(a, k)
  PROVE  VcInv'
<1>1. AccountsOK'
  <2>1. /\ accounts' = [accounts EXCEPT ![a] = AccountOf(k)]
        /\ registered' = registered \cup {<<AlbusDid(a), k>>}
        /\ accounts = [b \in Addresses |-> accounts[b]]
        /\ registered \subseteq IssuerDids \X Pairs
    BY DEF Register, AccountOf, VcInv, AccountsOK
  <2>2. AlbusDid(a) \in IssuerDids
    BY DEF IssuerDids
  <2>3. accounts' = [b \in Addresses |-> accounts'[b]]
    BY <2>1
  <2>4. ASSUME NEW b \in Addresses, accounts'[b] # None
        PROVE  \E p \in Pairs : accounts'[b] = AccountOf(p) /\ <<AlbusDid(b), p>> \in registered'
    <3>1. CASE b = a
      BY <2>1, <3>1
    <3>2. CASE b # a
      BY <2>1, <2>4, <3>2 DEF VcInv, AccountsOK
    <3> QED
      BY <3>1, <3>2
  <2>5. registered' \subseteq IssuerDids \X Pairs
    BY <2>1, <2>2
  <2> QED
    BY <2>3, <2>4, <2>5 DEF AccountsOK
<1>2. registered \subseteq registered' /\ UNCHANGED <<cache, wallet, vp, verdict, signed, edits>>
  BY DEF Register
<1>3. CacheOK'
  BY <1>2 DEF VcInv, CacheOK, Resolved
<1>4. PresentationsAuthentic'
  BY <1>2 DEF VcInv, PresentationsAuthentic
<1> QED
  BY <1>1, <1>2, <1>3, <1>4 DEF VcInv, VpOK

LEMMA DeregisterStep ==
  ASSUME VcInv, NEW a \in Addresses, Deregister(a)
  PROVE  VcInv'
<1>1. /\ accounts' = [accounts EXCEPT ![a] = None]
      /\ accounts = [b \in Addresses |-> accounts[b]]
      /\ UNCHANGED <<cache, wallet, vp, verdict, signed, registered, edits>>
  BY DEF Deregister, VcInv, AccountsOK
<1>2. AccountsOK'
  <2>1. accounts' = [b \in Addresses |-> accounts'[b]]
    BY <1>1
  <2>2. \A b \in Addresses : accounts'[b] # None => accounts'[b] = accounts[b]
    BY <1>1
  <2> QED
    BY <1>1, <2>1, <2>2 DEF VcInv, AccountsOK
<1>3. CacheOK' /\ PresentationsAuthentic'
  BY <1>1 DEF VcInv, CacheOK, Resolved, PresentationsAuthentic
<1> QED
  BY <1>1, <1>2, <1>3 DEF VcInv, VpOK

LEMMA OneMore ==
  ASSUME NEW list, NEW u \in BOOLEAN, ProperAll(list, u), NEW vc, Proper(vc, TRUE)
  PROVE  ProperAll(Append(list, vc), u)
<1>1. list \in Seq(Credential) /\ vc \in Credential /\ Proper(vc, u)
  BY DEF ProperAll, Proper
<1>2. \A i \in DOMAIN list : Proper(list[i], u)
  BY DEF ProperAll
<1> QED
  BY <1>1, <1>2 DEF ProperAll

LEMMA IssueStep ==
  ASSUME VcInv, NEW a \in Addresses, NEW k \in Pairs, NEW claims \in ClaimSets,
         NEW type \in Types, NEW until \in Untils,
         NEW reader \in {None} \cup {EdPub(r) : r \in Pairs},
         NEW esk \in {None} \cup {Secret(p) : p \in Pairs},
         Issue(a, k, claims, type, until, reader, esk)
  PROVE  VcInv'
<1> DEFINE vc == CreateVerifiableCredential(claims, IssueOptions(a, k, type, until, reader, esk))
           st == [by |-> k, values |-> [i \in DOMAIN claims |-> claims[i].value.text],
                  issuer |-> AlbusDid(a), until |-> until, type |-> type]
<1>1. /\ vp = None /\ wallet' = Append(wallet, vc) /\ signed' = signed \cup {st}
      /\ UNCHANGED <<accounts, cache, vp, verdict, registered, edits>>
  BY DEF Issue, IssueOptions
<1>2. Proper(vc, TRUE)
  BY ProperIssued
<1>3. "credentials" \notin DOMAIN st
  OBVIOUS
<1> HIDE DEF vc, st
<1>4. ProperAll(wallet', edits' = 0)
  BY <1>1, <1>2, OneMore DEF VcInv
<1>5. VpOK'
  BY <1>1, <1>3 DEF VcInv, VpOK
<1>6. verdict' = None
  BY <1>1 DEF VcInv, VpOK
<1> QED
  BY <1>1, <1>4, <1>5, <1>6, DocumentsStep DEF VcInv

LEMMA WalletStep ==
  ASSUME VcInv, NEW i \in DOMAIN wallet, NEW k \in Pairs,
         OpenCredential(i, k) \/ CheckCredential(i, k)
  PROVE  VcInv'
<1> DEFINE u == (edits = 0)
<1>1. wallet[i] \in Credential /\ Proper(wallet[i], u)
  BY DEF VcInv, ProperAll
<1>2. Proper(Clear(wallet[i]), u) /\ Clear(wallet[i]) \in Credential
  BY <1>1, ProperClear, ClearType
<1>3. PICK vc : Keep(i, vc) /\ Proper(vc, u)
  <2>1. CASE OpenCredential(i, k)
    BY <1>1, <1>2, <2>1, Opening DEF OpenCredential, Keep
  <2>2. CASE CheckCredential(i, k)
    <3> DEFINE vc == [Clear(wallet[i]) EXCEPT !.proof.parsed = TRUE]
    <3>1. Keep(i, VerifyCredential(wallet[i], Secret(k)))
      BY <2>2 DEF CheckCredential
    <3>2. VerifyCredential(wallet[i], Secret(k)) = vc
      BY <1>1, <3>1, Verified DEF Keep
    <3>3. Proper(vc, u)
      BY <1>2, ProperParsed
    <3> HIDE DEF vc, u
    <3> QED
      BY <3>1, <3>2, <3>3
  <2> QED
    BY <2>1, <2>2
<1>4. ProperAll([wallet EXCEPT ![i] = vc], u)
  BY <1>3, OneOther DEF VcInv
<1> QED
  BY <1>3, <1>4, DocumentsStep DEF VcInv, Keep, VpOK

LEMMA PresentStep ==
  ASSUME VcInv, NEW k \in Pairs, NEW did \in {None} \cup IssuerDids, NEW c \in Challenges,
         NEW reader \in {None} \cup {EdPub(r) : r \in Pairs}, Present(k, did, c, reader)
  PROVE  VcInv'
<1> DEFINE p == CreateVerifiablePresentation(wallet, Secret(k), did, c, reader)
           said == [by |-> k, holder |-> p.holder, credentials |-> wallet, challenge |-> c]
<1>1. /\ vp = None /\ vp' = p /\ signed' = signed \cup {said}
      /\ UNCHANGED <<accounts, cache, wallet, verdict, registered, edits>>
  BY DEF Present
<1>2. verdict = None /\ \A st \in signed : "credentials" \notin DOMAIN st
  BY <1>1 DEF VcInv, VpOK
<1>3. PresentationOK(p, edits = 0, signed \cup {said})
  BY <1>2, ProperPresented DEF VcInv
<1> HIDE DEF p, said
<1>4. VpOK'
  BY <1>1, <1>3, IsPresentation DEF VpOK
<1> QED
  BY <1>1, <1>2, <1>4, DocumentsStep DEF VcInv

\* Other credentials in the presentation, no verdict yet.
LEMMA PresentedStep ==
  ASSUME VcInv, vp # None, NEW v \in BOOLEAN, v <=> (edits' = 0), v => edits = 0, edits' \in Nat,
         PresentationOK(vp', v, signed),
         UNCHANGED <<accounts, cache, wallet, signed, registered>>, verdict' = None
  PROVE  VcInv'
<1>1. VpOK'
  <2>1. v = (edits' = 0)
    OBVIOUS
  <2>2. vp' # None
    BY IsPresentation
  <2> QED
    BY <2>1, <2>2 DEF VpOK
<1>2. ProperAll(wallet', edits' = 0)
  BY DEF VcInv, ProperAll, Proper
<1> QED
  BY <1>1, <1>2, DocumentsStep

LEMMA OpenPresentationStep ==
  ASSUME VcInv, NEW k \in Pairs, NEW throw \in BOOLEAN, OpenPresentation(k, throw)
  PROVE  VcInv'
<1> DEFINE opened == [i \in DOMAIN vp.credentials |->
                        DecryptCredentialIfNeeded(vp.credentials[i], Secret(k), None)]
<1>1. /\ vp # None /\ vp' = [vp EXCEPT !.credentials = WithoutErrors(opened)]
      /\ verdict' = None /\ UNCHANGED <<accounts, cache, wallet, signed, registered, edits>>
  <2>1. /\ vp # None /\ DecryptPresentation(vp, Secret(k), throw) # Error
        /\ vp' = DecryptPresentation(vp, Secret(k), throw)
        /\ verdict' = None /\ UNCHANGED <<accounts, cache, wallet, signed, registered, edits>>
    BY DEF OpenPresentation
  <2> HIDE DEF opened
  <2> QED
    BY <2>1 DEF DecryptPresentation, opened
<1>2. PresentationOK(vp, edits = 0, signed)
  BY <1>1 DEF VcInv, VpOK
<1>3. ProperAll(WithoutErrors(opened), edits = 0)
  BY <1>2, AllOpened DEF PresentationOK
<1> HIDE DEF opened
<1>4. PresentationOK(vp', edits = 0, signed)
  BY <1>1, <1>2, <1>3, OtherCredentials
<1> QED
  BY <1>1, <1>4, PresentedStep DEF VcInv

LEMMA CheckPresentedStep ==
  ASSUME VcInv, vp # None, NEW i \in DOMAIN vp.credentials, NEW k \in Pairs, CheckPresented(i, k)
  PROVE  VcInv'
<1>1. PresentationOK(vp, edits = 0, signed) /\ ProperAll(vp.credentials, edits = 0)
  BY DEF VcInv, VpOK, PresentationOK
<1> DEFINE vc == [vp.credentials[i] EXCEPT !.proof.parsed = TRUE]
           list == [vp.credentials EXCEPT ![i] = vc]
<1>2. Proper(vc, edits = 0)
  BY <1>1, ProperParsed DEF ProperAll
<1>3. ProperAll(list, edits = 0)
  <2> HIDE DEF vc
  <2> QED BY <1>1, <1>2, OneOther
<1>4. /\ vp' = [vp EXCEPT !.credentials = list]
      /\ verdict' = None /\ UNCHANGED <<accounts, cache, wallet, signed, registered, edits>>
  <2>1. vp \in Presentation
    BY <1>1 DEF PresentationOK
  <2> QED
    BY <2>1 DEF CheckPresented, Presentation
<1> HIDE DEF list
<1>5. PresentationOK(vp', edits = 0, signed)
  BY <1>1, <1>3, <1>4, OtherCredentials
<1> QED
  BY <1>4, <1>5, PresentedStep DEF VcInv

LEMMA VerifyStep ==
  ASSUME VcInv, NEW c, Verify(c)
  PROVE  VcInv'
<1> DEFINE did == vp.proof.method[1]
<1>1. /\ vp # None /\ verdict' = [kind |-> "verdict", accepted |-> VerifyPresentation(vp, c)]
      /\ cache' = IF Loaded(did) = Error THEN cache ELSE cache \cup {Loaded(did)}
      /\ UNCHANGED <<accounts, wallet, vp, signed, registered, edits>>
  BY DEF Verify
<1>2. PresentationOK(vp, edits = 0, signed) /\ AccountsOK /\ CacheOK
  BY <1>1 DEF VcInv, VpOK
<1>3. did \in Dids
  BY <1>2 DEF PresentationOK, Presentation
<1> HIDE DEF did
<1>4. CacheOK'
  <2>1. Loaded(did) # Error => Resolved(Loaded(did))
    BY <1>2, <1>3, LoadedResolved
  <2>2. \A doc \in cache' : doc \in cache \/ (Loaded(did) # Error /\ doc = Loaded(did))
    BY <1>1
  <2>3. \A doc \in cache' : Resolved(doc)
    BY <1>2, <2>1, <2>2 DEF CacheOK
  <2> QED
    BY <1>1, <2>3 DEF CacheOK, Resolved
<1>5. PresentationsAuthentic'
  <2> SUFFICES ASSUME verdict'.accepted PROVE PresentationsAuthentic'
    BY DEF PresentationsAuthentic
  <2>1. VerifyPresentation(vp, c)
    <3>1. verdict'.accepted = VerifyPresentation(vp, c)
      BY <1>1
    <3> QED
      BY <3>1
  <2>2. \E st \in signed :
           /\ "credentials" \in DOMAIN st
           /\ st.holder = vp.holder /\ st.credentials = vp.credentials
           /\ st.challenge = vp.proof.challenge
           /\ \/ vp.proof.method[1] = EncodeDidKey(EdPub(st.by))
              \/ <<vp.proof.method[1], st.by>> \in registered
    BY <1>2, <2>1, Accepted
  <2> QED
    BY <1>1, <2>2 DEF PresentationsAuthentic
<1>6. AccountsOK' /\ ProperAll(wallet', edits' = 0) /\ VpOK' /\ edits' \in Nat
  BY <1>1 DEF VcInv, AccountsOK, VpOK
<1> QED
  BY <1>4, <1>5, <1>6 DEF VcInv

LEMMA EditCredentialStep ==
  ASSUME VcInv, NEW i \in DOMAIN wallet, EditCredential(i)
  PROVE  VcInv'
<1>1. PICK vc \in Edited(wallet[i]) : wallet' = [wallet EXCEPT ![i] = vc]
  BY DEF EditCredential
<1>2. /\ vp = None /\ edits' = edits + 1
      /\ UNCHANGED <<accounts, cache, vp, verdict, signed, registered>>
  BY DEF EditCredential
<1>3. edits' \in Nat /\ (edits' = 0) = FALSE
  BY <1>2 DEF VcInv
<1>4. Proper(vc, FALSE)
  BY ProperEdit DEF VcInv, ProperAll
<1>5. ProperAll(wallet', FALSE)
  BY <1>1, <1>4, OneOther DEF VcInv
<1>6. VpOK' /\ verdict' = None
  BY <1>2 DEF VcInv, VpOK
<1> QED
  BY <1>2, <1>3, <1>5, <1>6, DocumentsStep

LEMMA EditPresentationStep ==
  ASSUME VcInv, EditPresentation
  PROVE  VcInv'
<1>1. /\ vp # None /\ edits' = edits + 1 /\ verdict' = None
      /\ UNCHANGED <<accounts, cache, wallet, signed, registered>>
  BY DEF EditPresentation
<1>2. edits' \in Nat /\ (FALSE <=> (edits' = 0))
  BY <1>1 DEF VcInv
<1>3. PresentationOK(vp, edits = 0, signed)
  BY <1>1 DEF VcInv, VpOK
<1>4. ProperAll(vp.credentials, edits = 0) /\ vp \in Presentation
  BY <1>3 DEF PresentationOK
<1>5. ASSUME NEW list, ProperAll(list, FALSE), vp' = [vp EXCEPT !.credentials = list]
      PROVE  PresentationOK(vp', FALSE, signed)
  BY <1>3, <1>5, OtherCredentials
<1>6. PresentationOK(vp', FALSE, signed)
  <2>1. ASSUME NEW i \in DOMAIN vp.credentials, NEW vc \in Edited(vp.credentials[i]),
               vp' = [vp EXCEPT !.credentials[i] = vc]
        PROVE  PresentationOK(vp', FALSE, signed)
    <3> DEFINE list == [vp.credentials EXCEPT ![i] = vc]
    <3>1. Proper(vc, FALSE)
      BY <1>4, ProperEdit DEF ProperAll
    <3>2. ProperAll(list, FALSE)
      BY <1>4, <3>1, OneOther
    <3>3. vp' = [vp EXCEPT !.credentials = list]
      BY <1>4, <2>1 DEF Presentation
    <3> HIDE DEF list
    <3> QED
      BY <1>5, <3>2, <3>3
  <2>2. CASE vp.credentials # <<>> /\ vp' = [vp EXCEPT !.credentials = Tail(@)]
    <3>1. ProperAll(Tail(vp.credentials), FALSE)
      BY <1>4, <2>2, TailProper
    <3>2. vp' = [vp EXCEPT !.credentials = Tail(vp.credentials)]
      BY <1>4, <2>2 DEF Presentation
    <3> QED
      BY <1>5, <3>1, <3>2
  <2>3. ASSUME NEW k \in Pairs, vp' = [vp EXCEPT !.holder = EncodeDidKey(EdPub(k))]
        PROVE  PresentationOK(vp', FALSE, signed)
    <3>1. EncodeDidKey(EdPub(k)) \in Dids
      BY DEF Dids, KeyDids, People
    <3>2. vp' \in Presentation /\ vp'.proof = vp.proof /\ vp'.credentials = vp.credentials
      BY <1>4, <2>3, <3>1 DEF Presentation
    <3>3. Statement(vp') = Statement(vp)
      BY <3>2 DEF Statement
    <3>4. ProperAll(vp'.credentials, FALSE)
      BY <1>4, <3>2 DEF ProperAll, Proper
    <3> QED
      BY <1>3, <3>2, <3>3, <3>4 DEF PresentationOK
  <2>4. ASSUME NEW c \in Challenges, vp' = [vp EXCEPT !.proof.challenge = c]
        PROVE  PresentationOK(vp', FALSE, signed)
    <3>1. /\ vp' \in Presentation /\ vp'.credentials = vp.credentials
          /\ vp'.proof.method = vp.proof.method /\ vp'.proof.value = vp.proof.value
      BY <1>4, <2>4 DEF Presentation
    <3>2. Statement(vp') = Statement(vp)
      BY <3>1 DEF Statement
    <3>3. ProperAll(vp'.credentials, FALSE)
      BY <1>4, <3>1 DEF ProperAll, Proper
    <3> QED
      BY <1>3, <3>1, <3>2, <3>3 DEF PresentationOK
  <2> QED
    BY <2>1, <2>2, <2>3, <2>4 DEF EditPresentation
<1> QED
  BY <1>1, <1>2, <1>6, PresentedStep

LEMMA VcInit ==
  Init => VcInv
<1> SUFFICES ASSUME Init PROVE VcInv
  OBVIOUS
<1>1. /\ accounts = [a \in Addresses |-> None] /\ cache = {} /\ wallet = <<>> /\ vp = None
      /\ verdict = None /\ signed = {} /\ registered = {} /\ edits = 0
  BY DEF Init
<1>2. ProperAll(<<>>, edits = 0)
  BY DEF ProperAll
<1> QED
  BY <1>1, <1>2 DEF VcInv, VpOK, AccountsOK, CacheOK, PresentationsAuthentic

LEMMA VcNext ==
  VcInv /\ [Next]_vars => VcInv'
<1> SUFFICES ASSUME VcInv, [Next]_vars PROVE VcInv'
  OBVIOUS
<1>1. CASE UNCHANGED vars
  BY <1>1 DEF vars, VcInv, VpOK, AccountsOK, CacheOK, Resolved, PresentationsAuthentic
<1>2. CASE \E a \in Addresses, k \in Pairs : Register(a, k)
  BY <1>2, RegisterStep
<1>3. CASE \E a \in Addresses : Deregister(a)
  BY <1>3, DeregisterStep
<1>4. CASE \E a \in Addresses, k \in Pairs, claims \in ClaimSets, type \in Types, until \in Untils :
             \/ Issue(a, k, claims, type, until, None, None)
             \/ \E r \in Pairs, esk \in {None, Secret(k)} :
                  Issue(a, k, claims, type, until, EdPub(r), esk)
  BY <1>4, IssueStep
<1>5. CASE \E i \in DOMAIN wallet, k \in Pairs : OpenCredential(i, k) \/ CheckCredential(i, k)
  BY <1>5, WalletStep
<1>6. CASE \E k \in Pairs, did \in {None} \cup {AlbusDid(a) : a \in Addresses}, c \in Challenges,
              reader \in {None} \cup {EdPub(r) : r \in Pairs} :
             Present(k, did, c, reader)
  BY <1>6, PresentStep DEF IssuerDids
<1>7. CASE \E k \in Pairs, throw \in BOOLEAN : OpenPresentation(k, throw)
  BY <1>7, OpenPresentationStep
<1>8. CASE vp # None /\ \E i \in DOMAIN vp.credentials : \E k \in Pairs : CheckPresented(i, k)
  BY <1>8, CheckPresentedStep
<1>9. CASE \E c \in {None} \cup Challenges : Verify(c)
  BY <1>9, VerifyStep
<1>10. CASE \E i \in DOMAIN wallet : EditCredential(i)
  BY <1>10, EditCredentialStep
<1>11. CASE EditPresentation
  BY <1>11, EditPresentationStep
<1> QED
  BY <1>1, <1>2, <1>3, <1>4, <1>5, <1>6, <1>7, <1>8, <1>9, <1>10, <1>11 DEF Next

LEMMA VcAlways ==
  Spec => []VcInv
BY VcInit, VcNext, PTL DEF Spec

-----------------------------------------------------------------------------
(* What the parties rely on.                                                 *)

\* verifyPresentation accepts what was signed by a key its DID had, for this
\* challenge and with these credentials: for any wallet and any presentation.
THEOREM PresentationsHold == Spec => []PresentationsAuthentic
BY VcAlways, PTL DEF VcInv

LEMMA DocumentsProper ==
  ASSUME VcInv, NEW vc \in Documents
  PROVE  Proper(vc, edits = 0)
<1>1. CASE vc \in ToSet(wallet)
  BY <1>1 DEF VcInv, ProperAll, ToSet
<1>2. CASE vp # None /\ vc \in ToSet(vp.credentials)
  <2>1. ProperAll(vp.credentials, edits = 0)
    BY <1>2 DEF VcInv, VpOK, PresentationOK
  <2> QED
    BY <1>2, <2>1 DEF ProperAll, ToSet
<1> QED
  BY <1>1, <1>2 DEF Documents

\* A sealed subject opens for its reader and for a sender with a key of its
\* own, and for nobody else: whatever was done to the document on its way.
THEOREM PartiesOnly == Spec => []OnlyPartiesOpen
<1>1. VcInv => OnlyPartiesOpen
  <2> SUFFICES ASSUME VcInv, NEW vc \in Documents, NEW s \in Readers,
                      NEW epk \in {None} \cup {EdPub(p) : p \in Pairs}, Sealed(vc)
               PROVE  (DecryptCredentialIfNeeded(vc, s, epk) # Error) <=>
                        IF epk = None THEN s.of = vc.subject.reader.of
                        ELSE {s.of, epk.of} = {vc.subject.encrypted[4].of, vc.subject.reader.of}
    BY DEF OnlyPartiesOpen
  <2>1. PICK k \in Pairs : s = Secret(k)
    BY DEF Readers
  <2>2. s.of = k
    BY <2>1 DEF Secret
  <2>3. vc \in Credential /\ SealedRight(vc)
    BY DocumentsProper DEF Proper
  <2>4. Clear(vc) # Error
    BY <2>3, ClearType, NotError
  <2>5. (DecryptCredentialIfNeeded(vc, s, epk) # Error) <=> Opens(vc, k, epk)
    BY <2>1, <2>3, <2>4, Opening
  <2> DEFINE sender == vc.subject.encrypted[4].of
             reader == vc.subject.reader.of
  <2>6. vc.subject.encrypted[3].key = {sender, reader}
    BY <2>3 DEF SealedRight
  <2> HIDE DEF sender, reader
  <2>7. CASE epk = None
    <3>1. Opens(vc, k, epk) <=> {sender, reader} = {k, sender}
      BY <2>6, <2>7 DEF Opens, sender
    <3>2. {sender, reader} = {k, sender} <=> k = reader
      OBVIOUS
    <3> QED
      BY <2>2, <2>5, <2>7, <3>1, <3>2 DEF reader
  <2>8. CASE epk # None
    <3>1. Opens(vc, k, epk) <=> {k, epk.of} = {sender, reader}
      BY <2>6, <2>8 DEF Opens
    <3> QED
      BY <2>2, <2>5, <2>8, <3>1 DEF sender, reader
  <2> QED
    BY <2>7, <2>8
<1> QED
  BY <1>1, VcAlways, PTL

LEMMA Validated ==
  ASSUME NEW vc, Proper(vc, TRUE)
  PROVE  ValidateCredentialPayload(vc)
<1>1. vc \in Credential /\ SignedRight(vc) /\ \E i \in DOMAIN vc.types : vc.types[i] = DefaultType
  BY DEF Proper
<1>2. DefaultType \in ToSet(vc.types)
  BY <1>1 DEF ToSet
<1>3. vc.subject.kind = "sealed" \/ vc.subject.claims # <<>>
  BY <1>1 DEF Sealed, SignedRight, Clear
<1> QED
  BY <1>2, <1>3 DEF ValidateCredentialPayload

\* What was issued and left alone passes verifyCredential.
LEMMA IssuedAccepted ==
  VcInv => IssuedVerifies
<1> SUFFICES ASSUME VcInv, edits = 0, NEW vc \in Documents, NEW s \in Readers,
                    Sealed(vc) => vc.subject.reader = EdPub(s.of),
                    accounts[vc.issuer.id] # None,
                    accounts[vc.issuer.id].zkPubkey = vc.proof.method[2]
             PROVE  VerifyCredential(vc, s) # Error
  BY DEF IssuedVerifies
<1>1. PICK k \in Pairs : s = Secret(k) /\ s.of = k
  BY DEF Readers, Secret
<1>2. Proper(vc, TRUE) /\ vc \in Credential
  <2>1. (edits = 0) = TRUE
    OBVIOUS
  <2> QED
    BY <2>1, DocumentsProper DEF Proper
<1> DEFINE cred == Clear(vc)
<1>3. /\ cred \in Credential /\ cred # Error
      /\ cred.issuer = vc.issuer /\ cred.proof = vc.proof
  BY <1>2, ClearType, NotError
<1>4. DecryptCredentialIfNeeded(vc, s, None) = cred
  <2>1. Sealed(vc) => Opens(vc, k, None)
    <3> SUFFICES ASSUME Sealed(vc) PROVE Opens(vc, k, None)
      OBVIOUS
    <3>1. vc.subject.reader.of = k
      BY <1>1 DEF EdPub
    <3> QED
      BY <1>2, <3>1 DEF Proper, SealedRight, Opens
  <2> QED
    BY <1>1, <1>2, <2>1, Opening
<1>5. PICK a \in Addresses : vc.issuer = AlbusDid(a) /\ vc.issuer.id = a
  BY <1>2 DEF Credential, IssuerDids, AlbusDid
<1>6. PICK issuer \in Pairs : accounts[a] = AccountOf(issuer)
  BY <1>5 DEF VcInv, AccountsOK
<1> DEFINE doc == Resolve(cred.issuer, accounts)
<1>7. doc = IssuerDocument(AlbusDid(a), issuer)
  BY <1>3, <1>5, <1>6, AlbusResolves
<1>8. doc # Error /\ \A proof : IssuerKey(doc, proof) = Bjj(issuer)
  BY <1>7, IssuerMethods DEF Dids, IssuerDids
<1>9. /\ cred.proof # None /\ Bjj(issuer) # Error
  BY <1>3, GivenAssumption DEF GivenAssumption, Given, People, Credential
<1>10. VerifyCredentialProof(Root(cred), cred.proof.value, Bjj(issuer))
  <2>1. PICK p \in Pairs :
          /\ vc.proof.method[2] = Bjj(p)
          /\ vc.proof.value =
               Encode([kind |-> "proof", signature |-> Signed(Secret(p), "bjj", Root(cred)),
                       issuer |-> Bjj(p)], 0)
    BY <1>2 DEF Proper, SignedRight
  <2>2. p = issuer
    BY <1>5, <1>6, <2>1 DEF AccountOf, Bjj
  <2> DEFINE root == Root(cred)
             signature == [kind |-> "signature", of |-> issuer, scheme |-> "bjj", data |-> root]
             proof == [kind |-> "proof", signature |-> signature, issuer |-> Bjj(p)]
  <2>3. cred.proof.value = Encode(proof, 0)
    BY <1>3, <2>1, <2>2 DEF Signed, Secret
  <2>4. ParseCredentialProof(Encode(proof, 0)) = proof
    BY DEF ParseCredentialProof, Decode, Encode
  <2>5. Holds(Bjj(issuer), root, signature)
    BY DEF Holds, Bjj
  <2>6. Bjj(issuer) # None /\ proof.signature = signature
    BY GivenAssumption DEF GivenAssumption, Given, People
  <2> HIDE DEF root, signature, proof
  <2>7. VerifyCredentialProof(root, Encode(proof, 0), Bjj(issuer))
    BY <2>4, <2>5, <2>6 DEF VerifyCredentialProof
  <2> QED
    BY <2>3, <2>7 DEF root
<1>11. ValidateCredentialPayload(vc)
  BY <1>2, Validated
<1> HIDE DEF cred, doc
<1>12. VerifyCredential(vc, s) = [cred EXCEPT !.proof.parsed = TRUE]
  BY <1>3, <1>4, <1>8, <1>9, <1>10, <1>11 DEF VerifyCredential, doc
<1>13. [cred EXCEPT !.proof.parsed = TRUE] \in Credential
  BY <1>3 DEF Credential, CredentialProof
<1> QED
  BY <1>12, <1>13, NotError

\* A presentation nobody changed passes verifyPresentation.
LEMMA PresentedAccepted ==
  VcInv => PresentedVerifies
<1> SUFFICES ASSUME VcInv, vp # None, edits = 0, vp.holder.method = "key", FormSigned
             PROVE  VerifyPresentation(vp, None)
  BY DEF PresentedVerifies
<1> DEFINE said == Statement(vp)
           k == said.by
           did == EncodeDidKey(EdPub(k))
           doc == Loaded(did)
           method == MethodOf(doc, <<did, PubText(k)>>)
<1>1. PresentationOK(vp, TRUE, signed)
  <2>1. (edits = 0) = TRUE
    OBVIOUS
  <2> QED
    BY <2>1 DEF VcInv, VpOK
<1>2. /\ vp \in Presentation /\ said.holder = vp.holder /\ said.challenge = vp.proof.challenge
      /\ vp.holder = did /\ vp.proof.method = <<did, PubText(k)>>
  BY <1>1 DEF PresentationOK
<1>3. said.credentials = vp.credentials
  BY <1>1 DEF FormSigned, PresentationOK
<1>4. k \in Pairs /\ k \in People /\ did \in Dids
  BY <1>2 DEF Presentation, Statement, People, Dids, KeyDids
<1>5. doc = KeyDocument(k)
  <2>1. CASE \E c \in cache : c.id = did
    <3>1. doc \in cache /\ doc.id = did
      BY <2>1 DEF Loaded
    <3> HIDE DEF doc
    <3>2. ~\E r \in registered : doc = IssuerDocument(r[1], r[2])
      <4> SUFFICES ASSUME NEW r \in registered, doc = IssuerDocument(r[1], r[2]) PROVE FALSE
        OBVIOUS
      <4>1. r[1] \in IssuerDids /\ r[1] = did
        BY <3>1, DocumentIds DEF VcInv, AccountsOK
      <4>2. \A x \in IssuerDids : x.method = "albus"
        BY DEF IssuerDids, AlbusDid
      <4>3. did.method = "key"
        BY DEF EncodeDidKey
      <4> HIDE DEF did
      <4> QED
        BY <4>1, <4>2, <4>3
    <3>3. PICK p \in People : doc = KeyDocument(p)
      BY <3>1, <3>2 DEF VcInv, CacheOK, Resolved
    <3>4. EncodeDidKey(EdPub(p)) = did
      BY <3>1, <3>3, DocumentIds
    <3>5. p = k
      BY <3>4 DEF EncodeDidKey, Encode, EdPub
    <3> QED
      BY <3>3, <3>5
  <2>2. CASE ~\E c \in cache : c.id = did
    BY <1>4, <2>2, KeyResolves DEF Loaded
  <2> QED
    BY <2>1, <2>2
<1> HIDE DEF k, doc, did
<1>6. /\ doc # Error /\ DOMAIN doc.methods = 1..2
      /\ doc.methods[1].id = <<did, PubText(k)>>
      /\ VerificationMethod(doc.methods[1]) # Error
      /\ VerificationMethod(doc.methods[1]).publicKeyMultibase = PubText(k)
  BY <1>4, <1>5, KeyMethods DEF did
<1>7. method = doc.methods[1]
  BY <1>6, FirstOfTwo
<1> DEFINE m == VerificationMethod(method)
<1>8. m # Error /\ m.publicKeyMultibase = PubText(k)
  BY <1>6, <1>7
<1>9. /\ vp.proof.value.data =
           [kind |-> "signature", of |-> k, scheme |-> "ed", data |-> VerifyData(vp, vp.proof.challenge)]
      /\ Decode(vp.proof.value, 0) = vp.proof.value.data
  <2> DEFINE signature == vp.proof.value.data
  <2>1. /\ signature = [kind |-> "signature", of |-> signature.of, scheme |-> "ed",
                        data |-> signature.data]
        /\ signature.data = [holder |-> signature.data.holder, credentials |-> signature.data.credentials,
                             challenge |-> signature.data.challenge]
        /\ vp.proof.value.base = "z" /\ vp.proof.value.codec = 0
    BY <1>2 DEF Presentation
  <2> HIDE DEF signature
  <2>2. /\ signature.of = k /\ signature.data.holder = said.holder
        /\ signature.data.credentials = said.credentials
        /\ signature.data.challenge = said.challenge
    BY DEF Statement, k, signature
  <2> HIDE DEF said
  <2>3. signature.data = VerifyData(vp, vp.proof.challenge)
    BY <1>2, <1>3, <2>1, <2>2 DEF VerifyData
  <2>4. Decode(vp.proof.value, 0) = signature
    BY <2>1 DEF Decode, signature
  <2> QED
    BY <2>1, <2>2, <2>3, <2>4 DEF signature
<1>10. VerifySignature(m, VerifyData(vp, vp.proof.challenge), vp.proof)
  <2> DEFINE key == EdKey(m.id, m.controller, m.publicKeyMultibase, None)
             data == VerifyData(vp, vp.proof.challenge)
  <2>1. key.public.data = EdPub(k)
    BY <1>4, <1>8, KeyOfText
  <2> HIDE DEF key, data
  <2>2. Holds(EdPub(k), data, Decode(vp.proof.value, 0))
    BY <1>9 DEF Holds, EdPub, data
  <2> QED
    BY <2>1, <2>2 DEF VerifySignature, EdVerify, key, data
<1>11. ValidatePresentationPayload(vp)
  BY <1>1, Validated DEF PresentationOK, ProperAll, ValidatePresentationPayload
<1>12. vp.proof.method[1] = did
  BY <1>2
<1> HIDE DEF method
<1> QED
  BY <1>2, <1>8, <1>10, <1>11, <1>12 DEF VerifyPresentation, method, doc

-----------------------------------------------------------------------------
(* The forms of a key.                                                       *)

\* The private half a key may have.
PrivateTexts(k) == {None, Encode(Secret(k), EdPrivCodec)}
\* The key made of them.
IsKeyOf(key, k, controller, id, private) ==
  /\ key \in EdKeys /\ key.public = PubText(k) /\ key.private = private
  /\ key.controller = controller
  /\ key.id = IF controller # None /\ id = None THEN <<controller, PubText(k)>> ELSE id

LEMMA KeyMade ==
  ASSUME NEW k \in People, NEW controller \in Dids \cup {None},
         NEW id \in KeyIds,
         NEW private \in PrivateTexts(k),
         NEW made, made = EdKey(id, controller, PubText(k), private)
  PROVE  IsKeyOf(made, k, controller, id, private)
<1>1. /\ IsValidKeyHeader(PubText(k), EdPubCodec)
      /\ IsValidKeyHeader(Encode(Secret(k), EdPrivCodec), EdPrivCodec)
      /\ PubText(k).data.kind = "ed"
  BY DEF IsValidKeyHeader, PubText, Encode, EdPub
<1>a. private \in {None, Encode(Secret(k), EdPrivCodec)}
  BY DEF PrivateTexts
<1> DEFINE name == IF controller # None /\ id = None THEN <<controller, PubText(k)>> ELSE id
           key == [kind |-> "key", type |-> "Ed25519VerificationKey2020", controller |-> controller,
                   id |-> name, public |-> PubText(k), private |-> private]
<1>2. made = key
  BY <1>1, <1>a DEF EdKey
<1>3. PubText(k) \in KeyTexts
  BY DEF PubText, KeyTexts
<1>4. name \in KeyIds
  <2>1. CASE controller # None /\ id = None
    BY <1>3, <2>1 DEF KeyIds
  <2>2. CASE ~(controller # None /\ id = None)
    BY <2>2
  <2> QED
    BY <2>1, <2>2
<1>5. key \in EdKeys
  <2> HIDE DEF name
  <2> QED
    BY <1>3, <1>4, <1>a DEF EdKeys
<1> QED
  BY <1>2, <1>5 DEF IsKeyOf

\* So does a key without its private half.
LEMMA PublicKeyMade ==
  ASSUME NEW k \in People, NEW controller \in Dids \cup {None}, NEW id \in KeyIds,
         NEW key, key = EdKey(id, controller, PubText(k), None)
  PROVE  key \in EdKeys /\ key.public = PubText(k)
<1>1. PICK private \in PrivateTexts(k) : private = None
  BY DEF PrivateTexts
<1>2. key = EdKey(id, controller, PubText(k), private)
  BY <1>1
<1>3. IsKeyOf(key, k, controller, id, private)
  BY ONLY k \in People, controller \in Dids \cup {None}, id \in KeyIds,
          private \in PrivateTexts(k), <1>2, KeyMade
<1> QED
  BY <1>3 DEF IsKeyOf

\* In whatever form it is passed in, a key is a key and has the same text.
LEMMA EveryForm ==
  ASSUME NEW k \in People, NEW form \in FormsOf(k)
  PROVE  form \in EdKeys /\ form.public = PubText(k)
<1> DEFINE did == EncodeDidKey(EdPub(k))
           text == Encode(Secret(k), EdPrivCodec)
           key == EdKey(None, did, PubText(k), text)
           Made(id, controller) == EdKey(id, controller, PubText(k), None)
<1>1. did \in Dids /\ did # None
  BY GivenAssumption DEF Dids, KeyDids, GivenAssumption, Given
<1>2. EdGenerate(k, did) = key
  BY DEF EdGenerate, PubText
<1>3. /\ key \in EdKeys /\ key.public = PubText(k) /\ key.controller = did
      /\ key.id = <<did, PubText(k)>>
  <2>1. None \in KeyIds /\ text \in PrivateTexts(k)
    BY DEF KeyIds, PrivateTexts
  <2> HIDE DEF did, text
  <2>2. did \in Dids \cup {None}
    BY <1>1
  <2>3. PICK id \in KeyIds : id = None
    BY <2>1
  <2>4. PICK made : made = EdKey(id, did, PubText(k), text)
    OBVIOUS
  <2>5. IsKeyOf(made, k, did, id, text)
    BY ONLY k \in People, id \in KeyIds, <2>1, <2>2, <2>4, KeyMade
  <2> QED
    BY <1>1, <2>3, <2>4, <2>5 DEF IsKeyOf
<1>4. KeyResolve(did).methods[1].id = <<did, PubText(k)>>
      /\ KeyResolve(did).methods[1].controller = did
      /\ KeyResolve(did).methods[1].publicKeyBase58 = EdPub(k)
  <2>1. Resolve(did, accounts) = KeyResolve(did)
    BY <1>1 DEF Resolve, EncodeDidKey
  <2>2. KeyResolve(did) = KeyDocument(k)
    BY <2>1, KeyResolves
  <2> QED
    BY <2>2 DEF KeyDocument, Ed25519Doc, PubText, EncodeDidKey
<1>5. DecodeDidKey(did) = EdPub(k)
  BY DEF DecodeDidKey, EncodeDidKey, Decode, Encode, EdPubCodec
<1>6. PubText(k).data = EdPub(k) /\ <<did, PubText(k)>> \in KeyIds
  BY <1>1 DEF PubText, Encode, KeyTexts, KeyIds
<1> DEFINE thumb == <<did, "thumbprint", EdPub(k)>>
<1>7. thumb \in KeyIds /\ None \in KeyIds
  BY <1>1 DEF KeyIds
<1>8. /\ EdFromFingerprint(EdFingerprint(key)) = Made(None, None)
      /\ EdFrom2018(KeyResolve(did).methods[1]) = Made(<<did, PubText(k)>>, did)
      /\ EdFrom2018([id |-> key.id, controller |-> did, publicKeyBase58 |-> DecodeDidKey(did)])
           = Made(<<did, PubText(k)>>, did)
  <2> HIDE DEF key
  <2> QED
    BY <1>3, <1>4, <1>5 DEF EdFromFingerprint, EdFingerprint, EdFrom2018, PubText
<1>9. k \notin UrlPairs => EdFromJwk(EdJwk(key)) = Made(thumb, did)
  <2> HAVE k \notin UrlPairs
  <2> DEFINE jwk == EdJwk(key)
  <2>1. /\ jwk.id = thumb /\ jwk.controller = did /\ jwk.kty = "OKP" /\ jwk.crv = "Ed25519"
        /\ jwk.x = EdPub(k)
    <3> HIDE DEF key
    <3> QED BY <1>3, <1>6 DEF EdJwk
  <2>2. jwk.x.of = k
    BY <2>1 DEF EdPub
  <2> HIDE DEF jwk, thumb
  <2>3. EdFromJwk(jwk) = Made(thumb, did)
    BY <2>1, <2>2 DEF EdFromJwk, PubText
  <2> QED
    BY <2>3 DEF jwk
<1> HIDE DEF did, key, thumb, Made
<1>10. form \in {key, Made(None, None), Made(<<did, PubText(k)>>, did), Made(thumb, did)}
  BY <1>2, <1>8, <1>9 DEF FormsOf, did
<1>11. ASSUME NEW id, NEW controller, form = Made(id, controller), controller \in Dids \cup {None},
              id \in KeyIds
       PROVE  form \in EdKeys /\ form.public = PubText(k)
  <2> DEFINE made == EdKey(id, controller, PubText(k), None)
  <2>1. made \in EdKeys /\ made.public = PubText(k)
    <3> HIDE DEF text, made
    <3>1. controller \in Dids \cup {None} /\ id \in KeyIds
      BY <1>11
    <3>2. made = EdKey(id, controller, PubText(k), None)
      BY DEF made
    <3> QED
      BY ONLY k \in People, <3>1, <3>2, PublicKeyMade
  <2>2. form = made
    BY <1>11 DEF Made
  <2> HIDE DEF made
  <2> QED
    BY <2>1, <2>2
<1> QED
  BY <1>1, <1>3, <1>6, <1>7, <1>10, <1>11

LEMMA FormsAgree ==
  ASSUME NEW pairs \in SUBSET People
  PROVE  KeyFormsAgree(pairs)
<1> SUFFICES ASSUME NEW k \in pairs, NEW other \in pairs
             PROVE  LET signature == EdSign(EdGenerate(k, None), "data")
                        bjj == BjjKey(None, None, None, Secret(k))
                    IN /\ \A form \in FormsOf(k) :
                            /\ form # Error /\ EdVerify(form, "data", signature)
                            /\ EdVerifyFingerprint(form, EdExport(form).publicKeyMultibase)
                       /\ k # other => \A form \in FormsOf(other) :
                            /\ ~EdVerify(form, "data", signature)
                            /\ ~EdVerifyFingerprint(form, EdFingerprint(EdGenerate(k, None)))
                       /\ BjjVerifyFingerprint(bjj, GenerateDid(k, None).methods[2].publicKeyBase58)
                       /\ BjjVerify(BjjKey(None, None, BjjExport(bjj).publicKeyBase58, None),
                                    "data", BjjSign(bjj, "data"))
  BY DEF KeyFormsAgree
<1> DEFINE text == Encode(Secret(k), EdPrivCodec)
           own == EdGenerate(k, None)
           signature == EdSign(own, "data")
<1>1. k \in People /\ other \in People
  OBVIOUS
<1>2. own.public = PubText(k) /\ own.private = text
  <2>1. own = EdKey(None, None, PubText(k), text)
    BY DEF EdGenerate, PubText
  <2>2. /\ IsValidKeyHeader(PubText(k), EdPubCodec) /\ IsValidKeyHeader(text, EdPrivCodec)
        /\ PubText(k).data.kind = "ed"
    BY DEF IsValidKeyHeader, PubText, Encode, EdPub
  <2> HIDE DEF own, text
  <2> QED
    BY <2>1, <2>2 DEF EdKey
<1>3. signature = [kind |-> "signature", of |-> k, scheme |-> "ed", data |-> "data"]
  <2>1. text # None /\ Decode(text, EdPrivCodec) = Secret(k)
    BY <1>1, GivenAssumption DEF GivenAssumption, Given, Decode, Encode, EdPrivCodec
  <2> HIDE DEF own, text
  <2> QED
    BY <1>2, <2>1 DEF EdSign, Signed, Secret
<1> HIDE DEF own, text, signature
<1>4. ASSUME NEW p \in People
      PROVE  /\ PubText(p).data = EdPub(p) /\ PubText(p).codec = EdPubCodec /\ PubText(p).base = "z"
             /\ Decode(PubText(p), 0).kind = "tagged"
             /\ EdPub(p).kind = "ed" /\ EdPub(p).of = p
  BY DEF PubText, Encode, Decode, EdPub, EdPubCodec
<1>5. ASSUME NEW form \in FormsOf(k)
      PROVE  /\ form # Error /\ EdVerify(form, "data", signature)
             /\ EdVerifyFingerprint(form, EdExport(form).publicKeyMultibase)
  <2>1. form \in EdKeys /\ form.public = PubText(k)
    BY <1>1, EveryForm
  <2>2. form # Error
    BY <2>1, GivenAssumption DEF GivenAssumption
  <2>3. EdVerify(form, "data", signature)
    BY <1>1, <1>3, <1>4, <2>1 DEF EdVerify, Holds
  <2>4. EdExport(form).publicKeyMultibase = PubText(k)
    BY <2>1 DEF EdExport
  <2> QED
    BY <1>1, <1>4, <2>1, <2>2, <2>3, <2>4 DEF EdVerifyFingerprint
<1>6. ASSUME k # other, NEW form \in FormsOf(other)
      PROVE  ~EdVerify(form, "data", signature) /\ ~EdVerifyFingerprint(form, EdFingerprint(own))
  <2>1. form.public = PubText(other)
    BY <1>1, EveryForm
  <2>2. ~EdVerify(form, "data", signature)
    BY <1>1, <1>3, <1>4, <1>6, <2>1 DEF EdVerify, Holds
  <2>3. EdFingerprint(own) = PubText(k)
    BY <1>2 DEF EdFingerprint
  <2>4. EdPub(k) # EdPub(other)
    BY <1>1, <1>4, <1>6
  <2> QED
    BY <1>1, <1>4, <2>1, <2>2, <2>3, <2>4 DEF EdVerifyFingerprint
<1> DEFINE bjj == BjjKey(None, None, None, Secret(k))
<1>7. bjj.public = Bjj(k) /\ bjj.private = Secret(k) /\ Secret(k) # None /\ Bjj(k) # None
  <2>1. Secret(k) # None /\ Secret(k).of = k /\ Bjj(k) # None
    BY <1>1, GivenAssumption DEF GivenAssumption, Given, Secret
  <2> QED
    BY <2>1 DEF BjjKey
<1> HIDE DEF bjj
<1>8. BjjVerifyFingerprint(bjj, GenerateDid(k, None).methods[2].publicKeyBase58)
  BY <1>7 DEF BjjVerifyFingerprint, GenerateDid, BjjMethod
<1>9. BjjVerify(BjjKey(None, None, BjjExport(bjj).publicKeyBase58, None), "data", BjjSign(bjj, "data"))
  <2>1. BjjKey(None, None, BjjExport(bjj).publicKeyBase58, None).public = Bjj(k)
    BY <1>7 DEF BjjKey, BjjExport
  <2>2. BjjSign(bjj, "data") = [kind |-> "signature", of |-> k, scheme |-> "bjj", data |-> "data"]
    BY <1>7 DEF BjjSign, Signed, Secret
  <2> QED
    BY <2>1, <2>2 DEF BjjVerify, Holds, Bjj
<1> QED
  BY <1>5, <1>6, <1>8, <1>9 DEF own, signature, bjj

\* Whoever is honest is accepted: a key agrees with its other forms, what was
\* issued or presented and left alone verifies.
THEOREM HonestParties == Spec => []HonestAccepted
<1>1. VcInv => KeyFormsAgreeOfPairs
  <2> SUFFICES ASSUME VcInv PROVE KeyFormsAgreeOfPairs
    OBVIOUS
  <2>1. {r[2] : r \in registered} \cup {Fresh} \in SUBSET People
    BY DEF VcInv, AccountsOK, People
  <2> QED
    BY <2>1, FormsAgree DEF KeyFormsAgreeOfPairs
<1>2. VcInv => HonestAccepted
  BY <1>1, IssuedAccepted, PresentedAccepted DEF HonestAccepted
<1> QED
  BY <1>2, VcAlways, PTL

-----------------------------------------------------------------------------
(* Where a credential comes from.                                            *)

\* The root an issuer's statement comes to.
RootOf(data, st) ==
  LET m == Len(st.values) IN
  /\ st.values \in Seq(Texts)
  /\ data \in Seq(Value)
  /\ \A i \in 1..m : data[i] = Text(st.values[i])
  /\ data[m + 1] = [did |-> st.issuer] /\ data[m + 3] = Time(st.until)
  /\ IF OwnTypes(st.type) = {} THEN Len(data) = m + 4
     ELSE Len(data) = m + 6 /\ data[m + 5] = Text(st.type[1])

\* A list of types that was issued, with what was appended on its way.
TypesFrom(types, type) ==
  /\ ToSet(types) \subseteq {DefaultType, AlbusType, "Other"} \cup ToSet(type)
  /\ ToSet(type) \subseteq ToSet(types)
  /\ Last(types) = "Other" \/ ToSet(types) \subseteq {DefaultType, AlbusType} \cup ToSet(type)

\* The proof is what the issuer made of its statement.
Origin(vc, st) ==
  LET signature == vc.proof.value.data.signature IN
  /\ "values" \in DOMAIN st
  /\ signature.of = st.by /\ RootOf(signature.data, st)
  /\ st.type = <<>> \/ st.type = <<st.type[1]>>
  /\ TypesFrom(vc.types, st.type)

OriginInv == \A vc \in Documents : \E st \in signed : Origin(vc, st)

\* A credential made of another: sealed, opened, checked or changed.
Derived(w, v) ==
  /\ w.proof.value = v.proof.value
  /\ w.types = v.types \/ w.types = v.types \o <<"Other">>

LEMMA AppendedLast ==
  ASSUME NEW S, NEW list \in Seq(S), NEW e \in S
  PROVE  LET longer == list \o <<e>> IN
         /\ longer \in Seq(S) /\ Last(longer) = e
         /\ ToSet(longer) = ToSet(list) \cup {e}
<1> DEFINE longer == list \o <<e>>
<1>1. longer \in Seq(S) /\ Len(longer) = Len(list) + 1 /\ longer[Len(list) + 1] = e
      /\ \A i \in DOMAIN list : i \in DOMAIN longer /\ longer[i] = list[i]
  OBVIOUS
<1>2. \A i \in DOMAIN longer : i \in DOMAIN list \/ i = Len(list) + 1
  OBVIOUS
<1>3. Len(list) + 1 \in DOMAIN longer
  OBVIOUS
<1> HIDE DEF longer
<1>4. ToSet(longer) = ToSet(list) \cup {e}
  BY <1>1, <1>2, <1>3 DEF ToSet
<1>5. Last(longer) = e
  BY <1>1 DEF Last
<1> QED
  BY <1>1, <1>4, <1>5 DEF longer

LEMMA DerivedOrigin ==
  ASSUME NEW v \in Credential, NEW w, Derived(w, v), NEW st, Origin(v, st)
  PROVE  Origin(w, st)
<1>1. CASE w.types = v.types
  BY <1>1 DEF Derived, Origin
<1>2. CASE w.types = v.types \o <<"Other">>
  <2>1. v.types \in Seq(Texts) /\ "Other" \in Texts
    BY DEF Credential, Texts
  <2>2. Last(w.types) = "Other" /\ ToSet(w.types) = ToSet(v.types) \cup {"Other"}
    BY <1>2, <2>1, AppendedLast
  <2>3. TypesFrom(w.types, st.type)
    BY <2>2 DEF Origin, TypesFrom
  <2> QED
    BY <2>3 DEF Derived, Origin
<1> QED
  BY <1>1, <1>2 DEF Derived

LEMMA DerivedClear ==
  ASSUME NEW vc \in Credential
  PROVE  /\ Derived(vc, vc) /\ Derived(Clear(vc), vc)
         /\ Derived([Clear(vc) EXCEPT !.proof.parsed = TRUE], vc)
         /\ Derived([vc EXCEPT !.proof.parsed = TRUE], vc)
<1>1. /\ Clear(vc) \in Credential
      /\ Clear(vc).types = vc.types /\ Clear(vc).proof = vc.proof
  BY ClearType
<1>2. ASSUME NEW c \in Credential
      PROVE  /\ [c EXCEPT !.proof.parsed = TRUE].types = c.types
             /\ [c EXCEPT !.proof.parsed = TRUE].proof.value = c.proof.value
  BY DEF Credential, CredentialProof
<1> QED
  BY <1>1, <1>2 DEF Derived

LEMMA DerivedSealed ==
  ASSUME NEW vc \in Credential, NEW public, NEW esk
  PROVE  /\ Derived(EncryptCredential(vc, public, esk), vc)
         /\ EncryptCredential(vc, public, esk).types = vc.types
BY DEF EncryptCredential, Derived, Credential

LEMMA DerivedEdited ==
  ASSUME NEW vc \in Credential, NEW c \in Edited(vc)
  PROVE  Derived(c, vc)
<1>1. CASE c = [vc EXCEPT !.validUntil = 9]
  BY <1>1 DEF Derived, Credential
<1>2. CASE c = [vc EXCEPT !.types = @ \o <<"Other">>]
  BY <1>2 DEF Derived, Credential
<1>3. CASE \E a \in Addresses : c = [vc EXCEPT !.issuer = AlbusDid(a)]
  BY <1>3 DEF Derived, Credential
<1>4. CASE ~Sealed(vc) /\ \E j \in DOMAIN vc.subject.claims :
                            c = [vc EXCEPT !.subject.claims[j].value = Text("other")]
  BY <1>4 DEF Derived, Credential
<1>5. CASE ~Sealed(vc) /\ c = [vc EXCEPT !.subject.claims = Tail(@)]
  BY <1>5 DEF Derived, Credential
<1> QED
  BY <1>1, <1>2, <1>3, <1>4, <1>5 DEF Edited

\* A credential as it is before it is signed, and what its issuer says by it.
Unsigned(a, claims, type, until) ==
  [kind |-> "credential", types |-> <<DefaultType, AlbusType>> \o type,
   issuer |-> AlbusDid(a), issued |-> 1, validFrom |-> 0, validUntil |-> until,
   proof |-> None, subject |-> [kind |-> "plain", claims |-> NormalizeClaims(claims)]]
Said(a, k, claims, type, until) ==
  [by |-> k, values |-> [i \in DOMAIN claims |-> claims[i].value.text],
   issuer |-> AlbusDid(a), until |-> until, type |-> type]

LEMMA IssuedParts ==
  ASSUME NEW a \in Addresses, NEW k \in Pairs, NEW claims, NEW type, NEW until, NEW reader, NEW esk
  PROVE  LET vc == CreateVerifiableCredential(claims, IssueOptions(a, k, type, until, reader, esk)) IN
         /\ vc.types = <<DefaultType, AlbusType>> \o type
         /\ vc.proof.value.data.signature =
              [kind |-> "signature", of |-> k, scheme |-> "bjj",
               data |-> Root(Unsigned(a, claims, type, until))]
<1> DEFINE opts == IssueOptions(a, k, type, until, reader, esk)
           plain == Unsigned(a, claims, type, until)
           signature == [kind |-> "signature", of |-> k, scheme |-> "bjj", data |-> Root(plain)]
           proof == [type |-> "BJJSignature2021", method |-> <<AlbusDid(a), Bjj(k)>>, parsed |-> FALSE,
                     value |-> [base |-> "z", codec |-> 0,
                                data |-> [kind |-> "proof", signature |-> signature, issuer |-> Bjj(k)]]]
           vc == [plain EXCEPT !.proof = proof]
<1>1. Secret(k) # None
  BY GivenAssumption DEF GivenAssumption, Given, People
<1>2. SignCredential(plain, Secret(k)) = vc
  <2>1. CreateCredentialProof(Root(plain), Secret(k), AlbusDid(a)) = proof
    BY DEF CreateCredentialProof, Signed, Secret, Encode
  <2>2. plain.issuer = AlbusDid(a)
    BY DEF Unsigned
  <2> HIDE DEF plain, proof
  <2> QED
    BY <2>1, <2>2 DEF SignCredential
<1>3. CreateVerifiableCredential(claims, opts) =
        IF reader = None THEN vc ELSE EncryptCredential(vc, reader, esk)
  <2> HIDE DEF vc
  <2> QED
    BY <1>1, <1>2 DEF CreateVerifiableCredential, IssueOptions, Unsigned
<1>4. vc.types = <<DefaultType, AlbusType>> \o type /\ vc.proof = proof
  <2> HIDE DEF proof
  <2> QED BY DEF Unsigned
<1>5. proof.value.data.signature = signature
  <2> HIDE DEF signature
  <2> QED OBVIOUS
<1>6. /\ EncryptCredential(vc, reader, esk).types = vc.types
      /\ EncryptCredential(vc, reader, esk).proof = vc.proof
  <2> DEFINE subject == [kind |-> "sealed", encrypted |-> EncryptBytes(vc.subject, reader, esk),
                         reader |-> reader]
  <2>1. EncryptCredential(vc, reader, esk) = IF Sealed(vc) THEN vc ELSE [vc EXCEPT !.subject = subject]
    BY DEF EncryptCredential
  <2>2. vc = [[plain EXCEPT !.proof = proof] EXCEPT !.proof = proof]
    BY DEF Unsigned
  <2> HIDE DEF subject, proof
  <2>3. /\ [vc EXCEPT !.subject = subject].types = vc.types
        /\ [vc EXCEPT !.subject = subject].proof = vc.proof
    BY DEF Unsigned
  <2> HIDE DEF vc
  <2> QED
    BY <2>1, <2>3
<1> HIDE DEF vc, proof, signature
<1> QED
  BY <1>3, <1>4, <1>5, <1>6 DEF signature

LEMMA OwnTypesIssued ==
  ASSUME NEW type \in Types
  PROVE  LET types == <<DefaultType, AlbusType>> \o type IN
         /\ ToSet(types) = {DefaultType, AlbusType} \cup ToSet(type)
         /\ type = <<>> => Last(types) = AlbusType
         /\ type # <<>> => Last(types) = type[1]
<1> DEFINE both == <<DefaultType, AlbusType>>
<1>1. both \in Seq(Texts) /\ Last(both) = AlbusType /\ ToSet(both) = {DefaultType, AlbusType}
  BY DEF Texts, Last, ToSet
<1> HIDE DEF both
<1>2. CASE type = <<>>
  <2>1. both \o type = both
    BY <1>1, <1>2, ConcatNone
  <2>2. ToSet(type) = {}
    BY <1>2 DEF ToSet
  <2> QED
    BY <1>1, <1>2, <2>1, <2>2 DEF both
<1>3. CASE type # <<>>
  <2>1. type[1] \in Texts /\ type = <<type[1]>>
    BY <1>3, VcAssumption DEF VcAssumption
  <2> DEFINE s == type[1]
  <2>2. ToSet(<<s>>) = {s}
    BY DEF ToSet
  <2> HIDE DEF s
  <2>3. Last(both \o <<s>>) = s /\ ToSet(both \o <<s>>) = ToSet(both) \cup {s}
    BY <1>1, <2>1, AppendedLast DEF s
  <2> QED
    BY <1>1, <1>3, <2>1, <2>2, <2>3 DEF both, s
<1> QED
  BY <1>2, <1>3

LEMMA IssuedOrigin ==
  ASSUME NEW a \in Addresses, NEW k \in Pairs, NEW claims \in ClaimSets, NEW type \in Types,
         NEW until \in Untils, NEW reader, NEW esk
  PROVE  Origin(CreateVerifiableCredential(claims, IssueOptions(a, k, type, until, reader, esk)),
                Said(a, k, claims, type, until))
<1> DEFINE vc == CreateVerifiableCredential(claims, IssueOptions(a, k, type, until, reader, esk))
           st == Said(a, k, claims, type, until)
           plain == Unsigned(a, claims, type, until)
           root == Root(plain)
           types == <<DefaultType, AlbusType>> \o type
           normal == NormalizeClaims(claims)
           n == Len(normal)
<1>1. /\ claims \in Seq(Claim) /\ normal \in Seq(Claim) /\ until \in Nat
      /\ claims \in Seq(Claim) \ {<<>>}
  BY Normalized, VcAssumption DEF VcAssumption
<1>2. types \in Seq(Texts) /\ types # <<>>
  BY TypesType, IssuedTypes
<1>3. /\ st.by = k /\ st.values = [i \in DOMAIN claims |-> claims[i].value.text]
      /\ st.issuer = AlbusDid(a) /\ st.until = until /\ st.type = type /\ "values" \in DOMAIN st
  BY DEF Said
<1>4. /\ plain.types = types /\ plain.issuer = AlbusDid(a) /\ plain.issued = 1
      /\ plain.validFrom = 0 /\ plain.validUntil = until /\ plain.subject.claims = normal
  BY DEF Unsigned
<1>5. AlbusDid(a) \in IssuerDids
  BY DEF IssuerDids
<1> HIDE DEF st, plain, types, normal
<1> DEFINE bare == Last(types) \in {DefaultType, AlbusType}
<1>6. /\ root \in Seq(Value)
      /\ Len(root) = n + IF bare THEN 4 ELSE 6
      /\ \A i \in 1..n : root[i] = normal[i].value
      /\ root[n + 1] = [did |-> AlbusDid(a)] /\ root[n + 3] = Time(until)
      /\ ~bare => root[n + 5] = Text(Last(types))
  <2>1. /\ plain.subject.claims \in Seq(Claim) /\ plain.issuer \in IssuerDids
        /\ plain.issued \in Nat /\ plain.validFrom \in Nat /\ plain.validUntil \in Nat
        /\ plain.types \in Seq(Texts) /\ plain.types # <<>>
    BY <1>1, <1>2, <1>4, <1>5
  <2>2. LET own == Last(plain.types) \in {DefaultType, AlbusType}
            m == Len(plain.subject.claims)
        IN /\ root \in Seq(Value)
           /\ Len(root) = m + IF own THEN 4 ELSE 6
           /\ \A i \in 1..m : root[i] = plain.subject.claims[i].value
           /\ root[m + 1] = [did |-> plain.issuer] /\ root[m + 3] = Time(plain.validUntil)
           /\ ~own => root[m + 5] = Text(Last(plain.types))
    BY <2>1, RootParts
  <2> HIDE DEF root
  <2> QED
    BY <1>4, <2>2
<1>7. /\ Len(st.values) = n /\ st.values \in Seq(Texts) /\ n \in Nat
      /\ \A i \in 1..n : normal[i].value = Text(st.values[i])
  <2>1. DOMAIN normal = DOMAIN claims /\ DOMAIN claims = 1..Len(claims) /\ Len(claims) \in Nat
    BY <1>1 DEF normal, NormalizeClaims
  <2>2. n = Len(claims)
    BY <1>1, <2>1
  <2>3. \A c \in Claim : c.value.text \in Texts
                         /\ [c EXCEPT !.value.spaces = 0].value = Text(c.value.text)
    BY DEF Claim, Text
  <2>4. \A i \in 1..n : /\ claims[i] \in Claim /\ normal[i] = [claims[i] EXCEPT !.value.spaces = 0]
                        /\ st.values[i] = claims[i].value.text
    BY <1>1, <1>3, <2>1, <2>2 DEF normal, NormalizeClaims
  <2>5. st.values \in Seq(Texts) /\ Len(st.values) = n
    <3>1. st.values = [i \in 1..n |-> claims[i].value.text]
      BY <1>3, <2>1, <2>2
    <3>2. \A i \in 1..n : claims[i].value.text \in Texts
      BY <2>3, <2>4
    <3>3. n \in Nat
      BY <2>1, <2>2
    <3> HIDE DEF n
    <3> QED
      BY <3>1, <3>2, <3>3
  <2>6. \A i \in 1..n : normal[i].value = Text(st.values[i])
    <3> HIDE DEF n
    <3> QED BY <2>3, <2>4
  <2>7. n \in Nat
    BY <2>1, <2>2
  <2> HIDE DEF n
  <2> QED
    BY <2>5, <2>6, <2>7
<1> HIDE DEF n, root
<1>8. /\ ToSet(types) = {DefaultType, AlbusType} \cup ToSet(type)
      /\ type = <<>> => Last(types) = AlbusType
      /\ type # <<>> => Last(types) = type[1]
  BY OwnTypesIssued DEF types
<1>9. type = <<>> \/ type = <<type[1]>>
  BY VcAssumption DEF VcAssumption
<1>10. OwnTypes(type) = {} <=> bare
  <2>1. CASE type = <<>>
    <3>1. ToSet(type) = {}
      BY <2>1 DEF ToSet
    <3> QED
      BY <1>8, <2>1, <3>1 DEF OwnTypes
  <2>2. CASE type # <<>>
    <3>1. ToSet(type) = {type[1]}
      <4> DEFINE s == type[1]
      <4>1. ToSet(<<s>>) = {s}
        BY DEF ToSet
      <4> HIDE DEF s
      <4> QED
        BY <1>9, <2>2, <4>1 DEF s
    <3> QED
      BY <1>8, <2>2, <3>1 DEF OwnTypes
  <2> QED
    BY <2>1, <2>2
<1>11. ~bare => Last(types) = type[1]
  BY <1>8
<1>12. RootOf(root, st)
  <2>1. OwnTypes(type) = {} => Len(root) = n + 4
    BY <1>6, <1>10
  <2>2. OwnTypes(type) # {} => Len(root) = n + 6 /\ root[n + 5] = Text(type[1])
    BY <1>6, <1>10, <1>11
  <2> QED
    BY <1>3, <1>6, <1>7, <2>1, <2>2 DEF RootOf
<1>13. TypesFrom(types, type)
  BY <1>8 DEF TypesFrom
<1>14. vc.types = types /\ vc.proof.value.data.signature =
                             [kind |-> "signature", of |-> k, scheme |-> "bjj", data |-> root]
  BY IssuedParts DEF types, root, plain
<1> HIDE DEF vc
<1> QED
  BY <1>3, <1>9, <1>12, <1>13, <1>14 DEF Origin, vc, st

\* Documents made of documents say what was signed.
LEMMA OriginFrom ==
  ASSUME VcInv, OriginInv, signed \subseteq signed',
         \A i \in DOMAIN wallet' : \E v \in Documents : Derived(wallet'[i], v),
         vp' # None => \A i \in DOMAIN vp'.credentials :
                          \E v \in Documents : Derived(vp'.credentials[i], v)
  PROVE  OriginInv'
<1>1. \A w \in Documents' : \E v \in Documents : Derived(w, v)
  BY DEF Documents, ToSet
<1>2. ASSUME NEW v \in Documents, NEW w, Derived(w, v)
      PROVE  \E st \in signed' : Origin(w, st)
  <2>1. v \in Credential
    BY DocumentsProper DEF Proper
  <2>2. PICK st \in signed : Origin(v, st)
    BY DEF OriginInv
  <2> QED
    BY <1>2, <2>1, <2>2, DerivedOrigin
<1>3. \A w \in Documents' : \E st \in signed' : Origin(w, st)
  BY <1>1, <1>2
<1> QED
  BY <1>3 DEF OriginInv

\* Where the documents are.
LEMMA DocumentPlaces ==
  /\ \A i \in DOMAIN wallet : wallet[i] \in Documents
  /\ vp # None => \A i \in DOMAIN vp.credentials : vp.credentials[i] \in Documents
BY DEF Documents, ToSet

\* A list of documents, one of them changed.
LEMMA OneDerived ==
  ASSUME NEW list, NEW D, NEW i \in DOMAIN list, NEW vc, Derived(vc, list[i]),
         \A j \in DOMAIN list : list[j] \in D /\ Derived(list[j], list[j])
  PROVE  \A j \in DOMAIN [list EXCEPT ![i] = vc] : \E v \in D : Derived([list EXCEPT ![i] = vc][j], v)
<1> DEFINE other == [list EXCEPT ![i] = vc]
<1>1. DOMAIN other = DOMAIN list /\ other[i] = vc /\ \A j \in DOMAIN list : j # i => other[j] = list[j]
  OBVIOUS
<1> HIDE DEF other
<1>2. \A j \in DOMAIN other : \E v \in D : Derived(other[j], v)
  BY <1>1
<1> QED
  BY <1>2 DEF other

LEMMA SameDocuments ==
  ASSUME VcInv
  PROVE  /\ \A i \in DOMAIN wallet : wallet[i] \in Documents /\ Derived(wallet[i], wallet[i])
         /\ vp # None => \A i \in DOMAIN vp.credentials :
              vp.credentials[i] \in Documents /\ Derived(vp.credentials[i], vp.credentials[i])
<1>1. \A v \in Documents : Derived(v, v)
  BY DocumentsProper, DerivedClear DEF Proper
<1> QED
  BY <1>1, DocumentPlaces

LEMMA IssueOrigin ==
  ASSUME VcInv, OriginInv, NEW a \in Addresses, NEW k \in Pairs, NEW claims \in ClaimSets,
         NEW type \in Types, NEW until \in Untils,
         NEW reader \in {None} \cup {EdPub(r) : r \in Pairs},
         NEW esk \in {None} \cup {Secret(p) : p \in Pairs},
         Issue(a, k, claims, type, until, reader, esk)
  PROVE  OriginInv'
<1> DEFINE vc == CreateVerifiableCredential(claims, IssueOptions(a, k, type, until, reader, esk))
           st == Said(a, k, claims, type, until)
<1>1. /\ vp = None /\ vp' = None /\ wallet' = Append(wallet, vc) /\ signed' = signed \cup {st}
  BY DEF Issue, IssueOptions, Said
<1>2. Origin(vc, st)
  BY IssuedOrigin
<1>3. wallet \in Seq(Credential) /\ vc \in Credential
  BY ProperIssued DEF VcInv, ProperAll, Proper
<1> HIDE DEF vc, st
<1>4. \A i \in DOMAIN wallet' : (i \in DOMAIN wallet /\ wallet'[i] = wallet[i]) \/ wallet'[i] = vc
  BY <1>1, <1>3
<1>5. \A w \in Documents' : w \in Documents \/ w = vc
  <2>1. \A w \in Documents' : \E i \in DOMAIN wallet' : w = wallet'[i]
    BY <1>1 DEF Documents, ToSet
  <2> QED
    BY <1>4, <2>1, DocumentPlaces
<1> QED
  BY <1>1, <1>2, <1>5 DEF OriginInv

LEMMA WalletOrigin ==
  ASSUME VcInv, OriginInv, NEW i \in DOMAIN wallet, NEW k \in Pairs,
         OpenCredential(i, k) \/ CheckCredential(i, k)
  PROVE  OriginInv'
<1>1. wallet[i] \in Credential
  BY DEF VcInv, ProperAll, Proper
<1>2. PICK vc : Keep(i, vc) /\ Derived(vc, wallet[i])
  <2>1. CASE OpenCredential(i, k)
    <3>1. PICK vc : vc = DecryptCredentialIfNeeded(wallet[i], Secret(k), None) /\ Keep(i, vc)
      BY <2>1 DEF OpenCredential
    <3>2. vc = Clear(wallet[i])
      BY <1>1, <3>1, Opening DEF Keep
    <3> QED
      BY <1>1, <3>1, <3>2, DerivedClear
  <2>2. CASE CheckCredential(i, k)
    <3>1. PICK vc : vc = VerifyCredential(wallet[i], Secret(k)) /\ Keep(i, vc)
      BY <2>2 DEF CheckCredential
    <3>2. vc = [Clear(wallet[i]) EXCEPT !.proof.parsed = TRUE]
      BY <1>1, <3>1, Verified DEF Keep
    <3> QED
      BY <1>1, <3>1, <3>2, DerivedClear
  <2> QED
    BY <2>1, <2>2
<1>3. wallet' = [wallet EXCEPT ![i] = vc] /\ UNCHANGED <<vp, signed>>
  BY <1>2 DEF Keep
<1>4. \A j \in DOMAIN wallet' : \E v \in Documents : Derived(wallet'[j], v)
  BY <1>2, <1>3, SameDocuments, OneDerived
<1> QED
  BY <1>3, <1>4, SameDocuments, OriginFrom

LEMMA PresentOrigin ==
  ASSUME VcInv, OriginInv, NEW k, NEW did, NEW c, NEW reader, Present(k, did, c, reader)
  PROVE  OriginInv'
<1> DEFINE p == CreateVerifiablePresentation(wallet, Secret(k), did, c, reader)
<1>1. vp' = p /\ wallet' = wallet /\ signed \subseteq signed'
  BY DEF Present
<1>2. p.credentials = IF reader = None THEN wallet
                      ELSE [i \in DOMAIN wallet |-> EncryptCredential(wallet[i], reader, None)]
  BY DEF CreateVerifiablePresentation, SignThenSeal, SignPresentation, EncryptPresentation
<1>3. \A i \in DOMAIN wallet : wallet[i] \in Credential
  BY DEF VcInv, ProperAll, Proper
<1>4. \A i \in DOMAIN p.credentials :
        i \in DOMAIN wallet /\ Derived(p.credentials[i], wallet[i])
  <2>1. CASE reader = None
    BY <1>2, <2>1, SameDocuments
  <2>2. CASE reader # None
    <3> HIDE DEF p
    <3>1. DOMAIN p.credentials = DOMAIN wallet
          /\ \A i \in DOMAIN wallet : p.credentials[i] = EncryptCredential(wallet[i], reader, None)
      BY <1>2, <2>2
    <3> QED
      BY <1>3, <3>1, DerivedSealed
  <2> QED
    BY <2>1, <2>2
<1> HIDE DEF p
<1> QED
  BY <1>1, <1>4, SameDocuments, OriginFrom

LEMMA OpenPresentationOrigin ==
  ASSUME VcInv, OriginInv, NEW k \in Pairs, NEW throw, OpenPresentation(k, throw)
  PROVE  OriginInv'
<1> DEFINE list == vp.credentials
           opened == [i \in DOMAIN list |-> DecryptCredentialIfNeeded(list[i], Secret(k), None)]
           out == WithoutErrors(opened)
<1>1. vp # None /\ vp' = [vp EXCEPT !.credentials = out] /\ UNCHANGED <<wallet, signed>>
  <2>1. /\ vp # None /\ DecryptPresentation(vp, Secret(k), throw) # Error
        /\ vp' = DecryptPresentation(vp, Secret(k), throw) /\ UNCHANGED <<wallet, signed>>
    BY DEF OpenPresentation
  <2> HIDE DEF opened, out
  <2> QED
    BY <2>1 DEF DecryptPresentation, opened, out
<1>2. vp \in Presentation /\ list \in Seq(Credential) /\ \A i \in DOMAIN list : list[i] \in Credential
  BY <1>1 DEF VcInv, VpOK, PresentationOK, ProperAll, Proper
<1>3. \A i \in DOMAIN list : opened[i] \in {Error, Clear(list[i])} /\ Clear(list[i]) \in Credential
  BY <1>2, Opening, ClearType
<1>4. DOMAIN opened = DOMAIN list /\ opened \in Seq(Credential \cup {Error})
  <2>1. \A i \in DOMAIN list : opened[i] \in Credential \cup {Error}
    BY <1>3
  <2> HIDE DEF list
  <2> QED
    BY <1>2, <2>1
<1>5. Error \notin Credential
  BY GivenAssumption DEF GivenAssumption
<1> HIDE DEF opened
<1>6. \A n \in DOMAIN out : \E i \in DOMAIN opened : out[n] = opened[i] /\ opened[i] # Error
  BY <1>4, <1>5, Kept
<1>7. vp'.credentials = out
  <2> HIDE DEF out
  <2> QED BY <1>1, <1>2 DEF Presentation
<1> HIDE DEF out
<1>8. \A n \in DOMAIN out : \E v \in Documents : Derived(out[n], v)
  <2> TAKE n \in DOMAIN out
  <2>1. PICK i \in DOMAIN list : out[n] = Clear(list[i])
    BY <1>3, <1>4, <1>6
  <2>2. list[i] \in Documents
    BY <1>1, DocumentPlaces
  <2> QED
    BY <1>2, <2>1, <2>2, DerivedClear
<1> HIDE DEF list
<1> QED
  BY <1>1, <1>7, <1>8, SameDocuments, OriginFrom

\* One credential of the presentation is changed.
LEMMA PresentedOrigin ==
  ASSUME VcInv, OriginInv, vp # None, NEW i \in DOMAIN vp.credentials, NEW vc,
         Derived(vc, vp.credentials[i]),
         vp' = [vp EXCEPT !.credentials[i] = vc], UNCHANGED <<wallet, signed>>
  PROVE  OriginInv'
<1>1. vp \in Presentation
  BY DEF VcInv, VpOK, PresentationOK
<1>2. vp'.credentials = [vp.credentials EXCEPT ![i] = vc]
  BY <1>1 DEF Presentation
<1>3. \A j \in DOMAIN vp'.credentials : \E v \in Documents : Derived(vp'.credentials[j], v)
  BY <1>2, SameDocuments, OneDerived
<1> QED
  BY <1>3, SameDocuments, OriginFrom

LEMMA CheckPresentedOrigin ==
  ASSUME VcInv, OriginInv, vp # None, NEW i \in DOMAIN vp.credentials, NEW k, CheckPresented(i, k)
  PROVE  OriginInv'
<1> DEFINE vc == [vp.credentials[i] EXCEPT !.proof.parsed = TRUE]
<1>1. vp \in Presentation /\ vp.credentials[i] \in Credential
  BY DEF VcInv, VpOK, PresentationOK, ProperAll, Proper
<1>2. Derived(vc, vp.credentials[i])
  BY <1>1, DerivedClear
<1>3. vp' = [vp EXCEPT !.credentials[i] = vc] /\ UNCHANGED <<wallet, signed>>
  BY <1>1 DEF CheckPresented, Presentation
<1> HIDE DEF vc
<1> QED
  BY <1>2, <1>3, PresentedOrigin

LEMMA EditCredentialOrigin ==
  ASSUME VcInv, OriginInv, NEW i \in DOMAIN wallet, EditCredential(i)
  PROVE  OriginInv'
<1>1. PICK vc \in Edited(wallet[i]) : wallet' = [wallet EXCEPT ![i] = vc]
  BY DEF EditCredential
<1>2. UNCHANGED <<vp, signed>>
  BY DEF EditCredential
<1>3. Derived(vc, wallet[i])
  BY DerivedEdited DEF VcInv, ProperAll
<1>4. \A j \in DOMAIN wallet' : \E v \in Documents : Derived(wallet'[j], v)
  BY <1>1, <1>3, SameDocuments, OneDerived
<1> QED
  BY <1>2, <1>4, SameDocuments, OriginFrom

LEMMA EditPresentationOrigin ==
  ASSUME VcInv, OriginInv, EditPresentation
  PROVE  OriginInv'
<1>1. vp # None /\ UNCHANGED <<wallet, signed>>
  BY DEF EditPresentation
<1>2. /\ vp \in Presentation /\ vp.credentials \in Seq(Credential)
      /\ \A i \in DOMAIN vp.credentials : vp.credentials[i] \in Credential
  BY <1>1 DEF VcInv, VpOK, PresentationOK, ProperAll, Proper
<1>3. ASSUME NEW i \in DOMAIN vp.credentials, NEW vc \in Edited(vp.credentials[i]),
             vp' = [vp EXCEPT !.credentials[i] = vc]
      PROVE  OriginInv'
  <2>1. Derived(vc, vp.credentials[i])
    BY <1>2, DerivedEdited
  <2> QED
    BY <1>1, <1>3, <2>1, PresentedOrigin
<1>4. CASE vp.credentials # <<>> /\ vp' = [vp EXCEPT !.credentials = Tail(@)]
  <2>1. vp'.credentials = Tail(vp.credentials)
    BY <1>2, <1>4 DEF Presentation
  <2>2. \A i \in DOMAIN Tail(vp.credentials) :
          i + 1 \in DOMAIN vp.credentials /\ Tail(vp.credentials)[i] = vp.credentials[i + 1]
    BY <1>2, <1>4, TailParts
  <2>3. \A i \in DOMAIN vp'.credentials : \E v \in Documents : Derived(vp'.credentials[i], v)
    BY <1>1, <2>1, <2>2, SameDocuments
  <2> QED
    BY <1>1, <2>3, SameDocuments, OriginFrom
<1>5. CASE \/ \E k \in Pairs : vp' = [vp EXCEPT !.holder = EncodeDidKey(EdPub(k))]
           \/ \E c \in Challenges : vp' = [vp EXCEPT !.proof.challenge = c]
  <2>1. vp'.credentials = vp.credentials
    BY <1>2, <1>5 DEF Presentation
  <2> QED
    BY <1>1, <2>1, SameDocuments, OriginFrom
<1> QED
  BY <1>3, <1>4, <1>5 DEF EditPresentation

LEMMA OriginInit ==
  Init => OriginInv
BY DEF Init, OriginInv, Documents, ToSet

LEMMA OriginNext ==
  VcInv /\ OriginInv /\ [Next]_vars => OriginInv'
<1> SUFFICES ASSUME VcInv, OriginInv, [Next]_vars PROVE OriginInv'
  OBVIOUS
<1>1. ASSUME UNCHANGED <<wallet, vp, signed>> PROVE OriginInv'
  BY <1>1 DEF OriginInv, Documents
<1>2. CASE \E a \in Addresses, k \in Pairs : Register(a, k)
  BY <1>1, <1>2 DEF Register
<1>3. CASE \E a \in Addresses : Deregister(a)
  BY <1>1, <1>3 DEF Deregister
<1>4. CASE \E a \in Addresses, k \in Pairs, claims \in ClaimSets, type \in Types, until \in Untils :
             \/ Issue(a, k, claims, type, until, None, None)
             \/ \E r \in Pairs, esk \in {None, Secret(k)} :
                  Issue(a, k, claims, type, until, EdPub(r), esk)
  BY <1>4, IssueOrigin
<1>5. CASE \E i \in DOMAIN wallet, k \in Pairs : OpenCredential(i, k) \/ CheckCredential(i, k)
  BY <1>5, WalletOrigin
<1>6. CASE \E k \in Pairs, did \in {None} \cup {AlbusDid(a) : a \in Addresses}, c \in Challenges,
              reader \in {None} \cup {EdPub(r) : r \in Pairs} :
             Present(k, did, c, reader)
  BY <1>6, PresentOrigin
<1>7. CASE \E k \in Pairs, throw \in BOOLEAN : OpenPresentation(k, throw)
  BY <1>7, OpenPresentationOrigin
<1>8. CASE vp # None /\ \E i \in DOMAIN vp.credentials : \E k \in Pairs : CheckPresented(i, k)
  BY <1>8, CheckPresentedOrigin
<1>9. CASE \E c \in {None} \cup Challenges : Verify(c)
  BY <1>1, <1>9 DEF Verify
<1>10. CASE \E i \in DOMAIN wallet : EditCredential(i)
  BY <1>10, EditCredentialOrigin
<1>11. CASE EditPresentation
  BY <1>11, EditPresentationOrigin
<1>12. CASE UNCHANGED vars
  BY <1>1, <1>12 DEF vars
<1> QED
  BY <1>2, <1>3, <1>4, <1>5, <1>6, <1>7, <1>8, <1>9, <1>10, <1>11, <1>12 DEF Next

LEMMA OriginAlways ==
  Spec => [](VcInv /\ OriginInv)
<1>1. Init => VcInv /\ OriginInv
  BY VcInit, OriginInit
<1>2. VcInv /\ OriginInv /\ [Next]_vars => (VcInv /\ OriginInv)'
  BY VcNext, OriginNext
<1> QED
  BY <1>1, <1>2, PTL DEF Spec

-----------------------------------------------------------------------------
(* What a root says.                                                         *)

\* A root has one reading.  It is four or six longer than the claims, so another
\* number of claims would have an issuer where a time stands: which texts the
\* claims are does not matter.
LEMMA SameLength ==
  ASSUME NEW data, NEW n \in Nat, NEW m \in Nat,
         Len(data) \in {n + 4, n + 6}, Len(data) \in {m + 4, m + 6},
         "did" \in DOMAIN data[n + 1], "did" \in DOMAIN data[m + 1],
         "did" \notin DOMAIN data[n + 3], "did" \notin DOMAIN data[m + 3]
  PROVE  m = n
<1>1. m = n \/ m = n + 2 \/ n = m + 2
  OBVIOUS
<1>2. CASE m = n + 2
  <2>1. m + 1 = n + 3
    BY <1>2
  <2> QED
    BY <2>1
<1>3. CASE n = m + 2
  <2>1. n + 1 = m + 3
    BY <1>3
  <2> QED
    BY <2>1
<1> QED
  BY <1>1, <1>2, <1>3

\* The types of a credential whose last one is what was signed.
LEMMA SameTypes ==
  ASSUME NEW types, NEW type, TypesFrom(types, type), type = <<>> \/ type = <<type[1]>>,
         OwnTypes(type) = {} <=> Last(types) \in {DefaultType, AlbusType},
         OwnTypes(type) # {} => Last(types) = type[1]
  PROVE  OwnTypes(type) = OwnTypes(types)
<1>1. "Other" \notin {DefaultType, AlbusType}
  BY DEF DefaultType, AlbusType
<1> HIDE DEF DefaultType, AlbusType
<1>2. CASE OwnTypes(type) = {}
  <2>1. ToSet(types) \subseteq {DefaultType, AlbusType} \cup ToSet(type)
    BY <1>1, <1>2 DEF TypesFrom
  <2> QED
    BY <1>2, <2>1 DEF OwnTypes
<1>3. CASE OwnTypes(type) # {}
  <2>1. type # <<>>
    BY <1>3 DEF OwnTypes, ToSet
  <2>2. ToSet(type) = {type[1]}
    <3> DEFINE s == type[1]
    <3>1. ToSet(<<s>>) = {s}
      BY DEF ToSet
    <3>2. type = <<s>>
      BY <2>1
    <3> HIDE DEF s
    <3> QED
      BY <3>1, <3>2 DEF s
  <2>3. CASE Last(types) = "Other"
    BY <1>3, <2>2, <2>3 DEF TypesFrom, OwnTypes
  <2>4. CASE Last(types) # "Other"
    BY <1>3, <2>2, <2>4 DEF TypesFrom, OwnTypes
  <2> QED
    BY <2>3, <2>4
<1> QED
  BY <1>2, <1>3

\* A credential whose root is the one that was signed says what was signed.
LEMMA SameSaid ==
  ASSUME NEW c, c.subject.claims \in Seq(Claim), c.issuer \in IssuerDids,
         c.issued \in Nat, c.validFrom \in Nat, c.validUntil \in Nat,
         c.types \in Seq(Texts), c.types # <<>>,
         NEW st, RootOf(Root(c), st), st.type = <<>> \/ st.type = <<st.type[1]>>,
         TypesFrom(c.types, st.type)
  PROVE  /\ st.issuer = c.issuer /\ st.until = c.validUntil
         /\ OwnTypes(st.type) = OwnTypes(c.types)
         /\ st.values = [i \in DOMAIN c.subject.claims |-> c.subject.claims[i].value.text]
<1> DEFINE data == Root(c)
           claims == c.subject.claims
           n == Len(claims)
           m == Len(st.values)
           plain == Last(c.types) \in {DefaultType, AlbusType}
<1>1. /\ Len(data) = n + IF plain THEN 4 ELSE 6
      /\ \A i \in 1..n : data[i] = claims[i].value
      /\ data[n + 1] = [did |-> c.issuer] /\ data[n + 3] = Time(c.validUntil)
      /\ ~plain => data[n + 5] = Text(Last(c.types))
  BY RootParts
<1>2. /\ st.values \in Seq(Texts) /\ data \in Seq(Value)
      /\ \A i \in 1..m : data[i] = Text(st.values[i])
      /\ data[m + 1] = [did |-> st.issuer] /\ data[m + 3] = Time(st.until)
      /\ IF OwnTypes(st.type) = {} THEN Len(data) = m + 4
         ELSE Len(data) = m + 6 /\ data[m + 5] = Text(st.type[1])
  BY DEF RootOf
<1>3. claims \in Seq(Claim) /\ n \in Nat
  OBVIOUS
<1> HIDE DEF data, claims
<1>4. m = n
  <2>1. /\ \A x : "did" \in DOMAIN [did |-> x]
        /\ \A x : "did" \notin DOMAIN Time(x)
    BY DEF Time
  <2>2. m \in Nat
    BY <1>2
  <2>3. /\ Len(data) \in {n + 4, n + 6} /\ Len(data) \in {m + 4, m + 6}
        /\ "did" \in DOMAIN data[n + 1] /\ "did" \in DOMAIN data[m + 1]
        /\ "did" \notin DOMAIN data[n + 3] /\ "did" \notin DOMAIN data[m + 3]
    <3> HIDE DEF n, m, plain
    <3> QED
      BY <1>1, <1>2, <2>1
  <2> HIDE DEF n, m
  <2> QED
    BY <1>3, <2>2, <2>3, SameLength
<1>5. \A x, y : [did |-> x] = [did |-> y] => x = y
  <2>1. \A x : [did |-> x].did = x
    OBVIOUS
  <2> QED BY <2>1
<1>6. /\ \A x, y : Time(x) = Time(y) => x = y
      /\ \A x, y : Text(x) = Text(y) => x = y
  <2>1. \A x : Time(x).time = x /\ Text(x).text = x
    BY DEF Time, Text
  <2> QED BY <2>1
<1>7. st.values = [i \in DOMAIN claims |-> claims[i].value.text]
  <2>1. \A x : Text(x).text = x
    BY DEF Text
  <2>2. \A i \in 1..n : st.values[i] = claims[i].value.text
    BY <1>1, <1>2, <1>4, <2>1
  <2>3. /\ DOMAIN claims = 1..n /\ DOMAIN st.values = 1..m
        /\ st.values = [i \in DOMAIN st.values |-> st.values[i]]
    BY <1>2, <1>3
  <2> QED
    BY <1>4, <2>2, <2>3
<1> HIDE DEF m, n, plain
<1>8. st.issuer = c.issuer /\ st.until = c.validUntil
  BY <1>1, <1>2, <1>4, <1>5, <1>6
<1>9. OwnTypes(st.type) = {} <=> plain
  BY <1>1, <1>2, <1>3, <1>4
<1>10. OwnTypes(st.type) # {} => Last(c.types) = st.type[1]
  BY <1>1, <1>2, <1>4, <1>6, <1>9
<1>11. OwnTypes(st.type) = OwnTypes(c.types)
  BY <1>9, <1>10, SameTypes DEF plain
<1> QED
  BY <1>8, <1>11, <1>7 DEF claims

\* The issuer's account as verifyCredential found it has the key that signed.
LEMMA VerifiedKey ==
  ASSUME VcInv, NEW vc \in Documents, NEW k \in Pairs, VerifyCredential(vc, Secret(k)) # Error
  PROVE  LET signature == vc.proof.value.data.signature IN
         /\ accounts[vc.issuer.id] # None
         /\ accounts[vc.issuer.id].zkPubkey = Bjj(signature.of)
         /\ signature.data = Root(Clear(vc))
<1> DEFINE c == Clear(vc)
           cred == IF ValidateCredentialPayload(vc)
                   THEN DecryptCredentialIfNeeded(vc, Secret(k), None) ELSE Error
           signature == vc.proof.value.data.signature
<1>1. vc \in Credential
  BY DocumentsProper DEF Proper
<1>2. c \in Credential /\ c.issuer = vc.issuer /\ c.proof = vc.proof
  BY <1>1, ClearType
<1>3. cred \in {Error, c}
  BY <1>1, Opening
<1> HIDE DEF cred, c
<1> DEFINE document == Resolve(cred.issuer, accounts)
           key == IF cred = Error \/ document = Error \/ cred.proof = None THEN Error
                  ELSE IssuerKey(document, cred.proof)
<1>4. /\ cred # Error /\ document # Error /\ IssuerKey(document, cred.proof) # Error
      /\ VerifyCredentialProof(Root(cred), cred.proof.value, IssuerKey(document, cred.proof))
  BY DEF VerifyCredential, cred
<1>5. cred = c
  BY <1>3, <1>4
<1>6. PICK a \in Addresses : vc.issuer = AlbusDid(a)
  BY <1>1 DEF Credential, IssuerDids
<1>7. vc.issuer.id = a /\ vc.issuer.method = "albus"
  BY <1>6 DEF AlbusDid
<1>8. document = Resolve(vc.issuer, accounts)
  BY <1>2, <1>5
<1> HIDE DEF document
<1>9. accounts[a] # None
  BY <1>4, <1>7, <1>8 DEF Resolve, AlbusResolve
<1>10. PICK p \in Pairs : accounts[a] = AccountOf(p)
  BY <1>9 DEF VcInv, AccountsOK
<1>11. document = IssuerDocument(vc.issuer, p)
  BY <1>6, <1>8, <1>9, <1>10, AlbusResolves
<1>12. IssuerKey(document, cred.proof) = Bjj(p)
  BY <1>6, <1>11, IssuerMethods DEF Dids, IssuerDids
<1>13. Bjj(p) # None
  BY GivenAssumption DEF GivenAssumption, Given, People
<1>14. Holds(Bjj(p), Root(c), signature)
  <2>1. ParseCredentialProof(vc.proof.value) = vc.proof.value.data
    BY <1>1 DEF ParseCredentialProof, Decode, Credential, CredentialProof, ProofText
  <2>2. VerifyCredentialProof(Root(c), vc.proof.value, Bjj(p))
    BY <1>2, <1>4, <1>5, <1>12
  <2> QED
    BY <1>13, <2>1, <2>2 DEF VerifyCredentialProof
<1>15. signature.of = p /\ signature.data = Root(c)
  BY <1>14 DEF Holds, Bjj
<1>16. accounts[a].zkPubkey = Bjj(p)
  BY <1>10 DEF AccountOf
<1> QED
  BY <1>7, <1>9, <1>15, <1>16 DEF c

\* verifyCredential accepts only what an issuer signed with the key its account
\* has now, and verifyPresentation only what a key the holder's DID had signed
\* for this challenge: whatever was changed on the way, and whenever accounts
\* were registered and deleted.
THEOREM AcceptedIsAuthentic == Spec => []OnlyAuthentic
<1>1. VcInv /\ OriginInv => CredentialsAuthentic
  <2> SUFFICES ASSUME VcInv, OriginInv, NEW vc \in Documents, NEW s \in Readers,
                      VerifyCredential(vc, s) # Error
               PROVE  LET cred == VerifyCredential(vc, s) IN
                      \E st \in signed :
                        /\ "values" \in DOMAIN st
                        /\ accounts[cred.issuer.id] # None
                        /\ accounts[cred.issuer.id].zkPubkey = Bjj(st.by)
                        /\ st.issuer = cred.issuer /\ st.until = cred.validUntil
                        /\ OwnTypes(st.type) = OwnTypes(cred.types)
                        /\ st.values = [i \in DOMAIN cred.subject.claims |->
                                          cred.subject.claims[i].value.text]
    BY DEF CredentialsAuthentic
  <2> DEFINE c == Clear(vc)
             cred == VerifyCredential(vc, s)
  <2>1. PICK k \in Pairs : s = Secret(k)
    BY DEF Readers
  <2>2. vc \in Credential /\ vc.types # <<>>
    <3>1. vc \in Credential /\ \E i \in DOMAIN vc.types : vc.types[i] = DefaultType
      BY DocumentsProper DEF Proper
    <3> QED
      BY <3>1
  <2>3. /\ c \in Credential /\ c.subject \in PlainSubject
        /\ c.types = vc.types /\ c.issuer = vc.issuer /\ c.validUntil = vc.validUntil
    BY <2>2, ClearType
  <2>4. PICK st \in signed : Origin(vc, st)
    BY DEF OriginInv
  <2>5. /\ accounts[vc.issuer.id] # None
        /\ accounts[vc.issuer.id].zkPubkey = Bjj(vc.proof.value.data.signature.of)
        /\ vc.proof.value.data.signature.data = Root(c)
    BY <2>1, VerifiedKey
  <2>6. cred = [c EXCEPT !.proof.parsed = TRUE]
    BY <2>1, <2>2, Verified
  <2> HIDE DEF c, cred
  <2>7. /\ cred.issuer = c.issuer /\ cred.validUntil = c.validUntil
        /\ cred.types = c.types /\ cred.subject = c.subject
    BY <2>3, <2>6 DEF Credential
  <2>8. /\ c.subject.claims \in Seq(Claim) /\ c.issuer \in IssuerDids
        /\ c.issued \in Nat /\ c.validFrom \in Nat /\ c.validUntil \in Nat
        /\ c.types \in Seq(Texts) /\ c.types # <<>>
    BY <2>2, <2>3 DEF Credential, PlainSubject
  <2>9. /\ "values" \in DOMAIN st /\ vc.proof.value.data.signature.of = st.by
        /\ RootOf(Root(c), st) /\ TypesFrom(c.types, st.type)
        /\ st.type = <<>> \/ st.type = <<st.type[1]>>
    BY <2>3, <2>4, <2>5 DEF Origin
  <2>10. /\ st.issuer = c.issuer /\ st.until = c.validUntil
         /\ OwnTypes(st.type) = OwnTypes(c.types)
         /\ st.values = [i \in DOMAIN c.subject.claims |-> c.subject.claims[i].value.text]
    BY <2>8, <2>9, SameSaid
  <2>11. /\ accounts[cred.issuer.id] # None /\ accounts[cred.issuer.id].zkPubkey = Bjj(st.by)
         /\ st.issuer = cred.issuer /\ st.until = cred.validUntil
         /\ OwnTypes(st.type) = OwnTypes(cred.types)
    BY <2>3, <2>5, <2>7, <2>9, <2>10
  <2>12. st.values = [i \in DOMAIN cred.subject.claims |-> cred.subject.claims[i].value.text]
    BY <2>7, <2>10
  <2> QED
    BY <2>9, <2>11, <2>12 DEF cred
<1>2. VcInv /\ OriginInv => OnlyAuthentic
  BY <1>1 DEF OnlyAuthentic, VcInv
<1> QED
  BY <1>2, OriginAlways, PTL
=============================================================================
