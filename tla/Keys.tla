-------------------------------- MODULE Keys --------------------------------
(***************************************************************************)
(* The keys of albus-core and what they are written in: multibase texts,     *)
(* Ed25519 and Baby Jubjub verification keys, sealed messages, and the DID    *)
(* documents an issuer or a holder is found by.  A key pair is a name; bytes  *)
(* say what they are, signatures and ciphers are ideal.                      *)
(***************************************************************************)
EXTENDS Naturals, Sequences

CONSTANTS None, Error      \* undefined; a thrown error
CONSTANT UrlPairs          \* pairs whose public key has a - or a _ in base64url

EdPub(k) == [kind |-> "ed", of |-> k]            \* 32 bytes
XPub(k) == [kind |-> "x25519", of |-> k]         \* convertPublicKeyToX25519
Bjj(k) == [kind |-> "bjj", of |-> k]             \* eddsa.prv2pub
Secret(k) == [kind |-> "secret", of |-> k]       \* 64 bytes

\* Ed25519.sign and eddsa.signPoseidon; a signature verifies under the public
\* key of its own scheme.
Signed(secret, scheme, data) ==
  [kind |-> "signature", of |-> secret.of, scheme |-> scheme, data |-> data]
Holds(public, data, signature) ==
  /\ signature.kind = "signature" /\ signature.scheme = public.kind
  /\ signature.of = public.of /\ signature.data = data

-----------------------------------------------------------------------------
\* MultiBase: a codec of 0 is no codec, two bytes in front otherwise.
EdPubCodec == 60673      \* 0xED01
EdPrivCodec == 32806     \* 0x8026
XPubCodec == 60417       \* 0xEC01
Encode(data, codec) == [base |-> "z", codec |-> codec, data |-> data]
Decode(text, codec) ==
  IF text.base # "z" \/ (codec # 0 /\ text.codec # codec) THEN Error
  ELSE IF codec = 0 /\ text.codec # 0
    THEN [kind |-> "tagged", codec |-> text.codec, data |-> text.data]
  ELSE text.data

-----------------------------------------------------------------------------
\* Ed25519VerificationKey2020.
IsValidKeyHeader(text, codec) == text.base = "z" /\ text.codec = codec
EdKey(id, controller, public, private) ==
  IF \/ ~IsValidKeyHeader(public, EdPubCodec)
     \/ private # None /\ ~IsValidKeyHeader(private, EdPrivCodec)
     \/ public.data.kind # "ed"                 \* assertKeyBytes: 32 bytes
  THEN Error
  ELSE [kind |-> "key", type |-> "Ed25519VerificationKey2020", controller |-> controller,
        id |-> IF controller # None /\ id = None THEN <<controller, public>> ELSE id,
        public |-> public, private |-> private]
\* As a slip would have it: the codec of the other curve.
EdFrom2018AsX(keyPair) ==
  EdKey(keyPair.id, keyPair.controller, Encode(keyPair.publicKeyBase58, XPubCodec), None)
\* Keys of the older suites arrive as a base58 text or a JSON web key.
EdFrom2018(keyPair) ==
  EdKey(keyPair.id, keyPair.controller, Encode(keyPair.publicKeyBase58, EdPubCodec), None)
\* base64ToBytes knows + and / only, where the texts of JSON web keys have - and _.
EdFromJwk(jwk) ==
  IF jwk.kty # "OKP" \/ jwk.crv # "Ed25519" \/ jwk.x.of \in UrlPairs THEN Error
  ELSE EdKey(jwk.id, jwk.controller, Encode(jwk.x, EdPubCodec), None)
EdGenerate(k, controller) ==
  EdKey(None, controller, Encode(EdPub(k), EdPubCodec), Encode(Secret(k), EdPrivCodec))
EdFromFingerprint(text) == EdKey(None, None, text, None)
EdFingerprint(key) == key.public
EdVerifyFingerprint(key, text) ==
  /\ text.base = "z"
  /\ Decode(text, 0).kind = "tagged" /\ text.codec = EdPubCodec
  /\ text.data = key.public.data
EdJwk(key) == [id |-> <<key.controller, "thumbprint", key.public.data>>, controller |-> key.controller,
               kty |-> "OKP", crv |-> "Ed25519", x |-> key.public.data]
EdExport(key) == [id |-> key.id, type |-> key.type, controller |-> key.controller,
                  publicKeyMultibase |-> key.public]
EdSign(key, data) ==
  IF key.private = None THEN Error ELSE Signed(Decode(key.private, EdPrivCodec), "ed", data)
EdVerify(key, data, signature) == Holds(key.public.data, data, signature)

-----------------------------------------------------------------------------
\* BJJVerificationKey2021.
BjjKey(id, controller, public, private) ==
  IF public = None /\ private = None THEN Error
  ELSE LET pub == IF public # None THEN public ELSE Bjj(private.of)
       IN [kind |-> "key", type |-> "BJJVerificationKey2021", controller |-> controller,
           id |-> IF controller # None /\ id = None THEN <<controller, pub>> ELSE id,
           public |-> pub, private |-> private]
\* generate() hands over the Ed25519 public key of the pair as its own.
BjjGenerate(k, controller) == BjjKey(None, controller, EdPub(k), Secret(k))
BjjVerifyFingerprint(key, text) == key.public = text
BjjExport(key) == [id |-> key.id, type |-> key.type, controller |-> key.controller,
                   publicKeyBase58 |-> key.public]
BjjSign(key, data) == IF key.private = None THEN Error ELSE Signed(key.private, "bjj", data)
BjjVerify(key, data, signature) == Holds(key.public, data, signature)

-----------------------------------------------------------------------------
(***************************************************************************)
(* XC20P: a message sealed to a public key under an ephemeral pair, or under  *)
(* the pair of esk.  The bytes are nonce, tag, ciphertext and ephemeral key.  *)
(***************************************************************************)
Fresh == "fresh"                                    \* generateKeyPair()
SharedKey(a, b) == {a, b}                           \* X25519, then concatKDF
\* The cipher: a nonce, a tag and a ciphertext, opened by the same key or null.
Seal(kek, message) == <<[nonce |-> kek], [tag |-> kek], [key |-> kek, message |-> message]>>
Unseal(kek, envelope) == IF envelope[3].key = kek THEN envelope[3].message ELSE Error
MakeKeypair(secret) == IF secret.kind # "secret" THEN Error ELSE secret   \* 64 bytes
EphemeralPair(esk) == IF esk = None THEN Secret(Fresh) ELSE MakeKeypair(esk)
\* As a slip would have it: the recipient's key in the place of the ephemeral one.
EncryptBytesToSelf(message, public, esk) ==
  Append(Seal(SharedKey(EphemeralPair(esk).of, public.of), message), XPub(public.of))
EncryptBytes(message, public, esk) ==
  LET ekp == EphemeralPair(esk)
  IN Append(Seal(SharedKey(ekp.of, public.of), message), XPub(ekp.of))
\* As a slip would have it: a null from the cipher is not looked at.
DecryptBytesUnchecked(bytes, secret, epk) == bytes[3].message
\* The ephemeral key is read from the end of the bytes unless one is given.
DecryptBytes(bytes, secret, epk) ==
  LET pair == MakeKeypair(secret)
      other == IF epk = None THEN bytes[4] ELSE XPub(epk.of)
  IN IF pair = Error THEN Error ELSE Unseal(SharedKey(pair.of, other.of), SubSeq(bytes, 1, 3))

-----------------------------------------------------------------------------
(***************************************************************************)
(* DIDs.  did:key names its key; did:albus names the account of an issuer.    *)
(* A document lists verification methods in order.                           *)
(***************************************************************************)
EncodeDidKey(public) == [method |-> "key", id |-> Encode(public, EdPubCodec)]
DecodeDidKey(did) == IF did.method # "key" THEN Error ELSE Decode(did.id, EdPubCodec)
AlbusDid(address) == [method |-> "albus", id |-> address]

EdMethod(controller, public) ==
  LET text == Encode(public, EdPubCodec) IN
  [id |-> <<controller, text>>, type |-> "Ed25519VerificationKey2020", controller |-> controller,
   publicKeyMultibase |-> text]
BjjMethod(controller, point) ==
  [id |-> <<controller, point>>, type |-> "BJJVerificationKey2021", controller |-> controller,
   publicKeyBase58 |-> point]
GenerateDidDocument(pubkey, zkPubkey, controller) ==
  [kind |-> "document", id |-> controller,
   methods |-> <<EdMethod(controller, pubkey), BjjMethod(controller, zkPubkey)>>]
\* The same from a key pair, for an issuer that publishes its own document.
GenerateDid(k, controller) ==
  [kind |-> "document", id |-> controller,
   methods |-> <<EdMethod(controller, EdPub(k)), BjjMethod(controller, Bjj(k))>>]
Ed25519Doc(public, fingerprint) ==
  LET did == [method |-> "key", id |-> fingerprint] IN
  [kind |-> "document", id |-> did,
   methods |-> <<[id |-> <<did, fingerprint>>, type |-> "Ed25519VerificationKey2018",
                  controller |-> did, publicKeyBase58 |-> public],
                 [EdMethod(did, public) EXCEPT !.id = <<did, fingerprint>>]>>]
KeyResolve(did) ==
  LET bytes == Decode(did.id, 0) IN
  IF bytes = Error \/ bytes.kind # "tagged" \/ bytes.codec # EdPubCodec THEN Error
  ELSE Ed25519Doc(bytes.data, did.id)

\* The account's first bytes say that it is an issuer.
ParseIssuer(account) ==
  IF account.type # "issuer" THEN Error
  ELSE [kind |-> "issuer", pubkey |-> account.pubkey, zkPubkey |-> account.zkPubkey]
AlbusResolve(did, accounts) ==
  IF accounts[did.id] = None THEN Error
  ELSE LET issuer == ParseIssuer(accounts[did.id])
       IN IF issuer = Error THEN Error
          ELSE GenerateDidDocument(issuer.pubkey, issuer.zkPubkey, did)
\* The resolver package of its own is the same but for the cluster's address.
PackageResolve(did, accounts) == AlbusResolve(did, accounts)
Resolve(did, accounts) ==
  IF did = None THEN Error
  ELSE IF did.method = "key" THEN KeyResolve(did) ELSE AlbusResolve(did, accounts)

\* As a slip would have it: the fragment of the id is taken for the key.
FragmentAsKey(document, id) ==
  IF document = Error THEN Error ELSE EdMethod(document.id, id[2].data)
\* What the document loader gives for a verification method's id: the first
\* method of that id.
MethodOf(document, id) ==
  IF document = Error THEN Error
  ELSE LET found == {i \in DOMAIN document.methods : document.methods[i].id = id}
       IN IF found = {} THEN Error
          ELSE document.methods[CHOOSE i \in found : \A j \in found : i <= j]

-----------------------------------------------------------------------------
(***************************************************************************)
(* A key is the same whatever form it is passed in: rebuilt from its          *)
(* fingerprint, an older suite's key, a JSON web key (of a pair whose text     *)
(* has no - or _) or the documents of its DID, it verifies what the pair       *)
(* signed, and only that.                                                    *)
(***************************************************************************)
FormsOf(k) ==
  LET did == EncodeDidKey(EdPub(k))
      key == EdGenerate(k, did)
      document == KeyResolve(did)
  IN {key, EdFromFingerprint(EdFingerprint(key)),
      EdFrom2018(document.methods[1]),
      EdFrom2018([id |-> key.id, controller |-> did, publicKeyBase58 |-> DecodeDidKey(did)])}
     \cup (IF k \in UrlPairs THEN {} ELSE {EdFromJwk(EdJwk(key))})
KeyFormsAgree(pairs) ==
  \A k, other \in pairs :
    LET signature == EdSign(EdGenerate(k, None), "data")
        bjj == BjjKey(None, None, None, Secret(k))
    IN /\ \A form \in FormsOf(k) : form # Error /\ EdVerify(form, "data", signature)
                                  /\ EdVerifyFingerprint(form, EdExport(form).publicKeyMultibase)
       /\ k # other => \A form \in FormsOf(other) :
            ~EdVerify(form, "data", signature) /\ ~EdVerifyFingerprint(form, EdFingerprint(EdGenerate(k, None)))
       /\ BjjVerifyFingerprint(bjj, GenerateDid(k, None).methods[2].publicKeyBase58)
       /\ BjjVerify(BjjKey(None, None, BjjExport(bjj).publicKeyBase58, None), "data", BjjSign(bjj, "data"))
=============================================================================
