------------------------------ MODULE UserData ------------------------------
(***************************************************************************)
(* How the data of a credential's holder reaches an investigator: the        *)
(* circuit encrypts it under a secret and the shares of the secret under     *)
(* keys agreed with the trustees, a trustee opens his share, and whoever has  *)
(* enough shares opens the data.                                             *)
(***************************************************************************)
EXTENDS Zkp
LOCAL INSTANCE SequencesExt

UserPrivateKey(user) == FormatPrivKey(user)

\* The part of a circuit's public signals that carries the data.
EncryptionProof(b, user, trustees, nonce, secret, data, k) ==
  LET f == b.F
      n == Len(trustees)
      salt == Hash(f, <<UserPrivateKey(user), nonce>>)
      shares == SecretShares(f, secret, salt, n, k)
      shared(i) == MulPointEscalar(b, trustees[i], UserPrivateKey(user))
  IN [encryptedData |-> Encrypt(f, data, <<secret, secret>>, nonce),
      encryptedShare |-> <<>> \o [i \in 1..n |-> Encrypt(f, <<shares[i][2]>>, shared(i), nonce)],
      trusteePublicKey |-> trustees, userPublicKey |-> Prv2pub(b, user), timestamp |-> nonce]

IndexFromZero(at) == at - 1         \* fault: an array's index as the share's
ShareIndex(at) == at
\* A trustee's share with its index from one on; Refused without one.
RevealShare(b, signals, trustee) ==
  LET at == SelectInSeq(signals.trusteePublicKey, LAMBDA pk : pk = Prv2pub(b, trustee))
      share == Decrypt(b.F, signals.encryptedShare[at],
                       EcdhSharedKey(b, trustee, signals.userPublicKey), 1,
                       signals.timestamp)
  IN IF at = 0 THEN Refused ELSE <<ShareIndex(at), share[1]>>

\* As the code's operators bind: n - (1 % 3) and not (n - 1) % 3.
DecryptLength(n) == n - 1 - (n - (1 % 3))
DecryptData(f, secret, signals) ==
  Decrypt(f, signals.encryptedData, <<secret, secret>>,
          DecryptLength(Len(signals.encryptedData)), signals.timestamp)
=============================================================================
