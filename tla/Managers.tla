------------------------------ MODULE Managers ------------------------------
(***************************************************************************)
(* The registry through the TypeScript client (packages/albus-sdk): what     *)
(* each manager method sends for the properties it is given.  A method        *)
(* derives the addresses, fills in what its caller left out (None here) and   *)
(* sends one transaction; a verification key takes several.                   *)
(***************************************************************************)
EXTENDS Registry

CONSTANTS
  IcFirst, IcChunk,     \* icFirstSize and icChunkSize: 7 and 14 in the code
  DefaultThreshold,     \* DEFAULT_SECRET_SHARE_THRESHOLD
  OwnKey                \* issuer code -> the public key of its keypair

ASSUME ManagersAssumption ==
  /\ IcFirst \in Nat \ {0} /\ IcChunk \in Nat \ {0}
  /\ None \notin VkVersions

-----------------------------------------------------------------------------
\* TxBuilder.  It starts with one empty transaction; the first one added takes
\* its place.  sendAll skips what is empty and sends the others in their order.

NewBuilder == <<<<>>>>
AddTransaction(txs, ixs) ==
  IF txs[1] # <<>> THEN Append(txs, ixs) ELSE [txs EXCEPT ![1] = ixs]
AddTransactions(txs, list) ==
  LET built[n \in 0..Len(list)] ==
        IF n = 0 THEN txs ELSE AddTransaction(built[n - 1], list[n])
  IN built[Len(list)]
SendAll(txs) ==
  LET sent[n \in 0..Len(txs)] ==
        IF n = 0 THEN <<>>
        ELSE IF txs[n] # <<>> THEN Append(sent[n - 1], txs[n]) ELSE sent[n - 1]
  IN sent[Len(txs)]

\* Array.slice leaves out what lies past the end; lodash: chunk.
Slice(s, from, to) == SubSeq(s, from, IF to < Len(s) THEN to ELSE Len(s))
ChunksOf(s, n) ==
  [i \in 1..((Len(s) + n - 1) \div n) |-> Slice(s, (i - 1) * n + 1, i * n)]

-----------------------------------------------------------------------------
\* ServiceManager and TrusteeManager.

ServiceCreate(w, s, auth, threshold, ts) ==
  CreateServiceProvider(w, s, OrElse(auth, w), OrElse(threshold, DefaultThreshold),
                        OrElse(ts, <<>>))

\* An empty list of trustees clears them, an absent one keeps them.
ServiceUpdate(w, s, auth, threshold, ts) ==
  UpdateServiceProvider(w, s, auth, threshold, ts = <<>>, OrElse(ts, <<>>))

ServiceDelete(w, s) == DeleteServiceProvider(w, s)

\* A trustee whose account is gone has no key.
LoadTrusteeKeys(ts) ==
  [i \in DOMAIN ts |-> IF trustee[ts[i]] = Closed THEN None ELSE ts[i]]

TrusteeCreate(w, t, auth) == CreateTrustee(w, t, auth)
TrusteeUpdate(w, t, auth) ==
  /\ trustee[t] # Closed
  /\ UpdateTrustee(w, t, OrElse(auth, trustee[t].authority))
TrusteeVerify(w, t) == VerifyTrustee(w, t)
TrusteeDelete(w, t) == DeleteTrustee(w, t)

-----------------------------------------------------------------------------
\* PolicyManager.  Absent rules become an empty list, in updates too.

PreparePolicyRules(rules) == OrElse(rules, <<>>)

PolicyCreate(p, c, rules, period, retention) ==
  CreatePolicy(p, c, PreparePolicyRules(rules), OrElse(period, 0), OrElse(retention, 0))

PolicyUpdate(w, p, rules, period, retention) ==
  UpdatePolicy(w, p, PreparePolicyRules(rules), period, retention)

PolicyDelete(w, p) == DeletePolicy(w, p)

-----------------------------------------------------------------------------
\* CircuitManager and IssuerManager.

CircuitCreate(w, c, signals) == CreateCircuit(w, c, signals)
CircuitDelete(w, c) == DeleteCircuit(w, c)

AllExtend(i) == TRUE                \* fault: the old key's points stay in front
LaterExtend(i) == i > 1
ExtendIc(i) == LaterExtend(i)

\* The head travels with the first points of ic.
UpdateVkIx(c, v) ==
  LET ic == CompleteVk(v).ic
      parts == <<Slice(ic, 1, IcFirst)>> \o ChunksOf(Slice(ic, IcFirst + 1, Len(ic)), IcChunk)
  IN [i \in DOMAIN parts |->
        [op |-> "vk", circuit |-> c, head |-> IF i = 1 THEN v ELSE None,
         ic |-> parts[i], extend |-> ExtendIc(i)]]
UpdateVkTxs(c, v) ==
  SendAll(AddTransactions(NewBuilder, [i \in DOMAIN UpdateVkIx(c, v) |-> <<UpdateVkIx(c, v)[i]>>]))

\* Without an authority, the issuer's own key is the authority.
IssuerCreate(w, i, auth, key) == CreateIssuer(w, i, OrElse(auth, OwnKey[i]), key)
IssuerDelete(w, i) == DeleteIssuer(w, i)

\* The accounts with this key come in any order and the first one is taken.
IssuersByZkPubkey(key) == {i \in Live(issuer) : issuer[i].zk_pubkey = key}
=============================================================================
