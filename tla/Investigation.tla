---------------------------- MODULE Investigation ----------------------------
(***************************************************************************)
(* Investigations of the Albus program: an investigator asks the trustees  *)
(* of a proof request to disclose their shares of the secret its data is   *)
(* encrypted with.  The handlers of programs/albus/src/instructions/       *)
(* investigation, and the SDK's InvestigationManager, which reads accounts *)
(* first and sends its transaction later.                                  *)
(*                                                                         *)
(* Of a proof request an investigation reads one thing, the shares its     *)
(* current proof encrypts.  A generation of shares is a number; each proof *)
(* splits a fresh secret, so every proof with encrypted data makes one.    *)
(* A share is a point of the polynomial of its generation, encrypted for   *)
(* the encryption key of an investigation.                                 *)
(***************************************************************************)
EXTENDS Registry

CONSTANTS
  Users,          \* owners of proof requests
  Investigators,  \* signers that open investigations
  EncryptionKeys, \* keys an investigation may have its shares encrypted for
  HandMade,       \* what a signer may pass for a share without the SDK
  ShamirN,        \* shares a circuit makes (shamirN)
  ShamirK,        \* shares that determine the secret (shamirK)
  MaxGen,         \* bound on the proofs made
  MaxSent,        \* bound on the reveal transactions under way
  MaxEach,        \* bound on those for one share
  Late            \* may a prepared transaction arrive late?

Requests == Services \X Users
OwnerOf(r) == r[2]
Investigations == Requests \X Investigators
RequestOf(ir) == ir[1]
Shares == Investigations \X Trustees

InvestigationAccount ==
  [encryption_key: EncryptionKeys, required_share_count: Nat,
   revealed_share_count: Nat, trustees: Seq(Trustees)]
RevelationStatus == {"Pending", "RevealedByUser", "RevealedByTrustee"}
\* The point at `at` of generation gen, encrypted for a key; None is the empty
\* share, and generation 0 any other bytes.  revealed_at is set exactly when the
\* status leaves Pending.
ShareData == [gen: Nat, at: Nat, sealed: EncryptionKeys]
Content == [index: Nat, data: ShareData \cup {None}]
ShareAccount == [index: Nat, status: RevelationStatus, data: ShareData \cup {None}]
\* A transaction of revealShare; gen is 0 while the proof has not been read.
RevealMessage == [key: Shares, sealed: EncryptionKeys, index: Nat, gen: Nat]

ASSUME InvestigationAssumption ==
  /\ Users \subseteq Signers /\ Investigators \subseteq Signers
  /\ ShamirN \in Nat /\ ShamirK \in 1..ShamirN
  /\ MaxGen \in Nat /\ MaxSent \in Nat /\ MaxEach \in Nat
  /\ Late \in BOOLEAN
  /\ IsFiniteSet(Trustees)
  /\ HandMade \subseteq Content
  /\ Closed \notin InvestigationAccount /\ Closed \notin ShareAccount
  /\ None \notin ShareData

VARIABLES
  generation,    \* per request: Closed, 0 without a proof, or its proof's shares
  holders,       \* the trustees of every generation made so far, in share order
  investigation, \* investigation request accounts
  share,         \* share accounts, by investigation and trustee
  sent,          \* reveal transactions trustees prepare and send
  leftover,      \* history: shares revealed before their investigation was opened
  stripped,      \* history: investigations another one's deletion took shares of
  byHand,        \* history: shares revealed without the SDK
  calm           \* history: investigations undisturbed since they were opened

noted == <<leftover, stripped, byHand, calm>>
investigationVars ==
  <<generation, holders, investigation, share, sent, noted>>
vars == <<registryVars, investigationVars>>

InvestigationInit ==
  /\ generation = [r \in Requests |-> Closed]
  /\ holders = <<>>
  /\ investigation = [ir \in Investigations |-> Closed]
  /\ share = [k \in Shares |-> Closed]
  /\ sent = {}
  /\ leftover = {} /\ stripped = {} /\ byHand = {} /\ calm = {}

Init == RegistryInit /\ InvestigationInit

-----------------------------------------------------------------------------
\* The proof request, as far as an investigation sees it.  A proof that comes or
\* goes disturbs the investigations of its request.

Disturbed(r) == calm' = {ir \in calm : RequestOf(ir) # r}

OpenRequest(r) ==
  /\ service[r[1]] # Closed
  /\ generation[r] = Closed
  /\ generation' = [generation EXCEPT ![r] = 0]
  /\ UNCHANGED <<registryVars, holders, investigation, share, sent, noted>>

\* A new proof encrypts one share for each trustee the service lists and whose
\* account is found, in their order; the circuit takes exactly ShamirN of them.
LivePositions(ts) == {i \in DOMAIN ts : trustee[ts[i]] # Closed}

Prove(r) ==
  /\ generation[r] # Closed /\ service[r[1]] # Closed
  /\ Len(holders) < MaxGen
  /\ LET ts == service[r[1]].trustees
         live == LivePositions(ts)
     IN /\ Cardinality(live) = ShamirN
        /\ \E f \in [1..ShamirN -> live] :
             /\ \A i, j \in 1..ShamirN : i < j => f[i] < f[j]
             /\ holders' = Append(holders, [i \in 1..ShamirN |-> ts[f[i]]])
  /\ generation' = [generation EXCEPT ![r] = Len(holders) + 1]
  /\ Disturbed(r)
  /\ UNCHANGED <<registryVars, investigation, share, sent, leftover, stripped, byHand>>

\* A prove transaction with reset, or a deletion, takes the proof away.
DropProof(r, to) ==
  /\ generation[r] # Closed
  /\ to \in {0, Closed}
  /\ generation' = [generation EXCEPT ![r] = to]
  /\ Disturbed(r)
  /\ UNCHANGED <<registryVars, holders, investigation, share, sent, leftover,
                 stripped, byHand>>

-----------------------------------------------------------------------------
\* CreateInvestigationRequest.  Anybody opens one, names any trustees and any key
\* to encrypt for, and passes the trustees' share accounts or none; an account
\* that exists stays as it is.  An investigation starts out calm if no share of
\* it was revealed and no transaction for it is under way.

Elements(ts) == {ts[i] : i \in DOMAIN ts}
ZeroBased(ts, t) ==               \* faults: findIndex without the + 1,
  (CHOOSE i \in DOMAIN ts : ts[i] = t /\ \A j \in DOMAIN ts : ts[j] = t => i <= j) - 1
Unplaced(ts, t) == 1              \*         every share at the same place
FirstIndex(ts, t) ==
  CHOOSE i \in DOMAIN ts : ts[i] = t /\ \A j \in DOMAIN ts : ts[j] = t => i <= j

EmptyShare(i) == [index |-> i, status |-> "Pending", data |-> None]

SharesOverwritten(ir, ts) ==      \* fault: an existing account is set up again
  [k \in Shares |-> IF k[1] = ir /\ k[2] \in Elements(ts)
                    THEN EmptyShare(FirstIndex(ts, k[2])) ELSE share[k]]
SharesOpened(ir, ts) ==
  [k \in Shares |-> IF k[1] = ir /\ k[2] \in Elements(ts) /\ share[k] = Closed
                    THEN EmptyShare(FirstIndex(ts, k[2])) ELSE share[k]]

IsRevealed(k) == share[k] # Closed /\ share[k].status # "Pending"

CreateInvestigationRequest(a, r, ts, withShares, key) ==
  LET ir == <<r, a>>
      old == {k \in Shares : k[1] = ir /\ IsRevealed(k)}
  IN /\ a \in Investigators
     /\ service[r[1]] # Closed
     /\ generation[r] \notin {Closed, 0}
     /\ investigation[ir] = Closed
     /\ share' = IF withShares THEN SharesOpened(ir, ts) ELSE share
     /\ investigation' = [investigation EXCEPT ![ir] =
          [encryption_key |-> key,
           required_share_count |-> service[r[1]].secret_share_threshold,
           revealed_share_count |-> 0, trustees |-> ts]]
     /\ leftover' = {k \in leftover : k[1] # ir} \cup old
     /\ stripped' = stripped \ {ir}
     /\ calm' = IF old = {} /\ \A m \in sent : m.key[1] # ir
                THEN calm \cup {ir} ELSE calm \ {ir}
     /\ UNCHANGED <<registryVars, generation, holders, sent, byHand>>

-----------------------------------------------------------------------------
\* revealShareIx of the SDK reads the investigation, for its encryption key, then
\* the proof request, where it finds the trustee among the keys of the proof and
\* decrypts its share; the transaction is sent later.

ReadInvestigation(k) ==
  /\ Cardinality(sent) < MaxSent
  /\ Cardinality({m \in sent : m.key = k}) < MaxEach
  /\ investigation[k[1]] # Closed
  /\ sent' = sent \cup {[key |-> k, sealed |-> investigation[k[1]].encryption_key,
                         index |-> 0, gen |-> 0]}
  /\ UNCHANGED <<registryVars, generation, holders, investigation, share, noted>>

Prepared(m, g) ==
  [m EXCEPT !.gen = g, !.index = FirstIndex(holders[g], m.key[2])]

ReadProof(m) ==
  LET g == generation[RequestOf(m.key[1])]
  IN /\ m.gen = 0
     /\ g \notin {Closed, 0}
     /\ m.key[2] \in Elements(holders[g])
     /\ sent' = (sent \ {m}) \cup {Prepared(m, g)}
     /\ UNCHANGED <<registryVars, generation, holders, investigation, share, noted>>

-----------------------------------------------------------------------------
\* RevealSecretShare, by the trustee's authority or the owner of the request.
\* The handler takes any index and any bytes; what the SDK passes is a prepared
\* transaction's.

RevealedBy(a, k) ==
  IF a = OwnerOf(RequestOf(k[1])) THEN "RevealedByUser" ELSE "RevealedByTrustee"

RevealedTwice(k) == FALSE         \* fault: a share may be revealed again
AlreadyRevealed(k) == IsRevealed(k)

RevealUncounted(acc) == acc       \* fault: the revelation is not counted
Counted(acc) == [acc EXCEPT !.revealed_share_count = @ + 1]

\* What the share account holds afterwards.
Written(a, k, c) == [index |-> c.index, status |-> RevealedBy(a, k), data |-> c.data]

RevealSecretShare(a, k, c) ==
  LET ir == k[1]
      t == k[2]
      byOwner == a = OwnerOf(RequestOf(ir))
  IN /\ investigation[ir] # Closed /\ trustee[t] # Closed
     /\ ~AlreadyRevealed(k)
     /\ investigation[ir].revealed_share_count < investigation[ir].required_share_count
     /\ byOwner \/ (a = trustee[t].authority /\ trustee[t].revealed_share_count < MaxCount)
     /\ investigation' = [investigation EXCEPT ![ir] = Counted(@)]
     /\ share' = [share EXCEPT ![k] = Written(a, k, c)]
     /\ trustee' = IF byOwner THEN trustee
                   ELSE [trustee EXCEPT ![t].revealed_share_count = @ + 1]
     /\ UNCHANGED <<service, policy, circuit, issuer, adminClosed, generation,
                    holders, leftover, stripped>>

SealedForAuthority(m) == m.key[1][2]     \* fault: sealed for who opened it
SealedFor(m) == m.sealed
ContentOf(m) ==
  [index |-> m.index, data |-> [gen |-> m.gen, at |-> m.index, sealed |-> SealedFor(m)]]

RevealSent(a, m) ==
  /\ m.gen # 0
  /\ RevealSecretShare(a, m.key, ContentOf(m))
  /\ sent' = sent \ {m}
  /\ UNCHANGED <<byHand, calm>>

RevealByHand(a, k, c) ==
  /\ RevealSecretShare(a, k, c)
  /\ byHand' = byHand \cup {k}
  /\ calm' = calm \ {k[1]}
  /\ UNCHANGED sent

\* A transaction that is never confirmed expires.
ExpireReveal(m) ==
  /\ sent' = sent \ {m}
  /\ UNCHANGED <<registryVars, generation, holders, investigation, share, noted>>

-----------------------------------------------------------------------------
\* DeleteInvestigationRequest by its authority.  The share accounts passed
\* number as many as its trustees and name one of them each; whose investigation
\* they belong to is not looked at.  An account closes once.

DeleteInvestigationRequest(a, ir, accounts) ==
  /\ a = ir[2]
  /\ investigation[ir] # Closed
  /\ Cardinality(accounts) = Len(investigation[ir].trustees)
  /\ \A k \in accounts : share[k] # Closed /\ k[2] \in Elements(investigation[ir].trustees)
  /\ investigation' = [investigation EXCEPT ![ir] = Closed]
  /\ share' = [k \in Shares |-> IF k \in accounts THEN Closed ELSE share[k]]
  /\ stripped' = stripped \cup {k[1] : k \in {x \in accounts : x[1] # ir}}
  /\ byHand' = byHand \ accounts
  /\ calm' = calm \ {ir}
  /\ sent' = IF Late THEN sent ELSE {m \in sent : m.key[1] # ir}
  /\ UNCHANGED <<registryVars, generation, holders, leftover>>

\* What deleteIx of the SDK passes.
OwnShares(ir) == {<<ir, t>> : t \in Elements(investigation[ir].trustees)}

-----------------------------------------------------------------------------
RequestNext == \E r \in Requests :
  \/ OpenRequest(r)
  \/ Prove(r)
  \/ \E to \in {0, Closed} : DropProof(r, to)

InvestigationNext ==
  \/ \E a \in Investigators, r \in Requests, ts \in TrusteeLists, b \in BOOLEAN,
        key \in EncryptionKeys : CreateInvestigationRequest(a, r, ts, b, key)
  \/ \E k \in Shares :
       \/ ReadInvestigation(k)
       \/ \E a \in Signers, c \in HandMade : RevealByHand(a, k, c)
  \/ \E m \in sent :
       \/ ReadProof(m)
       \/ \E a \in Signers : RevealSent(a, m)
       \/ ExpireReveal(m)
  \/ \E ir \in Investigations, accounts \in SUBSET Shares :
       DeleteInvestigationRequest(ir[2], ir, accounts)

Next == RequestNext \/ InvestigationNext \/ (RegistryNext /\ UNCHANGED investigationVars)

Spec == Init /\ [][Next]_vars

-----------------------------------------------------------------------------
TypeOK ==
  /\ RegistryTypeOK
  /\ holders \in Seq(Seq(Trustees))
  /\ generation \in [Requests -> 0..Len(holders) \cup {Closed}]
  /\ investigation \in [Investigations -> InvestigationAccount \cup {Closed}]
  /\ share \in [Shares -> ShareAccount \cup {Closed}]
  /\ \A m \in sent : /\ m \in RevealMessage /\ m.gen \in 0..Len(holders)
                     /\ m.index = 0 => m.gen = 0     \* a share has a place
  /\ leftover \subseteq Shares /\ byHand \subseteq Shares
  /\ stripped \subseteq Investigations /\ calm \subseteq Investigations

LiveInvestigations == {ir \in Investigations : investigation[ir] # Closed}
RevealedShares(ir) == {k \in Shares : k[1] = ir /\ IsRevealed(k)}

\* revealed_share_count is the number of shares the investigation has collected
\* since it was opened: no share counts twice and none that counted is lost,
\* unless the deletion of another investigation took it.
RevealedCountExact ==
  \A ir \in LiveInvestigations \ stripped :
    investigation[ir].revealed_share_count =
      Cardinality(RevealedShares(ir) \ leftover)

\* A share that has been revealed is final for as long as its account lives:
\* neither a late or repeated revelation nor a new investigation at the same
\* address changes it.
RevealedShareIsFinal ==
  [][\A k \in Shares : IsRevealed(k) /\ share'[k] # Closed => share'[k] = share[k]]_vars

\* decryptData with the investigation's key finds the secret of generation g, in
\* whatever order it gets the accounts: of the shares that are not empty it opens
\* the first with each index, and fails on one sealed for another key; Shamir's
\* reconstruction takes the first required_share_count of the values.
Filled(ir) == {k \in Shares : k[1] = ir /\ share[k] # Closed /\ share[k].data # None}

FitsKey(ir, k, g) ==
  share[k].data = [gen |-> g, at |-> share[k].index,
                   sealed |-> investigation[ir].encryption_key]

Decrypts(ir, g) ==
  LET required == investigation[ir].required_share_count
  IN /\ required >= ShamirK
     /\ Cardinality({share[k].index : k \in Filled(ir)}) >= required
     /\ \A k \in Filled(ir) : FitsKey(ir, k, g)

ThresholdReached(ir) ==
  investigation[ir].revealed_share_count = investigation[ir].required_share_count

\* The SDK revealed it, from generation g, for the key the investigation has now.
OfOneProof(ir, k, g) ==
  /\ k \notin byHand
  /\ share[k].data.gen = g
  /\ share[k].data.sealed = investigation[ir].encryption_key

\* docs/gitbook-sync/data-retention-compliance.md:25, "Upon receiving a specific
\* threshold number of the key shares, the authorised entity can reconstruct the
\* decryption key": true when the threshold is the circuit's at least and every
\* share there was revealed with the SDK, from one proof and for the key the
\* investigation has now; whoever sent it, however late, in this opening or an
\* earlier one.  One share passed by hand, of another proof or for another key
\* is enough to lose the data.
SharesOfOneProofDecrypt ==
  \A ir \in LiveInvestigations \ stripped, g \in 1..Len(holders) :
    /\ ThresholdReached(ir)
    /\ investigation[ir].required_share_count >= ShamirK
    /\ \A k \in RevealedShares(ir) : OfOneProof(ir, k, g)
    => Decrypts(ir, g)

\* investigationManager.ts:361-432, read, read again, sent and collected later:
\* every share of a calm investigation fits its key and its request's proof.  It
\* is calm if, when it was opened, no share of it was there and no transaction
\* under way, and since then nothing was passed by hand and the proof has stayed.
CalmSharesFit ==
  \A ir \in LiveInvestigations \cap calm : \A k \in RevealedShares(ir) :
    FitsKey(ir, k, generation[RequestOf(ir)])

\* Trustees answer: each prepares its share while it has one to give, and one
\* that keeps sending its transaction gets it confirmed in the end
\* (data-retention-compliance.md:25; nothing in the program makes them).
TrusteesAnswer ==
  \A k \in Shares :
    /\ WF_vars(ReadInvestigation(k))
    /\ SF_vars(\E m \in sent : m.key = k /\ ReadProof(m))
    /\ SF_vars(\E m \in sent, a \in Signers : m.key = k /\ RevealSent(a, m))

\* An investigation of a request that keeps its proof, opened for the trustees of
\* that proof, reaches its threshold when trustees answer, unless it is deleted.
Answered ==
  \A ir \in Investigations :
    LET g == generation[RequestOf(ir)]
        open == investigation[ir] # Closed /\ g \notin {0, Closed}
    IN (/\ open
        /\ investigation[ir].trustees = holders[g]
        /\ investigation[ir].required_share_count <= ShamirN)
         ~> (~open \/ ThresholdReached(ir))

=============================================================================
