------------------------- MODULE InvestigationProofs -------------------------
(* Investigations keep their types, a revealed share is final, the counter   *)
(* of an investigation counts the shares it collected, and enough of them    *)
(* decrypt, for any sets of investigators, requests, trustees and keys, and  *)
(* whatever is passed by hand.                                               *)
EXTENDS Investigation, RegistryProofs, WellFoundedInduction, SequenceTheorems

-----------------------------------------------------------------------------
(* Types.                                                                    *)

\* The position the SDK finds is a share index, and the trustee is there.
LEMMA FirstIndexType ==
  ASSUME NEW ts \in Seq(Trustees), NEW t \in Elements(ts)
  PROVE  FirstIndex(ts, t) \in Nat \ {0} /\ ts[FirstIndex(ts, t)] = t
<1> DEFINE S == {j \in Nat : j \in DOMAIN ts /\ ts[j] = t}
<1>1. DOMAIN ts = 1..Len(ts) /\ Len(ts) \in Nat
  OBVIOUS
<1>2. S # {}
  BY <1>1 DEF Elements
<1>3. PICK m \in S : \A j \in S : ~ (<<j, m>> \in OpToRel(<, Nat))
  <2> HIDE DEF S
  <2>1. S \subseteq Nat
    BY DEF S
  <2> QED BY <1>2, <2>1, NatLessThanWellFounded, WFMin
<1>4. \A j \in S : m <= j
  <2>1. \A j \in S : j \in Nat
    OBVIOUS
  <2>2. \A j \in S : ~ (j < m)
    <3> HIDE DEF S
    <3> QED BY <1>3, <2>1 DEF OpToRel
  <2> QED
    BY <2>1, <2>2
<1>5. m \in DOMAIN ts /\ ts[m] = t /\ \A j \in DOMAIN ts : ts[j] = t => m <= j
  BY <1>1, <1>4
<1>6. FirstIndex(ts, t) \in DOMAIN ts /\ ts[FirstIndex(ts, t)] = t
  BY <1>5 DEF FirstIndex
<1> QED
  BY <1>1, <1>6

LEMMA EmptyShareType ==
  ASSUME NEW ts \in Seq(Trustees), NEW t \in Elements(ts)
  PROVE  EmptyShare(FirstIndex(ts, t)) \in ShareAccount
BY FirstIndexType DEF EmptyShare, ShareAccount, RevelationStatus

\* The proof request: a new proof is a new generation.
LEMMA RequestTypeStep ==
  ASSUME TypeOK, RequestNext
  PROVE  TypeOK'
<1> USE DEF TypeOK
<1>0. RegistryTypeOK'
  BY DEF RequestNext, OpenRequest, Prove, DropProof, registryVars, RegistryTypeOK
<1>1. Len(holders) \in Nat
  OBVIOUS
<1>d. \A r \in Requests : Disturbed(r) => calm' \subseteq Investigations
  BY DEF Disturbed
<1> PICK r \in Requests : OpenRequest(r) \/ Prove(r) \/ \E to \in {0, Closed} : DropProof(r, to)
  BY DEF RequestNext
<1>2. CASE OpenRequest(r)
  BY <1>0, <1>1, <1>2 DEF OpenRequest, noted
<1>3. CASE Prove(r)
  <2> DEFINE list == service[r[1]].trustees
  <2>1. list \in Seq(Trustees)
    <3>1. service[r[1]] \in ServiceAccount
      BY <1>3 DEF Prove, RegistryTypeOK, Requests
    <3> QED
      BY <3>1 DEF ServiceAccount
  <2>2. PICK f \in [1..ShamirN -> LivePositions(list)] :
          holders' = Append(holders, [i \in 1..ShamirN |-> list[f[i]]])
    BY <1>3 DEF Prove
  <2> DEFINE ts == [i \in 1..ShamirN |-> list[f[i]]]
  <2>3. holders' \in Seq(Seq(Trustees)) /\ Len(holders') = Len(holders) + 1
    <3>1. ShamirN \in Nat
      BY InvestigationAssumption DEF InvestigationAssumption
    <3>2. \A i \in 1..ShamirN : f[i] \in DOMAIN list
      BY DEF LivePositions
    <3>3. ts \in [1..ShamirN -> Trustees]
      <4> HIDE DEF list
      <4>1. \A i \in 1..ShamirN : list[f[i]] \in Trustees
        BY <2>1, <3>2
      <4> QED BY <4>1
    <3>4. ts \in Seq(Trustees)
      <4> HIDE DEF ts
      <4> QED BY <3>1, <3>3, SeqDef
    <3>5. holders' = Append(holders, ts)
      BY <2>2
    <3> HIDE DEF ts, list
    <3> QED BY <3>4, <3>5
  <2>3a. Len(holders) \in Nat /\ Len(holders') \in Nat /\ Len(holders') = Len(holders) + 1
    BY <1>1, <2>3
  <2>4. generation' \in [Requests -> 0..Len(holders') \cup {Closed}]
    <3>1. generation' = [generation EXCEPT ![r] = Len(holders')]
      BY <1>3, <2>3 DEF Prove
    <3> QED
      BY <1>1, <2>3a, <3>1
  <2>5. \A m \in sent' : /\ m \in RevealMessage /\ m.gen \in 0..Len(holders')
                         /\ m.index = 0 => m.gen = 0
    <3>1. sent' = sent
      BY <1>3 DEF Prove
    <3> QED
      BY <1>1, <2>3a, <3>1
  <2> QED
    BY <1>0, <1>3, <1>d, <2>3, <2>4, <2>5 DEF Prove
<1>4. CASE \E to \in {0, Closed} : DropProof(r, to)
  BY <1>0, <1>1, <1>4, <1>d DEF DropProof
<1> QED
  BY <1>2, <1>3, <1>4

LEMMA CreateTypeStep ==
  ASSUME TypeOK, NEW a \in Investigators, NEW r \in Requests, NEW ts \in TrusteeLists,
         NEW b \in BOOLEAN, NEW e \in EncryptionKeys,
         CreateInvestigationRequest(a, r, ts, b, e)
  PROVE  TypeOK'
<1> DEFINE ir == <<r, a>>
           new == [encryption_key |-> e,
                   required_share_count |-> service[r[1]].secret_share_threshold,
                   revealed_share_count |-> 0, trustees |-> ts]
<1>1. ts \in Seq(Trustees)
  BY RegistryAssumption DEF RegistryAssumption
<1>2. new \in InvestigationAccount
  <2>1. service[r[1]] \in ServiceAccount
    BY DEF CreateInvestigationRequest, TypeOK, RegistryTypeOK, Requests
  <2> QED
    BY <1>1, <2>1 DEF InvestigationAccount, ServiceAccount
<1>3. investigation' = [investigation EXCEPT ![ir] = new]
  BY DEF CreateInvestigationRequest
<1>4. investigation' \in [Investigations -> InvestigationAccount \cup {Closed}]
  <2> HIDE DEF new
  <2> QED BY <1>2, <1>3 DEF TypeOK
<1>5. share' \in [Shares -> ShareAccount \cup {Closed}]
  BY <1>1, EmptyShareType DEF CreateInvestigationRequest, SharesOpened, TypeOK
<1>6. /\ leftover' \subseteq Shares /\ stripped' \subseteq Investigations
      /\ calm' \subseteq Investigations
  <2>1. ir \in Investigations
    BY DEF Investigations
  <2> QED
    BY <2>1 DEF CreateInvestigationRequest, TypeOK
<1> QED
  BY <1>4, <1>5, <1>6
  DEF CreateInvestigationRequest, TypeOK, RegistryTypeOK, registryVars

LEMMA ReadTypeStep ==
  ASSUME TypeOK, NEW k \in Shares, ReadInvestigation(k)
  PROVE  TypeOK'
<1> DEFINE m == [key |-> k, sealed |-> investigation[k[1]].encryption_key,
                 index |-> 0, gen |-> 0]
<1>1. investigation[k[1]] \in InvestigationAccount
  BY DEF TypeOK, ReadInvestigation, Shares
<1>2. m \in RevealMessage /\ m.gen = 0
  BY <1>1 DEF RevealMessage, InvestigationAccount
<1>3. sent' = sent \cup {m} /\ UNCHANGED <<registryVars, generation, holders,
                                          investigation, share, noted>>
  BY DEF ReadInvestigation
<1> HIDE DEF m
<1>4. Len(holders) \in Nat
  BY DEF TypeOK
<1> QED
  BY <1>2, <1>3, <1>4 DEF TypeOK, RegistryTypeOK, registryVars, noted

\* What a prepared transaction is.
LEMMA PreparedFields ==
  ASSUME NEW m \in RevealMessage, NEW g \in Nat,
         FirstIndex(holders[g], m.key[2]) \in Nat
  PROVE  /\ Prepared(m, g) \in RevealMessage
         /\ Prepared(m, g).gen = g /\ Prepared(m, g).key = m.key
         /\ Prepared(m, g).sealed = m.sealed
         /\ Prepared(m, g).index = FirstIndex(holders[g], m.key[2])
BY DEF Prepared, RevealMessage

LEMMA ReadProofEffect ==
  ASSUME TypeOK, NEW m \in sent, ReadProof(m)
  PROVE  LET g == generation[RequestOf(m.key[1])]
         IN /\ m \in RevealMessage /\ g \in 1..Len(holders) /\ holders[g] \in Seq(Trustees)
            /\ m.key[2] \in Elements(holders[g])
            /\ Prepared(m, g) \in RevealMessage /\ Prepared(m, g).gen = g
            /\ Prepared(m, g).key = m.key /\ Prepared(m, g).sealed = m.sealed
            /\ Prepared(m, g).index = FirstIndex(holders[g], m.key[2])
            /\ Prepared(m, g).index # 0
            /\ sent' = (sent \ {m}) \cup {Prepared(m, g)}
<1> DEFINE g == generation[RequestOf(m.key[1])]
<1>1. m \in RevealMessage /\ g \notin {Closed, 0} /\ m.key[2] \in Elements(holders[g])
      /\ sent' = (sent \ {m}) \cup {Prepared(m, g)}
  BY DEF TypeOK, ReadProof
<1>2. g \in 1..Len(holders)
  <2>1. RequestOf(m.key[1]) \in Requests
    BY <1>1 DEF RevealMessage, Shares, Investigations, RequestOf
  <2>2. g \in 0..Len(holders) \cup {Closed}
    BY <2>1 DEF TypeOK
  <2> HIDE DEF g
  <2> QED
    BY <1>1, <2>2 DEF TypeOK
<1> HIDE DEF g
<1>3. holders[g] \in Seq(Trustees) /\ g \in Nat
  BY <1>2 DEF TypeOK
<1>4. FirstIndex(holders[g], m.key[2]) \in Nat \ {0}
  BY <1>1, <1>3, FirstIndexType
<1>5. /\ Prepared(m, g) \in RevealMessage
      /\ Prepared(m, g).gen = g /\ Prepared(m, g).key = m.key
      /\ Prepared(m, g).sealed = m.sealed
      /\ Prepared(m, g).index = FirstIndex(holders[g], m.key[2])
  BY <1>1, <1>3, <1>4, PreparedFields
<1> QED
  BY <1>1, <1>2, <1>3, <1>4, <1>5 DEF g

LEMMA ReadProofTypeStep ==
  ASSUME TypeOK, NEW m \in sent, ReadProof(m)
  PROVE  TypeOK'
<1>1. PICK new : /\ new \in RevealMessage /\ new.gen \in 1..Len(holders) /\ new.index # 0
                 /\ sent' = (sent \ {m}) \cup {new}
  BY ReadProofEffect
<1>2. UNCHANGED <<registryVars, generation, holders, investigation, share, noted>>
  BY DEF ReadProof
<1>3. Len(holders) \in Nat
  BY DEF TypeOK
<1>4. \A x \in sent' : /\ x \in RevealMessage /\ x.gen \in 0..Len(holders)
                       /\ x.index = 0 => x.gen = 0
  BY <1>1, <1>3 DEF TypeOK
<1> QED
  BY <1>2, <1>4 DEF TypeOK, RegistryTypeOK, registryVars, noted

\* A revelation, with the SDK or by hand, of a share of the right types.
BySdk(k, c) ==
  /\ \E m \in sent : m.gen # 0 /\ m.key = k /\ c = ContentOf(m)
  /\ byHand' = byHand /\ calm' = calm
ByHand(k) == byHand' = byHand \cup {k} /\ calm' = calm \ {k[1]}

Reveals(a, k, c) ==
  /\ RevealSecretShare(a, k, c)
  /\ k \in Shares /\ c \in Content /\ Written(a, k, c) \in ShareAccount
  /\ sent' \subseteq sent
  /\ BySdk(k, c) \/ ByHand(k)

LEMMA WrittenType ==
  ASSUME NEW a, NEW k, NEW c \in Content
  PROVE  Written(a, k, c) \in ShareAccount
BY DEF Written, Content, ShareAccount, RevelationStatus, RevealedBy

LEMMA SentContent ==
  ASSUME NEW m \in RevealMessage
  PROVE  /\ ContentOf(m) \in Content /\ ContentOf(m).index = m.index
         /\ ContentOf(m).data = [gen |-> m.gen, at |-> m.index, sealed |-> m.sealed]
BY DEF ContentOf, SealedFor, Content, ShareData, RevealMessage

LEMMA SentReveals ==
  ASSUME TypeOK, NEW m \in sent, NEW a \in Signers, RevealSent(a, m)
  PROVE  Reveals(a, m.key, ContentOf(m))
<1>1. m \in RevealMessage
  BY DEF TypeOK
<1>2. m.key \in Shares /\ ContentOf(m) \in Content
  BY <1>1, SentContent DEF RevealMessage
<1> QED
  BY <1>2, WrittenType DEF RevealSent, Reveals, BySdk

LEMMA HandReveals ==
  ASSUME NEW k \in Shares, NEW a \in Signers, NEW c \in HandMade, RevealByHand(a, k, c)
  PROVE  Reveals(a, k, c)
<1>1. c \in Content
  BY InvestigationAssumption DEF InvestigationAssumption
<1> QED
  BY <1>1, WrittenType DEF RevealByHand, Reveals, ByHand

LEMMA RevealTypeStep ==
  ASSUME TypeOK, NEW a \in Signers, NEW k, NEW c, Reveals(a, k, c)
  PROVE  TypeOK'
<1> DEFINE ir == k[1]
           t == k[2]
           new == Written(a, k, c)
<1>1. RevealSecretShare(a, k, c) /\ new \in ShareAccount /\ k \in Shares
      /\ sent' \subseteq sent /\ byHand' \subseteq byHand \cup {k} /\ calm' \subseteq calm
  BY DEF Reveals, BySdk, ByHand
<1>2. ir \in Investigations /\ t \in Trustees
  BY <1>1 DEF Shares
<1>4. share' \in [Shares -> ShareAccount \cup {Closed}]
  <2>1. share' = [share EXCEPT ![k] = new]
    BY <1>1 DEF RevealSecretShare
  <2> HIDE DEF new
  <2> QED BY <1>1, <2>1 DEF TypeOK
<1>5. investigation' \in [Investigations -> InvestigationAccount \cup {Closed}]
  <2>1. investigation[ir] \in InvestigationAccount
    BY <1>1, <1>2 DEF RevealSecretShare, TypeOK
  <2>2. Counted(investigation[ir]) \in InvestigationAccount
    BY <2>1 DEF Counted, InvestigationAccount
  <2>3. investigation' = [investigation EXCEPT ![ir] = Counted(investigation[ir])]
    BY <1>1 DEF RevealSecretShare
  <2> QED
    BY <2>2, <2>3 DEF TypeOK
<1>6. RegistryTypeOK'
  <2> DEFINE one == [trustee[t] EXCEPT
                       !.revealed_share_count = trustee[t].revealed_share_count + 1]
  <2>1. trustee[t] \in TrusteeAccount
    BY <1>1, <1>2 DEF RevealSecretShare, TypeOK, RegistryTypeOK
  <2>2. one \in TrusteeAccount
    BY <2>1 DEF TrusteeAccount
  <2>3. trustee' = trustee \/ trustee' = [trustee EXCEPT ![t] = one]
    BY <1>1 DEF RevealSecretShare
  <2>4. trustee' \in [Trustees -> TrusteeAccount \cup {Closed}]
    <3> HIDE DEF one
    <3> QED BY <2>2, <2>3 DEF TypeOK, RegistryTypeOK
  <2> QED
    BY <1>1, <2>4 DEF RevealSecretShare, TypeOK, RegistryTypeOK
<1>7. UNCHANGED <<generation, holders, leftover, stripped>>
  BY <1>1 DEF RevealSecretShare
<1>8. byHand' \subseteq Shares /\ calm' \subseteq Investigations
  BY <1>1 DEF TypeOK
<1> QED
  BY <1>1, <1>4, <1>5, <1>6, <1>7, <1>8 DEF TypeOK

LEMMA DeleteTypeStep ==
  ASSUME TypeOK, NEW a \in Investigators, NEW ir \in Investigations,
         NEW accounts \in SUBSET Shares, DeleteInvestigationRequest(a, ir, accounts)
  PROVE  TypeOK'
<1>1. investigation' \in [Investigations -> InvestigationAccount \cup {Closed}]
  BY DEF DeleteInvestigationRequest, TypeOK
<1>2. share' \in [Shares -> ShareAccount \cup {Closed}]
  BY DEF DeleteInvestigationRequest, TypeOK
<1>3. stripped' \subseteq Investigations /\ byHand' \subseteq Shares
      /\ calm' \subseteq Investigations
  BY DEF DeleteInvestigationRequest, TypeOK, Shares
<1>4. \A m \in sent' : m \in sent
  BY DEF DeleteInvestigationRequest
<1>5. UNCHANGED <<registryVars, generation, holders, leftover>>
  BY DEF DeleteInvestigationRequest
<1>6. RegistryTypeOK'
  BY <1>5 DEF TypeOK, RegistryTypeOK, registryVars
<1> QED
  BY <1>1, <1>2, <1>3, <1>4, <1>5, <1>6 DEF TypeOK

LEMMA ExpireTypeStep ==
  ASSUME TypeOK, NEW m \in sent, ExpireReveal(m)
  PROVE  TypeOK'
BY DEF ExpireReveal, TypeOK, RegistryTypeOK, registryVars, noted

\* A step that concerns no account of an investigation.
Aside ==
  \/ RequestNext
  \/ \E k \in Shares : ReadInvestigation(k)
  \/ \E m \in sent : ReadProof(m) \/ ExpireReveal(m)
  \/ RegistryNext /\ UNCHANGED investigationVars
  \/ UNCHANGED vars

Creation == \E a \in Investigators, r \in Requests, ts \in TrusteeLists, b \in BOOLEAN,
               e \in EncryptionKeys : CreateInvestigationRequest(a, r, ts, b, e)

Revelation == \E a \in Signers, k \in Shares, c \in Content : Reveals(a, k, c)

Deletion == \E a \in Investigators, ir \in Investigations, accounts \in SUBSET Shares :
              DeleteInvestigationRequest(a, ir, accounts)

\* A step of the system is one of these.
LEMMA StepCases ==
  ASSUME TypeOK, [Next]_vars
  PROVE  Aside \/ Creation \/ Revelation \/ Deletion
<1>1. \A ir \in Investigations : ir[2] \in Investigators
  BY DEF Investigations
<1>2. ASSUME NEW m \in sent, NEW a \in Signers, RevealSent(a, m)
      PROVE  Revelation
  BY <1>2, SentReveals DEF Revelation, Reveals
<1>3. ASSUME NEW k \in Shares, NEW a \in Signers, NEW c \in HandMade, RevealByHand(a, k, c)
      PROVE  Revelation
  BY <1>3, HandReveals DEF Revelation, Reveals
<1>4. CASE InvestigationNext
  BY <1>1, <1>2, <1>3, <1>4 DEF InvestigationNext, Aside, Creation, Deletion
<1> QED
  BY <1>4 DEF Next, Aside

LEMMA AsideKeeps ==
  ASSUME Aside
  PROVE  UNCHANGED <<investigation, share, leftover, stripped, byHand>>
BY DEF Aside, RequestNext, OpenRequest, Prove, DropProof, ReadInvestigation, ReadProof,
   ExpireReveal, investigationVars, vars, noted

LEMMA TypeStep ==
  ASSUME TypeOK, [Next]_vars
  PROVE  TypeOK'
<1>1. CASE Aside
  <2>1. CASE RegistryNext /\ UNCHANGED investigationVars
    <3>1. RegistryTypeOK'
      BY <2>1, RegistryTypeStep DEF TypeOK
    <3> QED
      BY <2>1, <3>1 DEF TypeOK, investigationVars, noted
  <2>2. CASE UNCHANGED vars
    BY <2>2 DEF vars, registryVars, investigationVars, TypeOK, RegistryTypeOK, noted
  <2> QED
    BY <1>1, <2>1, <2>2, RequestTypeStep, ReadTypeStep, ReadProofTypeStep, ExpireTypeStep
    DEF Aside
<1> QED
  BY <1>1, StepCases, CreateTypeStep, RevealTypeStep, DeleteTypeStep
  DEF Creation, Revelation, Deletion

LEMMA TypeInit == Init => TypeOK
<1> SUFFICES ASSUME Init PROVE TypeOK
  OBVIOUS
<1>1. RegistryTypeOK
  BY RegistryTypeInit DEF Init
<1> QED
  BY <1>1 DEF Init, InvestigationInit, TypeOK

\* Accounts, prepared transactions and generations keep their types under every
\* handler, every registry instruction and every change of the proof.
THEOREM InvestigationTypeCorrect == Spec => []TypeOK
BY TypeInit, TypeStep, PTL DEF Spec

-----------------------------------------------------------------------------
(* A revealed share is final.                                                *)

LEMMA FinalStep ==
  ASSUME TypeOK, [Next]_vars, NEW k \in Shares, IsRevealed(k), share'[k] # Closed
  PROVE  share'[k] = share[k]
<1>1. CASE share' = share
  BY <1>1
<1>2. CASE Creation
  BY <1>2 DEF Creation, CreateInvestigationRequest, SharesOpened, IsRevealed
<1>3. ASSUME NEW a \in Signers, NEW x \in Shares, NEW c \in Content, Reveals(a, x, c)
      PROVE  share'[k] = share[k]
  <2>1. ~IsRevealed(x)
    BY <1>3 DEF Reveals, RevealSecretShare, AlreadyRevealed
  <2>2. x # k
    BY <2>1
  <2>3. \E new : share' = [share EXCEPT ![x] = new]
    BY <1>3 DEF Reveals, RevealSecretShare
  <2> QED
    BY <2>2, <2>3 DEF TypeOK
<1>4. CASE Deletion
  BY <1>4 DEF Deletion, DeleteInvestigationRequest
<1> QED
  BY <1>1, <1>2, <1>3, <1>4, StepCases, AsideKeeps DEF Revelation

\* What a trustee or the user has revealed stays as it is while the account
\* lives: a late transaction for it fails, and an investigation opened again at
\* its address leaves it alone.
THEOREM RevealedShareStaysFinal == Spec => RevealedShareIsFinal
<1>1. TypeOK /\ [Next]_vars =>
        [\A k \in Shares : IsRevealed(k) /\ share'[k] # Closed => share'[k] = share[k]]_vars
  BY FinalStep
<1> QED
  BY <1>1, InvestigationTypeCorrect, PTL DEF Spec, RevealedShareIsFinal

-----------------------------------------------------------------------------
(* The counter of an investigation.                                          *)

Collected(ir) == RevealedShares(ir) \ leftover

CountKept(ir) ==
  ir \in LiveInvestigations \ stripped =>
    /\ investigation[ir].revealed_share_count = Cardinality(Collected(ir))
    /\ \A k \in leftover : k[1] = ir => IsRevealed(k)

\* The inductive strengthening: a share that was revealed before the
\* investigation was opened still is, so a revelation never adds it again.
CollectedInv == TypeOK /\ \A ir \in Investigations : CountKept(ir)

LEMMA CollectedFinite ==
  ASSUME NEW ir
  PROVE  IsFiniteSet(Collected(ir))
<1>1. IsFiniteSet(Trustees) /\ IsFiniteSet({ir})
  BY InvestigationAssumption, FS_Singleton DEF InvestigationAssumption
<1>2. IsFiniteSet({ir} \X Trustees)
  BY <1>1, FS_Product
<1>3. Collected(ir) \subseteq {ir} \X Trustees
  BY DEF Collected, RevealedShares, Shares
<1> QED
  BY <1>2, <1>3, FS_Subset

\* An investigation whose account and shares a step leaves alone keeps its count.
LEMMA SameCount ==
  ASSUME CollectedInv, NEW ir \in Investigations,
         investigation'[ir] = investigation[ir],
         ir \in stripped => ir \in stripped',
         \A k \in Shares : k[1] = ir => share'[k] = share[k],
         \A k : k[1] = ir => (k \in leftover' <=> k \in leftover),
         leftover \subseteq Shares
  PROVE  CountKept(ir)'
<1>1. \A k \in Shares : k[1] = ir => (IsRevealed(k)' <=> IsRevealed(k))
  BY DEF IsRevealed
<1>2. Collected(ir)' = Collected(ir)
  BY <1>1 DEF Collected, RevealedShares
<1>3. CountKept(ir)
  BY DEF CollectedInv
<1>4. ir \in (LiveInvestigations \ stripped)' => ir \in LiveInvestigations \ stripped
  BY DEF LiveInvestigations
<1> QED
  BY <1>1, <1>2, <1>3, <1>4 DEF CountKept

LEMMA CreateCountStep ==
  ASSUME CollectedInv, NEW a \in Investigators, NEW r \in Requests, NEW ts \in TrusteeLists,
         NEW b \in BOOLEAN, NEW e \in EncryptionKeys,
         CreateInvestigationRequest(a, r, ts, b, e), NEW ir \in Investigations
  PROVE  CountKept(ir)'
<1> USE DEF CreateInvestigationRequest
<1>1. TypeOK
  BY DEF CollectedInv
<1>2. \A k \in Shares : k[1] # <<r, a>> => share'[k] = share[k]
  BY DEF SharesOpened
<1>3. CASE ir # <<r, a>>
  <2>1. investigation'[ir] = investigation[ir]
    BY <1>1, <1>3 DEF TypeOK
  <2>2. \A k : k[1] = ir => (k \in leftover' <=> k \in leftover)
    BY <1>3
  <2>3. ir \in stripped => ir \in stripped'
    BY <1>3
  <2>4. leftover \subseteq Shares
    BY <1>1 DEF TypeOK
  <2> QED
    BY <1>2, <1>3, <2>1, <2>2, <2>3, <2>4, SameCount
<1>4. CASE ir = <<r, a>>
  <2>1. \A k \in Shares : IsRevealed(k)' <=> IsRevealed(k)
    BY DEF SharesOpened, IsRevealed, EmptyShare
  <2>2. leftover' \subseteq Shares
    BY <1>1 DEF TypeOK
  <2>3. \A k \in Shares : k[1] = ir => (k \in leftover' <=> IsRevealed(k)')
    BY <1>4, <2>1
  <2>4. Collected(ir)' = {}
    BY <2>3 DEF Collected, RevealedShares
  <2>5. investigation'[ir].revealed_share_count = 0
    BY <1>1, <1>4 DEF TypeOK
  <2>6. Cardinality(Collected(ir)') = 0
    BY <2>4, FS_EmptySet
  <2> QED
    BY <2>2, <2>3, <2>5, <2>6 DEF CountKept
<1> QED
  BY <1>3, <1>4

\* What a revelation does to the shares.
LEMMA RevealEffect ==
  ASSUME TypeOK, NEW a \in Signers, NEW k, NEW c, Reveals(a, k, c)
  PROVE  /\ k \in Shares /\ k[1] \in LiveInvestigations /\ c \in Content
         /\ ~IsRevealed(k) /\ IsRevealed(k)' /\ share'[k] = Written(a, k, c)
         /\ \A x \in Shares : x # k => share'[x] = share[x]
         /\ \A ir \in Investigations : ir # k[1] => investigation'[ir] = investigation[ir]
         /\ investigation'[k[1]] = Counted(investigation[k[1]])
<1> DEFINE new == Written(a, k, c)
<1>1. /\ k \in Shares /\ k[1] \in LiveInvestigations /\ c \in Content /\ ~IsRevealed(k)
      /\ share' = [share EXCEPT ![k] = new] /\ new \in ShareAccount
      /\ investigation' = [investigation EXCEPT ![k[1]] = Counted(@)]
  BY DEF Reveals, RevealSecretShare, AlreadyRevealed, LiveInvestigations, Shares
<1>2. new # Closed /\ new.status = RevealedBy(a, k)
  BY <1>1, InvestigationAssumption DEF InvestigationAssumption, Written
<1> HIDE DEF new
<1>3. share'[k] = new /\ \A x \in Shares : x # k => share'[x] = share[x]
  BY <1>1 DEF TypeOK
<1>4. IsRevealed(k)'
  BY <1>2, <1>3 DEF IsRevealed, RevealedBy
<1>5. /\ \A ir \in Investigations : ir # k[1] => investigation'[ir] = investigation[ir]
      /\ investigation'[k[1]] = Counted(investigation[k[1]])
  BY <1>1 DEF TypeOK, LiveInvestigations
<1> QED
  BY <1>1, <1>3, <1>4, <1>5 DEF new

LEMMA RevealCountStep ==
  ASSUME CollectedInv, NEW a \in Signers, NEW k, NEW c, Reveals(a, k, c),
         NEW ir \in Investigations
  PROVE  CountKept(ir)'
<1>1. TypeOK
  BY DEF CollectedInv
<1>2. k \in Shares /\ ~IsRevealed(k) /\ IsRevealed(k)'
  BY <1>1, RevealEffect
<1>3. leftover \subseteq Shares /\ leftover' = leftover /\ stripped' = stripped
  BY <1>1 DEF TypeOK, Reveals, RevealSecretShare
<1>5. \A x \in Shares : x # k => share'[x] = share[x]
  BY <1>1, RevealEffect
<1>7. CASE ir # k[1]
  <2>1. investigation'[ir] = investigation[ir]
    BY <1>1, <1>7, RevealEffect
  <2> QED
    BY <1>3, <1>5, <1>7, <2>1, SameCount
<1>8. CASE ir = k[1] /\ ir \in (LiveInvestigations \ stripped)'
  <2> DEFINE acc == investigation[ir]
  <2>1. ir \in LiveInvestigations \ stripped /\ acc \in InvestigationAccount
    BY <1>1, <1>3, <1>8, RevealEffect DEF LiveInvestigations, TypeOK
  <2>2. /\ acc.revealed_share_count = Cardinality(Collected(ir))
        /\ \A x \in leftover : x[1] = ir => IsRevealed(x)
    BY <2>1 DEF CollectedInv, CountKept
  <2>3. investigation'[ir] = Counted(acc)
    BY <1>1, <1>8, RevealEffect
  <2>4. investigation'[ir].revealed_share_count = acc.revealed_share_count + 1
    BY <2>1, <2>3 DEF Counted, InvestigationAccount
  <2>5. k \notin leftover /\ k \notin Collected(ir)
    BY <1>2, <1>8, <2>2 DEF Collected, RevealedShares
  <2>6. \A x \in Shares : x # k => (IsRevealed(x)' <=> IsRevealed(x))
    BY <1>5 DEF IsRevealed
  <2>7. Collected(ir)' = Collected(ir) \cup {k}
    BY <1>2, <1>3, <1>8, <2>5, <2>6 DEF Collected, RevealedShares
  <2>8. Cardinality(Collected(ir) \cup {k}) = Cardinality(Collected(ir)) + 1
    BY <2>5, CollectedFinite, FS_AddElement
  <2>9. \A x \in leftover' : x[1] = ir => IsRevealed(x)'
    BY <1>3, <2>2, <2>5, <2>6
  <2>10. investigation'[ir].revealed_share_count = Cardinality(Collected(ir)')
    BY <2>2, <2>4, <2>7, <2>8
  <2> QED
    BY <2>9, <2>10 DEF CountKept
<1> QED
  BY <1>7, <1>8 DEF CountKept

LEMMA DeleteCountStep ==
  ASSUME CollectedInv, NEW a \in Investigators, NEW gone \in Investigations,
         NEW accounts \in SUBSET Shares, DeleteInvestigationRequest(a, gone, accounts),
         NEW ir \in Investigations
  PROVE  CountKept(ir)'
<1> USE DEF DeleteInvestigationRequest
<1>1. TypeOK
  BY DEF CollectedInv
<1>2. CASE ir = gone
  <2>1. ir \notin LiveInvestigations'
    BY <1>1, <1>2 DEF TypeOK, LiveInvestigations
  <2> QED
    BY <2>1 DEF CountKept
<1>3. CASE ir # gone /\ \E k \in accounts : k[1] = ir
  <2>1. ir \in stripped'
    BY <1>3
  <2> QED
    BY <2>1 DEF CountKept
<1>4. CASE ir # gone /\ \A k \in accounts : k[1] # ir
  <2>1. investigation'[ir] = investigation[ir]
    BY <1>1, <1>4 DEF TypeOK
  <2>2. \A k \in Shares : k[1] = ir => share'[k] = share[k]
    BY <1>4
  <2>3. ir \in stripped => ir \in stripped'
    OBVIOUS
  <2>4. leftover \subseteq Shares /\ leftover' = leftover
    BY <1>1 DEF TypeOK
  <2> QED
    BY <2>1, <2>2, <2>3, <2>4, SameCount
<1> QED
  BY <1>2, <1>3, <1>4

LEMMA CollectedStep ==
  ASSUME CollectedInv, [Next]_vars
  PROVE  CollectedInv'
<1>1. TypeOK'
  BY TypeStep DEF CollectedInv
<1>2. leftover \subseteq Shares
  BY DEF CollectedInv, TypeOK
<1> SUFFICES ASSUME NEW ir \in Investigations PROVE CountKept(ir)'
  BY <1>1 DEF CollectedInv
<1>3. CASE UNCHANGED <<investigation, share, leftover, stripped>>
  BY <1>2, <1>3, SameCount
<1> QED
  BY <1>3, StepCases, AsideKeeps, CreateCountStep, RevealCountStep, DeleteCountStep
  DEF CollectedInv, Creation, Revelation, Deletion

LEMMA CollectedInit == Init => CollectedInv
<1> SUFFICES ASSUME Init PROVE CollectedInv
  OBVIOUS
<1>1. LiveInvestigations = {}
  BY DEF Init, InvestigationInit, LiveInvestigations
<1> QED
  BY <1>1, TypeInit DEF CollectedInv, CountKept

\* revealed_share_count counts each share collected since the investigation was
\* opened once, and only those, whatever the order of revelations, late
\* transactions and investigations reopened over old share accounts.
THEOREM RevealedCountCorrect == Spec => []RevealedCountExact
<1>1. CollectedInv => RevealedCountExact
  BY DEF CollectedInv, CountKept, RevealedCountExact, Collected, LiveInvestigations
<1> QED
  BY <1>1, CollectedInit, CollectedStep, PTL DEF Spec

-----------------------------------------------------------------------------
(* Enough shares of one proof.                                               *)

IsShareOf(t, index, g) ==
  g \in 1..Len(holders) /\ t \in Elements(holders[g]) /\ index = FirstIndex(holders[g], t)

\* A share the SDK revealed is its trustee's point of the proof it was read from,
\* at that trustee's place; one that was not revealed is empty.
IsEmpty(k) == share[k] # Closed => share[k].data = None
IsSdkShare(k) ==
  /\ share[k].data # None /\ share[k].data.at = share[k].index
  /\ IsShareOf(k[2], share[k].index, share[k].data.gen)

SharesTrue ==
  /\ \A k \in Shares : ~IsRevealed(k) => IsEmpty(k)
  /\ \A k \in Shares : IsRevealed(k) /\ k \notin byHand => IsSdkShare(k)
  /\ \A m \in sent : m.gen # 0 => IsShareOf(m.key[2], m.index, m.gen)

LEMMA ShareStaysShare ==
  ASSUME TypeOK, [Next]_vars, NEW t, NEW i, NEW g, IsShareOf(t, i, g)
  PROVE  IsShareOf(t, i, g)'
<1>1. CASE holders' = holders
  BY <1>1 DEF IsShareOf
<1>2. ASSUME NEW r \in Requests, Prove(r)
      PROVE  IsShareOf(t, i, g)'
  <2>1. PICK new : holders' = Append(holders, new)
    BY <1>2 DEF Prove
  <2>2. holders \in Seq(Seq(Trustees)) /\ g \in 1..Len(holders)
    BY DEF TypeOK, IsShareOf
  <2>3. Len(holders') = Len(holders) + 1 /\ holders'[g] = holders[g]
    BY <2>1, <2>2
  <2> QED
    BY <2>2, <2>3 DEF IsShareOf
<1>3. (\E r \in Requests : Prove(r)) \/ holders' = holders
  <2>1. CASE Aside
    <3>1. RequestNext => (\E r \in Requests : Prove(r)) \/ holders' = holders
      BY DEF RequestNext, OpenRequest, DropProof
    <3>2. (RegistryNext /\ UNCHANGED investigationVars) \/ UNCHANGED vars => holders' = holders
      BY DEF investigationVars, vars
    <3>3. \A k \in Shares : ReadInvestigation(k) => holders' = holders
      BY DEF ReadInvestigation
    <3>4. \A m \in sent : ReadProof(m) \/ ExpireReveal(m) => holders' = holders
      BY DEF ReadProof, ExpireReveal
    <3> QED
      BY <2>1, <3>1, <3>2, <3>3, <3>4 DEF Aside
  <2>2. CASE Creation \/ Deletion
    <3>1. ASSUME NEW a, NEW r, NEW ts, NEW b, NEW e, CreateInvestigationRequest(a, r, ts, b, e)
          PROVE  holders' = holders
      BY <3>1 DEF CreateInvestigationRequest
    <3>2. ASSUME NEW a, NEW ir, NEW accounts, DeleteInvestigationRequest(a, ir, accounts)
          PROVE  holders' = holders
      BY <3>2 DEF DeleteInvestigationRequest
    <3> QED
      BY <2>2, <3>1, <3>2 DEF Creation, Deletion
  <2>3. CASE Revelation
    BY <2>3 DEF Revelation, Reveals, RevealSecretShare
  <2> QED
    BY <2>1, <2>2, <2>3, StepCases
<1> QED
  BY <1>1, <1>2, <1>3

\* A prepared transaction is a share of the proof that was read, and no other
\* step makes one.
LEMMA SentStep ==
  ASSUME TypeOK, SharesTrue, [Next]_vars, NEW m \in sent', m.gen # 0
  PROVE  IsShareOf(m.key[2], m.index, m.gen)'
<1>1. SUFFICES IsShareOf(m.key[2], m.index, m.gen)
  BY <1>1, ShareStaysShare
<1>2. CASE m \in sent
  BY <1>2 DEF SharesTrue
<1>3. ASSUME NEW k \in Shares, ReadInvestigation(k), m \notin sent
      PROVE  FALSE
  BY <1>3 DEF ReadInvestigation
<1>4. ASSUME NEW x \in sent, ReadProof(x), m \notin sent
      PROVE  IsShareOf(m.key[2], m.index, m.gen)
  <2> DEFINE g == generation[RequestOf(x.key[1])]
  <2>1. /\ g \in 1..Len(holders) /\ x.key[2] \in Elements(holders[g])
        /\ m = Prepared(x, g) /\ m.gen = g /\ m.key = x.key
        /\ m.index = FirstIndex(holders[g], x.key[2])
    BY <1>4, ReadProofEffect
  <2> QED
    BY <2>1 DEF IsShareOf
<1>5. \/ sent' \subseteq sent
      \/ \E k \in Shares : ReadInvestigation(k)
      \/ \E x \in sent : ReadProof(x)
  <2>1. CASE Aside
    <3>1. RequestNext => sent' \subseteq sent
      BY DEF RequestNext, OpenRequest, Prove, DropProof
    <3>2. (RegistryNext /\ UNCHANGED investigationVars) \/ UNCHANGED vars => sent' \subseteq sent
      BY DEF investigationVars, vars
    <3>3. \A x \in sent : ExpireReveal(x) => sent' \subseteq sent
      BY DEF ExpireReveal
    <3> QED
      BY <2>1, <3>1, <3>2, <3>3 DEF Aside
  <2>2. CASE Creation \/ Deletion
    <3>1. ASSUME NEW a, NEW r, NEW ts, NEW b, NEW e, CreateInvestigationRequest(a, r, ts, b, e)
          PROVE  sent' \subseteq sent
      BY <3>1 DEF CreateInvestigationRequest
    <3>2. ASSUME NEW a, NEW ir, NEW accounts, DeleteInvestigationRequest(a, ir, accounts)
          PROVE  sent' \subseteq sent
      BY <3>2 DEF DeleteInvestigationRequest
    <3> QED
      BY <2>2, <3>1, <3>2 DEF Creation, Deletion
  <2>3. CASE Revelation
    BY <2>3 DEF Revelation, Reveals
  <2> QED
    BY <2>1, <2>2, <2>3, StepCases
<1> QED
  BY <1>2, <1>3, <1>4, <1>5

\* What a transaction of the SDK leaves in the account.
LEMMA SentShare ==
  ASSUME TypeOK, SharesTrue, NEW a \in Signers, NEW k, NEW c, Reveals(a, k, c), BySdk(k, c)
  PROVE  \E m \in sent : /\ m.gen # 0 /\ m.key = k /\ share'[k].index = m.index
                         /\ share'[k].data = [gen |-> m.gen, at |-> m.index, sealed |-> m.sealed]
                         /\ share'[k].data # None
<1> PICK m \in sent : m.gen # 0 /\ m.key = k /\ c = ContentOf(m)
  BY DEF BySdk
<1>1. m \in RevealMessage
  BY DEF TypeOK
<1>2. c.index = m.index /\ c.data = [gen |-> m.gen, at |-> m.index, sealed |-> m.sealed]
  BY <1>1, SentContent
<1>3. share'[k].index = c.index /\ share'[k].data = c.data
  <2>1. share'[k] = Written(a, k, c)
    BY RevealEffect
  <2> QED
    BY <2>1 DEF Written
<1>4. c.data # None
  <2>1. [gen |-> m.gen, at |-> m.index, sealed |-> m.sealed] \in ShareData
    BY <1>1 DEF RevealMessage, ShareData
  <2> QED
    BY <1>2, <2>1, InvestigationAssumption DEF InvestigationAssumption
<1> QED
  BY <1>2, <1>3, <1>4

LEMMA SdkShareStays ==
  ASSUME TypeOK, [Next]_vars, NEW k \in Shares, share'[k] = share[k], IsSdkShare(k)
  PROVE  IsSdkShare(k)'
<1> PICK i, g : i = share[k].index /\ g = share[k].data.gen
  OBVIOUS
<1>1. IsShareOf(k[2], i, g)'
  <2>1. IsShareOf(k[2], i, g)
    BY DEF IsSdkShare
  <2> QED
    BY <2>1, ShareStaysShare
<1> QED
  BY <1>1 DEF IsSdkShare, IsShareOf

LEMMA RevealTrueStep ==
  ASSUME TypeOK, SharesTrue, [Next]_vars,
         NEW a \in Signers, NEW k, NEW c, Reveals(a, k, c), NEW x \in Shares
  PROVE  /\ ~IsRevealed(x)' => IsEmpty(x)'
         /\ IsRevealed(x)' /\ x \notin byHand' => IsSdkShare(x)'
<1>1. CASE x # k
  <2>1. share'[x] = share[x] /\ (x \in byHand' <=> x \in byHand)
    BY <1>1, RevealEffect DEF Reveals, BySdk, ByHand
  <2>2. IsRevealed(x)' <=> IsRevealed(x)
    BY <2>1 DEF IsRevealed
  <2>3. IsEmpty(x) => IsEmpty(x)'
    BY <2>1 DEF IsEmpty
  <2> QED
    BY <2>1, <2>2, <2>3, SdkShareStays DEF SharesTrue
<1>2. CASE x = k
  <2>1. IsRevealed(x)'
    BY <1>2, RevealEffect
  <2>2. CASE ByHand(k)
    BY <1>2, <2>1, <2>2 DEF ByHand
  <2>3. CASE BySdk(k, c)
    <3>1. PICK m \in sent : /\ m.gen # 0 /\ m.key = k /\ share'[k].index = m.index
                            /\ share'[k].data = [gen |-> m.gen, at |-> m.index, sealed |-> m.sealed]
                            /\ share'[k].data # None
      BY <2>3, SentShare
    <3>2. IsShareOf(m.key[2], m.index, m.gen)
      BY <3>1 DEF SharesTrue
    <3>3. IsShareOf(m.key[2], m.index, m.gen)'
      BY <3>2, ShareStaysShare
    <3>4. share'[k].data.gen = m.gen /\ share'[k].data.at = m.index
      BY <3>1
    <3> QED
      BY <1>2, <2>1, <3>1, <3>3, <3>4 DEF IsSdkShare, IsShareOf
  <2> QED
    BY <2>2, <2>3 DEF Reveals
<1> QED
  BY <1>1, <1>2

\* Any other step leaves a share as it is, or empty, or closed.
LEMMA OtherTrueStep ==
  ASSUME TypeOK, SharesTrue, [Next]_vars, ~Revelation, NEW x \in Shares
  PROVE  /\ ~IsRevealed(x)' => IsEmpty(x)'
         /\ IsRevealed(x)' /\ x \notin byHand' => IsSdkShare(x)'
<1>1. CASE share'[x] = share[x] /\ (x \in byHand' <=> x \in byHand)
  <2>1. (IsRevealed(x)' <=> IsRevealed(x)) /\ (IsEmpty(x) => IsEmpty(x)')
    BY <1>1 DEF IsRevealed, IsEmpty
  <2> QED
    BY <1>1, <2>1, SdkShareStays DEF SharesTrue
<1>2. CASE share'[x] = Closed
  BY <1>2 DEF IsRevealed, IsEmpty
<1>3. CASE \E i : share'[x] = EmptyShare(i)
  BY <1>3 DEF IsRevealed, IsEmpty, EmptyShare
<1>4. CASE Aside
  BY <1>1, <1>4, AsideKeeps
<1>5. CASE Creation
  BY <1>1, <1>3, <1>5 DEF Creation, CreateInvestigationRequest, SharesOpened
<1>6. CASE Deletion
  BY <1>1, <1>2, <1>6 DEF Deletion, DeleteInvestigationRequest
<1> QED
  BY <1>4, <1>5, <1>6, StepCases

LEMMA SharesTrueStep ==
  ASSUME TypeOK, SharesTrue, [Next]_vars
  PROVE  SharesTrue'
<1>1. \A x \in Shares : /\ ~IsRevealed(x)' => IsEmpty(x)'
                        /\ IsRevealed(x)' /\ x \notin byHand' => IsSdkShare(x)'
  BY RevealTrueStep, OtherTrueStep DEF Revelation
<1>2. \A m \in sent' : m.gen # 0 => IsShareOf(m.key[2], m.index, m.gen)'
  BY SentStep
<1> QED
  BY <1>1, <1>2 DEF SharesTrue

\* Two trustees of one proof hold different points.
LEMMA PlacesDiffer ==
  ASSUME TypeOK, NEW t, NEW u, NEW i, NEW j, NEW g,
         IsShareOf(t, i, g), IsShareOf(u, j, g), i = j
  PROVE  t = u
<1>1. holders[g] \in Seq(Trustees)
  BY DEF TypeOK, IsShareOf
<1>2. holders[g][i] = t /\ holders[g][j] = u
  BY <1>1, FirstIndexType DEF IsShareOf
<1> QED
  BY <1>2

LEMMA RevealedFinite ==
  ASSUME NEW ir
  PROVE  IsFiniteSet(RevealedShares(ir)) /\ Cardinality(RevealedShares(ir)) \in Nat
<1>1. IsFiniteSet({ir} \X Trustees)
  BY InvestigationAssumption, FS_Singleton, FS_Product DEF InvestigationAssumption
<1>2. RevealedShares(ir) \subseteq {ir} \X Trustees
  BY DEF RevealedShares, Shares
<1> QED
  BY <1>1, <1>2, FS_Subset, FS_CardinalityType

\* The shares one proof's trustees revealed with the SDK are all the shares with
\* something in them, and as many points.
LEMMA PointsCounted ==
  ASSUME TypeOK, SharesTrue, NEW ir \in Investigations, NEW g,
         \A k \in RevealedShares(ir) : OfOneProof(ir, k, g)
  PROVE  /\ Filled(ir) = RevealedShares(ir)
         /\ \A k \in Filled(ir) : FitsKey(ir, k, g)
         /\ Cardinality({share[k].index : k \in Filled(ir)}) = Cardinality(RevealedShares(ir))
<1> DEFINE R == RevealedShares(ir)
           I == {share[k].index : k \in R}
           f == [k \in R |-> share[k].index]
<1>1. \A k \in R : k \in Shares /\ k[1] = ir /\ IsRevealed(k) /\ IsSdkShare(k)
  BY DEF RevealedShares, SharesTrue, OfOneProof
<1>2. \A k \in R : IsShareOf(k[2], share[k].index, g)
  BY <1>1 DEF IsSdkShare, OfOneProof
<1>3. \A k \in R : FitsKey(ir, k, g)
  <2> SUFFICES ASSUME NEW k \in R PROVE FitsKey(ir, k, g)
    OBVIOUS
  <2>1. share[k] \in ShareAccount
    BY <1>1 DEF TypeOK, IsRevealed
  <2>2. share[k].data \in ShareData
    BY <1>1, <2>1 DEF ShareAccount, IsSdkShare
  <2> QED
    BY <1>1, <2>2 DEF ShareData, FitsKey, IsSdkShare, OfOneProof
<1>4. Filled(ir) = R
  <2>1. R \subseteq Filled(ir)
    BY <1>1 DEF Filled, IsSdkShare, IsRevealed
  <2>2. Filled(ir) \subseteq R
    BY DEF Filled, RevealedShares, SharesTrue, IsEmpty
  <2> QED
    BY <2>1, <2>2
<1>5. ASSUME NEW k \in R, NEW l \in R, share[k].index = share[l].index
      PROVE  k = l
  <2>1. k[2] = l[2]
    BY <1>2, <1>5, PlacesDiffer
  <2>2. k = <<k[1], k[2]>> /\ l = <<l[1], l[2]>>
    BY <1>1 DEF Shares
  <2> QED
    BY <1>1, <2>1, <2>2
<1>6. f \in Surjection(R, I)
  BY DEF Surjection
<1>7. f \in Injection(R, I)
  BY <1>5, <1>6 DEF Injection, IsInjective, Surjection
<1>8. IsFiniteSet(R)
  BY RevealedFinite
<1> HIDE DEF f, R, I
<1>9. Cardinality(I) = Cardinality(R)
  BY <1>6, <1>7, <1>8, FS_Surjection
<1> QED
  BY <1>3, <1>4, <1>9 DEF I, R

DecryptsInv == CollectedInv /\ SharesTrue

LEMMA DecryptsStep ==
  ASSUME DecryptsInv, [Next]_vars
  PROVE  DecryptsInv'
BY CollectedStep, SharesTrueStep DEF DecryptsInv, CollectedInv

LEMMA DecryptsInit == Init => DecryptsInv
<1> SUFFICES ASSUME Init PROVE SharesTrue
  BY CollectedInit DEF DecryptsInv
<1> QED
  BY DEF Init, InvestigationInit, SharesTrue, IsRevealed, IsEmpty

\* docs/gitbook-sync/data-retention-compliance.md:25.  An investigation at its
\* threshold, where every share was revealed with the SDK from one proof and for
\* the key it has now, holds enough different points to find the secret, and
\* nothing else: no trustee's point is there twice and no share fails to open,
\* whatever came late, whatever was reopened and whatever others passed by hand.
THEOREM SharesDecrypt == Spec => []SharesOfOneProofDecrypt
<1>1. ASSUME DecryptsInv, NEW ir \in LiveInvestigations \ stripped, NEW g \in 1..Len(holders),
             ThresholdReached(ir), investigation[ir].required_share_count >= ShamirK,
             \A k \in RevealedShares(ir) : OfOneProof(ir, k, g)
      PROVE  Decrypts(ir, g)
  <2> DEFINE required == investigation[ir].required_share_count
             revealed == Cardinality(RevealedShares(ir))
             points == {share[k].index : k \in Filled(ir)}
  <2>0. TypeOK /\ SharesTrue /\ ir \in Investigations
    BY <1>1 DEF DecryptsInv, CollectedInv, LiveInvestigations
  <2>1. required = Cardinality(Collected(ir)) /\ required \in Nat
    <3>1. investigation[ir] \in InvestigationAccount
      BY <2>0 DEF TypeOK, LiveInvestigations
    <3> QED
      BY <1>1, <2>0, <3>1 DEF DecryptsInv, CollectedInv, CountKept, ThresholdReached,
         InvestigationAccount
  <2>2. Cardinality(Collected(ir)) <= revealed
    BY RevealedFinite, FS_Subset DEF Collected
  <2>3. Cardinality(points) = revealed /\ \A k \in Filled(ir) : FitsKey(ir, k, g)
    BY <1>1, <2>0, PointsCounted
  <2>4. Cardinality(points) >= required
    BY <2>1, <2>2, <2>3, RevealedFinite
  <2> QED
    BY <1>1, <2>3, <2>4 DEF Decrypts
<1>2. DecryptsInv => SharesOfOneProofDecrypt
  BY <1>1 DEF SharesOfOneProofDecrypt
<1> QED
  BY <1>2, DecryptsInit, DecryptsStep, PTL DEF Spec

-----------------------------------------------------------------------------
(* The shares of an undisturbed investigation.                               *)

\* The strengthening: what is under way for a calm investigation was read from
\* it and from its request as they still are.
CalmKept(ir) ==
  ir \in LiveInvestigations \cap calm =>
    LET g == generation[RequestOf(ir)]
    IN /\ g \notin {Closed, 0}
       /\ \A m \in sent : m.key[1] = ir =>
            m.gen \in {0, g} /\ m.sealed = investigation[ir].encryption_key
       /\ \A k \in RevealedShares(ir) : FitsKey(ir, k, g)

CalmInv == TypeOK /\ SharesTrue /\ \A ir \in Investigations : CalmKept(ir)

\* A step that takes nothing but shares away from a calm investigation and sends
\* nothing new for it.
LEMMA CalmStays ==
  ASSUME CalmInv, NEW ir \in Investigations,
         investigation'[ir] = investigation[ir],
         ir \in calm' => ir \in calm /\ generation'[RequestOf(ir)] = generation[RequestOf(ir)],
         \A m \in sent' : m \in sent \/ m.key[1] # ir,
         \A k \in Shares : k[1] = ir /\ IsRevealed(k)' => share'[k] = share[k]
  PROVE  CalmKept(ir)'
<1> SUFFICES ASSUME ir \in (LiveInvestigations \cap calm)' PROVE CalmKept(ir)'
  BY DEF CalmKept
<1>1. ir \in LiveInvestigations \cap calm /\ CalmKept(ir)
      /\ generation'[RequestOf(ir)] = generation[RequestOf(ir)]
  BY DEF LiveInvestigations, CalmInv
<1>2. ASSUME NEW k \in RevealedShares(ir)'
      PROVE  FitsKey(ir, k, generation[RequestOf(ir)])'
  <2>1. k \in Shares /\ k[1] = ir /\ share'[k] = share[k] /\ IsRevealed(k)
    BY <1>2 DEF RevealedShares, IsRevealed
  <2> QED
    BY <1>1, <2>1 DEF CalmKept, RevealedShares, FitsKey
<1> QED
  BY <1>1, <1>2 DEF CalmKept

LEMMA RequestCalmStep ==
  ASSUME CalmInv, RequestNext, NEW ir \in Investigations
  PROVE  CalmKept(ir)'
<1>1. PICK r \in Requests : OpenRequest(r) \/ Prove(r) \/ \E to \in {0, Closed} : DropProof(r, to)
  BY DEF RequestNext
<1>2. UNCHANGED <<investigation, share, sent>>
  BY <1>1 DEF OpenRequest, Prove, DropProof
<1>3. \A q \in Requests : q # r => generation'[q] = generation[q]
  BY <1>1 DEF OpenRequest, Prove, DropProof, CalmInv, TypeOK
<1>4. RequestOf(ir) \in Requests
  BY DEF Investigations, RequestOf
<1>5. CASE OpenRequest(r)
  <2>1. calm' = calm /\ generation[r] = Closed
    BY <1>5 DEF OpenRequest, noted
  <2>2. CASE ir \in LiveInvestigations \cap calm
    <3>1. RequestOf(ir) # r
      BY <2>1, <2>2 DEF CalmInv, CalmKept
    <3> QED
      BY <1>2, <1>3, <1>4, <2>1, <3>1, CalmStays
  <2>3. CASE ir \notin LiveInvestigations \cap calm
    BY <1>2, <2>1, <2>3 DEF CalmKept, LiveInvestigations
  <2> QED
    BY <2>2, <2>3
<1>6. CASE Disturbed(r)
  <2>1. ir \in calm' => ir \in calm /\ RequestOf(ir) # r
    BY <1>6 DEF Disturbed
  <2> QED
    BY <1>2, <1>3, <1>4, <2>1, CalmStays
<1> QED
  BY <1>1, <1>5, <1>6 DEF Prove, DropProof

LEMMA ReadCalmStep ==
  ASSUME CalmInv, NEW k \in Shares, ReadInvestigation(k), NEW ir \in Investigations
  PROVE  CalmKept(ir)'
<1> DEFINE m == [key |-> k, sealed |-> investigation[k[1]].encryption_key,
                 index |-> 0, gen |-> 0]
<1>1. /\ sent' = sent \cup {m} /\ m.key = k /\ m.gen = 0
      /\ m.sealed = investigation[k[1]].encryption_key
      /\ UNCHANGED <<generation, investigation, share, calm>>
  BY DEF ReadInvestigation, noted
<1> HIDE DEF m
<1>2. CASE k[1] # ir
  BY <1>1, <1>2, CalmStays
<1>3. CASE k[1] = ir
  <2>1. (LiveInvestigations \cap calm)' = LiveInvestigations \cap calm
        /\ RevealedShares(ir)' = RevealedShares(ir)
        /\ \A x : FitsKey(ir, x, generation[RequestOf(ir)])'
                    <=> FitsKey(ir, x, generation[RequestOf(ir)])
    BY <1>1 DEF LiveInvestigations, RevealedShares, IsRevealed, FitsKey
  <2> QED
    BY <1>1, <1>3, <2>1 DEF CalmInv, CalmKept
<1> QED
  BY <1>2, <1>3

LEMMA ReadProofCalmStep ==
  ASSUME CalmInv, NEW m \in sent, ReadProof(m), NEW ir \in Investigations
  PROVE  CalmKept(ir)'
<1> DEFINE g == generation[RequestOf(m.key[1])]
           new == Prepared(m, g)
<1>1. /\ UNCHANGED <<generation, investigation, share, calm>>
      /\ new.gen = g /\ new.key = m.key /\ new.sealed = m.sealed
      /\ sent' = (sent \ {m}) \cup {new}
  <2>1. TypeOK /\ UNCHANGED <<generation, investigation, share, calm>>
    BY DEF CalmInv, ReadProof, noted
  <2> QED
    BY <2>1, ReadProofEffect
<1> HIDE DEF new, g
<1>2. CASE m.key[1] # ir
  BY <1>1, <1>2, CalmStays
<1>3. CASE m.key[1] = ir
  <2>1. (LiveInvestigations \cap calm)' = LiveInvestigations \cap calm
        /\ RevealedShares(ir)' = RevealedShares(ir)
        /\ \A x : FitsKey(ir, x, generation[RequestOf(ir)])'
                    <=> FitsKey(ir, x, generation[RequestOf(ir)])
    BY <1>1 DEF LiveInvestigations, RevealedShares, IsRevealed, FitsKey
  <2>2. g = generation[RequestOf(ir)]
    BY <1>3 DEF g
  <2> QED
    BY <1>1, <1>3, <2>1, <2>2 DEF CalmInv, CalmKept
<1> QED
  BY <1>2, <1>3

LEMMA CreateCalmStep ==
  ASSUME CalmInv, NEW a \in Investigators, NEW r \in Requests, NEW ts \in TrusteeLists,
         NEW b \in BOOLEAN, NEW e \in EncryptionKeys,
         CreateInvestigationRequest(a, r, ts, b, e), NEW ir \in Investigations
  PROVE  CalmKept(ir)'
<1>0. TypeOK
  BY DEF CalmInv
<1>1. \A k \in Shares : IsRevealed(k)' => IsRevealed(k) /\ share'[k] = share[k]
  BY DEF CreateInvestigationRequest, SharesOpened, IsRevealed, EmptyShare
<1>2. UNCHANGED <<generation, sent>>
  BY DEF CreateInvestigationRequest
<1>3. CASE ir # <<r, a>>
  <2>1. investigation'[ir] = investigation[ir] /\ (ir \in calm' => ir \in calm)
    BY <1>0, <1>3 DEF CreateInvestigationRequest, TypeOK
  <2> QED
    BY <1>1, <1>2, <2>1, CalmStays
<1>4. CASE ir = <<r, a>> /\ ir \in calm'
  <2> DEFINE old == {k \in Shares : k[1] = ir /\ IsRevealed(k)}
             undisturbed == old = {} /\ \A m \in sent : m.key[1] # ir
  <2>1. undisturbed
    <3>1. calm' = IF undisturbed THEN calm \cup {ir} ELSE calm \ {ir}
      BY <1>4 DEF CreateInvestigationRequest
    <3> HIDE DEF undisturbed
    <3> QED BY <1>4, <3>1
  <2>2. RevealedShares(ir)' = {}
    BY <1>1, <2>1 DEF RevealedShares
  <2>3. generation[RequestOf(ir)] \notin {Closed, 0}
    BY <1>4 DEF CreateInvestigationRequest, RequestOf
  <2> QED
    BY <1>2, <2>1, <2>2, <2>3 DEF CalmKept
<1> QED
  BY <1>3, <1>4 DEF CalmKept

LEMMA RevealCalmStep ==
  ASSUME CalmInv, NEW a \in Signers, NEW k, NEW c, Reveals(a, k, c), NEW ir \in Investigations
  PROVE  CalmKept(ir)'
<1>0. TypeOK /\ SharesTrue
  BY DEF CalmInv
<1>1. /\ k \in Shares /\ k[1] \in LiveInvestigations
      /\ \A x \in Shares : x # k => share'[x] = share[x]
      /\ ir # k[1] => investigation'[ir] = investigation[ir]
      /\ investigation'[k[1]] = Counted(investigation[k[1]])
  BY <1>0, RevealEffect
<1>2. generation' = generation /\ sent' \subseteq sent /\ (ir \in calm' => ir \in calm)
  BY DEF Reveals, RevealSecretShare, BySdk, ByHand
<1>3. CASE ir # k[1]
  BY <1>1, <1>2, <1>3, CalmStays
<1>4. CASE ir = k[1] /\ ir \in calm'
  <2> DEFINE g == generation[RequestOf(ir)]
             key == investigation[ir].encryption_key
  <2>1. ir \in LiveInvestigations \cap calm /\ CalmKept(ir)
    BY <1>1, <1>2, <1>4 DEF CalmInv
  <2>2. investigation'[ir].encryption_key = key
    <3>1. investigation[ir] \in InvestigationAccount
      BY <1>0, <1>1, <1>4 DEF TypeOK, LiveInvestigations
    <3> QED
      BY <1>1, <1>4, <3>1 DEF Counted, InvestigationAccount
  <2>3. BySdk(k, c)
    BY <1>4 DEF Reveals, ByHand
  <2>4. PICK m \in sent : /\ m.gen # 0 /\ m.key = k /\ share'[k].index = m.index
                          /\ share'[k].data = [gen |-> m.gen, at |-> m.index, sealed |-> m.sealed]
    BY <1>0, <2>3, SentShare
  <2>5. m.gen = g /\ m.sealed = key
    BY <1>4, <2>1, <2>4 DEF CalmKept
  <2>6. \A x \in RevealedShares(ir)' : FitsKey(ir, x, g)'
    <3> SUFFICES ASSUME NEW x \in RevealedShares(ir)' PROVE FitsKey(ir, x, g)'
      OBVIOUS
    <3>1. CASE x = k
      BY <1>2, <2>2, <2>4, <2>5, <3>1 DEF FitsKey
    <3>2. CASE x # k
      <4>1. x \in Shares /\ share'[x] = share[x] /\ x \in RevealedShares(ir)
        BY <1>1, <3>2 DEF RevealedShares, IsRevealed
      <4> QED
        BY <1>2, <2>1, <2>2, <4>1 DEF CalmKept, FitsKey
    <3> QED
      BY <3>1, <3>2
  <2> QED
    BY <1>2, <2>1, <2>2, <2>6 DEF CalmKept
<1> QED
  BY <1>3, <1>4 DEF CalmKept

LEMMA DeleteCalmStep ==
  ASSUME CalmInv, NEW a \in Investigators, NEW gone \in Investigations,
         NEW accounts \in SUBSET Shares, DeleteInvestigationRequest(a, gone, accounts),
         NEW ir \in Investigations
  PROVE  CalmKept(ir)'
<1>1. CASE ir = gone
  BY <1>1 DEF DeleteInvestigationRequest, CalmKept
<1>2. CASE ir # gone
  <2>1. investigation'[ir] = investigation[ir] /\ (ir \in calm' => ir \in calm)
    BY <1>2 DEF DeleteInvestigationRequest, CalmInv, TypeOK
  <2>2. \A k \in Shares : IsRevealed(k)' => share'[k] = share[k]
    BY DEF DeleteInvestigationRequest, IsRevealed
  <2>3. generation' = generation /\ \A m \in sent' : m \in sent
    BY DEF DeleteInvestigationRequest
  <2> QED
    BY <2>1, <2>2, <2>3, CalmStays
<1> QED
  BY <1>1, <1>2

LEMMA CalmStep ==
  ASSUME CalmInv, [Next]_vars
  PROVE  CalmInv'
<1>1. TypeOK' /\ SharesTrue'
  BY TypeStep, SharesTrueStep DEF CalmInv
<1> SUFFICES ASSUME NEW ir \in Investigations PROVE CalmKept(ir)'
  BY <1>1 DEF CalmInv
<1>2. CASE UNCHANGED <<generation, investigation, share, calm>> /\ sent' \subseteq sent
  BY <1>2, CalmStays
<1>3. CASE Aside
  <2>1. CASE \E m \in sent : ExpireReveal(m)
    BY <1>2, <2>1 DEF ExpireReveal, noted
  <2>2. CASE (RegistryNext /\ UNCHANGED investigationVars) \/ UNCHANGED vars
    BY <1>2, <2>2 DEF vars, investigationVars, noted
  <2> QED
    BY <1>3, <2>1, <2>2, RequestCalmStep, ReadCalmStep, ReadProofCalmStep DEF Aside
<1> QED
  BY <1>3, StepCases, CreateCalmStep, RevealCalmStep, DeleteCalmStep
  DEF CalmInv, Creation, Revelation, Deletion

LEMMA CalmInit == Init => CalmInv
<1> SUFFICES ASSUME Init PROVE CalmInv
  OBVIOUS
<1>1. TypeOK /\ SharesTrue
  BY TypeInit, DecryptsInit DEF DecryptsInv
<1> QED
  BY <1>1 DEF Init, InvestigationInit, CalmInv, CalmKept

\* investigationManager.ts:361-432.  The two reads of revealShareIx and the
\* transaction after them give shares that the key and the proof of the
\* investigation fit, however they interleave with other investigations, as long
\* as it was opened anew, nothing was passed by hand and its proof has stayed.
THEOREM CalmSharesStayFit == Spec => []CalmSharesFit
<1>1. CalmInv => CalmSharesFit
  BY DEF CalmInv, CalmKept, CalmSharesFit, LiveInvestigations
<1> QED
  BY <1>1, CalmInit, CalmStep, PTL DEF Spec
=============================================================================
