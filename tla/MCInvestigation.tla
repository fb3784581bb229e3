--------------------------- MODULE MCInvestigation ---------------------------
(* Small instances of Investigation that start from one service with its     *)
(* trustees registered and verified.                                         *)
EXTENDS Investigation

CONSTANTS adm, sp, ta, t1, t2, t3, e1, e2

\* By hand a trustee passes on the first trustee's point, or nothing.
MCHandMade ==
  {[index |-> 1, data |-> [gen |-> 1, at |-> 1, sealed |-> e1]],
   [index |-> 2, data |-> None]}

TwoOfThree == {<<t1, t2>>, <<t3, t1>>}
EitherOrder == {<<t1>>, <<t1, t2>>, <<t2, t1>>}

Deployed ==
  /\ service = [s \in Services |-> [authority |-> sp, secret_share_threshold |-> 2,
                  trustees |-> <<t1, t2>>, policy_count |-> 0, proof_request_count |-> 0]]
  /\ policy = [p \in Policies |-> Closed]
  /\ circuit = [c \in Circuits |-> Closed]
  /\ issuer = [i \in Issuers |-> Closed]
  /\ trustee = [t \in Trustees |-> [authority |-> ta, is_verified |-> TRUE,
                  revealed_share_count |-> 0]]
  /\ adminClosed = {}
  /\ InvestigationInit

\* The service changes its trustees and its threshold, and a trustee leaves.
ServiceChange ==
  \E s \in Services, n \in Thresholds, ts \in {l \in TrusteeLists : Len(l) = ShamirN} :
    UpdateServiceProvider(sp, s, None, n, FALSE, ts)
RegistryChange ==
  /\ ServiceChange \/ DeleteTrustee(adm, t2)
  /\ UNCHANGED investigationVars

DeployedSpec == Deployed /\ [][RequestNext \/ InvestigationNext \/ RegistryChange]_vars

\* The instructions of the SDK: trustees and share accounts of the current
\* proof, shares of the own investigation, trustees that stay registered.
SdkNext ==
  \/ RequestNext
  \/ \E a \in Investigators, r \in Requests : generation[r] \notin {0, Closed} /\
       \E key \in EncryptionKeys :
         CreateInvestigationRequest(a, r, holders[generation[r]], TRUE, key)
  \/ \E k \in Shares : ReadInvestigation(k)
  \/ \E m \in sent : ReadProof(m) \/ \E a \in Signers : RevealSent(a, m)
  \/ \E ir \in Investigations : investigation[ir] # Closed /\
       DeleteInvestigationRequest(ir[2], ir, OwnShares(ir))
  \/ ServiceChange /\ UNCHANGED investigationVars

AnsweringSpec ==
  /\ Deployed
  /\ [][SdkNext \/ \E m \in sent : ExpireReveal(m)]_vars
  /\ TrusteesAnswer
=============================================================================
