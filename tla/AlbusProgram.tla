---------------------------- MODULE AlbusProgram -----------------------------
(***************************************************************************)
(* What the albus program reads and writes: the accounts and arguments of   *)
(* its handlers and the layouts of its state, one definition per Rust type. *)
(* Names are those of the IDL, in camel case.                               *)
(***************************************************************************)
EXTENDS Borsh

\* state.rs
ProofData == Struct(<<<<"a", Bytes(64)>>, <<"b", Bytes(128)>>, <<"c", Bytes(64)>>>>)
VerificationKey == Struct(
    <<<<"alpha", Bytes(64)>>, <<"beta", Bytes(128)>>, <<"gamma", Bytes(128)>>,
      <<"delta", Bytes(128)>>, <<"ic", Vec(Bytes(64))>>>>)
PolicyRule == Struct(<<<<"key", Text>>, <<"value", Bytes(32)>>, <<"label", Text>>>>)
ContactInfo == Struct(<<<<"kind", U8>>, <<"value", Text>>>>)
InvestigationStatus == Enum(<<"Pending", "InProgress", "UnderReview", "Resolved">>)
RevelationStatus == Enum(<<"Pending", "RevealedByUser", "RevealedByTrustee">>)
ProofRequestStatus == Enum(<<"Pending", "Proved", "Verified", "Rejected">>)
CredentialRequestStatus == Enum(<<"Pending", "InProgress", "Approved", "Rejected">>)
Circuit == Struct(
    <<<<"code", Text>>, <<"name", Text>>, <<"description", Text>>, <<"wasmUri", Text>>,
      <<"zkeyUri", Text>>, <<"createdAt", U64>>, <<"bump", U8>>, <<"vk", VerificationKey>>,
      <<"outputs", Vec(Text)>>, <<"publicSignals", Vec(Text)>>,
      <<"privateSignals", Vec(Text)>>>>)
CredentialRequest == Struct(
    <<<<"authority", Key>>, <<"credentialOwner", Key>>, <<"credentialSpec", Key>>,
      <<"credentialMint", Key>>, <<"issuer", Key>>, <<"status", CredentialRequestStatus>>,
      <<"createdAt", U64>>, <<"bump", U8>>, <<"uri", Text>>, <<"message", Text>>>>)
CredentialSpec == Struct(
    <<<<"issuer", Key>>, <<"code", Text>>, <<"name", Text>>, <<"credentialRequestCount", U64>>,
      <<"createdAt", U64>>, <<"bump", U8>>, <<"uri", Text>>>>)
InvestigationRequest == Struct(
    <<<<"authority", Key>>, <<"encryptionKey", Key>>, <<"proofRequest", Key>>,
      <<"proofRequestOwner", Key>>, <<"serviceProvider", Key>>, <<"requiredShareCount", U8>>,
      <<"revealedShareCount", U8>>, <<"status", InvestigationStatus>>, <<"createdAt", U64>>,
      <<"bump", U8>>, <<"trustees", Vec(Key)>>>>)
InvestigationRequestShare == Struct(
    <<<<"investigationRequest", Key>>, <<"proofRequestOwner", Key>>, <<"trustee", Key>>,
      <<"index", U8>>, <<"createdAt", U64>>, <<"revealedAt", U64>>,
      <<"status", RevelationStatus>>, <<"bump", U8>>, <<"share", Vec(U8)>>>>)
Issuer == Struct(
    <<<<"pubkey", Key>>, <<"zkPubkey", Bytes(64)>>, <<"authority", Key>>,
      <<"isDisabled", Bool>>, <<"createdAt", U64>>, <<"bump", U8>>, <<"code", Text>>,
      <<"name", Text>>, <<"description", Text>>>>)
Policy == Struct(
    <<<<"serviceProvider", Key>>, <<"circuit", Key>>, <<"code", Text>>, <<"name", Text>>,
      <<"description", Text>>, <<"expirationPeriod", U32>>, <<"retentionPeriod", U32>>,
      <<"proofRequestCount", U64>>, <<"createdAt", U64>>, <<"bump", U8>>,
      <<"rules", Vec(PolicyRule)>>>>)
ProofRequest == Struct(
    <<<<"serviceProvider", Key>>, <<"policy", Key>>, <<"circuit", Key>>, <<"issuer", Key>>,
      <<"owner", Key>>, <<"identifier", U64>>, <<"createdAt", U64>>, <<"expiredAt", U64>>,
      <<"verifiedAt", U64>>, <<"provedAt", U64>>, <<"retentionEndDate", U64>>,
      <<"status", ProofRequestStatus>>, <<"bump", U8>>, <<"proof", Option(ProofData)>>,
      <<"publicInputs", Vec(Bytes(32))>>>>)
ServiceProvider == Struct(
    <<<<"authority", Key>>, <<"code", Text>>, <<"name", Text>>, <<"website", Text>>,
      <<"contactInfo", ContactInfo>>, <<"proofRequestCount", U64>>, <<"policyCount", U64>>,
      <<"createdAt", U64>>, <<"bump", U8>>, <<"secretShareThreshold", U8>>,
      <<"trustees", Vec(Key)>>>>)
Trustee == Struct(
    <<<<"key", Bytes(32)>>, <<"authority", Key>>, <<"name", Text>>, <<"email", Text>>,
      <<"website", Text>>, <<"isVerified", Bool>>, <<"revealedShareCount", U32>>,
      <<"createdAt", U64>>, <<"bump", U8>>>>)
accounts == [
    Circuit |-> Circuit, CredentialRequest |-> CredentialRequest,
      CredentialSpec |-> CredentialSpec, InvestigationRequest |-> InvestigationRequest,
      InvestigationRequestShare |-> InvestigationRequestShare, Issuer |-> Issuer,
      Policy |-> Policy, ProofRequest |-> ProofRequest, ServiceProvider |-> ServiceProvider,
      Trustee |-> Trustee]

\* The arguments of the handlers.
CreateIssuerData == Struct(
    <<<<"code", Text>>, <<"name", Text>>, <<"description", Text>>, <<"authority", Key>>,
      <<"pubkey", Key>>, <<"zkPubkey", Bytes(64)>>>>)
UpdateCredentialData == Struct(<<<<"uri", Text>>, <<"name", Option(Text)>>>>)
RequestCredentialData == Struct(<<<<"uri", Text>>>>)
UpdateCredentialRequestData == Struct(
    <<<<"status", CredentialRequestStatus>>, <<"message", Text>>>>)
CreateCredentialSpecData == Struct(<<<<"code", Text>>, <<"name", Text>>, <<"uri", Text>>>>)
CreateCircuitData == Struct(
    <<<<"code", Text>>, <<"name", Text>>, <<"description", Text>>, <<"wasmUri", Text>>,
      <<"zkeyUri", Text>>, <<"outputs", Vec(Text)>>, <<"publicSignals", Vec(Text)>>,
      <<"privateSignals", Vec(Text)>>>>)
UpdateCircuitVkData == Struct(
    <<<<"alpha", Option(Bytes(64))>>, <<"beta", Option(Bytes(128))>>,
      <<"gamma", Option(Bytes(128))>>, <<"delta", Option(Bytes(128))>>,
      <<"ic", Option(Vec(Bytes(64)))>>, <<"extendIc", Bool>>>>)
CreateServiceProviderData == Struct(
    <<<<"code", Text>>, <<"name", Text>>, <<"website", Text>>,
      <<"contactInfo", Option(ContactInfo)>>, <<"authority", Option(Key)>>,
      <<"secretShareThreshold", Option(U8)>>, <<"trustees", Option(Vec(Key))>>>>)
UpdateServiceProviderData == Struct(
    <<<<"newAuthority", Option(Key)>>, <<"name", Option(Text)>>, <<"website", Option(Text)>>,
      <<"contactInfo", Option(ContactInfo)>>, <<"secretShareThreshold", Option(U8)>>,
      <<"clearTrustees", Bool>>>>)
CreatePolicyData == Struct(
    <<<<"code", Text>>, <<"name", Text>>, <<"description", Text>>, <<"expirationPeriod", U32>>,
      <<"retentionPeriod", U32>>, <<"rules", Vec(PolicyRule)>>>>)
UpdatePolicyData == Struct(
    <<<<"name", Option(Text)>>, <<"description", Option(Text)>>,
      <<"expirationPeriod", Option(U32)>>, <<"retentionPeriod", Option(U32)>>,
      <<"rules", Option(Vec(PolicyRule))>>>>)
CreateTrusteeData == Struct(
    <<<<"key", Bytes(32)>>, <<"name", Text>>, <<"email", Text>>, <<"website", Text>>,
      <<"authority", Option(Key)>>>>)
UpdateTrusteeData == Struct(
    <<<<"newAuthority", Option(Key)>>, <<"name", Option(Text)>>, <<"email", Option(Text)>>,
      <<"website", Option(Text)>>>>)
CreateProofRequestData == Struct(<<<<"expiresIn", U32>>, <<"maxPublicInputs", U8>>>>)
ProveProofRequestData == Struct(
    <<<<"proof", Option(ProofData)>>, <<"publicInputs", Vec(Bytes(32))>>, <<"reset", Bool>>>>)
UpdateProofRequestData == Struct(<<<<"status", ProofRequestStatus>>>>)
CreateInvestigationRequestData == Struct(<<<<"encryptionKey", Key>>, <<"trustees", Vec(Key)>>>>)
RevealSecretShareData == Struct(<<<<"index", U8>>, <<"share", Vec(U8)>>>>)

\* The accounts of the handlers, in order.
AdminCloseAccount == <<W("account"), WS("authority"), P("systemProgram")>>
AdminWithdraw == <<W("albusAuthority"), WS("authority"), P("systemProgram")>>
CreateCircuit == <<W("circuit"), WS("authority"), P("systemProgram")>>
DeleteCircuit == <<W("circuit"), WS("authority"), P("systemProgram")>>
UpdateCircuitVk == <<W("circuit"), WS("authority"), P("systemProgram")>>
CreateCredential ==
    <<W("albusAuthority"), W("tokenAccount"), OptW("tokenRecord"), WS("mint"),
      W("metadataAccount"), W("editionAccount"), WS("payer"), S("authority"), P("tokenProgram"),
      P("ataProgram"), P("metadataProgram"), R("sysvarInstructions"), P("systemProgram")>>
CreateCredentialSpec ==
    <<W("credentialSpec"), R("issuer"), WS("authority"), P("systemProgram")>>
DeleteCredential ==
    <<W("albusAuthority"), W("tokenAccount"), W("mint"), W("metadataAccount"),
      W("editionAccount"), WS("authority"), P("metadataProgram"), P("tokenProgram"),
      R("sysvarInstructions"), P("systemProgram")>>
DeleteCredentialRequest == <<W("credentialRequest"), WS("authority"), P("systemProgram")>>
DeleteCredentialSpec ==
    <<W("credentialSpec"), WS("authority"), R("issuer"), P("systemProgram")>>
RequestCredential ==
    <<W("credentialRequest"), W("credentialSpec"), R("credentialMint"), W("credentialMetadata"),
      R("credentialToken"), S("credentialOwner"), R("issuer"), WS("authority"),
      W("albusAuthority"), R("sysvarInstructions"), P("metadataProgram"), P("systemProgram")>>
UpdateCredential ==
    <<W("albusAuthority"), Opt("credentialRequest"), Opt("credentialRequestIssuer"), R("mint"),
      W("metadataAccount"), WS("authority"), R("sysvarInstructions"), P("metadataProgram"),
      P("systemProgram")>>
UpdateCredentialRequest ==
    <<W("credentialRequest"), R("issuer"), WS("authority"), P("systemProgram")>>
CreateInvestigationRequest ==
    <<W("investigationRequest"), W("proofRequest"), R("serviceProvider"), WS("authority"),
      P("systemProgram")>>
DeleteInvestigationRequest == <<W("investigationRequest"), WS("authority"), P("systemProgram")>>
RevealSecretShare ==
    <<W("investigationRequestShare"), W("investigationRequest"), W("trustee"), WS("authority"),
      P("systemProgram")>>
CreateIssuer == <<W("issuer"), WS("authority"), P("systemProgram")>>
DeleteIssuer == <<W("issuer"), WS("authority"), P("systemProgram")>>
CreatePolicy ==
    <<W("serviceProvider"), R("circuit"), W("policy"), WS("authority"), P("systemProgram")>>
DeletePolicy == <<W("serviceProvider"), W("policy"), WS("authority"), P("systemProgram")>>
UpdatePolicy == <<W("policy"), R("serviceProvider"), WS("authority"), P("systemProgram")>>
CreateProofRequest ==
    <<W("serviceProvider"), W("policy"), W("proofRequest"), WS("authority"),
      P("systemProgram")>>
DeleteProofRequest == <<W("proofRequest"), WS("authority"), P("systemProgram")>>
ProveProofRequest ==
    <<W("proofRequest"), R("circuit"), R("policy"), Opt("issuer"), WS("authority"),
      P("systemProgram")>>
UpdateProofRequest == <<W("proofRequest"), WS("authority"), P("systemProgram")>>
VerifyProofRequest == <<W("proofRequest"), R("circuit"), WS("authority"), P("systemProgram")>>
CreateServiceProvider == <<W("serviceProvider"), WS("authority"), P("systemProgram")>>
DeleteServiceProvider == <<W("serviceProvider"), WS("authority"), P("systemProgram")>>
UpdateServiceProvider == <<W("serviceProvider"), WS("authority"), P("systemProgram")>>
CreateTrustee == <<W("trustee"), WS("authority"), P("systemProgram")>>
DeleteTrustee == <<W("trustee"), WS("authority"), P("systemProgram")>>
UpdateTrustee == <<W("trustee"), WS("authority"), P("systemProgram")>>
VerifyTrustee == <<W("trustee"), WS("authority"), P("systemProgram")>>

\* lib.rs: the handlers by name, errors.rs.
instructions == [
    createIssuer |-> Handler(CreateIssuer, <<<<"data", CreateIssuerData>>>>),
      deleteIssuer |-> Handler(DeleteIssuer, <<>>),
      createCredential |-> Handler(CreateCredential, <<>>),
      updateCredential |-> Handler(UpdateCredential, <<<<"data", UpdateCredentialData>>>>),
      deleteCredential |-> Handler(DeleteCredential, <<>>),
      requestCredential |-> Handler(RequestCredential, <<<<"data", RequestCredentialData>>>>),
      updateCredentialRequest |-> Handler(UpdateCredentialRequest,
        <<<<"data", UpdateCredentialRequestData>>>>),
      deleteCredentialRequest |-> Handler(DeleteCredentialRequest, <<>>),
      createCredentialSpec |-> Handler(CreateCredentialSpec,
        <<<<"data", CreateCredentialSpecData>>>>),
      deleteCredentialSpec |-> Handler(DeleteCredentialSpec, <<>>),
      createCircuit |-> Handler(CreateCircuit, <<<<"data", CreateCircuitData>>>>),
      updateCircuitVk |-> Handler(UpdateCircuitVk, <<<<"data", UpdateCircuitVkData>>>>),
      deleteCircuit |-> Handler(DeleteCircuit, <<>>),
      createServiceProvider |-> Handler(CreateServiceProvider,
        <<<<"data", CreateServiceProviderData>>>>),
      updateServiceProvider |-> Handler(UpdateServiceProvider,
        <<<<"data", UpdateServiceProviderData>>>>),
      deleteServiceProvider |-> Handler(DeleteServiceProvider, <<>>),
      createPolicy |-> Handler(CreatePolicy, <<<<"data", CreatePolicyData>>>>),
      updatePolicy |-> Handler(UpdatePolicy, <<<<"data", UpdatePolicyData>>>>),
      deletePolicy |-> Handler(DeletePolicy, <<>>),
      createTrustee |-> Handler(CreateTrustee, <<<<"data", CreateTrusteeData>>>>),
      updateTrustee |-> Handler(UpdateTrustee, <<<<"data", UpdateTrusteeData>>>>),
      verifyTrustee |-> Handler(VerifyTrustee, <<>>),
      deleteTrustee |-> Handler(DeleteTrustee, <<>>),
      createProofRequest |-> Handler(CreateProofRequest, <<<<"data", CreateProofRequestData>>>>),
      deleteProofRequest |-> Handler(DeleteProofRequest, <<>>),
      proveProofRequest |-> Handler(ProveProofRequest, <<<<"data", ProveProofRequestData>>>>),
      verifyProofRequest |-> Handler(VerifyProofRequest, <<>>),
      updateProofRequest |-> Handler(UpdateProofRequest, <<<<"data", UpdateProofRequestData>>>>),
      createInvestigationRequest |-> Handler(CreateInvestigationRequest,
        <<<<"data", CreateInvestigationRequestData>>>>),
      deleteInvestigationRequest |-> Handler(DeleteInvestigationRequest, <<>>),
      revealSecretShare |-> Handler(RevealSecretShare, <<<<"data", RevealSecretShareData>>>>),
      adminCloseAccount |-> Handler(AdminCloseAccount, <<>>),
      adminWithdraw |-> Handler(AdminWithdraw, <<>>)]
errors == ErrorCodes(
    <<"Unauthorized", "Unverified", "Unproved", "Expired", "InvalidData", "InvalidOwner",
      "InvalidMetadata", "ProofVerificationFailed", "InvalidPublicInputs">>)
=============================================================================
