----------------------------- MODULE AlbusClient -----------------------------
(***************************************************************************)
(* What the TypeScript client of the albus program puts on the wire and     *)
(* expects there: packages/albus-sdk/src/generated, one definition per      *)
(* file.                                                                    *)
(***************************************************************************)
EXTENDS Borsh

\* generated/types: what travels in accounts and arguments.
contactInfoBeet == Struct(<<<<"kind", U8>>, <<"value", Text>>>>)
createCircuitDataBeet == Struct(
    <<<<"code", Text>>, <<"name", Text>>, <<"description", Text>>, <<"wasmUri", Text>>,
      <<"zkeyUri", Text>>, <<"outputs", Vec(Text)>>, <<"publicSignals", Vec(Text)>>,
      <<"privateSignals", Vec(Text)>>>>)
createCredentialSpecDataBeet == Struct(<<<<"code", Text>>, <<"name", Text>>, <<"uri", Text>>>>)
createInvestigationRequestDataBeet == Struct(
    <<<<"encryptionKey", Key>>, <<"trustees", Vec(Key)>>>>)
createIssuerDataBeet == Struct(
    <<<<"code", Text>>, <<"name", Text>>, <<"description", Text>>, <<"authority", Key>>,
      <<"pubkey", Key>>, <<"zkPubkey", Bytes(64)>>>>)
createProofRequestDataBeet == Struct(<<<<"expiresIn", U32>>, <<"maxPublicInputs", U8>>>>)
createServiceProviderDataBeet == Struct(
    <<<<"code", Text>>, <<"name", Text>>, <<"website", Text>>,
      <<"contactInfo", Option(contactInfoBeet)>>, <<"authority", Option(Key)>>,
      <<"secretShareThreshold", Option(U8)>>, <<"trustees", Option(Vec(Key))>>>>)
createTrusteeDataBeet == Struct(
    <<<<"key", Bytes(32)>>, <<"name", Text>>, <<"email", Text>>, <<"website", Text>>,
      <<"authority", Option(Key)>>>>)
credentialRequestStatusBeet == Enum(<<"Pending", "InProgress", "Approved", "Rejected">>)
investigationStatusBeet == Enum(<<"Pending", "InProgress", "UnderReview", "Resolved">>)
policyRuleBeet == Struct(<<<<"key", Text>>, <<"value", Bytes(32)>>, <<"label", Text>>>>)
proofDataBeet == Struct(<<<<"a", Bytes(64)>>, <<"b", Bytes(128)>>, <<"c", Bytes(64)>>>>)
proofRequestStatusBeet == Enum(<<"Pending", "Proved", "Verified", "Rejected">>)
proveProofRequestDataBeet == Struct(
    <<<<"proof", Option(proofDataBeet)>>, <<"publicInputs", Vec(Bytes(32))>>,
      <<"reset", Bool>>>>)
requestCredentialDataBeet == Struct(<<<<"uri", Text>>>>)
revealSecretShareDataBeet == Struct(<<<<"index", U8>>, <<"share", Vec(U8)>>>>)
revelationStatusBeet == Enum(<<"Pending", "RevealedByUser", "RevealedByTrustee">>)
updateCircuitVkDataBeet == Struct(
    <<<<"alpha", Option(Bytes(64))>>, <<"beta", Option(Bytes(128))>>,
      <<"gamma", Option(Bytes(128))>>, <<"delta", Option(Bytes(128))>>,
      <<"ic", Option(Vec(Bytes(64)))>>, <<"extendIc", Bool>>>>)
updateCredentialDataBeet == Struct(<<<<"uri", Text>>, <<"name", Option(Text)>>>>)
updateCredentialRequestDataBeet == Struct(
    <<<<"status", credentialRequestStatusBeet>>, <<"message", Text>>>>)
updatePolicyDataBeet == Struct(
    <<<<"name", Option(Text)>>, <<"description", Option(Text)>>,
      <<"expirationPeriod", Option(U32)>>, <<"retentionPeriod", Option(U32)>>,
      <<"rules", Option(Vec(policyRuleBeet))>>>>)
updateProofRequestDataBeet == Struct(<<<<"status", proofRequestStatusBeet>>>>)
updateServiceProviderDataBeet == Struct(
    <<<<"newAuthority", Option(Key)>>, <<"name", Option(Text)>>, <<"website", Option(Text)>>,
      <<"contactInfo", Option(contactInfoBeet)>>, <<"secretShareThreshold", Option(U8)>>,
      <<"clearTrustees", Bool>>>>)
updateTrusteeDataBeet == Struct(
    <<<<"newAuthority", Option(Key)>>, <<"name", Option(Text)>>, <<"email", Option(Text)>>,
      <<"website", Option(Text)>>>>)
verificationKeyBeet == Struct(
    <<<<"alpha", Bytes(64)>>, <<"beta", Bytes(128)>>, <<"gamma", Bytes(128)>>,
      <<"delta", Bytes(128)>>, <<"ic", Vec(Bytes(64))>>>>)
createPolicyDataBeet == Struct(
    <<<<"code", Text>>, <<"name", Text>>, <<"description", Text>>, <<"expirationPeriod", U32>>,
      <<"retentionPeriod", U32>>, <<"rules", Vec(policyRuleBeet)>>>>)

\* generated/accounts: the layouts accounts are read with.
circuitBeet == Struct(
    <<<<"code", Text>>, <<"name", Text>>, <<"description", Text>>, <<"wasmUri", Text>>,
      <<"zkeyUri", Text>>, <<"createdAt", U64>>, <<"bump", U8>>, <<"vk", verificationKeyBeet>>,
      <<"outputs", Vec(Text)>>, <<"publicSignals", Vec(Text)>>,
      <<"privateSignals", Vec(Text)>>>>)
credentialRequestBeet == Struct(
    <<<<"authority", Key>>, <<"credentialOwner", Key>>, <<"credentialSpec", Key>>,
      <<"credentialMint", Key>>, <<"issuer", Key>>, <<"status", credentialRequestStatusBeet>>,
      <<"createdAt", U64>>, <<"bump", U8>>, <<"uri", Text>>, <<"message", Text>>>>)
credentialSpecBeet == Struct(
    <<<<"issuer", Key>>, <<"code", Text>>, <<"name", Text>>, <<"credentialRequestCount", U64>>,
      <<"createdAt", U64>>, <<"bump", U8>>, <<"uri", Text>>>>)
investigationRequestBeet == Struct(
    <<<<"authority", Key>>, <<"encryptionKey", Key>>, <<"proofRequest", Key>>,
      <<"proofRequestOwner", Key>>, <<"serviceProvider", Key>>, <<"requiredShareCount", U8>>,
      <<"revealedShareCount", U8>>, <<"status", investigationStatusBeet>>, <<"createdAt", U64>>,
      <<"bump", U8>>, <<"trustees", Vec(Key)>>>>)
investigationRequestShareBeet == Struct(
    <<<<"investigationRequest", Key>>, <<"proofRequestOwner", Key>>, <<"trustee", Key>>,
      <<"index", U8>>, <<"createdAt", U64>>, <<"revealedAt", U64>>,
      <<"status", revelationStatusBeet>>, <<"bump", U8>>, <<"share", Vec(U8)>>>>)
issuerBeet == Struct(
    <<<<"pubkey", Key>>, <<"zkPubkey", Bytes(64)>>, <<"authority", Key>>,
      <<"isDisabled", Bool>>, <<"createdAt", U64>>, <<"bump", U8>>, <<"code", Text>>,
      <<"name", Text>>, <<"description", Text>>>>)
policyBeet == Struct(
    <<<<"serviceProvider", Key>>, <<"circuit", Key>>, <<"code", Text>>, <<"name", Text>>,
      <<"description", Text>>, <<"expirationPeriod", U32>>, <<"retentionPeriod", U32>>,
      <<"proofRequestCount", U64>>, <<"createdAt", U64>>, <<"bump", U8>>,
      <<"rules", Vec(policyRuleBeet)>>>>)
\* A client that was generated before the program got retention_end_date.
BeforeRetention == Struct(
    <<<<"serviceProvider", Key>>, <<"policy", Key>>, <<"circuit", Key>>, <<"issuer", Key>>,
      <<"owner", Key>>, <<"identifier", U64>>, <<"createdAt", U64>>, <<"expiredAt", U64>>,
      <<"verifiedAt", U64>>, <<"provedAt", U64>>, <<"status", proofRequestStatusBeet>>,
      <<"bump", U8>>, <<"proof", Option(proofDataBeet)>>, <<"publicInputs", Vec(Bytes(32))>>>>)
proofRequestBeet == Struct(
    <<<<"serviceProvider", Key>>, <<"policy", Key>>, <<"circuit", Key>>, <<"issuer", Key>>,
      <<"owner", Key>>, <<"identifier", U64>>, <<"createdAt", U64>>, <<"expiredAt", U64>>,
      <<"verifiedAt", U64>>, <<"provedAt", U64>>, <<"retentionEndDate", U64>>,
      <<"status", proofRequestStatusBeet>>, <<"bump", U8>>, <<"proof", Option(proofDataBeet)>>,
      <<"publicInputs", Vec(Bytes(32))>>>>)
serviceProviderBeet == Struct(
    <<<<"authority", Key>>, <<"code", Text>>, <<"name", Text>>, <<"website", Text>>,
      <<"contactInfo", contactInfoBeet>>, <<"proofRequestCount", U64>>, <<"policyCount", U64>>,
      <<"createdAt", U64>>, <<"bump", U8>>, <<"secretShareThreshold", U8>>,
      <<"trustees", Vec(Key)>>>>)
trusteeBeet == Struct(
    <<<<"key", Bytes(32)>>, <<"authority", Key>>, <<"name", Text>>, <<"email", Text>>,
      <<"website", Text>>, <<"isVerified", Bool>>, <<"revealedShareCount", U32>>,
      <<"createdAt", U64>>, <<"bump", U8>>>>)
accounts == [
    Circuit |-> circuitBeet, CredentialRequest |-> credentialRequestBeet,
      CredentialSpec |-> credentialSpecBeet, InvestigationRequest |-> investigationRequestBeet,
      InvestigationRequestShare |-> investigationRequestShareBeet, Issuer |-> issuerBeet,
      Policy |-> policyBeet, ProofRequest |-> proofRequestBeet,
      ServiceProvider |-> serviceProviderBeet, Trustee |-> trusteeBeet]

\* generated/instructions: the accounts in the order they are listed, and the arguments.
adminCloseAccount == Call(<<W("account"), WS("authority"), P("systemProgram")>>, <<>>)
adminWithdraw == Call(<<W("albusAuthority"), WS("authority"), P("systemProgram")>>, <<>>)
createCircuit == Call(<<W("circuit"), WS("authority"), P("systemProgram")>>,
    <<<<"data", createCircuitDataBeet>>>>)
createCredential == Call(
    <<W("albusAuthority"), W("tokenAccount"), OptW("tokenRecord"), WS("mint"),
      W("metadataAccount"), W("editionAccount"), WS("payer"), S("authority"), P("tokenProgram"),
      P("ataProgram"), R("metadataProgram"), R("sysvarInstructions"), P("systemProgram")>>,
    <<>>)
createCredentialSpec == Call(
    <<W("credentialSpec"), R("issuer"), WS("authority"), P("systemProgram")>>,
    <<<<"data", createCredentialSpecDataBeet>>>>)
createInvestigationRequest == Call(
    <<W("investigationRequest"), W("proofRequest"), R("serviceProvider"), WS("authority"),
      P("systemProgram")>>, <<<<"data", createInvestigationRequestDataBeet>>>>)
createIssuer == Call(<<W("issuer"), WS("authority"), P("systemProgram")>>,
    <<<<"data", createIssuerDataBeet>>>>)
createPolicy == Call(
    <<W("serviceProvider"), R("circuit"), W("policy"), WS("authority"), P("systemProgram")>>,
    <<<<"data", createPolicyDataBeet>>>>)
createProofRequest == Call(
    <<W("serviceProvider"), W("policy"), W("proofRequest"), WS("authority"),
      P("systemProgram")>>, <<<<"data", createProofRequestDataBeet>>>>)
createServiceProvider == Call(<<W("serviceProvider"), WS("authority"), P("systemProgram")>>,
    <<<<"data", createServiceProviderDataBeet>>>>)
createTrustee == Call(<<W("trustee"), WS("authority"), P("systemProgram")>>,
    <<<<"data", createTrusteeDataBeet>>>>)
deleteCircuit == Call(<<W("circuit"), WS("authority"), P("systemProgram")>>, <<>>)
deleteCredential == Call(
    <<W("albusAuthority"), W("tokenAccount"), W("mint"), W("metadataAccount"),
      W("editionAccount"), WS("authority"), R("metadataProgram"), P("tokenProgram"),
      R("sysvarInstructions"), P("systemProgram")>>, <<>>)
deleteCredentialRequest == Call(<<W("credentialRequest"), WS("authority"), P("systemProgram")>>,
    <<>>)
deleteCredentialSpec == Call(
    <<W("credentialSpec"), WS("authority"), R("issuer"), P("systemProgram")>>, <<>>)
deleteInvestigationRequest == Call(
    <<W("investigationRequest"), WS("authority"), P("systemProgram")>>, <<>>)
deleteIssuer == Call(<<W("issuer"), WS("authority"), P("systemProgram")>>, <<>>)
deletePolicy == Call(<<W("serviceProvider"), W("policy"), WS("authority"), P("systemProgram")>>,
    <<>>)
deleteProofRequest == Call(<<W("proofRequest"), WS("authority"), P("systemProgram")>>, <<>>)
deleteServiceProvider == Call(<<W("serviceProvider"), WS("authority"), P("systemProgram")>>,
    <<>>)
deleteTrustee == Call(<<W("trustee"), WS("authority"), P("systemProgram")>>, <<>>)
proveProofRequest == Call(
    <<W("proofRequest"), R("circuit"), R("policy"), Opt("issuer"), WS("authority"),
      P("systemProgram")>>, <<<<"data", proveProofRequestDataBeet>>>>)
requestCredential == Call(
    <<W("credentialRequest"), W("credentialSpec"), R("credentialMint"), W("credentialMetadata"),
      R("credentialToken"), S("credentialOwner"), R("issuer"), WS("authority"),
      W("albusAuthority"), R("sysvarInstructions"), R("metadataProgram"), P("systemProgram")>>,
    <<<<"data", requestCredentialDataBeet>>>>)
revealSecretShare == Call(
    <<W("investigationRequestShare"), W("investigationRequest"), W("trustee"), WS("authority"),
      P("systemProgram")>>, <<<<"data", revealSecretShareDataBeet>>>>)
updateCircuitVk == Call(<<W("circuit"), WS("authority"), P("systemProgram")>>,
    <<<<"data", updateCircuitVkDataBeet>>>>)
updateCredential == Call(
    <<W("albusAuthority"), Opt("credentialRequest"), Opt("credentialRequestIssuer"), R("mint"),
      W("metadataAccount"), WS("authority"), R("sysvarInstructions"), R("metadataProgram"),
      P("systemProgram")>>, <<<<"data", updateCredentialDataBeet>>>>)
updateCredentialRequest == Call(
    <<W("credentialRequest"), R("issuer"), WS("authority"), P("systemProgram")>>,
    <<<<"data", updateCredentialRequestDataBeet>>>>)
updatePolicy == Call(<<W("policy"), R("serviceProvider"), WS("authority"), P("systemProgram")>>,
    <<<<"data", updatePolicyDataBeet>>>>)
updateProofRequest == Call(<<W("proofRequest"), WS("authority"), P("systemProgram")>>,
    <<<<"data", updateProofRequestDataBeet>>>>)
updateServiceProvider == Call(<<W("serviceProvider"), WS("authority"), P("systemProgram")>>,
    <<<<"data", updateServiceProviderDataBeet>>>>)
updateTrustee == Call(<<W("trustee"), WS("authority"), P("systemProgram")>>,
    <<<<"data", updateTrusteeDataBeet>>>>)
verifyProofRequest == Call(
    <<W("proofRequest"), R("circuit"), WS("authority"), P("systemProgram")>>, <<>>)
verifyTrustee == Call(<<W("trustee"), WS("authority"), P("systemProgram")>>, <<>>)
instructions == [
    adminCloseAccount |-> adminCloseAccount, adminWithdraw |-> adminWithdraw,
      createCircuit |-> createCircuit, createCredential |-> createCredential,
      createCredentialSpec |-> createCredentialSpec,
      createInvestigationRequest |-> createInvestigationRequest, createIssuer |-> createIssuer,
      createPolicy |-> createPolicy, createProofRequest |-> createProofRequest,
      createServiceProvider |-> createServiceProvider, createTrustee |-> createTrustee,
      deleteCircuit |-> deleteCircuit, deleteCredential |-> deleteCredential,
      deleteCredentialRequest |-> deleteCredentialRequest,
      deleteCredentialSpec |-> deleteCredentialSpec,
      deleteInvestigationRequest |-> deleteInvestigationRequest, deleteIssuer |-> deleteIssuer,
      deletePolicy |-> deletePolicy, deleteProofRequest |-> deleteProofRequest,
      deleteServiceProvider |-> deleteServiceProvider, deleteTrustee |-> deleteTrustee,
      proveProofRequest |-> proveProofRequest, requestCredential |-> requestCredential,
      revealSecretShare |-> revealSecretShare, updateCircuitVk |-> updateCircuitVk,
      updateCredential |-> updateCredential,
      updateCredentialRequest |-> updateCredentialRequest, updatePolicy |-> updatePolicy,
      updateProofRequest |-> updateProofRequest,
      updateServiceProvider |-> updateServiceProvider, updateTrustee |-> updateTrustee,
      verifyProofRequest |-> verifyProofRequest, verifyTrustee |-> verifyTrustee]

\* generated/errors: the codes from 6000 on.
errors == ErrorCodes(
    <<"Unauthorized", "Unverified", "Unproved", "Expired", "InvalidData", "InvalidOwner",
      "InvalidMetadata", "ProofVerificationFailed", "InvalidPublicInputs">>)
=============================================================================
