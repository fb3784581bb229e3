-------------------------------- MODULE Wire ---------------------------------
(***************************************************************************)
(* Whether a client and a program that were written down apart understand    *)
(* each other: instructions, account data, searches over accounts, addresses *)
(* and error codes.  Client and Program are the definitions of the two ends. *)
(***************************************************************************)
EXTENDS Borsh, FiniteSets
LOCAL INSTANCE SequencesExt

Albus == INSTANCE AlbusClient
AlbusOnChain == INSTANCE AlbusProgram
Swap == INSTANCE SwapClient
SwapOnChain == INSTANCE SwapProgram

Clients == [albus |-> Albus!instructions, swap |-> Swap!instructions, transfer |-> Swap!transfers]
Programs == [albus |-> AlbusOnChain!instructions, swap |-> SwapOnChain!instructions,
             transfer |-> SwapOnChain!transfers]
Layouts == [albus |-> Albus!accounts, swap |-> Swap!accounts]
States == [albus |-> AlbusOnChain!accounts, swap |-> SwapOnChain!accounts]
Codes == [albus |-> Albus!errors, swap |-> Swap!errors]
Raised == [albus |-> AlbusOnChain!errors, swap |-> SwapOnChain!errors]

\* A value of a type, another one for another seed.
RECURSIVE Sample(_, _)
Sample(T, seed) ==
  CASE T.kind = "num" -> IF T.size = 1 THEN (seed * 7) % 256 ELSE seed * 301
    [] T.kind = "bytes" -> (seed * 11 + 1) % 256
    [] T.kind = "bool" -> seed % 2 = 1
    [] T.kind = "enum" -> T.variants[(seed % Len(T.variants)) + 1]
    [] T.kind = "option" -> IF seed % 2 = 0 THEN <<>> ELSE <<Sample(T.of, seed + 1)>>
    [] T.kind = "list" -> [i \in 1..(seed % 3) |-> Sample(T.of, seed + i)]
    [] T.kind = "struct" ->
         [f \in {T.fields[i][1] : i \in DOMAIN T.fields} |->
           LET i == CHOOSE i \in DOMAIN T.fields : T.fields[i][1] = f
           IN Sample(T.fields[i][2], seed + i * ((seed % 5) + 1))]

-----------------------------------------------------------------------------
\* generated/instructions: the list the client sends, without the optional
\* accounts that are not in given; the first field says which instruction it is.
Sent(call, given) ==
  [i \in DOMAIN call.accounts |->
    LET a == call.accounts[i]
        absent == a.optional /\ a.name \notin given
    IN [key |-> IF absent THEN Program ELSE a.name,
        writable |-> a.writable /\ ~absent, signer |-> a.signer]]

\* What Anchor makes of it before the handler runs: accounts by position, none
\* for the id of the program, and refused without the flags the struct asks for.
Refused == "refused"
Taken(handler, keys) ==
  LET want == handler.accounts
      absent(i) == want[i].optional /\ keys[i].key = Program
  IN IF Len(keys) < Len(want)
        \/ \E i \in DOMAIN want :
             ~absent(i) /\ ~(/\ want[i].writable => keys[i].writable
                            /\ want[i].signer => keys[i].signer)
     THEN {Refused}
     ELSE {<<want[i].name, keys[i].key>> : i \in {j \in DOMAIN want : ~absent(j)}}

\* The accounts the client names are the ones the handler gets, under the same
\* names, and none but these; no more signatures or locks are asked for than it
\* needs, and the arguments are those of the client.
CallArrives(program, name, given, seed) ==
  LET call == Clients[program][name]
      handler == Programs[program][name]
      keys == Sent(call, given)
      args == Sample(call.args, seed)
  IN /\ Taken(handler, keys)
          = {<<a.name, a.name>> : a \in {b \in ToSet(call.accounts) : b.optional => b.name \in given}}
     /\ \A i \in DOMAIN keys : /\ keys[i].signer => handler.accounts[i].signer
                               /\ keys[i].writable => handler.accounts[i].writable
     /\ \A bytes \in {Encode(call.args, args)} :
          Decode(handler.args, bytes, 1) = [at |-> Len(bytes) + 1, is |-> args]

-----------------------------------------------------------------------------
\* An account as Anchor leaves it: the name of its type in front, written over
\* what was there, so that what follows a shorter value is older bytes.
Tag(name) == [i \in 1..8 |-> name]
Stored(type, name, old, new) ==
  LET bytes(seed) == Tag(name) \o Encode(type, Sample(type, seed))
      first == bytes(old)
      then == bytes(new)
  IN then \o SubSeq(first, Len(then) + 1, Len(first))

\* fromAccountInfo: eight bytes are skipped and not compared.
Read(layout, data) == Decode(layout, data, 9).is

\* What was written last is what a client reads.
AccountReads(program, name, old, new) ==
  LET type == States[program][name]
  IN \A data \in {Stored(type, name, old, new)} :
       Read(Layouts[program][name], data) = Sample(type, new)
-----------------------------------------------------------------------------
\* The searches of the managers: the fields each one can filter by.
ProofRequestFind == {"owner", "serviceProvider", "circuit", "policy", "status"}
IssuerFind == {"authority", "pubkey", "zkPubkey", "code", "isDisabled"}
CircuitFind == {"code"}
InvestigationFind == {"status", "authority", "serviceProvider", "proofRequest", "proofRequestOwner"}
ShareFind == {"investigationRequest", "proofRequestOwner", "trustee", "status", "index"}
ServiceFind == {"authority", "code", "name"}
PolicyFind == {"circuit", "serviceProvider"}
SpecFind == {"code", "name", "issuer"}
CredentialRequestFind ==
  {"authority", "credentialOwner", "credentialSpec", "credentialMint", "issuer", "status"}
TrusteeFind == {"authority", "key", "name", "email", "isVerified"}
PoolFind == {"tokenProgramId", "poolMint", "tokenAMint", "tokenBMint"}
Searches ==
  [albus |-> [ProofRequest |-> ProofRequestFind, Issuer |-> IssuerFind, Circuit |-> CircuitFind,
              InvestigationRequest |-> InvestigationFind, InvestigationRequestShare |-> ShareFind,
              ServiceProvider |-> ServiceFind, Policy |-> PolicyFind, CredentialSpec |-> SpecFind,
              CredentialRequest |-> CredentialRequestFind, Trustee |-> TrusteeFind],
   swap |-> [TokenSwap |-> PoolFind]]

\* Criteria that are falsy in JavaScript are left out: an index or a status of 0,
\* false and the empty text.  Active issuers are the ones that are not disabled.
Asked(field, T, want) ==
  field # "isDisabled" =>
    CASE T.kind = "enum" -> want # T.variants[1]
      [] T.kind = "num" -> want # 0
      [] T.kind = "bool" -> want
      [] T.kind = "list" -> want # <<>>
      [] OTHER -> TRUE

\* gpaBuilder: a filter compares the bytes at the offset of its field, which
\* only fields have that follow fields of a fixed size.
Fixed(T) == T.kind \in {"num", "bool", "bytes", "enum"}
Position(layout, field) == CHOOSE i \in DOMAIN layout.fields : layout.fields[i][1] = field
HasOffset(layout, field) == \A i \in 1..(Position(layout, field) - 1) : Fixed(layout.fields[i][2])
Offset(layout, field) ==
  FoldLeft(LAMBDA acc, f : acc + f[2].size, 8, SubSeq(layout.fields, 1, Position(layout, field) - 1))
Matches(data, offset, bytes) == SubSeq(data, offset + 1, offset + Len(bytes)) = bytes

\* The accounts a search with one criterion returns from those on the ledger.
Found(layout, name, field, want, ledger) ==
  LET T == layout.fields[Position(layout, field)][2]
  IN {a \in ledger : /\ Matches(a.data, 0, Tag(name))
                     /\ Asked(field, T, want) =>
                          Matches(a.data, Offset(layout, field), Encode(T, want))}

\* A search returns the accounts of its type whose field is what was asked for,
\* and all of them when the criterion was falsy (a defect, see the README).
SearchFinds(program, name, field, seed) ==
  LET type == States[program][name]
      layout == Layouts[program][name]
      T == layout.fields[Position(layout, field)][2]
      want == IF field = "isDisabled" THEN FALSE ELSE Sample(type, seed)[field]
      account(n, s) == [name |-> n, seed |-> s, data |-> Stored(States[program][n], n, 9 - s, s)]
  IN HasOffset(layout, field) =>
       \A ledger \in {{account(n, s) : n \in {name} \cup DOMAIN States[program], s \in 0..6}} :
         Found(layout, name, field, want, ledger)
           = {a \in ledger : /\ a.name = name
                             /\ Asked(field, T, want) => Sample(type, a.seed)[field] = want}

-----------------------------------------------------------------------------
\* Addresses are derived from seeds: a word and what tells accounts of a type
\* apart.  The client computes them from what its caller has (pda.ts).
PdaIssuer(code) == <<"issuer", code>>
PdaCircuit(code) == <<"circuit", code>>
PdaServiceProvider(code) == <<"service-provider", code>>
PdaTrustee(key) == <<"trustee", key>>
PdaCredentialSpec(issuer, code) == <<"credential-spec", issuer, code>>
PdaCredentialRequest(spec, authority) == <<"credential-request", spec, authority>>
PdaPolicy(service, code) == <<"policy", service, code>>
PdaProofRequest(policy, user) == <<"proof-request", policy, user>>
PdaInvestigationRequest(request, authority) == <<"investigation-request", request, authority>>
PdaInvestigationRequestShare(investigation, trustee) ==
  <<"investigation-request-share", investigation, trustee>>

\* The seeds the handlers that create the accounts check, by the names of their
\* accounts and of the fields of their data.
IssuerSeeds == <<"issuer", "code">>
CircuitSeeds == <<"circuit", "code">>
ServiceProviderSeeds == <<"service-provider", "code">>
TrusteeSeeds == <<"trustee", "key">>
CredentialSpecSeeds == <<"credential-spec", "issuer", "code">>
CredentialRequestSeeds == <<"credential-request", "credentialSpec", "authority">>
PolicySeeds == <<"policy", "serviceProvider", "code">>
ProofRequestSeeds == <<"proof-request", "policy", "authority">>
InvestigationRequestSeeds == <<"investigation-request", "proofRequest", "authority">>
InvestigationRequestShareSeeds ==
  <<"investigation-request-share", "investigationRequest", "trustee">>

\* The address a client computes for an account is the one the handler that
\* creates it insists on, from accounts and data this handler has.
AddressAgrees(name) ==
  CASE name = "Issuer" -> PdaIssuer("code") = IssuerSeeds
    [] name = "Circuit" -> PdaCircuit("code") = CircuitSeeds
    [] name = "ServiceProvider" -> PdaServiceProvider("code") = ServiceProviderSeeds
    [] name = "Trustee" -> PdaTrustee("key") = TrusteeSeeds
    [] name = "CredentialSpec" -> PdaCredentialSpec("issuer", "code") = CredentialSpecSeeds
    [] name = "CredentialRequest" ->
         PdaCredentialRequest("credentialSpec", "authority") = CredentialRequestSeeds
    [] name = "Policy" -> PdaPolicy("serviceProvider", "code") = PolicySeeds
    [] name = "ProofRequest" -> PdaProofRequest("policy", "authority") = ProofRequestSeeds
    [] name = "InvestigationRequest" ->
         PdaInvestigationRequest("proofRequest", "authority") = InvestigationRequestSeeds
    [] name = "InvestigationRequestShare" ->
         PdaInvestigationRequestShare("investigationRequest", "trustee")
           = InvestigationRequestShareSeeds

\* An error the program raises reaches the caller under its name.
ErrorNamed(program, code) == Codes[program][code] = Raised[program][code]
=============================================================================
