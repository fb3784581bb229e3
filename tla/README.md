# Albus in TLA+

A formal model of the Albus protocol (this repository): the Solana program
`programs/albus`, the SDK calls that several of its instructions depend on, and
what the certificate-gated programs rely on. TLC checks the modules on small
instances; TLAPS proves the main safety properties for every value of the
constants.

## The system

Albus issues compliance certificates on Solana. A business registers as a
*service provider* and publishes *policies*; a policy names a *circuit* (a
circom circuit with its Groth16 verification key) and rules (constants that must
appear among the public inputs). A user holds a *credential* (an NFT issued by an
*issuer*), opens a *proof request* for a policy, proves it with a zero-knowledge
proof and has it verified, on chain or by an admin. Other programs (transfer,
swap, stake pool) accept the user only with a verified, unexpired request. The
proof also encrypts the user's data under a secret that is shared among
*trustees*; an *investigation* collects enough shares to decrypt it.

Every handler is a transaction: it runs alone and an error undoes it. The
concurrency is between transactions of different signers, and between an SDK
call's reading of accounts and the later execution of its transaction.

### Inventory

| Component | State | Operations | Interacts with | What is hard | Correct when |
|---|---|---|---|---|---|
| Registry: service providers, policies, circuits, issuers, trustees | one account per code or key (PDA) | create, update, delete of each; key update in several transactions; trustee verification; forced closure | read by every other component | shared counters, accounts closed under their dependants, a key half way through an update | counters exact |
| Proof requests | one account per policy and user | create (or re-create), prove in chunks, verify, admin update, delete, forced closure | policy, circuit and issuer of the moment; gate | re-creation keeps data, chunks in any order, rules and keys that change between proof and verification, expiry, capacity | a certificate holds the proof that was verified and the inputs the policy forced; times and expiry in order |
| Investigations | request and share accounts | create, reveal, delete; SDK reading, decrypting and reconstructing | service threshold, trustees, current proof | two reads and a late transaction, re-proving, another encryption key, shares that outlive their investigation or come from no SDK | counter exact, a revealed share is final, shares fit the investigation's key and the proof, enough of one proof decrypt |
| Credentials | token, credential request, specification | create, update, delete, request, answer, withdraw; issuer's client | issuer, Metaplex | several workers answering one request, requests made again while answered | status and token agree, a credential is written to its subject, with its holder's consent |
| SDK sessions | what a client has read and not yet sent | `fullProve`, `prove`, key upload, off-chain verification and verdict | everything on chain | several transactions per operation, failures between them, two devices, changes under them | a session nobody disturbed succeeds and leaves what it built |
| Gate (`crates/solana-verifier`) | none | one check | proof request | a verdict for an earlier proof | admits certificates with a proof only |
| albus-swap, albus-transfer and their clients | pools, token balances | open, swap, deposits, withdrawals, close, transfer; wrapping of SOL around them | gate, SPL token | rounding, fees, wallet and pool that change while the client reads | a pool token loses no more value than named roundings and fees explain, a transaction that can land does |
| Claims tree | keys, root, node database | add, update, delete, proof | circuits, credentials | leaves that move up and down, depth limit | the tree is that of its leaves, and of its claims while updates find theirs; every claim is provable |
| Credentials and presentations (albus-core) | documents, issuer accounts, document cache | issue, seal, open, present, verify | DID resolver, issuer accounts | keys in several encodings, sealed and unsealed forms, accounts that change | accepts exactly what was signed by who may |
| Algorithms of albus-core | none | field, curve, signatures, hashes, cipher, sharing, encodings | circuits, programs | edges of primes and widths, padding, byte order | equal to their reference definitions |
| Generated clients | none | encode, decode, search, derive addresses | programs | everything is written down twice | what one end writes the other reads |
| Stake pool, CLI, storage, test UI | - | - | - | - | not modelled, see below |

## Modules

| Module | Models |
|---|---|
| `Registry` | the twenty instructions on service providers, policies, circuits, issuers and trustees, with `close_account` |
| `ProofRequest` | EXTENDS `Registry`: the five proof request handlers, forced closure, the clock |
| `Investigation` | EXTENDS `Registry`: the three investigation handlers and `InvestigationManager` of the SDK |
| `Managers` | the registry through the SDK: what each manager method sends for the properties it is given |
| `Sessions` | EXTENDS `ProofRequest`, `Managers`: the SDK's operations of several transactions, and the gate |
| `Issuing` | EXTENDS `Registry`: tokens, specifications, credential requests, the managers and the issuer's client |
| `CredentialBook` | the abstract promise of credentials, which `Issuing` implements |
| `Curve`, `Swap` | the arithmetic of albus-swap; its handlers, the transfer program and their client |
| `Smt`, `ClaimsTree`, `Claims` | the sparse Merkle tree; a claims tree over it; the map it implements |
| `Keys`, `Vc` | keys, DIDs and sealing; credentials and presentations over issuer accounts that change |
| `Field`, `Poseidon`, `BabyJub`, `Zkp`, `UserData` | prime fields and bytes; hash, sponges, cipher, Shamir; curve and signatures; proofs and signals as bytes; data from holder to investigator. Each EXTENDS the one before |
| `Blake512` | the hash of keys and nonces |
| `Borsh`, `AlbusClient`, `AlbusProgram`, `SwapClient`, `SwapProgram`, `Wire` | the serialisation; the layouts of the two ends of the Albus and swap programs as data; whether they agree |
| `MCProofRequest`, `MCInvestigation`, `MCSessions`, `MCIssuing`, `MCSwap`, `MCVc`, `MCClaimsTree` | small instances for TLC |
| `MCCounters` | EXTENDS `MCProofRequest`: the whole registry, or requests that come and go under it |
| `MCAlgebra`, `MCCore` | the pure modules as jobs, and `Wire`; the same next to the history of a claims tree |
| `RegistryProofs`, `ProofRequestProofs`, `CertificateProofs`, `InvestigationProofs`, `IssuingProofs`, `SessionsProofs`, `VcProofs`, `CurveProofs` | theorems and proofs |

Conventions. An account type is a function from its address (the PDA's seeds) to
a record with the account's fields, or `Closed`. A handler is one action: its
errors and account constraints are conjuncts, so a failed transaction is a
disabled action. Operators whose comment begins with "fault" are plausible wrong
versions of the operator that follows them; no specification uses them.
Variables marked history are read by properties only.

**Registry.** Descriptive fields are left out. A verification key is a `head`
(alpha, beta, gamma, delta) and a list of ic points, each labelled with the
generation of the key it belongs to; `UpdateCircuitVk` sets or extends it as the
handler does, so a key can be half old and half new. Anybody may create a
policy for any service, as in the code. `adminClosed` remembers the services
whose policy counter an admin bypassed.

**ProofRequest.** A public input is a number; a signal table maps names to
positions. A proof is the statement it proves (inputs and key generation);
`Groth16Verifies` accepts it for exactly these. `CreateProofRequest` on an
existing account keeps what the code keeps: proof, inputs, issuer, and the expiry
when no period is given. `ProveProofRequest` is the whole handler: reset,
extension, and with a proof the timestamp, validity and issuer checks, the issuer
key and the rules written into the inputs, and the size of the account.
`VerifyOnChain` is the cargo feature of that name.

**Investigation.** What it reads of a proof request is the generation of shares
its proof encrypts (`generation`) and the trustees they are encrypted for
(`holders`); `Prove`, `DropProof` and `OpenRequest` stand for the proof request
handlers. A share is a point of a generation, sealed for an encryption key; an
investigation has the key it was opened with. The SDK's `revealShareIx` reads the
investigation for its key (`ReadInvestigation`), later the proof request for the
trustee's place and share (`ReadProof`), and its transaction arrives later still
(`RevealSent`) or is lost (`ExpireReveal`); meanwhile the request may be proved
again and the investigation deleted and opened with another key. The handler itself
(`RevealSecretShare`) looks at neither index nor bytes: `RevealByHand` passes any of
`HandMade`. `Decrypts` is `decryptData` with Shamir's reconstruction: it fails on a
share sealed for another key, and the secret comes out when the values it takes are
points with distinct indices, all of one generation and at least `ShamirK`. The
histories say which shares were there before their investigation (`leftover`), passed
without the SDK (`byHand`) or taken by the deletion of another investigation
(`stripped`), and which investigations nothing disturbed since they were opened
(`calm`).

**Managers and Sessions.** An operation of the SDK that takes several
transactions is a session of a client (`Clients`, each with the wallet
`Wallet[d]`). It begins by reading the accounts it needs, builds inputs and
transactions over what it read, and sends them one by one; between two of its
steps anything else may happen, and a transaction that the program refuses ends
it (`Fail`); a device may also stop anywhere (`Stop`). `FullProve`, `Fetch`, `Build`
and `Send` are `fullProve`, `UpdateVk` is the key upload of `CircuitManager`, and
`Review` an admin that verifies off chain and sends the outcome later. A session
is disturbed when another call changed what its transactions depend on
(`Watched`); the history variable `calm` says which were not, and the properties
are about these. `Admits` is the check of the gate.

**Issuing.** A token's `uri` is the document behind it: whom it is for and who
wrote it. A worker of `AlbusIssuerClient` reads a request and its presentation
(`LoadCredentialRequest`), decides, and builds a transaction with the document it
prepared and a fresh reading of the mint: two instructions for an answer
(`ApproveCredentialRequest`, `RejectCredentialRequest`), one for a new document or a
rejection without an answer (`Amend`). It arrives (`Land`, `LandAmended`) or not (`Drop`);
meanwhile the request may be made again for another credential and owner, and
`crossed` says of which tokens the document was prepared for a request that had
changed when it was written. `UpdateStatus` sends any status alone, and an admin's
`UpdateCredential` writes any document. `CredentialBook` forgets requests: a credential
has a holder, a content and the issuers its holder asked. The refinement mapping
takes holder and content from the token and consent from `asked`, so it is a claim
about the program, whose handlers check signatures and accounts one by one, and not
about the clients.

**Swap.** `Curve` has every division with its rounding. A handler of the program
is the list of token moves it makes; the client's transactions also create an
account, wrap or unwrap SOL. `Apply` makes all moves of a transaction or none. The
client of a trader (`Begin`, `Look`, `Send`) reads one account at a time, may fail
to read one, and decides from this what to put around the call. Others call the
program (`CallDirectly`), the trader uses his wallet by other means
(`UseWallet`), and certificates lapse (`Lapse`). `ValuePerShareKept` compares a
pool token's worth before and after a step and names what it may lose: the token that
halving a constant-price pool drops (in `Worth`), what a one-sided call rounds before
and in its root (`RootKept`), and what a one-sided withdrawal does not pay for when
the two trading fees make up the whole (`Unpaid`).

**Claims tree.** Poseidon is injective here, so that a hash is the term it was
computed from and the database is the set of hashes it holds a record for.
`Canonical` defines the one tree a set of claims has; `Claims` is the map that
callers are to see. `Update` looks, like the code, at nothing: of a claim that is not
there, it rewrites the place where the search for it ended. `strays` counts such
updates. That the root is the one its leaves have, with every record below it in the
database, holds whatever is updated (`RootIsOfLeaves`), and so does
`ClaimsProvable`; that the leaves are what the callers put holds until the first
stray (`LeavesAreClaims`, `ImplementsClaims`).

**Credentials.** Signatures and ciphers are ideal, bytes say what they are.
Accounts of issuers come, go and change keys, and the document loader keeps
what it resolved first, as in the code. Anybody may change a document on its way
(`MaxEdits`). A root is the sequence of the values in the tree, claims first and
then `meta`, as `flattenObject` lists them; `Claim`, `Credential`, `Presentation` and
the sets beside them say what documents are made of.

**Algebra.** The algorithms of `albus-core` take their sizes (bits of a word, bytes of a
number, rounds) as constants. `MCAlgebra` picks jobs with all inputs of a small
size, and a property per job compares the operator, which follows the code, with
a definition that does not: squares by enumeration, points by the curve's
equation, a reconstructed secret by the one that was shared, and so on.

**Wire.** `AlbusClient` is the client as generated, `AlbusProgram` the program's
structs and handlers. Two kinds of data with the same interpreter (`Borsh`): the
check is that for every instruction, account type, search, address and error
code, what one writes is what the other reads.

## Runs

| Run | Specification | Shows |
|---|---|---|
| `counters` | every registry instruction from an empty program; or two users, two policies, forced closures and a recreated service | types, exact policy counter, unique identifiers |
| `proving` | one user and policy; an account with room for more inputs than the circuit has; rules and keys change | a certificate holds the proof that was verified, with bound inputs; times in order; expiry only shrinks and stays within the credential's |
| `investigating` | one investigator, two encryption keys, re-proving, changing service, late reveals, shares by hand | counter and shares stay consistent, shares of a calm investigation fit it, enough shares of one proof decrypt |
| `answering` | trustees that answer, messages that may be lost | every investigation ends with its threshold reached |
| `sessions` | two devices of a user, an admin's desk, three calls | an undisturbed session proves; it leaves the inputs it built; an undisturbed upload leaves the whole key; a verdict fits the proof it finds |
| `issuing` | two holders, two issuers with two workers, two tokens | an answered request and its token agree; what an issuer wrote and a wallet lists is issued to its owner unless the request changed meanwhile; the program implements `CredentialBook` |
| `credentials` | two key pairs, two issuer accounts that change | accepted means signed by who may; honest means accepted; only the parties open a sealed subject |
| `albus_core` | all jobs, or five claims with two values and every history of theirs | eight properties, one per family of algorithms and one for clients and programs; the tree and its database are those of the claims; claims are provable; the tree implements `Claims` |
| `swapping` | nine pools; three calls of others, or a session with a call and a wallet move | a pool token loses no more than what is named; a session lands |
| `stale_verdict` | as `sessions` | refutes a sentence of the documentation |
| `unread_data` | the jobs of sharing and encryption | refutes a sentence of the documentation |
| `stray_update` | three claims | refutes a comment |

The findings are the last three.

- `stale_verdict`: `changeStatus` of the SDK names only the
  account, and the handler's check that there is a proof is commented out
  (`update_proof_request.rs:58`). If the user starts to prove again after the
  admin looked, the account has no proof when the outcome arrives, and it becomes
  a certificate that the gate admits, against
  `docs/gitbook-sync/integration.md:38`. `VerdictFits` shows that an outcome fits the
  proof it finds whenever request and circuit did not change in between.
- `unread_data`: `decryptData` asks for `encryptedData.length - 1 - (encryptedData.length
  - 1 % 3)` elements (`proofRequestManager.ts:313`), which by precedence is 0 for every
  length. With the right secret in hand, which `SharesReachSecret` says enough shares
  give, nothing of the retained data is read, against
  `docs/gitbook-sync/data-retention-compliance.md:25`.
- `stray_update`: `update` never looks whether the search found its key
  (`smt.ts:63`). Add two claims, delete the first and update it: the second one's leaf is
  overwritten, against `tree.ts:181`.

### Observations

What follows comes from the translation and has no run of its own.

Program.
- A caller's `expires_in` replaces the policy's `expiration_period`, longer or
  shorter (`create_proof_request.rs:58`). With neither, a request that is created
  again keeps the expiry of its previous life, so it may be expired from the
  start (`:60`); it also keeps its proof, with `proved_at` 0 (`:52`, against
  `state.rs:451`).
- `retention_end_date` is never assigned and `retention_period` never read, so
  the check in `delete_proof_request.rs:44` lets every owner through, against
  `docs/gitbook-sync/data-security.md:37`.
- The owner may append to a verified request whose account has room
  (`prove_proof_request.rs:61`); how much room is the caller's choice, by default 50
  inputs (`proofRequestManager.ts:189`). Groth16 refuses such a request if it is verified
  again, but its status stays. `CertificateHoldsProof` therefore says that the
  proof's inputs are the leading ones of the account.
- A request that is created again takes a fresh expiry and keeps its old proof, and with it
  inputs that name the old credential. Verified again, it can outlive that credential;
  `ExpiryWithinCredential` speaks of requests proved since they were last created.
- Investigations: one share passed by hand, of another proof or for another key is
  enough to lose the data (`reveal_secret_share.rs:71`, `investigationManager.ts:314`,
  `:368`); one that takes over shares of an earlier investigation at its address
  waits for ever (`create_investigation_request.rs:70`); a deletion may close share
  accounts of another investigation, which `stripped` sets aside.
- The counters of a service that an admin closed and somebody creates again start at 0 over
  live policies and requests; deleting these saturates (`PolicyCountExact` and
  `IdentifiersUnique` set such services aside, `adminClosed`).
- A verified trustee that is selected by a service may be closed, and its name registered
  again without verification; the service's list still has it.
- `UpdateCredentialRequest` looks neither at the status nor at `is_disabled`; sent alone,
  it approves a request while nothing is written to the token.
- `InvestigationStatus::Resolved` is 255 in Rust and index 3 on the wire, as the
  client expects.

SDK.
- `if (props.status)` and `if (props.index)` ignore a search for 0, that is for
  pending requests or the first share, and answer with every account
  (`proofRequestManager.ts:169`, `investigationManager.ts:121`,
  `credentialRequestManager.ts:236`). Fields behind a text have no fixed offset,
  so the searches by name of a service or specification and by email of a
  trustee match by accident only. `serviceManager.ts:133` compares
  `PublicKey` objects by identity: a search by trustees never matches.
- `policyManager.ts:255` sends an empty rule list for an update that names none,
  which clears the rules (its comment at 168 says otherwise).
- `CredentialManager.removeListener` removes nothing: the map is written as an
  object (`credentialManager.ts:62`).
- `TxBuilder.addInstruction` always adds to the first transaction, and
  `sendAndConfirm` sends only that one before it clears all.
- A rule list that names a single-valued signal twice: the SDK proves the first,
  the program writes the second over the following input. One that names `timestamp`
  or `issuerPk`: the SDK fills these in itself, the program writes the rule's value. A session
  for such a policy may fail its verification, or leave other inputs than it built
  (`RulesAgree`, the exception in `UndisturbedProves` and `ProvenAsBuilt`).
- The trustees' keys among the inputs are compared with nothing on chain.
  `meta_validUntil` is a private signal, so its cap on the expiry never applies to
  the deployed circuits.

albus-core.
- An `update` of a claim that was never added works on key p - 1. Siblings longer
  than the circuit's depth are returned as they are.
- A presentation of sealed credentials verifies only in the form it was signed in;
  `verifyCredential` writes into the proof of the credential it reads; the
  document loader never forgets a DID document.

Swap.
- `host_fee_account` is not writable (`lib.rs:839`): a swap that names a host and
  owes it a fee never lands.
- The offset curve's `allows_deposits` is asked by the two-sided handlers only.
- An emptied pool never accepts a two-sided deposit again, and gives the whole
  initial supply for a one-sided one of any amount. `close` asks only for the
  payer's signature.
- `deposit_all` of a constant-price pool takes up to one token less than its
  share, because the normalized value halves with floor.
- A root is taken of a ratio with 12 decimals (`constant_product.rs:145`). Once the
  supply passes 10^12, a one-sided call falls short by whole pool tokens, in the
  trader's favour.
- `Fees::validate` (`curve/fees.rs:166`) looks at each fraction alone. With two trading
  fees that make up the whole, say 1/2 and 1/2, `pre_fee_amount` (`fees.rs:79`) is 0, and
  `withdraw_single_token_type_exact_out` charges for half of what it pays out, at
  the others' cost.

  The run `swapping` has all three of these, and `ValuePerShareKept` allows for each
  exactly what it explains; without any one of the allowances the run fails.
  `PriceWithdrawKeepsShare` assumes fees below the whole (`FeesLeaveSomething`).

### Bounds

- Counters: one service, two policy codes, one circuit and issuer, two trustees,
  two signers that are also the users; `MaxCount` 3 caps the counters. Two policies are
  what a counter needs to be wrong by one in either direction. Identifiers do not
  depend on status, proof or time, so the second part leaves these steps out.
- Proof requests: two input vectors (two times, two credentials, two rule
  values) cut into two chunks, two key generations, periods 0 and 2, `MaxTime` 3. Two
  proofs and two keys are enough for every mixture of an old and a new one; the vectors'
  `meta_validUntil` lies inside the clock's range, so expiry happens. The account
  holds six inputs where the circuit has four.
- Investigations: `ShamirN` = `ShamirK` = 2 and two trustees, in either order or one
  alone; two generations (`MaxGen`), two encryption keys, two contents made by hand (the
  first trustee's point, and nothing); one reveal transaction under way at a time
  (`MaxSent`, `MaxEach`). `answering` has three trustees of which a service lists two,
  one generation and three transactions under way. `MaxCount` caps a trustee's own counter.
- Sessions: the circuit has five inputs, one of them an array of two, which take
  three transactions (`WithProof`, `WithoutProof` inputs fit one), its key three
  too; `MaxCalls` 3 operations in all, by two devices and the admin, are what
  it takes to have one under another's way and to try again; `MaxTime` 3 passes the
  threshold of a timestamp. Among the policy's rule sets, one has two rules for a single value
  and one has a rule for the timestamp.
- Issuing: two of everything that can be mistaken for another, `MaxCalls` 4 calls
  of holders, managers and issuers, statuses sent alone included, `MaxRequests` 2 caps the counter of a
  specification. Users, issuers, tokens and workers are symmetric.
- Credentials: `MaxIssued` 1, `MaxEdits` 1, `MaxRegistrations` 2: one honest
  document, one change on its way, one change of an issuer's key.
- Claims tree: `Depth` 3, `MaxKeys` 5 names pushed and stray updates in all: the fifth key collides with the first in
  two bits, so leaves move two levels; it is also the first one too many for the circuit.
  `stray_update` needs three names and four.
- Algorithms: the primes 3 to 97 (of both residues modulo 4, with one to five factors
  of two in p - 1), a curve of 40 points over F37, bytes of 4 values in `Field`, words of
  16 bits in `Blake512`.
- Swapping: a pool of 10 and 12 tokens and `InitialSupply` 80, amounts 1, 2, 5, pool
  tokens in steps of 4; curves without fees, with all of them, with a fee of the whole
  amount and with two fees of a half. `One` is 100, so that deposits take the supply past
  the precision of the roots, as a supply of 10^12 does in the code, and a one-sided
  call loses more than one pool token.

Deadlock is checked except in `sessions`, `stale_verdict`, `issuing`, `albus_core`,
`stray_update` and `swapping`, which stop when their budget of calls, jobs, keys or moves
is used up: otherwise there is always an instruction that somebody may send.

### Fairness

Only `answering` assumes any. Nothing in the program makes a trustee answer; the
run assumes what `docs/gitbook-sync/data-retention-compliance.md:25` describes:
a trustee begins to prepare its share while it can (weak fairness), and one that keeps
reading the proof and sending gets its transaction confirmed (strong fairness, because a
transaction may expire and be prepared again). It also assumes that trustee accounts stay
registered.

## Proofs

Every theorem holds for every value of the constants that satisfies the named
assumptions of its modules (`RegistryAssumption`, `ProofRequestAssumption`,
`InvestigationAssumption`, `IssuingAssumption`, `ManagersAssumption`,
`SessionsAssumption`, `VcAssumption`, `GivenAssumption`): subset and type facts about
the constants, finiteness where a cardinality is taken, and that markers like `Closed`,
`None` or `Error` are none of the data. `SessionsAssumption` also says how the public
signals of a circuit lie: a signal's values side by side, the signals without gap or
overlap from position 1 on (`programs/albus/src/utils/circuit.rs:53` lays them out so),
`timestamp` and `issuerPk` with one value each. The runs evaluate all of them.

**Registry, proof requests.**

- `RegistryTypeCorrect`, `TypeCorrect`: type invariants, inductive as they stand.
- `PolicyCountCorrect`: `PolicyCountExact` needs, besides types, that a service
  that is closed and was not closed by an admin has no live policies
  (`NoOrphanPolicies`): otherwise a service created over leftovers starts with a
  wrong count.
- `CertificateHoldsItsProof`, `InputsStayBound`, `TimesStayOrdered`,
  `ExpiryStaysWithinCredential` share one invariant (`GoodInv`), a conjunction over live
  requests. A proof can only be
  verified with the inputs it was made for, and afterwards inputs are appended or
  cleared together with the proof.
- `IdentifiersStayUnique`: with identifiers at most the counter, a new one is
  different from all; the invariant also needs that requests of a service that no
  admin touched have a live service.
- `ExpiryNeverGrows`: an action property from the types alone, by cases on what a
  step does to one request.
  `ExpiryStaysWithinCredential` needs that what is appended after a proof leaves the
  inputs before it alone, whatever room the account has, and that the expiry never grows
  between two creations.

**Investigations.**

- `InvestigationTypeCorrect`: inductive as it stands; the SDK's position search
  finds a first occurrence (`FirstIndexType`, by the well-foundedness of the naturals).
- `RevealedShareStaysFinal`: from the types, by cases on who writes a share:
  creation fills closed accounts only, a revelation refuses a revealed one, a
  deletion closes.
- `RevealedCountCorrect`: the counter is exact only together with the fact that a
  share left over from an earlier investigation at the same address is still
  revealed (`CollectedInv`); otherwise a trustee could reveal it again, and the
  step would count a share that the investigation does not own. The sets counted
  are finite because an investigation has at most one share per trustee.
- `SharesDecrypt`: the exact counter gives the number of revealed shares; each that was
  revealed with the SDK holds its own trustee's point of its generation (`SharesTrue`), and
  a trustee stands once among the holders of a proof, so the points have as many indices
  as there are shares (`PointsCounted`). The theorem asks nothing of who sent a share, in
  which opening, or how late. `SharesTrue` and the counting go by the library's facts
  about cardinalities and surjections.
- `CalmSharesStayFit`: the invariant (`CalmInv`) is about transactions under way. For a
  calm investigation each of them was begun after it was opened, so it carries its
  key, and, once the proof has been read, the generation of the proof that is still there.

**Issuing.** One invariant, `IssuingInv`: tokens of this program are frozen; a
request names a minted token, its owner and an issuer that owner asked (`RequestsOfOwners`);
a transaction under way, with an answer or without one, is by the issuer and for the
owner of the request as it was loaded (`AnswersAsSeen`); and a document of an issuer's
client names the owner of its token unless it was crossed (`NamesOwner`). From it:

- `IssuingTypeCorrect`, `AnswersWritten`, `SubjectsWritten`: the run's invariants.
  None is inductive alone: an answer lands long after its request was read, so the
  invariant has to speak about answers under way.
- `BookKept`: the refinement of `CredentialBook`. Each action maps to one action of the
  book or to a stutter (`CreateTakes`, `DeleteBurns`, `LandAnswers`, ...). That tokens
  are frozen is what makes a transfer impossible, and that a request's issuer was
  asked is what makes an answer a step of the book.

**Sessions.**

- `VerdictsFit`: from any accounts of the right types (`InUse`), not from an empty
  program, so that it also covers what clients find when they come. The
  invariant (`ReviewInv`) follows an admin's review between its reading of the
  request and the arrival of its outcome: while nothing it depends on has changed
  (`calm`), the outcome that is under way is the one the account would give.
- `KeysUploadWhole`: the invariant (`UploadInv`) follows an upload transaction by
  transaction: while nobody else wrote to the circuit, the k-th is the next to arrive and the
  account has the new head and the first k - 1 parts of the points. That the parts make
  the whole again (`ChunkList`, `UploadParts`), that the builder leaves no transaction out
  and that the first one sets where the others extend, holds for any length of key
  and of part.
- `SessionsProveAsBuilt`: a session reads (`LoadedOf`), builds inputs (`FetchedOf`) and
  sends (`ProvingOf`, `ProofPends`); the invariant (`ProofInv`) says at each stage what it
  has in hand and, while nobody disturbed it, how that compares with the accounts: the
  first transaction clears what an earlier session left, after k - 1 of them the account
  holds the front of the inputs, and the last one brings a proof of them. The program
  then writes timestamp, issuer key and rules over the inputs; that this changes
  nothing is the heart of the proof (`InputsStay`). It rests on both ends giving a signal the
  same positions and a rule its turn among the rules of its signal (`RuleFound`),
  which `RulesAgree` delimits. Needs the types of requests and circuits from the
  other two invariants.

What a session builds is defined by recursive functions, one step per transaction, rule
or signal. The library's induction theorems cannot be instantiated here;
`SetInduction` (a set of naturals with 0 and every successor is all of them) can, and
the lemmas about these functions go by it.

**Credentials and presentations.** `VcInv` says of every document what a reader
needs: the key of an envelope is the one its two ends share (`SealedRight`); as long as
nobody changed anything the proof signs what the credential says, open or sealed
(`SignedRight`); the presentation's signature is over what its holder said; and a document
in the loader's cache is one that its DID has or had (`Resolved`). From it:

- `PartiesOnly`: a sealed subject opens for its reader and for a sender with a pair of its
  own, whatever was changed on the way.
- `HonestParties`: by the order in which `createVerifiableCredential` signs and
  seals, opening gives back the very subject that was signed. It includes that a
  key is the same key in every form it is passed in (`FormsAgree`).
- `AcceptedIsAuthentic`: for credentials it needs a second invariant, `OriginInv`: the
  proof text of every document, whatever became of the rest of it, is one that an
  issuer made over what it then said. `verifyCredential` recomputes the root
  of what the document says now, and a root has one reading: claims in their
  order, then the issuer and the times. `SameLength` shows that
  with another number of claims the issuer would stand where a time stands, so
  nothing depends on which texts the claims are; `SameTypes` that types
  appended on the way are found out, because the last one is in the root.
  The types are compared as sets without the two that every credential
  has (`OwnTypes`), for the root holds one type.

**Swap.** `CurveProofs` is about the arithmetic of the handlers, in the terms of
`ValuePerShareKept` (`Worth`, `Normalized`, `Power`) and for all amounts, supplies, prices
and fees. Its lemmas say of every division which way it is rounded (`CeilingDivision`,
`ShareRounding`, `DivisionDown`, `PreFeeIsMore`); the theorems add up what a handler
rounds:

- `SwapKeepsValue`: all three curves, with fees. On the product both numbers of
  `checked_ceil_div` count: the input that is taken is lowered to the least that gives
  the same output, and their product must still reach the old one.
- `WithdrawKeepsShare`, `DepositKeepsShare`: the two-sided handlers on both curves that
  have them. The deposit needs the handler's own check that neither side is 0.
- `PriceSwapKeepsShare`, `PriceDepositKeepsShare`, `PriceWithdrawKeepsShare`: what is left
  of a constant-price pool's arithmetic, the owner's fee in pool tokens and the one-sided
  handlers.

What the ideal signatures and ciphers and the injective root stand for is listed
under "Not modelled".

Only model-checked:

- `Answered` (liveness under fairness) and `UndisturbedProves`: a call fails when its
  next transaction is not ENABLED, and no installed prover reasons about that.
- the eleven properties of `albus_core`, from `FieldExact` to `ImplementsClaims`: their operators (fields,
  hashes, trees) are RECURSIVE, and the provers know nothing of such an operator.
- `ValuePerShareKept` and `SessionsLand` as properties of steps: a handler of the swap
  program is a list of moves that `Apply` folds over the balances. What is proved of
  the first is its arithmetic; the square roots of a product curve, one-sided or for
  the owner's fee, are a fold too and are checked on the run's amounts only.

The modules with proofs declare no RECURSIVE operator.

## Not modelled

- Cryptographic strength: pairings, and the security of hashes, signatures and
  ciphers. In the protocol modules a proof is its statement, a share a point of
  its generation, a signature what was signed; the algorithms themselves are in
  the pure modules.
- The circuits' constraints over a 254-bit field, beyond the templates for
  sharing and encryption.
- The stake pool: a fork of the SPL program, whose own addition is the gate on
  deposits (`Admits`), and its client package of instruction builders.
- `withdraw` (one lamport transfer), events, logging, account sizes other than
  the proof request's, rent and fees of transactions.
- CLI, storage and test UI: I/O and formatting around SDK calls. Two things were
  met there: concurrent uploads to Irys read the same balance before they fund, and
  `docs/gitbook-sync` describes `client.credential.revoke`, which the SDK calls `delete`.
- `pex.ts` (a wrapper of a library) and JSON-LD.
- `credential/account/*.rs`: not compiled into the program.

## Plan

1. Done: registry, proof requests, investigations; sessions and gate; issuing with
   its book; claims tree with its map; credentials; algebra and wire; swaps.
2. Done: proofs of what an empty or used program keeps, of issuing and its refinement,
   of credentials, of what undisturbed sessions leave, and of the rounding of swaps. `Smt`,
   `Field` and `Borsh`, and what extends them, use RECURSIVE operators and stay with TLC.
3. The stake pool's accounting: fees of an epoch, and the pool token's rate.
