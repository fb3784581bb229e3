----------------------------- MODULE ClaimsTree -----------------------------
(***************************************************************************)
(* ClaimsTree: the claims of a credential in a sparse Merkle tree whose keys  *)
(* are the positions of the claim names in the order they were added.  The   *)
(* root is what an issuer signs; a claim's siblings are what a proof shows.  *)
(***************************************************************************)
EXTENDS Smt, FiniteSets
LOCAL INSTANCE SequencesExt

CONSTANTS
  Names,      \* claim names
  Values,     \* encoded values, none of them 0
  None,       \* "no value"
  Depth,      \* treeDepth
  MaxKeys     \* bound on the names pushed and the updates that stray, in all

ASSUME ClaimsTreeAssumption ==
  /\ Depth \in Nat \ {0} /\ MaxKeys \in Nat
  /\ 0 \notin Values /\ None \notin Values

VARIABLES
  keys,       \* the names in the order added; a name added twice is there twice
  tree,       \* the SMT
  claims,     \* history: what the caller has put under each name
  strays      \* history: how many updates were of a claim that was not there
vars == <<keys, tree, claims, strays>>

\* encodeKey: the first position of a name.  -1 for a name never added is the
\* field element p - 1, whose 28 low bits are zero.
Unknown == 2 ^ 28
EncodeKey(name) ==
  IF \E i \in DOMAIN keys : keys[i] = name THEN SelectInSeq(keys, LAMBDA k : k = name) - 1
  ELSE Unknown

\* As a slip would have it: padded one level short.
PaddedShort(siblings) ==
  siblings \o [i \in 1..(Depth - 1 - Len(siblings)) |-> Zero]
\* get(name): the siblings are padded with zeros up to the depth.
Padded(siblings) == siblings \o [i \in 1..(Depth - Len(siblings)) |-> Zero]
GetClaim(name) ==
  LET at == Get(tree, EncodeKey(name))
  IN [at EXCEPT !.siblings = Padded(@)]

Init ==
  /\ keys = <<>> /\ tree = Empty
  /\ claims = [n \in Names |-> None] /\ strays = 0

\* add(name, value): the name is pushed before the tree is asked, so an add
\* that fails ("Key already exists") leaves it there a second time.
Add(name, value) ==
  /\ Len(keys) + strays < MaxKeys
  /\ keys' = Append(keys, name)
  /\ LET key == EncodeKey(name)' IN
     IF Get(tree, key).found THEN UNCHANGED <<tree, claims>>
     ELSE /\ tree' = AddTo(tree, key, value)
          /\ claims' = [claims EXCEPT ![name] = value]
  /\ UNCHANGED strays

\* update(name, value).  Neither update looks whether the name is there: of one
\* that is not, the place where the search ends is rewritten.
Update(name, value) ==
  /\ \/ Get(tree, EncodeKey(name)).found /\ UNCHANGED strays
     \/ /\ ~Get(tree, EncodeKey(name)).found /\ Len(keys) + strays < MaxKeys
        /\ strays' = strays + 1
  /\ tree' = UpdateIn(tree, EncodeKey(name), value)
  /\ claims' = [claims EXCEPT ![name] = value]
  /\ UNCHANGED keys

\* delete(name): "Key does not exists" when it is not there; the name keeps
\* its position.
Delete(name) ==
  /\ Get(tree, EncodeKey(name)).found
  /\ tree' = DeleteFrom(tree, EncodeKey(name))
  /\ claims' = [claims EXCEPT ![name] = None]
  /\ UNCHANGED <<keys, strays>>

Next == \E name \in Names :
  \/ \E value \in Values : Add(name, value) \/ Update(name, value)
  \/ Delete(name)
Spec == Init /\ [][Next]_vars

-----------------------------------------------------------------------------
(* The tree a set of [key, value] pairs has, whatever its history. *)
RECURSIVE Canonical(_, _)
Canonical(pairs, level) ==
  IF pairs = {} THEN Zero
  ELSE IF Cardinality(pairs) = 1 THEN LET p == CHOOSE p \in pairs : TRUE IN Hash1(p.key, p.value)
  ELSE Hash0(Canonical({p \in pairs : BitOf(p.key, level) = 0}, level + 1),
             Canonical({p \in pairs : BitOf(p.key, level) = 1}, level + 1))
RECURSIVE Under(_)
Under(h) == IF h = Zero THEN {}
            ELSE IF IsLeaf(h) THEN {h} ELSE {h} \cup Under(h[1]) \cup Under(h[2])
LeavesOf(h) == {[key |-> leaf[1], value |-> leaf[2]] : leaf \in {x \in Under(h) : IsLeaf(x)}}

\* What get answers, by name.
Answer == [n \in Names |-> LET c == GetClaim(n) IN IF c.found THEN c.value ELSE None]
Present == {n \in Names : Answer[n] # None}

\* smt.ts:63-270.  Whatever was added, updated and deleted, absent claims included,
\* the root is the one its leaves have, whatever their history, and the database
\* has every record below it: add pads, delete moves leaves up, update stays in place.
RootIsOfLeaves ==
  /\ tree.root = Canonical(LeavesOf(tree.root), 0)
  /\ Under(tree.root) \subseteq tree.nodes

\* As long as updates were of claims that are there, these leaves are the claims
\* the caller put, and the database has no other records.
LeavesAreClaims ==
  strays = 0 =>
    /\ LeavesOf(tree.root) = {[key |-> EncodeKey(n), value |-> claims[n]] :
                                n \in {n \in Names : claims[n] # None}}
    /\ tree.nodes = Under(tree.root)

\* The root an issuer signs depends on the claims alone.
TreeIsOfClaims == RootIsOfLeaves /\ LeavesAreClaims

\* As long as the positions used fit the circuit, what get returns for a
\* claim satisfies the inclusion check of the circuits, and for no other value.
ClaimsProvable ==
  (\A leaf \in LeavesOf(tree.root) : leaf.key < 2 ^ (Depth - 1)) =>
    \A n \in Present :
      LET c == GetClaim(n) IN
        \A v \in Values : Verifies(Depth, tree.root, c.key, v, c.siblings) <=> v = Answer[n]

\* Until an update strays, the claims tree implements a map: what get answers
\* is the store.
Store == INSTANCE Claims WITH store <- Answer
ImplementsClaims == Store!CInit /\ [][strays' = 0 => Store!CNext \/ UNCHANGED Answer]_vars


=============================================================================
