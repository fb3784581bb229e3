-------------------------------- MODULE Smt --------------------------------
(***************************************************************************)
(* The sparse Merkle tree of albus-core.  A tree is [root, nodes]: the hash *)
(* of its top and the hashes its database holds a record for.  Poseidon is  *)
(* taken to be injective, so a hash is the term it was computed from, and a *)
(* record is read off the hash it is stored under.                          *)
(***************************************************************************)
EXTENDS Naturals, Sequences
LOCAL INSTANCE SequencesExt

Zero == <<>>                                  \* F.zero
Hash0(left, right) == <<left, right>>
Hash1(key, value) == <<key, value, 1>>
IsLeaf(h) == Len(h) = 3

\* The database of a new SMT: no record, root zero.
Empty == [root |-> Zero, nodes |-> {}]

\* getBits(key)[level], the first level being the lowest bit.
BitOf(key, level) == (key \div 2 ^ level) % 2

\* A node of the path of "key" with "h" on the path and "sibling" beside it.
NodeAt(key, level, sibling, h) ==
  IF BitOf(key, level) = 1 THEN Hash0(sibling, h) ELSE Hash0(h, sibling)

\* As a slip would have it: _find takes the leaf it ends at for the key's own.
RECURSIVE FindAnyLeaf(_, _, _)
FindAnyLeaf(key, h, level) ==
  IF h = Zero
    THEN [found |-> FALSE, key |-> key, value |-> 0, siblings |-> <<>>, isOld0 |-> TRUE]
  ELSE IF IsLeaf(h)
    THEN [found |-> TRUE, key |-> key, value |-> h[2], siblings |-> <<>>, isOld0 |-> FALSE]
  ELSE LET b == BitOf(key, level)
           below == FindAnyLeaf(key, h[1 + b], level + 1)
       IN [below EXCEPT !.siblings = <<h[2 - b]>> \o @]

\* _find: down the bits of key to a leaf or to zero, siblings from the top.
RECURSIVE Find(_, _, _)
Find(key, h, level) ==
  IF h = Zero
    THEN [found |-> FALSE, key |-> key, value |-> 0, siblings |-> <<>>, isOld0 |-> TRUE]
  ELSE IF IsLeaf(h)
    THEN [found |-> h[1] = key, key |-> h[1], value |-> h[2], siblings |-> <<>>, isOld0 |-> FALSE]
  ELSE LET b == BitOf(key, level)
           below == Find(key, h[1 + b], level + 1)
       IN [below EXCEPT !.siblings = <<h[2 - b]>> \o @]
Get(tree, key) == Find(key, tree.root, 0)

\* The hashes of a path from "h" below the last sibling up to the root, the
\* root first.
Climb(key, siblings, h) ==
  FoldRight(LAMBDA i, path : <<NodeAt(key, i - 1, siblings[i], path[1])>> \o path,
            [i \in 1..Len(siblings) |-> i], <<h>>)
Hashes(path) == {path[i] : i \in DOMAIN path}

\* The index of the lowest sibling that is not zero; 0 when all are.
LastNonZero(siblings) ==
  LET full == {i \in DOMAIN siblings : siblings[i] # Zero}
  IN IF full = {} THEN 0 ELSE CHOOSE i \in full : \A j \in full : j <= i

\* The level at which the paths of two keys part, at or below "from".
Parting(key, other, from) ==
  CHOOSE i \in from..(from + 31) :
    /\ BitOf(key, i) # BitOf(other, i)
    /\ \A j \in from..(i - 1) : BitOf(key, j) = BitOf(other, j)

(***************************************************************************)
(* add(key, value) of a key that is not there.  Over another leaf the path   *)
(* is padded with zeros to where the keys part, and the old leaf becomes the *)
(* last sibling.  The records deleted are those of the old path that the     *)
(* new path replaces: all of it over zero; from the lowest real sibling up   *)
(* over a leaf, whose own record stays in use.                               *)
(***************************************************************************)
Beside(key, at) ==
  IF at.isOld0 THEN at.siblings
  ELSE LET n == Len(at.siblings)
       IN at.siblings \o [i \in 1..(Parting(key, at.key, n) - n) |-> Zero]
            \o <<Hash1(at.key, at.value)>>
Replaced(key, at) ==
  LET kept == IF at.isOld0 THEN at.siblings
              ELSE SubSeq(at.siblings, 1, LastNonZero(at.siblings))
      path == Climb(key, kept, IF at.isOld0 THEN Zero ELSE Hash1(at.key, at.value))
  IN Hashes(SubSeq(path, 1, Len(kept)))
AddTo(tree, key, value) ==
  LET at == Get(tree, key)
      path == Climb(key, Beside(key, at), Hash1(key, value))
  IN [root |-> path[1], nodes |-> (tree.nodes \cup Hashes(path)) \ Replaced(key, at)]

\* As a slip would have it: insert first, then delete, the order of add and delete.
RewriteInsertFirst(nodes, deletes, inserts) == (nodes \cup inserts) \ deletes

(***************************************************************************)
(* update(key, value): the records of the old path are deleted first, then   *)
(* those of the new one inserted; an unchanged value gives the same path.    *)
(***************************************************************************)
Rewrite(nodes, deletes, inserts) == (nodes \ deletes) \cup inserts
UpdateIn(tree, key, value) ==
  LET at == Get(tree, key)
      path == Climb(key, at.siblings, Hash1(key, value))
  IN [root |-> path[1],
      nodes |-> Rewrite(tree.nodes, Hashes(Climb(key, at.siblings, Hash1(key, at.value))),
                        Hashes(path))]

(***************************************************************************)
(* delete(key).  A leaf left alone beside the key's moves up past the zeros  *)
(* above it; over an inner node the key's place becomes zero.                *)
(***************************************************************************)
Remaining(siblings) ==
  LET n == Len(siblings) IN
  IF n = 0 THEN [h |-> Zero, siblings |-> <<>>]
  ELSE IF IsLeaf(siblings[n])
    THEN LET above == SubSeq(siblings, 1, n - 1)
         IN [h |-> siblings[n], siblings |-> SubSeq(above, 1, LastNonZero(above))]
  ELSE [h |-> Zero, siblings |-> siblings]
DeleteFrom(tree, key) ==
  LET at == Get(tree, key)
      left == Remaining(at.siblings)
      path == Climb(key, left.siblings, left.h)
  IN [root |-> path[1],
      nodes |-> (tree.nodes \cup Hashes(SubSeq(path, 1, Len(left.siblings))))
                   \ Hashes(Climb(key, at.siblings, Hash1(key, at.value)))]

(***************************************************************************)
(* SMTVerifier(depth) for inclusion, as circomlib has it: the last sibling   *)
(* must be zero, and the leaf sits below the lowest sibling that is not.     *)
(***************************************************************************)
Verifies(depth, root, key, value, siblings) ==
  /\ Len(siblings) = depth
  /\ siblings[depth] = Zero
  /\ Climb(key, SubSeq(siblings, 1, LastNonZero(siblings)), Hash1(key, value))[1] = root

=============================================================================
