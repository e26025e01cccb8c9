-------------------------------- MODULE Merkle --------------------------------
(***************************************************************************)
(* Merkle trees over the transactions of a block: the root that goes into  *)
(* a block (blockchain/merkle_tree.go), and the proofs that full nodes     *)
(* make and light nodes check (blockchain/block.go).  The two walk the     *)
(* tree in different ways.  A hash is the value it is the hash of, marked  *)
(* as a leaf or as an inner node, so hashes of different values differ.    *)
(***************************************************************************)
EXTENDS Naturals, Sequences, SequencesExt

LeafHash(tx) == <<"leaf", tx>>
NodeHash(l, r) == <<"node", l, r>>

Leaves(txs) == [i \in DOMAIN txs |-> LeafHash(txs[i])]

Odd(s) == Len(s) % 2 # 0

Doubled(s) == Append(s, Last(s))

\* One level up; the last node of an odd level has no pair and is left out.
Pairs(s) == [i \in 1 .. Len(s) \div 2 |-> NodeHash(s[2 * i - 1], s[2 * i])]

-----------------------------------------------------------------------------
\* NewMerkleTree: only the leaves are made even.
MerkleRoot(txs) ==
  LET data == IF Odd(txs) THEN Doubled(Leaves(txs)) ELSE Leaves(txs)
      level[d \in 0 .. Len(data)] ==
        IF d = 0 THEN data
        ELSE IF Len(level[d - 1]) > 1 THEN Pairs(level[d - 1])
        ELSE level[d - 1]
  IN  level[Len(data)][1]

\* The number of levels below the root that GenerateMerkleProof passes.
Height(n) == CHOOSE d \in 0 .. n : 2 ^ d >= n /\ \A e \in 0 .. d - 1 : 2 ^ e < n

\* The levels of GenerateMerkleProof: each is made even before it is paired up.
ProofLevels(txs) ==
  LET even(s) == IF Len(s) > 1 /\ Odd(s) THEN Doubled(s) ELSE s
      level[d \in 0 .. Height(Len(txs))] ==
        IF d = 0 THEN even(Leaves(txs)) ELSE even(Pairs(level[d - 1]))
  IN  level

\* The sibling of the node at (zero-based) index i, and whether it is on the right.
Sibling(level, i) ==
  IF i % 2 = 0 THEN [hash |-> level[i + 2], right |-> TRUE]
               ELSE [hash |-> level[i], right |-> FALSE]

\* GenerateMerkleProof of the transaction at (zero-based) index pos.
GenerateMerkleProof(txs, pos) ==
  LET level == ProofLevels(txs) IN
  [leaf |-> LeafHash(txs[pos + 1]),
   path |-> [d \in 1 .. Height(Len(txs)) |->
               Sibling(level[d - 1], pos \div 2 ^ (d - 1))]]

\* VerifyMerkleProof against the root of a header.
VerifyMerkleProof(proof, root) ==
  LET step(h, s) == IF s.right THEN NodeHash(h, s.hash) ELSE NodeHash(s.hash, h)
  IN  FoldLeft(step, proof.leaf, proof.path) = root

=============================================================================
