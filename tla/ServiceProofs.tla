---------------------------- MODULE ServiceProofs ----------------------------
(***************************************************************************)
(* Theorems about queries for proofs, for every set of names, block size   *)
(* and number of confirmations: what locations lead to, whose transaction  *)
(* a proof is of, and where a confirmed transaction stands.                *)
(* The last part is about the header chain the light node checks with.     *)
(***************************************************************************)
EXTENDS ProofService, HeaderStream, TLAPS

-----------------------------------------------------------------------------
(* The invariant *)

Txs == [name : Names \cup {NoName}, id : Nat]
BlockRecs == [slot : Int, txs : Seq(Txs)]
Incomings == [slot : Int, txs : Seq(Txs), tree : SUBSET Names, location : SUBSET Names]

ChainOK == chain \in Seq(BlockRecs) /\ Len(chain) > 0

\* The block that is being added: later than the tip, with a transaction for
\* each name still to be written; a name is written into the tree first.
IncomingOK ==
  /\ incoming \in Incomings
  /\ incoming.txs # <<>> => incoming.slot > chain[Len(chain)].slot
  /\ incoming.tree \subseteq incoming.location
  /\ \A n \in incoming.location : \E i \in DOMAIN incoming.txs : incoming.txs[i].name = n

\* Every location is that of a transaction of its name; it is that of the entry
\* in the tree, unless the entry was just written and the location was not.
IndexOK ==
  /\ tree \in [Names -> Txs \cup {NoTx}]
  /\ location \in [Names -> [block : Int, pos : Int]]
  /\ \A n \in Names :
       /\ tree[n] # NoTx => tree[n].name = n
       /\ location[n] # NoLoc => Placed(location[n], n)
       /\ n \notin incoming.location /\ tree[n] # NoTx =>
            PlacedTx(location[n], n, tree[n])
       /\ n \in incoming.location \ incoming.tree =>
            tree[n] = incoming.txs[TxIndex(incoming.txs, n) + 1]

\* The location a query has read stays the place of a transaction of its name.
ServerOK ==
  server.at # "idle" =>
    /\ server.tx.name \in Names /\ server.via # "gossip"
    /\ server.at = "block" => Placed(server.loc, server.tx.name)

\* A proof was made from a stored block.
Stored(i, leaf) ==
  /\ i \in Int /\ i + 1 \in DOMAIN chain
  /\ \E j \in DOMAIN chain[i + 1].txs : leaf = LeafHash(chain[i + 1].txs[j])

AnswersOK == \A r \in Proofs : Stored(r.block, r.proof.leaf)

LightOK ==
  /\ tip \in Int /\ tip < Len(chain)
  /\ \A c \in confirmed : /\ Stored(c.block, c.leaf)
                          /\ c.block + Confirmations <= Len(chain) - 1

RequestsOK == \A r \in requests : r.name \in Names

ServiceInv ==
  /\ ChainOK /\ IncomingOK /\ IndexOK
  /\ RequestsOK /\ ServerOK /\ AnswersOK /\ LightOK

-----------------------------------------------------------------------------
(* Steps that leave the blocks alone *)

\* The chain, the index and the block in work stay as they are.
LEMMA BlocksSame ==
  ASSUME ServiceInv, UNCHANGED <<chain, tree, location, incoming>>
  PROVE  ChainOK' /\ IncomingOK' /\ IndexOK'
<1>1. ChainOK'
  BY DEF ServiceInv, ChainOK
<1>2. IncomingOK'
  BY DEF ServiceInv, IncomingOK
<1>3. IndexOK'
  <2>1. \A l, n : Placed(l, n)' <=> Placed(l, n)
    BY DEF Placed
  <2>2. \A l, n, t : PlacedTx(l, n, t)' <=> PlacedTx(l, n, t)
    BY DEF PlacedTx
  <2> QED
    BY <2>1, <2>2 DEF ServiceInv, IndexOK
<1> QED
  BY <1>1, <1>2, <1>3

\* Nothing is asked, looked up or learned.
LEMMA QueriesSame ==
  ASSUME ServiceInv, UNCHANGED <<chain, incoming>>,
         requests' \subseteq requests, UNCHANGED server,
         \A r \in answers' : r \in answers \/ r.via = "gossip",
         UNCHANGED <<tip, confirmed>>
  PROVE  RequestsOK' /\ ServerOK' /\ AnswersOK' /\ LightOK'
<1>1. RequestsOK'
  BY DEF ServiceInv, RequestsOK
<1>2. ServerOK'
  <2>1. \A l, n : Placed(l, n)' <=> Placed(l, n)
    BY DEF Placed
  <2> QED
    BY <2>1 DEF ServiceInv, ServerOK
<1>3. \A i, h : Stored(i, h)' <=> Stored(i, h)
  BY DEF Stored
<1>5. AnswersOK'
  BY <1>3 DEF ServiceInv, AnswersOK, Proofs
<1>6. LightOK'
  BY <1>3 DEF ServiceInv, LightOK
<1> QED
  BY <1>1, <1>2, <1>5, <1>6

-----------------------------------------------------------------------------
(* The full node takes a block *)

\* The transactions of a block, one of which is of the name.
LEMMA BlockTxsType ==
  ASSUME ServiceInv, NEW n \in Names \cup {NoName}, NEW size \in Sizes, NEW pos \in 0 .. size - 1
  PROVE  /\ BlockTxs(n, size, pos) \in Seq(Txs)
         /\ \E i \in DOMAIN BlockTxs(n, size, pos) : BlockTxs(n, size, pos)[i].name = n
<1>1. size \in Nat \ {0} /\ Len(chain) \in Nat
  BY ProofsAssumption DEF ServiceInv, ChainOK
<1>2. \A i \in 1 .. size : 10 * Len(chain) + i \in Nat
  BY <1>1
<1>3. BlockTxs(n, size, pos) \in [1 .. size -> Txs]
  BY <1>2 DEF BlockTxs, Txs
<1>4. pos + 1 \in 1 .. size /\ BlockTxs(n, size, pos)[pos + 1].name = n
  BY <1>1 DEF BlockTxs
<1> QED
  BY <1>1, <1>3, <1>4

\* A transaction of a name is found at the index TxIndex gives.
LEMMA TxIndexFinds ==
  ASSUME NEW txs \in Seq(Txs), NEW n, \E i \in DOMAIN txs : txs[i].name = n
  PROVE  /\ TxIndex(txs, n) \in Int /\ TxIndex(txs, n) + 1 \in DOMAIN txs
         /\ txs[TxIndex(txs, n) + 1].name = n
<1> DEFINE i == CHOOSE j \in DOMAIN txs : txs[j].name = n
<1>1. i \in DOMAIN txs /\ txs[i].name = n
  OBVIOUS
<1> HIDE DEF i
<1>2. i \in Int /\ (i - 1) + 1 = i
  BY <1>1
<1>3. TxIndex(txs, n) = i - 1
  BY DEF TxIndex, i
<1> QED
  BY <1>1, <1>2, <1>3

\* A block arrives: no location is of it yet.
LEMMA ArriveKeeps ==
  ASSUME ServiceInv, NEW s \in 1 .. MaxSlot, NEW n \in Names \cup {NoName},
         NEW size \in Sizes, NEW pos \in 0 .. size - 1, BlockArrives(s, n, size, pos)
  PROVE  ServiceInv'
<1> DEFINE b == BlockTxs(n, size, pos)
<1>1. /\ incoming = NoBlock /\ s > chain[Len(chain)].slot
      /\ incoming' = [slot |-> s, txs |-> b, tree |-> {n} \cap Names,
                      location |-> {n} \cap Names]
      /\ UNCHANGED <<chain, tree, location, server, requests, answers, tip, confirmed>>
  BY DEF BlockArrives, Last, messages, light
<1>2. b \in Seq(Txs) /\ \E i \in DOMAIN b : b[i].name = n
  BY BlockTxsType
<1> HIDE DEF b
<1>3. /\ incoming'.txs = b /\ incoming'.slot = s /\ incoming'.tree = {n} \cap Names
      /\ incoming'.location = {n} \cap Names /\ incoming.location = {} /\ incoming.txs = <<>>
  BY <1>1 DEF NoBlock
<1>4. ChainOK'
  BY <1>1 DEF ServiceInv, ChainOK
<1>5. IncomingOK'
  <2>1. incoming' \in Incomings
    BY <1>1, <1>2 DEF Incomings
  <2> QED
    BY <1>1, <1>2, <1>3, <2>1 DEF IncomingOK
<1>6. \A l, m : Placed(l, m) => Placed(l, m)'
  BY <1>1, <1>3 DEF Placed, In
<1>7. \A l, m, t : PlacedTx(l, m, t) => PlacedTx(l, m, t)'
  BY <1>1, <1>3 DEF PlacedTx, In
<1>8. IndexOK'
  BY <1>1, <1>3, <1>6, <1>7 DEF ServiceInv, IndexOK
<1>9. RequestsOK' /\ ServerOK'
  BY <1>1, <1>6 DEF ServiceInv, RequestsOK, ServerOK
<1>10. AnswersOK' /\ LightOK'
  BY <1>1 DEF ServiceInv, AnswersOK, LightOK, Proofs, Stored
<1> QED
  BY <1>4, <1>5, <1>8, <1>9, <1>10 DEF ServiceInv

\* The entry is written into the tree; its location is still to come.
LEMMA TreeKeeps ==
  ASSUME ServiceInv, NEW n \in Names, CommitTree(n)
  PROVE  ServiceInv'
<1> DEFINE t == incoming.txs[TxIndex(incoming.txs, n) + 1]
<1>1. /\ n \in incoming.tree /\ n \in incoming.location
      /\ tree' = [tree EXCEPT ![n] = t]
      /\ incoming' = [incoming EXCEPT !.tree = @ \ {n}]
      /\ UNCHANGED <<chain, location, server, requests, answers, tip, confirmed>>
  BY DEF CommitTree, messages, light, ServiceInv, IncomingOK
<1>2. /\ incoming' \in Incomings /\ incoming'.txs = incoming.txs
      /\ incoming'.slot = incoming.slot /\ incoming'.location = incoming.location
      /\ incoming'.tree = incoming.tree \ {n}
  BY <1>1 DEF ServiceInv, IncomingOK, Incomings
<1>3. t \in Txs /\ t.name = n
  <2>1. incoming.txs \in Seq(Txs) /\ \E i \in DOMAIN incoming.txs : incoming.txs[i].name = n
    BY <1>1 DEF ServiceInv, IncomingOK, Incomings
  <2> QED
    BY <2>1, TxIndexFinds
<1>4. ChainOK'
  BY <1>1 DEF ServiceInv, ChainOK
<1>5. IncomingOK'
  BY <1>1, <1>2 DEF ServiceInv, IncomingOK
<1>6. /\ \A l, m : Placed(l, m)' <=> Placed(l, m)
      /\ \A l, m, u : PlacedTx(l, m, u)' <=> PlacedTx(l, m, u)
  BY <1>1, <1>2 DEF Placed, PlacedTx, In
<1>7. IndexOK'
  <2>1. tree \in [Names -> Txs \cup {NoTx}]
    BY DEF ServiceInv, IndexOK
  <2>2. /\ tree' \in [Names -> Txs \cup {NoTx}]
        /\ tree'[n] = t /\ \A m \in Names \ {n} : tree'[m] = tree[m]
    <3> HIDE DEF t
    <3> QED
      BY <1>1, <1>3, <2>1
  <2>3. \A m \in Names \ {n} : /\ m \in incoming'.location <=> m \in incoming.location
                               /\ m \in incoming'.tree <=> m \in incoming.tree
    BY <1>2
  <2>4. ASSUME NEW m \in Names
        PROVE  /\ tree'[m] # NoTx => tree'[m].name = m
               /\ location'[m] # NoLoc => Placed(location[m], m)'
               /\ m \notin incoming'.location /\ tree'[m] # NoTx =>
                    PlacedTx(location[m], m, tree[m])'
               /\ m \in incoming'.location \ incoming'.tree =>
                    tree'[m] = incoming'.txs[TxIndex(incoming'.txs, m) + 1]
    <3>1. CASE m = n
      BY <1>1, <1>2, <1>3, <1>6, <2>2, <3>1 DEF ServiceInv, IndexOK
    <3>2. CASE m # n
      BY <1>1, <1>2, <1>6, <2>2, <2>3, <3>2 DEF ServiceInv, IndexOK
    <3> QED
      BY <3>1, <3>2
  <2> QED
    BY <1>1, <2>2, <2>4 DEF ServiceInv, IndexOK
<1>8. RequestsOK' /\ ServerOK'
  BY <1>1, <1>6 DEF ServiceInv, RequestsOK, ServerOK
<1>9. AnswersOK' /\ LightOK'
  BY <1>1 DEF ServiceInv, AnswersOK, LightOK, Proofs, Stored
<1> QED
  BY <1>4, <1>5, <1>7, <1>8, <1>9 DEF ServiceInv

\* The location of the entry in the tree follows.
LEMMA LocationKeeps ==
  ASSUME ServiceInv, NEW n \in Names, CommitLocation(n)
  PROVE  ServiceInv'
<1> DEFINE x == TxIndex(incoming.txs, n)
           l == [block |-> incoming.slot, pos |-> x]
<1>1. /\ n \in incoming.location \ incoming.tree
      /\ location' = [location EXCEPT ![n] = l]
      /\ incoming' = [incoming EXCEPT !.location = @ \ {n}]
      /\ UNCHANGED <<chain, tree, server, requests, answers, tip, confirmed>>
  BY DEF CommitLocation, messages, light
<1>2. /\ incoming' \in Incomings /\ incoming'.txs = incoming.txs
      /\ incoming'.slot = incoming.slot /\ incoming'.tree = incoming.tree
      /\ incoming'.location = incoming.location \ {n}
  BY <1>1 DEF ServiceInv, IncomingOK, Incomings
<1>3. /\ x \in Int /\ x + 1 \in DOMAIN incoming.txs /\ incoming.txs[x + 1].name = n
      /\ incoming.slot \in Int /\ tree[n] = incoming.txs[x + 1]
  <2>1. incoming.txs \in Seq(Txs) /\ \E i \in DOMAIN incoming.txs : incoming.txs[i].name = n
    BY <1>1 DEF ServiceInv, IncomingOK, Incomings
  <2>2. incoming.slot \in Int /\ tree[n] = incoming.txs[x + 1]
    BY <1>1 DEF ServiceInv, IncomingOK, Incomings, IndexOK
  <2> QED
    BY <2>1, <2>2, TxIndexFinds
<1>4. ChainOK'
  BY <1>1 DEF ServiceInv, ChainOK
<1>5. IncomingOK'
  BY <1>1, <1>2 DEF ServiceInv, IncomingOK
<1>6. /\ \A k, m : Placed(k, m)' <=> Placed(k, m)
      /\ \A k, m, u : PlacedTx(k, m, u)' <=> PlacedTx(k, m, u)
  BY <1>1, <1>2 DEF Placed, PlacedTx, In
<1> HIDE DEF x
<1>7. Placed(l, n) /\ PlacedTx(l, n, tree[n])
  BY <1>3 DEF Placed, PlacedTx, In
<1>8. IndexOK'
  <2>1. location \in [Names -> [block : Int, pos : Int]] /\ l \in [block : Int, pos : Int]
    BY <1>3 DEF ServiceInv, IndexOK
  <2> HIDE DEF l
  <2>2. /\ location' \in [Names -> [block : Int, pos : Int]]
        /\ location'[n] = l /\ \A m \in Names \ {n} : location'[m] = location[m]
    BY <1>1, <2>1
  <2>3. \A m \in Names \ {n} : m \in incoming'.location <=> m \in incoming.location
    BY <1>2
  <2>4. ASSUME NEW m \in Names
        PROVE  /\ tree'[m] # NoTx => tree'[m].name = m
               /\ location'[m] # NoLoc => Placed(location[m], m)'
               /\ m \notin incoming'.location /\ tree'[m] # NoTx =>
                    PlacedTx(location[m], m, tree[m])'
               /\ m \in incoming'.location \ incoming'.tree =>
                    tree'[m] = incoming'.txs[TxIndex(incoming'.txs, m) + 1]
    <3>1. CASE m = n
      BY <1>1, <1>2, <1>6, <1>7, <2>2, <3>1 DEF ServiceInv, IndexOK
    <3>2. CASE m # n
      BY <1>1, <1>2, <1>6, <2>2, <2>3, <3>2 DEF ServiceInv, IndexOK
    <3> QED
      BY <3>1, <3>2
  <2> QED
    BY <1>1, <2>2, <2>4 DEF ServiceInv, IndexOK
<1>9. RequestsOK' /\ ServerOK'
  BY <1>1, <1>6 DEF ServiceInv, RequestsOK, ServerOK
<1>10. AnswersOK' /\ LightOK'
  BY <1>1 DEF ServiceInv, AnswersOK, LightOK, Proofs, Stored
<1> QED
  BY <1>4, <1>5, <1>8, <1>9, <1>10 DEF ServiceInv

\* The block is stored: what was placed in it is placed in the chain.
LEMMA StoreKeeps ==
  ASSUME ServiceInv, StoreBlock
  PROVE  ServiceInv'
<1> DEFINE b == [slot |-> incoming.slot, txs |-> incoming.txs]
           L == Len(chain)
<1>1. /\ chain' = Append(chain, b) /\ incoming' = NoBlock /\ incoming.location = {}
      /\ UNCHANGED <<tree, location, server, requests, answers, tip, confirmed>>
  BY DEF StoreBlock, messages, light
<1>2. /\ chain \in Seq(BlockRecs) /\ L \in Nat \ {0} /\ b \in BlockRecs
  BY DEF ServiceInv, ChainOK, IncomingOK, Incomings, BlockRecs
<1>3. /\ chain' \in Seq(BlockRecs) /\ Len(chain') = L + 1 /\ chain'[L + 1] = b
      /\ DOMAIN chain = 1 .. L /\ DOMAIN chain' = 1 .. L + 1
      /\ \A i \in 1 .. L : i \in 1 .. L + 1 /\ chain'[i] = chain[i]
      /\ L + 1 \in 1 .. L + 1
  <2> HIDE DEF b
  <2> QED
    BY <1>1, <1>2
<1>4. /\ incoming'.txs = <<>> /\ incoming'.tree = {} /\ incoming'.location = {}
      /\ b.slot = incoming.slot /\ b.txs = incoming.txs /\ NoBlock \in Incomings
  BY <1>1 DEF NoBlock, Incomings
<1> HIDE DEF b
<1>5. ChainOK'
  BY <1>2, <1>3 DEF ChainOK
<1>6. IncomingOK'
  BY <1>1, <1>4 DEF IncomingOK
<1>7. \A l, m : Placed(l, m) => Placed(l, m)'
  BY <1>3, <1>4 DEF Placed, In
<1>8. \A l, m, u : PlacedTx(l, m, u) => PlacedTx(l, m, u)'
  BY <1>3, <1>4 DEF PlacedTx, In
<1>9. IndexOK'
  BY <1>1, <1>4, <1>7, <1>8 DEF ServiceInv, IndexOK
<1>10. RequestsOK' /\ ServerOK'
  BY <1>1, <1>7 DEF ServiceInv, RequestsOK, ServerOK
<1>11. \A i, h : Stored(i, h) => Stored(i, h)'
  BY <1>3 DEF Stored
<1>13. AnswersOK'
  BY <1>1, <1>11 DEF ServiceInv, AnswersOK, Proofs
<1>14. LightOK'
  <2>1. tip' \in Int /\ tip' < Len(chain')
    BY <1>1, <1>2, <1>3 DEF ServiceInv, LightOK
  <2>2. ASSUME NEW c \in confirmed
        PROVE  Stored(c.block, c.leaf)' /\ c.block + Confirmations <= Len(chain') - 1
    <3>1. Stored(c.block, c.leaf) /\ c.block + Confirmations <= L - 1
      BY DEF ServiceInv, LightOK
    <3>2. c.block + Confirmations \in Int
      <4>1. c.block \in Int /\ Confirmations \in Nat
        BY <3>1, ProofsAssumption DEF Stored
      <4> QED
        BY <4>1
    <3> QED
      BY <1>2, <1>3, <1>11, <3>1, <3>2
  <2> QED
    BY <1>1, <2>1, <2>2 DEF LightOK
<1> QED
  BY <1>5, <1>6, <1>9, <1>10, <1>13, <1>14 DEF ServiceInv

-----------------------------------------------------------------------------
(* The full node answers *)

\* A look-up takes an entry of the tree, a later read its location.
LEMMA ServerKeeps ==
  ASSUME ServiceInv, Locate \/ \E r \in requests : LookUp(r)
  PROVE  ServiceInv'
<1>1. /\ UNCHANGED <<chain, tree, location, incoming, answers, tip, confirmed>>
      /\ requests' \subseteq requests
  BY DEF Locate, LookUp, blocks, light
<1>2. ChainOK' /\ IncomingOK' /\ IndexOK'
  BY <1>1, BlocksSame
<1>3. RequestsOK' /\ AnswersOK' /\ LightOK'
  <2>1. \A i, h : Stored(i, h)' <=> Stored(i, h)
    BY <1>1 DEF Stored
  <2> QED
    BY <1>1, <2>1 DEF ServiceInv, RequestsOK, AnswersOK, LightOK, Proofs
<1>4. \A l, m : Placed(l, m)' <=> Placed(l, m)
  BY <1>1 DEF Placed
<1>5. ServerOK'
  <2>1. CASE Locate
    <3> DEFINE n == server.tx.name
    <3>1. n \in Names /\ server.via # "gossip"
      BY <2>1 DEF ServiceInv, ServerOK, Locate
    <3>2. CASE location[n] = NoLoc
      BY <2>1, <3>2 DEF Locate, Idle, ServerOK
    <3>3. CASE location[n] # NoLoc
      <4>1. Placed(location[n], n)
        BY <3>1, <3>3 DEF ServiceInv, IndexOK
      <4>2. server' = [server EXCEPT !.at = "block", !.loc = location[n]]
        BY <2>1, <3>3 DEF Locate
      <4>3. server.at = "location"
        BY <2>1 DEF Locate
      <4> QED
        BY <1>4, <3>1, <4>1, <4>2, <4>3 DEF ServerOK
    <3> QED
      BY <3>2, <3>3
  <2>2. CASE \E r \in requests : LookUp(r)
    <3>1. PICK r \in requests : LookUp(r)
      BY <2>2
    <3>2. r.name \in Names /\ r.via # "gossip"
      BY <3>1 DEF ServiceInv, RequestsOK, LookUp
    <3>3. CASE Resolves(r.name)
      <4>1. tree[r.name].name = r.name
        BY <3>2, <3>3 DEF ServiceInv, IndexOK, Resolves
      <4>2. server' = [Idle EXCEPT !.at = "location", !.via = r.via, !.tx = tree[r.name]]
        BY <3>1, <3>3 DEF LookUp
      <4>3. server'.at = "location" /\ server'.via = r.via /\ server'.tx = tree[r.name]
        BY <4>2 DEF Idle
      <4> QED
        BY <3>2, <4>1, <4>3 DEF ServerOK
    <3>4. CASE ~Resolves(r.name)
      BY <3>1, <3>4 DEF LookUp, Idle, ServerOK
    <3> QED
      BY <3>3, <3>4
  <2> QED
    BY <2>1, <2>2
<1> QED
  BY <1>2, <1>3, <1>5 DEF ServiceInv

\* A proof is made from whatever stored block stands at the index that the
\* location says.
LEMMA ProofKeeps ==
  ASSUME ServiceInv, SendProof
  PROVE  ServiceInv'
<1> DEFINE l == server.loc
           n == server.tx.name
           new == Proved(l.block, l.pos)
<1>1. /\ UNCHANGED <<chain, tree, location, incoming, requests, tip, confirmed>>
      /\ server' = Idle /\ answers' = answers \cup new
      /\ server.at = "block"
  BY DEF SendProof, blocks, light
<1>2. ChainOK' /\ IncomingOK' /\ IndexOK'
  BY <1>1, BlocksSame
<1>3. \A i, h : Stored(i, h)' <=> Stored(i, h)
  BY <1>1 DEF Stored
<1>4. RequestsOK' /\ ServerOK' /\ LightOK'
  BY <1>1, <1>3 DEF ServiceInv, RequestsOK, ServerOK, LightOK, Idle
<1>5. Placed(l, n)
  BY <1>1 DEF ServiceInv, ServerOK
<1>6. ASSUME NEW r \in new
      PROVE  Stored(r.block, r.proof.leaf)
  <2> DEFINE b == l.block
             txs == chain[b + 1].txs
  <2>1. /\ b + 1 \in DOMAIN chain /\ l.pos + 1 \in DOMAIN txs
        /\ r.block = b /\ r.proof = GenerateMerkleProof(txs, l.pos)
    BY <1>6 DEF Proved, HasBlock
  <2>2. r.proof.leaf = LeafHash(txs[l.pos + 1])
    BY <2>1 DEF GenerateMerkleProof
  <2>3. b \in Int
    <3>1. incoming.slot \in Int
      BY DEF ServiceInv, IncomingOK, Incomings
    <3>2. ASSUME NEW i \in DOMAIN chain PROVE chain[i].slot \in Int
      <4>1. chain[i] \in BlockRecs
        BY DEF ServiceInv, ChainOK
      <4> QED
        BY <4>1 DEF BlockRecs
    <3> QED
      BY <1>5, <3>1, <3>2 DEF Placed, In
  <2> QED
    BY <2>1, <2>2, <2>3 DEF Stored
<1> HIDE DEF new
<1>7. AnswersOK'
  BY <1>1, <1>3, <1>6 DEF ServiceInv, AnswersOK, Proofs
<1> QED
  BY <1>2, <1>4, <1>7 DEF ServiceInv

-----------------------------------------------------------------------------
(* The light node *)

\* A request is for a name.
LEMMA RequestKeeps ==
  ASSUME ServiceInv, NEW n \in Names, NEW via, Request(n, via)
  PROVE  ServiceInv'
<1>1. /\ UNCHANGED <<chain, tree, location, incoming, server, answers, tip, confirmed>>
      /\ requests' = requests \cup {[via |-> via, name |-> n]}
  BY DEF Request, blocks, light
<1>2. ChainOK' /\ IncomingOK' /\ IndexOK'
  BY <1>1, BlocksSame
<1>3. RequestsOK'
  BY <1>1 DEF ServiceInv, RequestsOK
<1>4. \A l, m : Placed(l, m)' <=> Placed(l, m)
  BY <1>1 DEF Placed
<1>5. ServerOK'
  BY <1>1, <1>4 DEF ServiceInv, ServerOK
<1>6. AnswersOK' /\ LightOK'
  BY <1>1 DEF ServiceInv, AnswersOK, LightOK, Proofs, Stored
<1> QED
  BY <1>2, <1>3, <1>5, <1>6 DEF ServiceInv

\* Steps that neither ask, nor answer with a proof, nor confirm.
LEMMA QuietKeeps ==
  ASSUME ServiceInv,
         \/ ReceiveHeader
         \/ \E n \in Names : ChangePhase(n) \/ CacheExpires(n)
         \/ \E r \in requests : DNSRequestHandler(r)
         \/ \E r \in answers : HandleDNSProof(r) \/ HeaderTimeout(r) \/ DNSResponseHandler(r)
  PROVE  ServiceInv'
<1>1. UNCHANGED <<chain, tree, location, incoming, server, tip, confirmed>>
  BY DEF ReceiveHeader, ChangePhase, CacheExpires, DNSRequestHandler, HandleDNSProof,
         HeaderTimeout, DNSResponseHandler, blocks, messages, light
<1>2. /\ requests' \subseteq requests
      /\ \A r \in answers' : r \in answers \/ r.via = "gossip"
  BY DEF ReceiveHeader, ChangePhase, CacheExpires, DNSRequestHandler, HandleDNSProof,
         HeaderTimeout, DNSResponseHandler, messages
<1> QED
  BY <1>1, <1>2, BlocksSame, QueriesSame DEF ServiceInv

\* The light node's own chain never overtakes the full node's.
LEMMA TipKeeps ==
  ASSUME ServiceInv, ReceiveBlock
  PROVE  ServiceInv'
<1>1. /\ UNCHANGED <<chain, tree, location, incoming, server, requests, answers, confirmed>>
      /\ tip' = tip + 1 /\ tip + 1 < Len(chain)
  BY DEF ReceiveBlock, blocks
<1>2. ChainOK' /\ IncomingOK' /\ IndexOK'
  BY <1>1, BlocksSame
<1>3. \A l, m : Placed(l, m)' <=> Placed(l, m)
  BY <1>1 DEF Placed
<1>4. RequestsOK' /\ ServerOK'
  BY <1>1, <1>3 DEF ServiceInv, RequestsOK, ServerOK
<1>5. AnswersOK'
  BY <1>1 DEF ServiceInv, AnswersOK, Proofs, Stored
<1>6. LightOK'
  <2>1. \A i, h : Stored(i, h)' <=> Stored(i, h)
    BY <1>1 DEF Stored
  <2> QED
    BY <1>1, <2>1 DEF ServiceInv, LightOK
<1> QED
  BY <1>2, <1>4, <1>5, <1>6 DEF ServiceInv

\* A proof is confirmed when the light node's chain is long enough.
LEMMA ConfirmKeeps ==
  ASSUME ServiceInv, NEW r \in answers, HandleDNSProofGRPC(r)
  PROVE  ServiceInv'
<1>1. /\ UNCHANGED <<chain, tree, location, incoming, server, requests, tip>>
      /\ answers' = answers \ {r} /\ r \in Proofs
  BY DEF HandleDNSProofGRPC, blocks, Proofs
<1>2. ChainOK' /\ IncomingOK' /\ IndexOK'
  BY <1>1, BlocksSame
<1>3. \A l, m : Placed(l, m)' <=> Placed(l, m)
  BY <1>1 DEF Placed
<1>4. RequestsOK' /\ ServerOK'
  BY <1>1, <1>3 DEF ServiceInv, RequestsOK, ServerOK
<1>5. \A i, h : Stored(i, h)' <=> Stored(i, h)
  BY <1>1 DEF Stored
<1>6. AnswersOK'
  BY <1>1, <1>5 DEF ServiceInv, AnswersOK, Proofs
<1>7. LightOK'
  <2> DEFINE c == [block |-> r.block, leaf |-> r.proof.leaf]
  <2>1. Stored(c.block, c.leaf) /\ c.block = r.block
    BY <1>1 DEF ServiceInv, AnswersOK
  <2>2. EnoughConfirmations(r) => c.block + Confirmations <= Len(chain) - 1
    <3>1. /\ r.block \in Int /\ Confirmations \in Nat /\ tip \in Int
          /\ Len(chain) \in Nat /\ tip < Len(chain)
      BY <2>1, ProofsAssumption DEF Stored, ServiceInv, LightOK, ChainOK
    <3> QED
      BY <2>1, <3>1 DEF EnoughConfirmations
  <2>3. confirmed' = confirmed \/ (EnoughConfirmations(r) /\ confirmed' = confirmed \cup {c})
    BY DEF HandleDNSProofGRPC
  <2> HIDE DEF c
  <2> QED
    BY <1>1, <1>5, <2>1, <2>2, <2>3 DEF ServiceInv, LightOK
<1> QED
  BY <1>2, <1>4, <1>6, <1>7 DEF ServiceInv

-----------------------------------------------------------------------------
(* The theorems *)

\* Full node and light node keep ServiceInv, however commits of blocks, queries
\* and messages interleave.
THEOREM ServiceInvHolds == Spec => []ServiceInv
<1>1. Init => ServiceInv
  <2> SUFFICES ASSUME Init PROVE ServiceInv
    OBVIOUS
  <2>1. chain = <<Genesis>> /\ Genesis \in BlockRecs
    BY DEF Init, Genesis, BlockRecs
  <2>2. ChainOK
    BY <2>1 DEF ChainOK
  <2>3. IncomingOK
    BY DEF Init, IncomingOK, NoBlock, Incomings
  <2>4. IndexOK
    BY DEF Init, IndexOK, NoBlock, NoLoc
  <2>5. RequestsOK /\ ServerOK /\ AnswersOK
    BY DEF Init, RequestsOK, ServerOK, AnswersOK, Proofs, Idle
  <2>6. LightOK
    BY <2>1 DEF Init, LightOK
  <2> QED
    BY <2>2, <2>3, <2>4, <2>5, <2>6 DEF ServiceInv
<1>2. ServiceInv /\ [Next]_vars => ServiceInv'
  <2> SUFFICES ASSUME ServiceInv, [Next]_vars PROVE ServiceInv'
    OBVIOUS
  <2>1. ASSUME NEW s \in 1 .. MaxSlot, NEW n \in Names \cup {NoName},
               NEW size \in Sizes, NEW pos \in 0 .. size - 1, BlockArrives(s, n, size, pos)
        PROVE  ServiceInv'
    BY <2>1, ArriveKeeps
  <2>2. ASSUME NEW n \in Names, CommitTree(n) \/ CommitLocation(n) PROVE ServiceInv'
    BY <2>2, TreeKeeps, LocationKeeps
  <2>3. CASE StoreBlock \/ SendProof \/ ReceiveBlock
    BY <2>3, StoreKeeps, ProofKeeps, TipKeeps
  <2>4. CASE Locate \/ \E r \in requests : LookUp(r)
    BY <2>4, ServerKeeps
  <2>5. ASSUME NEW n \in Names, MakeDNSRequest(n) \/ Request(n, "dns") \/ Request(n, "grpc")
        PROVE  ServiceInv'
    BY <2>5, RequestKeeps DEF MakeDNSRequest
  <2>6. ASSUME NEW r \in answers, HandleDNSProofGRPC(r) PROVE ServiceInv'
    BY <2>6, ConfirmKeeps
  <2>7. CASE \/ ReceiveHeader
             \/ \E n \in Names : ChangePhase(n) \/ CacheExpires(n)
             \/ \E r \in requests : DNSRequestHandler(r)
             \/ \E r \in answers : HandleDNSProof(r) \/ HeaderTimeout(r)
                                      \/ DNSResponseHandler(r)
    BY <2>7, QuietKeeps
  <2>8. CASE UNCHANGED vars
    <3>1. UNCHANGED <<chain, tree, location, incoming, server, requests, answers,
                      tip, confirmed>>
      BY <2>8 DEF vars, blocks, light
    <3> QED
      BY <3>1, BlocksSame, QueriesSame DEF ServiceInv
  <2> QED
    BY <2>1, <2>2, <2>3, <2>4, <2>5, <2>6, <2>7, <2>8 DEF Next
<1> QED
  BY <1>1, <1>2, PTL DEF Spec

\* Taken for the slot of a block and a position in it, a location is always the
\* place of a transaction of its name, and that of the entry in the tree once
\* AddBlock is done (index_manager.go:115-118, node_helper.go:54-80), for every
\* set of names, every block size and every choice of slots.
THEOREM LocationsStayBySlot == Spec => []LocationsBySlot
<1>1. ServiceInv => LocationsBySlot
  BY DEF ServiceInv, IndexOK, LocationsBySlot, NoBlock
<1> QED
  BY <1>1, ServiceInvHolds, PTL

\* What a query holds after its two reads, the records and the place of a
\* transaction, is of the name it asked for, however the commit of blocks runs
\* between the reads (node_helper.go:233-262, server.go:121-139).
THEOREM QueriesHoldTheName == Spec => []QueryHoldsName
<1>1. ServiceInv => QueryHoldsName
  BY DEF ServiceInv, ServerOK, QueryHoldsName
<1> QED
  BY <1>1, ServiceInvHolds, PTL

\* A transaction HandleDNSProofGRPC accepts (node_helper.go:375-413) is in the
\* full node's chain under at least kConfirmations blocks.
THEOREM ConfirmedAreBuried == Spec => []ConfirmedIsBuried
<1>1. ServiceInv => ConfirmedIsBuried
  <2> SUFFICES ASSUME ServiceInv, NEW c \in confirmed
               PROVE  /\ Len(chain) - 1 >= c.block + Confirmations
                      /\ \E i \in DOMAIN chain[c.block + 1].txs :
                           c.leaf = LeafHash(chain[c.block + 1].txs[i])
    BY DEF ConfirmedIsBuried
  <2>1. Stored(c.block, c.leaf) /\ c.block + Confirmations <= Len(chain) - 1
    BY DEF ServiceInv, LightOK
  <2>2. c.block \in Int /\ Confirmations \in Nat /\ Len(chain) \in Nat
    BY <2>1, ProofsAssumption DEF Stored, ServiceInv, ChainOK
  <2> QED
    BY <2>1, <2>2 DEF Stored
<1> QED
  BY <1>1, ServiceInvHolds, PTL

-----------------------------------------------------------------------------
(* The header chain *)

(* ProofService takes the light node's HeaderChain for the headers of the     *)
(* blocks 0 .. known - 1.  HeaderStream fills that chain, from nothing, from  *)
(* streams that replay, repeat, drop and reorder headers; here it is shown    *)
(* that the chain has no gap all the same, so that the header waitForHeader   *)
(* takes is off by the index of the first header and by nothing else.         *)

HeadersInv == headers \in Seq(Int) /\ HeadersConsecutive

\* AddBlockHeader (node.go) appends a header only after its predecessor.
LEMMA AddedInPlace ==
  ASSUME NEW hs \in Seq(Int), \A k \in DOMAIN hs : hs[k] = hs[1] + k - 1, NEW h \in Int
  PROVE  LET added == AddBlockHeader(hs, h)
         IN  /\ added \in Seq(Int)
             /\ \A k \in DOMAIN added : added[k] = added[1] + k - 1
<1> DEFINE added == AddBlockHeader(hs, h)
<1>1. CASE hs = <<>>
  <2>1. added = <<h>>
    BY <1>1 DEF AddBlockHeader
  <2> QED
    BY <2>1
<1>2. CASE hs # <<>> /\ hs[Len(hs)] + 1 = h
  <2>1. added = Append(hs, h)
    BY <1>2 DEF AddBlockHeader
  <2>2. Len(hs) \in Nat \ {0} /\ hs[1] \in Int /\ h = hs[1] + Len(hs)
    BY <1>2
  <2>3. /\ added \in Seq(Int) /\ DOMAIN added = 1 .. Len(hs) + 1
        /\ \A k \in 1 .. Len(hs) : added[k] = hs[k]
        /\ added[Len(hs) + 1] = h
    BY <2>1, <2>2
  <2>4. added[1] = hs[1] /\ hs[1] \in Int
    BY <2>2, <2>3
  <2>5. ASSUME NEW k \in DOMAIN added PROVE added[k] = added[1] + k - 1
    <3> HIDE DEF added
    <3>1. CASE k \in 1 .. Len(hs)
      <4>1. hs[k] = hs[1] + k - 1
        BY <3>1
      <4> QED
        BY <2>3, <2>4, <3>1, <4>1
    <3>2. CASE k = Len(hs) + 1
      BY <2>2, <2>3, <2>4, <3>2
    <3> QED
      BY <2>2, <2>3, <3>1, <3>2
  <2> QED
    BY <2>3, <2>5
<1>3. CASE hs # <<>> /\ hs[Len(hs)] + 1 # h
  BY <1>3 DEF AddBlockHeader
<1> QED
  BY <1>1, <1>2, <1>3

\* Headers are on their way only with the index of a block.
StreamsOK ==
  /\ tipOf \in Int /\ next \in [FullNodes -> Int]
  /\ height \in [FullNodes -> Int]
  /\ channel \in [FullNodes -> Seq(Int)]

\* Every step of a stream, and every block, offers the chain at most one header.
LEMMA HeadersOffered ==
  ASSUME HeadersInv, StreamsOK, [HSNext]_hsVars
  PROVE  /\ StreamsOK'
         /\ headers' = headers \/ \E h \in Int : headers' = AddBlockHeader(headers, h)
<1>1. CASE UNCHANGED hsVars
  BY <1>1 DEF hsVars, servers, StreamsOK
<1>2. CASE LightAddBlock
  BY <1>2 DEF LightAddBlock, StreamsOK, servers
<1>3. ASSUME NEW f \in FullNodes, MakeBlock(f)
      PROVE  StreamsOK' /\ headers' = headers
  BY <1>3 DEF MakeBlock, StreamsOK, servers
<1>4. ASSUME NEW f \in FullNodes, AddBlock(f)
      PROVE  StreamsOK' /\ headers' = headers
  <2>1. /\ headers' = headers /\ UNCHANGED <<tipOf, next>>
        /\ height' = [height EXCEPT ![f] = @ + 1]
        /\ \/ channel' = [channel EXCEPT ![f] = Append(@, height[f] + 1)]
           \/ UNCHANGED channel
    BY <1>4 DEF AddBlock
  <2>2. height[f] + 1 \in Int /\ channel[f] \in Seq(Int)
    BY DEF StreamsOK
  <2>3. Append(channel[f], height[f] + 1) \in Seq(Int)
    BY <2>2
  <2> QED
    <3> DEFINE c == Append(channel[f], height[f] + 1)
    <3>1. channel' = [channel EXCEPT ![f] = c] \/ UNCHANGED channel
      BY <2>1
    <3>2. c \in Seq(Int)
      BY <2>3
    <3> HIDE DEF c
    <3>3. channel' \in [FullNodes -> Seq(Int)]
      BY <3>1, <3>2 DEF StreamsOK
    <3>4. height' \in [FullNodes -> Int]
      BY <2>1, <2>2 DEF StreamsOK
    <3> QED
      BY <2>1, <3>3, <3>4 DEF StreamsOK
<1>5. ASSUME NEW f \in FullNodes, NEW then, StreamError(f, then)
      PROVE  StreamsOK' /\ headers' = headers
  BY <1>5 DEF StreamError, StreamsOK
<1>6. ASSUME NEW f \in FullNodes, Stream(f)
      PROVE  /\ StreamsOK'
             /\ headers' = headers \/ \E h \in Int : headers' = AddBlockHeader(headers, h)
  <2>1. CASE Subscribe(f)
    BY <2>1 DEF Subscribe, StreamsOK, HeadersInv
  <2>2. CASE SubscribeHeaders(f) \/ StartReplay(f) \/ Cleanup(f)
    <3>1. /\ UNCHANGED <<headers, tipOf, next, height>>
          /\ channel' = [channel EXCEPT ![f] = <<>>] \/ UNCHANGED channel
      BY <2>2 DEF SubscribeHeaders, StartReplay, Cleanup
    <3>2. channel \in [FullNodes -> Seq(Int)] /\ <<>> \in Seq(Int)
      BY DEF StreamsOK
    <3>3. channel' \in [FullNodes -> Seq(Int)]
      BY <3>1, <3>2, Zenon
    <3> QED
      BY <3>1, <3>3 DEF StreamsOK
  <2>3. CASE ReplayHeader(f)
    BY <2>3 DEF ReplayHeader, StreamsOK
  <2>4. CASE ForwardHeader(f)
    <3>1. channel[f] \in Seq(Int) /\ channel[f] # <<>>
      BY <2>4 DEF ForwardHeader, StreamsOK
    <3>2. Head(channel[f]) \in Int /\ Tail(channel[f]) \in Seq(Int)
      BY <3>1
    <3> QED
      BY <2>4, <3>2 DEF ForwardHeader, StreamsOK
  <2> QED
    BY <1>6, <2>1, <2>2, <2>3, <2>4 DEF Stream
<1> QED
  BY <1>1, <1>2, <1>3, <1>4, <1>5, <1>6 DEF HSNext

\* From the empty chain the program starts with, whatever the streams and gossip
\* deliver and in whatever order, AddBlockHeader (node.go:647-663) keeps the
\* headers consecutive, for every set of full nodes and every channel capacity.
THEOREM HeadersStayConsecutive == HSSpec => []HeadersConsecutive
<1>1. HSInit => HeadersInv /\ StreamsOK
  BY DEF HSInit, HeadersInv, HeadersConsecutive, StreamsOK, All
<1>2. HeadersInv /\ StreamsOK /\ [HSNext]_hsVars => HeadersInv' /\ StreamsOK'
  <2> SUFFICES ASSUME HeadersInv, StreamsOK, [HSNext]_hsVars PROVE HeadersInv' /\ StreamsOK'
    OBVIOUS
  <2>1. CASE headers' = headers
    BY <2>1, HeadersOffered DEF HeadersInv, HeadersConsecutive
  <2>2. ASSUME NEW h \in Int, headers' = AddBlockHeader(headers, h)
        PROVE  HeadersInv'
    BY <2>2, AddedInPlace DEF HeadersInv, HeadersConsecutive
  <2> QED
    BY <2>1, <2>2, HeadersOffered
<1>3. HeadersInv => HeadersConsecutive
  BY DEF HeadersInv
<1> QED
  BY <1>1, <1>2, <1>3, PTL DEF HSSpec

=============================================================================
