----------------------------- MODULE ProofService -----------------------------
(***************************************************************************)
(* How a light node learns a name: it asks a full node, which looks the    *)
(* name up in its index, finds the block of the transaction and answers    *)
(* with a Merkle proof; the light node waits for the header of the block,  *)
(* checks the proof and fills its cache (network/node_helper.go,           *)
(* gateway/server.go, network/resolver.go).  There is also the older       *)
(* request by gossip, whose answer has no proof (network/node.go).         *)
(*                                                                         *)
(* One full node.  Its AddBlock commits the index without holding          *)
(* TxMutex, name by name, the transaction before its location, and stores  *)
(* the block last; queries read in between.  A transaction is its name and *)
(* an id; transactions of other names fill a block up.                     *)
(***************************************************************************)
EXTENDS Integers, Merkle

CONSTANTS
  Names,          \* names asked for
  NoName,         \* the name of all other transactions
  Sizes,          \* numbers of transactions in a block
  SlotsPerEpoch,  \* a registry's first slot is the first of the second epoch
  Confirmations,  \* kConfirmations, 6 in the code
  MaxBlocks,      \* bound: blocks after genesis
  MaxSlot,        \* bound: slots
  MaxQueries      \* bound: requests of the light node

ASSUME ProofsAssumption ==
  /\ NoName \notin Names
  /\ Sizes \subseteq Nat \ {0}
  /\ SlotsPerEpoch \in Nat \ {0}
  /\ {Confirmations, MaxBlocks, MaxSlot, MaxQueries} \subseteq Nat

VARIABLES
  chain,      \* the full node's blocks: block index i is chain[i + 1]
  tree,       \* tree[n]: the transaction in the index, or NoTx
  location,   \* location[n]: the txLocations entry, or NoLoc
  incoming,   \* the block AddBlock works on, with the names it has still to
              \* write into the tree and into txLocations; or NoBlock
  inactive,   \* names whose registration is not in its active phase
  server,     \* the query the full node works on
  requests,   \* messages to the full node, in flight
  answers,    \* messages to the light node, in flight
  known,      \* the light node's HeaderChain holds blocks 0 .. known - 1
  tip,        \* index of the latest block of the light node's own chain
  cache,      \* cache[n]: id of the transaction whose records are cached, or 0
  confirmed,  \* the proofs HandleDNSProofGRPC has said yes to
  queries     \* requests so far

blocks == <<chain, tree, location, incoming, inactive>>
messages == <<server, requests, answers>>
light == <<known, tip, cache, confirmed>>
vars == <<blocks, server, requests, answers, light, queries>>

NoTx == [name |-> NoName, id |-> 0]
NoLoc == [block |-> -1, pos |-> -1]
Genesis == [slot |-> 0, txs |-> <<>>]
NoBlock == [slot |-> -1, txs |-> <<>>, tree |-> {}, location |-> {}]
Idle == [at |-> "idle", via |-> "dns", tx |-> NoTx, loc |-> NoLoc]

Init ==
  /\ chain = <<Genesis>>
  /\ tree = [n \in Names |-> NoTx] /\ location = [n \in Names |-> NoLoc]
  /\ incoming = NoBlock /\ inactive = {}
  /\ server = Idle
  /\ requests = {} /\ answers = {}
  /\ known = 1 /\ tip = 0
  /\ cache = [n \in Names |-> 0]
  /\ confirmed = {} /\ queries = 0

-----------------------------------------------------------------------------
(* The full node takes a block *)

\* Transactions have distinct ids; the one of the name, if the block has one,
\* stands at index pos.
BlockTxs(n, size, pos) ==
  [i \in 1 .. size |-> [name |-> IF i = pos + 1 THEN n ELSE NoName,
                        id   |-> 10 * Len(chain) + i]]

\* The index of a name in a block (ApplyDomainMutations is given its position).
TxIndex(txs, n) == (CHOOSE i \in DOMAIN txs : txs[i].name = n) - 1

\* A valid block arrives in a later slot than the last; slots may be skipped,
\* and no leader makes a block before the second epoch.
BlockArrives(slot, n, size, pos) ==
  /\ incoming = NoBlock /\ Len(chain) <= MaxBlocks
  /\ slot >= SlotsPerEpoch /\ slot > Last(chain).slot
  /\ incoming' = [slot |-> slot, txs |-> BlockTxs(n, size, pos),
                  tree |-> {n} \cap Names, location |-> {n} \cap Names]
  /\ UNCHANGED <<chain, tree, location, inactive, messages, light, queries>>

\* IndexOverlay.Commit, IndexManager.Add: the tree first ...
CommitTree(n) ==
  /\ n \in incoming.tree
  /\ tree' = [tree EXCEPT ![n] = incoming.txs[TxIndex(incoming.txs, n) + 1]]
  /\ incoming' = [incoming EXCEPT !.tree = @ \ {n}]
  /\ UNCHANGED <<chain, location, inactive, messages, light, queries>>

\* Mutant: positions are counted from one.
LocateFromOne(n) ==
  /\ n \in incoming.location \ incoming.tree
  /\ location' = [location EXCEPT ![n] = [block |-> incoming.slot,
                                         pos |-> TxIndex(incoming.txs, n) + 1]]
  /\ incoming' = [incoming EXCEPT !.location = @ \ {n}]
  /\ UNCHANGED <<chain, tree, inactive, messages, light, queries>>

\* ... then the location.  ApplyDomainMutations passes the slot of the block
\* where IndexManager.Add expects the index of the block.
CommitLocation(n) ==
  /\ n \in incoming.location \ incoming.tree
  /\ location' = [location EXCEPT ![n] = [block |-> incoming.slot,
                                         pos |-> TxIndex(incoming.txs, n)]]
  /\ incoming' = [incoming EXCEPT !.location = @ \ {n}]
  /\ UNCHANGED <<chain, tree, inactive, messages, light, queries>>

\* Blockchain.AddBlock, after the index.
StoreBlock ==
  /\ incoming # NoBlock /\ incoming.tree = {} /\ incoming.location = {}
  /\ chain' = Append(chain, [slot |-> incoming.slot, txs |-> incoming.txs])
  /\ incoming' = NoBlock
  /\ UNCHANGED <<tree, location, inactive, messages, light, queries>>

\* A registration passes its expiry, or is renewed.
ChangePhase(n) ==
  /\ tree[n] # NoTx
  /\ inactive' = IF n \in inactive THEN inactive \ {n} ELSE inactive \cup {n}
  /\ UNCHANGED <<chain, tree, location, incoming, messages, light, queries>>

-----------------------------------------------------------------------------
(* The full node answers *)

\* GetBlockByIndex: no block has a negative index or one above the tip.
HasBlock(i) == i + 1 \in DOMAIN chain

\* The name is in the index and in its active phase.
Resolves(n) == tree[n] # NoTx /\ n \notin inactive

\* HandleDNSQuery, GatewayServer.QueryDomain: the entry is looked up; an absent
\* or inactive name ends it.
LookUp(r) ==
  /\ server = Idle /\ r \in requests /\ r.via # "gossip"
  /\ requests' = requests \ {r}
  /\ server' = IF Resolves(r.name)
               THEN [Idle EXCEPT !.at = "location", !.via = r.via, !.tx = tree[r.name]]
               ELSE Idle
  /\ UNCHANGED <<blocks, answers, light, queries>>

\* DNSRequestHandler of a full node: the answer is the entry, without a proof.
\* (That of a light node asks a full node: Request.)
DNSRequestHandler(r) ==
  /\ r \in requests /\ r.via = "gossip"
  /\ requests' = requests \ {r}
  /\ answers' = IF Resolves(r.name)
                THEN answers \cup {[via |-> "gossip", tx |-> tree[r.name]]}
                ELSE answers
  /\ UNCHANGED <<blocks, server, light, queries>>

\* Mutant: a missing location is not noticed.
LocateUnchecked ==
  /\ server.at = "location"
  /\ server' = [server EXCEPT !.at = "block", !.loc = location[server.tx.name]]
  /\ UNCHANGED <<blocks, requests, answers, light, queries>>

\* GetTxLocation; a missing location ends the query.
Locate ==
  /\ server.at = "location"
  /\ server' = IF location[server.tx.name] = NoLoc THEN Idle
               ELSE [server EXCEPT !.at = "block", !.loc = location[server.tx.name]]
  /\ UNCHANGED <<blocks, requests, answers, light, queries>>

\* The block of a location and the proof of the transaction at a position in it.
Proved(i, pos) ==
  IF HasBlock(i) /\ pos + 1 \in DOMAIN chain[i + 1].txs
  THEN {[via |-> server.via, tx |-> server.tx, block |-> i,
         proof |-> GenerateMerkleProof(chain[i + 1].txs, pos)]}
  ELSE {}

\* The answer; nothing is sent when there is no such block or position.
SendProof ==
  /\ server.at = "block"
  /\ server' = Idle
  /\ answers' = answers \cup Proved(server.loc.block, server.loc.pos)
  /\ UNCHANGED <<blocks, requests, light, queries>>

-----------------------------------------------------------------------------
(* The light node *)

\* A query for a proof, by direct message or over gRPC.  ResolveDomain sends it
\* when the cache has no answer, DNSRequestHandler and the pool whatever it has.
Request(n, via) ==
  /\ queries < MaxQueries
  /\ requests' = requests \cup {[via |-> via, name |-> n]}
  /\ queries' = queries + 1
  /\ UNCHANGED <<blocks, server, answers, light>>

\* The older request by gossip, when the cache has no answer.
MakeDNSRequest(n) == cache[n] = 0 /\ Request(n, "gossip")

\* A header of the stream, or a block of gossip with its header (HeaderStream).
ReceiveHeader ==
  /\ known < Len(chain)
  /\ known' = known + 1
  /\ UNCHANGED <<blocks, server, requests, answers, tip, cache, confirmed, queries>>

ReceiveBlock ==
  /\ tip + 1 < Len(chain)
  /\ tip' = tip + 1
  /\ known' = IF known = tip + 1 THEN known + 1 ELSE known
  /\ UNCHANGED <<blocks, server, requests, answers, cache, confirmed, queries>>

HeaderRoot(i) == MerkleRoot(chain[i + 1].txs)

\* HandleDNSProof: the header is there within two seconds, and the proof fits
\* its root; the records are cached, whatever was cached before.
HandleDNSProof(r) ==
  /\ r \in answers /\ r.via = "dns" /\ r.block < known
  /\ answers' = answers \ {r}
  /\ cache' = IF VerifyMerkleProof(r.proof, HeaderRoot(r.block))
              THEN [cache EXCEPT ![r.tx.name] = r.tx.id] ELSE cache
  /\ UNCHANGED <<blocks, server, requests, known, tip, confirmed, queries>>

\* Mutant: the confirmations are counted from the headers received.
ConfirmedByHeaders(r) == known - r.block >= Confirmations

\* HandleDNSProofGRPC counts the blocks of the light node's own chain.
EnoughConfirmations(r) == tip - r.block >= Confirmations

HandleDNSProofGRPC(r) ==
  /\ r \in answers /\ r.via = "grpc" /\ r.block < known
  /\ answers' = answers \ {r}
  /\ confirmed' = IF /\ VerifyMerkleProof(r.proof, HeaderRoot(r.block))
                     /\ EnoughConfirmations(r)
                  THEN confirmed \cup {[block |-> r.block, leaf |-> r.proof.leaf]}
                  ELSE confirmed
  /\ UNCHANGED <<blocks, server, requests, known, tip, cache, queries>>

\* waitForHeader: no header after two seconds.
HeaderTimeout(r) ==
  /\ r \in answers /\ r.via # "gossip" /\ r.block >= known
  /\ answers' = answers \ {r}
  /\ UNCHANGED <<blocks, server, requests, light, queries>>

\* DNSResponseHandler caches what it is told.
DNSResponseHandler(r) ==
  /\ r \in answers /\ r.via = "gossip"
  /\ answers' = answers \ {r}
  /\ cache' = [cache EXCEPT ![r.tx.name] = r.tx.id]
  /\ UNCHANGED <<blocks, server, requests, known, tip, confirmed, queries>>

\* The entry is more than 300 seconds old.
CacheExpires(n) ==
  /\ cache[n] # 0
  /\ cache' = [cache EXCEPT ![n] = 0]
  /\ UNCHANGED <<blocks, server, requests, answers, known, tip, confirmed, queries>>

-----------------------------------------------------------------------------
Next ==
  \/ \E slot \in 1 .. MaxSlot, n \in Names \cup {NoName}, size \in Sizes :
       \E pos \in 0 .. size - 1 : BlockArrives(slot, n, size, pos)
  \/ \E n \in Names : CommitTree(n) \/ CommitLocation(n) \/ ChangePhase(n)
                        \/ CacheExpires(n)
  \/ StoreBlock \/ ReceiveHeader \/ ReceiveBlock
  \/ Locate \/ SendProof
  \/ \E n \in Names : MakeDNSRequest(n) \/ Request(n, "dns") \/ Request(n, "grpc")
  \/ \E r \in requests : LookUp(r) \/ DNSRequestHandler(r)
  \/ \E r \in answers : HandleDNSProof(r) \/ HandleDNSProofGRPC(r)
                          \/ HeaderTimeout(r) \/ DNSResponseHandler(r)

Spec == Init /\ [][Next]_vars

-----------------------------------------------------------------------------
\* A block in the slot of location l has a transaction of name n where l says.
In(b, l, n) ==
  b.slot = l.block /\ l.pos + 1 \in DOMAIN b.txs /\ b.txs[l.pos + 1].name = n

\* So does a stored block, or the one AddBlock works on.
Placed(l, n) == In(incoming, l, n) \/ \E i \in DOMAIN chain : In(chain[i], l, n)

\* ... and it is transaction t.
PlacedTx(l, n, t) ==
  \/ In(incoming, l, n) /\ incoming.txs[l.pos + 1] = t
  \/ \E i \in DOMAIN chain : In(chain[i], l, n) /\ chain[i].txs[l.pos + 1] = t

\* A location, taken for the slot of a block and a position in it, is the place
\* of a transaction of its name, also halfway through IndexOverlay.Commit; as
\* soon as AddBlock is done (node_helper.go:54-80) it is the place of the entry
\* in the tree (index_manager.go:115-118).  No reader takes it that way.
LocationsBySlot ==
  \A n \in Names :
    /\ location[n] # NoLoc => Placed(location[n], n)
    /\ incoming = NoBlock /\ tree[n] # NoTx => PlacedTx(location[n], n, tree[n])

\* A query reads the tree and then the location while a block may be committed
\* in between, or half committed (node_helper.go:233-262, server.go:121-139).
\* What it then holds may be the records of one transaction and the place of an
\* older or a newer one, but both are of the name asked for.
QueryHoldsName ==
  server.at = "block" => Placed(server.loc, server.tx.name)

Proofs == {r \in answers : r.via # "gossip"}

\* "The proof allows the caller to verify inclusion in the block" (server.go:
\* 114-115): the proof QueryDomain answers with is of the transaction whose
\* address it gives, and fits the root of the header that comes with it.
ProofsVerifyInclusion ==
  \A r \in Proofs :
    r.via = "grpc" =>
      /\ r.proof.leaf = LeafHash(r.tx)
      /\ VerifyMerkleProof(r.proof, HeaderRoot(r.block))

\* A transaction HandleDNSProofGRPC accepts (node_helper.go:375-413) is in the
\* full node's chain, under at least kConfirmations blocks, however the header
\* stream and the gossip of blocks to the light node run ahead of each other.
ConfirmedIsBuried ==
  \A c \in confirmed :
    /\ Len(chain) - 1 >= c.block + Confirmations
    /\ \E i \in DOMAIN chain[c.block + 1].txs :
         c.leaf = LeafHash(chain[c.block + 1].txs[i])

=============================================================================
