# B-DNS in TLA+

A model of the B-DNS node (`src/internal`): what a block may do to balances,
stakes and names, how nodes make and exchange blocks, how they elect leaders and
agree on randomness, how light nodes follow the headers, and how names are looked
up, with proofs, over connections that fail, and through a cache. TLC checks small
instances; TLAPS proves the central facts for all of them. `PROJECT.json` lists
the runs, the theorems, the source lines behind every definition and, for each
property, a plausible bug (a "mutant") that the property catches.

    tlc -config Validator.cfg MCValidator    # a run
    tlapm ValidatorProofs.tla                # the proofs of a module

## 1. The system

| Component | State | Operations | Source |
|---|---|---|---|
| Balance ledger | balance and nonce of each key | `Debit`, `Credit`, `IncrementNonce` | `blockchain/balance_ledger.go` |
| Stake | stake map, unstake queue, recorded offences | `AddStake`, `ReduceStake`, `Enqueue`, `SweepMature`, `BurnPending` | `blockchain/stake.go`, `config.go` |
| Commit store | pending COMMITs; overlay with consumed and purged sets | `AddCommit`, `ConsumeCommit`, `PurgeExpired`, `Commit` | `blockchain/commit.go` |
| Domain index | AVL tree of names, owner, list price, spent transactions, purge index; overlay | `Add`, `SetOwner`, `SetListPrice`, `MarkAsSpent`, `Commit` | `index/*.go` |
| Gates | shadow balances, nonces, stakes, owners, ... of the block being checked | `ValidateTransactions` | `blockchain/block.go:413-1112` |
| Passes | staging clones | `ApplyLedgerMutations`, `ApplyStakeMutations`, `ApplyDomainMutations` | `blockchain/apply.go` |
| Validation | all of the above | `ValidateBlock`, `Node.AddBlock` | `block.go:266-407`, `network/node_helper.go` |
| Slot loop | slot counter, leader cache, mempool | `CreateBlockIfLeader`, `GetSlotLeader`, `AddTransaction`, `HandleSlotSkip` | `network/node_leader.go`, `node_helper.go`, `node.go` |
| Election | none | `GetSlotLeader`, `DRGMockSeed` | `consensus/pos.go`, `drg.go` |
| Beacon | commitments, buffered reveals, randoms, deduplication | the two handlers, the slot loop, pruning | `network/node.go:340-567` |
| Header streams | subscriber channels; a light node's header chain | `SubscribeHeaders`, `BroadcastHeader`, `AddBlockHeader` | `gateway/server.go`, `client.go` |
| Connection pool | clients, health flags, the client used last | `QueryWithFailover`, `BroadcastTransactionWithFailover`, `monitorHealth`, `VerifyNXDOMAIN` | `gateway/pool.go`, `node_helper.go` |
| Queries | locations of transactions (`txLocations`); a light node's headers | `HandleDNSQuery`, `QueryDomain`, `HandleDNSProof`, `HandleDNSProofGRPC`, the Merkle functions | `gateway/server.go`, `node_helper.go`, `block.go`, `merkle_tree.go` |
| Resolver | answer cache | `ResolveDomain`, `resolveCNAME`, `GetFromCache`, `SetToCache`, the RFC 1035 server | `network/resolver.go`, `cache.go`, `rfc1035_handler.go` |

A user's transaction enters the mempool through `AddTransaction`, which runs the
gates over the whole pool. The leader of a slot takes transactions from the pool,
executes them on clones *without* running the gates, hashes the result, seals a
block, makes the clones live and gossips the block. Every other node runs
`ValidateBlock`: the gates over shadow maps, then a ledger pass, a domain pass and
a stake pass over clones and overlays, comparing hashes on the way; only then are
the clones promoted and the overlays flushed. Accepted headers go to the light
nodes that are subscribed. Blocks are skipped in slots without transactions.

A name is looked up at a full node in its index, through the cache and along CNAMEs
(`ResolveDomain`) or without either (the DNS server). A light node asks a full node,
by direct message or through the connection pool; the answer carries the Merkle proof
of the registering transaction, which the light node checks against the headers
it has.

What is hard to get right here, and hard to test:

- the gates decide on *shadow* copies, four passes act later on *other* copies and
  ignore failures: any disagreement creates or destroys coins silently;
- leader and validator compute the same hashes with different code;
- the leader reads, executes and promotes under separate locks, with its transactions
  out of the pool and their nonces not yet live, while messages are handled;
- late, repeated and reordered gossip, with no resynchronisation: no code sends
  the message (`MsgInv`) that `HandleINV` and the handlers behind it answer;
- boundaries in slots: unbonding, commit delay and window, expiry, grace, purge;
- streams that break and reconnect while blocks arrive;
- callers of the pool write its health map under a read lock, next to a monitor that
  takes the write lock, over calls that have no deadline;
- the index is committed without the lock under which queries read it, and before
  the block it points to is stored;
- the Merkle root and the Merkle proof are computed by different code;
- a CNAME walk drops its lock at each hop, a value may change between the read and the
  moment it is cached, and peers' answers of any age go into the same cache.

`PROJECT.json` lists each hazard with its line and the properties that cover it.

## 2. Modules

    Protocol        transaction types, constructors, phases, uint64, constants
    ChainState      ledger, stakes, commit store, index as one record
    Apply           the three passes
    Gates           the gates and the shadow maps
    BlockRules      a block through gates and passes
      ValidatorNode -> AtomicChain     one node, step by step, and its specification
        ValidatorProperties, MCValidator
        ApplyProofs, ValidatorProofs, DomainProofs
      Cluster (with Election)          nodes that lead, gossip and accept
        ClusterProperties, MCCluster
        ApplyProofs, ClusterProofs
    Election, ElectionRounds           leader election (theorem in ClusterProofs)
    Beacon, BeaconProofs               randomness beacon of one node
    HeaderStream                       full nodes and one light node (theorem in
                                       ServiceProofs)
    ConnectionPool, PoolProofs         a light node's clients, failover and monitor
    Merkle                             roots, proofs and their verification
      ProofService, ServiceProofs      queries for proofs, full and light node
    Resolver, MCResolver,              resolution, CNAME walk, cache, DNS server
      ResolverProofs

`Protocol`, `ChainState`, `Apply`, `Gates` and `BlockRules` are operators: a
function of the code becomes an operator of the same name on the record `States`
(`ApplyList(S, tx, slot)` is the `LIST` case of `ApplyDomainMutations`). The gate of a
transaction type is a conjunction, in the code's order; the update of each shadow
map is one `...After` operator.

**ValidatorNode** has the live state, the staged state, the chain, a program
counter through `ValidateBlock` and the index of the transaction in hand. A block
is received (`ReceiveBlock`, with the header rules and the demand that expiring
names be revoked), its transactions pass or fail the gates one by one (`GatePass`,
`GateReject`), then the passes take them one by one (`LedgerStep`, `DomainStep`,
`StakeStep`); `AcceptBlock` promotes everything, `HashMismatch` drops it at any of
the points where hashes are compared. Blocks are arbitrary sequences over a menu
of signed transactions: a peer may send anything it has signed material for. Nothing is
assumed of transaction IDs, which signers choose and no gate compares. `MCValidator` keeps
a behaviour in one of three scenarios (a menu and its bounds), so that transactions that do
not interact do not multiply.

**AtomicChain** is what the node promises: it keeps its chain and state, or appends
a block whose transactions all pass and holds the state that executing the whole
block yields. Which blocks pass, and what they yield, are operators that it takes as
parameters; `BlockRules` gives them.

**Cluster** has, for each node, live state, chain, mempool, leader cache and the
locals of the slot loop. The leader's work in a slot is four steps, as the code
drops locks in between: `Wake` (choose), `Clone` (copy, look at the tip), `Seal`
(execute, hash, sign), `Promote` (make live, store, gossip). `PutBack` is the return
when the slot was taken meanwhile. A node may handle any published block or
slot-skip and any submitted transaction, at any time and any number of times, also
between the steps of its own leader: blocks come over the gossip goroutine, transactions
over gossip and `/tx-forward` streams (`node.go:252-310`). Two histories remember where
that happened: `torn`, the nodes that accepted a block then, and `late`, the transactions
a node let into its pool then. The
pool is a map by transaction ID, so a put-back overwrites (`PutIn`) and an
auto-revocation, which has the ID of the registration it revokes, may get into the
pool that way. The code sorts auto-revocations by name; names have no order in the model,
and every order is allowed.
`Drift` is how many slots a loop may lag behind the clock. The block handler and each
of the leader's steps are atomic: in the code the locks of ledger, index, stakes and
chain are taken one after the other inside them (`node_helper.go:54-80`,
`node_leader.go:224-240`), and a step of the leader in the middle of `Node.AddBlock` is not
covered.

**Election** computes in floats, as the code does: a float is a multiple of
2^-`Scale`, and every conversion, quotient and sum is rounded to `Mantissa` bits, to
nearest and to even (53 bits and as good as no smallest unit in float64). The fallback
behind the walk (`pos.go:97-99`) is reached when the rounded sum of the shares stays below
the seed. The mock seed starts with the DER prefix of the keys.

**Beacon** is one node's slot loop and handlers; a hash or a signature is the value it
binds. A handler is one step. The code takes separate locks for its test for duplicates,
its lookup and its store (`node.go:343-383`, `414-418`), and `/dns-response` streams may run
two handlers side by side: a reveal that is buffered while its commitment is being
stored is outside the model.

**HeaderStream** has one light node, its streams to several full nodes, their bounded
channels, the replay and the deferred cleanup of a broken stream. It starts before the
genesis block, with an empty header chain, as `gatewaySim.go:31-34` does; a request for
headers travels before the server lists its channel. `missed` is a history: whether an
open stream has lost a header because its channel was full or removed, or because nothing
was replayed.

**ConnectionPool** has the health flags, `current`, the state of the monitor, and for
each caller the loop it is in (`begin`, `ask`, `flag`). The read-write lock is not a
variable: callers in the loop hold it for reading, the monitor in `checking` for
writing, and while the monitor waits no new reader gets in. A peer is a connection
(up, down, hung, closed) and what it knows of one name. `MapFault` is the Go
runtime's answer to concurrent map accesses. `steady`, a history, is the set of
peers that could have served a call all through its loop.

**Merkle** has the two computations as operators, without RECURSIVE definitions: the
levels of a tree are a recursive function. **ProofService** splits `AddBlock` of a
full node into the writes of the tree, of the locations and of the chain, and a
query into its reads; the light node's headers (`known`) and blocks (`tip`) arrive
apart. The full node works on one query at a time, which loses nothing: queries
write nothing. No block comes before slot `SlotsPerEpoch`, where the slot loop starts
(`node_leader.go:99,110`). The light node's headers are those of blocks `0 .. known - 1`:
the case in which its first header was that of genesis (see `HeadersConsecutive`).

**Resolver** has the registrations in the index (`zone`), the cache and for each caller
its control point, the name its walk has reached and the names visited. Peers' answers
(`DNSResponseHandler`) go into the same cache: any address a registration of the name may
have, at any time, asked for or not. Time is counted in ticks; a call lasts at most one of
them, a cache entry `TTL`. The ages since a value was *read* or came from a peer, who put
it into the cache, and whether the index is unchanged since a call began, are histories.

### Abstractions

- A signature is the name of the signing key, a hash is what it hashes, a
  transaction ID a number. In `Cluster`, whose pools are maps by ID, users' transactions
  have distinct IDs (`GenerateRandomTxID` draws from 10^9). The block's signature,
  Merkle root and own hash are taken to be right; the five state hashes are modelled in
  `Cluster` and, in `ValidatorNode`, a comparison may fail at any time.
- Integers that the code subtracts as `uint64` wrap modulo `MaxU64 + 1`.
- The AVL tree is the map it implements. The purge index is a set (on validators
  the code holds duplicates, because `Commit` runs twice).
- Blocks have at least one transaction: the loop skips empty ones and
  `SetupMerkleTree` fails on none.
- An unowned REVOKE's fee is added to the leader's fees and taken from nobody, and
  no gate looks at it; the menus use fee 0, as `GenerateAutoRevocations` does.
- Submitting a transaction and gossiping it are one: any node may hear it.
- Handlers of gossip messages run one at a time, as in the gossip goroutine.
- The size limit and the decoding of the blocks in an equivocation proof
  (`block.go:225`, `1042`) are left out: evidence is two decoded blocks.
- `DigestOf` hashes the whole index; `IndexHash` of an overlay mixes hashed and plain names
  (`index_overlay.go:126-154`) and tells apart less.
- `Ask` of `ConnectionPool` tests the health of a peer and calls it in one step, so a call on
  a hung connection may pass on when another call flags the peer; the code tests once.
- In `ProofService` every transaction of a name has an A record, so that each verified
  answer is cached; in `Resolver` a record set is an address or a CNAME target, other
  types being looked up the same way.
- An entry of the cache disappears when it expires; the code deletes it at the next
  look.

## 3. Runs

Passing runs (deadlock is checked in `resolver` and `shares`; elsewhere the bounds on slots, blocks,
heights and requests, or the end of the process in `pool`, end a behaviour).

| Run | Question | Bounds and why they are enough |
|---|---|---|
| `validator` | Do the gates' shadow maps cover what the passes take; is anything executed or punished twice; do coins and names move only by consent; are sales paid, names found, reveals carried out; is `AddBlock` atomic? | three scenarios. Coins: 9 transactions (two FUNDs, two STAKEs, two UNSTAKEs, two proofs of one offence, one mis-signed), blocks of up to 3 in any order, 3 blocks, 5 slots: an unstake is queued, slashed and matures. Market: register, list, delist, transfer, buy, stake, with balances so tight that one more fee breaks a sale; 5 blocks of up to 3 in 7 slots, past the expiry. Life: commit delay 2, window 2, registration 3, grace 3, 9 slots, with the auto-revocation as the leader makes it: each border slot is hit from both sides |
| `shares` | Does stake decide the leader? | all stakes 0..3 of 1-4 registries, 256 seed words, mantissa of 7 bits: thirds and sixths round, and sums of shares fall short of one, so that the fallback is taken |
| `beacon_messages` | Commitments and reveals in any order, repeated and contradictory | one peer, two values, three epochs; peers do not interact in the code |
| `light` | Is the header chain without gaps; does a light node get every header (liveness)? | two full nodes, one making blocks, streams opened before or after genesis, channel of one, four blocks, one broken stream, cleanup as late as it may be |
| `pool` | Does a call give up only for cause; does every call return; is a flagged peer used again (liveness)? | two callers of each kind over two peers, one change of a peer or connection, monitor and shutdown at any point: two calls and the monitor are the smallest deadlock the lock admits |
| `proofs` | What is a location the place of; what has a query in hand when blocks are committed between its reads; what does a confirmation rest on? | three blocks of 1 or 2 transactions, slots with and without a gap, two requests of three kinds, one confirmation: a query spans the commit of the next block |
| `resolver` | Are walks exact and finite, answers recent, stale entries gone, TTLs bounded? | three names, limit 2, so chains at and above the limit and a loop of three; two callers, two questions, peers that answer anything at any time, entries that live one tick; `CacheTTL` on both sides of 0, of a slot and of the word |
| `blocks` | Is a node's state the replay of its chain; do leader and validator agree on hashes; what may be executed twice; which competitors may meet in a pool? | two nodes, three transactions of which two compete for a nonce and one moves the lead to the other node, 5 slots in epochs of 2, loops up to 2 slots apart, messages handled between any two steps of a leader |

`BlocksAreAtomic` is refinement: `ValidatorNode` implements `AtomicChain` with the
same chain and live state. `CoinsAccounted` says accepting a block creates no
coins, and destroys only what it slashes and what `SweepMature` drops.
`LedgerAgrees` and `StakeAgrees` tie shadow and staged state together; they are the
inductive parts of the proofs below.

`HashesMatch` is about all published blocks, also those that the gates of the validator
refuse. `PoolNoncesDistinct` is about signed transactions: auto-revocations all have
nonce 0 and no owner.

In the window between a leader's steps the code does break what one would like to say of
nodes, and `race` and `twice` show it. What `blocks` checks, and the theorems prove, is
that nothing else does: `StateIsReplay` and `HashesMatch` are about nodes that never
accepted a block in that window (`torn`), `RepeatsAreLate` says a repetition is the own
leader's, of a copy let in there (`late`), or comes after such a block (`Clean`),
and `PoolNoncesDistinct` that one of two competitors was let in there.

`HeadUnspent` is about active names: an auto-revocation bears the ID that it redeems
(`node_leader.go:288-295`), so `apply.go:176-180` marks as spent the entry it adds again, and
the name is frozen until it is registered anew. `CommitBeforeReveal` has the units of the
code, the delay in slots and the window in blocks; the repository's texts disagree on both
(see the deviations below). `LightCatchesUp` is about a full node whose stream stays open
from some point on and loses nothing on it; the losses of a full or unlisted channel are
not repaired by anything and are outside it. `LocationsBySlot` and `QueryHoldsName` read a
location as the slot and position it really is; the code reads it as a block index,
which `inclusion` is about. `AnswersAreRecent` bounds the time since a peer's answer came,
not its age before that; `CacheHeals` assumes that peers which still answer have caught up
with the index.

Runs that fail, each against a sentence of the repository:

| Run | The repository says | The code |
|---|---|---|
| `unstake` | unbonding delay "before becoming liquid" (`README.md:66`) | `ValidateBlock` and the leader discard what `SweepMature` returns; matured coins are gone |
| `race` | "mutations stay isolated until the block is accepted" (`block.go:299`) | a block accepted between the leader's clone and its promotion stays in the chain and loses its effect on stakes |
| `twice` | the nonce is a "Per-account monotonic counter to prevents replay attacks" (`transaction.go:67`), copies "already in the mempool" are dropped (`node_helper.go:96`) | a copy that arrives while the leader holds the first one enters the pool again, and the leader, which runs no gates, executes it in its next block |
| `inclusion` | "The proof allows the caller to verify inclusion in the block" (`server.go:115`) | locations hold slots and are read as block indices, which never agree since the first slot is `SlotsPerEpoch` (2 in every entry point), so the proof is of another block, or there is none; and proofs for a block of 1 (or 5, 6, 9, 10) transactions fit no root |

### Fairness

Three runs state it.

- `light`: weak fairness of block delivery among full nodes and of each stream's
  steps, goroutines that loop and wait for nothing but their channel. Nothing is
  assumed of new blocks, stream errors or gossip to the light node.
- `pool`: strong fairness of each caller's steps, because `sync.RWMutex` lets waiting
  readers in when a writer unlocks, before another writer; weak fairness of the
  monitor, of a full node that finishes `AddBlock`, and of the end of a silent
  connection: the code sets neither deadline nor keepalive (`client.go:44`, 122, 132), so
  this rests on TCP giving the connection up; a peer that hangs while TCP stays up would
  never be given up. Nothing is assumed of new calls or of the peers.
- `resolver`: weak fairness of each call's steps, and time passes. Nothing is assumed of
  new questions, of the index or of peers.

### Known deviations without a run

Seen while modelling, from the code, and kept out of the properties by a stated
condition where one is needed:

- an UPDATE built by `NewTransaction` carries no expiry, and `applyUpdateOrRenew`
  stores it as it is (`apply.go:282`): it ends the registration at once, and the name
  is free when the grace period is over;
- `CommitMinDelay` is compared with a difference of slots (`block.go:930`), as
  `README.md:76` says; `config.go:32` says "number of blocks", `gatewaySim.go:160` "block
  count" and `randSim.go:143` compares block indices. `CommitMaxWindow` is a number of
  blocks (`commit.go:158-181`), as `config.go:35` says; `README.md:77` says "100 slots". The
  two units part as soon as a slot is skipped, which `validator` does;
- `MinStakeThreshold` is 100 in `config.go`, 1,000 in `README.md`;
- a RENEW may redeem a REVOKE while the REVOKE's expiry of 0 is less than a grace
  period ago, and revives the name; in such a block the domain pass may skip a LIST
  that the gates accepted, and a BUY pays the older price (`BuyCovered` excludes
  blocks with a RENEW or REVOKE);
- the gates compare the expiry of an unowned REVOKE with nothing: one with an expiry in
  the future, before a REVEAL of the same name in the block, would let the REVEAL pass
  the gates and do nothing (see `RevocationsKeepExpiry` below);
- the gate for an equivocation proof reads the unswept queue, the stake pass the swept
  one; its `queuePart` wraps below zero after two proofs in a block
  (`block.go:1078`), so `StakeFloor` excludes keys that were slashed;
- a list price survives re-registration (`apply.go:143`);
- a COMMIT repeated in the block that purges the old one is deleted with it
  (`commit.go:213-227`);
- the mock seed elects the same registry at every slot (`pos.go:85`), and with seven
  registries not the first for epoch 0 (`node_leader.go:78`);
- the reveal of an epoch is never broadcast: its test ("Slot 1 of new epoch",
  `node_leader.go:123`) is nested in the test for a new epoch, which holds at slot 0
  only; the mock seed always decides, and `PruneDRGEpochState`, called there, never
  runs;
- a block with a BUY is rejected by every node but its leader, which hashes the ledger
  after the domain pass (`node_leader.go:211`), the validator before it
  (`block.go:369`); `README.md:61` calls BUY atomic (`HashesMatch` excludes such blocks);
- the leader seals transactions in map order (`node_leader.go:314`): two of one
  account may come with their nonces swapped, and the block is rejected;
- auto-revocations are unsigned (`node_leader.go:288`) and fail the gate for unowned
  transactions (`block.go:616-635`); one that is signed is accepted as soon as the name is
  in its grace period (`apply.go:165-175`), while leaders make it at the purge slot only;
- a name frozen by its auto-revocation in the grace period cannot be renewed, since the
  entry it would redeem is spent (`block.go:496-505`);
- a registry without stake leads when it is the last one and rounding leaves the sum of the
  shares below the seed (`pos.go:97-99`): ten equal stakes add up to 0.9999999999999999;
- one pooled transaction whose nonce was used elsewhere makes every later `AddTransaction`
  fail until a leader takes it (`node_helper.go:101`);
- leaders of adjacent epochs may seal on one parent; there is no fork choice;
- a light node that starts without a header is never sent header 0 (`server.go:81`) unless
  it is subscribed before genesis; the first header that comes, whatever its index, takes
  position 0, and `waitForHeader` (`node_helper.go:330-354`) then reads every header at
  the wrong place; a `StartIndex` above 0 at a node without a block panics
  (`server.go:83`);
- a leader sends no header of its own blocks (`node_leader.go:240`); a full channel drops a
  header for good (`server.go:240`); the cleanup of a broken stream removes the channel of
  the stream that replaced it (`server.go:75`);
- `VerifyNXDOMAIN` "returns true only when all agree the domain is absent"
  (`node_helper.go:357`): it returns true on the first NotFound, and when all peers are
  down;
- a transaction that full nodes refuse makes `BroadcastTransactionWithFailover` flag
  every one of them as unhealthy (`pool.go:96`); the health map is written under
  the read lock, for which the Go runtime may end the process;
- a proof that waited for its header may overwrite a newer answer in the cache
  (`node_helper.go:325`); an answer to the gossip request is cached without a proof
  (`node.go:630`).

## 4. Theorems

All are proved for every value of the constants, from the named assumptions of
the modules: the parameters of `config.go` are positive numbers, the empty string
is no key or name, trusted registries are keys, submitted transactions are
well-typed and have an ID other than 0, balances and bounds are numbers
(`LimitsAssumption`, `NamesAssumption`, `SubmittedAssumption`, `NodeAssumption`,
`BeaconAssumption`); the pool has a peer (`PoolAssumption`); the resolver's limits are
positive and a slot fits the word of a TTL (`ResolverAssumption`); blocks are not empty
(`ProofsAssumption`); an election has a registry, floats a mantissa (`RoundsAssumption`, `ElectionAssumption`);
the registries of a cluster are trusted, and the IDs of submitted transactions are
distinct and not 0 (`ClusterAssumption`). The bounds on slots, blocks, changes and
requests may have any value.

Two theorems have one more hypothesis, `RevocationsKeepExpiry`: an unowned REVOKE carries
the expiry of the transaction it redeems. `GenerateAutoRevocations`
(`node_leader.go:287-297`), the only code that makes one, copies it; the gates do not
compare it, so it is a hypothesis on the transactions and not a fact about the node. All
menus of the runs satisfy it.

`HeadsStayUnspent` has the hypothesis `IDsAsIssued`: transactions with an owner have distinct
IDs, as far as `GenerateRandomTxID` draws them (`transaction.go:623-640`; no gate rejects a
repeated one, and a signer who repeats an ID can freeze a name), and unowned REVOKEs
bear the ID and the expiry of what they redeem. No other theorem about the validating node
assumes anything of IDs.

`CoinsAreAccounted` has two: the keys are finitely many (`IsFiniteSet(Keys)`), so that their
coins can be added up, and `RevocationsAreFree`: an unowned REVOKE carries no fee.
`GenerateAutoRevocations` sets none; the gates do not look at the fee of a transaction
without an owner (`block.go:615-634`), and the leader is credited with every fee of the
block (`block.go:362-367`), so this too is a hypothesis on the transactions. All menus
satisfy it.

The theorems about the nodes of the cluster have no hypothesis on what is handled when; the
windows in which the code breaks the plain statements are named in the properties by
the histories `torn` and `late`.

**One validating node** (ValidatorProofs, and DomainProofs on top of it)

| Theorem | Says | Argument |
|---|---|---|
| `TypeCorrect` | `Spec => []TypeOK`; with it, no shadow balance or stake is negative | `TypeOK` alone is not inductive: a pass may only run on a block whose transactions passed. `TypeOK /\ GatesHeld` is, where `GatesHeld` says that every transaction behind the counter passed its gate on the shadow the earlier ones left |
| `DebitsNeverFail` | no debit of the ledger pass fails | `LedgerAgrees`: during the pass no account has less than its shadow at the same index, and the nonces are equal. Each gate checked the fee and amount against that shadow |
| `AddBlockIsAtomic` | the node implements `AtomicChain` (refinement, identity on chain and live state) | `Underway`: a block in progress still satisfies the header rules and the demand for purges. `StagedAsExecuted`: in each pass the staged state equals the loop of `BlockRules` up to the index in hand. Every step but `AcceptBlock` is then a stutter, and `AcceptBlock` appends the block with its whole effect |
| `StakeFloorHolds` | a validator never slashed has no stake or the minimum | `StakeAgrees`: staged and shadow stake of such a key are equal through the stake pass, and the gates checked the minimum on the shadow |
| `NoReplayHolds` | the chain holds no transaction of an account twice | `NoncesPassed`: every nonce in the chain is below its account's live nonce. `NoncesStaged`: the ledger pass leaves the last shadow nonce, which rose with every transaction |
| `OffencesPunishedOnce` | no offence is punished twice | `OffencesOnRecord`: every punished offence of the chain is in the live record. `OffencesStaged`: what the stake pass has recorded is what the gates saw, on top of the live record |
| `HeadsStayUnspent` | the defining transaction of an active name is unspent (under `IDsAsIssued`) | `UnspentInv`: every ID that index, spent set and staged state refer to was carried out (`Issued`), by the nonces, so a transaction still to come has a new one; and a head that is spent belongs to a name that is no longer active (`Unspent`): only an auto-revocation spends the head it leaves, with the expiry that has passed. In the pass, a head the block has replaced is spent, unless a REVEAL replaced it (`HeadsFollow`) |
| `MarketNeverMisses` | the pass finds the name of every market transaction | `NamesKept`, a part of `Kept`: the pass finds every name the gates could see or saw registered in the block |
| `RevealsTakeEffect` | an accepted REVEAL registers its name (under `RevocationsKeepExpiry`) | `FreeInv`: a name that was free when the block arrived, and that no REVEAL before the index registered, has the expiry it had; with `CommitsKept`: a COMMIT the gates could see, and did not see used, is still there |
| `CommitsPrecedeReveals` | every REVEAL of the chain has its own COMMIT of the right age (under `RevocationsKeepExpiry`) | `RevealInv`: pending COMMITs come from the chain (`CommitsTraced`), a REVEAL spends the COMMIT it answers (`RevealsSpend`, `RevealsAnswer`), so two REVEALs answer different ones (`RevealsDiffer`) |
| `NamesLeaveByConsent` | an owner loses a name only after its grace period, by a sale offer or by an own TRANSFER | `ConsentInv`: through the domain pass, whoever has lost a name has given it up, and whoever sees a name of theirs for sale offered it before or in the block |
| `CoinsAreSafe` | coins leave an account only by its signature or an offence | `SignedInv`: whatever the passes took so far is behind a signature, or an offence proved, in the block |
| `BuysAreCovered` | a sale that is open when the pass comes to it is paid, at the price the gates saw | `PriceInv`: a name that is still alive has the owner and the price of the shadow, and an account has at least its last shadow balance and what its BUYs to come in the block cost (`Bought`) |
| `CoinsAreAccounted` | no block creates coins; what disappears was swept or slashed (under `RevocationsAreFree`) | `CoinsStaged`: between the passes, the supply left by `SweepMature` is what the clone holds, plus the fees not yet credited, plus the pledges not yet staked (`PledgedLoop`). In the stake pass the clone may hold less than the shadow after a slash, because the slashable total of the gates may wrap while that of the pass does not, so the invariant counts the larger of staged and shadow stake (`Held`): this sum never rises but by a pledge. `ListedInv`: a name for sale has an owner, so that the price a BUY debits is credited to someone. Sums over all keys follow one order of the keys (`KeyOrder`), one key at a time (`TotalChange`, `TotalMono`) |

`ApplyProofs` has the lemmas they share: what each helper and each pass returns and
which parts of the state it leaves alone.

**The cluster** (ClusterProofs, with the same lemmas on gates and passes)

| Theorem | Says | Argument |
|---|---|---|
| `StateIsReplayTheorem` | the state of a node that is not torn is the replay of its chain, whoever made the blocks | `Replicated`: idle or at work, the live state of such a node is the replay of its chain, and the copies a leader holds are copies of it (`WorkOK`). The leader merges overlays into the live state and a validator flushes them over clones; `PromotedIsExecuted` shows that the two agree, for which pending COMMITs must have distinct hashes (`OneEach`) and the purge index must be finite and hold slots from the grace period on (`PurgeOK`), so that auto-revocations are well-formed |
| `HashesMatchTheorem` | leader and validator, neither torn, hash the same states, if the block has no BUY | `Replicated`: a published block of such a leader carries its hashes at the replay of the parent (`Sealed`), and a node at that parent is in that state. Without a BUY the domain pass leaves the ledger as it is |
| `RepeatsAreLateTheorem` | what is executed twice on a clean chain was let in late by the node's own leader | `Accounted`, which adds to `Replicated`: every block of a chain passed the gates at the state before it, or was made by the node itself (`VettedFor`); and for each node, what waits in its pool and in the block it is making (`WaitingOK`), apart from what was let in late, is new to its chain, and every nonce in use is below the account's live nonce plus the number of its transactions that wait (`Below`). A leader runs no gates and may even execute nonces out of order, so "executed nonces are below the live nonce" alone does not hold; the count of those that wait makes it inductive |
| `PoolNoncesDistinctTheorem` | of two competitors in a pool one was let in late | what a put-back returns was taken from the same pool, and a newcomer passed the gates together with all of the pool, where nonces follow on one another; only what the leader holds is missing there |
| `StakelessDoNotLead` (on `ElectionRounds`, whose operators the cluster elects with) | whatever the stakes, the number of registries and the length of the mantissa, one without stake leads only while nobody has staked, at seed zero, or as the last one when the sums stay below the seed | the walk stops at the first registry whose sum reaches the seed; the share of one without stake is zero and adding zero is exact, so it has the sum of the one before it, which would have been reached first, and the first has none |

The first three are not inductive alone: what may be executed twice depends on what pools
may hold, what pools may hold on the live nonces, and those on the replay.

**The other components**

| Theorem | Says | Argument |
|---|---|---|
| `SeedsAreCommitted`, `RevealsAreFlushed`, `CommitmentsStand` (BeaconProofs) | only opened commitments enter the seed; no reveal is left beside the commitment it opens; the first commitment stands | `BeaconInv`: types, "a known commitment was marked as seen", and the two invariants themselves |
| `GivingUpIsJustified` (PoolProofs) | `ErrAllPeersDown` only if no peer could have served the call throughout | `PoolInv`: a steady peer could serve the call now and is not among the peers the call has passed; after a full round (`RoundIsComplete`) all were passed |
| `WalksAreExact` (ResolverProofs) | a walk over a still index answers the end of the chain, or nothing if there is none within the limit | `ResolverInv`: the walk has followed a path of as many names as it has visited, and visited names redirect to visited ones or to the one reached. Chains are determined by their start (`ChainPasses`), and a loop has no end (`LoopHasNoChain`) |
| `AnswersStayRecent`, `ServedTTLsBounded` (ResolverProofs) | answers were read, or came from a peer, no longer ago than entry and call allow; TTLs lie in a slot | `ResolverInv`: an entry was read at most a tick before it was stored, a peer's the moment it came |
| `LocationsStayBySlot`, `QueriesHoldTheName` (ServiceProofs) | locations, read as slots, are places of their name, at rest of the very entry; a query that spans a commit has a transaction and a place of the name it was asked for | `ServiceInv`: every location is the place of a transaction of its name, also between the writes of tree, locations and chain; what a query has read so far is such a place, and blocks stay |
| `ConfirmedAreBuried` (ServiceProofs) | a confirmed transaction is in the full node's chain under enough blocks | `ServiceInv`: headers and tip of the light node are of the full node's chain, which only grows, and a verified proof is of a block of it |
| `HeadersStayConsecutive` (ServiceProofs, on `HeaderStream`) | from an empty header chain on, headers are without gap or repetition | `AddBlockHeader` takes any first header and then only the successor of the last; every step offers it at most one (`HeadersOffered`) |

Each invariant was first checked with TLC on the run of its module.

Only model-checked:

- liveness (`LightCatchesUp`, `EveryCallReturns`, `FlaggedPeerReturns`, `EveryWalkEnds`,
  `CacheHeals`): fairness and ENABLED are out of the prover's reach;
- `ShareFollowsStake`, which counts words over what a recursive function computes at every
  size: a loop over a block can be followed one step at a time (`LoopExists`,
  `SetInduction` in ApplyProofs), the number of words in an interval cannot.

## 5. Not modelled

BoltDB, libp2p, TLS and envelopes (I/O); generated code; Base58, DER and DNS wire
formats (pure encodings); latency statistics; the rotations of the AVL tree, which
chain logic sees only as a map; the Bloom filter, `VerifyTransaction` and
`ValidateRedemption` (no caller); block synchronisation (its first message has no
sender); the simulations (drivers). A restarted node does not rebuild its state from
the file, so there is no recovery to model.

## 6. Plan

1. Done: the chain state, gates and passes; one validating node and its atomic
   specification; the cluster; election, beacon and header streams; the connection
   pool, proofs and resolution; the theorems above.
2. Theorems left: `ShareFollowsStake`, which needs lemmas on counting.
3. Left for the model: a leads-to property for the mempool (one transaction whose
   nonce was used blocks every later `AddTransaction`), and the AVL tree.
