------------------------------- MODULE Cluster -------------------------------
(***************************************************************************)
(* Full nodes that make and exchange blocks: the slot loop                 *)
(* CreateBlockIfLeader and GetSlotLeader (network/node_leader.go), the     *)
(* mempool and block handlers (network/node_helper.go), slot-skip messages *)
(* (network/node.go) and the tip rule of Blockchain.AddBlock.              *)
(*                                                                         *)
(* Every registry runs one node.  A block travels as the chain that ends   *)
(* in it, so that "PrevHash is the hash of my tip" reads "the rest of it   *)
(* is my chain".  Messages may be lost, delayed, repeated and reordered:   *)
(* a node may handle any block or transaction ever published, at any time. *)
(*                                                                         *)
(* The leader's work for one slot is four steps, because it takes and      *)
(* drops locks in between: Wake chooses transactions, Clone copies the     *)
(* stake state and reads the tip, Seal executes and signs, Promote makes   *)
(* the result live.  Between them the gossip goroutine and the /tx-forward *)
(* streams run: a node handles blocks and transactions while its leader is *)
(* at work.  Two history variables remember where that happened.           *)
(***************************************************************************)
EXTENDS BlockRules, Election, FiniteSets, Functions

CONSTANTS
  RegistryKeys,   \* the validators' keys, in order
  SlotsPerEpoch,
  BlockTxLimit,   \* transactions the leader takes from the pool, 10 in the code
  Submitted,      \* the transactions users send
  InitBal,        \* the genesis balances
  MaxSlot,        \* bound: last slot
  Drift           \* bound: slots a node's loop may lag behind the clock

Nodes == {RegistryKeys[i] : i \in DOMAIN RegistryKeys}

ASSUME ClusterAssumption ==
  /\ RegistryKeys \in Seq(Keys) /\ RegistryKeys # <<>>
  /\ Nodes \subseteq TrustedRegistries
  /\ Submitted \subseteq Transactions
  /\ \A tx \in Submitted : tx.tid # 0
  /\ \A t1, t2 \in Submitted : t1.tid = t2.tid => t1 = t2
  /\ InitBal \in [Keys -> Nat]
  /\ SlotsPerEpoch \in Nat \ {0} /\ BlockTxLimit \in Nat \ {0}
  /\ MaxSlot \in Nat /\ Drift \in Nat

VARIABLES
  live,   \* live[n]: ledger, stakes, index and commits of node n
  chain,  \* chain[n]: blocks up to the tip
  pool,   \* pool[n]: TransactionPool
  cache,  \* cache[n]: SlotLeaders, by epoch
  slot,   \* slot[n]: the loop's slot counter
  turn,   \* turn[n]: currSlotLeader
  work,   \* work[n]: the locals of the leader's current slot
  now,    \* the slot of the wall clock
  net,    \* blocks and slot-skips published so far
  torn,   \* history: nodes that accepted a block while their leader worked
  late    \* history: late[n]: transactions n admitted while its leader worked

vars == <<live, chain, pool, cache, slot, turn, work, now, net, torn, late>>

Epochs == 0 .. MaxSlot \div SlotsPerEpoch
EpochOf(s) == s \div SlotsPerEpoch

TipOf(c) == c[Len(c)]
ParentOf(c) == SubSeq(c, 1, Len(c) - 1)

\* The sequences that hold every element of S once.
Orders(S) == Bijection(1 .. Cardinality(S), S)

GenesisBlock ==
  [index |-> 0, slot |-> 0, time |-> 0, leader |-> RegistryKeys[1],
   txs |-> <<>>, digest |-> <<>>]

GenesisLive ==
  [bal |-> InitBal, nonce |-> [k \in Keys |-> 0], stake |-> [k \in Keys |-> 0],
   queue |-> <<>>, slashed |-> {}, dom |-> [d \in Domains |-> NoEntry],
   spent |-> {}, purge |-> {}, commits |-> {}, gone |-> {}]

Idle == [stage |-> "idle"]

-----------------------------------------------------------------------------
(* GetSlotLeader.  EpochRandoms is always empty, because no node ever sends  *)
(* a reveal (see Beacon), so the mock seed decides.                          *)

ElectedBy(L, tipSlot) ==
  RegistryKeys[LeaderFromMock([i \in DOMAIN RegistryKeys |->
                                 L.stake[RegistryKeys[i]]], tipSlot)]

\* What node n answers for epoch e; the first answer is cached.
GetSlotLeader(n, e) ==
  IF cache[n][e] # None THEN cache[n][e]
  ELSE ElectedBy(live[n], TipOf(chain[n]).slot)

Cached(n, e) == [cache EXCEPT ![n][e] = GetSlotLeader(n, e)]

-----------------------------------------------------------------------------
(* The hashes of a block: ledger, index, commit store, stake, queue *)

DigestOf(ledger, S) ==
  [ledger  |-> <<ledger.bal, ledger.nonce>>,
   index   |-> [d \in Domains |-> [S.dom[d] EXCEPT !.tid = 0]],
   commits |-> {c \in S.commits : c.hash \notin S.gone},
   stake   |-> S.stake,
   queue   |-> S.queue]

\* A validator hashes the ledger before the domain pass, the leader after it.
ValidatorDigest(L, b) == DigestOf(LedgerPass(Opened(L, b), b), Staged(L, b))

-----------------------------------------------------------------------------
Init ==
  /\ live  = [n \in Nodes |-> GenesisLive]
  /\ chain = [n \in Nodes |-> <<GenesisBlock>>]
  /\ pool  = [n \in Nodes |-> {}]
  /\ cache = [n \in Nodes |-> [e \in Epochs |->
                IF e = 0 THEN RegistryKeys[1] ELSE None]]
  /\ slot  = [n \in Nodes |-> SlotsPerEpoch - 1]
  /\ turn  = [n \in Nodes |-> RegistryKeys[1]]
  /\ work  = [n \in Nodes |-> Idle]
  /\ now   = SlotsPerEpoch - 1
  /\ net   = {}
  /\ torn  = {}
  /\ late  = [n \in Nodes |-> {}]

\* ListenForGossip drops a node's own messages.
Hears(n, sender) == sender # n

ClockTick ==
  /\ now < MaxSlot
  /\ \A n \in Nodes : now - slot[n] < Drift \/ (slot[n] = now /\ work[n] = Idle)
  /\ now' = now + 1
  /\ UNCHANGED <<live, chain, pool, cache, slot, turn, work, net, torn, late>>

-----------------------------------------------------------------------------
(* AddTransaction *)

Before(t1, t2) ==
  t1.nonce < t2.nonce \/ (t1.nonce = t2.nonce /\ t1.tid < t2.tid)

\* Mutant: only the newcomer is validated.
AloneValid(L, tip, P, tx, s) ==
  ValidateTransactions(PurgeExpired(L, tip.index + 1), <<tx>>,
                       [slot |-> s, inBlock |-> FALSE, leader |-> None])

\* The pool with tx in it, sorted by nonce and TID, passes the gates.
PoolValid(L, tip, P, tx, s) ==
  \E pendingList \in Orders(P \cup {tx}) :
    /\ \A i, j \in DOMAIN pendingList :
         i < j => ~Before(pendingList[j], pendingList[i])
    /\ ValidateTransactions(PurgeExpired(L, tip.index + 1), pendingList,
                            [slot |-> s, inBlock |-> FALSE, leader |-> None])

AddTransaction(n, tx) ==
  /\ \A t \in pool[n] : t.tid # tx.tid
  /\ PoolValid(live[n], TipOf(chain[n]), pool[n], tx, now)
  /\ pool' = [pool EXCEPT ![n] = @ \cup {tx}]
  /\ late' = [late EXCEPT ![n] = IF work[n] = Idle THEN @ ELSE @ \cup {tx}]
  /\ UNCHANGED <<live, chain, cache, slot, turn, work, now, net, torn>>

-----------------------------------------------------------------------------
(* AddBlock *)

\* ValidateBlock of the last block of c, for a node at state L and chain h.
Acceptable(L, h, c, leader) ==
  LET b == TipOf(c)
  IN  /\ ParentOf(c) = h
      /\ b.slot > TipOf(h).slot
      /\ b.leader = leader
      /\ GatesAccept(L, b)
      /\ b.digest = ValidatorDigest(L, b)

BlockLeader(n, b) == GetSlotLeader(n, EpochOf(b.time))

\* Mutant: executed transactions stay.
Kept(P, txs) == P

\* RemoveTxsFromPool, by TID
Without(P, txs) == {t \in P : \A j \in DOMAIN txs : txs[j].tid # t.tid}

AcceptBlock(n, c) ==
  LET b == TipOf(c)
  IN  /\ Hears(n, b.leader)
      /\ Acceptable(live[n], chain[n], c, BlockLeader(n, b))
      /\ live' = [live EXCEPT ![n] = Executed(@, b)]
      /\ chain' = [chain EXCEPT ![n] = c]
      /\ pool' = [pool EXCEPT ![n] = Without(@, b.txs)]
      /\ cache' = Cached(n, EpochOf(b.time))
      /\ torn' = IF work[n] = Idle THEN torn ELSE torn \cup {n}
      /\ UNCHANGED <<slot, turn, work, now, net, late>>

\* A rejected block may still fix the leader this node will expect.
RejectBlock(n, c) ==
  LET b == TipOf(c)
  IN  /\ Hears(n, b.leader)
      /\ cache[n][EpochOf(b.time)] = None
      /\ ~Acceptable(live[n], chain[n], c, BlockLeader(n, b))
      /\ cache' = Cached(n, EpochOf(b.time))
      /\ UNCHANGED <<live, chain, pool, slot, turn, work, now, net, torn, late>>

\* handleSlotSkip: all it does that is read again is to cache the leader.
HandleSlotSkip(n, s, sender) ==
  /\ Hears(n, sender)
  /\ cache[n][EpochOf(s)] = None
  /\ cache' = Cached(n, EpochOf(s))
  /\ UNCHANGED <<live, chain, pool, slot, turn, work, now, net, torn, late>>

-----------------------------------------------------------------------------
(* CreateBlockIfLeader *)

\* ChooseTxFromPool ranges over a Go map: which transactions it takes, up to
\* the limit, and in which order, is arbitrary.
Selections(P) ==
  LET k == IF Cardinality(P) < BlockTxLimit THEN Cardinality(P) ELSE BlockTxLimit
  IN  UNION {Orders(T) : T \in {Q \in SUBSET P : Cardinality(Q) = k}}

\* No owner, no signature, the TID of the registration.
AutoRevocation(p) ==
  [BlankTx(p[3], "REVOKE", None, 0, 0) EXCEPT
     !.domain = p[2], !.expiry = p[1] - GraceSlots, !.redeems = p[3]]

\* The revocations due at slot s, except of domains that txs renew.  The code
\* sorts them by name; names have no order here, so every order is possible.
GenerateAutoRevocations(L, s, txs) ==
  LET due == {p \in GetPurgeableDomains(L, s) :
                \A j \in DOMAIN txs :
                  ~(txs[j].type = "RENEW" /\ txs[j].domain = p[2])}
  IN  Orders({AutoRevocation(p) : p \in due})

\* The leader of the slot that n's loop enters.
NextTurn(n) ==
  LET e == EpochOf(slot[n] + 1)
  IN  IF e # EpochOf(slot[n]) THEN GetSlotLeader(n, e) ELSE turn[n]

EnterSlot(n) ==
  /\ work[n] = Idle /\ slot[n] < now
  /\ slot' = [slot EXCEPT ![n] = @ + 1]
  /\ turn' = [turn EXCEPT ![n] = NextTurn(n)]
  /\ cache' = IF EpochOf(slot[n] + 1) # EpochOf(slot[n])
              THEN Cached(n, EpochOf(slot[n] + 1)) ELSE cache

NotMyTurn(n) ==
  /\ EnterSlot(n)
  /\ NextTurn(n) # n
  /\ UNCHANGED <<live, chain, pool, work, now, net, torn, late>>

\* Nothing to put into a block: BroadcastSlotSkip.
SkipSlot(n) ==
  /\ EnterSlot(n)
  /\ NextTurn(n) = n
  /\ pool[n] = {} /\ <<>> \in GenerateAutoRevocations(live[n], slot[n] + 1, <<>>)
  /\ net' = net \cup {[skip |-> <<slot[n] + 1, n>>]}
  /\ UNCHANGED <<live, chain, pool, work, now, torn, late>>

Wake(n) ==
  /\ EnterSlot(n)
  /\ NextTurn(n) = n
  /\ \E chosen \in Selections(pool[n]) :
       \E revs \in GenerateAutoRevocations(live[n], slot[n] + 1, chosen) :
         /\ revs \o chosen # <<>>
         /\ work' = [work EXCEPT ![n] =
              [stage |-> "chosen", txs |-> revs \o chosen,
               commits |-> PurgeExpired(live[n], TipOf(chain[n]).index + 1)]]
         /\ pool' = [pool EXCEPT ![n] = Without(@, chosen)]
  /\ UNCHANGED <<live, chain, now, net, torn, late>>

Clone(n) ==
  /\ work[n].stage = "chosen"
  /\ TipOf(chain[n]).slot < slot[n]
  /\ work' = [work EXCEPT ![n] =
       [stage |-> "cloned", txs |-> work[n].txs, commits |-> work[n].commits,
        stakes |-> live[n], parent |-> chain[n]]]
  /\ UNCHANGED <<live, chain, pool, cache, slot, turn, now, net, torn, late>>

\* The pool is a map by TID: of two transactions with one TID the later stays.
PutIn(P, txs) ==
  Without(P, txs) \cup
    {txs[j] : j \in {i \in DOMAIN txs :
                      \A k \in DOMAIN txs : k > i => txs[k].tid # txs[i].tid}}

\* The slot is taken already: the chosen transactions go back to the pool.
PutBack(n) ==
  /\ work[n].stage = "chosen"
  /\ TipOf(chain[n]).slot >= slot[n]
  /\ pool' = [pool EXCEPT ![n] = PutIn(@, work[n].txs)]
  /\ work' = [work EXCEPT ![n] = Idle]
  /\ UNCHANGED <<live, chain, cache, slot, turn, now, net, torn, late>>

\* The state the leader executes on: ledger and index as they are now, the
\* commits of Wake, the stakes of Clone.
LeaderBase(n) ==
  [live[n] EXCEPT !.commits = work[n].commits.commits,
                  !.gone    = work[n].commits.gone,
                  !.stake   = work[n].stakes.stake,
                  !.queue   = SweepMature(work[n].stakes.queue, slot[n]),
                  !.slashed = work[n].stakes.slashed]

\* Mutant: the stake hash is taken of the live map.
LiveStakes(base, S) == [DigestOf(S, S) EXCEPT !.stake = base.stake]

LeaderDigest(base, S) == DigestOf(S, S)

\* The leader runs the passes without the gates.
Seal(n) ==
  /\ work[n].stage = "cloned"
  /\ LET b == [index |-> TipOf(work[n].parent).index + 1, slot |-> slot[n],
               time |-> now, leader |-> n, txs |-> work[n].txs]
         base == LeaderBase(n)
         S == StakePass(DomainPass(base, LedgerPass(base, b), b), b)
     IN  work' = [work EXCEPT ![n] =
           [stage |-> "sealed", parent |-> work[n].parent, base |-> base,
            out |-> S,
            block |-> [index |-> b.index, slot |-> b.slot, time |-> b.time,
                       leader |-> n, txs |-> b.txs,
                       digest |-> LeaderDigest(base, S)]]]
  /\ UNCHANGED <<live, chain, pool, cache, slot, turn, now, net, torn, late>>

\* The ledger and the stake state are replaced; what the overlays recorded is
\* merged into the index and the commit store.
Promoted(L, base, S) ==
  LET added == S.commits \ base.commits
      merged == [S EXCEPT
        !.dom = [d \in Domains |->
                   IF S.dom[d] # base.dom[d] THEN S.dom[d] ELSE L.dom[d]],
        !.spent = L.spent \cup S.spent,
        !.purge = L.purge,
        !.commits = {c \in L.commits : \A a \in added : a.hash # c.hash}
                      \cup added]
  IN  CommitIndex([base EXCEPT !.purge = L.purge], CommitCommits(merged))

\* Mutant: the leader's block is published and not stored.
PublishOnly(n) ==
  /\ work[n].stage = "sealed"
  /\ live' = [live EXCEPT ![n] = Promoted(@, work[n].base, work[n].out)]
  /\ net' = net \cup {[block |-> Append(work[n].parent, work[n].block)]}
  /\ work' = [work EXCEPT ![n] = Idle]
  /\ UNCHANGED <<chain, pool, cache, slot, turn, now, torn, late>>

Promote(n) ==
  /\ work[n].stage = "sealed"
  /\ live' = [live EXCEPT ![n] = Promoted(@, work[n].base, work[n].out)]
  /\ chain' = IF chain[n] = work[n].parent
              THEN [chain EXCEPT ![n] = Append(@, work[n].block)] ELSE chain
  /\ net' = net \cup {[block |-> Append(work[n].parent, work[n].block)]}
  /\ work' = [work EXCEPT ![n] = Idle]
  /\ UNCHANGED <<pool, cache, slot, turn, now, torn, late>>

-----------------------------------------------------------------------------
BlocksOn == {m.block : m \in {x \in net : "block" \in DOMAIN x}}
SkipsOn  == {m.skip : m \in {x \in net : "skip" \in DOMAIN x}}

Next ==
  \/ ClockTick
  \/ \E n \in Nodes :
       \/ \E tx \in Submitted : AddTransaction(n, tx)
       \/ \E c \in BlocksOn : AcceptBlock(n, c)
       \/ \E c \in BlocksOn : RejectBlock(n, c)
       \/ \E m \in SkipsOn : HandleSlotSkip(n, m[1], m[2])
       \/ NotMyTurn(n) \/ SkipSlot(n) \/ Wake(n)
       \/ Clone(n) \/ PutBack(n) \/ Seal(n) \/ Promote(n)

Spec == Init /\ [][Next]_vars

=============================================================================
