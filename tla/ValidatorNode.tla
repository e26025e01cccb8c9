---------------------------- MODULE ValidatorNode ----------------------------
(***************************************************************************)
(* A full node that receives blocks: Node.AddBlock (network/node_helper.go) *)
(* and ValidateBlock / ValidateTransactions (blockchain/block.go).         *)
(*                                                                         *)
(* A block passes the header and purge checks, then four loops over its    *)
(* transactions: the gates, the ledger pass, the domain pass and the stake *)
(* pass, each ending in a comparison with a hash the block carries.  Every *)
(* loop iteration is a step.  A block may come from any peer, so whether   *)
(* its hashes match what this node computes is left open.                  *)
(*                                                                         *)
(* "shadows" keeps the shadow maps as they were before each transaction:   *)
(* in the code they are local to ValidateTransactions, here the later      *)
(* passes can be compared with what the gates believed.                    *)
(***************************************************************************)
EXTENDS Gates

CONSTANTS
  Submitted,    \* every transaction anybody ever signs
  InitBal,      \* the balances the node starts with
  MaxSlot,      \* bound: last slot
  MaxBlocks,    \* bound: blocks after genesis
  MaxBlockTxs   \* bound: transactions per block

\* Nothing is assumed of transaction IDs but that they are not zero: signers
\* choose them (transaction.go:625) and no gate compares them.
ASSUME SubmittedAssumption ==
  /\ Submitted \subseteq Transactions
  /\ \A tx \in Submitted : tx.tid # 0

ASSUME NodeAssumption ==
  /\ InitBal \in [Keys -> Nat]
  /\ MaxSlot \in Nat /\ MaxBlocks \in Nat /\ MaxBlockTxs \in Nat

VARIABLES
  live,     \* the node's ledger, stake, queue, evidence, index and commits
  chain,    \* the accepted blocks, genesis first
  pc,       \* where AddBlock is
  blk,      \* the block being validated
  i,        \* the loop counter of the current pass
  shadows,  \* shadows[j]: the shadow maps before transaction j
  staged,   \* the staging clones and overlays
  fees      \* totalFees

vars == <<live, chain, pc, blk, i, shadows, staged, fees>>

TxSeqs == UNION {[1 .. n -> Submitted] : n \in 1 .. MaxBlockTxs}

Blocks == [index : Nat, slot : Nat, leader : TrustedRegistries, txs : TxSeqs]

Genesis == [index |-> 0, slot |-> 0, leader |-> None, txs |-> <<>>]

GenesisState ==
  [bal     |-> InitBal,
   nonce   |-> [k \in Keys |-> 0],
   stake   |-> [k \in Keys |-> 0],
   queue   |-> <<>>,
   slashed |-> {},
   dom     |-> [d \in Domains |-> NoEntry],
   spent   |-> {},
   purge   |-> {},
   commits |-> {},
   gone    |-> {}]

Tip == chain[Len(chain)]
Tx == blk.txs[i]
AtEnd == i = Len(blk.txs) + 1

\* What the gates read: the live state, with the expired commits hidden.
View == PurgeExpired(live, blk.index)

GateContext == [slot |-> blk.slot, inBlock |-> TRUE, leader |-> blk.leader]

-----------------------------------------------------------------------------
(* Checks before the loops.  A block that fails one changes nothing. *)

\* The block extends the head of the chain; its signature, Merkle root and
\* leader are taken to be right.
HeaderOK(b) == b.index = Tip.index + 1 /\ b.slot > Tip.slot

\* Every purge due at exactly this slot is revoked or renewed by the block.
PurgesPresent(b) ==
  \A p \in GetPurgeableDomains(live, b.slot) :
    \E j \in DOMAIN b.txs :
      LET tx == b.txs[j]
      IN  /\ tx.domain = p[2]
          /\ \/ tx.type = "RENEW"
             \/ tx.type = "REVOKE" /\ tx.redeems = p[3]

-----------------------------------------------------------------------------
Init ==
  /\ live = GenesisState
  /\ chain = <<Genesis>>
  /\ pc = "idle"
  /\ blk = Genesis
  /\ i = 1
  /\ shadows = <<>>
  /\ staged = GenesisState
  /\ fees = 0

\* Forget the block in progress.
Idle(S) ==
  /\ pc' = "idle" /\ blk' = Genesis /\ i' = 1
  /\ shadows' = <<>> /\ staged' = S /\ fees' = 0

ReceiveBlock(b) ==
  /\ HeaderOK(b)
  /\ PurgesPresent(b)
  /\ LET V == PurgeExpired(live, b.index)
     IN  /\ staged' = [V EXCEPT !.queue = SweepMature(@, b.slot)]
         /\ shadows' = <<InitShadow(V)>>
  /\ blk' = b
  /\ pc' = "gates"
  /\ i' = 1
  /\ UNCHANGED <<live, chain, fees>>

GatePass ==
  /\ pc = "gates" /\ ~AtEnd
  /\ GateTx(View, shadows[i], Tx, GateContext)
  /\ shadows' = Append(shadows, ShadowAfter(View, shadows[i], Tx))
  /\ i' = i + 1
  /\ UNCHANGED <<live, chain, pc, blk, staged, fees>>

GateReject ==
  /\ pc = "gates" /\ ~AtEnd
  /\ ~GateTx(View, shadows[i], Tx, GateContext)
  /\ Idle(live)
  /\ UNCHANGED <<live, chain>>

GatesDone ==
  /\ pc = "gates" /\ AtEnd
  /\ pc' = "ledger"
  /\ i' = 1
  /\ UNCHANGED <<live, chain, blk, shadows, staged, fees>>

LedgerStep ==
  /\ pc = "ledger" /\ ~AtEnd
  /\ staged' = ApplyLedgerMutations(staged, Tx)
  /\ fees' = fees + Tx.fee
  /\ i' = i + 1
  /\ UNCHANGED <<live, chain, pc, blk, shadows>>

\* The leader is credited with all fees, whether or not each was debited.
LedgerDone ==
  /\ pc = "ledger" /\ AtEnd
  /\ staged' = [staged EXCEPT !.bal = Credit(@, blk.leader, fees)]
  /\ pc' = "domain"
  /\ i' = 1
  /\ UNCHANGED <<live, chain, blk, shadows, fees>>

DomainStep ==
  /\ pc = "domain" /\ ~AtEnd
  /\ staged' = ApplyDomainMutations(live, staged, Tx, blk.slot, blk.index)
  /\ i' = i + 1
  /\ UNCHANGED <<live, chain, pc, blk, shadows, fees>>

DomainDone ==
  /\ pc = "domain" /\ AtEnd
  /\ pc' = "stake"
  /\ i' = 1
  /\ UNCHANGED <<live, chain, blk, shadows, staged, fees>>

StakeStep ==
  /\ pc = "stake" /\ ~AtEnd
  /\ staged' = ApplyStakeMutations(staged, Tx, blk.slot)
  /\ i' = i + 1
  /\ UNCHANGED <<live, chain, pc, blk, shadows, fees>>

\* Mutant: what was staged is promoted before the hashes are compared.
PromotedAnyway ==
  /\ pc \in {"ledger", "domain", "stake"} /\ AtEnd
  /\ live' = staged
  /\ Idle(staged)
  /\ UNCHANGED chain

\* A hash carried by the block differs from the one computed here.
HashMismatch ==
  /\ pc \in {"ledger", "domain", "stake"} /\ AtEnd
  /\ Idle(live)
  /\ UNCHANGED <<live, chain>>

\* What the overlays and clones leave behind once they are committed.
Committed(S) == CommitIndex(live, CommitCommits(S))

AcceptBlock ==
  /\ pc = "stake" /\ AtEnd
  /\ live' = Committed(staged)
  /\ chain' = Append(chain, blk)
  /\ Idle(Committed(staged))

\* The blocks a peer may send within the bounds of the model, old, late and
\* overtaken ones included.
Arrivals ==
  [index : 1 .. MaxBlocks, slot : 1 .. MaxSlot, leader : TrustedRegistries,
   txs : TxSeqs]

BlockArrives ==
  /\ pc = "idle"
  /\ \E b \in Arrivals : ReceiveBlock(b)

Next ==
  \/ BlockArrives
  \/ GatePass \/ GateReject \/ GatesDone
  \/ LedgerStep \/ LedgerDone
  \/ DomainStep \/ DomainDone
  \/ StakeStep \/ HashMismatch \/ AcceptBlock

Spec == Init /\ [][Next]_vars

=============================================================================
