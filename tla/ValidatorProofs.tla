--------------------------- MODULE ValidatorProofs ---------------------------
(***************************************************************************)
(* Theorems about the validating node, for every set of keys, domains and  *)
(* transactions and for every bound: types, debits that never fail, the    *)
(* refinement of AtomicChain, and three facts about the accepted chain as  *)
(* a whole: the minimum stake survives any mix of STAKE and UNSTAKE        *)
(* transactions, no transaction is executed twice and no offence is        *)
(* punished twice.                                                         *)
(***************************************************************************)
EXTENDS ValidatorProperties, ApplyProofs

-----------------------------------------------------------------------------
(* Types *)

\* What a block of the model is made of.
LEMMA BlockFacts ==
  ASSUME NEW b \in Blocks
  PROVE  /\ b.index \in Nat /\ b.slot \in Nat /\ b.leader \in Keys
         /\ b.txs \in Seq(Submitted) /\ Len(b.txs) \in Nat
         /\ \A j \in 1 .. Len(b.txs) : b.txs[j] \in Transactions
<1>1. b.index \in Nat /\ b.slot \in Nat /\ b.leader \in Keys /\ b.txs \in TxSeqs
  BY NamesAssumption DEF Blocks
<1>2. PICK n \in 1 .. MaxBlockTxs : b.txs \in [1 .. n -> Submitted]
  BY <1>1 DEF TxSeqs
<1>3. n \in Nat
  BY NodeAssumption
<1>4. b.txs \in Seq(Submitted)
  BY <1>2, <1>3
<1> QED
  BY <1>1, <1>4, SubmittedAssumption

\* The node starts in a state, with nothing in progress.
LEMMA InitTyped == Init => TypeOK /\ GatesHeld
<1> SUFFICES ASSUME Init PROVE TypeOK /\ GatesHeld
  OBVIOUS
<1>1. GenesisState \in States
  BY NodeAssumption DEF GenesisState, States, NoEntry, Entries
<1>2. chain \in Seq(Blocks \cup {Genesis}) /\ chain # <<>>
  BY DEF Init
<1>3. blk = Genesis /\ Len(blk.txs) = 0 /\ pc = "idle"
  BY DEF Init, Genesis
<1> QED
  BY <1>1, <1>2, <1>3 DEF Init, TypeOK, GatesHeld

\* Forgetting a block keeps the invariant.
LEMMA IdleTyped ==
  ASSUME TypeOK, NEW S \in States, Idle(S), live' \in States,
         chain' \in Seq(Blocks \cup {Genesis}), chain' # <<>>
  PROVE  (TypeOK /\ GatesHeld)'
<1>1. blk' = Genesis /\ Len(blk'.txs) = 0 /\ i' = 1 /\ pc' = "idle"
  BY DEF Idle, Genesis
<1> QED
  BY <1>1 DEF Idle, TypeOK, GatesHeld

\* Receiving a block opens well-typed clones and shadow maps.
LEMMA ReceiveTyped ==
  ASSUME TypeOK, NEW b \in Arrivals, ReceiveBlock(b)
  PROVE  (TypeOK /\ GatesHeld)'
<1>1. b \in Blocks
  BY NodeAssumption DEF Arrivals, Blocks
<1>2. b.index \in Nat /\ b.slot \in Nat /\ Len(b.txs) \in Nat /\ live \in States
  BY <1>1, BlockFacts DEF TypeOK
<1> DEFINE V == PurgeExpired(live, b.index)
           q == SweepMature(V.queue, b.slot)
<1>3. V \in States
  BY <1>2, CommitType
<1>4. q \in Seq(PendingUnstakes)
  BY <1>2, <1>3, SweepType DEF States, Queues
<1>5. staged' = [V EXCEPT !.queue = q] /\ shadows' = <<InitShadow(V)>>
  BY DEF ReceiveBlock
<1>6. InitShadow(V) \in Shadows
  BY <1>3, InitShadowType
<1>7. View' = V
  BY DEF ReceiveBlock, View
<1> HIDE DEF V, q
<1>8. staged' \in States
  BY <1>3, <1>4, <1>5 DEF States
<1>9. TypeOK'
  BY <1>1, <1>2, <1>5, <1>6, <1>8 DEF TypeOK, ReceiveBlock
<1>10. GatesHeld'
  BY <1>5, <1>7 DEF GatesHeld, ReceiveBlock
<1> QED
  BY <1>9, <1>10


\* What the loops know about the transaction they look at.
LEMMA CurrentTx ==
  ASSUME TypeOK, pc # "idle", ~AtEnd
  PROVE  /\ i \in 1 .. Len(blk.txs) /\ Tx \in Transactions
         /\ i + 1 \in 1 .. Len(blk.txs) + 1
         /\ blk.slot \in Nat /\ blk.index \in Nat
<1>1. blk \in Blocks /\ i \in 1 .. Len(blk.txs) + 1
  BY DEF TypeOK
<1>2. Len(blk.txs) \in Nat
  BY <1>1, BlockFacts
<1> QED
  BY <1>1, <1>2, BlockFacts DEF AtEnd, Tx

\* A gate step extends the history of shadow maps.
LEMMA GatePassTyped ==
  ASSUME TypeOK, GatesHeld, GatePass
  PROVE  (TypeOK /\ GatesHeld)'
<1>1. pc = "gates" /\ pc # "idle" /\ ~AtEnd /\ Len(shadows) = i
  BY DEF GatePass, GatesHeld
<1>2. /\ i \in 1 .. Len(blk.txs) /\ Tx \in Transactions
      /\ i + 1 \in 1 .. Len(blk.txs) + 1 /\ blk.index \in Nat
  BY <1>1, CurrentTx
<1>3. View \in States /\ shadows \in Seq(Shadows) /\ shadows[i] \in Shadows
  <2>1. View \in States
    BY <1>2, CommitType DEF TypeOK, View
  <2>2. shadows \in Seq(Shadows) /\ i \in 1 .. Len(shadows)
    BY <1>1, <1>2 DEF TypeOK
  <2> QED
    BY <2>1, <2>2
<1> DEFINE next == ShadowAfter(View, shadows[i], Tx)
<1>4. next \in Shadows
  BY <1>2, <1>3, ShadowType DEF GatePass
<1>5. /\ shadows' = Append(shadows, next) /\ Len(shadows') = i + 1
      /\ shadows' \in Seq(Shadows) /\ shadows'[i + 1] = next
      /\ \A j \in 1 .. i : shadows'[j] = shadows[j]
  <2> HIDE DEF next
  <2>1. shadows' = Append(shadows, next)
    BY DEF GatePass, next
  <2> QED
    BY <1>1, <1>3, <1>4, <2>1
<1>6. UNCHANGED <<live, chain, pc, blk, staged, fees>> /\ i' = i + 1
  BY DEF GatePass
<1>7. TypeOK'
  BY <1>2, <1>5, <1>6 DEF TypeOK
<1>8. View' = View /\ GateContext' = GateContext
  BY <1>6 DEF View, GateContext
<1>9. ASSUME NEW j \in 1 .. Len(shadows') - 1
      PROVE  /\ GateTx(View, shadows'[j], blk.txs[j], GateContext)
             /\ shadows'[j + 1] = ShadowAfter(View, shadows'[j], blk.txs[j])
  <2>1. CASE j = i
    BY <1>2, <1>5, <2>1 DEF GatePass, Tx
  <2>2. CASE j # i
    <3>1. j \in 1 .. Len(shadows) - 1 /\ j \in 1 .. i /\ j + 1 \in 1 .. i
      BY <1>1, <1>2, <1>5, <2>2
    <3>2. /\ GateTx(View, shadows[j], blk.txs[j], GateContext)
          /\ shadows[j + 1] = ShadowAfter(View, shadows[j], blk.txs[j])
      BY <1>1, <3>1 DEF GatesHeld
    <3>3. shadows'[j] = shadows[j] /\ shadows'[j + 1] = shadows[j + 1]
      BY <1>5, <3>1
    <3> QED
      BY <3>2, <3>3
  <2> QED
    BY <2>1, <2>2
<1>10. shadows'[1] = InitShadow(View)
  BY <1>1, <1>2, <1>5 DEF GatesHeld
<1>11. GatesHeld'
  BY <1>1, <1>5, <1>6, <1>8, <1>9, <1>10 DEF GatesHeld
<1> QED
  BY <1>7, <1>11

\* A step of a later pass leaves the gates' history alone.
LEMMA PassTyped ==
  ASSUME TypeOK, GatesHeld, pc # "idle", pc' # "idle",
         pc = "gates" => pc' # "gates" /\ AtEnd,
         pc # "gates" => pc' # "gates",
         pc' \in {"idle", "gates", "ledger", "domain", "stake"},
         UNCHANGED <<live, chain, blk, shadows>>,
         i' \in 1 .. Len(blk.txs) + 1, staged' \in States, fees' \in Nat
  PROVE  (TypeOK /\ GatesHeld)'
<1>1. TypeOK'
  BY DEF TypeOK
<1>2. View' = View /\ GateContext' = GateContext
  BY DEF View, GateContext
<1>3. Len(shadows) = Len(blk.txs) + 1
  BY DEF GatesHeld, AtEnd
<1>4. GatesHeld'
  BY <1>2, <1>3 DEF GatesHeld
<1> QED
  BY <1>1, <1>4

\* Every transaction of a block past the gates is complete.
LEMMA PastGates ==
  ASSUME TypeOK, GatesHeld, pc \in {"ledger", "domain", "stake"},
         NEW j \in 1 .. Len(blk.txs)
  PROVE  /\ GateTx(View, shadows[j], blk.txs[j], GateContext)
         /\ shadows[j + 1] = ShadowAfter(View, shadows[j], blk.txs[j])
         /\ shadows[j] \in Shadows /\ shadows[j + 1] \in Shadows
         /\ View \in States /\ IsComplete(blk.txs[j])
<1>1. /\ Len(shadows) = Len(blk.txs) + 1 /\ blk \in Blocks
      /\ pc # "idle" /\ pc # "gates"
  BY DEF GatesHeld, TypeOK
<1>2. Len(blk.txs) \in Nat /\ blk.index \in Nat /\ blk.txs[j] \in Transactions
  BY <1>1, BlockFacts
<1>3. /\ j \in 1 .. Len(shadows) /\ j + 1 \in 1 .. Len(shadows)
      /\ j \in 1 .. Len(shadows) - 1
  BY <1>1, <1>2
<1>4. /\ GateTx(View, shadows[j], blk.txs[j], GateContext)
      /\ shadows[j + 1] = ShadowAfter(View, shadows[j], blk.txs[j])
  BY <1>1, <1>3 DEF GatesHeld
<1>5. shadows[j] \in Shadows /\ shadows[j + 1] \in Shadows
  BY <1>3 DEF TypeOK
<1>6. View \in States
  BY <1>2, CommitType DEF TypeOK, View
<1>7. shadows[j].registered \subseteq Domains
  BY <1>5 DEF Shadows
<1>8. IsComplete(blk.txs[j])
  BY <1>2, <1>4, <1>7, GateIsComplete
<1> QED
  BY <1>4, <1>5, <1>6, <1>8

\* The ledger pass keeps the types.
LEMMA LedgerTyped ==
  ASSUME TypeOK, GatesHeld, LedgerStep \/ LedgerDone
  PROVE  (TypeOK /\ GatesHeld)'
<1>1. pc = "ledger" /\ blk \in Blocks /\ staged \in States /\ fees \in Nat
  BY DEF LedgerStep, LedgerDone, TypeOK
<1>2. Len(blk.txs) \in Nat /\ blk.leader \in Keys
  BY <1>1, BlockFacts
<1>3. CASE LedgerStep
  <2>1. Tx \in Transactions /\ i' \in 1 .. Len(blk.txs) + 1
    BY <1>1, <1>3, CurrentTx DEF LedgerStep
  <2>2. staged' \in States /\ fees' \in Nat
    BY <1>1, <1>3, <2>1, LedgerType, LimitsAssumption
    DEF LedgerStep, Transactions, U64
  <2> QED
    BY <1>1, <1>3, <2>1, <2>2, PassTyped DEF LedgerStep
<1>4. CASE LedgerDone
  <2>1. Credit(staged.bal, blk.leader, fees) \in [Keys -> Nat]
    BY <1>1, <1>2, BalanceType DEF States
  <2>2. staged' \in States
    BY <1>1, <1>4, <2>1 DEF LedgerDone, States
  <2> QED
    BY <1>1, <1>2, <1>4, <2>2, PassTyped DEF LedgerDone
<1> QED
  BY <1>3, <1>4

\* The domain pass keeps the types.
LEMMA DomainTyped ==
  ASSUME TypeOK, GatesHeld, DomainStep \/ DomainDone
  PROVE  (TypeOK /\ GatesHeld)'
<1>1. /\ pc = "domain" /\ blk \in Blocks /\ staged \in States /\ fees \in Nat
      /\ live \in States
  BY DEF DomainStep, DomainDone, TypeOK
<1>2. Len(blk.txs) \in Nat
  BY <1>1, BlockFacts
<1>3. CASE DomainStep
  <2>1. /\ Tx \in Transactions /\ i' \in 1 .. Len(blk.txs) + 1
        /\ i \in 1 .. Len(blk.txs) /\ blk.slot \in Nat /\ blk.index \in Nat
    BY <1>1, <1>3, CurrentTx DEF DomainStep
  <2>2. IsComplete(Tx)
    BY <1>1, <2>1, PastGates DEF Tx
  <2>3. staged' \in States
    BY <1>1, <1>3, <2>1, <2>2, DomainType DEF DomainStep
  <2> QED
    BY <1>1, <1>3, <2>1, <2>3, PassTyped DEF DomainStep
<1>4. CASE DomainDone
  BY <1>1, <1>2, <1>4, PassTyped DEF DomainDone
<1> QED
  BY <1>3, <1>4

\* The stake pass keeps the types.
LEMMA StakeTyped ==
  ASSUME TypeOK, GatesHeld, StakeStep
  PROVE  (TypeOK /\ GatesHeld)'
<1>1. pc = "stake" /\ ~AtEnd /\ staged \in States /\ fees \in Nat
  BY DEF StakeStep, TypeOK
<1>2. Tx \in Transactions /\ i' \in 1 .. Len(blk.txs) + 1 /\ blk.slot \in Nat
  BY <1>1, CurrentTx DEF StakeStep
<1>3. staged' \in States
  BY <1>1, <1>2, StakeType DEF StakeStep
<1> QED
  BY <1>1, <1>2, <1>3, PassTyped DEF StakeStep

\* Promoting the staged state keeps the types.
LEMMA AcceptTyped ==
  ASSUME TypeOK, GatesHeld, AcceptBlock
  PROVE  (TypeOK /\ GatesHeld)'
<1>1. live \in States /\ staged \in States /\ blk \in Blocks
  BY DEF TypeOK, AcceptBlock
<1>2. Committed(staged) \in States
  BY <1>1, CommitType, CommitIndexType DEF Committed
<1>3. chain' \in Seq(Blocks \cup {Genesis}) /\ chain' # <<>>
  BY <1>1 DEF TypeOK, AcceptBlock
<1> QED
  BY <1>2, <1>3, IdleTyped DEF AcceptBlock

\* Every step keeps the invariant.
LEMMA NextTyped ==
  ASSUME TypeOK, GatesHeld, [Next]_vars
  PROVE  (TypeOK /\ GatesHeld)'
<1>1. CASE BlockArrives
  BY <1>1, ReceiveTyped DEF BlockArrives
<1>2. CASE GatePass
  BY <1>2, GatePassTyped
<1>3. CASE GateReject \/ HashMismatch
  BY <1>3, IdleTyped DEF GateReject, HashMismatch, TypeOK
<1>4. CASE GatesDone
  <2>1. Len(blk.txs) \in Nat /\ staged \in States /\ fees \in Nat
    BY <1>4, BlockFacts DEF TypeOK, GatesDone
  <2> QED
    BY <1>4, <2>1, PassTyped DEF GatesDone
<1>5. CASE LedgerStep \/ LedgerDone
  BY <1>5, LedgerTyped
<1>6. CASE DomainStep \/ DomainDone
  BY <1>6, DomainTyped
<1>7. CASE StakeStep
  BY <1>7, StakeTyped
<1>8. CASE AcceptBlock
  BY <1>8, AcceptTyped
<1>9. CASE UNCHANGED vars
  BY <1>9 DEF vars, TypeOK, GatesHeld, View, GateContext
<1> QED
  BY <1>1, <1>2, <1>3, <1>4, <1>5, <1>6, <1>7, <1>8, <1>9 DEF Next

\* Type correctness of the validating node: its variables always have the
\* shapes of the Go structures, no uint64 of the shadow maps ever having gone
\* below zero, and whatever is past the gates did pass them.
THEOREM TypeCorrect == Spec => [](TypeOK /\ GatesHeld)
<1>1. Init => TypeOK /\ GatesHeld
  BY InitTyped
<1>2. TypeOK /\ GatesHeld /\ [Next]_vars => (TypeOK /\ GatesHeld)'
  BY NextTyped
<1> QED
  BY <1>1, <1>2, PTL DEF Spec

-----------------------------------------------------------------------------
(* The ledger pass never fails a debit *)

\* An account that has what its shadow says can pay what the ledger pass takes.
LEMMA CostCovered ==
  ASSUME NEW V \in States, NEW sh \in Shadows, NEW tx \in Transactions, NEW c,
         GateTx(V, sh, tx, c), tx.owner # None,
         NEW bal \in [Keys -> Nat], \A k \in Keys : bal[k] >= sh.bal[k]
  PROVE  /\ CanDebit(bal, tx.owner, LedgerCost(tx))
         /\ LedgerCost(tx) \in Nat
         /\ sh.bal[tx.owner] - LedgerCost(tx) >= BalanceAfter(sh, tx)
<1>1. /\ tx.owner \in Keys /\ sh.bal[tx.owner] \in Nat /\ bal[tx.owner] \in Nat
      /\ tx.fee \in Nat /\ tx.price \in Nat /\ tx.amount \in Nat
  BY LimitsAssumption DEF Transactions, Shadows, U64
<1>2. BalanceAfter(sh, tx) \in Nat
  BY BalanceAfterType
<1>3. CASE tx.type \in {"FUND", "STAKE"}
  BY <1>1, <1>2, <1>3 DEF BalanceAfter, LedgerCost, CanDebit
<1>4. CASE tx.type = "BUY"
  <2>1. sh.forSale[tx.domain] \in Nat
    <3>1. tx.domain \in Domains
      BY <1>4, GateIsComplete DEF IsComplete, Shadows
    <3> QED
      BY <3>1 DEF Shadows
  <2> QED
    BY <1>1, <1>2, <1>4, <2>1 DEF BalanceAfter, LedgerCost, CanDebit
<1>5. CASE tx.type \notin {"FUND", "STAKE", "BUY"}
  BY <1>1, <1>2, <1>5 DEF BalanceAfter, LedgerCost, CanDebit
<1> QED
  BY <1>3, <1>4, <1>5

\* What the ledger pass takes, when the owner has it, is LedgerCost; nobody else
\* loses anything.
LEMMA LedgerTakes ==
  ASSUME NEW S \in States, NEW tx \in Transactions, tx.owner # None,
         CanDebit(S.bal, tx.owner, LedgerCost(tx)), NEW k \in Keys
  PROVE  ApplyLedgerMutations(S, tx).bal[k]
           >= S.bal[k] - (IF k = tx.owner THEN LedgerCost(tx) ELSE 0)
<1> DEFINE o == tx.owner
           bal1 == Debit(S.bal, o, tx.fee)
           bal2 == MoveFunds(bal1, tx)
           bal3 == LockStake(bal2, tx)
           cost == IF k = o THEN LedgerCost(tx) ELSE 0
<1>1. /\ o \in Keys /\ tx.fee \in Nat /\ tx.price \in Nat /\ tx.amount \in Nat
      /\ S.bal \in [Keys -> Nat] /\ (tx.recipient # None => tx.recipient \in Keys)
  <2>1. o \in Keys /\ (tx.recipient # None => tx.recipient \in Keys)
    BY DEF Transactions
  <2>2. tx.fee \in Nat /\ tx.price \in Nat /\ tx.amount \in Nat
    BY LimitsAssumption DEF Transactions, U64
  <2> QED
    BY <2>1, <2>2 DEF States
<1>2. ApplyLedgerMutations(S, tx).bal = bal3
  BY DEF ApplyLedgerMutations, States
<1>3. S.bal[o] >= LedgerCost(tx) /\ LedgerCost(tx) \in Nat
  BY <1>1 DEF CanDebit, LedgerCost
<1>4. bal1 = [S.bal EXCEPT ![o] = @ - tx.fee] /\ bal1 \in [Keys -> Nat]
  <2>1. S.bal[o] >= tx.fee
    BY <1>1, <1>3 DEF LedgerCost
  <2> QED
    BY <1>1, <2>1 DEF Debit, CanDebit
<1>5. bal1[k] = IF k = o THEN S.bal[k] - tx.fee ELSE S.bal[k]
  BY <1>1, <1>4
<1>6. bal3[k] >= S.bal[k] - cost
  <2>1. CASE tx.type = "FUND"
    <3>1. bal3 = bal2 /\ LedgerCost(tx) = tx.fee + tx.price
      BY <2>1 DEF LockStake, LedgerCost
    <3>2. \/ bal2 = bal1
          \/ /\ tx.recipient \in Keys
             /\ bal2 = Credit([bal1 EXCEPT ![o] = @ - tx.price], tx.recipient, tx.price)
      BY <1>1 DEF MoveFunds, Debit, CanDebit
    <3> HIDE DEF bal1, bal2, bal3, o
    <3>3. bal2[k] \in Int /\ bal2[k] >= IF k = o THEN bal1[k] - tx.price ELSE bal1[k]
      BY <1>1, <1>4, <3>2 DEF Credit
    <3> QED
      BY <1>1, <1>3, <1>5, <3>1, <3>3
  <2>2. CASE tx.type = "STAKE"
    <3>1. bal2 = bal1 /\ LedgerCost(tx) = tx.fee + tx.amount
      BY <2>2 DEF MoveFunds, LedgerCost
    <3>2. bal1[o] >= tx.amount
      BY <1>1, <1>3, <1>4, <3>1
    <3>3. bal3 = [bal1 EXCEPT ![o] = @ - tx.amount]
      BY <2>2, <3>1, <3>2 DEF LockStake, Debit, CanDebit
    <3> HIDE DEF bal1, bal2, bal3, o
    <3>4. bal3[k] = IF k = o THEN bal1[k] - tx.amount ELSE bal1[k]
      BY <1>1, <1>4, <3>3
    <3> QED
      BY <1>1, <1>3, <1>5, <3>1, <3>4
  <2>3. CASE tx.type \notin {"FUND", "STAKE"}
    <3>1. bal3 = bal1 /\ LedgerCost(tx) = tx.fee
      BY <1>1, <2>3 DEF MoveFunds, LockStake, LedgerCost
    <3> HIDE DEF bal1, bal2, bal3, o
    <3> QED
      BY <1>1, <1>3, <1>5, <3>1
  <2> QED
    BY <2>1, <2>2, <2>3
<1> HIDE DEF bal3
<1> QED
  BY <1>2, <1>6

\* The ledger mutations of an accepted transaction keep every account at or
\* above its shadow.
LEMMA LedgerKeepsUp ==
  ASSUME NEW V \in States, NEW sh \in Shadows, NEW tx \in Transactions, NEW c,
         GateTx(V, sh, tx, c), NEW S \in States,
         S.nonce = sh.nonce, \A k \in Keys : S.bal[k] >= sh.bal[k]
  PROVE  /\ ApplyLedgerMutations(S, tx).nonce = ShadowAfter(V, sh, tx).nonce
         /\ \A k \in Keys : ApplyLedgerMutations(S, tx).bal[k]
                              >= ShadowAfter(V, sh, tx).bal[k]
<1>1. CASE tx.owner = None
  BY <1>1 DEF ApplyLedgerMutations, ShadowAfter, Shadows
<1>2. CASE tx.owner # None
  <2> DEFINE o == tx.owner
             A == ApplyLedgerMutations(S, tx)
             B == ShadowAfter(V, sh, tx)
             w == BalanceAfter(sh, tx)
  <2>1. /\ o \in Keys /\ S.bal \in [Keys -> Nat] /\ sh.bal \in [Keys -> Nat]
        /\ A.bal \in [Keys -> Nat]
    BY <1>2, LedgerType DEF Transactions, Shadows, States
  <2>2. A.nonce = [S.nonce EXCEPT ![o] = @ + 1]
    BY <1>2 DEF ApplyLedgerMutations, States, IncrementNonce
  <2>3. /\ B.bal = [sh.bal EXCEPT ![o] = w]
        /\ B.nonce = [sh.nonce EXCEPT ![o] = @ + 1]
    BY <1>2 DEF ShadowAfter
  <2>4. /\ CanDebit(S.bal, o, LedgerCost(tx)) /\ LedgerCost(tx) \in Nat
        /\ sh.bal[o] - LedgerCost(tx) >= w /\ w \in Nat
    BY <1>2, <2>1, CostCovered, BalanceAfterType
  <2>5. \A k \in Keys : A.bal[k] >= S.bal[k] - (IF k = o THEN LedgerCost(tx) ELSE 0)
    BY <1>2, <2>4, LedgerTakes
  <2> HIDE DEF A, B, w, o
  <2>6. ASSUME NEW k \in Keys
        PROVE  A.bal[k] >= IF k = o THEN w ELSE sh.bal[k]
    <3>1. /\ A.bal[k] \in Nat /\ S.bal[k] \in Nat /\ sh.bal[k] \in Nat
          /\ S.bal[k] >= sh.bal[k]
      BY <2>1
    <3> QED
      BY <2>4, <2>5, <3>1
  <2>7. \A k \in Keys : A.bal[k] >= B.bal[k]
    BY <2>1, <2>3, <2>6
  <2>8. A.nonce = B.nonce
    BY <2>2, <2>3
  <2> QED
    BY <2>7, <2>8 DEF A, B
<1> QED
  BY <1>1, <1>2

\* Every step keeps the staging ledger at or above the shadow maps.
LEMMA NextAgrees ==
  ASSUME TypeOK, GatesHeld, LedgerAgrees, [Next]_vars
  PROVE  LedgerAgrees'
<1>1. CASE BlockArrives
  <2>1. PICK b \in Arrivals : ReceiveBlock(b)
    BY <1>1 DEF BlockArrives
  <2>2. /\ staged' = [PurgeExpired(live, b.index) EXCEPT
                        !.queue = SweepMature(@, b.slot)]
        /\ pc' = "gates" /\ live' = live
    BY <2>1 DEF ReceiveBlock
  <2>3. staged'.bal = live.bal /\ staged'.nonce = live.nonce
    BY <2>2 DEF PurgeExpired, TypeOK, States
  <2> QED
    BY <2>2, <2>3 DEF LedgerAgrees
<1>2. CASE GatePass
  BY <1>2 DEF GatePass, LedgerAgrees
<1>3. CASE GatesDone
  <2>1. /\ pc = "gates" /\ pc' = "ledger" /\ i' = 1
        /\ UNCHANGED <<live, staged, shadows>>
    BY <1>3 DEF GatesDone
  <2>2. shadows[1] = InitShadow(View)
    BY <2>1 DEF GatesHeld
  <2>3. View.bal = live.bal /\ View.nonce = live.nonce
    BY DEF View, PurgeExpired, TypeOK, States
  <2>4. shadows[1].bal = staged.bal /\ shadows[1].nonce = staged.nonce
    BY <2>1, <2>2, <2>3 DEF InitShadow, LedgerAgrees
  <2>5. \A k \in Keys : staged.bal[k] \in Nat
    BY DEF TypeOK, States
  <2> QED
    BY <2>1, <2>4, <2>5 DEF LedgerAgrees
<1>4. CASE LedgerStep
  <2>1. /\ pc = "ledger" /\ pc' = "ledger" /\ ~AtEnd /\ i' = i + 1
        /\ staged' = ApplyLedgerMutations(staged, Tx) /\ shadows' = shadows
    BY <1>4 DEF LedgerStep
  <2>2. i \in 1 .. Len(blk.txs) /\ Tx \in Transactions
    BY <2>1, CurrentTx
  <2>3. /\ GateTx(View, shadows[i], Tx, GateContext)
        /\ shadows[i + 1] = ShadowAfter(View, shadows[i], Tx)
        /\ shadows[i] \in Shadows /\ View \in States
    BY <2>1, <2>2, PastGates DEF Tx
  <2>4. /\ staged \in States /\ staged.nonce = shadows[i].nonce
        /\ \A k \in Keys : staged.bal[k] >= shadows[i].bal[k]
    BY <2>1 DEF TypeOK, LedgerAgrees
  <2>5. /\ staged'.nonce = shadows[i + 1].nonce
        /\ \A k \in Keys : staged'.bal[k] >= shadows[i + 1].bal[k]
    BY <2>1, <2>2, <2>3, <2>4, LedgerKeepsUp
  <2> QED
    BY <2>1, <2>5 DEF LedgerAgrees
<1>5. CASE \/ GateReject \/ HashMismatch \/ LedgerDone \/ DomainStep
           \/ DomainDone \/ StakeStep \/ AcceptBlock
  <2>1. pc' \notin {"gates", "ledger"}
    BY <1>5 DEF GateReject, HashMismatch, LedgerDone, DomainStep, DomainDone,
                StakeStep, AcceptBlock, Idle
  <2> QED
    BY <2>1 DEF LedgerAgrees
<1>6. CASE UNCHANGED vars
  BY <1>6 DEF vars, LedgerAgrees
<1> QED
  BY <1>1, <1>2, <1>3, <1>4, <1>5, <1>6 DEF Next

\* Whatever transactions a block combines, and in whatever order, no debit of
\* its ledger pass fails: what the gates approved against the shadow balances
\* is paid in full, so the leader is credited with no fee that its owner could
\* not pay.
THEOREM DebitsNeverFail == Spec => []DebitsCovered
<1> DEFINE Inv == TypeOK /\ GatesHeld /\ LedgerAgrees
<1>1. Init => Inv
  BY InitTyped DEF Init, LedgerAgrees
<1>2. Inv /\ [Next]_vars => Inv'
  BY NextTyped, NextAgrees
<1>3. Inv => DebitsCovered
  <2>1. SUFFICES ASSUME Inv, pc = "ledger", ~AtEnd, Tx.owner # None
                 PROVE  CanDebit(staged.bal, Tx.owner, LedgerCost(Tx))
    BY DEF DebitsCovered
  <2>2. i \in 1 .. Len(blk.txs) /\ Tx \in Transactions
    BY <2>1, CurrentTx
  <2>3. /\ GateTx(View, shadows[i], Tx, GateContext)
        /\ shadows[i] \in Shadows /\ View \in States
    BY <2>1, <2>2, PastGates DEF Tx
  <2>4. /\ staged.bal \in [Keys -> Nat]
        /\ \A k \in Keys : staged.bal[k] >= shadows[i].bal[k]
    BY <2>1 DEF TypeOK, LedgerAgrees, States
  <2> QED
    BY <2>1, <2>2, <2>3, <2>4, CostCovered
<1> QED
  BY <1>1, <1>2, <1>3, PTL DEF Spec

-----------------------------------------------------------------------------
(* The node implements AtomicChain: adding a block takes many steps inside *)
(* and one step seen from outside.                                         *)

\* The shadow maps that the gates left are those of the loop in BlockRules.
LEMMA ShadowLoopIs ==
  ASSUME TypeOK, GatesHeld, pc \in {"ledger", "domain", "stake"}
  PROVE  \A n \in 0 .. Len(blk.txs) : ShadowLoop(View, blk.txs)[n] = shadows[n + 1]
<1> DEFINE L == Len(blk.txs)
           next(n, v) == ShadowAfter(View, v, blk.txs[n])
           eq(f) == f = [n \in 0 .. L |->
                           IF n = 0 THEN InitShadow(View) ELSE next(n, f[n - 1])]
           loop == ShadowLoop(View, blk.txs)
           seen == [n \in 0 .. L |-> shadows[n + 1]]
<1>1. L \in Nat
  BY BlockFacts DEF TypeOK
<1>2. shadows[1] = InitShadow(View)
  BY DEF GatesHeld
<1>3. \A n \in 1 .. L : shadows[n + 1] = next(n, shadows[n])
  BY PastGates
<1>4. loop = CHOOSE f : eq(f)
  BY DEF ShadowLoop
<1> HIDE DEF next, L, loop
<1>5. eq(seen)
  <2>1. \A n \in 0 .. L :
          shadows[n + 1] = IF n = 0 THEN InitShadow(View) ELSE next(n, seen[n - 1])
    <3>1. TAKE n \in 0 .. L
    <3>2. CASE n = 0
      BY <1>2, <3>2
    <3>3. CASE n # 0
      <4>1. n \in 1 .. L /\ n - 1 \in 0 .. L /\ (n - 1) + 1 = n
        BY <1>1, <3>3
      <4>2. seen[n - 1] = shadows[n]
        BY <4>1
      <4> QED
        BY <1>3, <3>3, <4>1, <4>2
    <3> QED
      BY <3>2, <3>3
  <2> QED
    BY <2>1
<1>6. eq(loop)
  <2> HIDE DEF seen
  <2> QED
    BY <1>4, <1>5
<1>7. \A n \in 0 .. L :
        loop[n] = IF n = 0 THEN InitShadow(View) ELSE next(n, loop[n - 1])
  BY <1>6
<1> DEFINE T == {n \in Nat : n <= L => loop[n] = shadows[n + 1]}
<1>8. 0 \in T
  BY <1>1, <1>2, <1>7
<1>9. ASSUME NEW n \in Nat, n \in T PROVE n + 1 \in T
  <2>1. SUFFICES ASSUME n + 1 <= L PROVE loop[n + 1] = shadows[(n + 1) + 1]
    OBVIOUS
  <2>2. n + 1 \in 1 .. L /\ n + 1 \in 0 .. L /\ (n + 1) - 1 = n /\ n <= L
    BY <1>1, <2>1
  <2>3. loop[n] = shadows[n + 1]
    BY <1>9, <2>2
  <2>4. loop[n + 1] = next(n + 1, loop[n])
    BY <1>7, <2>2
  <2> QED
    BY <1>3, <2>2, <2>3, <2>4
<1> HIDE DEF T
<1>10. Nat \subseteq T
  BY <1>8, <1>9, SetInduction
<1> QED
  BY <1>1, <1>10 DEF T, L, loop

-----------------------------------------------------------------------------
(* The invariant: what is staged is what BlockRules computes so far *)

\* The block in progress passed the header and purge checks.
Underway ==
  pc # "idle" => blk \in Arrivals /\ HeaderOK(blk) /\ PurgesPresent(blk)

\* The states before the second and the third pass.
Paid  == LedgerPass(Opened(live, blk), blk)
Named == DomainPass(live, Paid, blk)

\* The staging clones and overlays hold what the passes of BlockRules have
\* computed after i - 1 transactions.
StagedAsExecuted ==
  /\ pc = "idle" => fees = 0
  /\ pc = "gates" => staged = Opened(live, blk) /\ fees = 0
  /\ pc = "ledger" => /\ staged = LedgerLoop(Opened(live, blk), blk.txs)[i - 1]
                      /\ fees = FeeLoop(blk.txs)[i - 1]
                      /\ Opened(live, blk) \in States
  /\ pc = "domain" => staged = DomainLoop(live, Paid, blk)[i - 1] /\ Paid \in States
  /\ pc = "stake" => staged = StakeLoop(Named, blk)[i - 1] /\ Named \in States

\* Every step keeps the checks of the block in progress.
LEMMA NextUnderway ==
  ASSUME TypeOK, Underway, [Next]_vars
  PROVE  Underway'
<1>1. CASE BlockArrives
  <2>1. PICK b \in Arrivals : ReceiveBlock(b)
    BY <1>1 DEF BlockArrives
  <2> QED
    BY <2>1 DEF ReceiveBlock, Underway, HeaderOK, PurgesPresent, Tip
<1>2. CASE \/ GatePass \/ GatesDone \/ LedgerStep \/ LedgerDone
           \/ DomainStep \/ DomainDone \/ StakeStep
  <2>1. UNCHANGED <<live, chain, blk>> /\ pc # "idle"
    BY <1>2 DEF GatePass, GatesDone, LedgerStep, LedgerDone, DomainStep,
                DomainDone, StakeStep
  <2> QED
    BY <2>1 DEF Underway, HeaderOK, PurgesPresent, Tip
<1>3. CASE GateReject \/ HashMismatch \/ AcceptBlock
  BY <1>3 DEF GateReject, HashMismatch, AcceptBlock, Idle, Underway
<1>4. CASE UNCHANGED vars
  BY <1>4 DEF vars, Underway, HeaderOK, PurgesPresent, Tip
<1> QED
  BY <1>1, <1>2, <1>3, <1>4 DEF Next

\* The transactions of a block.
LEMMA BlockTxs ==
  ASSUME NEW b \in Blocks
  PROVE  b.txs \in Seq(Transactions)
<1>1. b.txs \in Seq(Submitted)
  BY BlockFacts
<1> QED
  BY <1>1, SubmittedAssumption

\* Every step does what BlockRules says.
LEMMA NextStaged ==
  ASSUME TypeOK, GatesHeld, StagedAsExecuted, [Next]_vars
  PROVE  StagedAsExecuted'
<1> DEFINE n == Len(blk.txs)
<1>0. /\ live \in States /\ staged \in States /\ staged' \in States
      /\ i \in 1 .. n + 1
  BY NextTyped DEF TypeOK
<1>1. ASSUME pc # "idle"
      PROVE  /\ n \in Nat /\ blk.txs \in Seq(Transactions)
             /\ blk.slot \in Nat /\ blk.index \in Nat
  BY <1>1, BlockFacts, BlockTxs DEF TypeOK
<1>2. ASSUME UNCHANGED <<live, blk>>
      PROVE  /\ Opened(live, blk)' = Opened(live, blk)
             /\ Paid' = Paid /\ Named' = Named
  BY <1>2 DEF Opened, Paid, Named
<1>3. ASSUME pc \in {"ledger", "domain", "stake"}
      PROVE  IsBody(blk)
  <2>1. \A j \in 1 .. Len(blk.txs) : IsComplete(blk.txs[j])
    BY <1>3, PastGates
  <2> QED
    BY <1>1, <1>3, <2>1 DEF IsBody
<1>4. CASE BlockArrives
  <2>1. PICK b \in Arrivals : ReceiveBlock(b)
    BY <1>4 DEF BlockArrives
  <2>2. pc = "idle" /\ fees' = fees /\ pc' = "gates" /\ blk' = b /\ live' = live
    BY <1>4, <2>1 DEF BlockArrives, ReceiveBlock
  <2>3. staged' = Opened(live, b)
    BY <2>1 DEF ReceiveBlock, Opened
  <2> QED
    BY <2>2, <2>3 DEF StagedAsExecuted, Opened
<1>5. CASE GatePass
  BY <1>2, <1>5 DEF GatePass, StagedAsExecuted
<1>6. CASE GatesDone
  <2>1. /\ pc = "gates" /\ pc' = "ledger" /\ i' = 1
        /\ UNCHANGED <<live, blk, staged, fees>>
    BY <1>6 DEF GatesDone
  <2>2. staged = Opened(live, blk) /\ fees = 0
    BY <2>1 DEF StagedAsExecuted
  <2>3. LedgerLoop(Opened(live, blk), blk.txs)[0] = Opened(live, blk)
    BY <1>0, <1>1, <2>1, <2>2, LedgerLoopSteps
  <2>4. FeeLoop(blk.txs)[0] = 0
    BY <1>1, <2>1, FeeLoopSteps
  <2> QED
    BY <1>0, <1>2, <2>1, <2>2, <2>3, <2>4 DEF StagedAsExecuted
<1>7. CASE LedgerStep
  <2> DEFINE S == Opened(live, blk)
  <2>1. /\ pc = "ledger" /\ pc' = "ledger" /\ ~AtEnd /\ i' = i + 1
        /\ UNCHANGED <<live, blk>>
        /\ staged' = ApplyLedgerMutations(staged, blk.txs[i])
        /\ fees' = fees + blk.txs[i].fee
    BY <1>7 DEF LedgerStep, Tx
  <2>2. i \in 1 .. n /\ i' - 1 = i
    BY <1>0, <2>1, CurrentTx
  <2>3. /\ staged = LedgerLoop(S, blk.txs)[i - 1] /\ fees = FeeLoop(blk.txs)[i - 1]
        /\ S \in States
    BY <2>1 DEF StagedAsExecuted
  <2> HIDE DEF S
  <2>4. LedgerLoop(S, blk.txs)[i] = staged'
    BY <1>1, <2>1, <2>2, <2>3, LedgerLoopSteps
  <2>5. FeeLoop(blk.txs)[i] = fees'
    BY <1>1, <2>1, <2>2, <2>3, FeeLoopSteps
  <2>6. S' = S
    BY <1>2, <2>1 DEF S
  <2> QED
    BY <2>1, <2>2, <2>3, <2>4, <2>5, <2>6 DEF StagedAsExecuted, S
<1>8. CASE LedgerDone
  <2> DEFINE S == Opened(live, blk)
  <2>1. /\ pc = "ledger" /\ pc' = "domain" /\ i = n + 1 /\ i' = 1
        /\ UNCHANGED <<live, blk>>
        /\ staged' = [staged EXCEPT !.bal = Credit(@, blk.leader, fees)]
    BY <1>8 DEF LedgerDone, AtEnd
  <2>2. n \in Nat /\ i - 1 = n
    BY <1>1, <2>1
  <2>3. staged = LedgerLoop(S, blk.txs)[n] /\ fees = FeeLoop(blk.txs)[n]
    BY <2>1, <2>2 DEF StagedAsExecuted
  <2>4. staged' = Paid
    BY <2>1, <2>3 DEF Paid, LedgerPass
  <2>5. DomainLoop(live, Paid, blk)[0] = Paid
    BY <1>0, <1>1, <1>3, <2>1, <2>4, DomainLoopSteps
  <2> QED
    BY <1>0, <1>2, <2>1, <2>4, <2>5 DEF StagedAsExecuted
<1>9. CASE DomainStep
  <2>1. /\ pc = "domain" /\ pc' = "domain" /\ ~AtEnd /\ i' = i + 1
        /\ UNCHANGED <<live, blk>>
        /\ staged' = ApplyDomainMutations(live, staged, blk.txs[i], blk.slot, blk.index)
    BY <1>9 DEF DomainStep, Tx
  <2>2. i \in 1 .. n /\ i' - 1 = i
    BY <1>0, <2>1, CurrentTx
  <2>3. staged = DomainLoop(live, Paid, blk)[i - 1] /\ Paid \in States
    BY <2>1 DEF StagedAsExecuted
  <2>4. DomainLoop(live, Paid, blk)[i] = staged'
    BY <1>0, <1>1, <1>3, <2>1, <2>2, <2>3, DomainLoopSteps
  <2> QED
    BY <1>2, <2>1, <2>2, <2>3, <2>4 DEF StagedAsExecuted
<1>10. CASE DomainDone
  <2>1. /\ pc = "domain" /\ pc' = "stake" /\ i = n + 1 /\ i' = 1
        /\ UNCHANGED <<live, blk, staged>>
    BY <1>10 DEF DomainDone, AtEnd
  <2>2. n \in Nat /\ i - 1 = n
    BY <1>1, <2>1
  <2>3. staged = Named
    BY <2>1, <2>2 DEF StagedAsExecuted, Named, DomainPass
  <2>4. StakeLoop(Named, blk)[0] = Named
    BY <1>0, <1>3, <2>1, <2>3, StakeLoopSteps
  <2> QED
    BY <1>0, <1>2, <2>1, <2>3, <2>4 DEF StagedAsExecuted
<1>11. CASE StakeStep
  <2>1. /\ pc = "stake" /\ pc' = "stake" /\ ~AtEnd /\ i' = i + 1
        /\ UNCHANGED <<live, blk>>
        /\ staged' = ApplyStakeMutations(staged, blk.txs[i], blk.slot)
    BY <1>11 DEF StakeStep, Tx
  <2>2. i \in 1 .. n /\ i' - 1 = i
    BY <1>0, <2>1, CurrentTx
  <2>3. staged = StakeLoop(Named, blk)[i - 1] /\ Named \in States
    BY <2>1 DEF StagedAsExecuted
  <2>4. StakeLoop(Named, blk)[i] = staged'
    BY <1>3, <2>1, <2>2, <2>3, StakeLoopSteps
  <2> QED
    BY <1>2, <2>1, <2>2, <2>3, <2>4 DEF StagedAsExecuted
<1>12. CASE GateReject \/ HashMismatch \/ AcceptBlock
  <2>1. pc' = "idle" /\ fees' = 0
    BY <1>12 DEF GateReject, HashMismatch, AcceptBlock, Idle
  <2> QED
    BY <2>1 DEF StagedAsExecuted
<1>13. CASE UNCHANGED vars
  BY <1>2, <1>13 DEF vars, StagedAsExecuted
<1> QED
  BY <1>4, <1>5, <1>6, <1>7, <1>8, <1>9, <1>10, <1>11, <1>12, <1>13 DEF Next

-----------------------------------------------------------------------------
(* The refinement *)

\* A block that reaches the end of the stake pass is one that the rules accept,
\* and what is promoted is what executing it yields.
LEMMA AcceptIsAtomic ==
  ASSUME TypeOK, GatesHeld, Underway, StagedAsExecuted, AcceptBlock
  PROVE  /\ blk \in Arrivals /\ chain' = Append(chain, blk)
         /\ HeaderOK(blk) /\ GatesAccept(live, blk)
         /\ live' = Executed(live, blk)
<1> DEFINE n == Len(blk.txs)
<1>1. /\ pc = "stake" /\ i = n + 1 /\ chain' = Append(chain, blk)
      /\ live' = CommitIndex(live, CommitCommits(staged)) /\ blk \in Blocks
  BY DEF AcceptBlock, AtEnd, Committed, TypeOK
<1>2. n \in Nat /\ i - 1 = n
  BY <1>1, BlockFacts
<1>3. blk \in Arrivals /\ HeaderOK(blk) /\ PurgesPresent(blk)
  BY <1>1 DEF Underway
<1>4. PurgesCovered(live, blk)
  BY <1>3 DEF PurgesPresent, PurgesCovered
<1>5. ValidateTransactions(PurgeExpired(live, blk.index), blk.txs, BlockContext(blk))
  <2>1. View = PurgeExpired(live, blk.index) /\ GateContext = BlockContext(blk)
    BY DEF View, GateContext, BlockContext
  <2>2. SUFFICES ASSUME NEW j \in 1 .. n
                 PROVE  GateTx(View, ShadowLoop(View, blk.txs)[j - 1], blk.txs[j],
                               GateContext)
    BY <2>1 DEF ValidateTransactions
  <2>3. j - 1 \in 0 .. n /\ (j - 1) + 1 = j
    BY <1>2
  <2>4. ShadowLoop(View, blk.txs)[j - 1] = shadows[j]
    BY <1>1, <2>3, ShadowLoopIs
  <2> QED
    BY <1>1, <2>4, PastGates
<1>6. staged = Staged(live, blk)
  BY <1>1, <1>2 DEF StagedAsExecuted, Staged, StakePass, Named, Paid
<1> QED
  BY <1>1, <1>3, <1>4, <1>5, <1>6 DEF GatesAccept, Executed

\* Node.AddBlock is atomic: every behaviour of the validating node, with its
\* clones, overlays, loops and hash comparisons, is a behaviour of AtomicChain.
\* A block that is rejected at any step leaves no trace in the live state, and
\* an accepted block leaves exactly what executing it as a whole yields.
THEOREM AddBlockIsAtomic == Spec => BlocksAreAtomic
<1> DEFINE Inv == TypeOK /\ GatesHeld /\ Underway /\ StagedAsExecuted
<1>1. Init => Inv
  BY InitTyped DEF Init, Underway, StagedAsExecuted
<1>2. Inv /\ [Next]_vars => Inv'
  BY NextTyped, NextUnderway, NextStaged
<1>3. Init => Abstract!Init
  BY DEF Init, Abstract!Init
<1>4. Inv /\ [Next]_vars => [Abstract!Next]_<<live, chain>>
  <2>1. SUFFICES ASSUME Inv, [Next]_vars, <<live, chain>>' # <<live, chain>>
                 PROVE  Abstract!Next
    OBVIOUS
  <2>2. AcceptBlock
    BY <2>1 DEF Next, vars, BlockArrives, ReceiveBlock, GatePass, GateReject,
                GatesDone, LedgerStep, LedgerDone, DomainStep, DomainDone,
                StakeStep, HashMismatch
  <2>3. /\ blk \in Arrivals /\ chain' = Append(chain, blk)
        /\ HeaderOK(blk) /\ GatesAccept(live, blk)
        /\ live' = Executed(live, blk)
    BY <2>1, <2>2, AcceptIsAtomic
  <2>4. Abstract!Accept(blk)
    BY <2>3 DEF Abstract!Accept, Abstract!Extends, HeaderOK, Tip
  <2>5. blk = chain'[Len(chain')]
    BY <2>1, <2>3 DEF TypeOK
  <2> QED
    BY <2>3, <2>4, <2>5 DEF Abstract!Next
<1> QED
  BY <1>1, <1>2, <1>3, <1>4, PTL DEF Spec, BlocksAreAtomic, Abstract!Spec

-----------------------------------------------------------------------------
(* Passes that leave the stake alone *)

\* T has the stake, the unstake queue and the slashed offences of S.
SameStake(T, S) ==
  /\ {"stake", "queue", "slashed"} \subseteq DOMAIN T
  /\ T.stake = S.stake /\ T.queue = S.queue /\ T.slashed = S.slashed

\* A state has its own stake.
LEMMA SameStakeRefl == \A S \in States : SameStake(S, S)
BY DEF SameStake, States

\* The ledger pass moves liquid coins only.
LEMMA LedgerLeavesStake ==
  ASSUME NEW S \in States, NEW tx \in Transactions
  PROVE  SameStake(ApplyLedgerMutations(S, tx), S)
BY DEF SameStake, ApplyLedgerMutations, States

\* The index and commit operations leave the stake alone.
LEMMA FieldsLeaveStake ==
  ASSUME NEW S, NEW T, SameStake(T, S)
  PROVE  /\ \A d, tid, n, recs : SameStake(AddDomain(T, d, tid, n, recs), S)
         /\ \A d, k : SameStake(SetOwner(T, d, k), S)
         /\ \A d, n : SameStake(SetListPrice(T, d, n), S)
         /\ \A tid : SameStake(MarkAsSpent(T, tid), S)
         /\ \A h : SameStake(ConsumeCommit(T, h), S)
         /\ \A rec : SameStake(AddCommit(T, rec), S)
         /\ \A b : SameStake([T EXCEPT !.bal = b], S)
         /\ \A n : SameStake(PurgeExpired(T, n), S)
         /\ SameStake(CommitCommits(T), S)
         /\ \A L : SameStake(CommitIndex(L, T), S)
BY DEF SameStake, AddDomain, SetOwner, SetListPrice, MarkAsSpent, ConsumeCommit,
       AddCommit, PurgeExpired, CommitCommits, CommitIndex

\* The domain pass changes the index, the commits and, for a BUY, balances.
LEMMA DomainLeavesStake ==
  ASSUME NEW L, NEW S \in States, NEW tx \in Transactions, NEW slot, NEW index
  PROVE  SameStake(ApplyDomainMutations(L, S, tx, slot, index), S)
<1>0. SameStake(S, S)
  BY SameStakeRefl
<1>1. SameStake(ApplyRegister(S, tx, slot), S)
  BY <1>0, FieldsLeaveStake DEF ApplyRegister
<1>2. SameStake(ApplyCommit(S, tx, slot, index), S)
  BY <1>0, FieldsLeaveStake DEF ApplyCommit
<1>3. SameStake(ApplyReveal(S, tx, slot), S)
  BY <1>0, FieldsLeaveStake DEF ApplyReveal
<1>4. SameStake(ApplyRevoke(L, S, tx, slot), S)
  BY <1>0, FieldsLeaveStake DEF ApplyRevoke
<1>5. \A r : SameStake(ApplyUpdateOrRenew(L, S, tx, r), S)
  BY <1>0, FieldsLeaveStake DEF ApplyUpdateOrRenew
<1>6. /\ SameStake(ApplyUpdate(L, S, tx, slot), S)
      /\ SameStake(ApplyRenew(L, S, tx, slot), S)
  BY <1>0, <1>5 DEF ApplyUpdate, ApplyRenew
<1>7. /\ SameStake(ApplyList(S, tx, slot), S)
      /\ SameStake(ApplyDelist(S, tx, slot), S)
      /\ SameStake(ApplyTransferDomain(S, tx, slot), S)
  BY <1>0, FieldsLeaveStake DEF ApplyList, ApplyDelist, ApplyTransferDomain
<1>8. SameStake(ApplyBuyDomain(S, tx, slot), S)
  BY <1>0, FieldsLeaveStake DEF ApplyBuyDomain
<1> QED
  BY <1>0, <1>1, <1>2, <1>3, <1>4, <1>6, <1>7, <1>8 DEF ApplyDomainMutations

-----------------------------------------------------------------------------
(* The stake pass follows the shadow stake *)

\* Every key without an offence in S has its shadow stake, at or above the
\* minimum.
Follows(S, sh) ==
  \A k \in Keys \ OffendersIn(S.slashed) :
    S.stake[k] = sh.stake[k] /\ AboveFloor(S.stake[k])

\* A slash changes the stake of the offender only.
LEMMA SlashIsLocal ==
  ASSUME NEW S \in States, NEW k \in Keys
  PROVE  /\ \A x \in Keys \ {k} : Slash(S, k).stake[x] = S.stake[x]
         /\ Slash(S, k).slashed = S.slashed
<1> DEFINE staked == S.stake[k]
           amount == ComputeSlashAmount(
                       staked + GetPendingStake(S.queue, k), SlashingPercent)
           A == [S EXCEPT !.stake = ReduceStake(@, k, amount)]
           B == [S EXCEPT !.stake = ReduceStake(@, k, staked),
                          !.queue = BurnPending(@, k, amount - staked)]
<1>1. Slash(S, k) = IF amount <= staked THEN A ELSE B
  BY DEF Slash
<1>2. /\ A.stake = ReduceStake(S.stake, k, amount) /\ A.slashed = S.slashed
      /\ B.stake = ReduceStake(S.stake, k, staked) /\ B.slashed = S.slashed
  BY DEF States
<1>3. \A n : \A x \in Keys \ {k} : ReduceStake(S.stake, k, n)[x] = S.stake[x]
  BY DEF States, ReduceStake
<1> HIDE DEF A, B, amount, staked
<1> QED
  BY <1>1, <1>2, <1>3

\* A transaction that passed the gates takes both stakes the same way.
LEMMA StakeKeepsUp ==
  ASSUME NEW V \in States, NEW sh \in Shadows, NEW tx \in Transactions, NEW c,
         GateTx(V, sh, tx, c), NEW S \in States, NEW slot \in Nat,
         Follows(S, sh)
  PROVE  Follows(ApplyStakeMutations(S, tx, slot), ShadowAfter(V, sh, tx))
<1> DEFINE T == ApplyStakeMutations(S, tx, slot)
           sh2 == ShadowAfter(V, sh, tx)
<1>0. /\ S.stake \in [Keys -> Nat] /\ sh.stake \in [Keys -> Nat]
      /\ tx.amount \in Nat /\ tx.owner \in Keys \cup {None}
      /\ MinStakeThreshold \in Nat \ {0}
  <2>1. S.stake \in [Keys -> Nat] /\ sh.stake \in [Keys -> Nat]
    BY DEF States, Shadows
  <2>2. tx.amount \in Nat /\ tx.owner \in Keys \cup {None}
    BY DEF Transactions, U64
  <2> QED
    BY <2>1, <2>2, LimitsAssumption
<1>1. CASE tx.owner = None
  <2>1. T = S /\ sh2.stake = sh.stake
    BY <1>1 DEF ApplyStakeMutations, ShadowAfter, Shadows
  <2> QED
    BY <2>1 DEF Follows
<1>2. CASE tx.owner # None
  <2>1. sh2.stake = StakeAfter(V, sh, tx) /\ tx.owner \in Keys
    BY <1>0, <1>2 DEF ShadowAfter
  <2>2. StakeGate(sh, tx) /\ UnstakeGate(sh, tx) /\ EquivocationGate(V, sh, tx)
    BY <1>2 DEF GateTx
  <2>3. CASE tx.type = "STAKE"
    <3>1. /\ T.stake = [S.stake EXCEPT ![tx.owner] = @ + tx.amount]
          /\ T.slashed = S.slashed
      BY <1>2, <2>3 DEF ApplyStakeMutations, AddStake, States
    <3>2. sh2.stake = [sh.stake EXCEPT ![tx.owner] = @ + tx.amount]
      BY <2>1, <2>3 DEF StakeAfter
    <3>3. sh.stake[tx.owner] = 0 => tx.amount >= MinStakeThreshold
      BY <2>2, <2>3 DEF StakeGate
    <3> HIDE DEF T, sh2
    <3>4. SUFFICES ASSUME NEW k \in Keys \ OffendersIn(S.slashed)
                   PROVE  T.stake[k] = sh2.stake[k] /\ AboveFloor(T.stake[k])
      BY <3>1 DEF Follows, T, sh2
    <3>5. S.stake[k] = sh.stake[k] /\ AboveFloor(S.stake[k])
      BY <3>4 DEF Follows
    <3> QED
      BY <1>0, <2>1, <3>1, <3>2, <3>3, <3>5 DEF AboveFloor
  <2>4. CASE tx.type = "UNSTAKE"
    <3>1. /\ T.stake = ReduceStake(S.stake, tx.owner, tx.amount)
          /\ T.slashed = S.slashed
      BY <1>2, <2>4 DEF ApplyStakeMutations, ApplyUnstake, States
    <3>2. sh2.stake = [sh.stake EXCEPT ![tx.owner] = @ - tx.amount]
      BY <2>1, <2>4 DEF StakeAfter
    <3>3. LET remaining == sh.stake[tx.owner] - tx.amount
          IN  remaining >= 0 /\ (remaining > 0 => remaining >= MinStakeThreshold)
      BY <2>2, <2>4 DEF UnstakeGate
    <3> HIDE DEF T, sh2
    <3>4. SUFFICES ASSUME NEW k \in Keys \ OffendersIn(S.slashed)
                   PROVE  T.stake[k] = sh2.stake[k] /\ AboveFloor(T.stake[k])
      BY <3>1 DEF Follows, T, sh2
    <3>5. S.stake[k] = sh.stake[k] /\ AboveFloor(S.stake[k])
      BY <3>4 DEF Follows
    <3> QED
      BY <1>0, <2>1, <3>1, <3>2, <3>3, <3>5 DEF AboveFloor, ReduceStake
  <2>5. CASE tx.type = "EQUIVOCATION_PROOF"
    <3> DEFINE x == OffenceOf(tx)[2]
    <3>1. tx.evidence # NoEvidence /\ OffenceOf(tx) \in Offences /\ x \in Keys
      BY <2>2, <2>5, OffenceType DEF EquivocationGate
    <3>2. \A k \in Keys \ {x} : sh2.stake[k] = sh.stake[k]
      BY <1>0, <2>1, <2>5, <3>1 DEF StakeAfter
    <3>3. T = ApplyEquivocation(S, tx)
      BY <1>2, <2>5 DEF ApplyStakeMutations
    <3>4. /\ T.slashed = S.slashed \cup {OffenceOf(tx)}
          /\ \A k \in Keys \ {x} : T.stake[k] = S.stake[k]
      <4>1. CASE OffenceOf(tx) \in S.slashed
        BY <3>3, <4>1 DEF ApplyEquivocation
      <4>2. CASE OffenceOf(tx) \notin S.slashed
        <5>1. /\ Slash(S, x) \in States /\ Slash(S, x).slashed = S.slashed
              /\ \A k \in Keys \ {x} : Slash(S, x).stake[k] = S.stake[k]
          BY <3>1, SlashIsLocal, SlashType
        <5>2. T = [Slash(S, x) EXCEPT !.slashed = @ \cup {OffenceOf(tx)}]
          BY <3>1, <3>3, <4>2 DEF ApplyEquivocation
        <5> HIDE DEF T, x
        <5> QED
          BY <5>1, <5>2 DEF States
      <4> QED
        BY <4>1, <4>2
    <3> HIDE DEF T, sh2
    <3>5. ASSUME NEW k \in Keys \ OffendersIn(T.slashed)
          PROVE  k # x /\ k \notin OffendersIn(S.slashed)
      BY <3>4 DEF OffendersIn
    <3> HIDE DEF x
    <3>6. Follows(T, sh2)
      BY <3>2, <3>4, <3>5 DEF Follows
    <3> QED
      BY <3>6 DEF T, sh2
  <2>6. CASE tx.type \notin PoSTypes
    <3>1. T = S /\ sh2.stake = sh.stake
      BY <1>2, <2>1, <2>6 DEF ApplyStakeMutations, StakeAfter, PoSTypes
    <3> QED
      BY <3>1 DEF Follows
  <2> QED
    BY <2>3, <2>4, <2>5, <2>6 DEF PoSTypes
<1> QED
  BY <1>1, <1>2

-----------------------------------------------------------------------------
(* The invariant *)

\* Every step keeps the staging stake in line with the shadow stake, and
\* every accepted block keeps the minimum.
LEMMA NextStakeAgrees ==
  ASSUME TypeOK, GatesHeld, StakeFloor, StakeAgrees, [Next]_vars
  PROVE  (StakeFloor /\ StakeAgrees)'
<1>0. live \in States /\ staged \in States
  BY DEF TypeOK
<1>1. CASE BlockArrives
  <2>1. PICK b \in Arrivals : ReceiveBlock(b)
    BY <1>1 DEF BlockArrives
  <2>2. /\ staged' = [PurgeExpired(live, b.index) EXCEPT
                        !.queue = SweepMature(@, b.slot)]
        /\ pc' = "gates" /\ live' = live
    BY <2>1 DEF ReceiveBlock
  <2>3. staged'.stake = live.stake /\ staged'.slashed = live.slashed
    BY <1>0, <2>2 DEF PurgeExpired, States
  <2> QED
    BY <2>2, <2>3 DEF StakeAgrees, StakeFloor
<1>2. CASE GatePass \/ GatesDone
  BY <1>2 DEF GatePass, GatesDone, StakeAgrees, StakeFloor
<1>3. CASE LedgerStep
  <2>1. /\ pc = "ledger" /\ ~AtEnd /\ pc' = "ledger" /\ live' = live
        /\ staged' = ApplyLedgerMutations(staged, Tx)
    BY <1>3 DEF LedgerStep
  <2>2. SameStake(staged', staged)
    BY <1>0, <2>1, CurrentTx, LedgerLeavesStake
  <2> QED
    BY <2>1, <2>2 DEF StakeAgrees, StakeFloor, SameStake
<1>4. CASE LedgerDone
  <2>1. /\ pc = "ledger" /\ pc' = "domain" /\ live' = live
        /\ staged' = [staged EXCEPT !.bal = Credit(@, blk.leader, fees)]
    BY <1>4 DEF LedgerDone
  <2>2. staged'.stake = staged.stake /\ staged'.slashed = staged.slashed
    BY <1>0, <2>1 DEF States
  <2> QED
    BY <2>1, <2>2 DEF StakeAgrees, StakeFloor
<1>5. CASE DomainStep
  <2>1. /\ pc = "domain" /\ ~AtEnd /\ pc' = "domain" /\ live' = live
        /\ staged' = ApplyDomainMutations(live, staged, Tx, blk.slot, blk.index)
    BY <1>5 DEF DomainStep
  <2>2. SameStake(staged', staged)
    BY <1>0, <2>1, CurrentTx, DomainLeavesStake
  <2> QED
    BY <2>1, <2>2 DEF StakeAgrees, StakeFloor, SameStake
<1>6. CASE DomainDone
  <2>1. /\ pc = "domain" /\ pc' = "stake" /\ i' = 1
        /\ UNCHANGED <<live, staged, shadows>>
    BY <1>6 DEF DomainDone
  <2>2. shadows[1].stake = live.stake
    BY <1>0, <2>1 DEF GatesHeld, InitShadow, View, PurgeExpired, States
  <2>3. staged.stake = live.stake /\ staged.slashed = live.slashed
    BY <2>1 DEF StakeAgrees
  <2> QED
    BY <2>1, <2>2, <2>3 DEF StakeAgrees, StakeFloor
<1>7. CASE StakeStep
  <2>1. /\ pc = "stake" /\ pc' = "stake" /\ ~AtEnd /\ i' = i + 1
        /\ staged' = ApplyStakeMutations(staged, Tx, blk.slot)
        /\ UNCHANGED <<live, shadows>>
    BY <1>7 DEF StakeStep
  <2>2. i \in 1 .. Len(blk.txs) /\ Tx \in Transactions /\ blk.slot \in Nat
    BY <2>1, CurrentTx
  <2>3. /\ GateTx(View, shadows[i], Tx, GateContext)
        /\ shadows[i + 1] = ShadowAfter(View, shadows[i], Tx)
        /\ shadows[i] \in Shadows /\ View \in States
    BY <2>1, <2>2, PastGates DEF Tx
  <2>4. Follows(staged, shadows[i])
    BY <2>1 DEF StakeAgrees, Follows
  <2>5. Follows(staged', shadows[i + 1])
    BY <1>0, <2>1, <2>2, <2>3, <2>4, StakeKeepsUp
  <2> QED
    BY <2>1, <2>5 DEF StakeAgrees, StakeFloor, Follows
<1>8. CASE GateReject \/ HashMismatch
  BY <1>8 DEF GateReject, HashMismatch, Idle, StakeAgrees, StakeFloor
<1>9. CASE AcceptBlock
  <2>1. /\ pc = "stake" /\ pc' = "idle"
        /\ live' = CommitIndex(live, CommitCommits(staged))
    BY <1>9 DEF AcceptBlock, Committed, Idle
  <2>2. SameStake(live', staged)
    BY <1>0, <2>1, SameStakeRefl, FieldsLeaveStake
  <2>3. \A k \in Keys \ OffendersIn(staged.slashed) : AboveFloor(staged.stake[k])
    BY <2>1 DEF StakeAgrees
  <2> QED
    BY <2>1, <2>2, <2>3 DEF StakeAgrees, StakeFloor, SameStake
<1>10. CASE UNCHANGED vars
  BY <1>10 DEF vars, StakeAgrees, StakeFloor
<1> QED
  BY <1>1, <1>2, <1>3, <1>4, <1>5, <1>6, <1>7, <1>8, <1>9, <1>10 DEF Next

\* A validator that was never slashed has no stake or at least
\* MinStakeThreshold, whatever STAKE and UNSTAKE transactions the accepted
\* blocks combine: what the gates checked on the shadow stake is what the
\* stake pass leaves in the StakeMap.
THEOREM StakeFloorHolds == Spec => []StakeFloor
<1> DEFINE Inv == TypeOK /\ GatesHeld /\ StakeFloor /\ StakeAgrees
<1>1. Init => Inv
  BY InitTyped DEF Init, GenesisState, StakeFloor, StakeAgrees, AboveFloor
<1>2. Inv /\ [Next]_vars => Inv'
  BY NextTyped, NextStakeAgrees
<1> QED
  BY <1>1, <1>2, PTL DEF Spec

-----------------------------------------------------------------------------
(* The shadow maps only ever gain entries *)

\* What a reflexive and transitive relation says of the neighbours in a
\* sequence it says of any two elements in order.
LEMMA StepsCompose ==
  ASSUME NEW X, NEW s \in Seq(X), NEW R,
         \A x \in X : <<x, x>> \in R,
         \A x, y, z \in X : <<x, y>> \in R /\ <<y, z>> \in R => <<x, z>> \in R,
         \A j \in 1 .. Len(s) - 1 : <<s[j], s[j + 1]>> \in R,
         NEW a \in 1 .. Len(s), NEW b \in 1 .. Len(s), a <= b
  PROVE  <<s[a], s[b]>> \in R
<1> DEFINE T == {n \in Nat : a + n <= Len(s) => <<s[a], s[a + n]>> \in R}
<1>1. 0 \in T
  BY a + 0 = a
<1>2. ASSUME NEW n \in Nat, n \in T PROVE n + 1 \in T
  <2>1. SUFFICES ASSUME a + (n + 1) <= Len(s)
                 PROVE  <<s[a], s[a + (n + 1)]>> \in R
    OBVIOUS
  <2>2. /\ a + n \in 1 .. Len(s) - 1 /\ a + (n + 1) = (a + n) + 1
        /\ (a + n) + 1 \in 1 .. Len(s) /\ a + n \in 1 .. Len(s)
    BY <2>1
  <2>3. <<s[a], s[a + n]>> \in R
    BY <1>2, <2>2
  <2>4. <<s[a + n], s[(a + n) + 1]>> \in R
    BY <2>2
  <2>5. s[a] \in X /\ s[a + n] \in X /\ s[(a + n) + 1] \in X
    BY <2>2
  <2> QED
    BY <2>2, <2>3, <2>4, <2>5
<1>3. Nat \subseteq T
  <2> HIDE DEF T
  <2> QED
    BY <1>1, <1>2, SetInduction
<1>4. b - a \in Nat /\ a + (b - a) = b
  OBVIOUS
<1> QED
  BY <1>3, <1>4

\* The later shadow maps sh2 know everything that sh1 knows.
Grows(sh1, sh2) ==
  /\ \A k \in Keys : sh1.nonce[k] <= sh2.nonce[k]
  /\ sh1.offences \subseteq sh2.offences
  /\ sh1.registered \subseteq sh2.registered
  /\ sh1.spent \subseteq sh2.spent
  /\ sh1.txs \subseteq sh2.txs
  /\ sh1.commit \subseteq sh2.commit

\* An accepted transaction adds to the shadow maps.
LEMMA ShadowGrows ==
  ASSUME NEW V, NEW sh \in Shadows, NEW tx \in Transactions
  PROVE  Grows(sh, ShadowAfter(V, sh, tx))
<1> DEFINE B == ShadowAfter(V, sh, tx)
<1>0. sh.nonce \in [Keys -> Nat]
  BY DEF Shadows
<1>1. CASE tx.owner = None
  BY <1>0, <1>1 DEF ShadowAfter, Shadows, Grows, SpentAfter
<1>2. CASE tx.owner # None
  <2>1. tx.owner \in Keys
    BY <1>2 DEF Transactions
  <2>2. /\ B.nonce = [sh.nonce EXCEPT ![tx.owner] = @ + 1]
        /\ B.offences = OffencesAfter(sh, tx)
        /\ sh.registered \subseteq B.registered
        /\ B.spent = SpentAfter(sh, tx)
        /\ sh.txs \subseteq B.txs
        /\ B.commit = CommitAfter(sh, tx)
    BY <1>2 DEF ShadowAfter
  <2>3. \A k \in Keys : sh.nonce[k] <= B.nonce[k]
    <3> HIDE DEF B
    <3> QED
      BY <1>0, <2>1, <2>2
  <2>4. /\ sh.offences \subseteq OffencesAfter(sh, tx)
        /\ sh.spent \subseteq SpentAfter(sh, tx)
        /\ sh.commit \subseteq CommitAfter(sh, tx)
    BY DEF OffencesAfter, SpentAfter, CommitAfter
  <2> HIDE DEF B
  <2>5. Grows(sh, B)
    BY <2>2, <2>3, <2>4 DEF Grows
  <2> QED
    BY <2>5 DEF B
<1> QED
  BY <1>1, <1>2

\* Along the transactions of a block past the gates the shadow maps grow.
LEMMA ShadowsGrow ==
  ASSUME TypeOK, GatesHeld, pc \in {"ledger", "domain", "stake"},
         NEW a \in 1 .. Len(blk.txs) + 1, NEW b \in 1 .. Len(blk.txs) + 1, a <= b
  PROVE  Grows(shadows[a], shadows[b])
<1> DEFINE R == {p \in Shadows \X Shadows : Grows(p[1], p[2])}
<1>1. /\ Len(shadows) = Len(blk.txs) + 1 /\ blk \in Blocks
      /\ shadows \in Seq(Shadows)
  BY DEF GatesHeld, TypeOK
<1>2. Len(blk.txs) \in Nat
  BY <1>1, BlockFacts
<1>3. \A x \in Shadows : <<x, x>> \in R
  BY SMTT(30) DEF Grows, Shadows
<1>4. \A x, y, z \in Shadows : <<x, y>> \in R /\ <<y, z>> \in R => <<x, z>> \in R
  <2>1. SUFFICES ASSUME NEW x \in Shadows, NEW y \in Shadows, NEW z \in Shadows,
                        Grows(x, y), Grows(y, z)
                 PROVE  Grows(x, z)
    OBVIOUS
  <2>2. \A k \in Keys : x.nonce[k] \in Nat /\ y.nonce[k] \in Nat /\ z.nonce[k] \in Nat
    BY DEF Shadows
  <2>3. \A k \in Keys : x.nonce[k] <= z.nonce[k]
    <3>1. TAKE k \in Keys
    <3>2. x.nonce[k] <= y.nonce[k] /\ y.nonce[k] <= z.nonce[k]
      BY <2>1 DEF Grows
    <3> QED
      BY <2>2, <3>2
  <2> QED
    BY <2>1, <2>3 DEF Grows
<1>5. ASSUME NEW j \in 1 .. Len(shadows) - 1 PROVE <<shadows[j], shadows[j + 1]>> \in R
  <2>1. j \in 1 .. Len(blk.txs) /\ blk.txs[j] \in Transactions
    BY <1>1, <1>2, BlockFacts
  <2>2. /\ shadows[j + 1] = ShadowAfter(View, shadows[j], blk.txs[j])
        /\ shadows[j] \in Shadows /\ shadows[j + 1] \in Shadows
    BY <2>1, PastGates
  <2> QED
    BY <2>1, <2>2, ShadowGrows
<1>6. <<shadows[a], shadows[b]>> \in R
  <2> HIDE DEF R
  <2> QED
    BY <1>1, <1>3, <1>4, <1>5, StepsCompose
<1> QED
  BY <1>6

-----------------------------------------------------------------------------
(* Positions in the chain *)

\* What stands at a position was submitted by somebody.
LEMMA PositionType ==
  ASSUME TypeOK, NEW p \in Positions
  PROVE  TxAt(p) \in Submitted /\ TxAt(p) \in Transactions
<1>1. PICK b \in DOMAIN chain : p \in {b} \X DOMAIN chain[b].txs
  BY DEF Positions
<1>2. chain[b] \in Blocks \cup {Genesis}
  BY DEF TypeOK
<1>3. p[1] = b /\ p[2] \in DOMAIN chain[b].txs
  BY <1>1
<1>4. chain[b] # Genesis
  BY <1>3 DEF Genesis
<1>5. chain[b].txs \in Seq(Submitted)
  BY <1>2, <1>4, BlockFacts
<1> QED
  BY <1>3, <1>5, SubmittedAssumption DEF TxAt

\* An accepted block adds its transactions as new positions.
LEMMA NewPositions ==
  ASSUME TypeOK, blk \in Blocks, chain' = Append(chain, blk), NEW p \in Positions'
  PROVE  \/ p \in Positions /\ TxAt(p)' = TxAt(p) /\ p[1] # Len(chain) + 1
            /\ chain'[p[1]] = chain[p[1]]
         \/ \E j \in 1 .. Len(blk.txs) :
              p = <<Len(chain) + 1, j>> /\ TxAt(p)' = blk.txs[j]
              /\ chain'[p[1]] = blk
<1>0. chain \in Seq(Blocks \cup {Genesis}) /\ Len(chain) \in Nat
  BY DEF TypeOK
<1>1. /\ DOMAIN chain = 1 .. Len(chain) /\ DOMAIN chain' = 1 .. Len(chain) + 1
      /\ chain'[Len(chain) + 1] = blk
      /\ \A b \in 1 .. Len(chain) : chain'[b] = chain[b]
  BY <1>0
<1>2. PICK b \in DOMAIN chain' : p \in {b} \X DOMAIN chain'[b].txs
  BY DEF Positions
<1>3. p[1] = b /\ p[2] \in DOMAIN chain'[b].txs /\ p = <<p[1], p[2]>>
  BY <1>2
<1>4. TxAt(p)' = chain'[b].txs[p[2]]
  BY <1>3 DEF TxAt
<1>5. CASE b = Len(chain) + 1
  <2>1. DOMAIN blk.txs = 1 .. Len(blk.txs)
    BY BlockFacts
  <2>2. p[2] \in 1 .. Len(blk.txs) /\ p = <<Len(chain) + 1, p[2]>>
    BY <1>1, <1>3, <1>5, <2>1
  <2> QED
    BY <1>1, <1>3, <1>4, <1>5, <2>2
<1>6. CASE b # Len(chain) + 1
  <2>1. b \in DOMAIN chain /\ chain'[b] = chain[b]
    BY <1>0, <1>1, <1>6
  <2>2. p \in {b} \X DOMAIN chain[b].txs
    BY <1>2, <2>1
  <2>3. p \in Positions
    BY <2>1, <2>2 DEF Positions
  <2>4. TxAt(p) = chain[b].txs[p[2]]
    BY <1>3 DEF TxAt
  <2> QED
    BY <1>3, <1>4, <1>6, <2>1, <2>3, <2>4
<1> QED
  BY <1>5, <1>6

-----------------------------------------------------------------------------
(* No transaction of an account is executed twice *)

\* The account of every executed transaction has moved past its nonce.
NoncesPassed ==
  \A p \in Positions :
    TxAt(p).owner # None => TxAt(p).nonce < live.nonce[TxAt(p).owner]

\* After the ledger pass the staged nonces are those the gates ended with.
NoncesStaged ==
  pc \in {"domain", "stake"} => staged.nonce = shadows[Len(blk.txs) + 1].nonce

\* In a block past the gates, every owned transaction has the nonce its account
\* reaches there, at or above the live one and below the one after the block.
LEMMA BlockNonces ==
  ASSUME TypeOK, GatesHeld, pc \in {"ledger", "domain", "stake"},
         NEW j \in 1 .. Len(blk.txs), blk.txs[j].owner # None
  PROVE  LET tx == blk.txs[j]
         IN  /\ tx.owner \in Keys /\ tx.nonce \in Nat
             /\ live.nonce[tx.owner] <= tx.nonce
             /\ tx.nonce < shadows[Len(blk.txs) + 1].nonce[tx.owner]
             /\ tx.nonce = shadows[j].nonce[tx.owner]
             /\ shadows[j + 1].nonce[tx.owner] = tx.nonce + 1
<1> DEFINE tx == blk.txs[j]
           o == tx.owner
           n == Len(blk.txs)
<1>1. /\ blk \in Blocks /\ n \in Nat /\ live \in States
      /\ tx \in Transactions /\ tx.nonce \in Nat /\ o \in Keys
  <2>1. blk \in Blocks /\ live \in States
    BY DEF TypeOK
  <2>2. n \in Nat /\ tx \in Transactions
    BY <2>1, BlockFacts
  <2> QED
    BY <2>1, <2>2, LimitsAssumption DEF Transactions, U64
<1>2. /\ GateTx(View, shadows[j], tx, GateContext)
      /\ shadows[j + 1] = ShadowAfter(View, shadows[j], tx)
      /\ shadows[j] \in Shadows
  BY PastGates
<1>3. tx.nonce = shadows[j].nonce[o]
  BY <1>2 DEF GateTx, NonceGate
<1>4. shadows[j + 1].nonce[o] = tx.nonce + 1
  <2>1. shadows[j + 1].nonce = [shadows[j].nonce EXCEPT ![o] = @ + 1]
    BY <1>2 DEF ShadowAfter
  <2>2. shadows[j].nonce \in [Keys -> Nat]
    BY <1>2 DEF Shadows
  <2> HIDE DEF tx, o
  <2> QED
    BY <1>1, <1>3, <2>1, <2>2
<1>5. live.nonce[o] <= tx.nonce
  <2>1. Grows(shadows[1], shadows[j])
    BY <1>1, ShadowsGrow
  <2>2. shadows[1].nonce = live.nonce
    BY <1>1 DEF GatesHeld, InitShadow, View, PurgeExpired, States
  <2> QED
    BY <1>1, <1>3, <2>1, <2>2 DEF Grows
<1>6. tx.nonce < shadows[n + 1].nonce[o]
  <2>1. Grows(shadows[j + 1], shadows[n + 1])
    BY <1>1, ShadowsGrow
  <2>2. shadows[n + 1].nonce[o] \in Nat
    <3>1. n \in 1 .. Len(blk.txs)
      BY <1>1
    <3>2. shadows[n + 1] \in Shadows
      BY <3>1, PastGates
    <3> QED
      BY <1>1, <3>2 DEF Shadows
  <2>3. shadows[j + 1].nonce[o] <= shadows[n + 1].nonce[o]
    BY <1>1, <2>1 DEF Grows
  <2> HIDE DEF tx, o, n
  <2> QED
    BY <1>1, <1>4, <2>2, <2>3
<1> QED
  BY <1>1, <1>3, <1>4, <1>5, <1>6

\* Two owned transactions of one block past the gates differ.
LEMMA BlockTxsDiffer ==
  ASSUME TypeOK, GatesHeld, pc \in {"ledger", "domain", "stake"},
         NEW j \in 1 .. Len(blk.txs), NEW m \in 1 .. Len(blk.txs), j < m,
         blk.txs[j].owner # None
  PROVE  blk.txs[j] # blk.txs[m]
<1>1. SUFFICES ASSUME blk.txs[j] = blk.txs[m] PROVE FALSE
  OBVIOUS
<1> DEFINE tx == blk.txs[j]
<1>2. Len(blk.txs) \in Nat
  BY BlockFacts DEF TypeOK
<1>3. /\ tx.owner \in Keys /\ tx.nonce \in Nat
      /\ shadows[j + 1].nonce[tx.owner] = tx.nonce + 1
  BY BlockNonces
<1>4. shadows[m].nonce[tx.owner] = tx.nonce
  BY <1>1, BlockNonces
<1>5. Grows(shadows[j + 1], shadows[m])
  BY <1>2, ShadowsGrow
<1>6. shadows[j + 1].nonce[tx.owner] <= shadows[m].nonce[tx.owner]
  BY <1>3, <1>5 DEF Grows
<1> QED
  BY <1>3, <1>4, <1>6

\* Accepting a block executes transactions that were not executed before.
LEMMA AcceptNoReplay ==
  ASSUME TypeOK, GatesHeld, NoReplay, NoncesPassed, NoncesStaged, AcceptBlock
  PROVE  (NoReplay /\ NoncesPassed)'
<1> DEFINE n == Len(blk.txs)
<1>1. /\ pc = "stake" /\ blk \in Blocks /\ chain' = Append(chain, blk)
      /\ live \in States /\ staged \in States
      /\ live' = CommitIndex(live, CommitCommits(staged))
  BY DEF AcceptBlock, Committed, TypeOK
<1>2. n \in Nat
  BY <1>1, BlockFacts
<1>3. live'.nonce = shadows[n + 1].nonce
  <2>1. SameNonce(staged, staged)
    BY <1>1 DEF SameNonce, States
  <2>2. SameNonce(CommitCommits(staged), staged)
    BY <2>1, FieldsLeaveNonce
  <2>3. SameNonce(live', staged)
    BY <1>1, <2>2, FieldsLeaveNonce
  <2> QED
    BY <1>1, <2>3 DEF SameNonce, NoncesStaged
<1>4. \A k \in Keys : live.nonce[k] \in Nat /\ live'.nonce[k] \in Nat
                      /\ live.nonce[k] <= live'.nonce[k]
  <2>1. Grows(shadows[1], shadows[n + 1])
    BY <1>1, <1>2, ShadowsGrow
  <2>2. shadows[1].nonce = live.nonce
    BY <1>1 DEF GatesHeld, InitShadow, View, PurgeExpired, States
  <2>3. live.nonce \in [Keys -> Nat] /\ shadows[n + 1].nonce \in [Keys -> Nat]
    <3>1. Len(shadows) = n + 1 /\ shadows \in Seq(Shadows)
      BY <1>1 DEF GatesHeld, TypeOK
    <3>2. shadows[n + 1] \in Shadows
      BY <1>2, <3>1
    <3> QED
      BY <1>1, <3>2 DEF States, Shadows
  <2> QED
    BY <1>3, <2>1, <2>2, <2>3 DEF Grows
<1>5. ASSUME NEW p \in Positions, TxAt(p).owner # None
      PROVE  /\ TxAt(p).owner \in Keys /\ TxAt(p).nonce \in Nat
             /\ TxAt(p).nonce < live.nonce[TxAt(p).owner]
  <2>1. TxAt(p) \in Transactions
    BY PositionType
  <2>2. TxAt(p).nonce < live.nonce[TxAt(p).owner]
    BY <1>5 DEF NoncesPassed
  <2> QED
    BY <1>5, <2>1, <2>2, LimitsAssumption DEF Transactions, U64
<1>6. ASSUME NEW j \in 1 .. n, blk.txs[j].owner # None
      PROVE  /\ blk.txs[j].owner \in Keys /\ blk.txs[j].nonce \in Nat
             /\ live.nonce[blk.txs[j].owner] <= blk.txs[j].nonce
             /\ blk.txs[j].nonce < live'.nonce[blk.txs[j].owner]
  BY <1>1, <1>3, <1>6, BlockNonces
<1>7. NoncesPassed'
  <2>1. SUFFICES ASSUME NEW p \in Positions', TxAt(p)'.owner # None
                 PROVE  TxAt(p)'.nonce < live'.nonce[TxAt(p)'.owner]
    BY DEF NoncesPassed
  <2>2. CASE p \in Positions /\ TxAt(p)' = TxAt(p)
    <3> DEFINE t == TxAt(p)
    <3>1. t.owner \in Keys /\ t.nonce \in Nat /\ t.nonce < live.nonce[t.owner]
      BY <1>5, <2>1, <2>2
    <3> QED
      BY <1>4, <2>2, <3>1
  <2>3. CASE \E j \in 1 .. n : p = <<Len(chain) + 1, j>> /\ TxAt(p)' = blk.txs[j]
    BY <1>6, <2>1, <2>3
  <2> QED
    BY <1>1, <2>2, <2>3, NewPositions
<1>8. NoReplay'
  <2>1. SUFFICES ASSUME NEW p \in Positions', NEW q \in Positions',
                        TxAt(p)' = TxAt(q)', TxAt(p)'.owner # None
                 PROVE  p = q
    BY DEF NoReplay
  <2> DEFINE Old(x) == x \in Positions /\ TxAt(x)' = TxAt(x)
             New(x, j) == x = <<Len(chain) + 1, j>> /\ TxAt(x)' = blk.txs[j]
  <2>2. /\ Old(p) \/ \E j \in 1 .. n : New(p, j)
        /\ Old(q) \/ \E j \in 1 .. n : New(q, j)
    BY <1>1, NewPositions
  <2>3. CASE Old(p) /\ Old(q)
    BY <2>1, <2>3 DEF NoReplay
  <2>4. ASSUME NEW x \in Positions, NEW j \in 1 .. n,
               TxAt(x) = blk.txs[j], TxAt(x).owner # None
        PROVE  FALSE
    <3> DEFINE t == blk.txs[j]
    <3>1. t.owner \in Keys /\ t.nonce \in Nat /\ t.nonce < live.nonce[t.owner]
      BY <1>5, <2>4
    <3>2. live.nonce[t.owner] <= t.nonce
      BY <1>6, <2>4
    <3> QED
      BY <1>4, <3>1, <3>2
  <2>5. CASE \E j \in 1 .. n, m \in 1 .. n : New(p, j) /\ New(q, m)
    <3>1. PICK j \in 1 .. n, m \in 1 .. n : New(p, j) /\ New(q, m)
      BY <2>5
    <3>2. j = m
      BY <1>1, <1>2, <2>1, <3>1, BlockTxsDiffer
    <3> QED
      BY <3>1, <3>2
  <2> QED
    BY <2>1, <2>2, <2>3, <2>4, <2>5
<1> QED
  BY <1>7, <1>8

\* Every step keeps what is known of the nonces.
LEMMA NextNonces ==
  ASSUME TypeOK, GatesHeld, LedgerAgrees, NoReplay, NoncesPassed, NoncesStaged,
         [Next]_vars
  PROVE  (NoReplay /\ NoncesPassed /\ NoncesStaged)'
<1>0. live \in States /\ staged \in States
  BY DEF TypeOK
<1>1. ASSUME UNCHANGED <<live, chain>> PROVE (NoReplay /\ NoncesPassed)'
  <2>1. NoReplay'
    BY <1>1 DEF NoReplay, Positions, TxAt
  <2>2. NoncesPassed'
    BY <1>1 DEF NoncesPassed, Positions, TxAt
  <2> QED
    BY <2>1, <2>2
<1>2. CASE BlockArrives \/ GatePass \/ GateReject \/ GatesDone \/ LedgerStep
           \/ HashMismatch
  <2>1. UNCHANGED <<live, chain>> /\ pc' \notin {"domain", "stake"}
    BY <1>2 DEF BlockArrives, ReceiveBlock, GatePass, GateReject, GatesDone,
                LedgerStep, HashMismatch, Idle
  <2> QED
    BY <1>1, <2>1 DEF NoncesStaged
<1>3. CASE LedgerDone
  <2>1. /\ UNCHANGED <<live, chain, blk, shadows>> /\ pc = "ledger"
        /\ i = Len(blk.txs) + 1
        /\ staged' = [staged EXCEPT !.bal = Credit(@, blk.leader, fees)]
    BY <1>3 DEF LedgerDone, AtEnd
  <2>2. staged'.nonce = staged.nonce
    BY <1>0, <2>1 DEF States
  <2>3. staged.nonce = shadows[i].nonce
    BY <2>1 DEF LedgerAgrees
  <2> QED
    BY <1>1, <2>1, <2>2, <2>3 DEF NoncesStaged
<1>4. CASE DomainStep
  <2>1. /\ UNCHANGED <<live, chain, blk, shadows, pc>> /\ pc = "domain" /\ ~AtEnd
        /\ staged' = ApplyDomainMutations(live, staged, Tx, blk.slot, blk.index)
    BY <1>4 DEF DomainStep
  <2>2. staged'.nonce = staged.nonce
    BY <1>0, <2>1, CurrentTx, DomainLeavesNonce DEF SameNonce
  <2> QED
    BY <1>1, <2>1, <2>2 DEF NoncesStaged
<1>5. CASE DomainDone
  BY <1>1, <1>5 DEF DomainDone, NoncesStaged
<1>6. CASE StakeStep
  <2>1. /\ UNCHANGED <<live, chain, blk, shadows, pc>> /\ pc = "stake" /\ ~AtEnd
        /\ staged' = ApplyStakeMutations(staged, Tx, blk.slot)
    BY <1>6 DEF StakeStep
  <2>2. staged'.nonce = staged.nonce
    BY <1>0, <2>1, CurrentTx, StakePassFields
  <2> QED
    BY <1>1, <2>1, <2>2 DEF NoncesStaged
<1>7. CASE AcceptBlock
  <2>1. pc' = "idle"
    BY <1>7 DEF AcceptBlock, Idle
  <2> QED
    BY <1>7, <2>1, AcceptNoReplay DEF NoncesStaged
<1>8. CASE UNCHANGED vars
  BY <1>1, <1>8 DEF vars, NoncesStaged
<1> QED
  BY <1>2, <1>3, <1>4, <1>5, <1>6, <1>7, <1>8 DEF Next

\* The chain holds every transaction of an account at most once, whatever
\* blocks peers send, replay or reorder: Gate 3 compares with a shadow nonce
\* that only rises, and the ledger pass leaves exactly the last shadow nonce.
THEOREM NoReplayHolds == Spec => []NoReplay
<1> DEFINE Inv == /\ TypeOK /\ GatesHeld /\ LedgerAgrees
                  /\ NoReplay /\ NoncesPassed /\ NoncesStaged
<1>1. Init => Inv
  <2> SUFFICES ASSUME Init PROVE Inv
    OBVIOUS
  <2>1. TypeOK /\ GatesHeld /\ LedgerAgrees /\ NoncesStaged
    BY InitTyped DEF Init, LedgerAgrees, NoncesStaged
  <2>2. Positions = {}
    BY DEF Init, Positions, Genesis
  <2> QED
    BY <2>1, <2>2 DEF NoReplay, NoncesPassed
<1>2. Inv /\ [Next]_vars => Inv'
  BY NextTyped, NextAgrees, NextNonces
<1> QED
  BY <1>1, <1>2, PTL DEF Spec

-----------------------------------------------------------------------------
(* No offence is punished twice *)

\* Every offence that an executed transaction reports is on record.
OffencesOnRecord ==
  \A p \in Positions :
    TxAt(p).type = "EQUIVOCATION_PROOF" => OffenceOf(TxAt(p)) \in live.slashed

\* S has on record what was there before and what the gates saw since.
Records(S, before, sh) == S.slashed = before \cup sh.offences

\* During the stake pass the staged record holds the live one and what the
\* gates had seen of the block so far.
OffencesStaged == pc = "stake" => Records(staged, live.slashed, shadows[i])

\* The stake pass and the shadow maps record the same offences.
LEMMA OffenceKeepsUp ==
  ASSUME NEW V, NEW sh \in Shadows, NEW tx \in Transactions, NEW c,
         GateTx(V, sh, tx, c), NEW S \in States, NEW slot, NEW old,
         Records(S, old, sh)
  PROVE  Records(ApplyStakeMutations(S, tx, slot), old, ShadowAfter(V, sh, tx))
<1> USE DEF Records
<1> DEFINE T == ApplyStakeMutations(S, tx, slot)
<1>1. CASE tx.owner = None
  BY <1>1 DEF ApplyStakeMutations, ShadowAfter, Shadows
<1>2. CASE tx.owner # None
  <2>1. ShadowAfter(V, sh, tx).offences = OffencesAfter(sh, tx)
    BY <1>2 DEF ShadowAfter
  <2>2. CASE tx.type = "EQUIVOCATION_PROOF"
    <3>1. tx.evidence # NoEvidence /\ OffenceOf(tx)[2] \in Keys
      BY <1>2, <2>2, OffenceType DEF GateTx, EquivocationGate
    <3>2. T = ApplyEquivocation(S, tx)
      BY <1>2, <2>2 DEF ApplyStakeMutations
    <3>3. T.slashed = S.slashed \cup {OffenceOf(tx)}
      <4>1. CASE OffenceOf(tx) \in S.slashed
        BY <3>2, <4>1 DEF ApplyEquivocation
      <4>2. CASE OffenceOf(tx) \notin S.slashed
        <5> DEFINE A == Slash(S, OffenceOf(tx)[2])
        <5>1. A \in States /\ A.slashed = S.slashed
          BY <3>1, SlashIsLocal, SlashType
        <5>2. T = [A EXCEPT !.slashed = @ \cup {OffenceOf(tx)}]
          BY <3>1, <3>2, <4>2 DEF ApplyEquivocation
        <5> HIDE DEF T, A
        <5> QED
          BY <5>1, <5>2 DEF States
      <4> QED
        BY <4>1, <4>2
    <3> HIDE DEF T
    <3> QED
      BY <2>1, <2>2, <3>3 DEF OffencesAfter, T
  <2>3. CASE tx.type # "EQUIVOCATION_PROOF"
    <3>1. T.slashed = S.slashed
      BY <1>2, <2>3 DEF ApplyStakeMutations, ApplyUnstake, States
    <3> QED
      BY <2>1, <2>3, <3>1 DEF OffencesAfter
  <2> QED
    BY <2>2, <2>3
<1> QED
  BY <1>1, <1>2

\* In a block past the gates, a reported offence is new to the live record and
\* to the transactions before it, and known to those after it.
LEMMA BlockOffences ==
  ASSUME TypeOK, GatesHeld, pc \in {"ledger", "domain", "stake"},
         NEW j \in 1 .. Len(blk.txs), blk.txs[j].type = "EQUIVOCATION_PROOF"
  PROVE  LET o == OffenceOf(blk.txs[j])
         IN  /\ o \notin live.slashed
             /\ o \notin shadows[j].offences
             /\ \A m \in j + 1 .. Len(blk.txs) + 1 : o \in shadows[m].offences
<1> DEFINE tx == blk.txs[j]
           o == OffenceOf(tx)
<1>1. blk \in Blocks /\ Len(blk.txs) \in Nat /\ live \in States
  BY BlockFacts DEF TypeOK
<1>2. /\ GateTx(View, shadows[j], tx, GateContext)
      /\ shadows[j + 1] = ShadowAfter(View, shadows[j], tx)
  BY PastGates
<1>3. tx.owner # None
  BY <1>2 DEF GateTx, AutoRevokeGate
<1>4. o \notin View.slashed \cup shadows[j].offences
  BY <1>2, <1>3 DEF GateTx, EquivocationGate
<1>5. View.slashed = live.slashed
  BY <1>1 DEF View, PurgeExpired, States
<1>6. o \in shadows[j + 1].offences
  BY <1>2, <1>3 DEF ShadowAfter, OffencesAfter
<1>7. ASSUME NEW m \in j + 1 .. Len(blk.txs) + 1 PROVE o \in shadows[m].offences
  <2>1. Grows(shadows[j + 1], shadows[m])
    BY <1>1, ShadowsGrow
  <2> QED
    BY <1>6, <2>1 DEF Grows
<1> QED
  BY <1>4, <1>5, <1>7

\* Accepting a block punishes offences that are not on record, each once.
LEMMA AcceptOffences ==
  ASSUME TypeOK, GatesHeld, OffencePunishedOnce, OffencesOnRecord,
         OffencesStaged, AcceptBlock
  PROVE  (OffencePunishedOnce /\ OffencesOnRecord)'
<1> DEFINE n == Len(blk.txs)
           IsProof(tx) == tx.type = "EQUIVOCATION_PROOF"
           Old(x) == x \in Positions /\ TxAt(x)' = TxAt(x)
           New(x, j) == x = <<Len(chain) + 1, j>> /\ TxAt(x)' = blk.txs[j]
<1>1. /\ pc = "stake" /\ blk \in Blocks /\ chain' = Append(chain, blk)
      /\ live \in States /\ staged \in States /\ i = n + 1 /\ n \in Nat
      /\ live' = CommitIndex(live, CommitCommits(staged))
  BY BlockFacts DEF AcceptBlock, Committed, TypeOK, AtEnd
<1>2. live'.slashed = live.slashed \cup shadows[n + 1].offences
  <2>1. SameStake(live', staged)
    BY <1>1, SameStakeRefl, FieldsLeaveStake
  <2> QED
    BY <1>1, <2>1 DEF SameStake, OffencesStaged, Records
<1>3. ASSUME NEW j \in 1 .. n, IsProof(blk.txs[j])
      PROVE  /\ OffenceOf(blk.txs[j]) \notin live.slashed
             /\ OffenceOf(blk.txs[j]) \notin shadows[j].offences
             /\ \A m \in j + 1 .. n + 1 : OffenceOf(blk.txs[j]) \in shadows[m].offences
  BY <1>1, <1>3, BlockOffences
<1>4. ASSUME NEW p \in Positions'
      PROVE  Old(p) \/ \E j \in 1 .. n : New(p, j)
  BY <1>1, NewPositions
<1>5. OffencesOnRecord'
  <2>1. SUFFICES ASSUME NEW p \in Positions', IsProof(TxAt(p)')
                 PROVE  OffenceOf(TxAt(p)') \in live'.slashed
    BY DEF OffencesOnRecord, OffenceOf
  <2>2. CASE Old(p)
    BY <1>2, <2>1, <2>2 DEF OffencesOnRecord
  <2>3. CASE \E j \in 1 .. n : New(p, j)
    <3>1. PICK j \in 1 .. n : New(p, j)
      BY <2>3
    <3>2. n + 1 \in j + 1 .. n + 1 /\ IsProof(blk.txs[j])
      BY <1>1, <2>1, <3>1
    <3>3. OffenceOf(blk.txs[j]) \in shadows[n + 1].offences
      BY <1>3, <3>2
    <3> QED
      BY <1>2, <3>1, <3>3
  <2> QED
    BY <1>4, <2>2, <2>3
<1>6. OffencePunishedOnce'
  <2>1. SUFFICES ASSUME NEW p \in Positions', NEW q \in Positions',
                        IsProof(TxAt(p)'), IsProof(TxAt(q)'),
                        OffenceOf(TxAt(p)') = OffenceOf(TxAt(q)')
                 PROVE  p = q
    BY DEF OffencePunishedOnce, OffenceOf
  <2>2. CASE Old(p) /\ Old(q)
    BY <2>1, <2>2 DEF OffencePunishedOnce
  <2>3. ASSUME NEW x \in Positions, NEW j \in 1 .. n, IsProof(TxAt(x)),
               IsProof(blk.txs[j]), OffenceOf(TxAt(x)) = OffenceOf(blk.txs[j])
        PROVE  FALSE
    BY <1>3, <2>3 DEF OffencesOnRecord
  <2>4. ASSUME NEW j \in 1 .. n, NEW m \in 1 .. n, j < m,
               IsProof(blk.txs[j]), IsProof(blk.txs[m]),
               OffenceOf(blk.txs[j]) = OffenceOf(blk.txs[m])
        PROVE  FALSE
    <3>1. m \in j + 1 .. n + 1
      BY <1>1, <2>4
    <3> QED
      BY <1>3, <2>4, <3>1
  <2>5. CASE \E j \in 1 .. n, m \in 1 .. n : New(p, j) /\ New(q, m)
    <3>1. PICK j \in 1 .. n, m \in 1 .. n : New(p, j) /\ New(q, m)
      BY <2>5
    <3>2. j = m
      BY <1>1, <2>1, <2>4, <3>1
    <3> QED
      BY <3>1, <3>2
  <2> HIDE DEF IsProof
  <2> QED
    BY <1>4, <2>1, <2>2, <2>3, <2>5
<1> QED
  BY <1>5, <1>6

\* Every step keeps the record of offences complete.
LEMMA NextOffences ==
  ASSUME TypeOK, GatesHeld, StakeAgrees, OffencePunishedOnce, OffencesOnRecord,
         OffencesStaged, [Next]_vars
  PROVE  (OffencePunishedOnce /\ OffencesOnRecord /\ OffencesStaged)'
<1>0. live \in States /\ staged \in States
  BY DEF TypeOK
<1>1. ASSUME UNCHANGED <<live, chain>>
      PROVE  (OffencePunishedOnce /\ OffencesOnRecord)'
  BY <1>1 DEF OffencePunishedOnce, OffencesOnRecord, Positions, TxAt
<1>2. CASE \/ BlockArrives \/ GatePass \/ GateReject \/ GatesDone \/ LedgerStep
           \/ LedgerDone \/ DomainStep \/ HashMismatch
  <2>1. UNCHANGED <<live, chain>> /\ pc' # "stake"
    BY <1>2 DEF BlockArrives, ReceiveBlock, GatePass, GateReject, GatesDone,
                LedgerStep, LedgerDone, DomainStep, HashMismatch, Idle
  <2> QED
    BY <1>1, <2>1 DEF OffencesStaged
<1>3. CASE DomainDone
  <2>1. /\ UNCHANGED <<live, chain, staged, shadows>> /\ pc = "domain" /\ i' = 1
    BY <1>3 DEF DomainDone
  <2>2. staged.slashed = live.slashed
    BY <2>1 DEF StakeAgrees
  <2>3. shadows[1].offences = {}
    BY <2>1 DEF GatesHeld, InitShadow
  <2> QED
    BY <1>1, <2>1, <2>2, <2>3 DEF OffencesStaged, Records
<1>4. CASE StakeStep
  <2>1. /\ UNCHANGED <<live, chain, shadows, pc>> /\ pc = "stake" /\ ~AtEnd
        /\ staged' = ApplyStakeMutations(staged, Tx, blk.slot) /\ i' = i + 1
    BY <1>4 DEF StakeStep
  <2>2. i \in 1 .. Len(blk.txs) /\ Tx \in Transactions
    BY <2>1, CurrentTx
  <2>3. /\ GateTx(View, shadows[i], Tx, GateContext)
        /\ shadows[i + 1] = ShadowAfter(View, shadows[i], Tx)
        /\ shadows[i] \in Shadows
    BY <2>1, <2>2, PastGates DEF Tx
  <2>4. Records(staged, live.slashed, shadows[i])
    BY <2>1 DEF OffencesStaged
  <2>5. Records(staged', live.slashed, shadows[i + 1])
    BY <1>0, <2>1, <2>2, <2>3, <2>4, OffenceKeepsUp
  <2> QED
    BY <1>1, <2>1, <2>5 DEF OffencesStaged, Records
<1>5. CASE AcceptBlock
  <2>1. pc' = "idle"
    BY <1>5 DEF AcceptBlock, Idle
  <2> QED
    BY <1>5, <2>1, AcceptOffences DEF OffencesStaged
<1>6. CASE UNCHANGED vars
  BY <1>1, <1>6 DEF vars, OffencesStaged, Records
<1> QED
  BY <1>2, <1>3, <1>4, <1>5, <1>6 DEF Next

\* An equivocation is punished once, whoever reports it, in whichever block
\* and however often: the evidence that the stake pass records is exactly what
\* the gates saw of the block, on top of the live record.
THEOREM OffencesPunishedOnce == Spec => []OffencePunishedOnce
<1> DEFINE Inv == /\ TypeOK /\ GatesHeld /\ StakeFloor /\ StakeAgrees
                  /\ OffencePunishedOnce /\ OffencesOnRecord /\ OffencesStaged
<1>1. Init => Inv
  <2> SUFFICES ASSUME Init PROVE Inv
    OBVIOUS
  <2>1. TypeOK /\ GatesHeld /\ StakeFloor /\ StakeAgrees /\ OffencesStaged
    BY InitTyped DEF Init, GenesisState, StakeFloor, StakeAgrees, AboveFloor,
                     OffencesStaged
  <2>2. Positions = {}
    BY DEF Init, Positions, Genesis
  <2> QED
    BY <2>1, <2>2 DEF OffencePunishedOnce, OffencesOnRecord
<1>2. Inv /\ [Next]_vars => Inv'
  BY NextTyped, NextStakeAgrees, NextOffences
<1> QED
  BY <1>1, <1>2, PTL DEF Spec

=============================================================================
