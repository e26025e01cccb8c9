---------------------------- MODULE ClusterProofs ----------------------------
(***************************************************************************)
(* Theorems about nodes that make and exchange blocks, for any number of   *)
(* registries, any set of transactions and any length of the run.          *)
(* The last part is about the election by which they find their leader.    *)
(***************************************************************************)
EXTENDS ClusterProperties, ElectionRounds, ApplyProofs, FiniteSetTheorems

-----------------------------------------------------------------------------
(* The passes over a block *)

\* The ledger pass leads from a state to a state.
LEMMA LedgerPassType ==
  ASSUME NEW S \in States, NEW b, IsBody(b), b.leader \in Keys
  PROVE  LedgerPass(S, b) \in States
<1> DEFINE L == Len(b.txs)
           loop == LedgerLoop(S, b.txs)
           fee == FeeLoop(b.txs)
<1>1. /\ L \in Nat /\ b.txs \in Seq(Transactions)
      /\ \A j \in 1 .. L : b.txs[j] \in Transactions /\ b.txs[j].fee \in Nat
  <2>1. \A tx \in Transactions : tx.fee \in Nat
    BY LimitsAssumption DEF Transactions, U64
  <2> QED
    BY <2>1 DEF IsBody
<1>2. \A n \in 0 .. L : loop[n] \in States
  <2>1. loop[0] \in States /\ \A n \in 1 .. L : loop[n - 1] \in States => loop[n] \in States
    BY <1>1, LedgerLoopSteps, LedgerType
  <2> HIDE DEF loop, L
  <2> QED
    BY <1>1, <2>1, LoopType
<1>3. \A n \in 0 .. L : fee[n] \in Nat
  <2>1. fee[0] = 0 /\ \A n \in 1 .. L : fee[n] = fee[n - 1] + b.txs[n].fee
    BY <1>1, FeeLoopSteps
  <2> HIDE DEF fee, L
  <2>2. fee[0] \in Nat /\ \A n \in 1 .. L : fee[n - 1] \in Nat => fee[n] \in Nat
    <3>1. ASSUME NEW n \in 1 .. L, fee[n - 1] \in Nat PROVE fee[n] \in Nat
      <4>1. b.txs[n].fee \in Nat /\ fee[n] = fee[n - 1] + b.txs[n].fee
        BY <1>1, <2>1
      <4> QED
        BY <3>1, <4>1
    <3> QED
      BY <2>1, <3>1
  <2> QED
    BY <1>1, <2>2, LoopType
<1>4. loop[L] \in States /\ fee[L] \in Nat
  BY <1>1, <1>2, <1>3
<1> HIDE DEF loop, fee, L
<1>5. Credit(loop[L].bal, b.leader, fee[L]) \in [Keys -> Nat]
  BY <1>4, BalanceType DEF States
<1>6. [loop[L] EXCEPT !.bal = Credit(@, b.leader, fee[L])] \in States
  BY <1>4, <1>5 DEF States
<1> QED
  BY <1>6 DEF LedgerPass, loop, fee, L

\* The ledger pass writes balances and nonces only.
LEMMA LedgerPassFields ==
  ASSUME NEW S \in States, NEW b, IsBody(b), b.leader \in Keys
  PROVE  LET T == LedgerPass(S, b)
         IN  /\ T.stake = S.stake /\ T.queue = S.queue /\ T.slashed = S.slashed
             /\ T.dom = S.dom /\ T.spent = S.spent /\ T.purge = S.purge
             /\ T.commits = S.commits /\ T.gone = S.gone
             /\ T.nonce = LedgerLoop(S, b.txs)[Len(b.txs)].nonce
<1> DEFINE L == Len(b.txs)
           loop == LedgerLoop(S, b.txs)
           Same == {T \in States :
                      /\ T.stake = S.stake /\ T.queue = S.queue
                      /\ T.slashed = S.slashed /\ T.dom = S.dom
                      /\ T.spent = S.spent /\ T.purge = S.purge
                      /\ T.commits = S.commits /\ T.gone = S.gone}
<1>1. /\ L \in Nat /\ b.txs \in Seq(Transactions)
      /\ \A j \in 1 .. L : b.txs[j] \in Transactions
  BY DEF IsBody
<1>2. \A T \in Same, tx \in Transactions : ApplyLedgerMutations(T, tx) \in Same
  <2>1. TAKE T \in Same, tx \in Transactions
  <2>2. ApplyLedgerMutations(T, tx) \in States
    BY LedgerType
  <2> QED
    BY <2>2 DEF ApplyLedgerMutations, States
<1>3. \A n \in 0 .. L : loop[n] \in Same
  <2>1. loop[0] \in Same
    BY <1>1, LedgerLoopSteps
  <2>2. \A n \in 1 .. L : loop[n] = ApplyLedgerMutations(loop[n - 1], b.txs[n])
    BY <1>1, LedgerLoopSteps
  <2> HIDE DEF loop, L, Same
  <2>3. \A n \in 1 .. L : loop[n - 1] \in Same => loop[n] \in Same
    BY <1>1, <1>2, <2>2
  <2> QED
    BY <1>1, <2>1, <2>3, LoopType
<1>4. loop[L] \in Same
  BY <1>1, <1>3
<1> HIDE DEF loop
<1> QED
  BY <1>4 DEF LedgerPass, loop, States

\* The domain pass leads from a state to a state.
LEMMA DomainPassType ==
  ASSUME NEW K \in States, NEW S \in States, NEW b, IsBody(b)
  PROVE  \A n \in 0 .. Len(b.txs) : DomainLoop(K, S, b)[n] \in States
<1> DEFINE L == Len(b.txs)
           loop == DomainLoop(K, S, b)
<1>1. /\ L \in Nat /\ b.slot \in Nat /\ b.index \in Nat
      /\ \A j \in 1 .. L : b.txs[j] \in Transactions /\ IsComplete(b.txs[j])
  BY DEF IsBody
<1>2. /\ loop[0] = S
      /\ \A n \in 1 .. L :
           loop[n] = ApplyDomainMutations(K, loop[n - 1], b.txs[n], b.slot, b.index)
  BY DomainLoopSteps
<1> HIDE DEF loop, L
<1>3. \A n \in 1 .. L : loop[n - 1] \in States => loop[n] \in States
  BY ZenonT(30), <1>1, <1>2, DomainType
<1>4. \A n \in 0 .. L : loop[n] \in States
  BY <1>1, <1>2, <1>3, LoopType
<1> QED
  BY <1>4 DEF loop, L

\* The stake pass leads from a state to a state and writes the stake map, the
\* queue and the evidence only.
LEMMA StakePassType ==
  ASSUME NEW S \in States, NEW b, IsBody(b)
  PROVE  LET T == StakePass(S, b)
         IN  /\ T \in States
             /\ T.nonce = S.nonce /\ T.bal = S.bal /\ T.dom = S.dom
             /\ T.spent = S.spent /\ T.purge = S.purge
             /\ T.commits = S.commits /\ T.gone = S.gone
<1> DEFINE L == Len(b.txs)
           loop == StakeLoop(S, b)
           Same == {T \in States :
                      /\ T.nonce = S.nonce /\ T.bal = S.bal /\ T.dom = S.dom
                      /\ T.spent = S.spent /\ T.purge = S.purge
                      /\ T.commits = S.commits /\ T.gone = S.gone}
<1>1. /\ L \in Nat /\ b.slot \in Nat
      /\ \A j \in 1 .. L : b.txs[j] \in Transactions
  BY DEF IsBody
<1>2. \A T \in Same, tx \in Transactions : ApplyStakeMutations(T, tx, b.slot) \in Same
  <2>1. TAKE T \in Same, tx \in Transactions
  <2> QED
    BY <1>1, StakeType, StakePassFields
<1>3. /\ loop[0] \in Same
      /\ \A n \in 1 .. L : loop[n] = ApplyStakeMutations(loop[n - 1], b.txs[n], b.slot)
  BY StakeLoopSteps
<1> HIDE DEF loop, L, Same
<1>4. \A n \in 1 .. L : loop[n - 1] \in Same => loop[n] \in Same
  BY <1>1, <1>2, <1>3
<1>5. \A n \in 0 .. L : loop[n] \in Same
  BY <1>1, <1>3, <1>4, LoopType
<1>6. loop[L] \in Same
  BY <1>1, <1>5
<1> QED
  BY <1>6 DEF StakePass, loop, L, Same

-----------------------------------------------------------------------------
(* What the domain pass stores *)

\* No two commits have the same hash.
OneEach(C) == \A c, e \in C : c.hash = e.hash => c = e

\* T has the purge index of S, more spent transactions, and one commit for
\* every hash of S.
Stores(T, S) ==
  /\ {"purge", "spent", "commits"} \subseteq DOMAIN T
  /\ T.purge = S.purge /\ S.spent \subseteq T.spent /\ OneEach(T.commits)
  /\ \A c \in S.commits : \E e \in T.commits : e.hash = c.hash

\* The index and commit operations keep what is stored.
LEMMA FieldsStore ==
  ASSUME NEW S, NEW T, Stores(T, S)
  PROVE  /\ \A d, tid, n, recs : Stores(AddDomain(T, d, tid, n, recs), S)
         /\ \A d, k : Stores(SetOwner(T, d, k), S)
         /\ \A d, n : Stores(SetListPrice(T, d, n), S)
         /\ \A tid : Stores(MarkAsSpent(T, tid), S)
         /\ \A h : Stores(ConsumeCommit(T, h), S)
         /\ \A b : Stores([T EXCEPT !.bal = b], S)
         /\ \A rec : Stores(AddCommit(T, rec), S)
<1>1. /\ \A d, tid, n, recs : Stores(AddDomain(T, d, tid, n, recs), S)
      /\ \A d, k : Stores(SetOwner(T, d, k), S)
      /\ \A d, n : Stores(SetListPrice(T, d, n), S)
      /\ \A tid : Stores(MarkAsSpent(T, tid), S)
      /\ \A h : Stores(ConsumeCommit(T, h), S)
      /\ \A b : Stores([T EXCEPT !.bal = b], S)
  BY DEF Stores, AddDomain, SetOwner, SetListPrice, MarkAsSpent, ConsumeCommit
<1>2. ASSUME NEW rec PROVE Stores(AddCommit(T, rec), S)
  <2> DEFINE C == {c \in T.commits : c.hash # rec.hash} \cup {rec}
             A == AddCommit(T, rec)
  <2>1. /\ A.commits = C /\ A.purge = T.purge /\ A.spent = T.spent
        /\ DOMAIN A = DOMAIN T
    BY DEF AddCommit, Stores
  <2>2. OneEach(C)
    BY DEF OneEach, Stores
  <2>3. \A c \in S.commits : \E e \in C : e.hash = c.hash
    BY DEF Stores
  <2> HIDE DEF A, C
  <2>4. Stores(A, S)
    BY <2>1, <2>2, <2>3 DEF Stores
  <2> QED
    BY <2>4 DEF A
<1> QED
  BY <1>1, <1>2

\* A transaction of the domain pass keeps what is stored.
LEMMA DomainStores ==
  ASSUME NEW L, NEW K, NEW S, NEW tx, NEW slt, NEW index, Stores(S, K)
  PROVE  Stores(ApplyDomainMutations(L, S, tx, slt, index), K)
<1>1. Stores(ApplyRegister(S, tx, slt), K)
  BY FieldsStore DEF ApplyRegister
<1>2. Stores(ApplyCommit(S, tx, slt, index), K)
  BY FieldsStore DEF ApplyCommit
<1>3. Stores(ApplyReveal(S, tx, slt), K)
  BY FieldsStore DEF ApplyReveal
<1>4. Stores(ApplyRevoke(L, S, tx, slt), K)
  BY FieldsStore DEF ApplyRevoke
<1>5. \A r : Stores(ApplyUpdateOrRenew(L, S, tx, r), K)
  BY FieldsStore DEF ApplyUpdateOrRenew
<1>6. /\ Stores(ApplyUpdate(L, S, tx, slt), K)
      /\ Stores(ApplyRenew(L, S, tx, slt), K)
  BY <1>5 DEF ApplyUpdate, ApplyRenew
<1>7. /\ Stores(ApplyList(S, tx, slt), K)
      /\ Stores(ApplyDelist(S, tx, slt), K)
      /\ Stores(ApplyTransferDomain(S, tx, slt), K)
  BY FieldsStore DEF ApplyList, ApplyDelist, ApplyTransferDomain
<1>8. Stores(ApplyBuyDomain(S, tx, slt), K)
  BY FieldsStore DEF ApplyBuyDomain
<1> QED
  BY <1>1, <1>2, <1>3, <1>4, <1>6, <1>7, <1>8 DEF ApplyDomainMutations

\* Every name has in T the transaction it has in S, or is defined by tx.
Redefines(T, S, tx) ==
  /\ "dom" \in DOMAIN T /\ DOMAIN T.dom = Domains
  /\ \A d \in Domains :
       /\ {"tid", "expiry"} \subseteq DOMAIN T.dom[d]
       /\ \/ T.dom[d].tid = S.dom[d].tid /\ T.dom[d].expiry = S.dom[d].expiry
          \/ tx.domain = d /\ tx.tid = T.dom[d].tid

\* The index operations redefine no name but the one of tx.
LEMMA FieldsRedefine ==
  ASSUME NEW S, NEW T, NEW tx, Redefines(T, S, tx)
  PROVE  /\ \A n, recs : Redefines(AddDomain(T, tx.domain, tx.tid, n, recs), S, tx)
         /\ \A d, k : Redefines(SetOwner(T, d, k), S, tx)
         /\ \A d, n : Redefines(SetListPrice(T, d, n), S, tx)
         /\ \A tid : Redefines(MarkAsSpent(T, tid), S, tx)
         /\ \A h : Redefines(ConsumeCommit(T, h), S, tx)
         /\ \A b : Redefines([T EXCEPT !.bal = b], S, tx)
         /\ \A rec : Redefines(AddCommit(T, rec), S, tx)
<1>1. /\ \A tid : Redefines(MarkAsSpent(T, tid), S, tx)
      /\ \A h : Redefines(ConsumeCommit(T, h), S, tx)
      /\ \A b : Redefines([T EXCEPT !.bal = b], S, tx)
      /\ \A rec : Redefines(AddCommit(T, rec), S, tx)
  BY DEF Redefines, MarkAsSpent, ConsumeCommit, AddCommit
<1>2. ASSUME NEW n, NEW recs
      PROVE  Redefines(AddDomain(T, tx.domain, tx.tid, n, recs), S, tx)
  <2> DEFINE e == [T.dom[tx.domain] EXCEPT !.tid = tx.tid, !.expiry = n, !.records = recs]
             A == AddDomain(T, tx.domain, tx.tid, n, recs)
  <2>1. DOMAIN A = DOMAIN T /\ A.dom = [T.dom EXCEPT ![tx.domain] = e]
    BY DEF AddDomain, Redefines
  <2>2. tx.domain \in Domains => {"tid", "expiry"} \subseteq DOMAIN e /\ e.tid = tx.tid
    BY DEF Redefines
  <2> HIDE DEF e, A
  <2>3. Redefines(A, S, tx)
    BY <2>1, <2>2 DEF Redefines
  <2> QED
    BY <2>3 DEF A
<1>3. ASSUME NEW d0, NEW k PROVE Redefines(SetOwner(T, d0, k), S, tx)
  <2> DEFINE e == [T.dom[d0] EXCEPT !.owner = k]
             A == SetOwner(T, d0, k)
  <2>1. DOMAIN A = DOMAIN T /\ A.dom = [T.dom EXCEPT ![d0] = e]
    BY DEF SetOwner, Redefines
  <2>2. d0 \in Domains => /\ {"tid", "expiry"} \subseteq DOMAIN e /\ e.tid = T.dom[d0].tid
                          /\ e.expiry = T.dom[d0].expiry
    BY DEF Redefines
  <2> HIDE DEF e, A
  <2>3. Redefines(A, S, tx)
    BY <2>1, <2>2 DEF Redefines
  <2> QED
    BY <2>3 DEF A
<1>4. ASSUME NEW d0, NEW n PROVE Redefines(SetListPrice(T, d0, n), S, tx)
  <2> DEFINE e == [T.dom[d0] EXCEPT !.price = n]
             A == SetListPrice(T, d0, n)
  <2>1. DOMAIN A = DOMAIN T /\ A.dom = [T.dom EXCEPT ![d0] = e]
    BY DEF SetListPrice, Redefines
  <2>2. d0 \in Domains => /\ {"tid", "expiry"} \subseteq DOMAIN e /\ e.tid = T.dom[d0].tid
                          /\ e.expiry = T.dom[d0].expiry
    BY DEF Redefines
  <2> HIDE DEF e, A
  <2>3. Redefines(A, S, tx)
    BY <2>1, <2>2 DEF Redefines
  <2> QED
    BY <2>3 DEF A
<1> QED
  BY <1>1, <1>2, <1>3, <1>4

\* A transaction of the domain pass redefines no name but its own.
LEMMA DomainRedefines ==
  ASSUME NEW L, NEW S \in States, NEW tx, NEW slt, NEW index
  PROVE  Redefines(ApplyDomainMutations(L, S, tx, slt, index), S, tx)
<1>0. Redefines(S, S, tx)
  BY DEF Redefines, States, Entries
<1>1. Redefines(ApplyRegister(S, tx, slt), S, tx)
  BY <1>0, FieldsRedefine DEF ApplyRegister
<1>2. Redefines(ApplyCommit(S, tx, slt, index), S, tx)
  BY <1>0, FieldsRedefine DEF ApplyCommit
<1>3. Redefines(ApplyReveal(S, tx, slt), S, tx)
  BY <1>0, FieldsRedefine DEF ApplyReveal
<1>4. Redefines(ApplyRevoke(L, S, tx, slt), S, tx)
  BY <1>0, FieldsRedefine DEF ApplyRevoke
<1>5. \A r : Redefines(ApplyUpdateOrRenew(L, S, tx, r), S, tx)
  BY <1>0, FieldsRedefine DEF ApplyUpdateOrRenew
<1>6. /\ Redefines(ApplyUpdate(L, S, tx, slt), S, tx)
      /\ Redefines(ApplyRenew(L, S, tx, slt), S, tx)
  BY <1>0, <1>5 DEF ApplyUpdate, ApplyRenew
<1>7. /\ Redefines(ApplyList(S, tx, slt), S, tx)
      /\ Redefines(ApplyDelist(S, tx, slt), S, tx)
      /\ Redefines(ApplyTransferDomain(S, tx, slt), S, tx)
  BY <1>0, FieldsRedefine DEF ApplyList, ApplyDelist, ApplyTransferDomain
<1>8. Redefines(ApplyBuyDomain(S, tx, slt), S, tx)
  BY <1>0, FieldsRedefine DEF ApplyBuyDomain
<1> QED
  BY <1>0, <1>1, <1>2, <1>3, <1>4, <1>6, <1>7, <1>8 DEF ApplyDomainMutations

\* T has the balances of S.
SameBal(T, S) == "bal" \in DOMAIN T /\ T.bal = S.bal

\* The index and commit operations leave the balances alone.
LEMMA FieldsLeaveBal ==
  ASSUME NEW S, NEW T, SameBal(T, S)
  PROVE  /\ \A d, tid, n, recs : SameBal(AddDomain(T, d, tid, n, recs), S)
         /\ \A d, k : SameBal(SetOwner(T, d, k), S)
         /\ \A d, n : SameBal(SetListPrice(T, d, n), S)
         /\ \A tid : SameBal(MarkAsSpent(T, tid), S)
         /\ \A h : SameBal(ConsumeCommit(T, h), S)
         /\ \A rec : SameBal(AddCommit(T, rec), S)
BY DEF SameBal, AddDomain, SetOwner, SetListPrice, MarkAsSpent, ConsumeCommit, AddCommit

\* Only a BUY moves coins in the domain pass.
LEMMA DomainLeavesBal ==
  ASSUME NEW L, NEW S \in States, NEW tx, tx.type # "BUY", NEW slt, NEW index
  PROVE  SameBal(ApplyDomainMutations(L, S, tx, slt, index), S)
<1>0. SameBal(S, S)
  BY DEF SameBal, States
<1>1. SameBal(ApplyRegister(S, tx, slt), S)
  BY <1>0, FieldsLeaveBal DEF ApplyRegister
<1>2. SameBal(ApplyCommit(S, tx, slt, index), S)
  BY <1>0, FieldsLeaveBal DEF ApplyCommit
<1>3. SameBal(ApplyReveal(S, tx, slt), S)
  BY <1>0, FieldsLeaveBal DEF ApplyReveal
<1>4. SameBal(ApplyRevoke(L, S, tx, slt), S)
  BY <1>0, FieldsLeaveBal DEF ApplyRevoke
<1>5. \A r : SameBal(ApplyUpdateOrRenew(L, S, tx, r), S)
  BY <1>0, FieldsLeaveBal DEF ApplyUpdateOrRenew
<1>6. /\ SameBal(ApplyUpdate(L, S, tx, slt), S)
      /\ SameBal(ApplyRenew(L, S, tx, slt), S)
  BY <1>0, <1>5 DEF ApplyUpdate, ApplyRenew
<1>7. /\ SameBal(ApplyList(S, tx, slt), S)
      /\ SameBal(ApplyDelist(S, tx, slt), S)
      /\ SameBal(ApplyTransferDomain(S, tx, slt), S)
  BY <1>0, FieldsLeaveBal DEF ApplyList, ApplyDelist, ApplyTransferDomain
<1> QED
  BY <1>0, <1>1, <1>2, <1>3, <1>4, <1>6, <1>7 DEF ApplyDomainMutations

\* Every name has in T the transaction it has in S, or one of txs.
DefinedBy(T, S, txs) ==
  \A d \in Domains :
    \/ T.dom[d].tid = S.dom[d].tid /\ T.dom[d].expiry = S.dom[d].expiry
    \/ \E j \in 1 .. Len(txs) : txs[j].domain = d /\ txs[j].tid = T.dom[d].tid

\* What the domain pass does to the stores, the nonces and the names.
LEMMA DomainPassFacts ==
  ASSUME NEW K \in States, NEW S \in States, NEW b, IsBody(b), OneEach(S.commits)
  PROVE  LET T == DomainPass(K, S, b)
         IN  /\ T \in States /\ Stores(T, S) /\ T.nonce = S.nonce
             /\ DefinedBy(T, S, b.txs)
             /\ (\A j \in 1 .. Len(b.txs) : b.txs[j].type # "BUY") => T.bal = S.bal
<1> DEFINE L == Len(b.txs)
           loop == DomainLoop(K, S, b)
           noBuy == \A j \in 1 .. L : b.txs[j].type # "BUY"
           Good == {T \in States : /\ Stores(T, S) /\ T.nonce = S.nonce
                                   /\ DefinedBy(T, S, b.txs)
                                   /\ noBuy => T.bal = S.bal}
<1>1. /\ L \in Nat /\ b.slot \in Nat /\ b.index \in Nat
      /\ \A j \in 1 .. L : b.txs[j] \in Transactions /\ IsComplete(b.txs[j])
  BY DEF IsBody
<1>2. /\ loop[0] = S
      /\ \A n \in 1 .. L :
           loop[n] = ApplyDomainMutations(K, loop[n - 1], b.txs[n], b.slot, b.index)
  BY DomainLoopSteps
<1>3. S \in Good
  BY DEF Stores, DefinedBy, States
<1>4. ASSUME NEW T \in Good, NEW n \in 1 .. L
      PROVE  ApplyDomainMutations(K, T, b.txs[n], b.slot, b.index) \in Good
  <2> DEFINE tx == b.txs[n]
             A == ApplyDomainMutations(K, T, tx, b.slot, b.index)
  <2>0. tx \in Transactions /\ IsComplete(tx)
    BY <1>1
  <2>1. A \in States
    BY <1>1, <2>0, DomainType
  <2>2. Stores(A, S)
    BY DomainStores
  <2>3. A.nonce = S.nonce
    BY <2>0, DomainLeavesNonce DEF SameNonce
  <2>4. Redefines(A, T, tx)
    BY DomainRedefines
  <2>5. noBuy => A.bal = S.bal
    BY DomainLeavesBal DEF SameBal
  <2> HIDE DEF A
  <2>6. DefinedBy(A, S, b.txs)
    BY <2>4 DEF DefinedBy, Redefines
  <2> QED
    BY <2>1, <2>2, <2>3, <2>5, <2>6 DEF A
<1> HIDE DEF Good, loop, L
<1>5. \A n \in 1 .. L : loop[n - 1] \in Good => loop[n] \in Good
  BY <1>2, <1>4
<1>6. \A n \in 0 .. L : loop[n] \in Good
  BY <1>1, <1>2, <1>3, <1>5, LoopType
<1>7. loop[L] \in Good
  BY <1>1, <1>6
<1> QED
  BY <1>7 DEF DomainPass, Good, loop, L

\* Of the live state a transaction of the domain pass reads the index only.
LEMMA DomainReads ==
  ASSUME NEW K, NEW L, K.dom = L.dom, NEW S, NEW tx, NEW slt, NEW index
  PROVE  ApplyDomainMutations(K, S, tx, slt, index)
           = ApplyDomainMutations(L, S, tx, slt, index)
<1>1. \A tid : HolderOf(K, tid) = HolderOf(L, tid)
  BY DEF HolderOf
<1>2. RedeemsOwnDomain(K, S, tx) <=> RedeemsOwnDomain(L, S, tx)
  BY <1>1 DEF RedeemsOwnDomain, GetTxByID
<1>3. ApplyRevoke(K, S, tx, slt) = ApplyRevoke(L, S, tx, slt)
  BY <1>2 DEF ApplyRevoke
<1>4. \A r : ApplyUpdateOrRenew(K, S, tx, r) = ApplyUpdateOrRenew(L, S, tx, r)
  BY <1>2 DEF ApplyUpdateOrRenew
<1>5. /\ ApplyUpdate(K, S, tx, slt) = ApplyUpdate(L, S, tx, slt)
      /\ ApplyRenew(K, S, tx, slt) = ApplyRenew(L, S, tx, slt)
  BY <1>4 DEF ApplyUpdate, ApplyRenew
<1> QED
  BY <1>3, <1>5 DEF ApplyDomainMutations

\* So does the whole pass.
LEMMA DomainPassReads ==
  ASSUME NEW K \in States, NEW L \in States, K.dom = L.dom, NEW S \in States,
         NEW b, IsBody(b)
  PROVE  DomainPass(K, S, b) = DomainPass(L, S, b)
<1> DEFINE m == Len(b.txs)
           x == DomainLoop(K, S, b)
           y == DomainLoop(L, S, b)
           T == {n \in Nat : n <= m => x[n] = y[n]}
<1>1. m \in Nat
  BY DEF IsBody
<1>2. /\ x[0] = S /\ y[0] = S
      /\ \A n \in 1 .. m :
           /\ x[n] = ApplyDomainMutations(K, x[n - 1], b.txs[n], b.slot, b.index)
           /\ y[n] = ApplyDomainMutations(L, y[n - 1], b.txs[n], b.slot, b.index)
  BY DomainLoopSteps
<1> HIDE DEF x, y, m
<1>3. 0 \in T
  BY <1>2
<1>4. ASSUME NEW n \in Nat, n \in T PROVE n + 1 \in T
  <2>1. SUFFICES ASSUME n + 1 <= m PROVE x[n + 1] = y[n + 1]
    OBVIOUS
  <2>2. n + 1 \in 1 .. m /\ (n + 1) - 1 = n /\ x[n] = y[n]
    BY <1>1, <1>4, <2>1
  <2> QED
    BY <1>2, <2>2, DomainReads
<1> HIDE DEF T
<1>5. Nat \subseteq T
  BY <1>3, <1>4, SetInduction
<1>6. x[m] = y[m]
  BY <1>1, <1>5 DEF T
<1> QED
  BY <1>6 DEF DomainPass, x, y, m

-----------------------------------------------------------------------------
(* A whole block *)

\* b and c have the parts that the passes read in common.
SameBody(b, c) ==
  b.txs = c.txs /\ b.slot = c.slot /\ b.index = c.index /\ b.leader = c.leader

\* The passes read the body of a block and not its digest.
LEMMA PassesReadBody ==
  ASSUME NEW b, NEW c, SameBody(b, c)
  PROVE  /\ \A S : LedgerPass(S, b) = LedgerPass(S, c)
         /\ \A K, S : DomainPass(K, S, b) = DomainPass(K, S, c)
         /\ \A S : StakePass(S, b) = StakePass(S, c)
         /\ \A L : Opened(L, b) = Opened(L, c)
         /\ \A L : Staged(L, b) = Staged(L, c)
<1> DEFINE Dom(K, S, txs, slt, index) ==
             CHOOSE out : out =
               [n \in 0 .. Len(txs) |->
                  IF n = 0 THEN S
                  ELSE ApplyDomainMutations(K, out[n - 1], txs[n], slt, index)]
           Stk(S, txs, slt) ==
             CHOOSE out : out =
               [n \in 0 .. Len(txs) |->
                  IF n = 0 THEN S ELSE ApplyStakeMutations(out[n - 1], txs[n], slt)]
<1>1. \A K, S : /\ DomainLoop(K, S, b) = Dom(K, S, b.txs, b.slot, b.index)
                /\ DomainLoop(K, S, c) = Dom(K, S, c.txs, c.slot, c.index)
  BY DEF DomainLoop
<1>2. \A S : /\ StakeLoop(S, b) = Stk(S, b.txs, b.slot)
             /\ StakeLoop(S, c) = Stk(S, c.txs, c.slot)
  BY DEF StakeLoop
<1> HIDE DEF Dom, Stk
<1>3. \A S : LedgerPass(S, b) = LedgerPass(S, c)
  BY DEF LedgerPass, SameBody
<1>4. \A K, S : DomainPass(K, S, b) = DomainPass(K, S, c)
  BY <1>1 DEF DomainPass, SameBody
<1>5. \A S : StakePass(S, b) = StakePass(S, c)
  BY <1>2 DEF StakePass, SameBody
<1>6. \A L : Opened(L, b) = Opened(L, c)
  BY DEF Opened, SameBody
<1> QED
  BY <1>3, <1>4, <1>5, <1>6 DEF Staged

\* Opening the clones hides expired commits and sweeps the queue.
LEMMA OpenedFacts ==
  ASSUME NEW L \in States, NEW b, b.slot \in Nat, b.index \in Nat
  PROVE  LET S == Opened(L, b)
         IN  /\ S \in States /\ S.bal = L.bal /\ S.nonce = L.nonce
             /\ S.stake = L.stake /\ S.slashed = L.slashed /\ S.dom = L.dom
             /\ S.spent = L.spent /\ S.purge = L.purge /\ S.commits = L.commits
             /\ S.queue = SweepMature(L.queue, b.slot)
             /\ S.gone = PurgeExpired(L, b.index).gone
<1> DEFINE V == PurgeExpired(L, b.index)
<1>1. /\ V \in States /\ V.bal = L.bal /\ V.nonce = L.nonce /\ V.stake = L.stake
      /\ V.slashed = L.slashed /\ V.dom = L.dom /\ V.spent = L.spent
      /\ V.purge = L.purge /\ V.commits = L.commits /\ V.queue = L.queue
  <2>1. V \in States
    BY CommitType
  <2> QED
    BY <2>1 DEF PurgeExpired, States
<1>2. SweepMature(V.queue, b.slot) \in Seq(PendingUnstakes)
  BY <1>1, SweepType DEF States, Queues
<1>3. Opened(L, b) = [V EXCEPT !.queue = SweepMature(V.queue, b.slot)]
  BY DEF Opened
<1> HIDE DEF V
<1> QED
  BY <1>1, <1>2, <1>3 DEF States, V

\* The state after the passes, before clones are promoted and overlays merged.
LEMMA StagedFacts ==
  ASSUME NEW L \in States, OneEach(L.commits), NEW b, IsBody(b), b.leader \in Keys
  PROVE  LET S == Staged(L, b)
             P == LedgerPass(Opened(L, b), b)
         IN  /\ S \in States /\ Stores(S, L) /\ DefinedBy(S, L, b.txs)
             /\ S.nonce = P.nonce
             /\ S.nonce = LedgerLoop(Opened(L, b), b.txs)[Len(b.txs)].nonce
             /\ (\A j \in 1 .. Len(b.txs) : b.txs[j].type # "BUY") => S.bal = P.bal
<1> DEFINE O == Opened(L, b)
           P == LedgerPass(O, b)
           D == DomainPass(L, P, b)
           S == StakePass(D, b)
<1>1. /\ O \in States /\ O.dom = L.dom /\ O.spent = L.spent /\ O.purge = L.purge
      /\ O.commits = L.commits
  BY OpenedFacts DEF IsBody
<1>2. /\ P \in States /\ P.dom = L.dom /\ P.spent = L.spent /\ P.purge = L.purge
      /\ P.commits = L.commits /\ P.nonce = LedgerLoop(O, b.txs)[Len(b.txs)].nonce
  BY <1>1, LedgerPassType, LedgerPassFields
<1> HIDE DEF O, P
<1>3. /\ D \in States /\ Stores(D, P) /\ D.nonce = P.nonce /\ DefinedBy(D, P, b.txs)
      /\ (\A j \in 1 .. Len(b.txs) : b.txs[j].type # "BUY") => D.bal = P.bal
  BY <1>2, DomainPassFacts
<1> HIDE DEF D
<1>4. /\ S \in States /\ S.nonce = D.nonce /\ S.bal = D.bal /\ S.dom = D.dom
      /\ S.spent = D.spent /\ S.purge = D.purge /\ S.commits = D.commits
  BY <1>3, StakePassType
<1> HIDE DEF S
<1>5. Stores(S, L)
  BY <1>2, <1>3, <1>4 DEF Stores, States
<1>6. DefinedBy(S, L, b.txs)
  BY <1>2, <1>3, <1>4 DEF DefinedBy
<1>7. Staged(L, b) = S
  BY DEF Staged, S, D, P, O
<1> QED
  BY <1>2, <1>3, <1>4, <1>5, <1>6, <1>7 DEF P, O

\* The state after a block is a state, with one commit per hash.
LEMMA ExecutedFacts ==
  ASSUME NEW L \in States, OneEach(L.commits), NEW b, IsBody(b), b.leader \in Keys
  PROVE  LET E == Executed(L, b)
             S == Staged(L, b)
         IN  /\ E \in States /\ OneEach(E.commits)
             /\ E.nonce = S.nonce /\ E.dom = S.dom
             /\ E.purge = L.purge \cup
                  {<<ComputePurgeSlot(S.dom[d].expiry), d, S.dom[d].tid>> :
                     d \in {e \in Readded(L, S) : S.dom[e].expiry > 0}}
<1> DEFINE S == Staged(L, b)
           C == CommitCommits(S)
           E == CommitIndex(L, C)
<1>1. S \in States /\ Stores(S, L)
  BY StagedFacts
<1>2. /\ C \in States /\ C.nonce = S.nonce /\ C.dom = S.dom /\ C.purge = S.purge
      /\ C.commits \subseteq S.commits
  <2> HIDE DEF S
  <2>1. C \in States
    BY <1>1, CommitType
  <2> QED
    BY <1>1, <2>1 DEF CommitCommits, States
<1> HIDE DEF C
<1>3. /\ E \in States /\ E.nonce = C.nonce /\ E.dom = C.dom /\ E.commits = C.commits
      /\ E.purge = C.purge \cup
           {<<ComputePurgeSlot(C.dom[d].expiry), d, C.dom[d].tid>> :
              d \in {e \in Readded(L, C) : C.dom[e].expiry > 0}}
  <2>1. E \in States
    BY <1>2, CommitIndexType
  <2> QED
    BY <1>2, <2>1 DEF CommitIndex, States
<1>4. OneEach(E.commits)
  BY <1>1, <1>2, <1>3 DEF OneEach, Stores
<1>5. C.dom = S.dom /\ C.purge = L.purge
  BY <1>1, <1>2 DEF Stores
<1>6. Executed(L, b) = E
  BY DEF Executed, E, C, S
<1> HIDE DEF S, E
<1>7. E.purge = L.purge \cup
           {<<ComputePurgeSlot(S.dom[d].expiry), d, S.dom[d].tid>> :
              d \in {e \in Readded(L, S) : S.dom[e].expiry > 0}}
  <2>1. Readded(L, C) = Readded(L, S)
    BY <1>5 DEF Readded, Exists
  <2> QED
    BY <1>3, <1>5, <2>1
<1> QED
  BY <1>2, <1>3, <1>4, <1>5, <1>6, <1>7 DEF S

\* What the leader promotes is what a validator makes of the same block: the
\* ledger and stakes are replaced, and merging the overlays into the live index
\* and commit store gives what is staged (node_leader.go:225-234).
LEMMA PromotedIsExecuted ==
  ASSUME NEW L \in States, OneEach(L.commits), NEW b, IsBody(b), b.leader \in Keys
  PROVE  Promoted(L, Opened(L, b), Staged(L, b)) = Executed(L, b)
<1> DEFINE O == Opened(L, b)
           S == Staged(L, b)
           added == S.commits \ O.commits
           dom == [d \in Domains |->
                     IF S.dom[d] # O.dom[d] THEN S.dom[d] ELSE L.dom[d]]
           commits == {c \in L.commits : \A a \in added : a.hash # c.hash} \cup added
           merged == [S EXCEPT !.dom = dom, !.spent = L.spent \cup S.spent,
                               !.purge = L.purge, !.commits = commits]
<1>1. /\ O \in States /\ O.dom = L.dom /\ O.purge = L.purge /\ O.commits = L.commits
  BY OpenedFacts DEF IsBody
<1>2. S \in States /\ Stores(S, L)
  BY StagedFacts
<1> HIDE DEF O, S
<1>3. dom = S.dom
  <2>1. S.dom \in [Domains -> Entries]
    BY <1>2 DEF States
  <2> QED
    BY <1>1, <2>1
<1>4. L.spent \cup S.spent = S.spent /\ L.purge = S.purge
  BY <1>2 DEF Stores
<1>5. commits = S.commits
  <2>1. ASSUME NEW c \in commits PROVE c \in S.commits
    <3>1. CASE c \in added
      BY <3>1
    <3>2. CASE c \notin added
      <4>1. c \in L.commits /\ \A a \in added : a.hash # c.hash
        BY <3>2
      <4>2. PICK e \in S.commits : e.hash = c.hash
        BY <1>2, <4>1 DEF Stores
      <4>3. e \in L.commits
        BY <1>1, <4>1, <4>2
      <4> QED
        BY <4>1, <4>2, <4>3 DEF OneEach
    <3> QED
      BY <3>1, <3>2
  <2>2. ASSUME NEW c \in S.commits PROVE c \in commits
    <3>1. \A a \in added : a # c => a.hash # c.hash
      BY <1>2 DEF Stores, OneEach
    <3> QED
      BY <1>1, <3>1
  <2> QED
    BY <2>1, <2>2
<1>6. merged = S
  <2> HIDE DEF dom, commits
  <2> QED
    BY <1>2, <1>3, <1>4, <1>5 DEF States
<1>7. CommitIndex([O EXCEPT !.purge = L.purge], CommitCommits(S))
        = CommitIndex(L, CommitCommits(S))
  <2>1. [O EXCEPT !.purge = L.purge].dom = L.dom
    BY <1>1 DEF States
  <2> QED
    BY <2>1 DEF CommitIndex, Readded
<1>8. Promoted(L, O, S) = CommitIndex([O EXCEPT !.purge = L.purge], CommitCommits(merged))
  BY DEF Promoted
<1> QED
  BY <1>6, <1>7, <1>8 DEF Executed, O, S

-----------------------------------------------------------------------------
(* The purge index *)

\* The purge index is finite, and no purge is due before a grace period is over.
PurgeOK(L) == IsFiniteSet(L.purge) /\ \A p \in L.purge : p[1] >= GraceSlots

\* The image of a finite set is finite.
LEMMA ImageFinite ==
  ASSUME NEW S, IsFiniteSet(S), NEW T, NEW f \in [S -> T]
  PROVE  IsFiniteSet({f[x] : x \in S})
<1> DEFINE I == {f[x] : x \in S}
<1>1. f \in Surjection(S, I)
  BY DEF Surjection
<1> QED
  BY <1>1, FS_Surjection

\* The names a state knows.
NamesIn(L) == {d \in Domains : L.dom[d].tid # 0}

\* One commit per hash, a finite index, a finite purge index.
Tidy(L) == OneEach(L.commits) /\ PurgeOK(L) /\ IsFiniteSet(NamesIn(L))

\* Merging an index that differs in finitely many names adds finitely many
\* purges, each after a grace period.
LEMMA IndexPurge ==
  ASSUME NEW L \in States, NEW M \in States, PurgeOK(M),
         IsFiniteSet(Readded(L, M))
  PROVE  PurgeOK(CommitIndex(L, M))
<1> DEFINE D == {e \in Readded(L, M) : M.dom[e].expiry > 0}
           entry == [d \in D |-> <<ComputePurgeSlot(M.dom[d].expiry), d, M.dom[d].tid>>]
           new == {entry[d] : d \in D}
<1>1. IsFiniteSet(D)
  <2>1. D \in SUBSET Readded(L, M)
    OBVIOUS
  <2> HIDE DEF D
  <2> QED
    BY <2>1, FS_Subset
<1>2. CommitIndex(L, M).purge = M.purge \cup new
  <2>1. {<<ComputePurgeSlot(M.dom[d].expiry), d, M.dom[d].tid>> : d \in D} = new
    OBVIOUS
  <2> HIDE DEF new
  <2> QED
    BY <2>1 DEF CommitIndex, States
<1>3. entry \in [D -> Nat \X Domains \X Nat] /\ \A d \in D : entry[d][1] >= GraceSlots
  <2>1. \A d \in Domains : M.dom[d] \in Entries
    BY DEF States
  <2>2. \A d \in D : d \in Domains /\ M.dom[d].expiry \in Nat /\ M.dom[d].tid \in Nat
    BY <2>1 DEF Entries, Readded
  <2> HIDE DEF D
  <2>3. GraceSlots \in Nat
    BY LimitsAssumption
  <2>4. \A d \in D : /\ ComputePurgeSlot(M.dom[d].expiry) \in Nat
                    /\ ComputePurgeSlot(M.dom[d].expiry) >= GraceSlots
    BY <2>2, <2>3 DEF ComputePurgeSlot
  <2> QED
    BY <2>2, <2>4
<1>4. IsFiniteSet(new) /\ \A p \in new : p[1] >= GraceSlots
  <2> HIDE DEF entry, D
  <2> QED
    BY <1>1, <1>3, ImageFinite
<1> HIDE DEF new
<1>5. IsFiniteSet(M.purge \cup new)
  BY <1>4, FS_Union DEF PurgeOK
<1> QED
  BY <1>2, <1>4, <1>5 DEF PurgeOK

\* A block defines finitely many names.
LEMMA NamesGrow ==
  ASSUME NEW S \in States, NEW T \in States, NEW b, IsBody(b), DefinedBy(T, S, b.txs)
  PROVE  /\ IsFiniteSet(Readded(S, T))
         /\ IsFiniteSet(NamesIn(S)) => IsFiniteSet(NamesIn(T))
<1> DEFINE X == Readded(S, T)
           name == [j \in 1 .. Len(b.txs) |-> b.txs[j].domain]
           names == {name[j] : j \in 1 .. Len(b.txs)}
<1>1. IsFiniteSet(names)
  <2>0. Len(b.txs) \in Nat /\ \A j \in 1 .. Len(b.txs) : b.txs[j] \in Transactions
    BY DEF IsBody
  <2>1. Len(b.txs) \in Nat /\ name \in [1 .. Len(b.txs) -> Domains \cup {None}]
    BY <2>0 DEF Transactions
  <2>2. IsFiniteSet(1 .. Len(b.txs))
    <3>1. \A n \in Nat : IsFiniteSet(1 .. n)
      BY FS_Interval
    <3> QED
      BY <2>0, <3>1, Zenon
  <2> HIDE DEF name
  <2> QED
    BY <2>1, <2>2, ImageFinite
<1>2. X \in SUBSET names
  BY DEF DefinedBy, Readded
<1> HIDE DEF names
<1>3. IsFiniteSet(X)
  <2> HIDE DEF X
  <2> QED
    BY <1>1, <1>2, FS_Subset
<1>4. ASSUME IsFiniteSet(NamesIn(S)) PROVE IsFiniteSet(NamesIn(T))
  <2>1. NamesIn(T) \in SUBSET (NamesIn(S) \cup X)
    BY DEF NamesIn, Readded, Exists
  <2> HIDE DEF X
  <2>2. IsFiniteSet(NamesIn(S) \cup X)
    BY <1>3, <1>4, FS_Union
  <2> QED
    BY <2>1, <2>2, FS_Subset
<1> QED
  BY <1>3, <1>4

\* A block adds finitely many purges, each after a grace period.
LEMMA ExecutedPurge ==
  ASSUME NEW L \in States, OneEach(L.commits), NEW b, IsBody(b), b.leader \in Keys,
         PurgeOK(L)
  PROVE  PurgeOK(Executed(L, b))
<1> DEFINE S == Staged(L, b)
           C == CommitCommits(S)
<1>1. S \in States /\ DefinedBy(S, L, b.txs) /\ S.purge = L.purge
  BY StagedFacts DEF Stores
<1> HIDE DEF S
<1>2. C \in States /\ C.dom = S.dom /\ C.purge = L.purge
  <2>1. C \in States
    BY <1>1, CommitType
  <2> QED
    BY <1>1, <2>1 DEF CommitCommits, States
<1>3. DefinedBy(C, L, b.txs)
  BY <1>1, <1>2 DEF DefinedBy
<1> HIDE DEF C
<1>4. IsFiniteSet(Readded(L, C))
  BY <1>2, <1>3, NamesGrow
<1>5. PurgeOK(C)
  BY <1>2 DEF PurgeOK
<1>6. PurgeOK(CommitIndex(L, C))
  BY <1>2, <1>4, <1>5, IndexPurge
<1> QED
  BY <1>6 DEF Executed, C, S

\* A block leaves a tidy state.
LEMMA ExecutedTidy ==
  ASSUME NEW L \in States, Tidy(L), NEW b, IsBody(b), b.leader \in Keys
  PROVE  Executed(L, b) \in States /\ Tidy(Executed(L, b))
<1> DEFINE E == Executed(L, b)
           S == Staged(L, b)
<1>1. OneEach(L.commits) /\ PurgeOK(L) /\ IsFiniteSet(NamesIn(L))
  BY DEF Tidy
<1>2. E \in States /\ OneEach(E.commits) /\ E.dom = S.dom
  BY <1>1, ExecutedFacts
<1>3. S \in States /\ DefinedBy(S, L, b.txs)
  BY <1>1, StagedFacts
<1>4. PurgeOK(E)
  BY <1>1, ExecutedPurge
<1> HIDE DEF E, S
<1>5. IsFiniteSet(NamesIn(S))
  BY <1>1, <1>3, NamesGrow
<1>6. NamesIn(E) = NamesIn(S)
  BY <1>2 DEF NamesIn
<1> QED
  BY <1>2, <1>4, <1>5, <1>6 DEF Tidy, E

\* So do the leader's passes, whatever state they start on.
LEMMA PassesTidy ==
  ASSUME NEW O \in States, OneEach(O.commits), IsFiniteSet(NamesIn(O)),
         NEW b, IsBody(b), b.leader \in Keys
  PROVE  LET S == StakePass(DomainPass(O, LedgerPass(O, b), b), b)
         IN  S \in States /\ OneEach(S.commits) /\ IsFiniteSet(NamesIn(S))
<1> DEFINE P == LedgerPass(O, b)
           D == DomainPass(O, P, b)
           S == StakePass(D, b)
<1>1. P \in States /\ P.dom = O.dom /\ P.commits = O.commits
  BY LedgerPassType, LedgerPassFields
<1> HIDE DEF P
<1>2. D \in States /\ Stores(D, P) /\ DefinedBy(D, P, b.txs)
  BY <1>1, DomainPassFacts
<1> HIDE DEF D
<1>3. S \in States /\ S.dom = D.dom /\ S.commits = D.commits
  BY <1>2, StakePassType
<1> HIDE DEF S
<1>4. NamesIn(P) = NamesIn(O) /\ NamesIn(S) = NamesIn(D)
  BY <1>1, <1>3 DEF NamesIn
<1>5. IsFiniteSet(NamesIn(D))
  BY <1>1, <1>2, <1>4, NamesGrow
<1> QED
  BY <1>2, <1>3, <1>4, <1>5 DEF Stores, S, D, P

\* Promotion merges what the leader computed into whatever is live by now, and
\* leaves a tidy state.
LEMMA PromotedTidy ==
  ASSUME NEW L \in States, Tidy(L), NEW base \in States, IsFiniteSet(NamesIn(base)),
         NEW S \in States, OneEach(S.commits), IsFiniteSet(NamesIn(S))
  PROVE  Promoted(L, base, S) \in States /\ Tidy(Promoted(L, base, S))
<1> DEFINE added == S.commits \ base.commits
           dom == [d \in Domains |->
                     IF S.dom[d] # base.dom[d] THEN S.dom[d] ELSE L.dom[d]]
           commits == {c \in L.commits : \A a \in added : a.hash # c.hash} \cup added
           merged == [S EXCEPT !.dom = dom, !.spent = L.spent \cup S.spent,
                               !.purge = L.purge, !.commits = commits]
           C == CommitCommits(merged)
           B == [base EXCEPT !.purge = L.purge]
           E == CommitIndex(B, C)
<1>1. OneEach(L.commits) /\ PurgeOK(L) /\ IsFiniteSet(NamesIn(L))
  BY DEF Tidy
<1>2. B \in States /\ B.dom = base.dom
  BY DEF States
<1>3. dom \in [Domains -> Entries]
  BY DEF States
<1>4. OneEach(commits)
  <2>1. OneEach(added)
    BY DEF OneEach
  <2> QED
    BY <1>1, <2>1 DEF OneEach
<1>5. /\ merged \in States /\ merged.dom = dom /\ merged.commits = commits
      /\ merged.purge = L.purge
  <2>1. commits \subseteq L.commits \cup S.commits
    OBVIOUS
  <2> HIDE DEF dom, commits
  <2> QED
    BY <1>3, <2>1 DEF States
<1>6. NamesIn(merged) \in SUBSET (NamesIn(S) \cup NamesIn(L))
  <2> HIDE DEF merged
  <2> QED
    BY <1>5 DEF NamesIn
<1> HIDE DEF merged, dom, commits, B
<1>7. /\ C \in States /\ C.dom = merged.dom /\ C.purge = L.purge
      /\ C.commits \subseteq commits
  <2>1. C \in States
    BY <1>5, CommitType
  <2> QED
    BY <1>5, <2>1 DEF CommitCommits, States
<1>8. NamesIn(C) = NamesIn(merged)
  BY <1>7 DEF NamesIn
<1> HIDE DEF C
<1>9. IsFiniteSet(NamesIn(C))
  <2>1. IsFiniteSet(NamesIn(S) \cup NamesIn(L))
    BY <1>1, FS_Union
  <2> QED
    BY <1>6, <1>8, <2>1, FS_Subset
<1>10. IsFiniteSet(Readded(B, C))
  <2>1. Readded(B, C) \in SUBSET NamesIn(C)
    BY DEF NamesIn, Readded, Exists
  <2> QED
    BY <1>9, <2>1, FS_Subset
<1>11. PurgeOK(E)
  <2>1. PurgeOK(C)
    BY <1>1, <1>7 DEF PurgeOK
  <2> QED
    BY <1>2, <1>7, <1>10, <2>1, IndexPurge
<1>12. E \in States /\ E.dom = C.dom /\ E.commits = C.commits
  <2>1. E \in States
    BY <1>2, <1>7, CommitIndexType
  <2> QED
    BY <1>7, <2>1 DEF CommitIndex, States
<1> HIDE DEF E
<1>13. NamesIn(E) = NamesIn(C) /\ OneEach(E.commits)
  BY <1>4, <1>7, <1>12 DEF NamesIn, OneEach
<1>14. Promoted(L, base, S) = E
  BY DEF Promoted, E, C, merged, dom, commits, B
<1> QED
  BY <1>9, <1>11, <1>12, <1>13, <1>14 DEF Tidy

-----------------------------------------------------------------------------
(* Orders, selections and auto-revocations *)

CompleteTxs == {tx \in Transactions : IsComplete(tx)}

\* An order of a finite set is a sequence that holds every element once.
LEMMA OrderFacts ==
  ASSUME NEW S, IsFiniteSet(S), NEW s \in Orders(S)
  PROVE  /\ s \in Seq(S) /\ Len(s) = Cardinality(S) /\ Len(s) \in Nat
         /\ \A x \in S : \E j \in 1 .. Len(s) : s[j] = x
         /\ \A i, j \in 1 .. Len(s) : s[i] = s[j] => i = j
<1> DEFINE n == Cardinality(S)
<1>1. n \in Nat
  BY FS_CardinalityType
<1>2. /\ s \in [1 .. n -> S]
      /\ \A x \in S : \E j \in 1 .. n : s[j] = x
      /\ \A i, j \in 1 .. n : s[i] = s[j] => i = j
  BY DEF Orders, Bijection, Injection, Surjection, IsInjective
<1> HIDE DEF n
<1>3. s \in Seq(S) /\ Len(s) = n
  BY <1>1, <1>2
<1> QED
  BY <1>1, <1>2, <1>3 DEF n

\* The revocations of a slot are complete transactions without an owner.
LEMMA RevocationFacts ==
  ASSUME NEW L \in States, PurgeOK(L), NEW s, NEW txs,
         NEW revs \in GenerateAutoRevocations(L, s, txs)
  PROVE  /\ revs \in Seq(CompleteTxs)
         /\ \A j \in 1 .. Len(revs) :
              revs[j].owner = None /\ \E p \in L.purge : revs[j].tid = p[3]
<1> DEFINE due == {p \in GetPurgeableDomains(L, s) :
                     \A j \in DOMAIN txs :
                       ~(txs[j].type = "RENEW" /\ txs[j].domain = p[2])}
           made == [p \in due |-> AutoRevocation(p)]
           R == {made[p] : p \in due}
<1>1. due \subseteq L.purge /\ L.purge \subseteq Nat \X Domains \X Nat
  BY DEF GetPurgeableDomains, States
<1>2. IsFiniteSet(due)
  BY <1>1, FS_Subset DEF PurgeOK
<1>3. \A p \in due : /\ AutoRevocation(p) \in CompleteTxs
                     /\ AutoRevocation(p).owner = None
                     /\ AutoRevocation(p).tid = p[3]
  <2>1. TAKE p \in due
  <2>2. /\ p[1] \in Nat /\ p[2] \in Domains /\ p[3] \in Nat
        /\ p[1] - GraceSlots \in Nat
    <3>1. p \in L.purge
      BY <1>1, <2>1
    <3>2. p[1] \in Nat /\ p[2] \in Domains /\ p[3] \in Nat
      BY <1>1, <3>1
    <3>3. p[1] >= GraceSlots
      BY <3>1 DEF PurgeOK
    <3> QED
      BY <3>2, <3>3, LimitsAssumption
  <2> HIDE DEF due
  <2>3. 0 \in U64
    BY LimitsAssumption DEF U64
  <2>4. AutoRevocation(p) =
          [tid |-> p[3], type |-> "REVOKE", signer |-> None, owner |-> None,
           fee |-> 0, nonce |-> 0, domain |-> p[2], records |-> None,
           expiry |-> p[1] - GraceSlots, redeems |-> p[3], price |-> 0,
           recipient |-> None, hash |-> NoHash, salt |-> None, amount |-> 0,
           evidence |-> NoEvidence]
    <3> DEFINE B == BlankTx(p[3], "REVOKE", None, 0, 0)
               B1 == [B EXCEPT !.domain = p[2]]
               B2 == [B1 EXCEPT !.expiry = p[1] - GraceSlots]
               B3 == [B2 EXCEPT !.redeems = p[3]]
    <3>1. AutoRevocation(p) = B3
      BY DEF AutoRevocation
    <3>2. B = [tid |-> p[3], type |-> "REVOKE", signer |-> None, owner |-> None,
               fee |-> 0, nonce |-> 0, domain |-> None, records |-> None,
               expiry |-> 0, redeems |-> 0, price |-> 0,
               recipient |-> None, hash |-> NoHash, salt |-> None, amount |-> 0,
               evidence |-> NoEvidence]
      BY DEF BlankTx
    <3> HIDE DEF B
    <3> QED
      BY ZenonT(30), <3>1, <3>2
  <2> QED
    BY <2>2, <2>3, <2>4 DEF CompleteTxs, Transactions, TxTypes, IsComplete
<1>4. revs \in Orders(R)
  <2>1. {AutoRevocation(p) : p \in due} = R
    OBVIOUS
  <2> QED
    BY <2>1 DEF GenerateAutoRevocations
<1> HIDE DEF due
<1>5. made \in [due -> CompleteTxs]
  BY <1>3
<1>6. IsFiniteSet(R)
  <2> HIDE DEF made
  <2> QED
    BY <1>2, <1>5, ImageFinite
<1>7. \A r \in R : /\ r \in CompleteTxs /\ r.owner = None
                   /\ \E p \in L.purge : r.tid = p[3]
  BY <1>1, <1>3
<1> HIDE DEF R
<1>8. revs \in Seq(R) /\ Len(revs) \in Nat
  BY <1>4, <1>6, OrderFacts
<1>9. revs \in Seq(CompleteTxs)
  BY <1>7, <1>8
<1> QED
  BY <1>7, <1>8, <1>9

\* ChooseTxFromPool takes pool transactions, each once.
LEMMA SelectionFacts ==
  ASSUME NEW P, IsFiniteSet(P), NEW chosen \in Selections(P)
  PROVE  /\ chosen \in Seq(P) /\ Len(chosen) \in Nat
         /\ \A i, j \in 1 .. Len(chosen) : chosen[i] = chosen[j] => i = j
<1>1. PICK T \in SUBSET P : chosen \in Orders(T)
  BY DEF Selections
<1>2. IsFiniteSet(T)
  BY FS_Subset
<1>3. /\ chosen \in Seq(T) /\ Len(chosen) \in Nat
      /\ \A i, j \in 1 .. Len(chosen) : chosen[i] = chosen[j] => i = j
  BY <1>1, <1>2, OrderFacts
<1> QED
  BY <1>3
-----------------------------------------------------------------------------
(* Replaying a chain *)

\* ReplayLoop starts at genesis and executes one block after the other.
LEMMA ReplaySteps ==
  ASSUME NEW c, Len(c) \in Nat
  PROVE  /\ Len(c) >= 1 => ReplayLoop(c)[1] = GenesisLive
         /\ \A k \in 2 .. Len(c) :
              ReplayLoop(c)[k] = Executed(ReplayLoop(c)[k - 1], c[k])
<1> DEFINE m == Len(c)
           next(k, v) == Executed(v, c[k])
           Eq(n, f) == f = [k \in 1 .. n |->
                              IF k = 1 THEN GenesisLive ELSE next(k, f[k - 1])]
           T == {n \in Nat : \E f : Eq(n, f)}
<1>1. ReplayLoop(c) = CHOOSE f : Eq(m, f)
  BY DEF ReplayLoop
<1> HIDE DEF next
<1>2. 0 \in T
  <2>1. Eq(0, [k \in 1 .. 0 |-> GenesisLive])
    OBVIOUS
  <2> QED
    BY <2>1
<1>3. ASSUME NEW n \in Nat, n \in T PROVE n + 1 \in T
  <2>1. PICK f : Eq(n, f)
    BY <1>3
  <2> DEFINE g == [k \in 1 .. n + 1 |->
                     IF k <= n THEN f[k]
                     ELSE IF k = 1 THEN GenesisLive ELSE next(k, f[k - 1])]
             h == [k \in 1 .. n + 1 |->
                     IF k = 1 THEN GenesisLive ELSE next(k, g[k - 1])]
  <2>2. ASSUME NEW k \in 1 .. n + 1 PROVE g[k] = h[k]
    <3>1. CASE k = 1
      BY <2>1, <3>1
    <3>2. CASE k # 1
      <4>1. k - 1 \in 1 .. n + 1 /\ k - 1 <= n
        BY <3>2
      <4>2. g[k - 1] = f[k - 1]
        BY <4>1
      <4>3. k <= n => k \in 1 .. n
        OBVIOUS
      <4>4. k <= n => f[k] = next(k, f[k - 1])
        BY <2>1, <3>2, <4>3
      <4> QED
        BY <3>2, <4>2, <4>4
    <3> QED
      BY <3>1, <3>2
  <2>3. Eq(n + 1, g)
    <3>1. g = h
      BY <2>2
    <3> QED
      BY <3>1
  <2> HIDE DEF g, Eq
  <2> QED
    BY <2>3
<1>4. m \in T
  <2>1. m \in Nat
    OBVIOUS
  <2> HIDE DEF T, m
  <2> QED
    BY <1>2, <1>3, <2>1, SetInduction
<1>5. Eq(m, ReplayLoop(c))
  BY <1>1, <1>4 DEF T
<1> HIDE DEF m
<1>6. m >= 1 => ReplayLoop(c)[1] = GenesisLive
  BY <1>5 DEF m
<1>7. ASSUME NEW k \in 2 .. m
      PROVE  ReplayLoop(c)[k] = next(k, ReplayLoop(c)[k - 1])
  <2>1. k \in 1 .. m /\ k # 1
    BY DEF m
  <2> QED
    BY <1>5, <2>1
<1> QED
  BY <1>6, <1>7 DEF m, next

\* The states along a chain do not depend on what follows.
LEMMA ReplayPrefix ==
  ASSUME NEW c, NEW d, Len(c) \in Nat, Len(d) \in Nat, Len(c) <= Len(d),
         \A k \in 1 .. Len(c) : c[k] = d[k]
  PROVE  \A k \in 1 .. Len(c) : ReplayLoop(d)[k] = ReplayLoop(c)[k]
<1> DEFINE x == ReplayLoop(c)
           y == ReplayLoop(d)
           T == {k \in Nat : k \in 1 .. Len(c) => y[k] = x[k]}
<1>1. /\ Len(c) >= 1 => x[1] = GenesisLive /\ y[1] = GenesisLive
      /\ \A k \in 2 .. Len(c) : /\ x[k] = Executed(x[k - 1], c[k])
                                /\ y[k] = Executed(y[k - 1], c[k])
  <2>1. \A k \in 2 .. Len(c) : k \in 2 .. Len(d) /\ c[k] = d[k]
    OBVIOUS
  <2> QED
    BY <2>1, ReplaySteps
<1> HIDE DEF x, y
<1>2. 0 \in T
  OBVIOUS
<1>3. ASSUME NEW k \in Nat, k \in T PROVE k + 1 \in T
  <2>1. CASE k = 0
    BY <1>1, <2>1
  <2>2. CASE k # 0 /\ k + 1 <= Len(c)
    <3>1. k \in 1 .. Len(c) /\ k + 1 \in 2 .. Len(c) /\ (k + 1) - 1 = k
      BY <2>2
    <3>2. y[k] = x[k]
      BY <1>3, <3>1
    <3>3. y[k + 1] = x[k + 1]
      BY <1>1, <3>1, <3>2
    <3> QED
      BY <3>3
  <2> QED
    BY <2>1, <2>2
<1> HIDE DEF T
<1>4. Nat \subseteq T
  BY <1>2, <1>3, SetInduction
<1> QED
  BY <1>4 DEF T, x, y

\* Chains of blocks.
Digests == {<<>>} \cup {DigestOf(A, S) : A, S \in States}

Blocks ==
  [index : Nat, slot : Nat, time : Nat, leader : Keys, txs : Seq(CompleteTxs),
   digest : Digests]

Chains == {c \in Seq(Blocks) : Len(c) >= 1}

\* A block on top of a chain.
LEMMA AppendFacts ==
  ASSUME NEW h \in Chains, NEW b \in Blocks
  PROVE  LET c == Append(h, b)
         IN  /\ c \in Chains /\ Len(c) = Len(h) + 1 /\ TipOf(c) = b
             /\ ParentOf(c) = h
             /\ \A i \in 1 .. Len(h) : c[i] = h[i]
             /\ \A i \in 1 .. Len(h) : ReplayLoop(c)[i] = ReplayLoop(h)[i]
             /\ Replay(c) = Executed(Replay(h), b)
<1> DEFINE c == Append(h, b)
<1>1. h \in Seq(Blocks) /\ Len(h) \in Nat /\ Len(h) >= 1
  BY DEF Chains
<1>2. /\ c \in Seq(Blocks) /\ Len(c) = Len(h) + 1 /\ c[Len(c)] = b
      /\ \A i \in 1 .. Len(h) : c[i] = h[i]
  BY <1>1
<1>3. ParentOf(c) = h
  <2>1. SubSeq(c, 1, Len(h)) = h
    BY <1>1, <1>2
  <2> QED
    BY <1>1, <1>2, <2>1 DEF ParentOf
<1> HIDE DEF c
<1>4. \A i \in 1 .. Len(h) : ReplayLoop(c)[i] = ReplayLoop(h)[i]
  <2>1. Len(h) \in Nat /\ Len(c) \in Nat /\ Len(h) <= Len(c)
    BY <1>1, <1>2
  <2>2. \A i \in 1 .. Len(h) : h[i] = c[i]
    BY <1>2
  <2> QED
    BY ONLY <2>1, <2>2, ReplayPrefix
<1>5. ReplayLoop(c)[Len(c)] = Executed(ReplayLoop(c)[Len(h)], b)
  <2>1. Len(c) \in 2 .. Len(c) /\ Len(c) - 1 = Len(h) /\ Len(c) \in Nat
    BY <1>1, <1>2
  <2> QED
    BY <1>2, <2>1, ReplaySteps
<1>6. Replay(c) = Executed(Replay(h), b)
  BY <1>1, <1>4, <1>5 DEF Replay
<1> QED
  BY <1>1, <1>2, <1>3, <1>4, <1>6 DEF Chains, TipOf, c

\* A chain of two or more blocks is its parent and its tip.
LEMMA ParentFacts ==
  ASSUME NEW c \in Chains, Len(c) >= 2
  PROVE  /\ ParentOf(c) \in Chains /\ TipOf(c) \in Blocks
         /\ Append(ParentOf(c), TipOf(c)) = c
<1>1. c \in Seq(Blocks) /\ Len(c) \in Nat
  BY DEF Chains
<1>2. /\ ParentOf(c) \in Seq(Blocks) /\ Len(ParentOf(c)) = Len(c) - 1
      /\ \A i \in 1 .. Len(c) - 1 : ParentOf(c)[i] = c[i]
      /\ c[Len(c)] \in Blocks
  BY <1>1 DEF ParentOf
<1>3. Append(ParentOf(c), c[Len(c)]) = c
  <2> DEFINE d == Append(ParentOf(c), c[Len(c)])
  <2>1. d \in Seq(Blocks) /\ Len(d) = Len(c) /\ \A i \in 1 .. Len(c) : d[i] = c[i]
    BY <1>1, <1>2
  <2> HIDE DEF d
  <2>2. d = c
    BY <1>1, <2>1
  <2> QED
    BY <2>2 DEF d
<1> QED
  BY <1>1, <1>2, <1>3 DEF Chains, TipOf
-----------------------------------------------------------------------------
(* What the gates say about nonces *)

\* The shadow maps start as the state and take one transaction after the other.
LEMMA ShadowSteps ==
  ASSUME NEW V, NEW txs, Len(txs) \in Nat
  PROVE  /\ ShadowLoop(V, txs)[0] = InitShadow(V)
         /\ \A j \in 1 .. Len(txs) :
              ShadowLoop(V, txs)[j] = ShadowAfter(V, ShadowLoop(V, txs)[j - 1], txs[j])
<1> DEFINE m == Len(txs)
           next(j, v) == ShadowAfter(V, v, txs[j])
           Eq(n, f) == f = [j \in 0 .. n |->
                              IF j = 0 THEN InitShadow(V) ELSE next(j, f[j - 1])]
           T == {n \in Nat : \E f : Eq(n, f)}
<1>1. ShadowLoop(V, txs) = CHOOSE f : Eq(m, f)
  BY DEF ShadowLoop
<1> HIDE DEF next
<1>2. 0 \in T
  <2>1. Eq(0, [j \in 0 .. 0 |-> InitShadow(V)])
    OBVIOUS
  <2> QED
    BY <2>1
<1>3. ASSUME NEW n \in Nat, n \in T PROVE n + 1 \in T
  <2>1. PICK f : Eq(n, f)
    BY <1>3
  <2> DEFINE g == [j \in 0 .. n + 1 |->
                     IF j <= n THEN f[j] ELSE next(j, f[j - 1])]
             h == [j \in 0 .. n + 1 |->
                     IF j = 0 THEN InitShadow(V) ELSE next(j, g[j - 1])]
  <2>2. ASSUME NEW j \in 0 .. n + 1 PROVE g[j] = h[j]
    <3>1. CASE j = 0
      BY <2>1, <3>1
    <3>2. CASE j # 0
      <4>1. j - 1 \in 0 .. n + 1 /\ j - 1 <= n
        BY <3>2
      <4>2. g[j - 1] = f[j - 1]
        BY <4>1
      <4>3. j <= n => j \in 0 .. n
        OBVIOUS
      <4>4. j <= n => f[j] = next(j, f[j - 1])
        BY <2>1, <3>2, <4>3
      <4> QED
        BY <3>2, <4>2, <4>4
    <3> QED
      BY <3>1, <3>2
  <2>3. Eq(n + 1, g)
    <3>1. g = h
      BY <2>2
    <3> QED
      BY <3>1
  <2> HIDE DEF g, Eq
  <2> QED
    BY <2>3
<1>4. m \in T
  <2>1. m \in Nat
    OBVIOUS
  <2> HIDE DEF T, m
  <2> QED
    BY <1>2, <1>3, <2>1, SetInduction
<1>5. Eq(m, ShadowLoop(V, txs))
  BY <1>1, <1>4 DEF T
<1> HIDE DEF m
<1>6. ShadowLoop(V, txs)[0] = InitShadow(V)
  BY <1>5 DEF m
<1>7. ASSUME NEW j \in 1 .. m
      PROVE  ShadowLoop(V, txs)[j] = next(j, ShadowLoop(V, txs)[j - 1])
  <2>1. j \in 0 .. m /\ j # 0
    BY DEF m
  <2> QED
    BY <1>5, <2>1
<1> QED
  BY <1>6, <1>7 DEF m, next

\* The nonce of an account after n transactions: how many of them are its own.
Mine(txs, k, n) == {j \in 1 .. n : txs[j].owner = k}

\* The count grows with every transaction of the account.
LEMMA MineFacts ==
  ASSUME NEW txs, NEW k, NEW n \in Nat
  PROVE  /\ IsFiniteSet(Mine(txs, k, n)) /\ Cardinality(Mine(txs, k, n)) \in Nat
         /\ Cardinality(Mine(txs, k, 0)) = 0
         /\ n >= 1 => Cardinality(Mine(txs, k, n))
                        = Cardinality(Mine(txs, k, n - 1))
                            + (IF txs[n].owner = k THEN 1 ELSE 0)
<1>1. \A i \in Nat : IsFiniteSet(Mine(txs, k, i)) /\ Cardinality(Mine(txs, k, i)) \in Nat
  <2>1. TAKE i \in Nat
  <2>2. IsFiniteSet(1 .. i) /\ Mine(txs, k, i) \subseteq 1 .. i
    BY FS_Interval DEF Mine
  <2> QED
    BY <2>2, FS_Subset, FS_CardinalityType
<1>2. Cardinality(Mine(txs, k, 0)) = 0
  <2>1. Mine(txs, k, 0) = {}
    BY DEF Mine
  <2> QED
    BY <2>1, FS_EmptySet
<1>3. ASSUME n >= 1
      PROVE  Cardinality(Mine(txs, k, n)) = Cardinality(Mine(txs, k, n - 1))
                                              + (IF txs[n].owner = k THEN 1 ELSE 0)
  <2>1. CASE txs[n].owner = k
    <3>1. Mine(txs, k, n) = Mine(txs, k, n - 1) \cup {n} /\ n \notin Mine(txs, k, n - 1)
      BY <1>3, <2>1 DEF Mine
    <3>2. n - 1 \in Nat
      BY <1>3
    <3> QED
      BY <1>1, <2>1, <3>1, <3>2, FS_AddElement
  <2>2. CASE txs[n].owner # k
    <3>1. Mine(txs, k, n) = Mine(txs, k, n - 1) /\ n - 1 \in Nat
      BY <1>3, <2>2 DEF Mine
    <3> QED
      BY <1>1, <2>2, <3>1
  <2> QED
    BY <2>1, <2>2
<1> QED
  BY <1>1, <1>2, <1>3

\* The count does not fall.
LEMMA MineGrows ==
  ASSUME NEW txs, NEW k, NEW m \in Nat, NEW n \in Nat, m <= n
  PROVE  Cardinality(Mine(txs, k, m)) <= Cardinality(Mine(txs, k, n))
<1>1. Mine(txs, k, m) \in SUBSET Mine(txs, k, n)
  BY DEF Mine
<1>2. IsFiniteSet(Mine(txs, k, n))
  BY MineFacts
<1> QED
  BY <1>1, <1>2, FS_Subset

\* Some transaction of the account is its last one.
LEMMA MineLast ==
  ASSUME NEW txs, NEW k, NEW n \in Nat, Mine(txs, k, n) # {}
  PROVE  \E j \in Mine(txs, k, n) :
           Cardinality(Mine(txs, k, n)) = Cardinality(Mine(txs, k, j - 1)) + 1
<1> DEFINE T == {m \in Nat :
                   Mine(txs, k, m) # {} =>
                     \E j \in Mine(txs, k, m) :
                       Cardinality(Mine(txs, k, m)) = Cardinality(Mine(txs, k, j - 1)) + 1}
<1>1. 0 \in T
  BY DEF Mine
<1>2. ASSUME NEW m \in Nat, m \in T PROVE m + 1 \in T
  <2>1. Cardinality(Mine(txs, k, m + 1))
          = Cardinality(Mine(txs, k, m)) + (IF txs[m + 1].owner = k THEN 1 ELSE 0)
    <3>1. m + 1 \in Nat /\ m + 1 >= 1 /\ (m + 1) - 1 = m
      OBVIOUS
    <3> QED
      BY <3>1, MineFacts
  <2>2. CASE txs[m + 1].owner = k
    <3>1. m + 1 \in Mine(txs, k, m + 1) /\ (m + 1) - 1 = m
      BY <2>2 DEF Mine
    <3>2. Cardinality(Mine(txs, k, m + 1)) = Cardinality(Mine(txs, k, (m + 1) - 1)) + 1
      BY <2>1, <2>2, <3>1
    <3> QED
      BY <3>1, <3>2
  <2>3. CASE txs[m + 1].owner # k
    <3>1. Mine(txs, k, m + 1) = Mine(txs, k, m)
      BY <2>3 DEF Mine
    <3> QED
      BY <1>2, <3>1
  <2> QED
    BY <2>2, <2>3
<1> HIDE DEF T
<1>3. n \in T
  BY <1>1, <1>2, SetInduction
<1> QED
  BY <1>3 DEF T

\* The ledger pass adds to a nonce the number of transactions of the account.
LEMMA LedgerNonces ==
  ASSUME NEW S \in States, NEW txs \in Seq(Transactions)
  PROVE  \A n \in 0 .. Len(txs) : \A k \in Keys :
           LedgerLoop(S, txs)[n].nonce[k] = S.nonce[k] + Cardinality(Mine(txs, k, n))
<1> DEFINE m == Len(txs)
           loop == LedgerLoop(S, txs)
           T == {n \in Nat : n <= m =>
                   /\ loop[n] \in States
                   /\ \A k \in Keys :
                        loop[n].nonce[k] = S.nonce[k] + Cardinality(Mine(txs, k, n))}
<1>1. m \in Nat /\ \A n \in 1 .. m : txs[n] \in Transactions
  OBVIOUS
<1>2. /\ loop[0] = S
      /\ \A n \in 1 .. m : loop[n] = ApplyLedgerMutations(loop[n - 1], txs[n])
  BY LedgerLoopSteps
<1> HIDE DEF loop, m
<1>3. 0 \in T
  <2>1. \A k \in Keys : S.nonce[k] \in Nat /\ Cardinality(Mine(txs, k, 0)) = 0
    BY MineFacts DEF States
  <2> QED
    BY <1>2, <2>1
<1>4. ASSUME NEW n \in Nat, n \in T PROVE n + 1 \in T
  <2>1. SUFFICES ASSUME n + 1 <= m
                 PROVE  /\ loop[n + 1] \in States
                        /\ \A k \in Keys : loop[n + 1].nonce[k]
                             = S.nonce[k] + Cardinality(Mine(txs, k, n + 1))
    OBVIOUS
  <2> DEFINE tx == txs[n + 1]
  <2>2. /\ loop[n] \in States
        /\ \A k \in Keys : loop[n].nonce[k] = S.nonce[k] + Cardinality(Mine(txs, k, n))
    BY <1>1, <1>4, <2>1
  <2>3. n + 1 \in 1 .. m /\ (n + 1) - 1 = n
    BY <1>1, <2>1
  <2>4. tx \in Transactions /\ loop[n + 1] = ApplyLedgerMutations(loop[n], tx)
    BY <1>1, <1>2, <2>3
  <2> HIDE DEF tx
  <2>5. loop[n + 1] \in States
    BY <2>2, <2>4, LedgerType
  <2>6. \A k \in Keys : loop[n + 1].nonce[k]
                          = loop[n].nonce[k] + (IF tx.owner = k THEN 1 ELSE 0)
    <3>1. TAKE k \in Keys
    <3>2. loop[n].nonce \in [Keys -> Nat]
      BY <2>2 DEF States
    <3>3. CASE tx.owner = None
      <4>1. tx.owner # k /\ loop[n + 1] = loop[n]
        BY <2>4, <3>3, NamesAssumption DEF ApplyLedgerMutations
      <4> QED
        BY <3>2, <4>1
    <3>4. CASE tx.owner # None
      <4>1. loop[n + 1].nonce = [loop[n].nonce EXCEPT ![tx.owner] = @ + 1]
        BY <2>2, <2>4, <3>4 DEF ApplyLedgerMutations, IncrementNonce, States
      <4>2. tx.owner \in Keys
        BY <2>4, <3>4 DEF Transactions
      <4> QED
        BY <3>2, <4>1, <4>2
    <3> QED
      BY <3>3, <3>4
  <2>7. ASSUME NEW k \in Keys
        PROVE  loop[n + 1].nonce[k] = S.nonce[k] + Cardinality(Mine(txs, k, n + 1))
    <3>1. Cardinality(Mine(txs, k, n)) \in Nat /\ S.nonce[k] \in Nat
      BY MineFacts DEF States
    <3>2. Cardinality(Mine(txs, k, n + 1))
            = Cardinality(Mine(txs, k, n)) + (IF tx.owner = k THEN 1 ELSE 0)
      BY <2>3, MineFacts DEF tx
    <3> QED
      BY <2>2, <2>6, <3>1, <3>2
  <2> QED
    BY <2>5, <2>7
<1> HIDE DEF T
<1>5. Nat \subseteq T
  BY <1>3, <1>4, SetInduction
<1> QED
  BY <1>1, <1>5 DEF T, loop, m

\* Transactions that pass the gates one after the other are complete, and each
\* has the nonce its account has by then.
LEMMA Gated ==
  ASSUME NEW V \in States, NEW txs \in Seq(Transactions), NEW ctx,
         ValidateTransactions(V, txs, ctx)
  PROVE  \A j \in 1 .. Len(txs) :
           LET tx == txs[j]
           IN  /\ IsComplete(tx)
               /\ tx.owner # None =>
                    tx.nonce = V.nonce[tx.owner] + Cardinality(Mine(txs, tx.owner, j - 1))
               /\ tx.owner = None => ctx.inBlock
<1> DEFINE m == Len(txs)
           sh == ShadowLoop(V, txs)
           T == {n \in Nat : n <= m =>
                   /\ sh[n] \in Shadows
                   /\ \A k \in Keys :
                        sh[n].nonce[k] = V.nonce[k] + Cardinality(Mine(txs, k, n))}
<1>1. m \in Nat /\ \A n \in 1 .. m : txs[n] \in Transactions
  OBVIOUS
<1>2. /\ sh[0] = InitShadow(V)
      /\ \A j \in 1 .. m : sh[j] = ShadowAfter(V, sh[j - 1], txs[j])
  BY <1>1, ShadowSteps
<1>3. \A j \in 1 .. m : GateTx(V, sh[j - 1], txs[j], ctx)
  BY DEF ValidateTransactions
<1> HIDE DEF sh, m
<1>4. 0 \in T
  <2>1. sh[0] \in Shadows /\ sh[0].nonce = V.nonce
    <3>1. InitShadow(V) \in Shadows
      BY InitShadowType
    <3>2. InitShadow(V).nonce = V.nonce
      BY DEF InitShadow
    <3> QED
      BY <1>2, <3>1, <3>2
  <2>2. \A k \in Keys : V.nonce[k] \in Nat /\ Cardinality(Mine(txs, k, 0)) = 0
    BY MineFacts DEF States
  <2> QED
    BY <2>1, <2>2
<1>5. ASSUME NEW n \in Nat, n \in T PROVE n + 1 \in T
  <2>1. SUFFICES ASSUME n + 1 <= m
                 PROVE  /\ sh[n + 1] \in Shadows
                        /\ \A k \in Keys : sh[n + 1].nonce[k]
                             = V.nonce[k] + Cardinality(Mine(txs, k, n + 1))
    OBVIOUS
  <2> DEFINE tx == txs[n + 1]
  <2>2. /\ sh[n] \in Shadows
        /\ \A k \in Keys : sh[n].nonce[k] = V.nonce[k] + Cardinality(Mine(txs, k, n))
    BY <1>1, <1>5, <2>1
  <2>3. n + 1 \in 1 .. m /\ (n + 1) - 1 = n
    BY <1>1, <2>1
  <2>4. /\ tx \in Transactions /\ sh[n + 1] = ShadowAfter(V, sh[n], tx)
        /\ GateTx(V, sh[n], tx, ctx)
    BY <1>1, <1>2, <1>3, <2>3
  <2> HIDE DEF tx
  <2>5. sh[n + 1] \in Shadows
    BY <2>2, <2>4, ShadowType
  <2>6. \A k \in Keys : sh[n + 1].nonce[k]
                          = sh[n].nonce[k] + (IF tx.owner = k THEN 1 ELSE 0)
    <3>1. TAKE k \in Keys
    <3>2. sh[n].nonce \in [Keys -> Nat]
      BY <2>2 DEF Shadows
    <3>3. CASE tx.owner = None
      <4>1. sh[n + 1].nonce = sh[n].nonce
        BY <2>2, <2>4, <3>3 DEF ShadowAfter, Shadows
      <4>2. tx.owner # k
        BY <3>3, NamesAssumption
      <4> QED
        BY <3>2, <4>1, <4>2
    <3>4. CASE tx.owner # None
      <4>1. sh[n + 1].nonce = [sh[n].nonce EXCEPT ![tx.owner] = @ + 1]
        BY <2>4, <3>4 DEF ShadowAfter
      <4>2. tx.owner \in Keys
        BY <2>4, <3>4 DEF Transactions
      <4> QED
        BY <3>2, <4>1, <4>2
    <3> QED
      BY <3>3, <3>4
  <2>7. ASSUME NEW k \in Keys
        PROVE  sh[n + 1].nonce[k] = V.nonce[k] + Cardinality(Mine(txs, k, n + 1))
    <3>1. Cardinality(Mine(txs, k, n)) \in Nat /\ V.nonce[k] \in Nat
      BY MineFacts DEF States
    <3>2. Cardinality(Mine(txs, k, n + 1))
            = Cardinality(Mine(txs, k, n)) + (IF tx.owner = k THEN 1 ELSE 0)
      BY <2>3, MineFacts DEF tx
    <3> QED
      BY <2>2, <2>6, <3>1, <3>2
  <2> QED
    BY <2>5, <2>7
<1> HIDE DEF T
<1>6. Nat \subseteq T
  BY <1>4, <1>5, SetInduction
<1>7. ASSUME NEW j \in 1 .. m
      PROVE  LET tx == txs[j]
             IN  /\ IsComplete(tx)
                 /\ tx.owner # None =>
                      tx.nonce = V.nonce[tx.owner] + Cardinality(Mine(txs, tx.owner, j - 1))
                 /\ tx.owner = None => ctx.inBlock
  <2> DEFINE tx == txs[j]
  <2>1. j - 1 \in Nat /\ j - 1 <= m
    BY <1>1
  <2>2. /\ sh[j - 1] \in Shadows
        /\ \A k \in Keys : sh[j - 1].nonce[k]
                             = V.nonce[k] + Cardinality(Mine(txs, k, j - 1))
    BY <1>6, <2>1 DEF T
  <2>3. tx \in Transactions /\ GateTx(V, sh[j - 1], tx, ctx)
    BY <1>1, <1>3
  <2> HIDE DEF tx
  <2>4. IsComplete(tx)
    BY <2>2, <2>3, GateIsComplete DEF Shadows
  <2>5. tx.owner # None => /\ tx.owner \in Keys
                           /\ tx.nonce = sh[j - 1].nonce[tx.owner]
    BY <2>3 DEF GateTx, NonceGate, Transactions
  <2>6. tx.owner = None => ctx.inBlock
    BY <2>3 DEF GateTx, AutoRevokeGate
  <2> QED
    BY <2>2, <2>4, <2>5, <2>6 DEF tx
<1> QED
  BY <1>7 DEF m

\* So no two of them compete for a nonce.
LEMMA GatedDistinct ==
  ASSUME NEW V \in States, NEW txs \in Seq(Transactions), NEW ctx,
         ValidateTransactions(V, txs, ctx),
         NEW i \in 1 .. Len(txs), NEW j \in 1 .. Len(txs),
         txs[i].owner = txs[j].owner, txs[i].nonce = txs[j].nonce,
         txs[i].owner # None
  PROVE  i = j
<1>1. ASSUME NEW a \in 1 .. Len(txs), NEW b \in 1 .. Len(txs), a < b,
             txs[a].owner = txs[b].owner, txs[a].owner # None
      PROVE  txs[a].nonce # txs[b].nonce
  <2> DEFINE k == txs[a].owner
             C(n) == Cardinality(Mine(txs, k, n))
  <2>1. a - 1 \in Nat /\ a \in Nat /\ b - 1 \in Nat /\ a <= b - 1 /\ a >= 1
    BY <1>1
  <2>2. txs[a].nonce = V.nonce[k] + C(a - 1) /\ txs[b].nonce = V.nonce[k] + C(b - 1)
    BY <1>1, Gated
  <2>3. txs[a] \in Transactions
    OBVIOUS
  <2>4. k \in Keys /\ V.nonce[k] \in Nat
    BY <1>1, <2>3 DEF Transactions, States
  <2>5. /\ C(a) = C(a - 1) + 1 /\ C(a) \in Nat /\ C(a - 1) \in Nat /\ C(b - 1) \in Nat
        /\ C(a) <= C(b - 1)
    BY <2>1, MineFacts, MineGrows
  <2> HIDE DEF C, k
  <2> QED
    BY SMTT(30), <2>2, <2>4, <2>5
<1> QED
  BY <1>1

\* All of pool P and tx are somebody's and complete, no two compete for a nonce,
\* and tx's account has as many of them as there are nonces from its own on.
Fits(L, P, tx) ==
  LET Q == P \cup {tx}
      mine == {u \in Q : u.owner = tx.owner}
  IN  /\ \A t \in Q : IsComplete(t) /\ t.owner # None
      /\ \A t, u \in Q : t.owner = u.owner /\ t.nonce = u.nonce => t = u
      /\ \E t \in mine : t.nonce = L.nonce[tx.owner] + Cardinality(mine) - 1
      /\ \A t \in mine : /\ L.nonce[tx.owner] <= t.nonce
                         /\ t.nonce <= L.nonce[tx.owner] + Cardinality(mine) - 1

\* That is what the mempool's gates ask for (node_helper.go:107-139).
LEMMA PoolValidFacts ==
  ASSUME NEW L \in States, NEW tip, tip.index \in Nat, NEW s,
         NEW P \in SUBSET Transactions, IsFiniteSet(P), NEW tx \in Transactions,
         PoolValid(L, tip, P, tx, s)
  PROVE  Fits(L, P, tx)
<1> DEFINE Q == P \cup {tx}
           V == PurgeExpired(L, tip.index + 1)
           ctx == [slot |-> s, inBlock |-> FALSE, leader |-> None]
           k == tx.owner
           mine == {u \in Q : u.owner = k}
<1>1. PICK list \in Orders(Q) : ValidateTransactions(V, list, ctx)
  BY DEF PoolValid
<1>2. IsFiniteSet(Q) /\ Q \subseteq Transactions
  BY FS_AddElement
<1>3. /\ list \in Seq(Q) /\ Len(list) \in Nat
      /\ \A x \in Q : \E j \in 1 .. Len(list) : list[j] = x
      /\ \A i, j \in 1 .. Len(list) : list[i] = list[j] => i = j
  <2> HIDE DEF Q
  <2> QED
    BY <1>1, <1>2, OrderFacts
<1>4. list \in Seq(Transactions) /\ \A j \in 1 .. Len(list) : list[j] \in Q
  BY <1>2, <1>3
<1>5. V \in States /\ V.nonce = L.nonce
  <2>0. tip.index + 1 \in Nat
    OBVIOUS
  <2>1. V \in States
    BY <2>0, CommitType
  <2> QED
    BY <2>1 DEF PurgeExpired, States
<1>6. ~ctx.inBlock
  OBVIOUS
<1> HIDE DEF ctx, V
<1>7. \A j \in 1 .. Len(list) :
        /\ IsComplete(list[j]) /\ list[j].owner # None
        /\ list[j].nonce
             = L.nonce[list[j].owner] + Cardinality(Mine(list, list[j].owner, j - 1))
  BY <1>1, <1>4, <1>5, <1>6, Gated
<1>8. \A t \in Q : IsComplete(t) /\ t.owner # None
  BY <1>3, <1>7
<1>9. ASSUME NEW t \in Q, NEW u \in Q, t.owner = u.owner, t.nonce = u.nonce PROVE t = u
  <2>1. PICK i \in 1 .. Len(list) : list[i] = t
    BY <1>3
  <2>2. PICK j \in 1 .. Len(list) : list[j] = u
    BY <1>3
  <2>3. i = j
    BY <1>1, <1>4, <1>5, <1>8, <1>9, <2>1, <2>2, GatedDistinct
  <2> QED
    BY <2>1, <2>2, <2>3
<1>10. Cardinality(Mine(list, k, Len(list))) = Cardinality(mine)
  <2> DEFINE M == Mine(list, k, Len(list))
             f == [j \in M |-> list[j]]
  <2>0. \A j \in M : j \in 1 .. Len(list) /\ list[j].owner = k
    BY DEF Mine
  <2>1. f \in [M -> mine]
    BY <1>4, <2>0
  <2>2. \A i, j \in M : f[i] = f[j] => i = j
    BY <1>3, <2>0
  <2>3. ASSUME NEW x \in mine PROVE \E j \in M : f[j] = x
    <3>1. PICK j \in 1 .. Len(list) : list[j] = x
      BY <1>3
    <3>2. j \in M
      BY <3>1 DEF Mine
    <3> QED
      BY <3>1, <3>2
  <2> HIDE DEF f, mine
  <2>4. f \in Bijection(M, mine)
    BY <2>1, <2>2, <2>3 DEF Bijection, Injection, Surjection, IsInjective
  <2>5. IsFiniteSet(M)
    BY <1>3, MineFacts
  <2> QED
    BY <2>4, <2>5, FS_Bijection DEF ExistsBijection
<1>11. \E t \in mine : t.nonce = L.nonce[k] + Cardinality(mine) - 1
  <2>1. PICK i \in 1 .. Len(list) : list[i] = tx
    BY <1>3
  <2>2. Mine(list, k, Len(list)) # {}
    BY <2>1 DEF Mine
  <2>3. PICK j \in Mine(list, k, Len(list)) :
          Cardinality(Mine(list, k, Len(list))) = Cardinality(Mine(list, k, j - 1)) + 1
    BY <1>3, <2>2, MineLast
  <2>4. j \in 1 .. Len(list) /\ list[j].owner = k
    BY <2>3 DEF Mine
  <2>5. list[j].nonce = L.nonce[k] + Cardinality(Mine(list, k, j - 1))
    BY <1>7, <2>4
  <2>6. L.nonce[k] \in Nat /\ Cardinality(Mine(list, k, j - 1)) \in Nat
    <3>1. k \in Keys
      BY <1>8 DEF Transactions
    <3>2. j - 1 \in Nat
      BY <1>3, <2>4
    <3> QED
      BY <3>1, <3>2, MineFacts DEF States
  <2>7. list[j] \in mine
    BY <1>4, <2>4
  <2>8. list[j].nonce = L.nonce[k] + Cardinality(mine) - 1
    <3> HIDE DEF mine
    <3> QED
      BY <1>10, <2>3, <2>5, <2>6
  <2> QED
    BY <2>7, <2>8
<1>12. ASSUME NEW t \in mine
       PROVE  L.nonce[k] <= t.nonce /\ t.nonce <= L.nonce[k] + Cardinality(mine) - 1
  <2> DEFINE C(i) == Cardinality(Mine(list, k, i))
  <2>1. PICK j \in 1 .. Len(list) : list[j] = t
    BY <1>3
  <2>2. j - 1 \in Nat /\ j \in Nat /\ j >= 1 /\ j <= Len(list) /\ list[j].owner = k
    BY <1>3, <2>1
  <2>3. t.nonce = L.nonce[k] + C(j - 1)
    BY <1>7, <2>1, <2>2
  <2>4. /\ C(j - 1) \in Nat /\ C(j) \in Nat /\ C(Len(list)) \in Nat
        /\ C(j) = C(j - 1) + 1 /\ C(j) <= C(Len(list))
    <3>1. Len(list) \in Nat
      BY <1>3
    <3> HIDE DEF k, Q, mine
    <3>2. C(j - 1) \in Nat /\ C(j) \in Nat /\ C(Len(list)) \in Nat
      BY <2>2, <3>1, MineFacts
    <3>3. C(j) = C(j - 1) + 1
      BY <2>2, MineFacts
    <3>4. C(j) <= C(Len(list))
      BY <2>2, <3>1, MineGrows
    <3> QED
      BY <3>2, <3>3, <3>4
  <2>5. L.nonce[k] \in Nat
    BY <1>8 DEF Transactions, States
  <2>6. C(Len(list)) = Cardinality(mine)
    BY <1>10
  <2> HIDE DEF C, mine
  <2> QED
    BY <2>3, <2>4, <2>5, <2>6
<1> QED
  BY <1>8, <1>9, <1>11, <1>12 DEF Fits

-----------------------------------------------------------------------------
(* The state of a node is what its chain says *)

\* The types of what a node reads and writes.
ClusterType ==
  /\ live \in [Nodes -> States] /\ chain \in [Nodes -> Chains]
  /\ pool \in [Nodes -> SUBSET CompleteTxs]
  /\ \A n \in Nodes : IsFiniteSet(pool[n])
  /\ slot \in [Nodes -> Nat] /\ now \in Nat /\ DOMAIN work = Nodes
  /\ late \in [Nodes -> SUBSET Submitted]

\* State L of a node whose chain is h.
LiveOK(L, h) == OneEach(L.commits) /\ PurgeOK(L) /\ L = Replay(h)

\* What a leader carries from step to step, whatever came in between.
WorkType(n, w) ==
  /\ w.stage \in {"idle", "chosen", "cloned", "sealed"}
  /\ w.stage \in {"chosen", "cloned"} =>
       w.txs \in Seq(CompleteTxs) /\ w.commits \in States /\ OneEach(w.commits.commits)
  /\ w.stage = "cloned" => w.stakes \in States /\ w.parent \in Chains
  /\ w.stage = "sealed" =>
       /\ w.parent \in Chains /\ w.block \in Blocks /\ w.block.leader = n
       /\ w.base \in States /\ IsFiniteSet(NamesIn(w.base))
       /\ w.out \in States /\ OneEach(w.out.commits) /\ IsFiniteSet(NamesIn(w.out))

\* What the leader has copied and computed is still true of its live state.
WorkOK(w, L, h) ==
  /\ w.stage \in {"chosen", "cloned"} =>
       w.commits = PurgeExpired(L, TipOf(h).index + 1)
  /\ w.stage = "cloned" => w.stakes = L /\ w.parent = h
  /\ w.stage = "sealed" =>
       /\ w.parent = h
       /\ w.base = Opened(L, w.block) /\ w.out = Staged(L, w.block)
       /\ w.block.digest = DigestOf(w.out, w.out)

\* A published block has the hashes of what executing it on its parent gives.
Sealed(c) ==
  LET S == Staged(Replay(ParentOf(c)), TipOf(c))
  IN  TipOf(c).digest = DigestOf(S, S)

\* All nodes are tidy; the ones that never took a block in the middle of their
\* leader's work are what their chains say.
NodesTidy == \A n \in Nodes : Tidy(live[n]) /\ WorkType(n, work[n])

NodesOK ==
  \A n \in Nodes \ torn :
    LiveOK(live[n], chain[n]) /\ WorkOK(work[n], live[n], chain[n])

NetOK ==
  \A c \in BlocksOn : /\ c \in Chains /\ Len(c) >= 2
                      /\ TipOf(c).leader \notin torn => Sealed(c)

Replicated == ClusterType /\ NodesTidy /\ NodesOK /\ NetOK

\* Blocks are what the passes expect.
LEMMA BlockBody ==
  ASSUME NEW b \in Blocks
  PROVE  IsBody(b) /\ b.leader \in Keys
<1>1. b.txs \in Seq(CompleteTxs) /\ b.slot \in Nat /\ b.index \in Nat /\ b.leader \in Keys
  BY DEF Blocks
<1>2. b.txs \in Seq(Transactions) /\ \A j \in 1 .. Len(b.txs) : IsComplete(b.txs[j])
  BY <1>1 DEF CompleteTxs
<1> QED
  BY <1>1, <1>2 DEF IsBody

\* Executing a block leads from a state that replays a chain to one that replays
\* the longer chain.
LEMMA BlockExecuted ==
  ASSUME NEW L \in States, NEW h \in Chains, LiveOK(L, h), NEW b \in Blocks
  PROVE  /\ Executed(L, b) \in States
         /\ LiveOK(Executed(L, b), Append(h, b))
         /\ Promoted(L, Opened(L, b), Staged(L, b)) = Executed(L, b)
<1>1. IsBody(b) /\ b.leader \in Keys
  BY BlockBody
<1>2. Executed(L, b) \in States /\ OneEach(Executed(L, b).commits)
  BY <1>1, ExecutedFacts DEF LiveOK
<1>3. PurgeOK(Executed(L, b))
  BY <1>1, ExecutedPurge DEF LiveOK
<1>4. Replay(Append(h, b)) = Executed(L, b)
  BY AppendFacts DEF LiveOK
<1>5. Promoted(L, Opened(L, b), Staged(L, b)) = Executed(L, b)
  BY <1>1, PromotedIsExecuted DEF LiveOK
<1> QED
  BY <1>2, <1>3, <1>4, <1>5 DEF LiveOK

\* Nodes are registries, and registries have keys.
LEMMA NodesAreKeys == Nodes \subseteq Keys
BY ClusterAssumption, NamesAssumption

\* What the leader puts into a block are complete transactions.
LEMMA ChosenComplete ==
  ASSUME NEW L \in States, PurgeOK(L), NEW s, NEW P \in SUBSET CompleteTxs,
         IsFiniteSet(P), NEW chosen \in Selections(P),
         NEW revs \in GenerateAutoRevocations(L, s, chosen)
  PROVE  revs \o chosen \in Seq(CompleteTxs)
<1>1. revs \in Seq(CompleteTxs)
  BY RevocationFacts
<1>2. chosen \in Seq(P)
  BY SelectionFacts
<1>3. chosen \in Seq(CompleteTxs)
  BY <1>2
<1> QED
  BY <1>1, <1>3

\* The leader executes on what a validator would open, although it copied the
\* parts at different times (node_leader.go:96-222).
LEMMA BaseIsOpened ==
  ASSUME Replicated, NEW n \in Nodes \ torn, work[n].stage = "cloned",
         NEW b, b.index = TipOf(chain[n]).index + 1, b.slot = slot[n]
  PROVE  LeaderBase(n) = Opened(live[n], b)
<1> DEFINE L == live[n]
           w == work[n]
           V == PurgeExpired(L, b.index)
           q == SweepMature(L.queue, slot[n])
<1>1. L \in States /\ slot[n] \in Nat /\ TipOf(chain[n]).index \in Nat
  <2>1. chain[n] \in Seq(Blocks) /\ Len(chain[n]) \in Nat /\ Len(chain[n]) >= 1
    BY DEF Replicated, ClusterType, Chains
  <2>2. TipOf(chain[n]) \in Blocks
    BY <2>1 DEF TipOf
  <2> QED
    BY <2>2 DEF Replicated, ClusterType, Blocks
<1>2. w.commits = V /\ w.stakes = L
  BY DEF Replicated, NodesOK, WorkOK
<1>3. V \in States /\ b.index \in Nat
  <2>1. b.index \in Nat
    BY <1>1
  <2> QED
    BY <1>1, <2>1, CommitType
<1>4. q \in Seq(PendingUnstakes)
  BY <1>1, SweepType DEF States, Queues
<1>5. V = [L EXCEPT !.gone = V.gone]
  BY <1>1 DEF PurgeExpired, States
<1>6. LeaderBase(n) = [L EXCEPT !.commits = V.commits, !.gone = V.gone,
                                !.stake = L.stake, !.queue = q, !.slashed = L.slashed]
  BY <1>2 DEF LeaderBase
<1>7. Opened(L, b) = [V EXCEPT !.queue = SweepMature(V.queue, slot[n])]
  BY DEF Opened
<1> HIDE DEF V, q, L
<1>8. V.queue = L.queue /\ V.commits = L.commits
  BY <1>1, <1>5 DEF States
<1>9. Opened(L, b) = [V EXCEPT !.queue = q]
  BY <1>7, <1>8 DEF q
<1>10. [V EXCEPT !.queue = q] = [L EXCEPT !.gone = V.gone, !.queue = q]
  BY <1>5
<1>11. [L EXCEPT !.commits = V.commits, !.gone = V.gone,
                 !.stake = L.stake, !.queue = q, !.slashed = L.slashed]
         = [L EXCEPT !.gone = V.gone, !.queue = q]
  BY <1>1, <1>8 DEF States
<1> QED
  BY <1>6, <1>9, <1>10, <1>11 DEF L

\* What the leader executes on, and what it seals.
LEMMA SealedWork ==
  ASSUME Replicated, NEW n \in Nodes, Seal(n)
  PROVE  LET w == work'[n]
             base == LeaderBase(n)
         IN  /\ DOMAIN work' = Nodes /\ w.stage = "sealed" /\ WorkType(n, w)
             /\ \A m \in Nodes : m # n => work'[m] = work[m]
             /\ w.block.txs = work[n].txs /\ w.parent = work[n].parent /\ w.base = base
             /\ w.block.index = TipOf(work[n].parent).index + 1 /\ w.block.slot = slot[n]
             /\ w.out = StakePass(DomainPass(base, LedgerPass(base, w.block), w.block),
                                  w.block)
             /\ w.block.digest = DigestOf(w.out, w.out)
<1> DEFINE L == live[n]
           base == LeaderBase(n)
           b0 == [index |-> TipOf(work[n].parent).index + 1, slot |-> slot[n],
                  time |-> now, leader |-> n, txs |-> work[n].txs]
           S == StakePass(DomainPass(base, LedgerPass(base, b0), b0), b0)
           b == [index |-> b0.index, slot |-> b0.slot, time |-> b0.time,
                 leader |-> n, txs |-> b0.txs, digest |-> LeaderDigest(base, S)]
           w == [stage |-> "sealed", parent |-> work[n].parent, base |-> base,
                 out |-> S, block |-> b]
<1>1. work[n].stage = "cloned" /\ work' = [work EXCEPT ![n] = w]
  BY DEF Seal
<1>2. /\ DOMAIN work = Nodes /\ n \in Keys /\ slot[n] \in Nat /\ now \in Nat /\ L \in States
      /\ Tidy(L)
  BY NodesAreKeys DEF Replicated, ClusterType, NodesTidy
<1>3. /\ work[n].txs \in Seq(CompleteTxs) /\ work[n].parent \in Chains
      /\ work[n].commits \in States /\ OneEach(work[n].commits.commits)
      /\ work[n].stakes \in States
  BY <1>1 DEF Replicated, NodesTidy, WorkType
<1>4. TipOf(work[n].parent).index \in Nat
  <2>1. work[n].parent \in Seq(Blocks) /\ Len(work[n].parent) \in Nat
        /\ Len(work[n].parent) >= 1
    BY <1>3 DEF Chains
  <2>2. TipOf(work[n].parent) \in Blocks
    BY <2>1 DEF TipOf
  <2> QED
    BY <2>2 DEF Blocks
<1>5. base \in States /\ OneEach(base.commits) /\ IsFiniteSet(NamesIn(base))
  <2> DEFINE q == SweepMature(work[n].stakes.queue, slot[n])
  <2>1. q \in Seq(PendingUnstakes)
    BY <1>2, <1>3, SweepType DEF States, Queues
  <2>2. base = [L EXCEPT !.commits = work[n].commits.commits,
                         !.gone    = work[n].commits.gone,
                         !.stake   = work[n].stakes.stake,
                         !.queue   = q,
                         !.slashed = work[n].stakes.slashed]
    BY DEF LeaderBase
  <2> HIDE DEF q, base
  <2>3. /\ base \in States /\ base.commits = work[n].commits.commits
        /\ base.dom = L.dom
    BY <1>2, <1>3, <2>1, <2>2 DEF States
  <2>4. NamesIn(base) = NamesIn(L)
    BY <2>3 DEF NamesIn
  <2> QED
    BY <1>2, <1>3, <2>3, <2>4 DEF Tidy
<1>6. /\ b.txs = work[n].txs /\ b.leader = n /\ b.time = now
      /\ b.digest = LeaderDigest(base, S) /\ b.slot = slot[n]
      /\ b.index = TipOf(work[n].parent).index + 1 /\ SameBody(b0, b)
  BY DEF SameBody
<1>7. b = [index |-> b.index, slot |-> b.slot, time |-> b.time, leader |-> b.leader,
           txs |-> b.txs, digest |-> b.digest]
  OBVIOUS
<1>8. work'[n] = w /\ DOMAIN work' = Nodes /\ \A m \in Nodes : m # n => work'[m] = work[m]
  BY <1>1, <1>2
<1>9. /\ w.stage = "sealed" /\ w.parent = work[n].parent /\ w.base = base /\ w.out = S
      /\ w.block = b
  OBVIOUS
<1>10. S = StakePass(DomainPass(base, LedgerPass(base, b), b), b)
  <2> HIDE DEF b0, b, base
  <2> QED
    BY <1>6, PassesReadBody DEF S
<1> HIDE DEF w, b, b0, base, S
<1>11. IsBody(b) /\ b.leader \in Keys
  <2>1. b.txs \in Seq(Transactions) /\ \A j \in 1 .. Len(b.txs) : IsComplete(b.txs[j])
    BY <1>3, <1>6 DEF CompleteTxs
  <2> QED
    BY <1>2, <1>4, <1>6, <2>1 DEF IsBody
<1>12. S \in States /\ OneEach(S.commits) /\ IsFiniteSet(NamesIn(S))
  BY <1>5, <1>10, <1>11, PassesTidy
<1>13. b.digest = DigestOf(S, S) /\ b.digest \in Digests
  BY <1>6, <1>12 DEF LeaderDigest, Digests
<1>14. b \in Blocks
  <2>1. /\ b.index \in Nat /\ b.slot \in Nat /\ b.time \in Nat
        /\ b.leader \in Keys /\ b.txs \in Seq(CompleteTxs)
    BY <1>2, <1>3, <1>4, <1>6
  <2> QED
    BY <1>7, <1>13, <2>1 DEF Blocks
<1>15. WorkType(n, w)
  BY <1>3, <1>5, <1>6, <1>9, <1>12, <1>14 DEF WorkType
<1> QED
  BY <1>6, <1>8, <1>9, <1>10, <1>13, <1>15 DEF base

\* What an undisturbed leader seals is what a validator would stage.
LEMMA SealedOnTip ==
  ASSUME Replicated, NEW n \in Nodes \ torn, Seal(n)
  PROVE  WorkOK(work'[n], live[n], chain[n])
<1> DEFINE L == live[n]
           w == work'[n]
           b == w.block
           base == LeaderBase(n)
<1>1. /\ w.stage = "sealed" /\ WorkType(n, w) /\ w.parent = work[n].parent
      /\ w.base = base /\ b.index = TipOf(work[n].parent).index + 1 /\ b.slot = slot[n]
      /\ w.out = StakePass(DomainPass(base, LedgerPass(base, b), b), b)
      /\ b.digest = DigestOf(w.out, w.out)
  BY SealedWork
<1>2. work[n].stage = "cloned" /\ work[n].parent = chain[n]
  BY DEF Seal, Replicated, NodesOK, WorkOK
<1> HIDE DEF w, base
<1>3. base = Opened(L, b)
  BY <1>1, <1>2, BaseIsOpened DEF base
<1>4. b \in Blocks /\ L \in States
  BY <1>1 DEF WorkType, Replicated, ClusterType
<1>5. IsBody(b) /\ b.leader \in Keys
  BY <1>4, BlockBody
<1> HIDE DEF L, b
<1>6. Opened(L, b) \in States /\ Opened(L, b).dom = L.dom
  BY <1>4, <1>5, OpenedFacts DEF IsBody
<1>7. LedgerPass(Opened(L, b), b) \in States
  BY <1>5, <1>6, LedgerPassType
<1>8. DomainPass(Opened(L, b), LedgerPass(Opened(L, b), b), b)
        = DomainPass(L, LedgerPass(Opened(L, b), b), b)
  BY <1>4, <1>5, <1>6, <1>7, DomainPassReads
<1>9. w.out = Staged(L, b)
  BY <1>1, <1>3, <1>8 DEF Staged
<1> QED
  BY <1>1, <1>2, <1>3, <1>9 DEF WorkOK, w, b, L

\* How messages change the set of published blocks.
LEMMA PublishedBlocks ==
  /\ net' = net => BlocksOn' = BlocksOn
  /\ \A x : net' = net \cup {[skip |-> x]} => BlocksOn' = BlocksOn
  /\ \A c : net' = net \cup {[block |-> c]} => BlocksOn' = BlocksOn \cup {c}
<1>1. net' = net => BlocksOn' = BlocksOn
  BY DEF BlocksOn
<1>2. ASSUME NEW x, net' = net \cup {[skip |-> x]} PROVE BlocksOn' = BlocksOn
  <2>1. "block" \notin DOMAIN [skip |-> x]
    OBVIOUS
  <2>2. \A m : m \in net' /\ "block" \in DOMAIN m <=> m \in net /\ "block" \in DOMAIN m
    BY <1>2, <2>1
  <2> QED
    BY <2>2 DEF BlocksOn
<1>3. ASSUME NEW c, net' = net \cup {[block |-> c]} PROVE BlocksOn' = BlocksOn \cup {c}
  <2> DEFINE r == [block |-> c]
  <2>1. "block" \in DOMAIN r /\ r.block = c
    OBVIOUS
  <2> HIDE DEF r
  <2>2. net' = net \cup {r}
    BY <1>3 DEF r
  <2>3. \A d : d \in BlocksOn' <=> \E m \in net' : "block" \in DOMAIN m /\ m.block = d
    BY DEF BlocksOn
  <2>4. \A d : d \in BlocksOn <=> \E m \in net : "block" \in DOMAIN m /\ m.block = d
    BY DEF BlocksOn
  <2> QED
    BY <2>1, <2>2, <2>3, <2>4
<1> QED
  BY <1>1, <1>2, <1>3

\* Steps that leave the states, the chains, the leader's work and the blocks
\* alone.
LEMMA QuietSteps ==
  ASSUME Replicated, live' = live, chain' = chain, work' = work, torn' = torn,
         BlocksOn' = BlocksOn, pool' \in [Nodes -> SUBSET CompleteTxs],
         \A n \in Nodes : IsFiniteSet(pool'[n]), slot' \in [Nodes -> Nat], now' \in Nat,
         late' \in [Nodes -> SUBSET Submitted]
  PROVE  Replicated'
<1>1. ClusterType'
  BY DEF Replicated, ClusterType
<1>2. NodesOK' /\ NodesTidy'
  BY DEF Replicated, NodesOK, NodesTidy
<1>3. NetOK'
  BY DEF Replicated, NetOK
<1> QED
  BY <1>1, <1>2, <1>3 DEF Replicated

\* Steps of node n that leave its state and its chain alone and publish nothing.
LEMMA WorkSteps ==
  ASSUME Replicated, NEW n \in Nodes, live' = live, chain' = chain, net' = net,
         now' = now, torn' = torn, late' = late,
         slot' \in [Nodes -> Nat], DOMAIN work' = Nodes,
         \A m \in Nodes : m # n => work'[m] = work[m] /\ pool'[m] = pool[m],
         pool' \in [Nodes -> SUBSET CompleteTxs], IsFiniteSet(pool'[n]),
         WorkType(n, work'[n]),
         n \notin torn => WorkOK(work'[n], live[n], chain[n])
  PROVE  Replicated'
<1>1. ClusterType'
  BY DEF Replicated, ClusterType
<1>2. NodesTidy'
  <2>1. ASSUME NEW m \in Nodes PROVE Tidy(live[m]) /\ WorkType(m, work'[m])
    BY DEF Replicated, NodesTidy
  <2> QED
    BY <2>1 DEF NodesTidy
<1>3. NodesOK'
  <2>1. ASSUME NEW m \in Nodes \ torn
        PROVE  LiveOK(live[m], chain[m]) /\ WorkOK(work'[m], live[m], chain[m])
    BY DEF Replicated, NodesOK
  <2> QED
    BY <2>1 DEF NodesOK
<1>4. NetOK'
  <2>1. BlocksOn' = BlocksOn
    BY PublishedBlocks
  <2> QED
    BY <2>1 DEF Replicated, NetOK
<1> QED
  BY <1>1, <1>2, <1>3, <1>4 DEF Replicated

\* Removing transactions keeps a pool finite and well-typed.
LEMMA WithoutType ==
  ASSUME NEW P \in SUBSET CompleteTxs, IsFiniteSet(P), NEW txs
  PROVE  Without(P, txs) \in SUBSET CompleteTxs /\ IsFiniteSet(Without(P, txs))
<1>1. Without(P, txs) \in SUBSET P
  BY DEF Without
<1> QED
  BY <1>1, FS_Subset

\* So does putting transactions back.
LEMMA PutInType ==
  ASSUME NEW P \in SUBSET CompleteTxs, IsFiniteSet(P), NEW txs \in Seq(CompleteTxs)
  PROVE  PutIn(P, txs) \in SUBSET CompleteTxs /\ IsFiniteSet(PutIn(P, txs))
<1> DEFINE D == {i \in DOMAIN txs : \A k \in DOMAIN txs : k > i => txs[k].tid # txs[i].tid}
           f == [j \in D |-> txs[j]]
           A == {f[j] : j \in D}
<1>1. PutIn(P, txs) = Without(P, txs) \cup A
  BY DEF PutIn
<1>2. D \in SUBSET (1 .. Len(txs)) /\ Len(txs) \in Nat /\ f \in [D -> CompleteTxs]
  OBVIOUS
<1>3. IsFiniteSet(D)
  <2>1. IsFiniteSet(1 .. Len(txs))
    BY <1>2, FS_Interval
  <2> HIDE DEF D
  <2> QED
    BY <1>2, <2>1, FS_Subset
<1>4. A \subseteq CompleteTxs
  BY <1>2
<1>5. IsFiniteSet(A)
  <2> HIDE DEF f, D
  <2> QED
    BY <1>2, <1>3, ImageFinite
<1>6. Without(P, txs) \in SUBSET CompleteTxs /\ IsFiniteSet(Without(P, txs))
  BY WithoutType
<1> HIDE DEF A
<1> QED
  BY <1>1, <1>4, <1>5, <1>6, FS_Union

\* A new transaction in the pool.
LEMMA AddTransactionReplicated ==
  ASSUME Replicated, NEW n \in Nodes, NEW tx \in Submitted, AddTransaction(n, tx)
  PROVE  Replicated'
<1>1. tx \in Transactions
  BY ClusterAssumption
<1>2. /\ live[n] \in States /\ TipOf(chain[n]).index \in Nat
      /\ pool[n] \in SUBSET CompleteTxs /\ IsFiniteSet(pool[n])
  <2>1. chain[n] \in Seq(Blocks) /\ Len(chain[n]) \in Nat /\ Len(chain[n]) >= 1
    BY DEF Replicated, ClusterType, Chains
  <2>2. TipOf(chain[n]) \in Blocks
    BY <2>1 DEF TipOf
  <2> QED
    BY <2>2 DEF Replicated, ClusterType, Blocks
<1>3. IsComplete(tx)
  <2>1. pool[n] \in SUBSET Transactions
    BY <1>2 DEF CompleteTxs
  <2>2. PoolValid(live[n], TipOf(chain[n]), pool[n], tx, now)
    BY DEF AddTransaction
  <2>3. Fits(live[n], pool[n], tx)
    BY <1>1, <1>2, <2>1, <2>2, PoolValidFacts
  <2> QED
    BY <2>3 DEF Fits
<1>4. /\ pool[n] \cup {tx} \in SUBSET CompleteTxs /\ IsFiniteSet(pool[n] \cup {tx})
  BY <1>1, <1>2, <1>3, FS_AddElement DEF CompleteTxs
<1>5. pool' = [pool EXCEPT ![n] = pool[n] \cup {tx}]
  BY DEF AddTransaction
<1>6. /\ pool' \in [Nodes -> SUBSET CompleteTxs]
      /\ \A m \in Nodes : IsFiniteSet(pool'[m])
  BY <1>4, <1>5 DEF Replicated, ClusterType
<1>7. /\ UNCHANGED <<live, chain, slot, work, now, net, torn>>
      /\ late' = [late EXCEPT ![n] = IF work[n] = Idle THEN @ ELSE @ \cup {tx}]
  BY DEF AddTransaction
<1>8. /\ slot' \in [Nodes -> Nat] /\ now' \in Nat /\ BlocksOn' = BlocksOn
      /\ late' \in [Nodes -> SUBSET Submitted]
  BY <1>7, PublishedBlocks DEF Replicated, ClusterType
<1> QED
  BY <1>6, <1>7, <1>8, QuietSteps

\* An accepted block.
LEMMA AcceptReplicated ==
  ASSUME Replicated, NEW n \in Nodes, NEW c \in BlocksOn, AcceptBlock(n, c)
  PROVE  Replicated'
<1> DEFINE b == TipOf(c)
<1>1. c \in Chains /\ Len(c) >= 2
  BY DEF Replicated, NetOK
<1>2. ParentOf(c) = chain[n]
  BY DEF AcceptBlock, Acceptable
<1>3. chain[n] \in Chains /\ b \in Blocks /\ c = Append(chain[n], b)
  BY <1>1, <1>2, ParentFacts
<1>4. /\ live' = [live EXCEPT ![n] = Executed(live[n], b)]
      /\ chain' = [chain EXCEPT ![n] = c]
      /\ pool' = [pool EXCEPT ![n] = Without(pool[n], b.txs)]
      /\ torn' = IF work[n] = Idle THEN torn ELSE torn \cup {n}
      /\ UNCHANGED <<slot, work, now, net, late>>
  BY DEF AcceptBlock
<1> HIDE DEF b
<1>5. live[n] \in States /\ Tidy(live[n])
  BY DEF Replicated, ClusterType, NodesTidy
<1>6. Executed(live[n], b) \in States /\ Tidy(Executed(live[n], b))
  BY <1>3, <1>5, BlockBody, ExecutedTidy
<1>7. Without(pool[n], b.txs) \in SUBSET CompleteTxs /\ IsFiniteSet(Without(pool[n], b.txs))
  BY WithoutType DEF Replicated, ClusterType
<1>8. ClusterType'
  BY <1>1, <1>4, <1>6, <1>7 DEF Replicated, ClusterType
<1>9. /\ \A m \in Nodes : m # n => live'[m] = live[m] /\ chain'[m] = chain[m]
      /\ live'[n] = Executed(live[n], b) /\ chain'[n] = c
  BY <1>4 DEF Replicated, ClusterType
<1>10. NodesTidy'
  <2>1. ASSUME NEW m \in Nodes PROVE Tidy(live'[m]) /\ WorkType(m, work[m])
    BY <1>6, <1>9 DEF Replicated, NodesTidy
  <2> QED
    BY <1>4, <2>1 DEF NodesTidy
<1>11. NodesOK'
  <2>1. ASSUME NEW m \in Nodes \ torn'
        PROVE  LiveOK(live'[m], chain'[m]) /\ WorkOK(work[m], live'[m], chain'[m])
    <3>1. m \in Nodes \ torn
      BY <1>4, <2>1
    <3>2. CASE m = n
      <4>1. work[n] = Idle
        BY <1>4, <2>1, <3>2
      <4>2. LiveOK(live[n], chain[n])
        BY <3>1, <3>2 DEF Replicated, NodesOK
      <4>3. LiveOK(Executed(live[n], b), c)
        BY <1>3, <1>5, <4>2, BlockExecuted
      <4>4. WorkOK(work[n], live'[n], chain'[n])
        BY <4>1 DEF WorkOK, Idle
      <4> QED
        BY <1>9, <3>2, <4>3, <4>4
    <3>3. CASE m # n
      BY <1>9, <3>1, <3>3 DEF Replicated, NodesOK
    <3> QED
      BY <3>2, <3>3
  <2> QED
    BY <1>4, <2>1 DEF NodesOK
<1>12. NetOK'
  <2>1. BlocksOn' = BlocksOn
    BY <1>4, PublishedBlocks
  <2>2. torn \subseteq torn'
    BY <1>4
  <2> QED
    BY <2>1, <2>2 DEF Replicated, NetOK
<1> QED
  BY <1>8, <1>10, <1>11, <1>12 DEF Replicated

\* What Wake takes out of the pool.
LEMMA WakeFacts ==
  ASSUME NEW n, Wake(n)
  PROVE  /\ EnterSlot(n)
         /\ UNCHANGED <<live, chain, now, net, torn, late>>
         /\ \E chosen \in Selections(pool[n]) :
              \E revs \in GenerateAutoRevocations(live[n], slot[n] + 1, chosen) :
                /\ work' = [work EXCEPT ![n] =
                     [stage |-> "chosen", txs |-> revs \o chosen,
                      commits |-> PurgeExpired(live[n], TipOf(chain[n]).index + 1)]]
                /\ pool' = [pool EXCEPT ![n] = Without(pool[n], chosen)]
BY DEF Wake

\* The leader chooses transactions.
LEMMA WakeReplicated ==
  ASSUME Replicated, NEW n \in Nodes, Wake(n)
  PROVE  Replicated'
<1>1. PICK chosen \in Selections(pool[n]) :
        \E revs \in GenerateAutoRevocations(live[n], slot[n] + 1, chosen) :
          /\ work' = [work EXCEPT ![n] =
               [stage |-> "chosen", txs |-> revs \o chosen,
                commits |-> PurgeExpired(live[n], TipOf(chain[n]).index + 1)]]
          /\ pool' = [pool EXCEPT ![n] = Without(pool[n], chosen)]
  BY WakeFacts
<1>2. PICK revs \in GenerateAutoRevocations(live[n], slot[n] + 1, chosen) :
        /\ work' = [work EXCEPT ![n] =
             [stage |-> "chosen", txs |-> revs \o chosen,
              commits |-> PurgeExpired(live[n], TipOf(chain[n]).index + 1)]]
        /\ pool' = [pool EXCEPT ![n] = Without(pool[n], chosen)]
  BY <1>1
<1>3. /\ live[n] \in States /\ PurgeOK(live[n]) /\ pool[n] \in SUBSET CompleteTxs
      /\ IsFiniteSet(pool[n]) /\ DOMAIN work = Nodes /\ slot \in [Nodes -> Nat]
  BY DEF Replicated, ClusterType, NodesTidy, Tidy
<1>4. revs \o chosen \in Seq(CompleteTxs)
  BY <1>3, ChosenComplete
<1>5. /\ DOMAIN work' = Nodes
      /\ work'[n] = [stage |-> "chosen", txs |-> revs \o chosen,
                     commits |-> PurgeExpired(live[n], TipOf(chain[n]).index + 1)]
      /\ \A m \in Nodes : m # n => work'[m] = work[m]
  BY <1>2, <1>3
<1>6. WorkType(n, work'[n]) /\ WorkOK(work'[n], live[n], chain[n])
  <2> DEFINE V == PurgeExpired(live[n], TipOf(chain[n]).index + 1)
  <2>1. TipOf(chain[n]).index + 1 \in Nat
    <3>1. chain[n] \in Seq(Blocks) /\ Len(chain[n]) \in Nat /\ Len(chain[n]) >= 1
      BY DEF Replicated, ClusterType, Chains
    <3>2. TipOf(chain[n]) \in Blocks
      BY <3>1 DEF TipOf
    <3> QED
      BY <3>2 DEF Blocks
  <2>2. V \in States
    BY <1>3, <2>1, CommitType
  <2>3. V.commits = live[n].commits
    BY <1>3 DEF PurgeExpired, States
  <2>4. OneEach(V.commits)
    BY <2>3 DEF Replicated, NodesTidy, Tidy
  <2> HIDE DEF V
  <2>5. /\ work'[n].stage = "chosen" /\ work'[n].txs = revs \o chosen
        /\ work'[n].commits = V
    BY <1>5 DEF V
  <2> QED
    BY <1>4, <2>2, <2>4, <2>5 DEF WorkType, WorkOK, V
<1>7. Without(pool[n], chosen) \in SUBSET CompleteTxs /\ IsFiniteSet(Without(pool[n], chosen))
  BY <1>3, WithoutType
<1>8. /\ pool' \in [Nodes -> SUBSET CompleteTxs] /\ IsFiniteSet(pool'[n])
      /\ \A m \in Nodes : m # n => pool'[m] = pool[m]
  BY <1>2, <1>7 DEF Replicated, ClusterType
<1>9. slot' \in [Nodes -> Nat] /\ UNCHANGED <<live, chain, now, net, torn, late>>
  BY <1>3, WakeFacts DEF EnterSlot
<1> QED
  BY <1>5, <1>6, <1>8, <1>9, WorkSteps

\* The leader copies its stake state and reads its tip.
LEMMA CloneReplicated ==
  ASSUME Replicated, NEW n \in Nodes, Clone(n)
  PROVE  Replicated'
<1> DEFINE w == [stage |-> "cloned", txs |-> work[n].txs, commits |-> work[n].commits,
                 stakes |-> live[n], parent |-> chain[n]]
<1>1. /\ work[n].stage = "chosen" /\ work' = [work EXCEPT ![n] = w]
      /\ UNCHANGED <<live, chain, pool, slot, now, net, torn, late>>
  BY DEF Clone
<1>2. /\ w.stage = "cloned" /\ w.txs = work[n].txs /\ w.commits = work[n].commits
      /\ w.stakes = live[n] /\ w.parent = chain[n]
  OBVIOUS
<1> HIDE DEF w
<1>3. /\ WorkType(n, w)
      /\ n \notin torn => WorkOK(w, live[n], chain[n])
  BY <1>1, <1>2 DEF Replicated, ClusterType, NodesTidy, WorkType, NodesOK, WorkOK
<1>4. DOMAIN work' = Nodes /\ work'[n] = w /\ \A m \in Nodes : m # n => work'[m] = work[m]
  BY <1>1 DEF Replicated, ClusterType
<1>5. /\ slot' \in [Nodes -> Nat] /\ pool' \in [Nodes -> SUBSET CompleteTxs]
      /\ IsFiniteSet(pool'[n]) /\ \A m \in Nodes : m # n => pool'[m] = pool[m]
  BY <1>1 DEF Replicated, ClusterType
<1> QED
  BY <1>1, <1>3, <1>4, <1>5, WorkSteps

\* The slot is taken: the transactions go back.
LEMMA PutBackReplicated ==
  ASSUME Replicated, NEW n \in Nodes, PutBack(n)
  PROVE  Replicated'
<1>1. /\ work[n].stage = "chosen" /\ work' = [work EXCEPT ![n] = Idle]
      /\ pool' = [pool EXCEPT ![n] = PutIn(pool[n], work[n].txs)]
      /\ UNCHANGED <<live, chain, slot, now, net, torn, late>>
  BY DEF PutBack
<1>2. /\ work[n].txs \in Seq(CompleteTxs) /\ pool[n] \in SUBSET CompleteTxs
      /\ IsFiniteSet(pool[n]) /\ DOMAIN work = Nodes
  BY <1>1 DEF Replicated, ClusterType, NodesTidy, WorkType
<1>3. /\ PutIn(pool[n], work[n].txs) \in SUBSET CompleteTxs
      /\ IsFiniteSet(PutIn(pool[n], work[n].txs))
  BY <1>2, PutInType
<1>4. DOMAIN work' = Nodes /\ work'[n] = Idle /\ \A m \in Nodes : m # n => work'[m] = work[m]
  BY <1>1, <1>2
<1>5. WorkType(n, work'[n]) /\ WorkOK(work'[n], live[n], chain[n])
  BY <1>4 DEF WorkType, WorkOK, Idle
<1>6. /\ slot' \in [Nodes -> Nat] /\ pool' \in [Nodes -> SUBSET CompleteTxs]
      /\ IsFiniteSet(pool'[n]) /\ \A m \in Nodes : m # n => pool'[m] = pool[m]
  BY <1>1, <1>3 DEF Replicated, ClusterType
<1> QED
  BY <1>1, <1>4, <1>5, <1>6, WorkSteps

\* The leader executes and signs.
LEMMA SealReplicated ==
  ASSUME Replicated, NEW n \in Nodes, Seal(n)
  PROVE  Replicated'
<1>1. UNCHANGED <<live, chain, pool, slot, now, net, torn, late>>
  BY DEF Seal
<1>2. /\ slot' \in [Nodes -> Nat] /\ pool' \in [Nodes -> SUBSET CompleteTxs]
      /\ IsFiniteSet(pool'[n]) /\ \A m \in Nodes : m # n => pool'[m] = pool[m]
  BY <1>1 DEF Replicated, ClusterType
<1> QED
  BY <1>1, <1>2, SealedWork, SealedOnTip, WorkSteps

\* What Promote does to the node and to the network.
LEMMA PromoteSteps ==
  ASSUME Replicated, NEW n \in Nodes, Promote(n)
  PROVE  LET b == work[n].block
             E == Promoted(live[n], work[n].base, work[n].out)
             c == Append(work[n].parent, b)
         IN  /\ work[n].stage = "sealed" /\ b \in Blocks /\ b.leader = n
             /\ live' = [live EXCEPT ![n] = E] /\ E \in States /\ Tidy(E)
             /\ chain' = IF chain[n] = work[n].parent
                         THEN [chain EXCEPT ![n] = c] ELSE chain
             /\ BlocksOn' = BlocksOn \cup {c}
             /\ c \in Chains /\ Len(c) >= 2 /\ TipOf(c) = b /\ ParentOf(c) = work[n].parent
             /\ work' = [work EXCEPT ![n] = Idle]
             /\ UNCHANGED <<pool, slot, now, torn, late>>
<1> DEFINE b == work[n].block
           E == Promoted(live[n], work[n].base, work[n].out)
           c == Append(work[n].parent, b)
<1>1. work[n].stage = "sealed"
  BY DEF Promote
<1>2. /\ work[n].parent \in Chains /\ b \in Blocks /\ b.leader = n
      /\ work[n].base \in States /\ IsFiniteSet(NamesIn(work[n].base))
      /\ work[n].out \in States /\ OneEach(work[n].out.commits)
      /\ IsFiniteSet(NamesIn(work[n].out))
  BY <1>1 DEF Replicated, NodesTidy, WorkType
<1>3. /\ live' = [live EXCEPT ![n] = E]
      /\ net' = net \cup {[block |-> c]}
      /\ work' = [work EXCEPT ![n] = Idle] /\ UNCHANGED <<pool, slot, now, torn, late>>
      /\ chain' = IF chain[n] = work[n].parent
                  THEN [chain EXCEPT ![n] = Append(@, b)] ELSE chain
  BY DEF Promote
<1>4. E \in States /\ Tidy(E)
  BY <1>2, PromotedTidy DEF Replicated, ClusterType, NodesTidy
<1> HIDE DEF b, E
<1>5. c \in Chains /\ Len(c) >= 2 /\ TipOf(c) = b /\ ParentOf(c) = work[n].parent
  BY <1>2, AppendFacts DEF Chains
<1>6. BlocksOn' = BlocksOn \cup {c}
  BY <1>3, PublishedBlocks
<1>7. chain' = IF chain[n] = work[n].parent
               THEN [chain EXCEPT ![n] = c] ELSE chain
  BY <1>3
<1> QED
  BY <1>1, <1>2, <1>3, <1>4, <1>5, <1>6, <1>7 DEF b, E

\* If the leader was not disturbed, it has executed its block on its tip.
LEMMA PromoteFacts ==
  ASSUME Replicated, NEW n \in Nodes \ torn, Promote(n)
  PROVE  LET b == work[n].block
         IN  /\ work[n].stage = "sealed" /\ b \in Blocks /\ b.leader = n
             /\ work[n].parent = chain[n]
             /\ live' = [live EXCEPT ![n] = Executed(live[n], b)]
             /\ chain' = [chain EXCEPT ![n] = Append(chain[n], b)]
             /\ BlocksOn' = BlocksOn \cup {Append(chain[n], b)}
             /\ work' = [work EXCEPT ![n] = Idle]
             /\ UNCHANGED <<pool, slot, now, torn, late>>
             /\ b.digest = DigestOf(Staged(live[n], b), Staged(live[n], b))
<1> DEFINE b == work[n].block
<1>1. /\ work[n].stage = "sealed" /\ b \in Blocks /\ b.leader = n
      /\ live' = [live EXCEPT ![n] = Promoted(live[n], work[n].base, work[n].out)]
      /\ chain' = IF chain[n] = work[n].parent
                  THEN [chain EXCEPT ![n] = Append(work[n].parent, b)] ELSE chain
      /\ BlocksOn' = BlocksOn \cup {Append(work[n].parent, b)}
      /\ work' = [work EXCEPT ![n] = Idle]
      /\ UNCHANGED <<pool, slot, now, torn, late>>
  BY PromoteSteps
<1>2. /\ work[n].parent = chain[n]
      /\ work[n].base = Opened(live[n], b) /\ work[n].out = Staged(live[n], b)
      /\ b.digest = DigestOf(Staged(live[n], b), Staged(live[n], b))
  BY <1>1 DEF Replicated, NodesOK, WorkOK
<1> HIDE DEF b
<1>3. /\ live[n] \in States /\ chain[n] \in Chains /\ LiveOK(live[n], chain[n])
  BY DEF Replicated, ClusterType, NodesOK
<1>4. Promoted(live[n], work[n].base, work[n].out) = Executed(live[n], b)
  BY <1>1, <1>2, <1>3, BlockExecuted
<1> QED
  BY <1>1, <1>2, <1>4 DEF b

\* The leader makes its block live and publishes it.
LEMMA PromoteReplicated ==
  ASSUME Replicated, NEW n \in Nodes, Promote(n)
  PROVE  Replicated'
<1> DEFINE b == work[n].block
           E == Promoted(live[n], work[n].base, work[n].out)
           c == Append(work[n].parent, b)
<1>1. /\ b \in Blocks /\ b.leader = n /\ live' = [live EXCEPT ![n] = E]
      /\ E \in States /\ Tidy(E)
      /\ chain' = IF chain[n] = work[n].parent
                  THEN [chain EXCEPT ![n] = c] ELSE chain
      /\ BlocksOn' = BlocksOn \cup {c}
      /\ c \in Chains /\ Len(c) >= 2 /\ TipOf(c) = b /\ ParentOf(c) = work[n].parent
      /\ work' = [work EXCEPT ![n] = Idle] /\ UNCHANGED <<pool, slot, now, torn, late>>
  BY PromoteSteps
<1> HIDE DEF b, E, c
<1>2. ClusterType'
  BY <1>1 DEF Replicated, ClusterType
<1>3. /\ \A m \in Nodes : m # n => /\ live'[m] = live[m] /\ chain'[m] = chain[m]
                                  /\ work'[m] = work[m]
      /\ live'[n] = E /\ work'[n] = Idle
  BY <1>1 DEF Replicated, ClusterType
<1>4. WorkType(n, Idle) /\ \A L, h : WorkOK(Idle, L, h)
  BY DEF WorkType, WorkOK, Idle
<1>5. NodesTidy'
  <2>1. ASSUME NEW m \in Nodes PROVE Tidy(live'[m]) /\ WorkType(m, work'[m])
    BY <1>1, <1>3, <1>4 DEF Replicated, NodesTidy
  <2> QED
    BY <2>1 DEF NodesTidy
<1>6. ASSUME n \notin torn PROVE LiveOK(live'[n], chain'[n]) /\ Sealed(c)
  <2>1. /\ work[n].parent = chain[n]
        /\ live' = [live EXCEPT ![n] = Executed(live[n], b)]
        /\ chain' = [chain EXCEPT ![n] = Append(chain[n], b)]
        /\ b.digest = DigestOf(Staged(live[n], b), Staged(live[n], b))
    BY <1>6, PromoteFacts DEF b
  <2>2. /\ live[n] \in States /\ chain[n] \in Chains /\ LiveOK(live[n], chain[n])
    BY <1>6 DEF Replicated, ClusterType, NodesOK
  <2>3. LiveOK(Executed(live[n], b), Append(chain[n], b))
    BY <1>1, <2>2, BlockExecuted
  <2>4. live'[n] = Executed(live[n], b) /\ chain'[n] = Append(chain[n], b)
    BY <2>1 DEF Replicated, ClusterType
  <2>5. Sealed(c)
    BY <1>1, <2>1, <2>2 DEF Sealed, LiveOK
  <2> QED
    BY <2>3, <2>4, <2>5
<1>7. NodesOK'
  <2>1. ASSUME NEW m \in Nodes \ torn
        PROVE  LiveOK(live'[m], chain'[m]) /\ WorkOK(work'[m], live'[m], chain'[m])
    <3>1. CASE m = n
      BY <1>3, <1>4, <1>6, <2>1, <3>1
    <3>2. CASE m # n
      BY <1>3, <2>1, <3>2 DEF Replicated, NodesOK
    <3> QED
      BY <3>1, <3>2
  <2> QED
    BY <1>1, <2>1 DEF NodesOK
<1>8. NetOK'
  BY <1>1, <1>6 DEF Replicated, NetOK
<1> QED
  BY <1>2, <1>5, <1>7, <1>8 DEF Replicated

\* Steps that only read the clock, fill a cache or skip a slot.
LEMMA OtherReplicated ==
  ASSUME Replicated, NEW n \in Nodes,
         \/ ClockTick
         \/ \E c \in BlocksOn : RejectBlock(n, c)
         \/ \E m \in SkipsOn : HandleSlotSkip(n, m[1], m[2])
         \/ NotMyTurn(n) \/ SkipSlot(n)
  PROVE  /\ Replicated' /\ UNCHANGED <<live, chain, pool, work, torn, late>>
         /\ BlocksOn' = BlocksOn
<1>1. UNCHANGED <<live, chain, pool, work, torn, late>>
  BY DEF ClockTick, RejectBlock, HandleSlotSkip, NotMyTurn, SkipSlot
<1>2. BlocksOn' = BlocksOn
  <2>1. net' = net \/ net' = net \cup {[skip |-> <<slot[n] + 1, n>>]}
    BY DEF ClockTick, RejectBlock, HandleSlotSkip, NotMyTurn, SkipSlot
  <2> QED
    BY <2>1, PublishedBlocks
<1>3. slot' \in [Nodes -> Nat] /\ now' \in Nat
  <2>1. slot \in [Nodes -> Nat] /\ now \in Nat
    BY DEF Replicated, ClusterType
  <2> QED
    BY <2>1 DEF ClockTick, RejectBlock, HandleSlotSkip, NotMyTurn, SkipSlot, EnterSlot
<1>4. /\ pool' \in [Nodes -> SUBSET CompleteTxs] /\ \A m \in Nodes : IsFiniteSet(pool'[m])
      /\ late' \in [Nodes -> SUBSET Submitted]
  BY <1>1 DEF Replicated, ClusterType
<1> QED
  BY <1>1, <1>2, <1>3, <1>4, QuietSteps

\* Genesis.
LEMMA InitReplicated ==
  ASSUME Init
  PROVE  Replicated
<1>1. /\ live = [n \in Nodes |-> GenesisLive] /\ chain = [n \in Nodes |-> <<GenesisBlock>>]
      /\ pool = [n \in Nodes |-> {}] /\ slot = [n \in Nodes |-> SlotsPerEpoch - 1]
      /\ work = [n \in Nodes |-> Idle] /\ now = SlotsPerEpoch - 1 /\ net = {}
      /\ torn = {} /\ late = [n \in Nodes |-> {}]
  BY DEF Init
<1>2. /\ GenesisLive \in States /\ GenesisLive.commits = {} /\ GenesisLive.purge = {}
      /\ NamesIn(GenesisLive) = {}
  <2>1. NoEntry \in Entries
    BY DEF NoEntry, Entries
  <2>2. [d \in Domains |-> NoEntry] \in [Domains -> Entries]
    BY <2>1
  <2>3. [k \in Keys |-> 0] \in [Keys -> Nat] /\ InitBal \in [Keys -> Nat]
    BY ClusterAssumption
  <2>4. <<>> \in Seq(PendingUnstakes)
    OBVIOUS
  <2>5. NamesIn(GenesisLive) = {}
    BY DEF NamesIn, GenesisLive, NoEntry
  <2> QED
    BY <2>2, <2>3, <2>4, <2>5 DEF GenesisLive, States
<1>3. GenesisBlock \in Blocks
  <2>1. RegistryKeys[1] \in Keys
    BY ClusterAssumption
  <2>2. <<>> \in Digests
    BY DEF Digests
  <2> QED
    BY <2>1, <2>2 DEF GenesisBlock, Blocks
<1>4. <<GenesisBlock>> \in Chains /\ Len(<<GenesisBlock>>) = 1
  BY <1>3 DEF Chains
<1>5. Replay(<<GenesisBlock>>) = GenesisLive
  <2> DEFINE c == <<GenesisBlock>>
  <2>1. Len(c) = 1 /\ Len(c) \in Nat /\ Len(c) >= 1
    BY <1>4
  <2> HIDE DEF c
  <2>2. ReplayLoop(c)[1] = GenesisLive
    BY <2>1, ReplaySteps
  <2>3. Replay(c) = GenesisLive
    BY <2>1, <2>2 DEF Replay
  <2> QED
    BY <2>3 DEF c
<1>6. LiveOK(GenesisLive, <<GenesisBlock>>)
  BY <1>2, <1>5, FS_EmptySet DEF LiveOK, OneEach, PurgeOK
<1>7. /\ \A n \in Nodes : WorkType(n, Idle) /\ WorkOK(Idle, GenesisLive, <<GenesisBlock>>)
      /\ Tidy(GenesisLive)
  BY <1>2, <1>6, FS_EmptySet DEF WorkType, WorkOK, Idle, LiveOK, Tidy
<1>8. SlotsPerEpoch - 1 \in Nat
  BY ClusterAssumption
<1>9. ClusterType
  BY <1>1, <1>2, <1>4, <1>8, FS_EmptySet DEF ClusterType
<1>10. NodesOK /\ NodesTidy
  BY <1>1, <1>6, <1>7 DEF NodesOK, NodesTidy
<1>11. NetOK
  BY <1>1 DEF NetOK, BlocksOn
<1> QED
  BY <1>9, <1>10, <1>11 DEF Replicated

\* Every step of every node.
LEMMA ReplicatedStep ==
  ASSUME Replicated, [Next]_vars
  PROVE  Replicated'
<1>1. CASE UNCHANGED vars
  <2>1. /\ live' = live /\ chain' = chain /\ work' = work /\ pool' = pool
        /\ slot' = slot /\ now' = now /\ net' = net /\ torn' = torn /\ late' = late
    BY <1>1 DEF vars
  <2>2. BlocksOn' = BlocksOn
    BY <2>1, PublishedBlocks
  <2>3. /\ pool' \in [Nodes -> SUBSET CompleteTxs]
        /\ \A n \in Nodes : IsFiniteSet(pool'[n])
        /\ slot' \in [Nodes -> Nat] /\ now' \in Nat /\ late' \in [Nodes -> SUBSET Submitted]
    BY <2>1 DEF Replicated, ClusterType
  <2> QED
    BY <2>1, <2>2, <2>3, QuietSteps
<1>2. CASE ClockTick
  <2>1. PICK n : n \in Nodes
    <3>1. 1 \in DOMAIN RegistryKeys
      BY ClusterAssumption
    <3> QED
      BY <3>1 DEF Nodes
  <2> QED
    BY <1>2, <2>1, OtherReplicated
<1>3. ASSUME NEW n \in Nodes,
             \/ \E tx \in Submitted : AddTransaction(n, tx)
             \/ \E c \in BlocksOn : AcceptBlock(n, c)
             \/ \E c \in BlocksOn : RejectBlock(n, c)
             \/ \E m \in SkipsOn : HandleSlotSkip(n, m[1], m[2])
             \/ NotMyTurn(n) \/ SkipSlot(n) \/ Wake(n)
             \/ Clone(n) \/ PutBack(n) \/ Seal(n) \/ Promote(n)
      PROVE  Replicated'
  BY <1>3, AddTransactionReplicated, AcceptReplicated, OtherReplicated, WakeReplicated,
     CloneReplicated, PutBackReplicated, SealReplicated, PromoteReplicated
<1> QED
  BY <1>1, <1>2, <1>3 DEF Next

\* The inductive invariant holds in every run.
LEMMA ReplicatedAlways == Spec => []Replicated
BY InitReplicated, ReplicatedStep, PTL DEF Spec

\* Every node's ledger, stakes, index and commits are what executing its chain
\* from genesis gives, for any number of registries and any transactions, whether
\* the node made the blocks or accepted them (node_leader.go:185-245,
\* node_helper.go:27-90), unless it once accepted a block between two steps of its
\* own leader.  Transactions may come in between, and so may anything that other
\* nodes do, the disturbed ones included.
THEOREM StateIsReplayTheorem == Spec => []StateIsReplay
<1>1. Replicated => StateIsReplay
  BY DEF Replicated, NodesOK, LiveOK, StateIsReplay
<1> QED
  BY <1>1, ReplicatedAlways, PTL

\* A validator at the parent of a published block that holds no BUY computes the
\* hashes the leader put into it (node_leader.go:185-222, block.go:357-401), unless
\* one of the two once accepted a block between two steps of its own leader.
THEOREM HashesMatchTheorem == Spec => []HashesMatch
<1>1. ASSUME Replicated PROVE HashesMatch
  <2>1. SUFFICES ASSUME NEW c \in BlocksOn, NEW n \in Nodes \ torn,
                        OnMyTip(n, c), BuysIn(TipOf(c)) = {}, TipOf(c).leader \notin torn
                 PROVE  TipOf(c).digest = ValidatorDigest(live[n], TipOf(c))
    BY DEF HashesMatch
  <2> DEFINE b == TipOf(c)
             L == live[n]
             S == Staged(L, b)
             P == LedgerPass(Opened(L, b), b)
  <2>2. c \in Chains /\ Len(c) >= 2 /\ Sealed(c)
    BY <1>1, <2>1 DEF Replicated, NetOK
  <2>3. b \in Blocks /\ ParentOf(c) = chain[n]
    BY <2>1, <2>2, ParentFacts DEF OnMyTip
  <2>4. L \in States /\ OneEach(L.commits) /\ L = Replay(chain[n])
    BY <1>1 DEF Replicated, ClusterType, NodesOK, LiveOK
  <2>5. b.digest = DigestOf(S, S)
    BY <2>2, <2>3, <2>4 DEF Sealed
  <2>6. \A j \in 1 .. Len(b.txs) : b.txs[j].type # "BUY"
    <3>1. b.txs \in Seq(CompleteTxs)
      BY <2>3 DEF Blocks
    <3>2. DOMAIN b.txs = 1 .. Len(b.txs)
      BY <3>1
    <3> QED
      BY <2>1, <3>2 DEF BuysIn
  <2> HIDE DEF b, L
  <2>7. S.nonce = P.nonce /\ S.bal = P.bal
    BY <2>3, <2>4, <2>6, BlockBody, StagedFacts
  <2>8. DigestOf(P, S) = DigestOf(S, S)
    <3> HIDE DEF S, P
    <3> QED
      BY <2>7 DEF DigestOf
  <2> QED
    BY <2>5, <2>8 DEF ValidatorDigest, b, L
<1> QED
  BY <1>1, ReplicatedAlways, PTL

-----------------------------------------------------------------------------
(* Who executes what, and how often *)

Items(s) == {s[j] : j \in 1 .. Len(s)}

\* They are finitely many.
LEMMA ItemsFinite ==
  ASSUME NEW T, NEW s \in Seq(T)
  PROVE  IsFiniteSet(Items(s))
<1> DEFINE I == 1 .. Len(s)
           f == [j \in I |-> s[j]]
<1>1. f \in Surjection(I, Items(s))
  BY DEF Surjection, Items
<1>2. IsFiniteSet(I)
  <2>1. 1 \in Int /\ Len(s) \in Int
    OBVIOUS
  <2> QED
    BY <2>1, FS_Interval
<1> HIDE DEF f, I
<1> QED
  BY <1>1, <1>2, FS_Surjection

\* The transactions of a chain.
TxsOf(c) == UNION {Items(c[i].txs) : i \in 1 .. Len(c)}

\* A block adds its transactions to those of the chain.
LEMMA TxsOfAppend ==
  ASSUME NEW h \in Chains, NEW b \in Blocks
  PROVE  TxsOf(Append(h, b)) = TxsOf(h) \cup Items(b.txs)
<1> DEFINE c == Append(h, b)
<1>1. /\ Len(c) = Len(h) + 1 /\ c[Len(c)] = b /\ Len(h) \in Nat
      /\ \A i \in 1 .. Len(h) : c[i] = h[i]
  BY AppendFacts DEF TipOf, Chains
<1> HIDE DEF c
<1>2. ASSUME NEW t, t \in TxsOf(c) PROVE t \in TxsOf(h) \cup Items(b.txs)
  <2>1. PICK i \in 1 .. Len(c) : t \in Items(c[i].txs)
    BY <1>2 DEF TxsOf
  <2>2. CASE i = Len(c)
    BY <1>1, <2>1, <2>2
  <2>3. CASE i # Len(c)
    <3>1. i \in 1 .. Len(h) /\ c[i] = h[i]
      BY <1>1, <2>1, <2>3
    <3> QED
      BY <2>1, <3>1 DEF TxsOf
  <2> QED
    BY <2>2, <2>3
<1>3. ASSUME NEW t, t \in TxsOf(h) \cup Items(b.txs) PROVE t \in TxsOf(c)
  <2>1. CASE t \in TxsOf(h)
    <3>1. PICK i \in 1 .. Len(h) : t \in Items(h[i].txs)
      BY <2>1 DEF TxsOf
    <3>2. i \in 1 .. Len(c) /\ c[i] = h[i]
      BY <1>1, <3>1
    <3> QED
      BY <3>1, <3>2 DEF TxsOf
  <2>2. CASE t \in Items(b.txs)
    <3>1. Len(c) \in 1 .. Len(c) /\ c[Len(c)] = b
      BY <1>1
    <3> QED
      BY <2>2, <3>1 DEF TxsOf
  <2> QED
    BY <1>3, <2>1, <2>2
<1> QED
  BY <1>2, <1>3 DEF c

\* A sequence holds no more different transactions of an account than places.
LEMMA ItemsCounted ==
  ASSUME NEW T, NEW s \in Seq(T), NEW k
  PROVE  LET R == {t \in Items(s) : t.owner = k}
         IN  /\ IsFiniteSet(R) /\ Cardinality(R) \in Nat
             /\ Cardinality(R) <= Cardinality(Mine(s, k, Len(s)))
<1> DEFINE R == {t \in Items(s) : t.owner = k}
           M == Mine(s, k, Len(s))
           f == [j \in M |-> s[j]]
<1>1. Len(s) \in Nat
  OBVIOUS
<1>2. f \in Surjection(M, R)
  <2>1. f \in [M -> R]
    BY DEF Mine, Items
  <2>2. \A t \in R : \E j \in M : f[j] = t
    BY DEF Mine, Items
  <2> HIDE DEF f, R
  <2> QED
    BY <2>1, <2>2 DEF Surjection
<1>3. IsFiniteSet(M)
  BY <1>1, MineFacts
<1> HIDE DEF f, M, R
<1>4. IsFiniteSet(R) /\ Cardinality(R) <= Cardinality(M)
  BY <1>2, <1>3, FS_Surjection
<1>5. Cardinality(R) \in Nat
  BY <1>4, FS_CardinalityType
<1> QED
  BY <1>4, <1>5 DEF R, M

\* A block adds to every nonce the number of transactions of the account.
LEMMA BlockNonces ==
  ASSUME NEW L \in States, OneEach(L.commits), NEW b \in Blocks, NEW k \in Keys
  PROVE  /\ Executed(L, b).nonce[k] = L.nonce[k] + Cardinality(Mine(b.txs, k, Len(b.txs)))
         /\ L.nonce[k] \in Nat /\ Executed(L, b).nonce[k] \in Nat
         /\ L.nonce[k] <= Executed(L, b).nonce[k]
<1> DEFINE O == Opened(L, b)
<1>1. IsBody(b) /\ b.leader \in Keys
  BY BlockBody
<1>2. b.txs \in Seq(Transactions) /\ Len(b.txs) \in Nat
  BY <1>1 DEF IsBody
<1>3. O \in States /\ O.nonce = L.nonce
  BY <1>1, OpenedFacts DEF IsBody
<1>4. Executed(L, b).nonce = LedgerLoop(O, b.txs)[Len(b.txs)].nonce
  BY <1>1, ExecutedFacts, StagedFacts
<1> HIDE DEF O
<1>5. LedgerLoop(O, b.txs)[Len(b.txs)].nonce[k]
        = L.nonce[k] + Cardinality(Mine(b.txs, k, Len(b.txs)))
  <2>1. Len(b.txs) \in 0 .. Len(b.txs)
    BY <1>2
  <2> QED
    BY <1>2, <1>3, <2>1, LedgerNonces
<1>6. L.nonce[k] \in Nat /\ Cardinality(Mine(b.txs, k, Len(b.txs))) \in Nat
  BY <1>2, MineFacts DEF States
<1> QED
  BY <1>4, <1>5, <1>6

\* In a block that passes the gates the nonces of an account are the ones that
\* follow its nonce before the block.
LEMMA AcceptedNonces ==
  ASSUME NEW L \in States, OneEach(L.commits), NEW b \in Blocks, GatesAccept(L, b)
  PROVE  /\ \A j \in 1 .. Len(b.txs) :
              b.txs[j].owner # None =>
                /\ b.txs[j].owner \in Keys /\ b.txs[j].nonce \in Nat
                /\ L.nonce[b.txs[j].owner] <= b.txs[j].nonce
                /\ b.txs[j].nonce < Executed(L, b).nonce[b.txs[j].owner]
         /\ \A i, j \in 1 .. Len(b.txs) :
              b.txs[i] = b.txs[j] /\ b.txs[i].owner # None => i = j
<1> DEFINE V == PurgeExpired(L, b.index)
           txs == b.txs
<1>1. txs \in Seq(Transactions) /\ Len(txs) \in Nat /\ b.index \in Nat
  BY BlockBody DEF IsBody
<1>2. V \in States /\ V.nonce = L.nonce
  <2>1. V \in States
    BY <1>1, CommitType
  <2> QED
    BY <2>1 DEF PurgeExpired, States
<1>3. ValidateTransactions(V, txs, BlockContext(b))
  BY DEF GatesAccept
<1> HIDE DEF V
<1>4. ASSUME NEW j \in 1 .. Len(txs), txs[j].owner # None
      PROVE  /\ txs[j].owner \in Keys /\ txs[j].nonce \in Nat
             /\ L.nonce[txs[j].owner] <= txs[j].nonce
             /\ txs[j].nonce < Executed(L, b).nonce[txs[j].owner]
  <2> DEFINE k == txs[j].owner
             C(n) == Cardinality(Mine(txs, k, n))
  <2>1. txs[j] \in Transactions
    BY <1>1
  <2>2. k \in Keys
    BY <1>4, <2>1 DEF Transactions
  <2>3. txs[j].nonce = L.nonce[k] + C(j - 1)
    BY <1>1, <1>2, <1>3, <1>4, Gated
  <2>4. Executed(L, b).nonce[k] = L.nonce[k] + C(Len(txs)) /\ L.nonce[k] \in Nat
    BY <2>2, BlockNonces
  <2>5. j - 1 \in Nat /\ j \in Nat /\ j >= 1 /\ j <= Len(txs)
    BY <1>1
  <2>6. /\ C(j - 1) \in Nat /\ C(j) = C(j - 1) + 1 /\ C(j) <= C(Len(txs))
        /\ C(Len(txs)) \in Nat
    BY <1>1, <2>5, MineFacts, MineGrows
  <2> HIDE DEF C, k
  <2>7. /\ txs[j].nonce \in Nat /\ L.nonce[k] <= txs[j].nonce
        /\ txs[j].nonce < Executed(L, b).nonce[k]
    BY <2>3, <2>4, <2>6
  <2> QED
    BY <2>2, <2>7 DEF k
<1>5. \A i, j \in 1 .. Len(txs) : txs[i] = txs[j] /\ txs[i].owner # None => i = j
  BY <1>1, <1>2, <1>3, GatedDistinct
<1> QED
  BY <1>4, <1>5

\* The states along a chain.
LEMMA ReplayStates ==
  ASSUME NEW c \in Chains
  PROVE  \A i \in 1 .. Len(c) :
           ReplayLoop(c)[i] \in States /\ OneEach(ReplayLoop(c)[i].commits)
<1> DEFINE R == ReplayLoop(c)
           T == {i \in Nat : i \in 1 .. Len(c) => R[i] \in States /\ OneEach(R[i].commits)}
<1>1. Len(c) \in Nat /\ Len(c) >= 1 /\ \A i \in 1 .. Len(c) : c[i] \in Blocks
  BY DEF Chains
<1>2. /\ R[1] = GenesisLive
      /\ \A i \in 2 .. Len(c) : R[i] = Executed(R[i - 1], c[i])
  BY <1>1, ReplaySteps
<1> HIDE DEF R
<1>3. GenesisLive \in States /\ OneEach(GenesisLive.commits)
  <2>1. NoEntry \in Entries
    BY DEF NoEntry, Entries
  <2>2. [d \in Domains |-> NoEntry] \in [Domains -> Entries]
    BY <2>1
  <2>3. [k \in Keys |-> 0] \in [Keys -> Nat] /\ InitBal \in [Keys -> Nat]
    BY ClusterAssumption
  <2>4. <<>> \in Seq(PendingUnstakes)
    OBVIOUS
  <2>5. GenesisLive \in States
    BY <2>2, <2>3, <2>4 DEF GenesisLive, States
  <2> QED
    BY <2>5 DEF GenesisLive, OneEach
<1>4. 0 \in T
  OBVIOUS
<1>5. ASSUME NEW i \in Nat, i \in T PROVE i + 1 \in T
  <2>1. CASE i = 0
    BY <1>2, <1>3, <2>1
  <2>2. CASE i # 0 /\ i + 1 <= Len(c)
    <3>1. i \in 1 .. Len(c) /\ i + 1 \in 2 .. Len(c) /\ (i + 1) - 1 = i /\ c[i + 1] \in Blocks
      BY <1>1, <2>2
    <3>2. R[i + 1] = Executed(R[i], c[i + 1])
      BY <1>2, <3>1
    <3>3. R[i + 1] \in States /\ OneEach(R[i + 1].commits)
      BY <1>5, <3>1, <3>2, BlockBody, ExecutedFacts
    <3> QED
      BY <3>3
  <2> QED
    BY <1>1, <2>1, <2>2
<1> HIDE DEF T
<1>6. Nat \subseteq T
  BY <1>4, <1>5, SetInduction
<1> QED
  BY <1>6 DEF T, R

\* Block i of chain c passes the gates at the state before it.
Vetted(c, i) == GatesAccept(ReplayLoop(c)[i - 1], c[i])

\* Genesis holds no transaction, and every other block of c was made by n or
\* passes the gates: no node but its leader takes a block without them.
VettedFor(n, c) ==
  /\ c[1].txs = <<>>
  /\ \A i \in 2 .. Len(c) : c[i].leader = n \/ Vetted(c, i)

\* If every block passes the gates, all nonces executed so far are used up.
LEMMA VettedNonces ==
  ASSUME NEW c \in Chains, c[1].txs = <<>>, \A i \in 2 .. Len(c) : Vetted(c, i)
  PROVE  \A t \in TxsOf(c) : t.owner # None =>
           /\ t.owner \in Keys /\ t.nonce \in Nat
           /\ t.nonce < Replay(c).nonce[t.owner]
<1> DEFINE R == ReplayLoop(c)
           Used(i, m) == \A t \in Items(c[i].txs) : t.owner # None =>
                           /\ t.owner \in Keys /\ t.nonce \in Nat
                           /\ t.nonce < R[m].nonce[t.owner]
           T == {m \in Nat : m \in 1 .. Len(c) => \A i \in 1 .. m : Used(i, m)}
<1>1. Len(c) \in Nat /\ Len(c) >= 1 /\ \A i \in 1 .. Len(c) : c[i] \in Blocks
  BY DEF Chains
<1>2. \A i \in 2 .. Len(c) : R[i] = Executed(R[i - 1], c[i]) /\ GatesAccept(R[i - 1], c[i])
  BY <1>1, ReplaySteps DEF Vetted
<1>3. \A i \in 1 .. Len(c) : R[i] \in States /\ OneEach(R[i].commits)
  BY ReplayStates
<1> HIDE DEF R
<1>4. Used(1, 1)
  <2>1. Items(c[1].txs) = {}
    BY DEF Items
  <2> QED
    BY <2>1
<1>5. 0 \in T
  OBVIOUS
<1>6. ASSUME NEW m \in Nat, m \in T PROVE m + 1 \in T
  <2>1. CASE m = 0
    BY <1>4, <2>1
  <2>2. CASE m # 0 /\ m + 1 <= Len(c)
    <3> DEFINE b == c[m + 1]
    <3>1. /\ m \in 1 .. Len(c) /\ m + 1 \in 2 .. Len(c) /\ (m + 1) - 1 = m
          /\ m + 1 \in 1 .. Len(c)
      BY <1>1, <2>2
    <3>2. /\ b \in Blocks /\ R[m] \in States /\ OneEach(R[m].commits)
          /\ R[m + 1] = Executed(R[m], b) /\ GatesAccept(R[m], b)
      BY <1>1, <1>2, <1>3, <3>1
    <3>3. Used(m + 1, m + 1)
      BY <3>2, AcceptedNonces DEF Items
    <3> HIDE DEF b
    <3>4. \A k \in Keys : /\ R[m].nonce[k] \in Nat /\ R[m + 1].nonce[k] \in Nat
                          /\ R[m].nonce[k] <= R[m + 1].nonce[k]
      BY <3>2, BlockNonces
    <3>5. \A i \in 1 .. m : Used(i, m)
      BY <1>6, <3>1
    <3>6. ASSUME NEW i \in 1 .. m PROVE Used(i, m + 1)
      <4>1. SUFFICES ASSUME NEW t \in Items(c[i].txs), t.owner # None
                     PROVE  /\ t.owner \in Keys /\ t.nonce \in Nat
                            /\ t.nonce < R[m + 1].nonce[t.owner]
        OBVIOUS
      <4>2. t.owner \in Keys /\ t.nonce \in Nat /\ t.nonce < R[m].nonce[t.owner]
        BY <3>5, <4>1
      <4> QED
        BY <3>4, <4>2
    <3> HIDE DEF Used
    <3>7. \A i \in 1 .. m + 1 : Used(i, m + 1)
      BY <3>3, <3>6
    <3> QED
      BY <3>7
  <2> QED
    BY <1>1, <2>1, <2>2
<1> HIDE DEF T
<1>7. Len(c) \in T
  BY <1>1, <1>5, <1>6, SetInduction
<1>8. \A i \in 1 .. Len(c) : Used(i, Len(c))
  BY <1>1, <1>7 DEF T
<1> QED
  BY <1>8 DEF TxsOf, Replay, R

\* A block on top of a vetted chain.
LEMMA VettedAppend ==
  ASSUME NEW h \in Chains, NEW b \in Blocks, NEW n, VettedFor(n, h),
         b.leader = n \/ GatesAccept(Replay(h), b)
  PROVE  VettedFor(n, Append(h, b))
<1> DEFINE c == Append(h, b)
<1>1. /\ Len(c) = Len(h) + 1 /\ c[Len(c)] = b /\ Len(h) \in Nat /\ Len(h) >= 1
      /\ \A i \in 1 .. Len(h) : c[i] = h[i] /\ ReplayLoop(c)[i] = ReplayLoop(h)[i]
  BY AppendFacts DEF TipOf, Chains
<1> HIDE DEF c
<1>2. c[1].txs = <<>>
  <2>1. 1 \in 1 .. Len(h)
    BY <1>1
  <2> QED
    BY <1>1, <2>1 DEF VettedFor
<1>3. ASSUME NEW i \in 2 .. Len(c) PROVE c[i].leader = n \/ Vetted(c, i)
  <2>1. CASE i = Len(c)
    <3>1. Len(c) - 1 = Len(h) /\ Len(h) \in 1 .. Len(h)
      BY <1>1
    <3> QED
      BY <1>1, <2>1, <3>1 DEF Vetted, Replay
  <2>2. CASE i # Len(c)
    <3>1. i \in 2 .. Len(h) /\ i \in 1 .. Len(h) /\ i - 1 \in 1 .. Len(h)
      BY <1>1, <2>2
    <3> QED
      BY <1>1, <3>1 DEF Vetted, VettedFor
  <2> QED
    BY <2>1, <2>2
<1> QED
  BY <1>2, <1>3 DEF VettedFor, c

\* Somebody's transaction is in one place of the chain only, unless n itself, in
\* a block of its own, repeats one of K.
Once(c, n, K) ==
  \A i1, i2 \in 1 .. Len(c) :
    \A j1 \in 1 .. Len(c[i1].txs), j2 \in 1 .. Len(c[i2].txs) :
      c[i1].txs[j1] = c[i2].txs[j2] /\ c[i1].txs[j1].owner # None =>
        /\ i1 = i2 => j1 = j2
        /\ i1 < i2 => c[i2].leader = n /\ c[i2].txs[j2] \in K

LEMMA OnceFor ==
  ASSUME NEW c, NEW n, NEW J, NEW K, J \subseteq K, Once(c, n, J)
  PROVE  Once(c, n, K)
<1>1. ASSUME NEW i1 \in 1 .. Len(c), NEW i2 \in 1 .. Len(c),
             NEW j1 \in 1 .. Len(c[i1].txs), NEW j2 \in 1 .. Len(c[i2].txs),
             c[i1].txs[j1] = c[i2].txs[j2], c[i1].txs[j1].owner # None
      PROVE  /\ i1 = i2 => j1 = j2
             /\ i1 < i2 => c[i2].leader = n /\ c[i2].txs[j2] \in K
  <2>1. /\ i1 = i2 => j1 = j2
        /\ i1 < i2 => c[i2].leader = n /\ c[i2].txs[j2] \in J
    BY <1>1 DEF Once
  <2> QED
    BY <2>1
<1> QED
  BY <1>1 DEF Once

\* So it stays when a block brings each transaction once, and only new ones
\* unless n made it.
LEMMA OnceAppend ==
  ASSUME NEW h \in Chains, NEW b \in Blocks, NEW n, NEW K, Once(h, n, K),
         \A i, j \in 1 .. Len(b.txs) : b.txs[i] = b.txs[j] /\ b.txs[i].owner # None => i = j,
         \A t \in Items(b.txs) : t.owner # None /\ t \in TxsOf(h) => b.leader = n /\ t \in K
  PROVE  Once(Append(h, b), n, K)
<1> DEFINE c == Append(h, b)
<1>1. /\ Len(c) = Len(h) + 1 /\ c[Len(c)] = b /\ Len(h) \in Nat
      /\ \A i \in 1 .. Len(h) : c[i] = h[i]
  BY AppendFacts DEF TipOf, Chains
<1> HIDE DEF c
<1>2. \A i \in 1 .. Len(c) : i = Len(c) \/ (i \in 1 .. Len(h) /\ c[i] = h[i])
  BY <1>1
<1>3. ASSUME NEW i1 \in 1 .. Len(c), NEW i2 \in 1 .. Len(c),
             NEW j1 \in 1 .. Len(c[i1].txs), NEW j2 \in 1 .. Len(c[i2].txs),
             c[i1].txs[j1] = c[i2].txs[j2], c[i1].txs[j1].owner # None
      PROVE  /\ i1 = i2 => j1 = j2
             /\ i1 < i2 => c[i2].leader = n /\ c[i2].txs[j2] \in K
  <2>1. CASE i1 = Len(c) /\ i2 = Len(c)
    <3>1. j1 = j2
      BY <1>1, <1>3, <2>1
    <3> QED
      BY <1>1, <2>1, <3>1
  <2>2. CASE i1 # Len(c) /\ i2 # Len(c)
    <3>1. i1 \in 1 .. Len(h) /\ i2 \in 1 .. Len(h) /\ c[i1] = h[i1] /\ c[i2] = h[i2]
      BY <1>2, <2>2
    <3> QED
      BY <1>3, <3>1 DEF Once
  <2>3. CASE i1 = Len(c) /\ i2 # Len(c)
    <3>1. ~(i1 < i2) /\ i1 # i2
      BY <1>1, <2>3
    <3> QED
      BY <3>1
  <2>4. CASE i1 # Len(c) /\ i2 = Len(c)
    <3>1. i1 \in 1 .. Len(h) /\ c[i1] = h[i1] /\ c[i2] = b
      BY <1>1, <1>2, <2>4
    <3>2. c[i2].txs[j2] \in Items(b.txs)
      BY <3>1 DEF Items
    <3>3. c[i1].txs[j1] \in Items(h[i1].txs)
      BY <3>1 DEF Items
    <3>4. c[i1].txs[j1] \in TxsOf(h)
      BY <3>1, <3>3 DEF TxsOf
    <3>5. b.leader = n /\ c[i2].txs[j2] \in K
      BY <1>3, <3>2, <3>4
    <3> QED
      BY <2>4, <3>1, <3>5
  <2> QED
    BY <2>1, <2>2, <2>3, <2>4
<1> QED
  BY <1>3 DEF Once, c

-----------------------------------------------------------------------------
(* Accounts: pool, block in the making and chain of one node *)

Of(T, k) == {t \in T : t.owner = k}
OwnedTids(c) == {t.tid : t \in {u \in TxsOf(c) : u.owner # None}}

\* Users sent every transaction that has an owner.
FromUsers(T) == \A t \in T : t.owner # None => t \in Submitted

\* A transaction without an owner has the TID of one that c executed.
Traced(T, c) == \A t \in T : t.owner = None => t.tid \in OwnedTids(c)

\* Every nonce in use is below the account's nonce plus the number of its
\* transactions that wait.
Below(T, W, L) ==
  \A t \in T : t.owner # None =>
    t.nonce < L.nonce[t.owner] + Cardinality(Of(W, t.owner))

\* W waits to be executed after h, and what of it h has executed is of K.
WaitingOK(W, L, h, K) ==
  /\ FromUsers(TxsOf(h) \cup W) /\ Below(TxsOf(h) \cup W, W \ TxsOf(h), L)
  /\ \A t \in W : t.owner # None /\ t \in TxsOf(h) => t \in K

\* What pool P and the block in the making share is of K, and neither holds
\* anything twice.
HeldOK(P, held, K) ==
  /\ \A t \in P : t.owner # None /\ t \in Items(held) => t \in K
  /\ \A t, u \in P : t.tid = u.tid => t = u
  /\ \A i, j \in 1 .. Len(held) : held[i] = held[j] /\ held[i].owner # None => i = j

\* Chain h of node n, with state L.
ChainOK(n, L, h, K) ==
  /\ Once(h, n, K) /\ VettedFor(n, h) /\ Traced(TxsOf(h), h)
  /\ \A p \in L.purge : p[3] \in OwnedTids(h)

AccountsOK(n, P, held, L, h, K) ==
  /\ WaitingOK(P \cup Items(held), L, h, K) /\ HeldOK(P, held, K) /\ ChainOK(n, L, h, K)
  /\ Traced(P \cup Items(held), h)

\* The types of a user's transaction.
LEMMA UsersTxs ==
  \A t \in Submitted : /\ t \in Transactions /\ t.nonce \in Nat
                       /\ t.owner # None => t.owner \in Keys
<1>1. \A t \in Transactions : t.nonce \in Nat /\ (t.owner # None => t.owner \in Keys)
  BY LimitsAssumption DEF Transactions, U64
<1> QED
  BY <1>1, ClusterAssumption

\* What waits matters only as far as it has an owner, and what is executed
\* already may leave.
LEMMA LessWaiting ==
  ASSUME NEW W, NEW X, NEW L, NEW h, NEW K, WaitingOK(W, L, h, K),
         \A t : t.owner # None /\ t \in X => t \in W,
         \A t : t.owner # None /\ t \in W \ TxsOf(h) => t \in X
  PROVE  WaitingOK(X, L, h, K)
<1>1. \A k : k # None => Of(X \ TxsOf(h), k) = Of(W \ TxsOf(h), k)
  BY DEF Of
<1>2. FromUsers(TxsOf(h) \cup X)
  BY DEF WaitingOK, FromUsers
<1>3. Below(TxsOf(h) \cup X, X \ TxsOf(h), L)
  BY <1>1 DEF WaitingOK, Below
<1>4. \A t \in X : t.owner # None /\ t \in TxsOf(h) => t \in K
  BY DEF WaitingOK
<1> QED
  BY <1>2, <1>3, <1>4 DEF WaitingOK

\* An account has no more transactions in its pool than wait to be executed.
LEMMA PoolCounted ==
  ASSUME NEW l \in Nat, NEW m \in Nat, NEW A, IsFiniteSet(A),
         \A t \in A : t.nonce \in Nat /\ l <= t.nonce /\ t.nonce < l + m,
         \A t, u \in A : t.nonce = u.nonce => t = u
  PROVE  Cardinality(A) \in Nat /\ Cardinality(A) <= m
<1> DEFINE f == [t \in A |-> t.nonce]
           I == l .. l + m - 1
<1>1. IsFiniteSet(I) /\ Cardinality(I) = m
  <2>1. l \in Int /\ l + m - 1 \in Int
    OBVIOUS
  <2>2. IsFiniteSet(I) /\ Cardinality(I) = IF l > l + m - 1 THEN 0 ELSE (l + m - 1) - l + 1
    BY <2>1, FS_Interval
  <2> HIDE DEF I
  <2> QED
    BY <2>2
<1>2. f \in [A -> I] /\ \A t, u \in A : f[t] = f[u] => t = u
  OBVIOUS
<1> HIDE DEF f, I
<1>3. f \in Injection(A, I)
  BY <1>2 DEF Injection, IsInjective
<1>4. Cardinality(A) <= Cardinality(I)
  BY <1>1, <1>3, FS_Injection
<1>5. Cardinality(A) \in Nat
  BY FS_CardinalityType
<1> QED
  BY <1>1, <1>4, <1>5

\* A transaction in the pool has at most the next nonce of its account.  It has
\* been executed only if the leader was at work when it came, that is if it is
\* of K.
LEMMA AccountsAdd ==
  ASSUME NEW n, NEW P, NEW L \in States, NEW h, NEW tx \in Submitted, IsFiniteSet(P),
         NEW T, NEW held \in Seq(T), NEW J, NEW K, J \subseteq K,
         AccountsOK(n, P, held, L, h, J), Fits(L, P, tx), \A t \in P : t.tid # tx.tid,
         tx \in K \/ held = <<>>
  PROVE  AccountsOK(n, P \cup {tx}, held, L, h, K)
<1> DEFINE k == tx.owner
           ex == TxsOf(h)
           W == P \cup Items(held)
           X == W \ ex
           V == (W \cup {tx}) \ ex
           C == Cardinality(Of(X, k))
           D == Cardinality(Of(P, k))
           Q == P \cup {tx}
<1>1. WaitingOK(W, L, h, J) /\ HeldOK(P, held, J) /\ ChainOK(n, L, h, J) /\ Traced(W, h)
  BY DEF AccountsOK
<1>2. /\ \A t \in Q : t.owner # None
      /\ \A t, u \in Q : t.owner = u.owner /\ t.nonce = u.nonce => t = u
      /\ \E t \in Of(Q, k) : t.nonce = L.nonce[k] + Cardinality(Of(Q, k)) - 1
      /\ \A t \in Of(Q, k) : /\ L.nonce[k] <= t.nonce
                              /\ t.nonce <= L.nonce[k] + Cardinality(Of(Q, k)) - 1
  BY DEF Fits, Of
<1>3. k \in Keys /\ L.nonce[k] \in Nat /\ tx \notin P /\ tx.nonce \in Nat
  <2>1. k \in Keys /\ tx.nonce \in Nat
    BY <1>2, UsersTxs
  <2> QED
    BY <2>1 DEF States
<1>4. IsFiniteSet(Items(held)) /\ IsFiniteSet(W)
  <2>1. IsFiniteSet(Items(held))
    BY ItemsFinite
  <2> QED
    BY <2>1, FS_Union
<1>5. IsFiniteSet(Of(P, k)) /\ IsFiniteSet(Of(X, k)) /\ C \in Nat /\ D \in Nat
  <2>1. Of(P, k) \in SUBSET P /\ Of(X, k) \in SUBSET W
    BY DEF Of
  <2>2. IsFiniteSet(Of(P, k)) /\ IsFiniteSet(Of(X, k))
    BY <1>4, <2>1, FS_Subset
  <2> QED
    BY <2>2, FS_CardinalityType
<1>6. Cardinality(Of(Q, k)) = D + 1
  <2>1. Of(Q, k) = Of(P, k) \cup {tx} /\ tx \notin Of(P, k)
    BY <1>3 DEF Of
  <2> QED
    BY <1>5, <2>1, FS_AddElement
<1>7. \A t \in ex \cup W : t.owner = k => t.nonce \in Nat /\ t.nonce < L.nonce[k] + C
  BY <1>1, <1>3, NamesAssumption, UsersTxs DEF WaitingOK, Below, FromUsers
<1>8. D <= C
  <2>1. \A t \in Of(P, k) : /\ t.nonce \in Nat /\ L.nonce[k] <= t.nonce
                            /\ t.nonce < L.nonce[k] + C
    BY <1>2, <1>7 DEF Of
  <2>2. \A t, u \in Of(P, k) : t.nonce = u.nonce => t = u
    BY <1>2 DEF Of
  <2> HIDE DEF C
  <2> QED
    BY <1>3, <1>5, <2>1, <2>2, PoolCounted
<1>9. tx.nonce <= L.nonce[k] + D
  <2>1. tx \in Of(Q, k)
    BY DEF Of
  <2>2. tx.nonce <= L.nonce[k] + Cardinality(Of(Q, k)) - 1
    BY <1>2, <2>1
  <2>3. tx.nonce <= L.nonce[k] + (D + 1) - 1
    BY <1>6, <2>2
  <2> HIDE DEF D, k
  <2> QED
    BY <1>3, <1>5, <2>3
<1>10. tx \in ex => tx \in K
  <2>1. SUFFICES ASSUME tx \in ex, held = <<>> PROVE FALSE
    OBVIOUS
  <2>2. W = P
    BY <2>1 DEF Items
  <2>3. Of(X, k) \in SUBSET Of(P, k)
    BY <2>2 DEF Of
  <2>4. C <= D
    BY <1>5, <2>3, FS_Subset
  <2>5. PICK t \in Of(Q, k) : t.nonce = L.nonce[k] + Cardinality(Of(Q, k)) - 1
    BY <1>2
  <2>6. t.owner = k /\ t \in ex \cup W
    BY <2>1, <2>5 DEF Of
  <2>7. t.nonce < L.nonce[k] + C
    BY <1>7, <2>6
  <2> HIDE DEF C, D
  <2> QED
    BY <1>3, <1>5, <1>6, <2>4, <2>5, <2>7
<1>11. Below(ex \cup (W \cup {tx}), V, L)
  <2>1. SUFFICES ASSUME NEW t \in ex \cup (W \cup {tx}), t.owner # None
                 PROVE  t.nonce < L.nonce[t.owner] + Cardinality(Of(V, t.owner))
    BY DEF Below
  <2>2. CASE tx \in ex \cup W
    <3>1. V = X /\ t \in ex \cup W
      BY <2>1, <2>2
    <3> QED
      BY <1>1, <2>1, <3>1 DEF WaitingOK, Below
  <2>3. CASE tx \notin ex \cup W /\ t.owner = k
    <3>1. Of(V, k) = Of(X, k) \cup {tx} /\ tx \notin Of(X, k)
      BY <2>3 DEF Of
    <3>2. Cardinality(Of(V, k)) = C + 1
      BY <1>5, <3>1, FS_AddElement
    <3>3. t = tx \/ (t.nonce \in Nat /\ t.nonce < L.nonce[k] + C)
      BY <1>7, <2>1, <2>3
    <3> HIDE DEF C, D
    <3>4. t.nonce \in Nat /\ t.nonce <= L.nonce[k] + C
      <4> HIDE DEF k
      <4>1. tx.nonce <= L.nonce[k] + C
        BY <1>3, <1>5, <1>8, <1>9
      <4>2. CASE t = tx
        BY <1>3, <4>1, <4>2
      <4>3. CASE t # tx
        BY <1>3, <1>5, <3>3, <4>3
      <4> QED
        BY <4>2, <4>3
    <3>5. t.nonce < L.nonce[k] + (C + 1)
      BY <1>3, <1>5, <3>4
    <3> QED
      BY <2>3, <3>2, <3>5
  <2>4. CASE t.owner # k
    <3>1. Of(V, t.owner) = Of(X, t.owner) /\ t \in ex \cup W
      BY <2>1, <2>4 DEF Of
    <3> QED
      BY <1>1, <2>1, <3>1 DEF WaitingOK, Below
  <2> QED
    BY <2>2, <2>3, <2>4
<1>12. FromUsers(ex \cup (W \cup {tx}))
  BY <1>1 DEF WaitingOK, FromUsers
<1>13. WaitingOK(W \cup {tx}, L, h, K)
  <2>1. \A t \in W \cup {tx} : t.owner # None /\ t \in ex => t \in K
    BY <1>1, <1>10 DEF WaitingOK
  <2> QED
    BY <1>11, <1>12, <2>1 DEF WaitingOK
<1>14. HeldOK(Q, held, K)
  <2>1. \A t, u \in Q : t.tid = u.tid => t = u
    BY <1>1 DEF HeldOK
  <2>2. tx \in Items(held) => tx \in K
    BY DEF Items
  <2> QED
    BY <1>1, <2>1, <2>2 DEF HeldOK
<1>15. ChainOK(n, L, h, K)
  <2>1. Once(h, n, J)
    BY <1>1 DEF ChainOK
  <2>2. Once(h, n, K)
    BY <2>1, OnceFor
  <2> QED
    BY <1>1, <2>2 DEF ChainOK
<1>16. Traced(W \cup {tx}, h)
  BY <1>1, <1>2 DEF Traced
<1>17. Q \cup Items(held) = W \cup {tx}
  OBVIOUS
<1> QED
  BY <1>13, <1>14, <1>15, <1>16, <1>17 DEF AccountsOK

\* What a concatenation holds, and where.
LEMMA ConcatFacts ==
  ASSUME NEW S, NEW T, NEW x \in Seq(S), NEW y \in Seq(T)
  PROVE  LET s == x \o y
         IN  /\ Len(s) = Len(x) + Len(y) /\ Len(x) \in Nat /\ Len(y) \in Nat
             /\ \A i \in 1 .. Len(s) :
                  \/ i \in 1 .. Len(x) /\ s[i] = x[i]
                  \/ i - Len(x) \in 1 .. Len(y) /\ s[i] = y[i - Len(x)]
             /\ Items(s) = Items(x) \cup Items(y)
<1> DEFINE s == x \o y
<1>1. /\ Len(s) = Len(x) + Len(y) /\ Len(x) \in Nat /\ Len(y) \in Nat
      /\ \A i \in 1 .. Len(x) + Len(y) : s[i] = IF i <= Len(x) THEN x[i] ELSE y[i - Len(x)]
  OBVIOUS
<1> HIDE DEF s
<1>2. \A i \in 1 .. Len(s) :
        \/ i \in 1 .. Len(x) /\ s[i] = x[i]
        \/ i - Len(x) \in 1 .. Len(y) /\ s[i] = y[i - Len(x)]
  BY <1>1
<1>3. Items(s) \subseteq Items(x) \cup Items(y)
  BY <1>2 DEF Items
<1>4. ASSUME NEW j \in 1 .. Len(x) PROVE x[j] \in Items(s)
  <2>1. j \in 1 .. Len(s) /\ s[j] = x[j]
    BY <1>1
  <2> QED
    BY <2>1 DEF Items
<1>5. ASSUME NEW j \in 1 .. Len(y) PROVE y[j] \in Items(s)
  <2>1. /\ j + Len(x) \in 1 .. Len(s) /\ ~(j + Len(x) <= Len(x))
        /\ (j + Len(x)) - Len(x) = j
    BY <1>1
  <2>2. s[j + Len(x)] = y[j]
    BY <1>1, <2>1
  <2> QED
    BY <2>1, <2>2 DEF Items
<1>6. Items(s) = Items(x) \cup Items(y)
  BY <1>3, <1>4, <1>5 DEF Items
<1> QED
  BY <1>1, <1>2, <1>6 DEF s

\* Moving transactions from the pool into a block loses none.
LEMMA AccountsWake ==
  ASSUME NEW n, NEW P, IsFiniteSet(P), NEW L \in States, PurgeOK(L), NEW h, NEW s,
         NEW K, AccountsOK(n, P, <<>>, L, h, K), NEW chosen \in Selections(P),
         NEW revs \in GenerateAutoRevocations(L, s, chosen)
  PROVE  AccountsOK(n, Without(P, chosen), revs \o chosen, L, h, K)
<1> DEFINE held == revs \o chosen
           X == Without(P, chosen)
<1>1. P \cup Items(<<>>) = P
  BY DEF Items
<1>2. /\ WaitingOK(P, L, h, K) /\ Traced(P, h) /\ ChainOK(n, L, h, K)
      /\ \A t, u \in P : t.tid = u.tid => t = u
  BY <1>1 DEF AccountsOK, HeldOK
<1>3. /\ revs \in Seq(CompleteTxs)
      /\ \A j \in 1 .. Len(revs) :
           revs[j].owner = None /\ \E p \in L.purge : revs[j].tid = p[3]
  BY RevocationFacts
<1>4. /\ chosen \in Seq(P) /\ Len(chosen) \in Nat
      /\ \A i, j \in 1 .. Len(chosen) : chosen[i] = chosen[j] => i = j
  BY SelectionFacts
<1>5. /\ Len(held) = Len(revs) + Len(chosen) /\ Len(revs) \in Nat
      /\ \A i \in 1 .. Len(held) :
           \/ i \in 1 .. Len(revs) /\ held[i] = revs[i]
           \/ i - Len(revs) \in 1 .. Len(chosen) /\ held[i] = chosen[i - Len(revs)]
      /\ Items(held) = Items(revs) \cup Items(chosen)
  BY <1>3, <1>4, ConcatFacts
<1> HIDE DEF held
<1>6. /\ \A t \in Items(revs) : t.owner = None /\ t.tid \in OwnedTids(h)
      /\ Items(chosen) \subseteq P
  BY <1>2, <1>3, <1>4 DEF Items, ChainOK
<1>7. DOMAIN chosen = 1 .. Len(chosen)
  BY <1>4
<1>8. X = P \ Items(chosen)
  <2>1. \A t \in P : t \in Items(chosen) <=> \E j \in 1 .. Len(chosen) : chosen[j].tid = t.tid
    BY <1>2, <1>6 DEF Items
  <2> QED
    BY <1>7, <2>1 DEF Without
<1> HIDE DEF X
<1>9. WaitingOK(X \cup Items(held), L, h, K)
  <2>1. \A t : t.owner # None => (t \in P <=> t \in X \cup Items(held))
    BY <1>5, <1>6, <1>8
  <2> QED
    BY <1>2, <2>1, LessWaiting
<1>10. HeldOK(X, held, K)
  <2>1. \A t \in X : t.owner # None => t \notin Items(held)
    BY <1>5, <1>6, <1>8
  <2>2. ASSUME NEW i \in 1 .. Len(held), NEW j \in 1 .. Len(held),
               held[i] = held[j], held[i].owner # None
        PROVE  i = j
    <3>1. /\ i - Len(revs) \in 1 .. Len(chosen) /\ held[i] = chosen[i - Len(revs)]
          /\ j - Len(revs) \in 1 .. Len(chosen) /\ held[j] = chosen[j - Len(revs)]
      BY <1>3, <1>5, <2>2
    <3>2. i - Len(revs) = j - Len(revs)
      BY <1>4, <2>2, <3>1
    <3>3. i \in Int /\ j \in Int /\ Len(revs) \in Nat
      BY <1>5
    <3> QED
      BY <3>2, <3>3
  <2> QED
    BY <1>2, <1>8, <2>1, <2>2 DEF HeldOK
<1>11. Traced(X \cup Items(held), h)
  BY <1>2, <1>5, <1>6, <1>8 DEF Traced
<1> QED
  BY <1>2, <1>9, <1>10, <1>11 DEF AccountsOK, held, X

\* A user's transaction that is not executed shares its TID with nothing else that
\* waits.
LEMMA WaitingTids ==
  ASSUME NEW W, NEW L, NEW h, NEW K, WaitingOK(W, L, h, K), Traced(W, h),
         NEW t \in W \ TxsOf(h), t.owner # None, NEW u \in W, u.tid = t.tid
  PROVE  u = t
<1>1. t \in Submitted
  BY DEF WaitingOK, FromUsers
<1>2. CASE u.owner # None
  <2>1. u \in Submitted
    BY <1>2 DEF WaitingOK, FromUsers
  <2> QED
    BY <1>1, <2>1, ClusterAssumption
<1>3. CASE u.owner = None
  <2>1. PICK v \in TxsOf(h) : v.owner # None /\ v.tid = u.tid
    BY <1>3 DEF Traced, OwnedTids
  <2>2. v \in Submitted
    BY <2>1 DEF WaitingOK, FromUsers
  <2> QED
    BY <1>1, <2>1, <2>2, ClusterAssumption
<1> QED
  BY <1>2, <1>3

\* Putting the transactions back loses none that has an owner and waits.
LEMMA AccountsPutBack ==
  ASSUME NEW n, NEW P, NEW L, NEW h, NEW T, NEW held \in Seq(T), NEW K,
         AccountsOK(n, P, held, L, h, K)
  PROVE  AccountsOK(n, PutIn(P, held), <<>>, L, h, K)
<1> DEFINE W == P \cup Items(held)
           X == PutIn(P, held)
           Last(i) == \A k \in DOMAIN held : k > i => held[k].tid # held[i].tid
           A == {held[j] : j \in {i \in DOMAIN held : Last(i)}}
<1>1. DOMAIN held = 1 .. Len(held) /\ Len(held) \in Nat
  OBVIOUS
<1>2. X = Without(P, held) \cup A
  BY DEF PutIn
<1>3. /\ WaitingOK(W, L, h, K) /\ Traced(W, h) /\ ChainOK(n, L, h, K)
      /\ HeldOK(P, held, K)
  BY DEF AccountsOK
<1>4. Without(P, held) \subseteq P /\ A \subseteq Items(held)
  BY <1>1 DEF Without, Items
<1>5. ASSUME NEW t, t.owner # None, t \in W \ TxsOf(h) PROVE t \in X
  <2>1. CASE t \in Items(held)
    <3>1. PICK j \in 1 .. Len(held) : held[j] = t
      BY <2>1 DEF Items
    <3>2. ASSUME NEW k \in 1 .. Len(held), held[k].tid = t.tid PROVE k = j
      <4>1. held[k] \in W
        BY DEF Items
      <4>2. held[k] = t
        BY <1>3, <1>5, <3>2, <4>1, WaitingTids
      <4> QED
        BY <1>3, <1>5, <3>1, <4>2 DEF HeldOK
    <3>3. Last(j)
      BY <1>1, <3>1, <3>2
    <3> QED
      BY <1>1, <1>2, <3>1, <3>3
  <2>2. CASE t \notin Items(held)
    <3>1. t \in P
      BY <1>5, <2>2
    <3>2. ASSUME NEW j \in 1 .. Len(held) PROVE held[j].tid # t.tid
      <4>1. held[j] \in Items(held) /\ held[j] \in W
        BY DEF Items
      <4> QED
        BY <1>3, <1>5, <2>2, <4>1, WaitingTids
    <3>3. t \in Without(P, held)
      BY <1>1, <3>1, <3>2 DEF Without
    <3> QED
      BY <1>2, <3>3
  <2> QED
    BY <2>1, <2>2
<1>6. X \subseteq W
  BY <1>2, <1>4
<1>7. \A t, u \in X : t.tid = u.tid => t = u
  <2>1. ASSUME NEW t \in A, NEW u \in A, t.tid = u.tid PROVE t = u
    <3>1. PICK i \in DOMAIN held : t = held[i] /\ Last(i)
      OBVIOUS
    <3>2. PICK j \in DOMAIN held : u = held[j] /\ Last(j)
      OBVIOUS
    <3>3. ~(i > j) /\ ~(j > i)
      BY <2>1, <3>1, <3>2
    <3>4. i = j
      BY <1>1, <3>3
    <3> QED
      BY <3>1, <3>2, <3>4
  <2>2. ASSUME NEW t \in Without(P, held), NEW u \in A PROVE t.tid # u.tid
    BY DEF Without
  <2>3. \A t, u \in Without(P, held) : t.tid = u.tid => t = u
    BY <1>3, <1>4 DEF HeldOK
  <2> HIDE DEF A
  <2> QED
    BY <1>2, <2>1, <2>2, <2>3
<1> HIDE DEF X, W
<1>8. X \cup Items(<<>>) = X /\ Items(<<>>) = {}
  BY DEF Items
<1>9. WaitingOK(X, L, h, K)
  BY <1>3, <1>5, <1>6, LessWaiting
<1>10. HeldOK(X, <<>>, K)
  BY <1>7, <1>8 DEF HeldOK
<1>11. Traced(X, h)
  BY <1>3, <1>6 DEF Traced
<1> QED
  BY <1>3, <1>8, <1>9, <1>10, <1>11 DEF AccountsOK, X

\* What a block takes from the waiting transactions it adds to the nonce.
LEMMA BoundGrows ==
  ASSUME NEW L \in States, OneEach(L.commits), NEW b \in Blocks, NEW k \in Keys,
         NEW W, NEW X, IsFiniteSet(X),
         Of(W, k) \subseteq Of(X, k) \cup Of(Items(b.txs), k)
  PROVE  /\ L.nonce[k] + Cardinality(Of(W, k))
              <= Executed(L, b).nonce[k] + Cardinality(Of(X, k))
         /\ Cardinality(Of(W, k)) \in Nat /\ Cardinality(Of(X, k)) \in Nat
<1> DEFINE R == Of(Items(b.txs), k)
           U == Of(X, k) \cup R
<1>1. b.txs \in Seq(CompleteTxs)
  BY DEF Blocks
<1>2. /\ IsFiniteSet(R) /\ Cardinality(R) \in Nat
      /\ Cardinality(R) <= Cardinality(Mine(b.txs, k, Len(b.txs)))
  BY <1>1, ItemsCounted DEF Of
<1>3. IsFiniteSet(Of(X, k)) /\ Cardinality(Of(X, k)) \in Nat
  <2>1. Of(X, k) \in SUBSET X
    BY DEF Of
  <2>2. IsFiniteSet(Of(X, k))
    BY <2>1, FS_Subset
  <2> QED
    BY <2>2, FS_CardinalityType
<1> HIDE DEF R
<1>4. /\ IsFiniteSet(U)
      /\ Cardinality(U) = Cardinality(Of(X, k)) + Cardinality(R) - Cardinality(Of(X, k) \cap R)
  BY <1>2, <1>3, FS_Union
<1>5. Cardinality(Of(X, k) \cap R) \in Nat
  <2>1. Of(X, k) \cap R \in SUBSET R
    OBVIOUS
  <2>2. IsFiniteSet(Of(X, k) \cap R)
    BY <1>2, <2>1, FS_Subset
  <2> QED
    BY <2>2, FS_CardinalityType
<1>6. IsFiniteSet(Of(W, k)) /\ Cardinality(Of(W, k)) <= Cardinality(U)
  <2>1. Of(W, k) \in SUBSET U
    BY DEF R
  <2> HIDE DEF U
  <2> QED
    BY <1>4, <2>1, FS_Subset
<1>7. Cardinality(Of(W, k)) \in Nat
  BY <1>6, FS_CardinalityType
<1>8. /\ Executed(L, b).nonce[k] = L.nonce[k] + Cardinality(Mine(b.txs, k, Len(b.txs)))
      /\ L.nonce[k] \in Nat
  BY BlockNonces
<1>9. Cardinality(Mine(b.txs, k, Len(b.txs))) \in Nat
  <2>1. Len(b.txs) \in Nat
    BY <1>1
  <2> QED
    BY <2>1, MineFacts
<1> HIDE DEF U
<1> QED
  BY <1>2, <1>3, <1>4, <1>5, <1>6, <1>7, <1>8, <1>9

\* The TIDs executed so far stay executed.
LEMMA TidsGrow ==
  ASSUME NEW h \in Chains, NEW b \in Blocks
  PROVE  /\ OwnedTids(h) \subseteq OwnedTids(Append(h, b))
         /\ \A t \in Items(b.txs) : t.owner # None => t.tid \in OwnedTids(Append(h, b))
BY TxsOfAppend DEF OwnedTids

\* The purges a block adds are of names it defines.
LEMMA PurgesTraced ==
  ASSUME NEW L \in States, OneEach(L.commits), NEW h \in Chains, NEW b \in Blocks,
         \A p \in L.purge : p[3] \in OwnedTids(h),
         Traced(Items(b.txs), Append(h, b))
  PROVE  \A p \in Executed(L, b).purge : p[3] \in OwnedTids(Append(h, b))
<1> DEFINE S == Staged(L, b)
           c == Append(h, b)
           D == {e \in Readded(L, S) : S.dom[e].expiry > 0}
<1>1. IsBody(b) /\ b.leader \in Keys
  BY BlockBody
<1>2. DefinedBy(S, L, b.txs)
  BY <1>1, StagedFacts
<1>3. Executed(L, b).purge = L.purge \cup
        {<<ComputePurgeSlot(S.dom[d].expiry), d, S.dom[d].tid>> : d \in D}
  BY <1>1, ExecutedFacts
<1> HIDE DEF S, c
<1>4. \A j \in 1 .. Len(b.txs) : b.txs[j].tid \in OwnedTids(c)
  BY TidsGrow DEF Traced, Items, c
<1>5. \A d \in D : S.dom[d].tid \in OwnedTids(c)
  BY <1>2, <1>4 DEF DefinedBy, Readded
<1>6. \A p \in L.purge : p[3] \in OwnedTids(c)
  BY TidsGrow DEF c
<1>7. ASSUME NEW p \in Executed(L, b).purge PROVE p[3] \in OwnedTids(c)
  <2>1. CASE p \in L.purge
    BY <1>6, <2>1
  <2>2. CASE p \notin L.purge
    <3>1. PICK d \in D : p = <<ComputePurgeSlot(S.dom[d].expiry), d, S.dom[d].tid>>
      BY <1>3, <1>7, <2>2
    <3>2. p[3] = S.dom[d].tid
      BY <3>1
    <3> QED
      BY <1>5, <3>2
  <2> QED
    BY <2>1, <2>2
<1> QED
  BY <1>7 DEF c

\* A block of node n itself: what it executes has waited, so it is new or of K.
LEMMA AccountsPromote ==
  ASSUME NEW n, NEW P, IsFiniteSet(P), NEW L \in States, NEW h \in Chains, LiveOK(L, h),
         NEW b \in Blocks, b.leader = n, NEW K, AccountsOK(n, P, b.txs, L, h, K)
  PROVE  LET c == Append(h, b)
         IN  /\ AccountsOK(n, P, <<>>, Executed(L, b), c, K)
             /\ FromUsers(TxsOf(c)) /\ Traced(TxsOf(c), c) /\ VettedFor(n, c)
<1> DEFINE c == Append(h, b)
           E == Executed(L, b)
           W == P \cup Items(b.txs)
<1>1. /\ WaitingOK(W, L, h, K) /\ HeldOK(P, b.txs, K) /\ ChainOK(n, L, h, K)
      /\ Traced(W, h) /\ OneEach(L.commits)
  BY DEF AccountsOK, LiveOK
<1>2. TxsOf(c) = TxsOf(h) \cup Items(b.txs)
  BY TxsOfAppend
<1>3. TxsOf(c) \cup P = TxsOf(h) \cup W
  BY <1>2
<1>4. OwnedTids(h) \subseteq OwnedTids(c)
  BY TidsGrow
<1>5. VettedFor(n, c)
  BY <1>1, VettedAppend DEF ChainOK
<1>6. Traced(TxsOf(c), c) /\ Traced(P, c) /\ Traced(Items(b.txs), c)
  BY <1>1, <1>2, <1>4 DEF ChainOK, Traced
<1>7. \A p \in E.purge : p[3] \in OwnedTids(c)
  BY <1>1, <1>6, PurgesTraced DEF ChainOK
<1>8. Once(c, n, K)
  <2>1. \A t \in Items(b.txs) : t.owner # None /\ t \in TxsOf(h) => b.leader = n /\ t \in K
    BY <1>1 DEF WaitingOK
  <2> QED
    BY <1>1, <2>1, OnceAppend DEF ChainOK, HeldOK
<1>9. Below(TxsOf(c) \cup P, P \ TxsOf(c), E)
  <2> DEFINE U == W \ TxsOf(h)
             X == P \ TxsOf(c)
  <2>1. SUFFICES ASSUME NEW t \in TxsOf(c) \cup P, t.owner # None
                 PROVE  t.nonce < E.nonce[t.owner] + Cardinality(Of(X, t.owner))
    BY DEF Below
  <2> DEFINE k == t.owner
  <2>2. t \in TxsOf(h) \cup W /\ t \in Submitted
    BY <1>1, <1>3, <2>1 DEF WaitingOK, FromUsers
  <2>3. t.nonce \in Nat /\ k \in Keys
    BY <2>1, <2>2, UsersTxs
  <2>4. t.nonce < L.nonce[k] + Cardinality(Of(U, k))
    BY <1>1, <2>1, <2>2 DEF WaitingOK, Below
  <2>5. Of(U, k) \subseteq Of(X, k) \cup Of(Items(b.txs), k)
    BY <1>2 DEF Of
  <2>6. L.nonce[k] \in Nat /\ E.nonce[k] \in Nat
    BY <1>1, <2>3, BlockNonces
  <2>7. IsFiniteSet(X)
    BY FS_Subset
  <2> HIDE DEF k, W, E, X, U
  <2>8. /\ L.nonce[k] + Cardinality(Of(U, k)) <= E.nonce[k] + Cardinality(Of(X, k))
        /\ Cardinality(Of(U, k)) \in Nat /\ Cardinality(Of(X, k)) \in Nat
    BY <1>1, <2>3, <2>5, <2>7, BoundGrows DEF E
  <2>9. t.nonce < E.nonce[k] + Cardinality(Of(X, k))
    BY <2>3, <2>4, <2>6, <2>8
  <2> QED
    BY <2>9 DEF k
<1>10. FromUsers(TxsOf(c) \cup P)
  BY <1>1, <1>3 DEF WaitingOK
<1>11. \A t \in P : t.owner # None /\ t \in TxsOf(c) => t \in K
  BY <1>1, <1>2 DEF WaitingOK, HeldOK
<1>12. P \cup Items(<<>>) = P /\ Items(<<>>) = {}
  BY DEF Items
<1> HIDE DEF c, E
<1>13. WaitingOK(P, E, c, K)
  BY <1>9, <1>10, <1>11 DEF WaitingOK
<1>14. HeldOK(P, <<>>, K)
  BY <1>1, <1>12 DEF HeldOK
<1>15. ChainOK(n, E, c, K)
  BY <1>5, <1>6, <1>7, <1>8 DEF ChainOK
<1>16. FromUsers(TxsOf(c))
  BY <1>10 DEF FromUsers
<1> QED
  BY <1>5, <1>6, <1>12, <1>13, <1>14, <1>15, <1>16 DEF AccountsOK, c, E

\* A block of another leader: then every block of the chain went through the
\* gates, so what the new block executes has nonces nobody used.
LEMMA AccountsAccept ==
  ASSUME NEW n, NEW P, IsFiniteSet(P), NEW L \in States, NEW h \in Chains, LiveOK(L, h),
         NEW b \in Blocks, b.leader # n, NEW K, AccountsOK(n, P, <<>>, L, h, K),
         GatesAccept(L, b),
         FromUsers(TxsOf(Append(h, b))), Traced(TxsOf(Append(h, b)), Append(h, b)),
         VettedFor(b.leader, Append(h, b))
  PROVE  AccountsOK(n, Without(P, b.txs), <<>>, Executed(L, b), Append(h, b), K)
<1> DEFINE c == Append(h, b)
           E == Executed(L, b)
           X == Without(P, b.txs)
<1>1. P \cup Items(<<>>) = P /\ X \cup Items(<<>>) = X /\ Items(<<>>) = {}
  BY DEF Items
<1>2. /\ WaitingOK(P, L, h, K) /\ HeldOK(P, <<>>, K) /\ ChainOK(n, L, h, K)
      /\ Traced(P, h) /\ OneEach(L.commits) /\ L = Replay(h)
  BY <1>1 DEF AccountsOK, LiveOK
<1>3. TxsOf(c) = TxsOf(h) \cup Items(b.txs)
  BY TxsOfAppend
<1>4. OwnedTids(h) \subseteq OwnedTids(c)
  BY TidsGrow
<1>5. /\ b.txs \in Seq(CompleteTxs) /\ DOMAIN b.txs = 1 .. Len(b.txs)
  BY DEF Blocks
<1>6. X \subseteq P /\ IsFiniteSet(X)
  <2>1. X \in SUBSET P
    BY DEF Without
  <2> QED
    BY <2>1, FS_Subset
<1>7. /\ \A j \in 1 .. Len(b.txs) :
           b.txs[j].owner # None =>
             /\ b.txs[j].owner \in Keys /\ b.txs[j].nonce \in Nat
             /\ L.nonce[b.txs[j].owner] <= b.txs[j].nonce
             /\ b.txs[j].nonce < E.nonce[b.txs[j].owner]
      /\ \A i, j \in 1 .. Len(b.txs) :
           b.txs[i] = b.txs[j] /\ b.txs[i].owner # None => i = j
  BY <1>2, AcceptedNonces
<1>8. VettedFor(n, c)
  BY <1>2, VettedAppend DEF ChainOK
<1>9. \A t \in TxsOf(h) : t.owner # None =>
        t.owner \in Keys /\ t.nonce \in Nat /\ t.nonce < L.nonce[t.owner]
  <2>1. /\ Len(h) \in Nat /\ Len(h) >= 1 /\ Len(c) = Len(h) + 1
        /\ \A i \in 1 .. Len(h) : c[i] = h[i] /\ ReplayLoop(c)[i] = ReplayLoop(h)[i]
    BY AppendFacts DEF Chains
  <2>2. h[1].txs = <<>> /\ \A i \in 2 .. Len(h) : h[i].leader = n \/ Vetted(h, i)
    BY <1>2 DEF ChainOK, VettedFor
  <2>3. \A i \in 2 .. Len(h) : h[i].leader = b.leader \/ Vetted(h, i)
    <3>1. TAKE i \in 2 .. Len(h)
    <3>2. i \in 2 .. Len(c) /\ i \in 1 .. Len(h) /\ i - 1 \in 1 .. Len(h)
      BY <2>1, <3>1
    <3>3. c[i].leader = b.leader \/ Vetted(c, i)
      BY <3>2 DEF VettedFor
    <3> HIDE DEF c
    <3> QED
      BY <2>1, <3>2, <3>3 DEF Vetted
  <2>4. \A i \in 2 .. Len(h) : Vetted(h, i)
    BY <2>2, <2>3
  <2> QED
    BY <1>2, <2>2, <2>4, VettedNonces
<1> HIDE DEF c, E, X
<1>10. \A t \in Items(b.txs) : t.owner # None => t \notin TxsOf(h)
  <2>1. SUFFICES ASSUME NEW t \in Items(b.txs), t.owner # None, t \in TxsOf(h) PROVE FALSE
    OBVIOUS
  <2>2. t.owner \in Keys /\ t.nonce \in Nat /\ t.nonce < L.nonce[t.owner]
    BY <1>9, <2>1
  <2>3. L.nonce[t.owner] <= t.nonce
    BY <1>7, <2>1 DEF Items
  <2>4. L.nonce[t.owner] \in Nat
    BY <2>2 DEF States
  <2> QED
    BY <2>2, <2>3, <2>4
<1>11. Once(c, n, K)
  BY <1>2, <1>7, <1>10, OnceAppend DEF ChainOK, c
<1>12. \A p \in E.purge : p[3] \in OwnedTids(c)
  <2>1. Traced(Items(b.txs), c)
    BY <1>3 DEF Traced, c
  <2> QED
    BY <1>2, <2>1, PurgesTraced DEF ChainOK, c, E
<1>13. ChainOK(n, E, c, K)
  BY <1>8, <1>11, <1>12 DEF ChainOK, c
<1>14. ASSUME NEW t \in P \ TxsOf(h), t.owner # None, t \notin X PROVE t \in Items(b.txs)
  <2>1. PICK j \in 1 .. Len(b.txs) : b.txs[j].tid = t.tid
    BY <1>5, <1>14 DEF Without, X
  <2>2. b.txs[j] \in Items(b.txs) /\ b.txs[j] \in TxsOf(c)
    BY <1>3, <2>1 DEF Items
  <2>3. t \in Submitted
    BY <1>2, <1>14 DEF WaitingOK, FromUsers
  <2>4. PICK u \in TxsOf(c) : u.owner # None /\ u.tid = t.tid
    <3>1. CASE b.txs[j].owner # None
      BY <2>1, <2>2, <3>1
    <3>2. CASE b.txs[j].owner = None
      <4>1. b.txs[j].tid \in OwnedTids(c)
        BY <2>2, <3>2 DEF Traced, c
      <4> QED
        BY <2>1, <4>1 DEF OwnedTids
    <3> QED
      BY <3>1, <3>2
  <2>5. u \in Submitted
    BY <2>4 DEF FromUsers, c
  <2>6. u = t
    BY <2>3, <2>4, <2>5, ClusterAssumption
  <2> QED
    BY <1>3, <1>14, <2>4, <2>6
<1>15. Below(TxsOf(c) \cup X, X \ TxsOf(c), E)
  <2> DEFINE U == P \ TxsOf(h)
             Y == X \ TxsOf(c)
  <2>1. SUFFICES ASSUME NEW t \in TxsOf(c) \cup X, t.owner # None
                 PROVE  t.nonce < E.nonce[t.owner] + Cardinality(Of(Y, t.owner))
    BY DEF Below
  <2> DEFINE k == t.owner
  <2>2. t \in Submitted
    BY <1>2, <1>6, <2>1 DEF WaitingOK, FromUsers, c
  <2>3. t.nonce \in Nat /\ k \in Keys
    BY <2>1, <2>2, UsersTxs
  <2>4. L.nonce[k] \in Nat /\ E.nonce[k] \in Nat
    BY <1>2, <2>3, BlockNonces DEF E
  <2>5. Of(U, k) \subseteq Of(Y, k) \cup Of(Items(b.txs), k)
    BY <1>3, <1>14, <2>1 DEF Of
  <2>6. IsFiniteSet(Y)
    BY <1>6, FS_Subset
  <2> HIDE DEF k, U, Y
  <2>7. /\ L.nonce[k] + Cardinality(Of(U, k)) <= E.nonce[k] + Cardinality(Of(Y, k))
        /\ Cardinality(Of(U, k)) \in Nat /\ Cardinality(Of(Y, k)) \in Nat
    BY <1>2, <2>3, <2>5, <2>6, BoundGrows DEF E
  <2>8. CASE t \in TxsOf(h) \cup P
    <3>1. t.nonce < L.nonce[k] + Cardinality(Of(U, k))
      BY <1>2, <2>1, <2>8 DEF WaitingOK, Below, k, U
    <3>2. \A x, y, z \in Int : x < y /\ y <= z => x < z
      OBVIOUS
    <3>3. /\ L.nonce[k] + Cardinality(Of(U, k)) \in Int
          /\ E.nonce[k] + Cardinality(Of(Y, k)) \in Int
      BY <2>4, <2>7
    <3>4. t.nonce < E.nonce[k] + Cardinality(Of(Y, k))
      BY <2>3, <2>7, <3>1, <3>2, <3>3
    <3> QED
      BY <3>4 DEF k
  <2>9. CASE t \in Items(b.txs)
    <3>1. t.nonce < E.nonce[k]
      BY <1>7, <2>1, <2>9 DEF Items, k
    <3>2. t.nonce < E.nonce[k] + Cardinality(Of(Y, k))
      BY <2>3, <2>4, <2>7, <3>1
    <3> QED
      BY <3>2 DEF k
  <2> QED
    BY <1>3, <1>6, <2>1, <2>8, <2>9
<1>16. FromUsers(TxsOf(c) \cup X)
  BY <1>2, <1>6 DEF WaitingOK, FromUsers, c
<1>17. \A t \in X : t.owner # None /\ t \in TxsOf(c) => t \in K
  <2>1. \A t \in X : t \notin Items(b.txs)
    BY <1>5 DEF X, Without, Items
  <2> QED
    BY <1>2, <1>3, <1>6, <2>1 DEF WaitingOK
<1>18. WaitingOK(X, E, c, K)
  BY <1>15, <1>16, <1>17 DEF WaitingOK
<1>19. HeldOK(X, <<>>, K)
  BY <1>1, <1>2, <1>6 DEF HeldOK
<1>20. Traced(X, c)
  BY <1>2, <1>4, <1>6 DEF Traced
<1> QED
  BY <1>1, <1>13, <1>18, <1>19, <1>20 DEF AccountsOK, X, E, c
-----------------------------------------------------------------------------
(* The same for all nodes *)

\* The transactions a leader has taken from its pool and not executed yet.
Held(w) ==
  IF w.stage = "idle" THEN <<>>
  ELSE IF w.stage = "sealed" THEN w.block.txs ELSE w.txs

\* A published block can be traced to its users, and all blocks below it that its
\* leader did not make went through the gates.
NetVetted ==
  \A c \in BlocksOn : Clean(c) =>
    FromUsers(TxsOf(c)) /\ Traced(TxsOf(c), c) /\ VettedFor(TipOf(c).leader, c)

\* The nodes no block ever disturbed, neither directly nor through the blocks of
\* others.
CleanNodes == {n \in Nodes \ torn : Clean(chain[n])}

\* Of two that compete for a nonce one is of K.
RivalsIn(W, K) ==
  \A t, u \in W :
    t.owner = u.owner /\ t.nonce = u.nonce /\ t.owner # None /\ t # u => t \in K \/ u \in K

Accounted ==
  /\ Replicated /\ NetVetted
  /\ \A n \in CleanNodes :
       AccountsOK(n, pool[n], Held(work[n]), live[n], chain[n], late[n])
  /\ \A n \in Nodes : RivalsIn(pool[n] \cup Items(Held(work[n])), late[n])

\* A node that is not leading holds nothing.
LEMMA IdleHolds == Held(Idle) = <<>> /\ Items(<<>>) = {}
BY DEF Held, Idle, Items

\* Steps of node n.
LEMMA NodeSteps ==
  ASSUME Accounted, Replicated', NetVetted', NEW n \in Nodes, torn \subseteq torn',
         n \in CleanNodes' =>
           AccountsOK(n, pool'[n], Held(work'[n]), live'[n], chain'[n], late'[n]),
         RivalsIn(pool'[n] \cup Items(Held(work'[n])), late'[n]),
         \A m \in Nodes : m # n => /\ pool'[m] = pool[m] /\ work'[m] = work[m]
                                   /\ live'[m] = live[m] /\ chain'[m] = chain[m]
                                   /\ late'[m] = late[m]
  PROVE  Accounted'
<1>1. ASSUME NEW m \in CleanNodes'
      PROVE  AccountsOK(m, pool'[m], Held(work'[m]), live'[m], chain'[m], late'[m])
  <2>1. CASE m = n
    BY <1>1, <2>1
  <2>2. CASE m # n
    <3>1. m \in Nodes \ torn' /\ Clean(chain[m])'
      BY <1>1 DEF CleanNodes
    <3>2. m \in Nodes \ torn /\ Clean(chain[m])
      BY <2>2, <3>1 DEF Clean
    <3>3. AccountsOK(m, pool[m], Held(work[m]), live[m], chain[m], late[m])
      BY <3>2 DEF Accounted, CleanNodes
    <3> QED
      BY <2>2, <3>2, <3>3
  <2> QED
    BY <2>1, <2>2
<1>2. ASSUME NEW m \in Nodes
      PROVE  RivalsIn(pool'[m] \cup Items(Held(work'[m])), late'[m])
  <2>1. CASE m = n
    BY <2>1
  <2>2. CASE m # n
    BY <2>2 DEF Accounted
  <2> QED
    BY <2>1, <2>2
<1> QED
  BY <1>1, <1>2 DEF Accounted

\* What a node's step reads of the invariant.
LEMMA NodeFacts ==
  ASSUME Accounted, NEW n \in Nodes
  PROVE  /\ live[n] \in States /\ chain[n] \in Chains /\ IsFiniteSet(pool[n])
         /\ pool[n] \in SUBSET CompleteTxs /\ pool[n] \in SUBSET Transactions
         /\ TipOf(chain[n]).index \in Nat /\ PurgeOK(live[n])
         /\ WorkType(n, work[n]) /\ RivalsIn(pool[n] \cup Items(Held(work[n])), late[n])
         /\ DOMAIN pool = Nodes /\ DOMAIN work = Nodes /\ DOMAIN late = Nodes
         /\ DOMAIN live = Nodes /\ DOMAIN chain = Nodes
<1>1. Replicated /\ RivalsIn(pool[n] \cup Items(Held(work[n])), late[n])
  BY DEF Accounted
<1>2. /\ live[n] \in States /\ chain[n] \in Chains /\ IsFiniteSet(pool[n])
      /\ pool[n] \in SUBSET CompleteTxs /\ DOMAIN pool = Nodes /\ DOMAIN work = Nodes
      /\ DOMAIN live = Nodes /\ DOMAIN chain = Nodes /\ DOMAIN late = Nodes
  BY <1>1 DEF Replicated, ClusterType
<1>3. WorkType(n, work[n]) /\ PurgeOK(live[n])
  BY <1>1 DEF Replicated, NodesTidy, Tidy
<1>4. pool[n] \in SUBSET Transactions
  BY <1>2 DEF CompleteTxs
<1>5. TipOf(chain[n]).index \in Nat
  <2>1. chain[n] \in Seq(Blocks) /\ Len(chain[n]) \in Nat /\ Len(chain[n]) >= 1
    BY <1>2 DEF Chains
  <2>2. TipOf(chain[n]) \in Blocks
    BY <2>1 DEF TipOf
  <2> QED
    BY <2>2 DEF Blocks
<1> QED
  BY <1>1, <1>2, <1>3, <1>4, <1>5

\* What it reads on a clean node.
LEMMA CleanFacts ==
  ASSUME Accounted, NEW n \in CleanNodes
  PROVE  /\ n \in Nodes \ torn /\ LiveOK(live[n], chain[n])
         /\ AccountsOK(n, pool[n], Held(work[n]), live[n], chain[n], late[n])
BY DEF Accounted, CleanNodes, Replicated, NodesOK

\* A node with the same chain, or one block more, was clean before.
LEMMA WasClean ==
  ASSUME Accounted, NEW n \in CleanNodes', torn \subseteq torn',
         chain'[n] = chain[n] \/ \E b \in Blocks : chain'[n] = Append(chain[n], b)
  PROVE  n \in CleanNodes
<1>1. n \in Nodes \ torn' /\ \A i \in 2 .. Len(chain'[n]) : chain'[n][i].leader \notin torn'
  BY DEF CleanNodes, Clean
<1>2. n \in Nodes \ torn /\ chain[n] \in Chains
  BY <1>1, NodeFacts
<1>3. \A i \in 2 .. Len(chain[n]) : i \in 2 .. Len(chain'[n]) /\ chain'[n][i] = chain[n][i]
  <2>1. CASE \E b \in Blocks : chain'[n] = Append(chain[n], b)
    <3>1. PICK b \in Blocks : chain'[n] = Append(chain[n], b)
      BY <2>1
    <3>2. /\ Len(chain'[n]) = Len(chain[n]) + 1 /\ Len(chain[n]) \in Nat
          /\ \A i \in 1 .. Len(chain[n]) : chain'[n][i] = chain[n][i]
      BY <1>2, <3>1, AppendFacts DEF Chains
    <3> QED
      BY <3>2
  <2> QED
    BY <2>1
<1>4. Clean(chain[n])
  BY <1>1, <1>3 DEF Clean
<1> QED
  BY <1>2, <1>4 DEF CleanNodes

\* Genesis.
LEMMA InitAccounted ==
  ASSUME Init
  PROVE  Accounted
<1> DEFINE h == <<GenesisBlock>>
<1>1. /\ live = [n \in Nodes |-> GenesisLive] /\ chain = [n \in Nodes |-> h]
      /\ pool = [n \in Nodes |-> {}] /\ work = [n \in Nodes |-> Idle] /\ net = {}
  BY DEF Init
<1>2. NetVetted
  BY <1>1 DEF NetVetted, BlocksOn
<1>3. Len(h) = 1 /\ h[1].txs = <<>>
  BY DEF GenesisBlock
<1>4. Items(<<>>) = {} /\ GenesisLive.purge = {}
  BY DEF Items, GenesisLive
<1> HIDE DEF h
<1>5. TxsOf(h) = {}
  <2>1. \A i \in 1 .. Len(h) : Items(h[i].txs) = {}
    BY <1>3, <1>4
  <2> QED
    BY <2>1 DEF TxsOf
<1>6. \A n, K : Once(h, n, K)
  <2>1. \A i \in 1 .. Len(h) : 1 .. Len(h[i].txs) = {}
    BY <1>3
  <2> QED
    BY <2>1 DEF Once
<1>7. \A n : VettedFor(n, h)
  BY <1>3 DEF VettedFor
<1>8. \A n, K : ChainOK(n, GenesisLive, h, K)
  BY <1>4, <1>5, <1>6, <1>7 DEF ChainOK, Traced
<1>9. \A K : WaitingOK({}, GenesisLive, h, K)
  BY <1>5 DEF WaitingOK, FromUsers, Below
<1>10. \A K : HeldOK({}, <<>>, K)
  <2>1. 1 .. Len(<<>>) = {}
    OBVIOUS
  <2> QED
    BY <2>1 DEF HeldOK
<1>11. Traced({}, h) /\ {} \cup Items(<<>>) = {}
  BY <1>4 DEF Traced
<1>12. \A n, K : AccountsOK(n, {}, <<>>, GenesisLive, h, K)
  BY <1>8, <1>9, <1>10, <1>11 DEF AccountsOK
<1>13. \A n \in Nodes : AccountsOK(n, pool[n], Held(work[n]), live[n], chain[n], late[n])
  BY <1>1, <1>12, IdleHolds
<1>14. \A n \in Nodes : RivalsIn(pool[n] \cup Items(Held(work[n])), late[n])
  BY <1>1, IdleHolds DEF RivalsIn
<1> QED
  BY <1>2, <1>13, <1>14, InitReplicated DEF Accounted, CleanNodes

\* What is published stays vetted.
LEMMA SameNet ==
  ASSUME NetVetted, BlocksOn' = BlocksOn, torn \subseteq torn'
  PROVE  NetVetted'
BY DEF NetVetted, Clean

\* Steps that change neither accounts nor blocks.
LEMMA QuietAccounted ==
  ASSUME Accounted, Replicated', UNCHANGED <<live, chain, pool, work, torn, late>>,
         BlocksOn' = BlocksOn
  PROVE  Accounted'
<1>1. NetVetted'
  BY SameNet DEF Accounted
<1>2. CleanNodes' = CleanNodes
  BY DEF CleanNodes, Clean
<1> QED
  BY <1>1, <1>2 DEF Accounted

\* A new transaction in the pool.
LEMMA AddAccounted ==
  ASSUME Accounted, NEW n \in Nodes, NEW tx \in Submitted, AddTransaction(n, tx)
  PROVE  Accounted'
<1> DEFINE held == Held(work[n])
           K == IF work[n] = Idle THEN late[n] ELSE late[n] \cup {tx}
<1>1. /\ \A t \in pool[n] : t.tid # tx.tid
      /\ PoolValid(live[n], TipOf(chain[n]), pool[n], tx, now)
      /\ pool' = [pool EXCEPT ![n] = pool[n] \cup {tx}]
      /\ late' = [late EXCEPT ![n] = K]
      /\ UNCHANGED <<live, chain, work, net, torn>>
  BY DEF AddTransaction
<1>2. tx \in K \/ held = <<>>
  BY IdleHolds
<1>3. Fits(live[n], pool[n], tx)
  BY <1>1, NodeFacts, PoolValidFacts, UsersTxs
<1>4. late[n] \subseteq K
  OBVIOUS
<1>5. /\ pool'[n] = pool[n] \cup {tx} /\ late'[n] = K /\ Held(work'[n]) = held
      /\ \A m \in Nodes : m # n => pool'[m] = pool[m] /\ late'[m] = late[m]
  BY <1>1, NodeFacts
<1>6. \E T : held \in Seq(T)
  <2>1. WorkType(n, work[n])
    BY NodeFacts
  <2>2. CASE work[n].stage = "idle"
    <3>1. held = <<>> /\ <<>> \in Seq(CompleteTxs)
      BY <2>2 DEF Held
    <3> QED
      BY <3>1
  <2>3. CASE work[n].stage = "sealed"
    BY <2>1, <2>3 DEF Held, WorkType, Blocks
  <2>4. CASE work[n].stage \in {"chosen", "cloned"}
    BY <2>1, <2>4 DEF Held, WorkType
  <2> QED
    BY <2>1, <2>2, <2>3, <2>4 DEF WorkType
<1> HIDE DEF held, K
<1>7. ASSUME n \in CleanNodes'
      PROVE  AccountsOK(n, pool[n] \cup {tx}, held, live[n], chain[n], K)
  <2>1. n \in CleanNodes
    BY <1>1, <1>7, WasClean
  <2>2. AccountsOK(n, pool[n], held, live[n], chain[n], late[n])
    BY <2>1, CleanFacts DEF held
  <2>3. PICK T : held \in Seq(T)
    BY <1>6
  <2> QED
    BY <1>1, <1>2, <1>3, <1>4, <2>2, <2>3, NodeFacts, AccountsAdd
<1>8. RivalsIn((pool[n] \cup {tx}) \cup Items(held), K)
  <2>1. RivalsIn(pool[n] \cup Items(held), late[n])
    BY NodeFacts DEF held
  <2>2. CASE tx \in K
    BY <1>4, <2>1, <2>2 DEF RivalsIn
  <2>3. CASE held = <<>>
    BY <1>3, <2>3, IdleHolds DEF RivalsIn, Fits
  <2> QED
    BY <1>2, <2>2, <2>3
<1>9. NetVetted' /\ Replicated'
  BY <1>1, AddTransactionReplicated, PublishedBlocks, SameNet DEF Accounted
<1> QED
  BY <1>1, <1>5, <1>7, <1>8, <1>9, NodeSteps

\* Fewer transactions compete for less.
LEMMA FewerRivals ==
  ASSUME NEW W, NEW X, NEW K, RivalsIn(W, K), \A t \in X : t.owner # None => t \in W
  PROVE  RivalsIn(X, K)
BY DEF RivalsIn

\* An accepted block.
LEMMA AcceptAccounted ==
  ASSUME Accounted, NEW n \in Nodes, NEW c \in BlocksOn, AcceptBlock(n, c)
  PROVE  Accounted'
<1> DEFINE b == TipOf(c)
<1>1. c \in Chains /\ Len(c) >= 2
  BY DEF Accounted, Replicated, NetOK
<1>2. /\ ParentOf(c) = chain[n] /\ b.leader # n /\ GatesAccept(live[n], b)
  BY DEF AcceptBlock, Acceptable, Hears
<1>3. b \in Blocks /\ c = Append(chain[n], b)
  BY <1>1, <1>2, ParentFacts
<1>4. /\ live' = [live EXCEPT ![n] = Executed(live[n], b)]
      /\ chain' = [chain EXCEPT ![n] = c]
      /\ pool' = [pool EXCEPT ![n] = Without(pool[n], b.txs)]
      /\ torn' = (IF work[n] = Idle THEN torn ELSE torn \cup {n})
      /\ UNCHANGED <<work, net, late>>
  BY DEF AcceptBlock
<1>5. torn \subseteq torn'
  BY <1>4
<1>6. NetVetted' /\ Replicated'
  BY <1>4, <1>5, AcceptReplicated, PublishedBlocks, SameNet DEF Accounted
<1> HIDE DEF b
<1>7. /\ pool'[n] = Without(pool[n], b.txs) /\ live'[n] = Executed(live[n], b)
      /\ chain'[n] = c /\ work'[n] = work[n] /\ late'[n] = late[n]
      /\ \A m \in Nodes : m # n => /\ pool'[m] = pool[m] /\ work'[m] = work[m]
                                   /\ live'[m] = live[m] /\ chain'[m] = chain[m]
                                   /\ late'[m] = late[m]
  BY <1>4, NodeFacts
<1>8. ASSUME n \in CleanNodes'
      PROVE  AccountsOK(n, pool'[n], Held(work'[n]), live'[n], chain'[n], late'[n])
  <2>1. n \in CleanNodes
    BY <1>3, <1>5, <1>7, <1>8, WasClean
  <2>2. work[n] = Idle /\ Clean(c)
    BY <1>4, <1>5, <1>7, <1>8 DEF CleanNodes, Clean
  <2>3. FromUsers(TxsOf(c)) /\ Traced(TxsOf(c), c) /\ VettedFor(b.leader, c)
    BY <2>2 DEF Accounted, NetVetted, b
  <2>4. /\ live[n] \in States /\ chain[n] \in Chains /\ IsFiniteSet(pool[n])
        /\ LiveOK(live[n], chain[n])
        /\ AccountsOK(n, pool[n], <<>>, live[n], chain[n], late[n])
    BY <2>1, <2>2, NodeFacts, CleanFacts, IdleHolds
  <2>5. AccountsOK(n, Without(pool[n], b.txs), <<>>, Executed(live[n], b), c, late[n])
    BY <1>2, <1>3, <2>3, <2>4, AccountsAccept
  <2> QED
    BY <1>7, <2>2, <2>5, IdleHolds
<1>9. RivalsIn(pool'[n] \cup Items(Held(work'[n])), late'[n])
  <2>1. RivalsIn(pool[n] \cup Items(Held(work[n])), late[n])
    BY NodeFacts
  <2>2. Without(pool[n], b.txs) \subseteq pool[n]
    BY DEF Without
  <2> QED
    BY <1>7, <2>1, <2>2, FewerRivals
<1> QED
  BY <1>5, <1>6, <1>7, <1>8, <1>9, NodeSteps

\* The leader chooses transactions.
LEMMA WakeAccounted ==
  ASSUME Accounted, NEW n \in Nodes, Wake(n)
  PROVE  Accounted'
<1>1. PICK chosen \in Selections(pool[n]) :
        \E revs \in GenerateAutoRevocations(live[n], slot[n] + 1, chosen) :
          /\ work' = [work EXCEPT ![n] =
               [stage |-> "chosen", txs |-> revs \o chosen,
                commits |-> PurgeExpired(live[n], TipOf(chain[n]).index + 1)]]
          /\ pool' = [pool EXCEPT ![n] = Without(pool[n], chosen)]
  BY WakeFacts
<1>2. PICK revs \in GenerateAutoRevocations(live[n], slot[n] + 1, chosen) :
        /\ work' = [work EXCEPT ![n] =
             [stage |-> "chosen", txs |-> revs \o chosen,
              commits |-> PurgeExpired(live[n], TipOf(chain[n]).index + 1)]]
        /\ pool' = [pool EXCEPT ![n] = Without(pool[n], chosen)]
  BY <1>1
<1>3. work[n] = Idle /\ UNCHANGED <<live, chain, net, torn, late>>
  BY WakeFacts DEF EnterSlot
<1>4. live[n] \in States /\ IsFiniteSet(pool[n]) /\ PurgeOK(live[n])
  BY NodeFacts
<1>5. /\ pool'[n] = Without(pool[n], chosen) /\ Held(work'[n]) = revs \o chosen
      /\ \A m \in Nodes : m # n => pool'[m] = pool[m] /\ work'[m] = work[m]
  <2>1. /\ pool'[n] = Without(pool[n], chosen)
        /\ work'[n].stage = "chosen" /\ work'[n].txs = revs \o chosen
        /\ \A m \in Nodes : m # n => pool'[m] = pool[m] /\ work'[m] = work[m]
    BY <1>2, NodeFacts
  <2> QED
    BY <2>1 DEF Held
<1>6. ASSUME n \in CleanNodes'
      PROVE  AccountsOK(n, pool'[n], Held(work'[n]), live'[n], chain'[n], late'[n])
  <2>1. n \in CleanNodes
    BY <1>3, <1>6, WasClean
  <2>2. AccountsOK(n, pool[n], <<>>, live[n], chain[n], late[n])
    BY <1>3, <2>1, CleanFacts, IdleHolds
  <2>3. AccountsOK(n, Without(pool[n], chosen), revs \o chosen, live[n], chain[n], late[n])
    BY <1>4, <2>2, AccountsWake
  <2> QED
    BY <1>3, <1>5, <2>3
<1>7. RivalsIn(pool'[n] \cup Items(Held(work'[n])), late'[n])
  <2>1. RivalsIn(pool[n], late[n])
    <3>1. pool[n] \cup Items(Held(work[n])) = pool[n]
      BY <1>3, IdleHolds
    <3>2. RivalsIn(pool[n] \cup Items(Held(work[n])), late[n])
      BY NodeFacts
    <3> QED
      BY <3>1, <3>2
  <2>2. Without(pool[n], chosen) \subseteq pool[n]
    BY DEF Without
  <2>3. /\ revs \in Seq(CompleteTxs)
        /\ \A j \in 1 .. Len(revs) : revs[j].owner = None
    BY <1>4, RevocationFacts
  <2>4. chosen \in Seq(pool[n])
    BY <1>4, SelectionFacts
  <2>5. Items(revs \o chosen) = Items(revs) \cup Items(chosen)
    BY <2>3, <2>4, ConcatFacts
  <2>6. \A t \in Without(pool[n], chosen) \cup Items(revs \o chosen) :
          t.owner # None => t \in pool[n]
    BY <2>2, <2>3, <2>4, <2>5 DEF Items
  <2> QED
    BY <1>3, <1>5, <2>1, <2>6, FewerRivals
<1>8. NetVetted' /\ Replicated'
  BY <1>3, WakeReplicated, PublishedBlocks, SameNet DEF Accounted
<1> QED
  BY <1>3, <1>5, <1>6, <1>7, <1>8, NodeSteps

\* Copying and sealing leave the leader with the transactions it has.
LEMMA SameHeld ==
  ASSUME Accounted, Replicated', NEW n \in Nodes, Held(work'[n]) = Held(work[n]),
         UNCHANGED <<live, chain, pool, net, torn, late>>,
         \A m \in Nodes : m # n => work'[m] = work[m]
  PROVE  Accounted'
<1>1. n \in CleanNodes' => AccountsOK(n, pool[n], Held(work[n]), live[n], chain[n], late[n])
  BY WasClean, CleanFacts
<1>2. RivalsIn(pool[n] \cup Items(Held(work[n])), late[n])
  BY NodeFacts
<1>3. NetVetted'
  BY PublishedBlocks, SameNet DEF Accounted
<1> QED
  BY <1>1, <1>2, <1>3, NodeSteps

LEMMA CloneAccounted ==
  ASSUME Accounted, NEW n \in Nodes, Clone(n)
  PROVE  Accounted'
<1>1. /\ work[n].stage = "chosen" /\ UNCHANGED <<live, chain, pool, net, torn, late>>
      /\ work' = [work EXCEPT ![n] =
           [stage |-> "cloned", txs |-> work[n].txs, commits |-> work[n].commits,
            stakes |-> live[n], parent |-> chain[n]]]
  BY DEF Clone
<1>2. /\ work'[n].stage = "cloned" /\ work'[n].txs = work[n].txs
      /\ \A m \in Nodes : m # n => work'[m] = work[m]
  BY <1>1, NodeFacts
<1>3. Held(work'[n]) = Held(work[n])
  BY <1>1, <1>2 DEF Held
<1>4. Replicated'
  BY CloneReplicated DEF Accounted
<1> QED
  BY <1>1, <1>2, <1>3, <1>4, SameHeld

LEMMA SealAccounted ==
  ASSUME Accounted, NEW n \in Nodes, Seal(n)
  PROVE  Accounted'
<1>1. work[n].stage = "cloned" /\ UNCHANGED <<live, chain, pool, net, torn, late>>
  BY DEF Seal
<1>2. Replicated /\ Replicated'
  BY SealReplicated DEF Accounted
<1>3. /\ work'[n].stage = "sealed" /\ work'[n].block.txs = work[n].txs
      /\ \A m \in Nodes : m # n => work'[m] = work[m]
  BY <1>2, SealedWork
<1>4. Held(work'[n]) = Held(work[n])
  BY <1>1, <1>3 DEF Held
<1> QED
  BY <1>1, <1>2, <1>3, <1>4, SameHeld

\* The slot is taken: the transactions go back.
LEMMA PutBackAccounted ==
  ASSUME Accounted, NEW n \in Nodes, PutBack(n)
  PROVE  Accounted'
<1>1. /\ work[n].stage = "chosen" /\ work' = [work EXCEPT ![n] = Idle]
      /\ pool' = [pool EXCEPT ![n] = PutIn(pool[n], work[n].txs)]
      /\ UNCHANGED <<live, chain, net, torn, late>>
  BY DEF PutBack
<1>2. Held(work[n]) = work[n].txs
  BY <1>1 DEF Held
<1>3. work[n].txs \in Seq(CompleteTxs)
  BY <1>1, NodeFacts DEF WorkType
<1>4. /\ pool'[n] = PutIn(pool[n], work[n].txs) /\ Held(work'[n]) = <<>>
      /\ \A m \in Nodes : m # n => pool'[m] = pool[m] /\ work'[m] = work[m]
  BY <1>1, NodeFacts, IdleHolds
<1>5. ASSUME n \in CleanNodes'
      PROVE  AccountsOK(n, pool'[n], Held(work'[n]), live'[n], chain'[n], late'[n])
  <2>1. n \in CleanNodes
    BY <1>1, <1>5, WasClean
  <2>2. AccountsOK(n, pool[n], work[n].txs, live[n], chain[n], late[n])
    BY <1>2, <2>1, CleanFacts
  <2>3. AccountsOK(n, PutIn(pool[n], work[n].txs), <<>>, live[n], chain[n], late[n])
    BY <1>3, <2>2, AccountsPutBack
  <2> QED
    BY <1>1, <1>4, <2>3
<1>6. RivalsIn(pool'[n] \cup Items(Held(work'[n])), late'[n])
  <2>1. RivalsIn(pool[n] \cup Items(work[n].txs), late[n])
    BY <1>2, NodeFacts
  <2>2. DOMAIN work[n].txs = 1 .. Len(work[n].txs)
    BY <1>3
  <2>3. PutIn(pool[n], work[n].txs) \subseteq pool[n] \cup Items(work[n].txs)
    BY <2>2 DEF PutIn, Without, Items
  <2> QED
    BY <1>1, <1>4, <2>1, <2>3, IdleHolds, FewerRivals
<1>7. NetVetted' /\ Replicated'
  BY <1>1, PutBackReplicated, PublishedBlocks, SameNet DEF Accounted
<1> QED
  BY <1>1, <1>4, <1>5, <1>6, <1>7, NodeSteps

\* The leader makes its block live and publishes it.
LEMMA PromoteAccounted ==
  ASSUME Accounted, NEW n \in Nodes, Promote(n)
  PROVE  Accounted'
<1> DEFINE b == work[n].block
           c == Append(work[n].parent, b)
<1>1. Replicated /\ Replicated'
  BY PromoteReplicated DEF Accounted
<1>2. /\ work[n].stage = "sealed" /\ b \in Blocks /\ b.leader = n
      /\ \E E : live' = [live EXCEPT ![n] = E]
      /\ chain' = IF chain[n] = work[n].parent THEN [chain EXCEPT ![n] = c] ELSE chain
      /\ BlocksOn' = BlocksOn \cup {c} /\ c \in Chains /\ Len(c) >= 2 /\ TipOf(c) = b
      /\ work' = [work EXCEPT ![n] = Idle] /\ UNCHANGED <<pool, torn, late>>
  BY <1>1, PromoteSteps
<1>3. Held(work[n]) = b.txs
  BY <1>2 DEF Held
<1> HIDE DEF b, c
<1>4. /\ pool'[n] = pool[n] /\ Held(work'[n]) = <<>> /\ late'[n] = late[n]
      /\ \A m \in Nodes : m # n => /\ pool'[m] = pool[m] /\ work'[m] = work[m]
                                   /\ live'[m] = live[m] /\ chain'[m] = chain[m]
                                   /\ late'[m] = late[m]
  BY <1>2, NodeFacts, IdleHolds
<1>5. ASSUME n \in CleanNodes
      PROVE  /\ AccountsOK(n, pool[n], <<>>, live'[n], chain'[n], late[n])
             /\ FromUsers(TxsOf(c)) /\ Traced(TxsOf(c), c) /\ VettedFor(n, c)
  <2>1. /\ n \in Nodes \ torn /\ LiveOK(live[n], chain[n])
        /\ AccountsOK(n, pool[n], b.txs, live[n], chain[n], late[n])
    BY <1>3, <1>5, CleanFacts
  <2>2. /\ work[n].parent = chain[n] /\ live' = [live EXCEPT ![n] = Executed(live[n], b)]
        /\ chain' = [chain EXCEPT ![n] = Append(chain[n], b)]
    BY <1>1, <2>1, PromoteFacts DEF b
  <2>3. /\ AccountsOK(n, pool[n], <<>>, Executed(live[n], b), Append(chain[n], b), late[n])
        /\ FromUsers(TxsOf(Append(chain[n], b)))
        /\ Traced(TxsOf(Append(chain[n], b)), Append(chain[n], b))
        /\ VettedFor(n, Append(chain[n], b))
    BY <1>2, <2>1, NodeFacts, AccountsPromote
  <2>4. live'[n] = Executed(live[n], b) /\ chain'[n] = Append(chain[n], b)
    BY <2>2, NodeFacts
  <2> QED
    BY <2>2, <2>3, <2>4 DEF c
<1>6. ASSUME n \in CleanNodes'
      PROVE  AccountsOK(n, pool'[n], Held(work'[n]), live'[n], chain'[n], late'[n])
  <2>1. chain'[n] = chain[n] \/ chain'[n] = Append(chain[n], b)
    BY <1>2, NodeFacts DEF c
  <2>2. n \in CleanNodes
    BY <1>2, <1>6, <2>1, WasClean
  <2> QED
    BY <1>4, <1>5, <2>2
<1>7. ASSUME Clean(c)
      PROVE  FromUsers(TxsOf(c)) /\ Traced(TxsOf(c), c) /\ VettedFor(TipOf(c).leader, c)
  <2>1. Len(c) \in Nat /\ Len(c) \in 2 .. Len(c) /\ c[Len(c)] = b
    BY <1>2 DEF Chains, TipOf
  <2>2. n \in Nodes \ torn
    BY <1>2, <1>7, <2>1 DEF Clean
  <2>3. work[n].parent = chain[n] /\ chain[n] \in Chains
    BY <1>1, <2>2, NodeFacts, PromoteFacts
  <2>4. /\ Len(c) = Len(chain[n]) + 1 /\ Len(chain[n]) \in Nat
        /\ \A i \in 1 .. Len(chain[n]) : c[i] = chain[n][i]
    BY <1>2, <2>3, AppendFacts DEF Chains, c
  <2>5. \A i \in 2 .. Len(chain[n]) : i \in 2 .. Len(c) /\ c[i] = chain[n][i]
    BY <2>4
  <2>6. n \in CleanNodes
    BY <1>7, <2>2, <2>5 DEF CleanNodes, Clean
  <2> QED
    BY <1>2, <1>5, <2>6
<1>8. NetVetted'
  <2>1. \A d : Clean(d)' <=> Clean(d)
    BY <1>2 DEF Clean
  <2>2. ASSUME NEW d \in BlocksOn', Clean(d)
        PROVE  FromUsers(TxsOf(d)) /\ Traced(TxsOf(d), d) /\ VettedFor(TipOf(d).leader, d)
    BY <1>2, <1>7, <2>2 DEF Accounted, NetVetted
  <2> QED
    BY <2>1, <2>2 DEF NetVetted
<1>9. RivalsIn(pool'[n] \cup Items(Held(work'[n])), late'[n])
  <2>1. RivalsIn(pool[n] \cup Items(Held(work[n])), late[n])
    BY NodeFacts
  <2> QED
    BY <1>4, <2>1, IdleHolds, FewerRivals
<1> QED
  BY <1>1, <1>2, <1>4, <1>6, <1>8, <1>9, NodeSteps

\* Every step of every node.
LEMMA AccountedStep ==
  ASSUME Accounted, [Next]_vars
  PROVE  Accounted'
<1>1. Replicated /\ Replicated'
  BY ReplicatedStep DEF Accounted
<1>2. CASE UNCHANGED vars
  <2>1. UNCHANGED <<live, chain, pool, work, net, torn, late>>
    BY <1>2 DEF vars
  <2> QED
    BY <1>1, <2>1, PublishedBlocks, QuietAccounted
<1>3. CASE ClockTick
  <2>1. UNCHANGED <<live, chain, pool, work, net, torn, late>>
    BY <1>3 DEF ClockTick
  <2> QED
    BY <1>1, <2>1, PublishedBlocks, QuietAccounted
<1>4. ASSUME NEW n \in Nodes,
             \/ \E c \in BlocksOn : RejectBlock(n, c)
             \/ \E m \in SkipsOn : HandleSlotSkip(n, m[1], m[2])
             \/ NotMyTurn(n) \/ SkipSlot(n)
      PROVE  Accounted'
  <2>1. UNCHANGED <<live, chain, pool, work, torn, late>> /\ BlocksOn' = BlocksOn
    BY <1>1, <1>4, OtherReplicated
  <2> QED
    BY <1>1, <2>1, QuietAccounted
<1>5. ASSUME NEW n \in Nodes,
             \/ \E tx \in Submitted : AddTransaction(n, tx)
             \/ \E c \in BlocksOn : AcceptBlock(n, c)
             \/ Wake(n) \/ Clone(n) \/ PutBack(n) \/ Seal(n) \/ Promote(n)
      PROVE  Accounted'
  BY <1>5, AddAccounted, AcceptAccounted, WakeAccounted, CloneAccounted,
     PutBackAccounted, SealAccounted, PromoteAccounted
<1> QED
  BY <1>2, <1>3, <1>4, <1>5 DEF Next

LEMMA AccountedAlways == Spec => []Accounted
BY InitAccounted, AccountedStep, PTL DEF Spec

\* For any number of registries, any transactions with distinct TIDs and any order
\* of messages, a user's transaction comes twice on the chain of a node only in a
\* block of the node itself, which runs no gates over what it takes from its pool,
\* and only if a copy entered the pool while its leader was at work
\* (node_leader.go:160-245, node_helper.go:92-142).  The nodes meant are those that
\* no block came to in the middle of their leader's work, and whose chain holds
\* blocks of such nodes only.
THEOREM RepeatsAreLateTheorem == Spec => []RepeatsAreLate
<1>1. ASSUME Accounted PROVE RepeatsAreLate
  <2>1. SUFFICES ASSUME NEW n \in Nodes \ torn, NEW p \in PlacesIn(chain[n]),
                        NEW q \in PlacesIn(chain[n]), Clean(chain[n]), p # q,
                        chain[n][p[1]].txs[p[2]] = chain[n][q[1]].txs[q[2]],
                        chain[n][p[1]].txs[p[2]].owner # None
                 PROVE  /\ p[1] # q[1]
                        /\ p[1] < q[1] => /\ chain[n][q[1]].leader = n
                                          /\ chain[n][p[1]].txs[p[2]] \in late[n]
    BY DEF RepeatsAreLate
  <2> DEFINE h == chain[n]
             K == late[n]
  <2>2. h \in Chains /\ Once(h, n, K)
    <3>1. n \in CleanNodes /\ n \in Nodes
      BY <2>1 DEF CleanNodes
    <3> QED
      BY <1>1, <3>1, NodeFacts, CleanFacts DEF AccountsOK, ChainOK
  <2>3. \A i \in 1 .. Len(h) : DOMAIN h[i].txs = 1 .. Len(h[i].txs)
    <3>1. \A i \in 1 .. Len(h) : h[i] \in Blocks
      BY <2>2 DEF Chains
    <3> QED
      BY <3>1 DEF Blocks
  <2>4. DOMAIN h = 1 .. Len(h)
    BY <2>2 DEF Chains
  <2> HIDE DEF h, K
  <2>5. \A x \in PlacesIn(h) : /\ x[1] \in 1 .. Len(h) /\ x[2] \in 1 .. Len(h[x[1]].txs)
                               /\ x = <<x[1], x[2]>>
    BY <2>3, <2>4 DEF PlacesIn
  <2>6. p \in PlacesIn(h) /\ q \in PlacesIn(h)
    BY <2>1 DEF h
  <2>7. /\ p[1] = q[1] => p[2] = q[2]
        /\ p[1] < q[1] => h[q[1]].leader = n /\ h[q[1]].txs[q[2]] \in K
    <3>1. h[p[1]].txs[p[2]] = h[q[1]].txs[q[2]] /\ h[p[1]].txs[p[2]].owner # None
      BY <2>1 DEF h
    <3> QED
      BY <2>2, <2>5, <2>6, <3>1 DEF Once
  <2>8. p[1] # q[1]
    BY <2>1, <2>5, <2>6, <2>7
  <2> QED
    BY <2>1, <2>7, <2>8 DEF h, K
<1> QED
  BY <1>1, AccountedAlways, PTL

\* Of two transactions in a pool that have the same owner and nonce one came while
\* the leader was at work, in every pool, also after a leader has put back what it
\* took for a slot that was taken already (node_helper.go:107-139,
\* node_leader.go:160-180).
THEOREM PoolNoncesDistinctTheorem == Spec => []PoolNoncesDistinct
<1>1. ASSUME Accounted PROVE PoolNoncesDistinct
  <2>1. \A n \in Nodes : RivalsIn(pool[n] \cup Items(Held(work[n])), late[n])
    BY <1>1 DEF Accounted
  <2> QED
    BY <2>1 DEF RivalsIn, PoolNoncesDistinct
<1> QED
  BY <1>1, AccountedAlways, PTL

-----------------------------------------------------------------------------
(* The election *)

(* The cluster elects its leaders with the operators of Election.             *)
(* ElectionRounds elects with them over all stakes, seeds and numbers of      *)
(* registries.                                                                *)

\* The sums of GetSlotLeaderUtil are made share by share.
LEMMA CumulativeSteps ==
  ASSUME NEW L \in Nat, NEW p, p = [i \in 1 .. L |-> p[i]]
  PROVE  LET cum == Cumulative(p)
         IN  /\ cum[0] = 0
             /\ \A n \in 1 .. L : cum[n] = Plus(cum[n - 1], p[n])
<1> DEFINE eq(m, g) == g = [n \in 0 .. m |-> IF n = 0 THEN 0 ELSE Plus(g[n - 1], p[n])]
           T == {m \in Nat : m <= L => \E g : eq(m, g)}
           loop == Cumulative(p)
<1>1. 0 \in T
  <2> DEFINE z == [n \in 0 .. 0 |-> 0]
  <2>1. \A n \in 0 .. 0 : (IF n = 0 THEN 0 ELSE Plus(z[n - 1], p[n])) = 0
    OBVIOUS
  <2>2. eq(0, z)
    BY <2>1, Zenon
  <2>3. \E g : eq(0, g)
    BY <2>2
  <2> HIDE DEF eq
  <2> QED
    BY <2>3
<1>2. ASSUME NEW m \in Nat, m \in T PROVE m + 1 \in T
  <2>1. SUFFICES ASSUME m + 1 <= L PROVE \E g : eq(m + 1, g)
    <3> HIDE DEF eq
    <3> QED
      OBVIOUS
  <2>2. PICK f : eq(m, f)
    <3> HIDE DEF eq
    <3> QED
      BY <1>2, <2>1
  <2> DEFINE g == [n \in 0 .. m + 1 |->
                     IF n <= m THEN f[n] ELSE Plus(f[m], p[m + 1])]
  <2>3. \A n \in 0 .. m : g[n] = f[n]
    OBVIOUS
  <2>4. g[m + 1] = Plus(f[m], p[m + 1])
    OBVIOUS
  <2>5. ASSUME NEW n \in 0 .. m + 1
        PROVE  g[n] = IF n = 0 THEN 0 ELSE Plus(g[n - 1], p[n])
    <3> HIDE DEF g
    <3>1. CASE n = 0
      <4>1. 0 \in 0 .. m
        OBVIOUS
      <4>2. f[0] = 0
        BY <2>2, <4>1, Zenon
      <4> QED
        BY <2>3, <3>1, <4>1, <4>2
    <3>2. CASE n \in 1 .. m
      <4>1. n - 1 \in 0 .. m /\ n \in 0 .. m
        BY <3>2
      <4> QED
        BY <2>2, <2>3, <3>2, <4>1
    <3>3. CASE n = m + 1
      <4>1. g[n - 1] = f[m] /\ n # 0
        BY <2>3, <3>3
      <4> QED
        BY <2>4, <3>3, <4>1
    <3> QED
      BY <3>1, <3>2, <3>3
  <2>6. eq(m + 1, g)
    BY <2>5
  <2> QED
    BY <2>6
<1>3. L \in T
  <2> HIDE DEF T
  <2> QED
    BY <1>1, <1>2, SetInduction
<1>4. eq(L, loop)
  <2>1. Len(p) = L
    OBVIOUS
  <2>2. loop = CHOOSE g : eq(L, g)
    BY <2>1 DEF Cumulative
  <2> HIDE DEF loop, eq
  <2>3. \E g : eq(L, g)
    BY <1>3
  <2> QED
    BY <2>2, <2>3
<1> HIDE DEF loop
<1>5. \A n \in 0 .. L : loop[n] = IF n = 0 THEN 0 ELSE Plus(loop[n - 1], p[n])
  BY <1>4
<1>6. loop[0] = 0 /\ \A n \in 1 .. L : loop[n] = Plus(loop[n - 1], p[n])
  <2>1. 0 \in 0 .. L /\ \A n \in 1 .. L : n \in 0 .. L /\ n # 0
    OBVIOUS
  <2> QED
    BY <1>5, <2>1, Zenon
<1> QED
  BY <1>6 DEF loop

\* A registry without stake adds nothing to the sums: rounding keeps zero, and
\* adding zero is exact.
LEMMA NoStakeNoStep ==
  ASSUME NEW L \in Nat \ {0}, NEW s \in [1 .. L -> Nat], SumOf(s) # 0,
         NEW i \in 1 .. L, s[i] = 0
  PROVE  Cdf(s)[i] = IF i = 1 THEN 0 ELSE Cdf(s)[i - 1]
<1> DEFINE p == GetStakes(s)
           cum == Cumulative(p)
<1>1. p = [j \in 1 .. L |-> p[j]] /\ p[i] = Quotient(Float(s[i]), Float(SumOf(s)))
  BY DEF GetStakes
<1>2. p[i] = 0
  BY <1>1 DEF Quotient, Float, Round
<1> HIDE DEF p
<1>3. cum[0] = 0 /\ \A n \in 1 .. L : cum[n] = Plus(cum[n - 1], p[n])
  BY <1>1, CumulativeSteps
<1>4. cum[i] = cum[i - 1]
  BY <1>2, <1>3 DEF Plus
<1>5. \A j \in 1 .. L : Cdf(s)[j] = cum[j]
  BY DEF Cdf, p
<1> HIDE DEF cum
<1>6. CASE i = 1
  BY <1>3, <1>4, <1>5, <1>6
<1>7. CASE i # 1
  BY <1>4, <1>5, <1>7
<1> QED
  BY <1>6, <1>7

\* The walk stops at a registry that has stake, unless the seed is zero or the
\* sums do not reach it.
LEMMA WalkStopsAtStake ==
  ASSUME NEW L \in Nat \ {0}, NEW s \in [1 .. L -> Nat], SumOf(s) # 0, NEW x,
         ~(x <= 0), s[CdfWalk(x, Cdf(s))] = 0
  PROVE  CdfWalk(x, Cdf(s)) = L /\ ~(x <= Cdf(s)[L])
<1> DEFINE cdf == Cdf(s)
           hits == {i \in 1 .. L : x <= cdf[i]}
           l == CHOOSE i \in hits : \A j \in hits : i <= j
<1>1. DOMAIN cdf = 1 .. L /\ Len(cdf) = L
  BY DEF Cdf
<1>2. CdfWalk(x, cdf) = IF hits = {} THEN L ELSE l
  BY <1>1 DEF CdfWalk, Reaches
<1>3. ASSUME hits # {} PROVE l \in hits /\ \A j \in hits : l <= j
  <2>1. \E i \in hits : \A j \in hits : i <= j
    <3> DEFINE T == {n \in Nat : \A j \in hits : j > n}
    <3>1. 0 \in T
      OBVIOUS
    <3>2. L \notin T
      BY <1>3
    <3> HIDE DEF T
    <3>3. PICK n \in Nat : n \in T /\ n + 1 \notin T
      BY <3>1, <3>2, SetInduction
    <3>4. n + 1 \in hits /\ \A j \in hits : n + 1 <= j
      BY <3>3 DEF T
    <3> QED
      BY <3>4
  <2> HIDE DEF hits
  <2> QED
    BY <2>1
<1>4. ASSUME hits # {} PROVE FALSE
  <2> HIDE DEF l
  <2>1. l \in 1 .. L /\ x <= cdf[l] /\ \A j \in hits : l <= j
    BY <1>3, <1>4
  <2>2. s[l] = 0
    BY <1>2, <1>4
  <2>3. cdf[l] = IF l = 1 THEN 0 ELSE cdf[l - 1]
    BY <2>1, <2>2, NoStakeNoStep
  <2> HIDE DEF cdf
  <2>4. CASE l = 1
    BY <2>1, <2>3, <2>4
  <2>5. CASE l # 1
    <3>1. l - 1 \in 1 .. L /\ x <= cdf[l - 1]
      BY <2>1, <2>3, <2>5
    <3>2. l - 1 \in hits
      BY <3>1
    <3> QED
      BY <2>1, <3>2
  <2> QED
    BY <2>4, <2>5
<1>5. hits = {}
  BY <1>4
<1> QED
  BY <1>2, <1>5

\* The election reads a number of registries and their stakes.
StakesOK == \E n \in Nat \ {0} : stakes \in [1 .. n -> Nat]

\* An election puts no registry without stake in the lead.
LEMMA RoundElects ==
  ASSUME StakesOK, [ERNext]_erVars, NoStakeNoLead
  PROVE  StakesOK' /\ NoStakeNoLead'
<1>1. PICK n \in Nat \ {0} : stakes \in [1 .. n -> Nat]
  BY DEF StakesOK
<1>2. CASE UNCHANGED erVars
  BY <1>2 DEF erVars, StakesOK, NoStakeNoLead
<1>3. ASSUME NEW i \in Registries, NEW s \in 0 .. MaxStake, ChangeStake(i, s)
      PROVE  StakesOK' /\ NoStakeNoLead'
  <2>1. stakes' \in [1 .. n -> Nat] /\ leader' = 0
    BY <1>1, <1>3, RoundsAssumption DEF ChangeStake, Registries
  <2> QED
    BY <2>1 DEF StakesOK, NoStakeNoLead
<1>4. ASSUME NEW x, Elect(x)
      PROVE  StakesOK' /\ NoStakeNoLead'
  <2>1. stakes' = stakes /\ seed' = x /\ leader' = CdfWalk(x, Cdf(stakes))
    BY <1>4 DEF Elect
  <2>2. StakesOK'
    BY <2>1 DEF StakesOK
  <2>3. ASSUME stakes[leader'] = 0, SumOf(stakes) # 0, ~(x <= 0)
        PROVE  leader' = n /\ ~(x <= Cdf(stakes)[leader'])
    BY <1>1, <2>1, <2>3, WalkStopsAtStake
  <2>4. Len(stakes) = n
    BY <1>1
  <2> QED
    BY <2>1, <2>2, <2>3, <2>4 DEF NoStakeNoLead
<1> QED
  BY <1>2, <1>3, <1>4 DEF ERNext

\* However many registries there are, whatever they have staked and however the
\* floats are rounded, one without stake leads only while nobody has staked,
\* when the seed is zero, or as the last one when the sums do not reach the seed
\* (pos.go:26-100).
THEOREM StakelessDoNotLead ==
  ERSpec => []NoStakeNoLead
<1> DEFINE Inv == StakesOK /\ NoStakeNoLead
<1>1. ERInit => Inv
  <2> SUFFICES ASSUME ERInit PROVE Inv
    OBVIOUS
  <2>1. PICK n \in Sizes : stakes = [i \in 1 .. n |-> 0] /\ leader = 0
    BY DEF ERInit
  <2>2. StakesOK
    BY <2>1, RoundsAssumption DEF StakesOK
  <2> QED
    BY <2>1, <2>2 DEF NoStakeNoLead
<1>2. Inv /\ [ERNext]_erVars => Inv'
  BY RoundElects
<1> QED
  BY <1>1, <1>2, PTL DEF ERSpec

=============================================================================
