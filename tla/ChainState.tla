----------------------------- MODULE ChainState -----------------------------
(***************************************************************************)
(* The replicated state of a BDNS node and the pure functions that change  *)
(* it: BalanceLedger, StakeMap, UnstakeQueue, CommitStore and its overlay, *)
(* IndexManager and its overlay, and the three Apply* passes of apply.go.  *)
(*                                                                         *)
(* A state is one record.  The Go code works on clones (ledger, stake) and *)
(* on overlays (index, commits) of the live state; here both are simply    *)
(* another value of the same record type, and "gone" holds what the commit *)
(* overlay hides: the hashes consumed or purged by the block in progress.  *)
(***************************************************************************)
EXTENDS Protocol

PendingUnstakes == [key : Keys, amount : Nat, mature : Nat]

CommitRecords ==
  [hash : CommitHashes, committer : Keys, slot : Nat, tid : Nat, expiry : Nat]

\* An index entry: the tree node's transaction (tid, expiry, records) and
\* its metadata (owner, price).  tid = 0 means that there is no node.
Entries ==
  [tid : Nat, expiry : Nat, records : RecordSets \cup {None},
   owner : Keys \cup {None}, price : Nat]

NoEntry == [tid |-> 0, expiry |-> 0, records |-> None, owner |-> None,
            price |-> 0]

States ==
  [bal     : [Keys -> Nat],           \* BalanceLedger: liquid B-Coins
   nonce   : [Keys -> Nat],           \* BalanceLedger: account nonces
   stake   : [Keys -> Nat],           \* StakeMap
   queue   : Seq(PendingUnstakes),    \* UnstakeQueue
   slashed : SUBSET Offences,         \* slashedEvidence
   dom     : [Domains -> Entries],    \* IndexManager.tree
   spent   : SUBSET Nat,              \* IndexManager.spentTxs
   purge   : SUBSET (Nat \X Domains \X Nat),  \* purgeIndex: slot, domain, TID
   commits : SUBSET CommitRecords,    \* CommitStore.pending
   gone    : SUBSET CommitHashes]     \* CommitOverlay.consumed and .purged

-----------------------------------------------------------------------------
(* balance_ledger.go *)

CanDebit(bal, k, amount) == bal[k] >= amount

Debit(bal, k, amount) ==
  IF CanDebit(bal, k, amount) THEN [bal EXCEPT ![k] = @ - amount] ELSE bal

Credit(bal, k, amount) == [bal EXCEPT ![k] = @ + amount]

IncrementNonce(nonce, k) == [nonce EXCEPT ![k] = @ + 1]

-----------------------------------------------------------------------------
(* stake.go: StakeMap.  An entry that reaches zero is deleted, which is the *)
(* value 0 here.                                                            *)

AddStake(stake, k, amount) == [stake EXCEPT ![k] = @ + amount]

ReduceStake(stake, k, amount) ==
  [stake EXCEPT ![k] = IF amount >= @ THEN 0 ELSE @ - amount]

(* stake.go: UnstakeQueue.  The loops over the pending slice are functions  *)
(* of the number of entries visited so far.                                 *)

Enqueue(queue, k, amount, mature) ==
  Append(queue, [key |-> k, amount |-> amount, mature |-> mature])

SweepLoop(queue, slot) ==
  LET kept[n \in 0 .. Len(queue)] ==
        IF n = 0 THEN <<>>
        ELSE IF queue[n].mature <= slot THEN kept[n - 1]
        ELSE Append(kept[n - 1], queue[n])
  IN  kept

SweepMature(queue, slot) == SweepLoop(queue, slot)[Len(queue)]

PendingLoop(queue, k) ==
  LET total[n \in 0 .. Len(queue)] ==
        IF n = 0 THEN 0
        ELSE total[n - 1] + (IF queue[n].key = k THEN queue[n].amount ELSE 0)
  IN  total

GetPendingStake(queue, k) == PendingLoop(queue, k)[Len(queue)]

\* What is cut from entry e when "need" coins of k are still to be burned.
Cut(e, k, need) ==
  IF e.key # k THEN 0 ELSE IF e.amount <= need THEN e.amount ELSE need

BurnLoop(queue, k, amount) ==
  LET st[n \in 0 .. Len(queue)] ==
        IF n = 0 THEN [burned |-> 0, out |-> <<>>]
        ELSE LET e == queue[n]
                 c == Cut(e, k, amount - st[n - 1].burned)
             IN  [burned |-> st[n - 1].burned + c,
                  out    |-> IF e.amount > c
                             THEN Append(st[n - 1].out,
                                         [e EXCEPT !.amount = e.amount - c])
                             ELSE st[n - 1].out]
  IN  st

BurnPending(queue, k, amount) == BurnLoop(queue, k, amount)[Len(queue)].out

-----------------------------------------------------------------------------
(* commit.go: CommitStore seen through a CommitOverlay *)

HasCommit(S, h) == h \notin S.gone /\ \E c \in S.commits : c.hash = h

\* GetCommit, for a hash that HasCommit.
CommitOf(S, h) == CHOOSE c \in S.commits : c.hash = h

AddCommit(S, rec) ==
  [S EXCEPT !.commits = {c \in @ : c.hash # rec.hash} \cup {rec}]

ConsumeCommit(S, h) == [S EXCEPT !.gone = @ \cup {h}]

PurgeExpired(S, index) ==
  [S EXCEPT !.gone = @ \cup {c.hash : c \in {r \in S.commits : index > r.expiry}}]

\* Commit: the added records are stored first, then every consumed or purged
\* key is deleted.
CommitCommits(S) ==
  [S EXCEPT !.commits = {c \in @ : c.hash \notin S.gone}, !.gone = {}]

-----------------------------------------------------------------------------
(* index_manager.go and index_overlay.go.  L is the live index, S the view  *)
(* through the overlay.                                                     *)

Exists(S, d) == d \in Domains /\ S.dom[d].tid # 0

Phase(S, d, slot) == GetDomainPhase(slot, S.dom[d].expiry)

IsForSale(S, d) == S.dom[d].price > 0

\* Add replaces the node's transaction and keeps its metadata.
AddDomain(S, d, tid, expiry, records) ==
  [S EXCEPT !.dom[d] = [@ EXCEPT !.tid = tid, !.expiry = expiry,
                                 !.records = records]]

SetOwner(S, d, k) == [S EXCEPT !.dom[d].owner = k]
SetListPrice(S, d, p) == [S EXCEPT !.dom[d].price = p]
MarkAsSpent(S, tid) == [S EXCEPT !.spent = @ \cup {tid}]

HolderOf(S, tid) == {d \in Domains : tid # 0 /\ S.dom[d].tid = tid}

\* GetTxByID through the overlay: the journal first, then the live tree,
\* where a value replaced in this block is still found.
GetTxByID(L, S, tid) ==
  IF HolderOf(S, tid) # {} THEN HolderOf(S, tid) ELSE HolderOf(L, tid)

GetPurgeableDomains(S, slot) == {p \in S.purge : p[1] = slot}

\* The domains that the overlay S gives another transaction than L does.
Readded(L, S) ==
  {d \in Domains : /\ Exists(S, d)
                   /\ \/ S.dom[d].tid # L.dom[d].tid
                      \/ S.dom[d].expiry # L.dom[d].expiry}

\* Commit: each domain (re)added by the block enters the purge index once,
\* under the expiry of the last transaction the block stored for it.
CommitIndex(L, S) ==
  [S EXCEPT !.purge = @ \cup
     {<<ComputePurgeSlot(S.dom[d].expiry), d, S.dom[d].tid>> :
        d \in {e \in Readded(L, S) : S.dom[e].expiry > 0}}]

=============================================================================
