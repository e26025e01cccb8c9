------------------------------ MODULE BlockRules ------------------------------
(***************************************************************************)
(* ValidateBlock (blockchain/block.go) as a function of the state it       *)
(* starts from and the block: which blocks pass the purge check and the    *)
(* gates, and what each pass leaves behind.  A block is any record with    *)
(* the fields index, slot, leader and txs.                                 *)
(*                                                                         *)
(* Every loop over the transactions is a function of the number of         *)
(* transactions handled so far.                                            *)
(***************************************************************************)
EXTENDS Gates

\* The staging clones and overlays before the first transaction.
Opened(L, b) ==
  [PurgeExpired(L, b.index) EXCEPT !.queue = SweepMature(@, b.slot)]

\* Every purge due at exactly this slot is revoked or renewed by the block.
PurgesCovered(L, b) ==
  \A p \in GetPurgeableDomains(L, b.slot) :
    \E j \in DOMAIN b.txs :
      /\ b.txs[j].domain = p[2]
      /\ \/ b.txs[j].type = "RENEW"
         \/ b.txs[j].type = "REVOKE" /\ b.txs[j].redeems = p[3]

-----------------------------------------------------------------------------
(* ValidateTransactions *)

\* The shadow maps after the first n transactions.
ShadowLoop(V, txs) ==
  LET sh[n \in 0 .. Len(txs)] ==
        IF n = 0 THEN InitShadow(V) ELSE ShadowAfter(V, sh[n - 1], txs[n])
  IN  sh

ValidateTransactions(V, txs, c) ==
  \A j \in 1 .. Len(txs) : GateTx(V, ShadowLoop(V, txs)[j - 1], txs[j], c)

BlockContext(b) == [slot |-> b.slot, inBlock |-> TRUE, leader |-> b.leader]

-----------------------------------------------------------------------------
(* The three passes *)

LedgerLoop(S, txs) ==
  LET out[n \in 0 .. Len(txs)] ==
        IF n = 0 THEN S ELSE ApplyLedgerMutations(out[n - 1], txs[n])
  IN  out

FeeLoop(txs) ==
  LET sum[n \in 0 .. Len(txs)] ==
        IF n = 0 THEN 0 ELSE sum[n - 1] + txs[n].fee
  IN  sum

DomainLoop(L, S, b) ==
  LET out[n \in 0 .. Len(b.txs)] ==
        IF n = 0 THEN S
        ELSE ApplyDomainMutations(L, out[n - 1], b.txs[n], b.slot, b.index)
  IN  out

StakeLoop(S, b) ==
  LET out[n \in 0 .. Len(b.txs)] ==
        IF n = 0 THEN S ELSE ApplyStakeMutations(out[n - 1], b.txs[n], b.slot)
  IN  out

\* Nonces, fees, FUND and STAKE; then the leader is credited with the fees.
LedgerPass(S, b) ==
  [LedgerLoop(S, b.txs)[Len(b.txs)] EXCEPT
     !.bal = Credit(@, b.leader, FeeLoop(b.txs)[Len(b.txs)])]

DomainPass(L, S, b) == DomainLoop(L, S, b)[Len(b.txs)]
StakePass(S, b)     == StakeLoop(S, b)[Len(b.txs)]

-----------------------------------------------------------------------------
(* The whole block *)

GatesAccept(L, b) ==
  /\ PurgesCovered(L, b)
  /\ ValidateTransactions(PurgeExpired(L, b.index), b.txs, BlockContext(b))

\* The state after the passes, with clones and overlays still open.
Staged(L, b) == StakePass(DomainPass(L, LedgerPass(Opened(L, b), b), b), b)

\* The state once clones are promoted and overlays committed.
Executed(L, b) == CommitIndex(L, CommitCommits(Staged(L, b)))

=============================================================================
