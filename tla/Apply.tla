-------------------------------- MODULE Apply --------------------------------
(***************************************************************************)
(* The three passes of internal/blockchain/apply.go.  Each takes a state   *)
(* and one transaction and returns the new state; where the Go function    *)
(* logs or returns an error the state is returned unchanged, because every *)
(* caller ignores the error.                                               *)
(***************************************************************************)
EXTENDS ChainState

-----------------------------------------------------------------------------
(* ApplyLedgerMutations: nonce, fee, FUND transfer, STAKE debit *)

MoveFunds(bal, tx) ==
  IF /\ tx.type = "FUND" /\ tx.recipient # None /\ tx.price > 0
     /\ CanDebit(bal, tx.owner, tx.price)
  THEN Credit(Debit(bal, tx.owner, tx.price), tx.recipient, tx.price)
  ELSE bal

LockStake(bal, tx) ==
  IF tx.type = "STAKE" THEN Debit(bal, tx.owner, tx.amount) ELSE bal

ApplyLedgerMutations(S, tx) ==
  IF tx.owner = None THEN S
  ELSE [S EXCEPT
          !.nonce = IncrementNonce(@, tx.owner),
          !.bal   = LockStake(MoveFunds(Debit(@, tx.owner, tx.fee), tx), tx)]

-----------------------------------------------------------------------------
(* ApplyStakeMutations: StakeMap, UnstakeQueue and slashedEvidence *)

ApplyUnstake(S, tx, slot) ==
  [S EXCEPT
     !.stake = ReduceStake(@, tx.owner, tx.amount),
     !.queue = Enqueue(@, tx.owner, tx.amount, slot + UnstakeDelaySlots)]

\* The offence an EQUIVOCATION_PROOF reports: "<height>:<leader>".
OffenceOf(tx) == <<tx.evidence[1].index, tx.evidence[1].leader>>

Slash(S, offender) ==
  LET staked == S.stake[offender]
      amount == ComputeSlashAmount(
                  staked + GetPendingStake(S.queue, offender), SlashingPercent)
  IN  IF amount <= staked
      THEN [S EXCEPT !.stake = ReduceStake(@, offender, amount)]
      ELSE [S EXCEPT !.stake = ReduceStake(@, offender, staked),
                     !.queue = BurnPending(@, offender, amount - staked)]

ApplyEquivocation(S, tx) ==
  IF tx.evidence = NoEvidence \/ OffenceOf(tx) \in S.slashed THEN S
  ELSE [Slash(S, OffenceOf(tx)[2]) EXCEPT !.slashed = @ \cup {OffenceOf(tx)}]

ApplyStakeMutations(S, tx, slot) ==
  CASE tx.owner = None -> S
    [] tx.owner # None /\ tx.type = "STAKE" ->
         [S EXCEPT !.stake = AddStake(@, tx.owner, tx.amount)]
    [] tx.owner # None /\ tx.type = "UNSTAKE" -> ApplyUnstake(S, tx, slot)
    [] tx.owner # None /\ tx.type = "EQUIVOCATION_PROOF" ->
         ApplyEquivocation(S, tx)
    [] OTHER -> S

-----------------------------------------------------------------------------
(* ApplyDomainMutations: index, commit store and the BUY price.  L is the   *)
(* live state the overlays were opened on.                                  *)

ApplyRegister(S, tx, slot) ==
  IF /\ Exists(S, tx.domain) => Phase(S, tx.domain, slot) = "purged"
     /\ tx.redeems = 0
  THEN SetOwner(AddDomain(S, tx.domain, tx.tid, tx.expiry, tx.records),
                tx.domain, tx.owner)
  ELSE S

ApplyCommit(S, tx, slot, index) ==
  AddCommit(S, [hash |-> tx.hash, committer |-> tx.owner, slot |-> slot,
                tid |-> tx.tid, expiry |-> index + CommitMaxWindow])

\* The hash a REVEAL recomputes from its own fields.
RevealHash(tx) == <<tx.domain, tx.salt, tx.owner>>

\* Mutant: the REGISTER rule "redeems nothing" is applied to a REVEAL.
RevealAsRegister(S, tx, slot) == ApplyRegister(S, tx, slot)

ApplyReveal(S, tx, slot) ==
  IF /\ HasCommit(S, RevealHash(tx))
     /\ Exists(S, tx.domain) => Phase(S, tx.domain, slot) = "purged"
  THEN ConsumeCommit(
         MarkAsSpent(
           SetOwner(AddDomain(S, tx.domain, tx.tid, tx.expiry, tx.records),
                    tx.domain, tx.recipient),
           tx.redeems),
         RevealHash(tx))
  ELSE S

RedeemsOwnDomain(L, S, tx) == tx.domain \in GetTxByID(L, S, tx.redeems)

ApplyRevoke(L, S, tx, slot) ==
  IF /\ tx.owner # None => S.dom[tx.domain].owner = tx.owner
     /\ tx.redeems # 0 => RedeemsOwnDomain(L, S, tx)
     /\ tx.owner = None => /\ Exists(S, tx.domain)
                           /\ Phase(S, tx.domain, slot) # "active"
  THEN AddDomain(IF tx.redeems # 0 THEN MarkAsSpent(S, tx.redeems) ELSE S,
                 tx.domain, tx.tid, tx.expiry, tx.records)
  ELSE S

\* Mutant: the new transaction is marked as spent, not the redeemed one.
SpendsItself(L, S, tx, isRenew) ==
  IF tx.redeems # 0 /\ RedeemsOwnDomain(L, S, tx)
  THEN AddDomain(MarkAsSpent(S, tx.tid), tx.domain, tx.tid, tx.expiry, tx.records)
  ELSE S

\* applyUpdateOrRenew: owner and list price survive, a RENEW also keeps the
\* stored records.
ApplyUpdateOrRenew(L, S, tx, isRenew) ==
  LET kept == S.dom[tx.domain].records
      recs == IF isRenew /\ kept # None THEN kept ELSE tx.records
  IN  IF tx.redeems # 0 /\ RedeemsOwnDomain(L, S, tx)
      THEN AddDomain(MarkAsSpent(S, tx.redeems), tx.domain, tx.tid,
                     tx.expiry, recs)
      ELSE S

ApplyUpdate(L, S, tx, slot) ==
  IF /\ S.dom[tx.domain].owner = tx.owner
     /\ Exists(S, tx.domain) => Phase(S, tx.domain, slot) = "active"
  THEN ApplyUpdateOrRenew(L, S, tx, FALSE)
  ELSE S

ApplyRenew(L, S, tx, slot) ==
  IF Exists(S, tx.domain) => Phase(S, tx.domain, slot) # "purged"
  THEN ApplyUpdateOrRenew(L, S, tx, TRUE)
  ELSE S

ApplyList(S, tx, slot) ==
  IF /\ Phase(S, tx.domain, slot) = "active"
     /\ S.dom[tx.domain].owner = tx.owner
  THEN SetListPrice(S, tx.domain, tx.price)
  ELSE S

ApplyDelist(S, tx, slot) ==
  IF /\ Phase(S, tx.domain, slot) = "active"
     /\ IsForSale(S, tx.domain)
     /\ S.dom[tx.domain].owner = tx.owner
  THEN SetListPrice(S, tx.domain, 0)
  ELSE S

\* The conditions of applyBuyDomain short of the buyer's balance.
BuyIsOpen(S, tx, slot) ==
  /\ Phase(S, tx.domain, slot) = "active"
  /\ IsForSale(S, tx.domain)
  /\ S.dom[tx.domain].owner # tx.owner
  /\ tx.price >= S.dom[tx.domain].price

\* Mutant: the seller is paid and the buyer keeps the coins.
BuyForFree(S, tx, slot) ==
  IF BuyIsOpen(S, tx, slot)
  THEN SetListPrice(
         SetOwner([S EXCEPT !.bal = Credit(@, S.dom[tx.domain].owner,
                                           S.dom[tx.domain].price)],
                  tx.domain, tx.owner),
         tx.domain, 0)
  ELSE S

ApplyBuyDomain(S, tx, slot) ==
  LET seller == S.dom[tx.domain].owner
      price  == S.dom[tx.domain].price
  IN  IF BuyIsOpen(S, tx, slot) /\ CanDebit(S.bal, tx.owner, price)
      THEN SetListPrice(
             SetOwner([S EXCEPT !.bal = Credit(Debit(@, tx.owner, price),
                                               seller, price)],
                      tx.domain, tx.owner),
             tx.domain, 0)
      ELSE S

ApplyTransferDomain(S, tx, slot) ==
  IF /\ Phase(S, tx.domain, slot) = "active"
     /\ S.dom[tx.domain].owner = tx.owner
  THEN SetListPrice(SetOwner(S, tx.domain, tx.recipient), tx.domain, 0)
  ELSE S

ApplyDomainMutations(L, S, tx, slot, index) ==
  CASE tx.type = "REGISTER" -> ApplyRegister(S, tx, slot)
    [] tx.type = "COMMIT"   -> ApplyCommit(S, tx, slot, index)
    [] tx.type = "REVEAL"   -> ApplyReveal(S, tx, slot)
    [] tx.type = "REVOKE"   -> ApplyRevoke(L, S, tx, slot)
    [] tx.type = "UPDATE"   -> ApplyUpdate(L, S, tx, slot)
    [] tx.type = "RENEW"    -> ApplyRenew(L, S, tx, slot)
    [] tx.type = "LIST"     -> ApplyList(S, tx, slot)
    [] tx.type = "DELIST"   -> ApplyDelist(S, tx, slot)
    [] tx.type = "BUY"      -> ApplyBuyDomain(S, tx, slot)
    [] tx.type = "TRANSFER" -> ApplyTransferDomain(S, tx, slot)
    [] OTHER                -> S

=============================================================================
