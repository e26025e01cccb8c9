------------------------- MODULE ValidatorProperties -------------------------
(***************************************************************************)
(* What a validating node must guarantee, whatever blocks reach it.        *)
(***************************************************************************)
EXTENDS ValidatorNode, BlockRules, FiniteSets, Functions

\* Type invariant: the variables keep the shapes of the Go structures; in
\* particular no shadow balance or stake goes negative (they are uint64 in
\* ValidateTransactions), and a block in progress is one that was received.
TypeOK ==
  /\ live \in States /\ staged \in States
  /\ chain \in Seq(Blocks \cup {Genesis}) /\ chain # <<>>
  /\ pc \in {"idle", "gates", "ledger", "domain", "stake"}
  /\ blk \in Blocks \cup {Genesis} /\ (pc # "idle" => blk \in Blocks)
  /\ i \in 1 .. Len(blk.txs) + 1
  /\ shadows \in Seq(Shadows)
  /\ fees \in Nat

\* Every transaction behind the loop counter of the gates, and after the gates
\* every transaction of the block, passed its gates, and the shadow maps are
\* the ones those transactions left (block.go:413-1112).  TypeOK /\ GatesHeld
\* is inductive, TypeOK alone is not.
GatesHeld ==
  pc # "idle" =>
    /\ Len(shadows) = IF pc = "gates" THEN i ELSE Len(blk.txs) + 1
    /\ shadows[1] = InitShadow(View)
    /\ \A j \in 1 .. Len(shadows) - 1 :
         /\ GateTx(View, shadows[j], blk.txs[j], GateContext)
         /\ shadows[j + 1] = ShadowAfter(View, shadows[j], blk.txs[j])

-----------------------------------------------------------------------------
(* The passes after the gates do what the gates allowed *)

\* What the ledger pass takes from the owner of tx.
LedgerCost(tx) ==
  tx.fee + (CASE tx.type = "FUND"  -> tx.price
              [] tx.type = "STAKE" -> tx.amount
              [] OTHER             -> 0)

\* Gate 2 works on shadow balances, the ledger pass on the staging clone, and
\* ApplyLedgerMutations ignores a failed Debit (apply.go:17-34) although the
\* leader is credited with every fee.  No debit of the pass can fail, however
\* the transactions of a block interact.
DebitsCovered ==
  pc = "ledger" /\ ~AtEnd /\ Tx.owner # None
    => CanDebit(staged.bal, Tx.owner, LedgerCost(Tx))

\* The staging ledger and the shadow maps, side by side: until the ledger pass
\* starts the clone is untouched, and during it no account has less than its
\* shadow says, nor another nonce.  (An account has more when it is the
\* recipient of a FUND or the buyer of a BUY still to come.)
LedgerAgrees ==
  /\ pc = "gates" => staged.bal = live.bal /\ staged.nonce = live.nonce
  /\ pc = "ledger" => /\ staged.nonce = shadows[i].nonce
                      /\ \A k \in Keys : staged.bal[k] >= shadows[i].bal[k]

\* The block renews and revokes nothing.  A RENEW or REVOKE can bring a name
\* back to life in the middle of a block.
NothingRevived == \A j \in DOMAIN blk.txs : blk.txs[j].type \notin {"RENEW", "REVOKE"}

\* A BUY is paid in the domain pass, after all fees, FUNDs and STAKEs of the
\* block were taken.  If the sale is still open then, the price is the one that
\* the gates compared with the buyer's balance, and the buyer can pay it, so
\* applyBuyDomain (apply.go:294-328) never stops at the balance check.  (Not so
\* in a block that revives a name: the pass skips the LIST of a name that an
\* UPDATE has just ended, the gates do not, and after a RENEW the older price
\* stands.)
BuyCovered ==
  /\ pc = "domain" /\ ~AtEnd /\ Tx.type = "BUY" /\ BuyIsOpen(staged, Tx, blk.slot)
  /\ NothingRevived
  => /\ staged.dom[Tx.domain].price = shadows[i].forSale[Tx.domain]
     /\ CanDebit(staged.bal, Tx.owner, staged.dom[Tx.domain].price)

\* LIST, DELIST, BUY and TRANSFER read ExpirySlot of the domain without a nil
\* check (apply.go:213-214, 233-234, 297-298, 334-335).  When the domain pass
\* reaches one of them the overlay has the domain.
MarketFindsDomain ==
  pc = "domain" /\ ~AtEnd /\ Tx.type \in MarketTypes => Exists(staged, Tx.domain)

\* A REVEAL that the gates accepted is carried out: its COMMIT is still
\* pending and the name still free when the domain pass reaches it, so no
\* registration fee is taken for nothing (apply.go:119-148).
RevealTakesEffect ==
  pc = "domain" /\ ~AtEnd /\ Tx.type = "REVEAL"
    => ApplyReveal(staged, Tx, blk.slot) # staged

-----------------------------------------------------------------------------
(* The accepted chain *)

Positions == UNION {{b} \X DOMAIN chain[b].txs : b \in DOMAIN chain}
TxAt(p) == chain[p[1]].txs[p[2]]

\* No transaction of an account is executed twice, within a block, in a later
\* block or after a replay by a peer (Gate 3, block.go:692-702).
NoReplay ==
  \A p, q \in Positions :
    TxAt(p) = TxAt(q) /\ TxAt(p).owner # None => p = q

\* An equivocation is punished once, whoever reports it and however often
\* (block.go:1061-1069, apply.go:60-63).
OffencePunishedOnce ==
  \A p, q \in Positions :
    /\ TxAt(p).type = "EQUIVOCATION_PROOF" /\ TxAt(q).type = "EQUIVOCATION_PROOF"
    /\ OffenceOf(TxAt(p)) = OffenceOf(TxAt(q))
    => p = q

\* p holds the COMMIT that the REVEAL at q answers.
Answers(p, q) ==
  /\ TxAt(p).type = "COMMIT"
  /\ TxAt(p).hash = RevealHash(TxAt(q))
  /\ TxAt(p).tid = TxAt(q).redeems

\* Every accepted REVEAL answers a COMMIT of the same key that is at least
\* CommitMinDelay slots and at most CommitMaxWindow blocks older, and no
\* COMMIT is answered twice (block.go:885-958, commit.go:158-181).  These are
\* the code's units: the delay is a difference of slots, as README.md:76 says
\* and config.go:32 ("number of blocks") and gatewaySim.go:160 do not; the
\* window is a difference of block indices, as config.go:35 says and README.md:77
\* ("100 slots") does not.  The units part where slots are skipped.
CommitBeforeReveal ==
  LET Reveals == {q \in Positions : TxAt(q).type = "REVEAL"}
  IN  /\ \A q \in Reveals : \E p \in Positions :
           /\ Answers(p, q)
           /\ TxAt(p).owner = TxAt(q).owner
           /\ chain[q[1]].slot - chain[p[1]].slot >= CommitMinDelay
           /\ chain[q[1]].index - chain[p[1]].index <= CommitMaxWindow
      /\ \A p \in Positions, q, r \in Reveals :
           Answers(p, q) /\ Answers(p, r) => q = r

-----------------------------------------------------------------------------
(* The promoted state *)

\* The transaction that defines an active domain has not been redeemed: it can
\* be updated, renewed or revoked next.  A head marked as spent freezes the name
\* (block.go:496-505).  That is what an auto-revocation does to it on purpose or
\* not: it bears the TID it redeems (node_leader.go:288-295), so apply.go:176-180
\* adds again what it has just spent.  Only names that are no longer active are
\* frozen in this way, and only a new registration brings them back.
HeadUnspent ==
  \A d \in Domains :
    Exists(live, d) /\ live.dom[d].tid \in live.spent
      => Phase(live, d, Tip.slot) # "active"

OffendersIn(slashed) == {o[2] : o \in slashed}
AboveFloor(n) == n = 0 \/ n >= MinStakeThreshold

\* A validator that was never slashed has no stake or at least
\* MinStakeThreshold, through any mix of STAKE and UNSTAKE in a block
\* (block.go:984-1034).
StakeFloor ==
  \A k \in Keys \ OffendersIn(live.slashed) : AboveFloor(live.stake[k])

\* Staging stake and shadow stake, side by side: the clone is untouched until
\* the stake pass, and during it every key without a recorded offence has
\* exactly its shadow stake.  The gates checked the minimum on the shadows.
StakeAgrees ==
  /\ pc \in {"gates", "ledger", "domain"} =>
       staged.stake = live.stake /\ staged.slashed = live.slashed
  /\ pc = "stake" =>
       \A k \in Keys \ OffendersIn(staged.slashed) :
         staged.stake[k] = shadows[i].stake[k] /\ AboveFloor(staged.stake[k])

-----------------------------------------------------------------------------
(* What accepting a block may do *)

\* Some order of the keys, each of them once.
KeyOrder == CHOOSE s \in Bijection(1 .. Cardinality(Keys), Keys) : TRUE

\* The coins that f gives to the first n keys of that order, and to all of them.
TotalLoop(f) ==
  LET sum[n \in 0 .. Cardinality(Keys)] ==
        IF n = 0 THEN 0 ELSE sum[n - 1] + f[KeyOrder[n]]
  IN  sum

Total(f) == TotalLoop(f)[Cardinality(Keys)]

Supply(S) ==
  Total(S.bal) + Total(S.stake)
    + Total([k \in Keys |-> GetPendingStake(S.queue, k)])

Proofs(b) == {j \in DOMAIN b.txs : b.txs[j].type = "EQUIVOCATION_PROOF"}

\* Accepting a block creates no coins.  Fees, sales, funding, staking and
\* unstaking only move them: what disappears is what SweepMature drops and,
\* if the block reports an equivocation, what is slashed.
CoinsAccounted ==
  [][chain' # chain =>
       LET kept == Supply([live EXCEPT !.queue = SweepMature(@, blk.slot)])
       IN  /\ Supply(live') <= kept
           /\ Proofs(blk) = {} => Supply(live') = kept]_vars

Signed(k) == \E j \in DOMAIN blk.txs : blk.txs[j].owner = k /\ blk.txs[j].signer = k

Accused(k) ==
  \E j \in DOMAIN blk.txs :
    blk.txs[j].type = "EQUIVOCATION_PROOF" /\ OffenceOf(blk.txs[j])[2] = k

\* Nobody's coins are touched behind their back: a balance falls only if its
\* owner signed a transaction of the block, a stake only if its owner did or
\* an equivocation of theirs was proved.
CoinsLeaveBySignature ==
  [][chain' # chain =>
       \A k \in Keys :
         /\ live'.bal[k] < live.bal[k] => Signed(k)
         /\ live'.stake[k] < live.stake[k] => Signed(k) \/ Accused(k)]_vars

\* The block holds a transaction on d of type t.
BlockHas(t, d) ==
  \E j \in DOMAIN blk.txs : blk.txs[j].domain = d /\ blk.txs[j].type = t

\* The ways in which k may stop being the owner of d in the current block.
GivesUp(k, d) ==
  \/ blk.slot >= live.dom[d].expiry + GraceSlots /\ BlockHas("REVEAL", d)
  \/ \E j \in DOMAIN blk.txs :
       /\ blk.txs[j].domain = d
       /\ blk.txs[j].owner = k /\ blk.txs[j].signer = k
       /\ blk.txs[j].type \in {"TRANSFER", "LIST"}
  \/ IsForSale(live, d) /\ BlockHas("BUY", d)

\* A domain changes hands only if its grace period is over and it is
\* registered anew, or it was for sale and is bought, or its owner signed a
\* TRANSFER or a LIST of it in the block (a LIST may be followed by a BUY).  An
\* owner who ends a registration with an UPDATE or a REVOKE keeps the name for
\* the rest of the block: a REVEAL is judged by the live index, not by what the
\* block has done to it.
\* A price that is left over from an earlier registration of the name
\* (index_overlay.go:46) counts as an offer here, as it does in the code.
OwnerLosesByConsent ==
  [][chain' # chain =>
       \A d \in Domains :
         LET k == live.dom[d].owner
         IN  k # None /\ live'.dom[d].owner # k => GivesUp(k, d)]_vars

-----------------------------------------------------------------------------
(* The node as a whole *)

Abstract == INSTANCE AtomicChain
              WITH Origin <- GenesisState, Root <- Genesis, Offers <- Arrivals,
                   GatesAccept <- GatesAccept, Executed <- Executed

\* Refinement: seen from outside, Node.AddBlock (node_helper.go:27-90) is
\* atomic.  Whatever happens between receiving a block and the last hash
\* comparison, the node either keeps its chain and state or appends the block
\* and holds exactly the state that executing the whole block yields: no
\* rejected block leaves a trace in the live ledger, stake map, unstake queue,
\* evidence, index or commit store.
BlocksAreAtomic == Abstract!Spec

-----------------------------------------------------------------------------
(* What the documentation says and the code does not do *)

\* README.md:66, "unbonding delay before becoming liquid": unless a block
\* slashes somebody, no coin disappears; matured unstakes become liquid.
CoinsConserved ==
  [][chain' # chain /\ Proofs(blk) = {} => Supply(live') = Supply(live)]_vars

=============================================================================
