----------------------------- MODULE MCValidator -----------------------------
(***************************************************************************)
(* Small instances of the validating node.  A scenario is a menu of        *)
(* transactions that the keys of the instance sign, and the bounds that    *)
(* let them meet: blocks carry any of them in any order, repetitions       *)
(* included.  A behaviour stays in the scenario it starts with, which      *)
(* keeps apart what does not interact; every step is a step of             *)
(* ValidatorNode, with the blocks taken from the menu.                     *)
(***************************************************************************)
EXTENDS ValidatorProperties

CONSTANT Scenarios

VARIABLE scenario   \* [txs, slots, blocks, size]: what may arrive

Balances(r, u, w) ==
  [k \in Keys |-> CASE k = "reg" -> r [] k = "usr" -> u [] OTHER -> w]

\* The registry is rich; the others can pay for some of what they sign.
Tight == Balances(8, 2, 4)

-----------------------------------------------------------------------------
(* Coins: funding, staking, unstaking and slashing *)

Block(height, leader, hash) ==
  [index |-> height, leader |-> leader, hash |-> hash, signed |-> TRUE]

Proof(tid, height, offender, nonce) ==
  NewEquivocationProofTransaction(tid, Block(height, offender, 1),
    Block(height, offender, 2), "reg", 1, nonce)

\* A transaction that carries another key's signature.
Missigned(tx, k) == [tx EXCEPT !.signer = k]

CoinTxs == {
  Missigned(NewFundTransaction(9, "own", 1, "reg", 1, 0), "usr"),
  NewFundTransaction(1, "usr", 5, "reg", 1, 0),
  NewFundTransaction(2, "usr", 2, "reg", 1, 1),
  Proof(3, 1, "usr", 1),
  Proof(4, 1, "usr", 2),
  NewStakeTransaction(5, 2, "usr", 1, 0),
  NewStakeTransaction(6, 1, "usr", 1, 1),
  NewUnstakeTransaction(7, 1, "usr", 1, 1),
  NewUnstakeTransaction(8, 2, "usr", 1, 1)}

-----------------------------------------------------------------------------
(* Names: registration, market, update *)

Commit(tid, salt, nonce) == NewCommitTransaction(tid, "dom", salt, "reg", 1, nonce)

\* A REVEAL made at "slot" for a registration of "year" slots.
Reveal(tid, salt, slot, year, commitTID, recipient, nonce) ==
  NewRevealTransaction(tid, "dom", salt, "A", slot, year, commitTID, "reg",
                       recipient, 1, nonce)

Update(tid, redeems, k, nonce) ==
  NewTransaction(tid, "UPDATE", "dom", "B", redeems, k, 1, nonce)

Revoke(tid, redeems, k, nonce) ==
  NewTransaction(tid, "REVOKE", "dom", None, redeems, k, 1, nonce)

Renew(tid, oldExpiry, year, redeems, nonce) ==
  NewRenewTransaction(tid, "dom", "A", oldExpiry, year, redeems, "reg", 1, nonce)

\* The unowned REVOKE of a purge slot, signed by the leader: it bears the TID
\* that it redeems.
AutoRevoke(redeems, expiry) ==
  [NewTransaction(redeems, "REVOKE", "dom", None, redeems, None, 0, 0) EXCEPT
     !.signer = "reg", !.expiry = expiry]

MarketTxs == {
  Commit(21, "s1", 0),
  Reveal(22, "s1", 1, 5, 21, "usr", 1),
  NewListTransaction(23, "dom", 2, 22, "usr", 1, 0),
  NewDelistTransaction(24, "dom", 22, "usr", 1, 1),
  NewTransferTransaction(25, "dom", "own", 22, "usr", 1, 1),
  NewBuyTransaction(26, "dom", 2, 22, "own", 1, 0),
  NewStakeTransaction(27, 2, "own", 1, 1),
  Missigned(NewTransferTransaction(28, "dom", "own", 22, "usr", 1, 0), "own")}

LifeTxs == {
  Commit(31, "s1", 0),
  Reveal(32, "s1", 1, 3, 31, "usr", 1),
  Renew(33, 4, 2, 32, 2),
  Revoke(34, 32, "usr", 0),
  AutoRevoke(32, 4),
  Update(36, 32, "usr", 0),
  Commit(37, "s2", 2),
  Reveal(38, "s2", 7, 5, 37, "own", 3)}

-----------------------------------------------------------------------------
(* A stake that is queued for withdrawal, while other blocks pass *)

UnstakeTxs == {
  NewFundTransaction(41, "usr", 3, "reg", 1, 0),
  NewStakeTransaction(42, 2, "usr", 1, 0),
  NewUnstakeTransaction(43, 2, "usr", 1, 1),
  NewFundTransaction(44, "own", 1, "reg", 1, 1),
  Proof(45, 1, "usr", 0)}

-----------------------------------------------------------------------------
(* The scenarios, and the node in one of them *)

Scenario(txs, slots, blocks, size) ==
  [txs |-> txs, slots |-> slots, blocks |-> blocks, size |-> size]

Validating == {Scenario(CoinTxs, 5, 3, 3), Scenario(MarketTxs, 7, 5, 3),
               Scenario(LifeTxs, 9, 5, 2)}

Unbonding == {Scenario(UnstakeTxs, 5, 4, 2)}

Menu == UNION {s.txs : s \in Scenarios}

ScenarioBlocks ==
  [index : 1 .. scenario.blocks, slot : 1 .. scenario.slots,
   leader : TrustedRegistries,
   txs : UNION {[1 .. n -> scenario.txs] : n \in 1 .. scenario.size}]

MCBlockArrives ==
  /\ pc = "idle"
  /\ \E b \in ScenarioBlocks : ReceiveBlock(b)

MCInit == Init /\ scenario \in Scenarios

MCNext ==
  /\ \/ MCBlockArrives
     \/ GatePass \/ GateReject \/ GatesDone
     \/ LedgerStep \/ LedgerDone
     \/ DomainStep \/ DomainDone
     \/ StakeStep \/ HashMismatch \/ AcceptBlock
  /\ UNCHANGED scenario

MCSpec == MCInit /\ [][MCNext]_<<vars, scenario>>

=============================================================================
