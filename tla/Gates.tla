-------------------------------- MODULE Gates --------------------------------
(***************************************************************************)
(* One iteration of ValidateTransactions (internal/blockchain/block.go),   *)
(* the "3-gate" validation shared by the mempool and by block validation.  *)
(*                                                                         *)
(* V is the state the gates read (the live ledger, stake map, unstake      *)
(* queue and index, and the commit overlay after PurgeExpired); sh is the  *)
(* record of shadow maps that accumulates the effects of the transactions  *)
(* accepted so far; c is the context [slot, inBlock, leader].              *)
(*                                                                         *)
(* The Go shadow maps start empty and fall back to V for a missing key.    *)
(* Here a shadow starts as a copy of what it would fall back to, which     *)
(* reads the same because V does not change during the loop.               *)
(***************************************************************************)
EXTENDS Apply

Shadows ==
  [nonce      : [Keys -> Nat],
   bal        : [Keys -> Nat],
   spent      : SUBSET Nat,
   forSale    : [Domains -> Nat],
   registered : SUBSET Domains,
   owner      : [Domains -> Keys \cup {None}],
   txs        : SUBSET (Nat \X (Domains \cup {None})),
   stake      : [Keys -> Nat],
   pending    : [Keys -> Nat],
   burn       : [Keys -> U64],
   offences   : SUBSET Offences,
   commit     : SUBSET CommitHashes]

InitShadow(V) ==
  [nonce      |-> V.nonce,
   bal        |-> V.bal,
   spent      |-> {},
   forSale    |-> [d \in Domains |-> V.dom[d].price],
   registered |-> {},
   owner      |-> [d \in Domains |-> V.dom[d].owner],
   txs        |-> {},
   stake      |-> V.stake,
   pending    |-> [k \in Keys |-> 0],
   burn       |-> [k \in Keys |-> 0],
   offences   |-> {},
   commit     |-> {}]

-----------------------------------------------------------------------------
(* Gate 1: signature and structure *)

\* Mutant: signatures are not verified.
AnySignature(tx) == TRUE

SignatureGate(tx) == tx.owner # None => tx.signer = tx.owner

PoSFieldHygiene(tx) ==
  /\ tx.type \in PoSTypes => /\ tx.domain = None /\ tx.records = None
                             /\ tx.redeems = 0   /\ tx.recipient = None
  /\ tx.type \in {"STAKE", "UNSTAKE"} => tx.evidence = NoEvidence
  /\ tx.type = "EQUIVOCATION_PROOF" => tx.amount = 0

LegacyFieldHygiene(tx) ==
  tx.type \notin PoSTypes => tx.amount = 0 /\ tx.evidence = NoEvidence

RegisterDeprecated(tx) == tx.type # "REGISTER"

CommitFieldHygiene(tx) ==
  tx.type \notin {"COMMIT", "REVEAL"} => tx.hash = NoHash /\ tx.salt = None

RedeemTypes == {"REGISTER", "UPDATE", "RENEW", "REVOKE", "REVEAL"}

Redeems(tx) == tx.redeems # 0 /\ tx.type \in RedeemTypes

\* The redeemed transaction, from this batch if it is there, else from the
\* index, must belong to the same domain.
DomainAffinity(V, sh, tx) ==
  IF \E p \in sh.txs : p[1] = tx.redeems
  THEN <<tx.redeems, tx.domain>> \in sh.txs
  ELSE tx.domain \in HolderOf(V, tx.redeems)

RedeemGate(V, sh, tx) ==
  Redeems(tx) => /\ tx.redeems \notin sh.spent
                 /\ tx.redeems \notin V.spent
                 /\ tx.type \notin {"REGISTER", "REVEAL"} =>
                      DomainAffinity(V, sh, tx)

StructuralGate(tx) ==
  /\ tx.type = "LIST" => tx.price > 0
  /\ tx.type \in {"REGISTER", "UPDATE", "RENEW"} => tx.records # None
  /\ tx.type = "TRANSFER" => tx.recipient # None
  /\ tx.type = "REGISTER" => tx.redeems = 0
  /\ tx.type \in {"UPDATE", "RENEW", "REVOKE"} => tx.redeems # 0

CommitGate(V, sh, tx) ==
  tx.type = "COMMIT" =>
    /\ IsRegistryKey(tx.owner)
    /\ tx.hash # NoHash
    /\ tx.domain = None /\ tx.records = None
    /\ tx.redeems = 0   /\ tx.salt = None
    /\ tx.hash \notin sh.commit
    /\ ~HasCommit(V, tx.hash)

MarketPhaseGate(V, sh, tx, c) ==
  tx.type \in MarketTypes =>
    \/ tx.domain \in sh.registered
    \/ Exists(V, tx.domain) /\ Phase(V, tx.domain, c.slot) = "active"

StructureOK(V, sh, tx, c) ==
  /\ SignatureGate(tx)
  /\ PoSFieldHygiene(tx)
  /\ LegacyFieldHygiene(tx)
  /\ RegisterDeprecated(tx)
  /\ CommitFieldHygiene(tx)
  /\ RedeemGate(V, sh, tx)
  /\ StructuralGate(tx)
  /\ CommitGate(V, sh, tx)
  /\ MarketPhaseGate(V, sh, tx, c)

-----------------------------------------------------------------------------
(* Auto-revocations carry no owner and skip the gates below *)

AutoRevokeGate(sh, tx, c) ==
  /\ tx.type = "REVOKE"
  /\ c.inBlock
  /\ tx.signer = c.leader
  /\ tx.domain \notin sh.registered

-----------------------------------------------------------------------------
(* Gate 2: fee and balance; Gate 3: nonce *)

FeeGate(tx) == tx.fee >= MinFee

FundGate(sh, tx) ==
  LET totalNeeded == AddU64(tx.fee, tx.price)
  IN  tx.type = "FUND" =>
        /\ IsRegistryKey(tx.owner)
        /\ tx.price > 0 /\ tx.recipient # None
        /\ totalNeeded >= tx.fee /\ totalNeeded >= tx.price
        /\ sh.bal[tx.owner] >= totalNeeded

BalanceGate(sh, tx) == sh.bal[tx.owner] >= tx.fee

\* Mutant: an old nonce is accepted.
NonceNotAhead(sh, tx) == tx.nonce <= sh.nonce[tx.owner]

NonceGate(sh, tx) == tx.nonce = sh.nonce[tx.owner]

-----------------------------------------------------------------------------
(* Domain gates *)

BuyGate(sh, tx) ==
  tx.type = "BUY" =>
    LET listPrice == sh.forSale[tx.domain]
    IN  /\ listPrice > 0
        /\ sh.bal[tx.owner] - tx.fee >= listPrice
        /\ tx.price >= listPrice
        /\ sh.owner[tx.domain] # tx.owner

ListGate(sh, tx) ==
  tx.type \in {"LIST", "DELIST"} =>
    /\ sh.owner[tx.domain] = tx.owner
    /\ tx.type = "DELIST" => sh.forSale[tx.domain] > 0

\* The domain exists and is not purged, or was registered in this batch.
NotPurged(V, sh, tx, c) ==
  \/ tx.domain \in sh.registered
  \/ Exists(V, tx.domain) /\ Phase(V, tx.domain, c.slot) # "purged"

UpdateRevokeGate(V, sh, tx, c) ==
  tx.type \in {"UPDATE", "REVOKE"} =>
    NotPurged(V, sh, tx, c) /\ sh.owner[tx.domain] = tx.owner

RenewGate(V, sh, tx, c) ==
  tx.type = "RENEW" => NotPurged(V, sh, tx, c) /\ IsRegistryKey(tx.owner)

\* Mutant: R4 is missing.
AnyName(V, sh, tx, c, commitSlot) == TRUE

\* Gate R4 and R4b: the name is free, and the COMMIT postdates the purge.
DomainAvailable(V, sh, tx, c, commitSlot) ==
  /\ tx.domain \notin sh.registered
  /\ Exists(V, tx.domain) =>
       /\ Phase(V, tx.domain, c.slot) = "purged"
       /\ commitSlot >= ComputePurgeSlot(V.dom[tx.domain].expiry)

\* Mutant: the REVEAL may follow its COMMIT at once.
RevealAtOnce(V, sh, tx, c) ==
  tx.type = "REVEAL" =>
    /\ IsRegistryKey(tx.owner)
    /\ tx.hash = NoHash
    /\ tx.recipient # None
    /\ HasCommit(V, RevealHash(tx)) /\ RevealHash(tx) \notin sh.commit
    /\ LET rec == CommitOf(V, RevealHash(tx))
       IN  /\ tx.redeems = rec.tid
           /\ tx.owner = rec.committer
           /\ DomainAvailable(V, sh, tx, c, rec.slot)

RevealGate(V, sh, tx, c) ==
  tx.type = "REVEAL" =>
    /\ IsRegistryKey(tx.owner)
    /\ tx.hash = NoHash
    /\ tx.recipient # None
    /\ HasCommit(V, RevealHash(tx)) /\ RevealHash(tx) \notin sh.commit
    /\ LET rec == CommitOf(V, RevealHash(tx))
       IN  /\ tx.redeems = rec.tid
           /\ tx.owner = rec.committer
           /\ c.slot - rec.slot >= CommitMinDelay
           /\ DomainAvailable(V, sh, tx, c, rec.slot)

TransferGate(sh, tx) ==
  tx.type = "TRANSFER" => sh.owner[tx.domain] = tx.owner

-----------------------------------------------------------------------------
(* Gate 3.5: stake *)

StakeGate(sh, tx) ==
  tx.type = "STAKE" =>
    /\ tx.amount > 0
    /\ sh.stake[tx.owner] = 0 => tx.amount >= MinStakeThreshold
    /\ AddU64(tx.fee, tx.amount) >= tx.fee
    /\ sh.bal[tx.owner] - tx.fee >= tx.amount

\* Mutant: more than the stake may be taken out.
UnstakeAnything(sh, tx) ==
  tx.type = "UNSTAKE" =>
    LET remaining == sh.stake[tx.owner] - tx.amount
    IN  /\ tx.amount > 0
        /\ remaining > 0 => remaining >= MinStakeThreshold

\* Mutant: what remains may be below the minimum.
UnstakeBelowMinimum(sh, tx) ==
  tx.type = "UNSTAKE" => tx.amount > 0 /\ sh.stake[tx.owner] >= tx.amount

UnstakeGate(sh, tx) ==
  tx.type = "UNSTAKE" =>
    LET remaining == sh.stake[tx.owner] - tx.amount
    IN  /\ tx.amount > 0
        /\ remaining >= 0
        /\ remaining > 0 => remaining >= MinStakeThreshold

\* What the gate believes can still be slashed: the shadow stake and the
\* queued coins, in uint64 arithmetic.
QueuePart(V, sh, k) ==
  SubU64(GetPendingStake(V.queue, k) + sh.pending[k], sh.burn[k])

TotalSlashable(V, sh, k) == AddU64(sh.stake[k], QueuePart(V, sh, k))

\* Mutant: the evidence is checked, not whether it was used before.
EvidenceOnly(V, sh, tx) ==
  tx.type = "EQUIVOCATION_PROOF" =>
    /\ tx.evidence # NoEvidence
    /\ tx.evidence[1].index = tx.evidence[2].index
    /\ tx.evidence[1].leader = tx.evidence[2].leader
    /\ tx.evidence[1].hash # tx.evidence[2].hash

EquivocationGate(V, sh, tx) ==
  tx.type = "EQUIVOCATION_PROOF" =>
    /\ tx.evidence # NoEvidence
    /\ LET a == tx.evidence[1]
           b == tx.evidence[2]
       IN  /\ a.index = b.index
           /\ a.leader = b.leader
           /\ a.hash # b.hash
           /\ a.signed /\ b.signed
    /\ OffenceOf(tx) \notin V.slashed \cup sh.offences
    /\ TotalSlashable(V, sh, OffenceOf(tx)[2]) > 0

-----------------------------------------------------------------------------
(* The gates of one transaction *)

GateTx(V, sh, tx, c) ==
  /\ StructureOK(V, sh, tx, c)
  /\ IF tx.owner = None
     THEN AutoRevokeGate(sh, tx, c)
     ELSE /\ FeeGate(tx)
          /\ FundGate(sh, tx)
          /\ BalanceGate(sh, tx)
          /\ NonceGate(sh, tx)
          /\ BuyGate(sh, tx)
          /\ ListGate(sh, tx)
          /\ UpdateRevokeGate(V, sh, tx, c)
          /\ RenewGate(V, sh, tx, c)
          /\ RevealGate(V, sh, tx, c)
          /\ TransferGate(sh, tx)
          /\ StakeGate(sh, tx)
          /\ UnstakeGate(sh, tx)
          /\ EquivocationGate(V, sh, tx)

-----------------------------------------------------------------------------
(* What an accepted transaction leaves in the shadow maps *)

\* Mutant: only the fee is taken from the shadow balance.
BalanceAfterFee(sh, tx) == sh.bal[tx.owner] - tx.fee

BalanceAfter(sh, tx) ==
  sh.bal[tx.owner] - tx.fee
    - (CASE tx.type = "FUND"  -> tx.price
         [] tx.type = "BUY"   -> sh.forSale[tx.domain]
         [] tx.type = "STAKE" -> tx.amount
         [] OTHER             -> 0)

SpentAfter(sh, tx) == IF Redeems(tx) THEN sh.spent \cup {tx.redeems} ELSE sh.spent

ForSaleAfter(sh, tx) ==
  CASE tx.type = "LIST" -> [sh.forSale EXCEPT ![tx.domain] = tx.price]
    [] tx.type \in {"BUY", "DELIST", "TRANSFER"} ->
         [sh.forSale EXCEPT ![tx.domain] = 0]
    [] OTHER -> sh.forSale

OwnerAfter(sh, tx) ==
  CASE tx.type \in {"REVEAL", "TRANSFER"} ->
         [sh.owner EXCEPT ![tx.domain] = tx.recipient]
    [] tx.type = "BUY" -> [sh.owner EXCEPT ![tx.domain] = tx.owner]
    [] OTHER -> sh.owner

CommitAfter(sh, tx) ==
  CASE tx.type = "COMMIT" -> sh.commit \cup {tx.hash}
    [] tx.type = "REVEAL" -> sh.commit \cup {RevealHash(tx)}
    [] OTHER -> sh.commit

SlashAmount(V, sh, k) ==
  ComputeSlashAmount(TotalSlashable(V, sh, k), SlashingPercent)

\* The part of a slash that exceeds the stake and falls on queued coins.
Excess(V, sh, k) ==
  IF SlashAmount(V, sh, k) <= sh.stake[k] THEN 0
  ELSE SlashAmount(V, sh, k) - sh.stake[k]

StakeAfter(V, sh, tx) ==
  CASE tx.type = "STAKE"   -> [sh.stake EXCEPT ![tx.owner] = @ + tx.amount]
    [] tx.type = "UNSTAKE" -> [sh.stake EXCEPT ![tx.owner] = @ - tx.amount]
    [] tx.type = "EQUIVOCATION_PROOF" ->
         LET k == OffenceOf(tx)[2]
         IN  [sh.stake EXCEPT ![k] = IF SlashAmount(V, sh, k) <= @
                                     THEN @ - SlashAmount(V, sh, k) ELSE 0]
    [] OTHER -> sh.stake

PendingAfter(V, sh, tx) ==
  CASE tx.type = "UNSTAKE" -> [sh.pending EXCEPT ![tx.owner] = @ + tx.amount]
    [] tx.type = "EQUIVOCATION_PROOF" ->
         LET k == OffenceOf(tx)[2]
         IN  [sh.pending EXCEPT ![k] = IF @ > Excess(V, sh, k)
                                       THEN @ - Excess(V, sh, k) ELSE 0]
    [] OTHER -> sh.pending

BurnAfter(V, sh, tx) ==
  IF tx.type = "EQUIVOCATION_PROOF"
  THEN LET k == OffenceOf(tx)[2]
       IN  [sh.burn EXCEPT ![k] = AddU64(@, Excess(V, sh, k))]
  ELSE sh.burn

OffencesAfter(sh, tx) ==
  IF tx.type = "EQUIVOCATION_PROOF" THEN sh.offences \cup {OffenceOf(tx)}
  ELSE sh.offences

ShadowAfter(V, sh, tx) ==
  IF tx.owner = None THEN [sh EXCEPT !.spent = SpentAfter(sh, tx)]
  ELSE [nonce      |-> [sh.nonce EXCEPT ![tx.owner] = @ + 1],
        bal        |-> [sh.bal EXCEPT ![tx.owner] = BalanceAfter(sh, tx)],
        spent      |-> SpentAfter(sh, tx),
        forSale    |-> ForSaleAfter(sh, tx),
        registered |-> IF tx.type = "REVEAL"
                       THEN sh.registered \cup {tx.domain} ELSE sh.registered,
        owner      |-> OwnerAfter(sh, tx),
        txs        |-> IF tx.type \in ShadowTxTypes
                       THEN sh.txs \cup {<<tx.tid, tx.domain>>} ELSE sh.txs,
        stake      |-> StakeAfter(V, sh, tx),
        pending    |-> PendingAfter(V, sh, tx),
        burn       |-> BurnAfter(V, sh, tx),
        offences   |-> OffencesAfter(sh, tx),
        commit     |-> CommitAfter(sh, tx)]

=============================================================================
