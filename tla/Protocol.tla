------------------------------ MODULE Protocol ------------------------------
(***************************************************************************)
(* The vocabulary of the BDNS chain: keys, transactions, blocks, the       *)
(* protocol constants of internal/blockchain/config.go and the pure        *)
(* functions on them.  Everything here is constant-level.                  *)
(*                                                                         *)
(* Data are abstracted to what the properties tell apart.  A hash or a     *)
(* serialised value is represented by the value itself, so that two hashes *)
(* are equal exactly when the hashed values are.  An absent key, name,     *)
(* record set or salt is the empty string, as in the Go code, where it is  *)
(* an empty slice or "".                                                   *)
(***************************************************************************)
EXTENDS Integers, Sequences

CONSTANTS
  Keys,               \* public keys (hex strings), e.g. {"r1", "u1"}
  TrustedRegistries,  \* the keys of config.go's TrustedRegistries
  Domains,            \* domain names
  Salts,              \* non-empty salts of COMMIT/REVEAL
  RecordSets,         \* non-empty DNS record sets
  MinStakeThreshold,  \* 100 in the code
  UnstakeDelaySlots,  \* 1000 in the code
  CommitMinDelay,     \* 3 in the code
  CommitMaxWindow,    \* 100 in the code
  GraceSlots,         \* GracePeriodDays * slotsPerDay
  MaxU64              \* the largest uint64, 2^64 - 1 in the code

None == ""

ASSUME NamesAssumption ==
  /\ None \notin Keys \cup Domains \cup Salts \cup RecordSets
  /\ TrustedRegistries \subseteq Keys

ASSUME LimitsAssumption ==
  /\ MinStakeThreshold \in Nat \ {0}
  /\ UnstakeDelaySlots \in Nat \ {0}
  /\ CommitMinDelay \in Nat \ {0}
  /\ CommitMaxWindow \in Nat \ {0}
  /\ GraceSlots \in Nat \ {0}
  /\ MaxU64 \in Nat \ {0}

SlashingPercent == 100
MinFee == 1

-----------------------------------------------------------------------------
(* uint64 arithmetic, where wrap-around can matter *)

U64 == 0 .. MaxU64
AddU64(a, b) == (a + b) % (MaxU64 + 1)
SubU64(a, b) == (a - b) % (MaxU64 + 1)

-----------------------------------------------------------------------------
(* Transactions.  One record type, as in transaction.go: the fields a type  *)
(* does not use are empty.  "signer" is the key whose signature the         *)
(* transaction carries.                                                     *)

TxTypes == {"REGISTER", "UPDATE", "REVOKE", "RENEW", "LIST", "BUY",
            "TRANSFER", "DELIST", "FUND", "COMMIT", "REVEAL",
            "STAKE", "UNSTAKE", "EQUIVOCATION_PROOF"}

MarketTypes == {"LIST", "DELIST", "BUY", "TRANSFER"}
PoSTypes    == {"STAKE", "UNSTAKE", "EQUIVOCATION_PROOF"}
ShadowTxTypes == {"REGISTER", "UPDATE", "RENEW", "REVOKE", "COMMIT", "REVEAL"}

\* What a COMMIT binds: domain, salt and the committing key.
CommitHashes == Domains \X Salts \X Keys
NoHash == <<>>

\* A block offered as evidence in an EQUIVOCATION_PROOF; "signed" says
\* whether its signature verifies under its own SlotLeader key.
EvidenceBlocks == [index : Nat, leader : Keys, hash : Nat, signed : BOOLEAN]
NoEvidence == <<>>
Offences == Nat \X Keys

Transactions ==
  [tid       : Nat,
   type      : TxTypes,
   signer    : Keys \cup {None},
   owner     : Keys \cup {None},
   fee       : U64,
   nonce     : U64,
   domain    : Domains \cup {None},
   records   : RecordSets \cup {None},
   expiry    : Nat,
   redeems   : Nat,
   price     : U64,
   recipient : Keys \cup {None},
   hash      : CommitHashes \cup {NoHash},
   salt      : Salts \cup {None},
   amount    : U64,
   evidence  : (EvidenceBlocks \X EvidenceBlocks) \cup {NoEvidence}]

\* A transaction of type t by key k with every optional field empty.
BlankTx(tid, t, k, fee, nonce) ==
  [tid |-> tid, type |-> t, signer |-> k, owner |-> k, fee |-> fee,
   nonce |-> nonce, domain |-> None, records |-> None, expiry |-> 0,
   redeems |-> 0, price |-> 0, recipient |-> None, hash |-> NoHash,
   salt |-> None, amount |-> 0, evidence |-> NoEvidence]

-----------------------------------------------------------------------------
(* The constructors of transaction.go.  "year" is 365 * slotsPerDay. *)

NewTransaction(tid, t, d, recs, redeems, k, fee, nonce) ==
  [BlankTx(tid, t, k, fee, nonce) EXCEPT
     !.domain = d, !.records = recs, !.redeems = redeems]

NewRenewTransaction(tid, d, recs, oldExpiry, year, redeems, k, fee, nonce) ==
  [BlankTx(tid, "RENEW", k, fee, nonce) EXCEPT
     !.domain = d, !.records = recs, !.expiry = oldExpiry + year,
     !.redeems = redeems]

NewListTransaction(tid, d, price, redeems, k, fee, nonce) ==
  [BlankTx(tid, "LIST", k, fee, nonce) EXCEPT
     !.domain = d, !.price = price, !.redeems = redeems]

NewBuyTransaction(tid, d, maxPrice, redeems, k, fee, nonce) ==
  [BlankTx(tid, "BUY", k, fee, nonce) EXCEPT
     !.domain = d, !.price = maxPrice, !.redeems = redeems]

NewTransferTransaction(tid, d, recipient, redeems, k, fee, nonce) ==
  [BlankTx(tid, "TRANSFER", k, fee, nonce) EXCEPT
     !.domain = d, !.recipient = recipient, !.redeems = redeems]

NewDelistTransaction(tid, d, redeems, k, fee, nonce) ==
  [BlankTx(tid, "DELIST", k, fee, nonce) EXCEPT
     !.domain = d, !.redeems = redeems]

NewFundTransaction(tid, recipient, amount, k, fee, nonce) ==
  [BlankTx(tid, "FUND", k, fee, nonce) EXCEPT
     !.price = amount, !.recipient = recipient]

NewStakeTransaction(tid, amount, k, fee, nonce) ==
  [BlankTx(tid, "STAKE", k, fee, nonce) EXCEPT !.amount = amount]

NewUnstakeTransaction(tid, amount, k, fee, nonce) ==
  [BlankTx(tid, "UNSTAKE", k, fee, nonce) EXCEPT !.amount = amount]

NewCommitTransaction(tid, d, salt, k, fee, nonce) ==
  [BlankTx(tid, "COMMIT", k, fee, nonce) EXCEPT !.hash = <<d, salt, k>>]

NewRevealTransaction(tid, d, salt, recs, slot, year, commitTID, k, to, fee, nonce) ==
  [BlankTx(tid, "REVEAL", k, fee, nonce) EXCEPT
     !.domain = d, !.records = recs, !.expiry = slot + year,
     !.redeems = commitTID, !.salt = salt, !.recipient = to]

NewEquivocationProofTransaction(tid, blockA, blockB, k, fee, nonce) ==
  [BlankTx(tid, "EQUIVOCATION_PROOF", k, fee, nonce) EXCEPT
     !.evidence = <<blockA, blockB>>]

-----------------------------------------------------------------------------
(* config.go *)

IsRegistryKey(k) == k \in TrustedRegistries

ComputeSlashAmount(stake, percent) ==
  IF percent = 0 THEN 0
  ELSE IF stake > MaxU64 \div percent THEN stake
  ELSE (stake * percent) \div 100

\* Mutant: the grace period is forgotten.
NoGrace(expirySlot) == expirySlot

ComputePurgeSlot(expirySlot) == expirySlot + GraceSlots

GetDomainPhase(slot, expirySlot) ==
  IF slot < expirySlot THEN "active"
  ELSE IF slot < ComputePurgeSlot(expirySlot) THEN "grace"
  ELSE "purged"

=============================================================================
