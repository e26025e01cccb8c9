---------------------------- MODULE DomainProofs ----------------------------
(***************************************************************************)
(* Theorems about names: what the gates approved against the shadow maps   *)
(* is what the domain pass finds in the index and in the commit store.     *)
(* The second half is about property: coins and names leave their owner    *)
(* only with the owner's consent, and an open sale can be paid.  The last  *)
(* part counts: no block creates coins.                                    *)
(***************************************************************************)
EXTENDS ValidatorProofs, FiniteSetTheorems

-----------------------------------------------------------------------------
(* The invariant *)

\* tx was carried out: its account has moved past its nonce, or, if it has no
\* owner, what it redeems is spent.
Done(tx, nonce, spent) ==
  IF tx.owner = None THEN tx.redeems \in spent ELSE tx.nonce < nonce[tx.owner]

\* The transaction that defines d in S was carried out, is about d and gave d
\* its expiry.
HeadKnown(S, nonce, d) ==
  \E tx \in Submitted :
    /\ tx.tid = S.dom[d].tid /\ tx.domain = d /\ tx.expiry = S.dom[d].expiry
    /\ Done(tx, nonce, S.spent)

\* The COMMIT behind the record c was carried out.
CommitKnown(S, nonce, c) ==
  \E tx \in Submitted :
    tx.tid = c.tid /\ tx.domain = None /\ Done(tx, nonce, S.spent)

\* Everything the index and the commit store refer to was carried out.
NamesKnown(S, nonce) ==
  /\ \A d \in Domains : Exists(S, d) => HeadKnown(S, nonce, d)
  /\ \A c \in S.commits : CommitKnown(S, nonce, c)

\* No COMMIT that the gates could see and no transaction of the block has used
\* is lost to the domain pass.
CommitsKept(V, S, sh) ==
  /\ S.gone \subseteq V.gone \cup sh.commit
  /\ \A c \in V.commits : c.hash \notin sh.commit => c \in S.commits

\* The domain pass finds every name the gates could see.
NamesKept(V, S, sh) ==
  /\ \A d \in Domains : Exists(V, d) => Exists(S, d)
  /\ \A d \in sh.registered : Exists(S, d)

\* The domain pass spends what the gates saw redeemed.
SpendsKept(V, S, sh) ==
  V.spent \subseteq S.spent /\ S.spent \subseteq V.spent \cup sh.spent

\* What the domain pass has done agrees with what the gates saw.
Kept(V, S, sh) ==
  /\ NamesKnown(S, sh.nonce)
  /\ CommitsKept(V, S, sh) /\ NamesKept(V, S, sh) /\ SpendsKept(V, S, sh)

DomainInv ==
  /\ NamesKnown(live, live.nonce)
  /\ live.gone = {}
  /\ pc \in {"gates", "ledger"} =>
       /\ staged.dom = live.dom /\ staged.spent = live.spent
       /\ staged.commits = live.commits /\ staged.gone = View.gone
  /\ pc = "domain" => Kept(View, staged, shadows[i])
  /\ pc = "stake" =>
       NamesKnown(staged, staged.nonce) /\ live.spent \subseteq staged.spent

\* d is free in V: unregistered, or past its grace period.
Free(V, d, slot) == Exists(V, d) => Phase(V, d, slot) = "purged"

\* Names that were free when the block arrived and that no REVEAL of the block
\* has registered yet keep their expiry.
FreeKept(V, S, sh, slot) ==
  \A d \in Domains \ sh.registered :
    Free(V, d, slot) =>
      /\ Exists(S, d) <=> Exists(V, d)
      /\ S.dom[d].expiry = V.dom[d].expiry

\* Auto-revocations have the expiry of the transaction they redeem, as
\* GenerateAutoRevocations writes them (node_leader.go:287-297).  The gates do
\* not check this, so it is a hypothesis of the theorems that need it.
RevocationsKeepExpiry ==
  \A r, t \in Submitted :
    r.owner = None /\ r.redeems = t.tid => r.expiry = t.expiry

\* No REVOKE of the block can give an unregistered or purged name a new expiry.
RevokesHarmless ==
  \/ RevocationsKeepExpiry
  \/ \A j \in 1 .. Len(blk.txs) : blk.txs[j].type # "REVOKE"

FreeInv ==
  pc = "domain" /\ RevokesHarmless => FreeKept(View, staged, shadows[i], blk.slot)

-----------------------------------------------------------------------------
(* What the operations on the index change *)

\* T differs from S at most in balances, owners and list prices.
SameHeads(T, S) ==
  /\ \A d \in Domains : /\ T.dom[d].tid = S.dom[d].tid
                        /\ T.dom[d].expiry = S.dom[d].expiry
  /\ T.spent = S.spent /\ T.commits = S.commits /\ T.gone = S.gone

\* In T, tx defines its domain; the other domains are as in S.
Restated(T, S, tx) ==
  \A d \in Domains :
    /\ T.dom[d].tid = (IF d = tx.domain THEN tx.tid ELSE S.dom[d].tid)
    /\ T.dom[d].expiry = (IF d = tx.domain THEN tx.expiry ELSE S.dom[d].expiry)

\* Owners and list prices are metadata: setting them keeps the heads.
LEMMA MetadataKeepsHeads ==
  ASSUME NEW S \in States, NEW d0, NEW k, NEW n
  PROVE  SameHeads(SetOwner(S, d0, k), S) /\ SameHeads(SetListPrice(S, d0, n), S)
<1> DEFINE own == [S.dom[d0] EXCEPT !.owner = k]
           prc == [S.dom[d0] EXCEPT !.price = n]
<1>1. S.dom \in [Domains -> Entries]
  BY DEF States
<1>2. /\ SetOwner(S, d0, k) = [S EXCEPT !.dom = [S.dom EXCEPT ![d0] = own]]
      /\ SetListPrice(S, d0, n) = [S EXCEPT !.dom = [S.dom EXCEPT ![d0] = prc]]
  BY DEF SetOwner, SetListPrice, States
<1>3. d0 \in Domains =>
        /\ own.tid = S.dom[d0].tid /\ own.expiry = S.dom[d0].expiry
        /\ prc.tid = S.dom[d0].tid /\ prc.expiry = S.dom[d0].expiry
  BY <1>1 DEF Entries
<1> HIDE DEF own, prc
<1>4. \A D : LET T == [S EXCEPT !.dom = D]
             IN  /\ T.dom = D /\ T.spent = S.spent
                 /\ T.commits = S.commits /\ T.gone = S.gone
  BY DEF States
<1>5. \A e : e.tid = S.dom[d0].tid /\ e.expiry = S.dom[d0].expiry
        => SameHeads([S EXCEPT !.dom = [S.dom EXCEPT ![d0] = e]], S)
  BY <1>1, <1>4 DEF SameHeads
<1>6. CASE d0 \in Domains
  BY <1>2, <1>3, <1>5, <1>6
<1>7. CASE d0 \notin Domains
  <2>1. [S.dom EXCEPT ![d0] = own] = S.dom /\ [S.dom EXCEPT ![d0] = prc] = S.dom
    BY <1>1, <1>7
  <2>2. SameHeads([S EXCEPT !.dom = S.dom], S)
    BY <1>4 DEF SameHeads
  <2> QED
    BY <1>2, <2>1, <2>2
<1> QED
  BY <1>6, <1>7

\* Add replaces the transaction of one domain.
LEMMA AddRestates ==
  ASSUME NEW S \in States, NEW tx \in Transactions, NEW recs
  PROVE  LET T == AddDomain(S, tx.domain, tx.tid, tx.expiry, recs)
         IN  /\ Restated(T, S, tx)
             /\ T.spent = S.spent /\ T.commits = S.commits /\ T.gone = S.gone
<1> DEFINE e == [S.dom[tx.domain] EXCEPT !.tid = tx.tid, !.expiry = tx.expiry,
                                         !.records = recs]
           D == [S.dom EXCEPT ![tx.domain] = e]
           T == AddDomain(S, tx.domain, tx.tid, tx.expiry, recs)
<1>1. S.dom \in [Domains -> Entries]
  BY DEF States
<1>2. T = [S EXCEPT !.dom = D]
  BY DEF AddDomain, States
<1>3. tx.domain \in Domains => e.tid = tx.tid /\ e.expiry = tx.expiry
  BY <1>1 DEF Entries
<1> HIDE DEF e
<1>4. \A d \in Domains : D[d] = IF d = tx.domain THEN e ELSE S.dom[d]
  BY <1>1
<1> HIDE DEF D
<1>5. T.dom = D /\ T.spent = S.spent /\ T.commits = S.commits /\ T.gone = S.gone
  BY <1>2 DEF States
<1> HIDE DEF T
<1> QED
  BY <1>3, <1>4, <1>5 DEF Restated, T

\* Types that leave the index, the spent set and the commit store alone.
LEMMA MarketEffect ==
  ASSUME NEW L, NEW S \in States, NEW tx \in Transactions, NEW slot, NEW index,
         IsComplete(tx), tx.type \in MarketTypes \cup PoSTypes \cup {"FUND"}
  PROVE  SameHeads(ApplyDomainMutations(L, S, tx, slot, index), S)
<1>0. SameHeads(S, S)
  BY DEF SameHeads
<1>1. \A A, B : SameHeads(A, B) /\ SameHeads(B, S) => SameHeads(A, S)
  BY DEF SameHeads
<1>2. CASE tx.type \in PoSTypes \cup {"FUND"}
  BY <1>0, <1>2 DEF ApplyDomainMutations, PoSTypes
<1>3. SameHeads(ApplyList(S, tx, slot), S) /\ SameHeads(ApplyDelist(S, tx, slot), S)
  BY <1>0, MetadataKeepsHeads DEF ApplyList, ApplyDelist
<1>4. SameHeads(ApplyTransferDomain(S, tx, slot), S)
  <2>1. tx.recipient \in Keys \cup {None} /\ 0 \in Nat
    BY DEF Transactions
  <2>2. SetOwner(S, tx.domain, tx.recipient) \in States
    BY <2>1, IndexType DEF Names
  <2>3. SameHeads(SetListPrice(SetOwner(S, tx.domain, tx.recipient), tx.domain, 0), S)
    BY <1>1, <2>2, MetadataKeepsHeads
  <2> QED
    BY <1>0, <2>3 DEF ApplyTransferDomain
<1>5. CASE tx.type = "BUY"
  <2> DEFINE seller == S.dom[tx.domain].owner
             price == S.dom[tx.domain].price
             bal1 == Debit(S.bal, tx.owner, price)
             bal2 == Credit(bal1, seller, price)
             T == [S EXCEPT !.bal = bal2]
  <2>1. /\ price \in Nat /\ tx.owner \in Keys /\ S.bal \in [Keys -> Nat]
        /\ tx.owner \in Keys \cup {None}
    BY <1>5 DEF IsComplete, States, Entries
  <2>2. bal1 \in [Keys -> Nat]
    BY <2>1, BalanceType
  <2>3. bal2 \in [Keys -> Nat]
    <3> HIDE DEF bal1, price
    <3>1. CASE seller \in Keys
      BY <2>1, <2>2, <3>1, BalanceType
    <3>2. CASE seller \notin Keys
      BY <2>2, <3>2 DEF Credit
    <3> QED
      BY <3>1, <3>2
  <2>4. T \in States /\ SameHeads(T, S)
    <3> HIDE DEF bal2
    <3> QED
      BY <2>3 DEF States, SameHeads
  <2>5. ApplyBuyDomain(S, tx, slot) \in
          {S, SetListPrice(SetOwner(T, tx.domain, tx.owner), tx.domain, 0)}
    BY DEF ApplyBuyDomain
  <2> HIDE DEF T
  <2>6. SetOwner(T, tx.domain, tx.owner) \in States
    BY <2>1, <2>4, IndexType DEF Names
  <2>7. SameHeads(SetListPrice(SetOwner(T, tx.domain, tx.owner), tx.domain, 0), S)
    BY <1>1, <2>4, <2>6, MetadataKeepsHeads
  <2> QED
    BY <1>0, <1>5, <2>5, <2>7 DEF ApplyDomainMutations
<1> QED
  BY <1>2, <1>3, <1>4, <1>5 DEF ApplyDomainMutations, MarketTypes

\* COMMIT replaces the record of its hash and nothing else.
LEMMA CommitEffect ==
  ASSUME NEW L, NEW S \in States, NEW tx \in Transactions, NEW slot, NEW index,
         tx.type = "COMMIT"
  PROVE  LET T == ApplyDomainMutations(L, S, tx, slot, index)
             rec == [hash |-> tx.hash, committer |-> tx.owner, slot |-> slot,
                     tid |-> tx.tid, expiry |-> index + CommitMaxWindow]
         IN  /\ T.dom = S.dom /\ T.spent = S.spent /\ T.gone = S.gone
             /\ T.commits = {c \in S.commits : c.hash # tx.hash} \cup {rec}
<1> DEFINE rec == [hash |-> tx.hash, committer |-> tx.owner, slot |-> slot,
                   tid |-> tx.tid, expiry |-> index + CommitMaxWindow]
<1>1. ApplyDomainMutations(L, S, tx, slot, index) = AddCommit(S, rec)
  BY DEF ApplyDomainMutations, ApplyCommit
<1>2. rec.hash = tx.hash
  OBVIOUS
<1> HIDE DEF rec
<1>3. /\ AddCommit(S, rec).dom = S.dom /\ AddCommit(S, rec).spent = S.spent
      /\ AddCommit(S, rec).gone = S.gone
      /\ AddCommit(S, rec).commits = {c \in S.commits : c.hash # tx.hash} \cup {rec}
  BY <1>2 DEF AddCommit, States
<1> QED
  BY <1>1, <1>3 DEF rec

\* A REVEAL does nothing, or registers its name, spends its COMMIT and
\* consumes the record.
LEMMA RevealEffect ==
  ASSUME NEW L, NEW S \in States, NEW tx \in Transactions, NEW slot, NEW index,
         tx.type = "REVEAL"
  PROVE  LET T == ApplyDomainMutations(L, S, tx, slot, index)
         IN  IF HasCommit(S, RevealHash(tx)) /\ Free(S, tx.domain, slot)
             THEN /\ Restated(T, S, tx)
                  /\ T.spent = S.spent \cup {tx.redeems}
                  /\ T.commits = S.commits
                  /\ T.gone = S.gone \cup {RevealHash(tx)}
             ELSE T = S
<1> DEFINE T == ApplyDomainMutations(L, S, tx, slot, index)
           A == AddDomain(S, tx.domain, tx.tid, tx.expiry, tx.records)
           B == SetOwner(A, tx.domain, tx.recipient)
           C == MarkAsSpent(B, tx.redeems)
<1>1. T = IF HasCommit(S, RevealHash(tx)) /\ Free(S, tx.domain, slot)
          THEN ConsumeCommit(C, RevealHash(tx)) ELSE S
  BY DEF ApplyDomainMutations, ApplyReveal, Free
<1>2. tx.tid \in Nat /\ tx.expiry \in Nat /\ tx.records \in Names
      /\ tx.recipient \in Keys \cup {None} /\ tx.redeems \in Nat /\ 0 \in Nat
  BY DEF Transactions, Names
<1>3. A \in States /\ Restated(A, S, tx)
      /\ A.spent = S.spent /\ A.commits = S.commits /\ A.gone = S.gone
  BY <1>2, IndexType, AddRestates
<1> HIDE DEF A
<1>4. B \in States /\ SameHeads(B, A)
  BY <1>2, <1>3, IndexType, MetadataKeepsHeads
<1> HIDE DEF B
<1>5. Restated(B, S, tx)
  BY <1>3, <1>4 DEF SameHeads, Restated
<1>6. /\ ConsumeCommit(C, RevealHash(tx)).dom = B.dom
      /\ ConsumeCommit(C, RevealHash(tx)).spent = B.spent \cup {tx.redeems}
      /\ ConsumeCommit(C, RevealHash(tx)).commits = B.commits
      /\ ConsumeCommit(C, RevealHash(tx)).gone = B.gone \cup {RevealHash(tx)}
  BY <1>4 DEF ConsumeCommit, MarkAsSpent, States
<1>7. Restated(ConsumeCommit(C, RevealHash(tx)), S, tx)
  BY <1>5, <1>6 DEF Restated
<1> HIDE DEF T, C
<1>8. HasCommit(S, RevealHash(tx)) /\ Free(S, tx.domain, slot) =>
        /\ Restated(T, S, tx) /\ T.spent = S.spent \cup {tx.redeems}
        /\ T.commits = S.commits /\ T.gone = S.gone \cup {RevealHash(tx)}
  BY <1>1, <1>3, <1>4, <1>6, <1>7 DEF SameHeads
<1> QED
  BY <1>1, <1>8 DEF T

\* The transaction that a RENEW, UPDATE or REVOKE replaces is the head of its
\* domain, in the overlay or in the live index.
ReplacesHead(L, S, tx) ==
  /\ tx.domain \in Domains
  /\ tx.redeems # 0
  /\ S.dom[tx.domain].tid = tx.redeems \/ L.dom[tx.domain].tid = tx.redeems

\* T is S with tx as the head of its domain in place of what it redeems.
Replaced(T, S, tx) ==
  /\ Restated(T, S, tx)
  /\ T.spent = S.spent \cup {tx.redeems}
  /\ T.commits = S.commits /\ T.gone = S.gone

\* UPDATE, RENEW and REVOKE do nothing or replace the head of their domain.
LEMMA ReplaceEffect ==
  ASSUME NEW L \in States, NEW S \in States, NEW tx \in Transactions, NEW slot,
         NEW index, tx.type \in {"UPDATE", "RENEW", "REVOKE"}, tx.redeems # 0
  PROVE  LET T == ApplyDomainMutations(L, S, tx, slot, index)
         IN  \/ T = S
             \/ /\ ReplacesHead(L, S, tx) /\ Replaced(T, S, tx)
                /\ tx.type = "REVOKE" /\ tx.owner = None =>
                     Exists(S, tx.domain) /\ Phase(S, tx.domain, slot) # "active"
<1> DEFINE A == MarkAsSpent(S, tx.redeems)
           B(recs) == AddDomain(A, tx.domain, tx.tid, tx.expiry, recs)
           T == ApplyDomainMutations(L, S, tx, slot, index)
<1>1. A \in States /\ A.dom = S.dom /\ A.spent = S.spent \cup {tx.redeems}
      /\ A.commits = S.commits /\ A.gone = S.gone
  <2>1. tx.redeems \in Nat
    BY DEF Transactions
  <2> QED
    BY <2>1 DEF MarkAsSpent, States
<1> HIDE DEF A
<1>2. ASSUME NEW X, NEW recs, X = B(recs) PROVE Replaced(X, S, tx)
  <2>1. Restated(X, A, tx) /\ X.spent = A.spent
        /\ X.commits = A.commits /\ X.gone = A.gone
    BY <1>1, <1>2, AddRestates
  <2> QED
    BY <1>1, <2>1 DEF Replaced, Restated
<1>3. RedeemsOwnDomain(L, S, tx) => ReplacesHead(L, S, tx)
  BY DEF RedeemsOwnDomain, ReplacesHead, GetTxByID, HolderOf
<1>4. CASE tx.type = "REVOKE"
  <2>1. T = ApplyRevoke(L, S, tx, slot)
    BY <1>4 DEF ApplyDomainMutations
  <2>2. T = S \/ /\ RedeemsOwnDomain(L, S, tx) /\ T = B(tx.records)
                 /\ tx.owner = None => /\ Exists(S, tx.domain)
                                       /\ Phase(S, tx.domain, slot) # "active"
    BY <2>1 DEF ApplyRevoke, A
  <2> HIDE DEF T
  <2>3. T = S \/ /\ ReplacesHead(L, S, tx) /\ Replaced(T, S, tx)
                 /\ tx.owner = None => /\ Exists(S, tx.domain)
                                       /\ Phase(S, tx.domain, slot) # "active"
    BY <1>2, <1>3, <2>2
  <2> QED
    BY <2>3 DEF T
<1>5. CASE tx.type \in {"UPDATE", "RENEW"}
  <2>1. \A r : \/ ApplyUpdateOrRenew(L, S, tx, r) = S
               \/ /\ RedeemsOwnDomain(L, S, tx)
                  /\ \E recs : ApplyUpdateOrRenew(L, S, tx, r) = B(recs)
    BY DEF ApplyUpdateOrRenew, A
  <2>2. T = S \/ \E r : T = ApplyUpdateOrRenew(L, S, tx, r)
    BY <1>5 DEF ApplyDomainMutations, ApplyUpdate, ApplyRenew
  <2>3. T = S \/ (RedeemsOwnDomain(L, S, tx) /\ \E recs : T = B(recs))
    BY <2>1, <2>2
  <2> HIDE DEF T
  <2>4. CASE RedeemsOwnDomain(L, S, tx) /\ \E recs : T = B(recs)
    <3>1. PICK recs : T = B(recs)
      BY <2>4
    <3>2. Replaced(T, S, tx)
      BY <1>2, <3>1
    <3> QED
      BY <1>3, <1>5, <2>4, <3>2 DEF T
  <2> QED
    BY <2>3, <2>4 DEF T
<1> QED
  BY <1>4, <1>5

-----------------------------------------------------------------------------
(* What was carried out stays so *)

Nonces == [Keys -> Nat]

\* What was carried out stays carried out as nonces and the spent set grow.
LEMMA DoneGrows ==
  ASSUME NEW tx \in Transactions, NEW n1 \in Nonces, NEW n2 \in Nonces,
         \A k \in Keys : n1[k] <= n2[k], NEW s1, NEW s2, s1 \subseteq s2,
         Done(tx, n1, s1)
  PROVE  Done(tx, n2, s2)
<1>1. CASE tx.owner = None
  BY <1>1 DEF Done
<1>2. CASE tx.owner # None
  <2>1. tx.owner \in Keys /\ tx.nonce \in Nat
    BY <1>2, LimitsAssumption DEF Transactions, U64
  <2>2. /\ n1[tx.owner] \in Nat /\ n2[tx.owner] \in Nat
        /\ n1[tx.owner] <= n2[tx.owner] /\ tx.nonce < n1[tx.owner]
    BY <1>2, <2>1 DEF Done, Nonces
  <2> QED
    BY <1>2, <2>1, <2>2 DEF Done
<1> QED
  BY <1>1, <1>2

\* So do the heads that do not change and the commits.
LEMMA KnownGrows ==
  ASSUME NEW S, NEW T, NEW n1 \in Nonces, NEW n2 \in Nonces,
         \A k \in Keys : n1[k] <= n2[k], S.spent \subseteq T.spent
  PROVE  /\ \A d : /\ HeadKnown(S, n1, d) /\ T.dom[d].tid = S.dom[d].tid
                   /\ T.dom[d].expiry = S.dom[d].expiry
                   => HeadKnown(T, n2, d)
         /\ \A c : CommitKnown(S, n1, c) => CommitKnown(T, n2, c)
<1>1. \A tx \in Submitted : Done(tx, n1, S.spent) => Done(tx, n2, T.spent)
  BY DoneGrows, SubmittedAssumption
<1> QED
  BY <1>1 DEF HeadKnown, CommitKnown

\* A transaction that defines its domain leaves everything known.
LEMMA NewHead ==
  ASSUME NEW S \in States, NEW T, NEW tx \in Submitted, tx.domain \in Domains,
         NEW n1 \in Nonces, NEW n2 \in Nonces, \A k \in Keys : n1[k] <= n2[k],
         NamesKnown(S, n1), Restated(T, S, tx), T.commits = S.commits,
         S.spent \subseteq T.spent, Done(tx, n2, T.spent)
  PROVE  NamesKnown(T, n2)
<1>1. /\ \A d : /\ HeadKnown(S, n1, d) /\ T.dom[d].tid = S.dom[d].tid
               /\ T.dom[d].expiry = S.dom[d].expiry
               => HeadKnown(T, n2, d)
      /\ \A c : CommitKnown(S, n1, c) => CommitKnown(T, n2, c)
  BY KnownGrows
<1>2. \A c \in T.commits : CommitKnown(T, n2, c)
  BY <1>1 DEF NamesKnown
<1>3. ASSUME NEW d \in Domains, Exists(T, d) PROVE HeadKnown(T, n2, d)
  <2>1. CASE d = tx.domain
    <3>1. T.dom[d].tid = tx.tid /\ T.dom[d].expiry = tx.expiry
      BY <2>1 DEF Restated
    <3> QED
      BY <2>1, <3>1 DEF HeadKnown
  <2>2. CASE d # tx.domain
    <3>1. T.dom[d].tid = S.dom[d].tid /\ T.dom[d].expiry = S.dom[d].expiry
      BY <2>2 DEF Restated
    <3>2. Exists(S, d)
      BY <1>3, <3>1 DEF Exists
    <3> QED
      BY <1>1, <3>1, <3>2 DEF NamesKnown
  <2> QED
    BY <2>1, <2>2
<1> QED
  BY <1>2, <1>3 DEF NamesKnown

\* After its turn a transaction past the gates has been carried out.  Before it,
\* if it has an owner, it has not.
LEMMA GateIsTurn ==
  ASSUME NEW V \in States, NEW sh \in Shadows, NEW tx \in Submitted, NEW c,
         GateTx(V, sh, tx, c)
  PROVE  /\ \A s : (tx.owner = None => tx.redeems \in s)
                  => Done(tx, ShadowAfter(V, sh, tx).nonce, s)
         /\ tx.owner # None => ~(tx.nonce < sh.nonce[tx.owner])
<1>1. tx \in Transactions
  BY SubmittedAssumption
<1>2. CASE tx.owner = None
  BY <1>2 DEF Done
<1>3. CASE tx.owner # None
  <2>1. tx.owner \in Keys /\ tx.nonce = sh.nonce[tx.owner]
    BY <1>1, <1>3 DEF GateTx, NonceGate, Transactions
  <2>2. sh.nonce \in [Keys -> Nat] /\ tx.nonce \in Nat
    BY <2>1 DEF Shadows
  <2>3. ShadowAfter(V, sh, tx).nonce = [sh.nonce EXCEPT ![tx.owner] = @ + 1]
    BY <1>3 DEF ShadowAfter
  <2>4. tx.nonce < ShadowAfter(V, sh, tx).nonce[tx.owner]
    BY <2>1, <2>2, <2>3
  <2>5. ~(tx.nonce < sh.nonce[tx.owner])
    BY <2>1, <2>2
  <2> QED
    BY <1>3, <2>4, <2>5 DEF Done
<1> QED
  BY <1>2, <1>3

-----------------------------------------------------------------------------
(* The domain pass keeps up with the gates *)

\* The shadow maps after tx, for the proofs below.
LEMMA ShadowSteps ==
  ASSUME NEW V \in States, NEW sh \in Shadows, NEW tx \in Submitted, NEW c,
         GateTx(V, sh, tx, c)
  PROVE  LET sh2 == ShadowAfter(V, sh, tx)
         IN  /\ sh.nonce \in Nonces /\ sh2.nonce \in Nonces
             /\ \A k \in Keys : sh.nonce[k] <= sh2.nonce[k]
             /\ sh.spent \subseteq sh2.spent
             /\ Redeems(tx) => tx.redeems \in sh2.spent
             /\ sh.commit \subseteq sh2.commit
             /\ tx.type # "REVEAL" => sh2.registered = sh.registered
             /\ tx.type = "REVEAL" => /\ tx.owner # None
                                     /\ RevealHash(tx) \in sh2.commit
                                     /\ sh2.registered = sh.registered \cup {tx.domain}
             /\ tx.type = "COMMIT" => tx.owner # None /\ tx.hash \in sh2.commit
<1> DEFINE sh2 == ShadowAfter(V, sh, tx)
<1>1. tx \in Transactions
  BY SubmittedAssumption
<1>2. Grows(sh, sh2) /\ sh2 \in Shadows
  BY <1>1, ShadowGrows, ShadowType
<1>3. sh.nonce \in Nonces /\ sh2.nonce \in Nonces
  BY <1>2 DEF Shadows, Nonces
<1>4. sh2.spent = SpentAfter(sh, tx)
  BY DEF ShadowAfter, Shadows
<1>5. tx.type # "REVEAL" => sh2.registered = sh.registered
  BY DEF ShadowAfter, Shadows
<1>6. tx.type \in {"REVEAL", "COMMIT"} => tx.owner # None
  BY DEF GateTx, AutoRevokeGate
<1>7. tx.type \in {"REVEAL", "COMMIT"} =>
        /\ sh2.commit = CommitAfter(sh, tx)
        /\ tx.type = "REVEAL" => sh2.registered = sh.registered \cup {tx.domain}
  BY <1>6 DEF ShadowAfter
<1> HIDE DEF sh2
<1>8. /\ sh.nonce \in Nonces /\ sh2.nonce \in Nonces
      /\ \A k \in Keys : sh.nonce[k] <= sh2.nonce[k]
      /\ sh.spent \subseteq sh2.spent
      /\ Redeems(tx) => tx.redeems \in sh2.spent
      /\ sh.commit \subseteq sh2.commit
      /\ tx.type # "REVEAL" => sh2.registered = sh.registered
      /\ tx.type = "REVEAL" => /\ tx.owner # None
                              /\ RevealHash(tx) \in sh2.commit
                              /\ sh2.registered = sh.registered \cup {tx.domain}
      /\ tx.type = "COMMIT" => tx.owner # None /\ tx.hash \in sh2.commit
  BY <1>2, <1>3, <1>4, <1>5, <1>6, <1>7 DEF Grows, SpentAfter, CommitAfter
<1> QED
  BY <1>8 DEF sh2

\* A step that changes no head, spends nothing and leaves the commits alone.
LEMMA QuietKeepsUp ==
  ASSUME NEW V \in States, NEW sh \in Shadows, NEW tx \in Submitted, NEW c,
         GateTx(V, sh, tx, c), NEW S, NEW T, SameHeads(T, S), Kept(V, S, sh),
         tx.type # "REVEAL" \/ Exists(S, tx.domain)
  PROVE  Kept(V, T, ShadowAfter(V, sh, tx))
<1> DEFINE sh2 == ShadowAfter(V, sh, tx)
<1>1. /\ sh.nonce \in Nonces /\ sh2.nonce \in Nonces
      /\ \A k \in Keys : sh.nonce[k] <= sh2.nonce[k]
      /\ sh.spent \subseteq sh2.spent /\ sh.commit \subseteq sh2.commit
      /\ tx.type # "REVEAL" => sh2.registered = sh.registered
      /\ tx.type = "REVEAL" => sh2.registered = sh.registered \cup {tx.domain}
  BY ShadowSteps
<1> HIDE DEF sh2
<1>2. \A d \in Domains : /\ T.dom[d].tid = S.dom[d].tid
                         /\ T.dom[d].expiry = S.dom[d].expiry
  BY DEF SameHeads
<1>3. T.spent = S.spent /\ T.commits = S.commits /\ T.gone = S.gone
  BY DEF SameHeads
<1>4. \A d \in Domains : Exists(T, d) <=> Exists(S, d)
  BY <1>2 DEF Exists
<1>5. NamesKnown(T, sh2.nonce)
  <2>1. NamesKnown(S, sh.nonce)
    BY DEF Kept
  <2>2. /\ \A d : /\ HeadKnown(S, sh.nonce, d) /\ T.dom[d].tid = S.dom[d].tid
                 /\ T.dom[d].expiry = S.dom[d].expiry
                 => HeadKnown(T, sh2.nonce, d)
        /\ \A x : CommitKnown(S, sh.nonce, x) => CommitKnown(T, sh2.nonce, x)
    BY <1>1, <1>3, KnownGrows
  <2> QED
    BY <1>2, <1>3, <1>4, <2>1, <2>2 DEF NamesKnown
<1>6. CommitsKept(V, T, sh2) /\ SpendsKept(V, T, sh2)
  BY <1>1, <1>3 DEF Kept, CommitsKept, SpendsKept
<1>7. NamesKept(V, T, sh2)
  <2>1. sh.registered \subseteq Domains
    BY DEF Shadows
  <2>2. \A d \in sh2.registered : Exists(S, d)
    BY <1>1 DEF Kept, NamesKept
  <2> QED
    BY <1>4, <2>2 DEF Kept, NamesKept, Exists
<1> QED
  BY <1>5, <1>6, <1>7 DEF Kept, sh2

\* A COMMIT.
LEMMA CommitKeepsUp ==
  ASSUME NEW V \in States, NEW sh \in Shadows, NEW tx \in Submitted, NEW c,
         GateTx(V, sh, tx, c), NEW L, NEW S \in States, Kept(V, S, sh),
         tx.type = "COMMIT", NEW slot, NEW index
  PROVE  Kept(V, ApplyDomainMutations(L, S, tx, slot, index), ShadowAfter(V, sh, tx))
<1> DEFINE sh2 == ShadowAfter(V, sh, tx)
           T == ApplyDomainMutations(L, S, tx, slot, index)
           rec == [hash |-> tx.hash, committer |-> tx.owner, slot |-> slot,
                   tid |-> tx.tid, expiry |-> index + CommitMaxWindow]
<1>1. /\ T.dom = S.dom /\ T.spent = S.spent /\ T.gone = S.gone
      /\ T.commits = {x \in S.commits : x.hash # tx.hash} \cup {rec}
  BY CommitEffect, SubmittedAssumption
<1>2. rec.tid = tx.tid
  OBVIOUS
<1>3. /\ sh.nonce \in Nonces /\ sh2.nonce \in Nonces
      /\ \A k \in Keys : sh.nonce[k] <= sh2.nonce[k]
      /\ sh.spent \subseteq sh2.spent /\ sh.commit \subseteq sh2.commit
      /\ sh2.registered = sh.registered
      /\ tx.owner # None /\ tx.hash \in sh2.commit
  BY ShadowSteps
<1>4. tx.domain = None
  BY DEF GateTx, StructureOK, CommitGate
<1>5. Done(tx, sh2.nonce, T.spent)
  BY <1>3, GateIsTurn
<1> HIDE DEF sh2, T, rec
<1>6. \A d : Exists(T, d) <=> Exists(S, d)
  BY <1>1 DEF Exists
<1>7. NamesKnown(T, sh2.nonce)
  <2>1. NamesKnown(S, sh.nonce)
    BY DEF Kept
  <2>2. /\ \A d : HeadKnown(S, sh.nonce, d) => HeadKnown(T, sh2.nonce, d)
        /\ \A x : CommitKnown(S, sh.nonce, x) => CommitKnown(T, sh2.nonce, x)
    BY <1>1, <1>3, KnownGrows
  <2>3. CommitKnown(T, sh2.nonce, rec)
    BY <1>2, <1>4, <1>5 DEF CommitKnown
  <2>4. \A x \in T.commits : CommitKnown(T, sh2.nonce, x)
    BY <1>1, <2>1, <2>2, <2>3 DEF NamesKnown
  <2> QED
    BY <1>1, <1>6, <2>1, <2>2, <2>4 DEF NamesKnown
<1>8. CommitsKept(V, T, sh2) /\ SpendsKept(V, T, sh2)
  BY <1>1, <1>3 DEF Kept, CommitsKept, SpendsKept
<1>9. NamesKept(V, T, sh2)
  BY <1>3, <1>6 DEF Kept, NamesKept
<1> QED
  BY <1>7, <1>8, <1>9 DEF Kept, sh2, T

\* The COMMIT that a REVEAL past the gates answers is still pending when the
\* domain pass gets there, and was carried out before.
LEMMA RevealFindsCommit ==
  ASSUME NEW V \in States, NEW sh \in Shadows, NEW tx \in Submitted, NEW c,
         GateTx(V, sh, tx, c), tx.type = "REVEAL", NamesKnown(V, V.nonce),
         \A k \in Keys : V.nonce[k] <= sh.nonce[k], NEW S, Kept(V, S, sh)
  PROVE  /\ HasCommit(S, RevealHash(tx))
         /\ tx.domain \in Domains /\ tx.domain \notin sh.registered
         /\ Free(V, tx.domain, c.slot) /\ Redeems(tx)
         /\ \E old \in Submitted : /\ old.tid = tx.redeems /\ old.domain = None
                                  /\ Done(old, sh.nonce, S.spent)
         /\ CommitOf(V, RevealHash(tx)) \in V.commits
         /\ CommitOf(V, RevealHash(tx)).hash = RevealHash(tx)
<1> DEFINE h == RevealHash(tx)
           cm == CommitOf(V, h)
<1>1. tx.owner # None
  BY ShadowSteps
<1>2. RevealGate(V, sh, tx, c)
  BY <1>1 DEF GateTx
<1>3. /\ HasCommit(V, h) /\ h \notin sh.commit /\ tx.redeems = cm.tid
      /\ DomainAvailable(V, sh, tx, c, cm.slot)
  BY <1>2 DEF RevealGate
<1>4. cm \in V.commits /\ cm.hash = h /\ h \notin V.gone
  BY <1>3 DEF HasCommit, CommitOf
<1>5. tx.domain \in Domains
  <2>1. cm.hash \in CommitHashes
    BY <1>4 DEF States, CommitRecords
  <2> QED
    BY <1>4, <2>1 DEF CommitHashes, RevealHash
<1>6. HasCommit(S, h)
  BY <1>3, <1>4 DEF HasCommit, Kept, CommitsKept
<1>7. PICK old \in Submitted : /\ old.tid = cm.tid /\ old.domain = None
                              /\ Done(old, V.nonce, V.spent)
  BY <1>4 DEF NamesKnown, CommitKnown
<1>8. Done(old, sh.nonce, S.spent)
  <2>1. V.nonce \in Nonces /\ sh.nonce \in Nonces
    BY DEF States, Shadows, Nonces
  <2>2. V.spent \subseteq S.spent
    BY DEF Kept, SpendsKept
  <2> QED
    BY <1>7, <2>1, <2>2, DoneGrows, SubmittedAssumption
<1>9. Redeems(tx)
  BY <1>3, <1>7, SubmittedAssumption DEF Redeems, RedeemTypes
<1>10. tx.domain \notin sh.registered /\ Free(V, tx.domain, c.slot)
  BY <1>3 DEF DomainAvailable, Free
<1> QED
  BY <1>3, <1>4, <1>5, <1>6, <1>7, <1>8, <1>9, <1>10

\* A REVEAL.
LEMMA RevealKeepsUp ==
  ASSUME NEW V \in States, NEW sh \in Shadows, NEW tx \in Submitted, NEW c,
         GateTx(V, sh, tx, c), tx.type = "REVEAL", NamesKnown(V, V.nonce),
         \A k \in Keys : V.nonce[k] <= sh.nonce[k],
         NEW L, NEW S \in States, Kept(V, S, sh), NEW slot, NEW index
  PROVE  Kept(V, ApplyDomainMutations(L, S, tx, slot, index), ShadowAfter(V, sh, tx))
<1> DEFINE sh2 == ShadowAfter(V, sh, tx)
           T == ApplyDomainMutations(L, S, tx, slot, index)
           h == RevealHash(tx)
<1>1. HasCommit(S, h) /\ tx.domain \in Domains /\ Redeems(tx)
  BY RevealFindsCommit
<1>3. IF Free(S, tx.domain, slot)
      THEN /\ Restated(T, S, tx) /\ T.spent = S.spent \cup {tx.redeems}
           /\ T.commits = S.commits /\ T.gone = S.gone \cup {h}
      ELSE T = S
  BY <1>1, RevealEffect, SubmittedAssumption
<1>4. CASE ~Free(S, tx.domain, slot)
  <2>1. T = S /\ Exists(S, tx.domain)
    BY <1>3, <1>4 DEF Free
  <2>2. SameHeads(T, S)
    BY <2>1 DEF SameHeads
  <2> QED
    BY <2>1, <2>2, QuietKeepsUp
<1>5. CASE Free(S, tx.domain, slot)
  <2>1. /\ Restated(T, S, tx) /\ T.spent = S.spent \cup {tx.redeems}
        /\ T.commits = S.commits /\ T.gone = S.gone \cup {h}
    BY <1>3, <1>5
  <2>2. /\ sh.nonce \in Nonces /\ sh2.nonce \in Nonces
        /\ \A k \in Keys : sh.nonce[k] <= sh2.nonce[k]
        /\ sh.spent \subseteq sh2.spent /\ tx.redeems \in sh2.spent
        /\ sh.commit \subseteq sh2.commit /\ h \in sh2.commit
        /\ sh2.registered = sh.registered \cup {tx.domain} /\ tx.owner # None
    BY <1>1, ShadowSteps
  <2>3. Done(tx, sh2.nonce, T.spent)
    BY <2>2, GateIsTurn
  <2> HIDE DEF sh2, T, h
  <2>5. NamesKnown(S, sh.nonce) /\ S.spent \subseteq T.spent
    BY <2>1 DEF Kept
  <2>6. NamesKnown(T, sh2.nonce)
    BY <1>1, <2>1, <2>2, <2>3, <2>5, NewHead
  <2>7. CommitsKept(V, T, sh2) /\ SpendsKept(V, T, sh2)
    BY <2>1, <2>2 DEF Kept, CommitsKept, SpendsKept
  <2>8. \A d \in Domains : Exists(S, d) \/ d = tx.domain => Exists(T, d)
    BY <2>1, SubmittedAssumption DEF Exists, Restated
  <2>9. NamesKept(V, T, sh2)
    BY <1>1, <2>2, <2>8 DEF Kept, NamesKept, Exists
  <2> QED
    BY <2>6, <2>7, <2>9 DEF Kept, sh2, T
<1> QED
  BY <1>4, <1>5

\* The head that an UPDATE, RENEW or REVOKE replaces was carried out, is about
\* the same domain and gave the domain its expiry.
LEMMA ReplacedIsKnown ==
  ASSUME NEW V \in States, NEW sh \in Shadows, NEW tx \in Submitted,
         NamesKnown(V, V.nonce), \A k \in Keys : V.nonce[k] <= sh.nonce[k],
         NEW S \in States, Kept(V, S, sh), ReplacesHead(V, S, tx)
  PROVE  \E old \in Submitted :
           /\ old.tid = tx.redeems /\ old.domain = tx.domain
           /\ Done(old, sh.nonce, S.spent)
           /\ \/ old.expiry = S.dom[tx.domain].expiry /\ Exists(S, tx.domain)
              \/ old.expiry = V.dom[tx.domain].expiry /\ Exists(V, tx.domain)
<1> DEFINE d == tx.domain
<1>1. /\ V.nonce \in Nonces /\ sh.nonce \in Nonces /\ V.spent \subseteq S.spent
      /\ d \in Domains
  BY DEF States, Shadows, Nonces, Kept, SpendsKept, ReplacesHead
<1>2. CASE S.dom[d].tid = tx.redeems
  <2>1. Exists(S, d)
    BY <1>1, <1>2 DEF ReplacesHead, Exists
  <2>2. HeadKnown(S, sh.nonce, d)
    BY <1>1, <2>1 DEF Kept, NamesKnown
  <2> QED
    BY <1>2, <2>1, <2>2 DEF HeadKnown
<1>3. CASE V.dom[d].tid = tx.redeems
  <2>1. Exists(V, d)
    BY <1>1, <1>3 DEF ReplacesHead, Exists
  <2>2. HeadKnown(V, V.nonce, d)
    BY <1>1, <2>1 DEF NamesKnown
  <2>3. PICK old \in Submitted :
          /\ old.tid = tx.redeems /\ old.domain = d /\ Done(old, V.nonce, V.spent)
          /\ old.expiry = V.dom[d].expiry
    BY <1>3, <2>2 DEF HeadKnown
  <2>4. Done(old, sh.nonce, S.spent)
    BY <1>1, <2>3, DoneGrows, SubmittedAssumption
  <2> QED
    BY <2>1, <2>3, <2>4
<1> QED
  BY <1>2, <1>3 DEF ReplacesHead

\* UPDATE, RENEW and REVOKE.
LEMMA ReplaceKeepsUp ==
  ASSUME NEW V \in States, NEW sh \in Shadows, NEW tx \in Submitted, NEW c,
         GateTx(V, sh, tx, c), tx.type \in {"UPDATE", "RENEW", "REVOKE"},
         NamesKnown(V, V.nonce), \A k \in Keys : V.nonce[k] <= sh.nonce[k],
         NEW L \in States, L.dom = V.dom,
         NEW S \in States, Kept(V, S, sh), NEW slot, NEW index
  PROVE  Kept(V, ApplyDomainMutations(L, S, tx, slot, index), ShadowAfter(V, sh, tx))
<1> DEFINE sh2 == ShadowAfter(V, sh, tx)
           T == ApplyDomainMutations(L, S, tx, slot, index)
<1>1. tx.redeems # 0 /\ Redeems(tx) /\ tx \in Transactions
  BY SubmittedAssumption DEF GateTx, StructureOK, StructuralGate, Redeems, RedeemTypes
<1>2. T = S \/ (ReplacesHead(L, S, tx) /\ Replaced(T, S, tx))
  BY <1>1, ReplaceEffect
<1>3. CASE T = S
  <2>1. SameHeads(T, S)
    BY <1>3 DEF SameHeads
  <2> QED
    BY <2>1, QuietKeepsUp
<1>4. CASE ReplacesHead(L, S, tx) /\ Replaced(T, S, tx)
  <2>1. /\ Restated(T, S, tx) /\ T.spent = S.spent \cup {tx.redeems}
        /\ T.commits = S.commits /\ T.gone = S.gone
    BY <1>4 DEF Replaced
  <2>2. /\ sh.nonce \in Nonces /\ sh2.nonce \in Nonces
        /\ \A k \in Keys : sh.nonce[k] <= sh2.nonce[k]
        /\ sh.spent \subseteq sh2.spent /\ tx.redeems \in sh2.spent
        /\ sh.commit \subseteq sh2.commit
        /\ sh2.registered = sh.registered
    BY <1>1, ShadowSteps
  <2>3. Done(tx, sh2.nonce, T.spent)
    BY <2>1, GateIsTurn
  <2> HIDE DEF sh2, T
  <2>4. ReplacesHead(V, S, tx)
    BY <1>4 DEF ReplacesHead
  <2>6. NamesKnown(S, sh.nonce) /\ S.spent \subseteq T.spent
    BY <2>1 DEF Kept
  <2>7. tx.domain \in Domains
    BY <2>4 DEF ReplacesHead
  <2>8. NamesKnown(T, sh2.nonce)
    BY <2>1, <2>2, <2>3, <2>6, <2>7, NewHead
  <2>9. CommitsKept(V, T, sh2) /\ SpendsKept(V, T, sh2)
    BY <2>1, <2>2 DEF Kept, CommitsKept, SpendsKept
  <2>10. \A d \in Domains : Exists(S, d) => Exists(T, d)
    BY <2>1, SubmittedAssumption DEF Exists, Restated
  <2>11. NamesKept(V, T, sh2)
    BY <2>2, <2>10 DEF Kept, NamesKept, Exists
  <2> QED
    BY <2>8, <2>9, <2>11 DEF Kept, sh2, T
<1> QED
  BY <1>2, <1>3, <1>4

\* Any transaction past the gates.
LEMMA DomainKeepsUp ==
  ASSUME NEW V \in States, NEW sh \in Shadows, NEW tx \in Submitted, NEW c,
         GateTx(V, sh, tx, c), NamesKnown(V, V.nonce),
         \A k \in Keys : V.nonce[k] <= sh.nonce[k],
         NEW L \in States, L.dom = V.dom,
         NEW S \in States, Kept(V, S, sh), NEW slot, NEW index
  PROVE  Kept(V, ApplyDomainMutations(L, S, tx, slot, index), ShadowAfter(V, sh, tx))
<1>1. tx \in Transactions /\ tx.type # "REGISTER"
  BY SubmittedAssumption DEF GateTx, StructureOK, RegisterDeprecated
<1>2. tx.type \in {"COMMIT", "REVEAL", "UPDATE", "RENEW", "REVOKE"}
                 \cup (MarketTypes \cup PoSTypes \cup {"FUND"})
  BY <1>1 DEF Transactions, TxTypes, MarketTypes, PoSTypes
<1>3. CASE tx.type \in MarketTypes \cup PoSTypes \cup {"FUND"}
  <2>1. sh.registered \subseteq Domains
    BY DEF Shadows
  <2>2. IsComplete(tx)
    BY <1>1, <2>1, GateIsComplete
  <2>3. SameHeads(ApplyDomainMutations(L, S, tx, slot, index), S)
    BY <1>1, <1>3, <2>2, MarketEffect
  <2> QED
    BY <1>3, <2>3, QuietKeepsUp DEF MarketTypes, PoSTypes
<1> QED
  BY <1>2, <1>3, CommitKeepsUp, RevealKeepsUp, ReplaceKeepsUp

-----------------------------------------------------------------------------
(* Market transactions find their domain *)

\* NamesKnown reads the index, the spent set and the commits only.
LEMMA NamesKnownReads ==
  ASSUME NEW S, NEW T, NEW n, NamesKnown(S, n), T.dom = S.dom, T.spent = S.spent,
         T.commits \subseteq S.commits
  PROVE  NamesKnown(T, n)
BY DEF NamesKnown, HeadKnown, CommitKnown, Exists

\* The view of the gates differs from the live state in hidden commits only.
LEMMA ViewFields ==
  ASSUME NEW S \in States, NEW index
  PROVE  LET V == PurgeExpired(S, index)
         IN  /\ V.dom = S.dom /\ V.spent = S.spent /\ V.commits = S.commits
             /\ V.nonce = S.nonce /\ V.bal = S.bal
BY DEF PurgeExpired, States

\* A step of the domain pass.
LEMMA DomainStepKeeps ==
  ASSUME TypeOK, GatesHeld, DomainInv, DomainStep
  PROVE  /\ Kept(View, staged, shadows[i]) /\ Tx \in Submitted /\ staged \in States
         /\ View \in States /\ shadows[i] \in Shadows
         /\ GateTx(View, shadows[i], Tx, GateContext)
         /\ shadows[i + 1] = ShadowAfter(View, shadows[i], Tx)
         /\ NamesKnown(View, View.nonce)
         /\ \A k \in Keys : View.nonce[k] <= shadows[i].nonce[k]
         /\ Kept(View, staged', shadows[i + 1])
<1>1. /\ pc = "domain" /\ ~AtEnd /\ blk \in Blocks /\ live \in States
      /\ staged \in States
      /\ staged' = ApplyDomainMutations(live, staged, Tx, blk.slot, blk.index)
  BY DEF DomainStep, TypeOK
<1>2. i \in 1 .. Len(blk.txs) /\ Len(blk.txs) \in Nat
  BY <1>1, CurrentTx, BlockFacts
<1>3. Tx \in Submitted
  BY <1>1, <1>2, BlockFacts DEF Tx
<1>4. /\ GateTx(View, shadows[i], Tx, GateContext)
      /\ shadows[i + 1] = ShadowAfter(View, shadows[i], Tx)
      /\ shadows[i] \in Shadows /\ View \in States
  BY <1>1, <1>2, PastGates DEF Tx
<1>5. /\ View.dom = live.dom /\ View.nonce = live.nonce
      /\ View.spent = live.spent /\ View.commits = live.commits
  BY <1>1, ViewFields DEF View
<1>6. NamesKnown(View, View.nonce)
  BY <1>5, NamesKnownReads DEF DomainInv
<1>7. \A k \in Keys : View.nonce[k] <= shadows[i].nonce[k]
  <2>1. Grows(shadows[1], shadows[i])
    BY <1>1, <1>2, ShadowsGrow
  <2>2. shadows[1].nonce = View.nonce
    BY <1>1 DEF GatesHeld, InitShadow
  <2> QED
    BY <2>1, <2>2 DEF Grows
<1>8. Kept(View, staged, shadows[i])
  BY <1>1 DEF DomainInv
<1>9. Kept(View, staged', shadows[i + 1])
  BY <1>1, <1>3, <1>4, <1>5, <1>6, <1>7, <1>8, DomainKeepsUp
<1> QED
  BY <1>1, <1>3, <1>4, <1>6, <1>7, <1>8, <1>9

\* The domain pass starts from what the gates started from.
LEMMA DomainPassStarts ==
  ASSUME TypeOK, GatesHeld, DomainInv, LedgerDone
  PROVE  /\ Kept(View, staged', shadows[1]) /\ staged'.dom = live.dom
         /\ staged'.commits = live.commits /\ staged'.spent = live.spent
<1>1. /\ pc = "ledger" /\ live \in States /\ staged \in States
      /\ staged' = [staged EXCEPT !.bal = Credit(@, blk.leader, fees)]
  BY DEF LedgerDone, TypeOK
<1>2. /\ staged'.dom = live.dom /\ staged'.spent = live.spent
      /\ staged'.commits = live.commits /\ staged'.gone = View.gone
  BY <1>1 DEF DomainInv, States
<1>3. /\ View.dom = live.dom /\ View.nonce = live.nonce
      /\ View.spent = live.spent /\ View.commits = live.commits
  BY <1>1, ViewFields DEF View
<1>4. /\ shadows[1].nonce = live.nonce /\ shadows[1].commit = {}
      /\ shadows[1].registered = {} /\ shadows[1].spent = {}
  BY <1>1, <1>3 DEF GatesHeld, InitShadow
<1>5. NamesKnown(staged', shadows[1].nonce)
  BY <1>2, <1>4, NamesKnownReads DEF DomainInv
<1> QED
  BY <1>2, <1>3, <1>4, <1>5 DEF Kept, CommitsKept, NamesKept, SpendsKept, Exists

\* Every step keeps the invariant.
LEMMA NextDomain ==
  ASSUME TypeOK, GatesHeld, NoncesStaged, DomainInv, [Next]_vars
  PROVE  DomainInv'
<1> DEFINE Quiet == NamesKnown(live, live.nonce) /\ live.gone = {}
<1>0. Quiet /\ live \in States /\ staged \in States
  BY DEF TypeOK, DomainInv
<1>1. CASE BlockArrives
  <2>1. PICK b \in Arrivals : ReceiveBlock(b)
    BY <1>1 DEF BlockArrives
  <2> DEFINE V == PurgeExpired(live, b.index)
             q == SweepMature(V.queue, b.slot)
  <2>2. /\ live' = live /\ pc' = "gates" /\ View' = V
        /\ staged' = [V EXCEPT !.queue = q]
    BY <2>1 DEF ReceiveBlock, View
  <2>3. V.dom = live.dom /\ V.spent = live.spent /\ V.commits = live.commits
    BY <1>0, ViewFields
  <2>4. DOMAIN V = DOMAIN live
    BY DEF PurgeExpired
  <2> HIDE DEF V, q
  <2>5. /\ staged'.dom = V.dom /\ staged'.spent = V.spent
        /\ staged'.commits = V.commits /\ staged'.gone = V.gone
    BY <1>0, <2>2, <2>4 DEF States
  <2> QED
    BY <1>0, <2>2, <2>3, <2>5 DEF DomainInv
<1>2. CASE GatePass \/ GatesDone
  <2>1. UNCHANGED <<live, staged, blk>> /\ pc = "gates" /\ pc' \in {"gates", "ledger"}
    BY <1>2 DEF GatePass, GatesDone
  <2>2. View' = View
    BY <2>1 DEF View
  <2> QED
    BY <1>0, <2>1, <2>2 DEF DomainInv
<1>3. CASE GateReject \/ HashMismatch
  BY <1>0, <1>3 DEF GateReject, HashMismatch, Idle, DomainInv
<1>4. CASE LedgerStep
  <2>1. /\ UNCHANGED <<live, blk, pc>> /\ pc = "ledger" /\ pc' = "ledger"
        /\ staged' = ApplyLedgerMutations(staged, Tx)
    BY <1>4 DEF LedgerStep
  <2>2. /\ staged'.dom = staged.dom /\ staged'.spent = staged.spent
        /\ staged'.commits = staged.commits /\ staged'.gone = staged.gone
    BY <1>0, <2>1 DEF ApplyLedgerMutations, States
  <2>3. View' = View
    BY <2>1 DEF View
  <2> QED
    BY <1>0, <2>1, <2>2, <2>3 DEF DomainInv
<1>5. CASE LedgerDone
  <2>1. UNCHANGED <<live, blk, shadows>> /\ pc' = "domain" /\ i' = 1
    BY <1>5 DEF LedgerDone
  <2>2. View' = View
    BY <2>1 DEF View
  <2>3. Kept(View, staged', shadows[1])
    BY <1>5, DomainPassStarts
  <2> QED
    BY <1>0, <2>1, <2>2, <2>3 DEF DomainInv
<1>6. CASE DomainStep
  <2>1. UNCHANGED <<live, blk, shadows>> /\ pc' = "domain" /\ i' = i + 1
    BY <1>6 DEF DomainStep
  <2>2. View' = View
    BY <2>1 DEF View
  <2>3. Kept(View, staged', shadows[i + 1])
    BY <1>6, DomainStepKeeps
  <2> QED
    BY <1>0, <2>1, <2>2, <2>3 DEF DomainInv
<1>7. CASE DomainDone
  <2>1. /\ UNCHANGED <<live, blk, shadows, staged>> /\ pc = "domain"
        /\ pc' = "stake" /\ i = Len(blk.txs) + 1
    BY <1>7 DEF DomainDone, AtEnd
  <2>2. NamesKnown(staged, staged.nonce) /\ View.spent \subseteq staged.spent
    BY <2>1 DEF DomainInv, Kept, SpendsKept, NoncesStaged
  <2>3. View.spent = live.spent
    BY <1>0, ViewFields DEF View
  <2> QED
    BY <1>0, <2>1, <2>2, <2>3 DEF DomainInv
<1>8. CASE StakeStep
  <2>1. /\ UNCHANGED <<live, blk, pc>> /\ pc = "stake" /\ ~AtEnd
        /\ staged' = ApplyStakeMutations(staged, Tx, blk.slot)
    BY <1>8 DEF StakeStep
  <2>2. /\ staged'.dom = staged.dom /\ staged'.spent = staged.spent
        /\ staged'.commits = staged.commits /\ staged'.nonce = staged.nonce
    BY <1>0, <2>1, CurrentTx, StakePassFields
  <2>3. NamesKnown(staged', staged'.nonce)
    BY <2>1, <2>2, NamesKnownReads DEF DomainInv
  <2> QED
    BY <1>0, <2>1, <2>2, <2>3 DEF DomainInv
<1>9. CASE AcceptBlock
  <2>1. pc = "stake" /\ pc' = "idle" /\ live' = CommitIndex(live, CommitCommits(staged))
    BY <1>9 DEF AcceptBlock, Idle, Committed
  <2>2. /\ live'.dom = staged.dom /\ live'.spent = staged.spent
        /\ live'.commits \subseteq staged.commits /\ live'.gone = {}
        /\ live'.nonce = staged.nonce
    BY <1>0, <2>1 DEF CommitIndex, CommitCommits, States
  <2>3. NamesKnown(live', live'.nonce)
    BY <2>1, <2>2, NamesKnownReads DEF DomainInv
  <2> QED
    BY <2>1, <2>2, <2>3 DEF DomainInv
<1>10. CASE UNCHANGED vars
  <2>1. UNCHANGED <<live, blk, pc, i, shadows, staged>> /\ View' = View
    BY <1>10 DEF vars, View
  <2> QED
    BY <2>1 DEF DomainInv
<1> QED
  BY <1>1, <1>2, <1>3, <1>4, <1>5, <1>6, <1>7, <1>8, <1>9, <1>10 DEF Next

\* At genesis there is nothing to know.
LEMMA InitDomain == Init => DomainInv
BY DEF Init, DomainInv, GenesisState, NoEntry, NamesKnown, Exists

\* The whole inductive invariant of this section.
LEMMA DomainInvHolds ==
  Spec => [](TypeOK /\ GatesHeld /\ NoncesStaged /\ DomainInv)
<1> DEFINE Inv == /\ TypeOK /\ GatesHeld /\ LedgerAgrees /\ DomainInv
                  /\ NoReplay /\ NoncesPassed /\ NoncesStaged
<1>1. Init => Inv
  <2> SUFFICES ASSUME Init PROVE Inv
    OBVIOUS
  <2>1. TypeOK /\ GatesHeld /\ LedgerAgrees /\ NoncesStaged
    BY InitTyped DEF Init, LedgerAgrees, NoncesStaged
  <2>2. Positions = {}
    BY DEF Init, Positions, Genesis
  <2> QED
    BY <2>1, <2>2, InitDomain DEF NoReplay, NoncesPassed
<1>2. Inv /\ [Next]_vars => Inv'
  BY NextTyped, NextAgrees, NextNonces, NextDomain
<1> QED
  BY <1>1, <1>2, PTL DEF Spec

\* Whenever the domain pass reaches a LIST, DELIST, BUY or TRANSFER, the name
\* is in the overlay: the passes of apply.go that read its expiry without a
\* nil check never meet a missing domain.
THEOREM MarketNeverMisses == Spec => []MarketFindsDomain
<1>1. TypeOK /\ GatesHeld /\ DomainInv => MarketFindsDomain
  <2>1. SUFFICES ASSUME TypeOK, GatesHeld, DomainInv, pc = "domain", ~AtEnd,
                        Tx.type \in MarketTypes
                 PROVE  Exists(staged, Tx.domain)
    BY DEF MarketFindsDomain
  <2>2. i \in 1 .. Len(blk.txs) /\ pc \in {"ledger", "domain", "stake"}
    BY <2>1, CurrentTx
  <2>3. GateTx(View, shadows[i], Tx, GateContext) /\ shadows[i] \in Shadows
    BY <2>1, <2>2, PastGates DEF Tx
  <2>4. Tx.domain \in shadows[i].registered \/ Exists(View, Tx.domain)
    BY <2>1, <2>3 DEF GateTx, StructureOK, MarketPhaseGate
  <2>5. NamesKept(View, staged, shadows[i])
    BY <2>1 DEF DomainInv, Kept
  <2> QED
    BY <2>4, <2>5 DEF NamesKept, Exists
<1> QED
  BY <1>1, DomainInvHolds, PTL

-----------------------------------------------------------------------------
(* The head of an active name is unspent *)

\* The IDs as the program hands them out: a transaction with an owner has an ID
\* of its own (the constructors draw it at random, transaction.go:625), an
\* auto-revocation the ID and the expiry of what it redeems
\* (node_leader.go:287-297).  The gates check none of this, so it is a
\* hypothesis: a signer who reuses an ID on purpose is outside the theorem.
IDsAsIssued ==
  /\ \A t1, t2 \in Submitted :
       t1.owner # None /\ t2.owner # None /\ t1.tid = t2.tid => t1 = t2
  /\ \A r \in Submitted : r.owner = None => r.tid = r.redeems
  /\ RevocationsKeepExpiry

\* tid is the ID of a transaction about d, with an owner, that was carried out.
Issued(tid, d, nonce) ==
  \E tx \in Submitted :
    /\ tx.tid = tid /\ tx.domain = d
    /\ tx.owner # None /\ tx.nonce < nonce[tx.owner]

\* Heads, commits and spent IDs were issued, and a spent head is no longer
\* active at the slot.
Unspent(S, nonce, slot) ==
  /\ \A d \in Domains : Exists(S, d) => Issued(S.dom[d].tid, d, nonce)
  /\ \A c \in S.commits : Issued(c.tid, None, nonce)
  /\ \A tid \in S.spent : \E d : Issued(tid, d, nonce)
  /\ \A d \in Domains :
       Exists(S, d) /\ S.dom[d].tid \in S.spent => Phase(S, d, slot) # "active"

\* A head that the block has replaced is spent, unless a REVEAL of the block
\* registered its name anew.
HeadsFollow(V, S, sh) ==
  \A d \in Domains \ sh.registered :
    S.dom[d].tid = V.dom[d].tid \/ V.dom[d].tid \in S.spent

UnspentInv ==
  /\ Unspent(live, live.nonce, Tip.slot)
  /\ pc = "domain" => /\ Unspent(staged, shadows[i].nonce, blk.slot)
                      /\ HeadsFollow(View, staged, shadows[i])
  /\ pc = "stake" => Unspent(staged, staged.nonce, blk.slot)

\* What was issued stays issued.
LEMMA IssuedGrows ==
  ASSUME NEW n1 \in Nonces, NEW n2 \in Nonces, \A k \in Keys : n1[k] <= n2[k],
         NEW tid, NEW d, Issued(tid, d, n1)
  PROVE  Issued(tid, d, n2)
<1>1. PICK tx \in Submitted : /\ tx.tid = tid /\ tx.domain = d
                             /\ tx.owner # None /\ tx.nonce < n1[tx.owner]
  BY DEF Issued
<1>2. tx \in Transactions
  BY SubmittedAssumption
<1>3. Done(tx, n1, {})
  BY <1>1 DEF Done
<1>4. Done(tx, n2, {})
  BY <1>2, <1>3, DoneGrows
<1> QED
  BY <1>1, <1>4 DEF Done, Issued

\* An ID is issued for one thing, and not before the transaction that bears it
\* is carried out.
LEMMA IssuedOnce ==
  ASSUME IDsAsIssued, NEW n
  PROVE  /\ \A tid, d1, d2 : Issued(tid, d1, n) /\ Issued(tid, d2, n) => d1 = d2
         /\ \A tx \in Submitted :
              tx.owner # None /\ ~(tx.nonce < n[tx.owner]) =>
                \A d : ~Issued(tx.tid, d, n)
BY DEF IDsAsIssued, Issued

\* The part of Unspent about IDs grows with the nonces.
LEMMA UnspentGrows ==
  ASSUME NEW S, NEW T, NEW n1 \in Nonces, NEW n2 \in Nonces,
         \A k \in Keys : n1[k] <= n2[k], NEW s1 \in Nat, NEW s2 \in Nat, s1 <= s2,
         S \in States, Unspent(S, n1, s1),
         \A d \in Domains : /\ T.dom[d].tid = S.dom[d].tid
                            /\ T.dom[d].expiry = S.dom[d].expiry,
         T.spent = S.spent, \A c \in T.commits : c \in S.commits \/ Issued(c.tid, None, n2)
  PROVE  Unspent(T, n2, s2)
<1>1. \A tid, d : Issued(tid, d, n1) => Issued(tid, d, n2)
  BY IssuedGrows
<1>2. \A d : Exists(T, d) <=> Exists(S, d)
  BY DEF Exists
<1>3. ASSUME NEW d \in Domains, Phase(S, d, s1) # "active"
      PROVE  Phase(T, d, s2) # "active"
  <2>1. S.dom[d].expiry \in Nat
    BY DEF States, Entries
  <2> QED
    BY <1>3, <2>1 DEF Phase, GetDomainPhase
<1> QED
  BY <1>1, <1>2, <1>3 DEF Unspent

\* A new head with an owner, in place of an older one or of a COMMIT.
LEMMA UnspentHead ==
  ASSUME IDsAsIssued, NEW S \in States, NEW T, NEW tx \in Submitted, NEW slot,
         tx.domain \in Domains, tx.owner # None,
         NEW n1 \in Nonces, NEW n2 \in Nonces, \A k \in Keys : n1[k] <= n2[k],
         ~(tx.nonce < n1[tx.owner]), tx.nonce < n2[tx.owner],
         Unspent(S, n1, slot), Restated(T, S, tx), T.commits = S.commits,
         T.spent = S.spent \cup {tx.redeems},
         NEW old \in {tx.domain, None}, Issued(tx.redeems, old, n1)
  PROVE  Unspent(T, n2, slot)
<1>1. \A tid, d : Issued(tid, d, n1) => Issued(tid, d, n2)
  BY IssuedGrows
<1>2. \A d : ~Issued(tx.tid, d, n1)
  BY IssuedOnce
<1>3. \A tid \in T.spent : \E d : Issued(tid, d, n1)
  BY DEF Unspent
<1>4. ASSUME NEW d \in Domains, Exists(T, d)
      PROVE  /\ Issued(T.dom[d].tid, d, n2)
             /\ T.dom[d].tid \in T.spent => Phase(T, d, slot) # "active"
  <2>1. CASE d = tx.domain
    <3>1. T.dom[d].tid = tx.tid
      BY <2>1 DEF Restated
    <3>2. tx.tid \notin T.spent
      BY <1>2, <1>3
    <3>3. Issued(tx.tid, tx.domain, n2)
      BY DEF Issued
    <3> QED
      BY <2>1, <3>1, <3>2, <3>3
  <2>2. CASE d # tx.domain
    <3>1. T.dom[d].tid = S.dom[d].tid /\ T.dom[d].expiry = S.dom[d].expiry
      BY <2>2 DEF Restated
    <3>2. Exists(S, d)
      BY <1>4, <3>1 DEF Exists
    <3>3. Issued(S.dom[d].tid, d, n1)
      BY <3>2 DEF Unspent
    <3>4. d # old
      BY <2>2, NamesAssumption
    <3>5. S.dom[d].tid # tx.redeems
      BY <3>3, <3>4, IssuedOnce
    <3>6. T.dom[d].tid \in T.spent => Phase(S, d, slot) # "active"
      BY <3>1, <3>2, <3>5 DEF Unspent
    <3> QED
      BY <1>1, <3>1, <3>3, <3>6 DEF Phase
  <2> QED
    BY <2>1, <2>2
<1>5. \A c \in T.commits : Issued(c.tid, None, n2)
  BY <1>1 DEF Unspent
<1>6. \A tid \in T.spent : \E d : Issued(tid, d, n2)
  BY <1>1, <1>3
<1> QED
  BY <1>4, <1>5, <1>6 DEF Unspent

\* An auto-revocation: the head stays and is spent, and so is its activity.
LEMMA UnspentRevoked ==
  ASSUME IDsAsIssued, NEW S \in States, NEW T, NEW tx \in Submitted, NEW slot,
         tx.domain \in Domains, tx.owner = None, tx.redeems # 0,
         NEW n1 \in Nonces, Unspent(S, n1, slot), NamesKnown(S, n1),
         Restated(T, S, tx), T.commits = S.commits,
         T.spent = S.spent \cup {tx.redeems},
         S.dom[tx.domain].tid = tx.redeems, Phase(S, tx.domain, slot) # "active"
  PROVE  Unspent(T, n1, slot)
<1>1. tx.tid = tx.redeems
  BY DEF IDsAsIssued
<1>2. Exists(S, tx.domain)
  BY DEF Exists
<1>3. tx.expiry = S.dom[tx.domain].expiry
  <2>1. HeadKnown(S, n1, tx.domain)
    BY <1>2 DEF NamesKnown
  <2>2. PICK t \in Submitted : /\ t.tid = S.dom[tx.domain].tid
                              /\ t.expiry = S.dom[tx.domain].expiry
    BY <2>1 DEF HeadKnown
  <2> QED
    BY <2>2 DEF IDsAsIssued, RevocationsKeepExpiry
<1>4. \A d \in Domains : /\ T.dom[d].tid = S.dom[d].tid
                         /\ T.dom[d].expiry = S.dom[d].expiry
  BY <1>1, <1>3 DEF Restated
<1>5. \A d \in Domains : /\ Exists(T, d) <=> Exists(S, d)
                         /\ Phase(T, d, slot) = Phase(S, d, slot)
  BY <1>4 DEF Exists, Phase
<1>6. Issued(tx.redeems, tx.domain, n1)
  BY <1>2 DEF Unspent
<1>7. ASSUME NEW d \in Domains, Exists(S, d), S.dom[d].tid = tx.redeems
      PROVE  d = tx.domain
  <2>1. Issued(tx.redeems, d, n1)
    BY <1>7 DEF Unspent
  <2> QED
    BY <1>6, <2>1, IssuedOnce
<1> QED
  BY <1>4, <1>5, <1>6, <1>7 DEF Unspent

\* Any transaction past the gates.
LEMMA UnspentKeepsUp ==
  ASSUME IDsAsIssued, NEW V \in States, NEW sh \in Shadows, NEW tx \in Submitted,
         NEW c, c.slot \in Nat, GateTx(V, sh, tx, c), NamesKnown(V, V.nonce),
         \A k \in Keys : V.nonce[k] <= sh.nonce[k], NEW L \in States, L.dom = V.dom,
         NEW S \in States, Kept(V, S, sh), NEW index, NEW s0,
         Unspent(V, V.nonce, s0), Unspent(S, sh.nonce, c.slot), HeadsFollow(V, S, sh)
  PROVE  LET T == ApplyDomainMutations(L, S, tx, c.slot, index)
             sh2 == ShadowAfter(V, sh, tx)
         IN  Unspent(T, sh2.nonce, c.slot) /\ HeadsFollow(V, T, sh2)
<1> DEFINE T == ApplyDomainMutations(L, S, tx, c.slot, index)
           sh2 == ShadowAfter(V, sh, tx)
<1>0. tx \in Transactions /\ tx.type # "REGISTER" /\ V.nonce \in Nonces
  BY SubmittedAssumption DEF GateTx, StructureOK, RegisterDeprecated, States, Nonces
<1>1. /\ sh.nonce \in Nonces /\ sh2.nonce \in Nonces
      /\ \A k \in Keys : sh.nonce[k] <= sh2.nonce[k]
      /\ tx.type # "REVEAL" => sh2.registered = sh.registered
      /\ tx.type = "REVEAL" => /\ tx.owner # None
                              /\ sh2.registered = sh.registered \cup {tx.domain}
      /\ tx.type = "COMMIT" => tx.owner # None
  BY ShadowSteps
<1>2. tx.owner # None => /\ ~(tx.nonce < sh.nonce[tx.owner])
                        /\ tx.nonce < sh2.nonce[tx.owner]
  <2>1. tx.owner # None => Done(tx, sh2.nonce, {})
    BY GateIsTurn
  <2> QED
    BY <2>1, GateIsTurn DEF Done
<1>3. tx.owner = None => sh2.nonce = sh.nonce
  BY DEF ShadowAfter, Shadows
<1>4. \A tid, d : Issued(tid, d, V.nonce) => Issued(tid, d, sh.nonce)
  BY <1>0, <1>1, IssuedGrows
<1> SUFFICES Unspent(T, sh2.nonce, c.slot) /\ HeadsFollow(V, T, sh2)
  OBVIOUS
<1> HIDE DEF sh2
<1>5. ASSUME SameHeads(T, S) PROVE Unspent(T, sh2.nonce, c.slot) /\ HeadsFollow(V, T, sh2)
  <2>1. /\ T.spent = S.spent /\ T.commits = S.commits
        /\ \A d \in Domains : /\ T.dom[d].tid = S.dom[d].tid
                              /\ T.dom[d].expiry = S.dom[d].expiry
    BY <1>5 DEF SameHeads
  <2> HIDE DEF T
  <2>2. Unspent(T, sh2.nonce, c.slot)
    BY <1>1, <2>1, UnspentGrows
  <2>3. HeadsFollow(V, T, sh2)
    BY <1>1, <2>1 DEF HeadsFollow
  <2> QED
    BY <2>2, <2>3
<1>6. CASE tx.type \in MarketTypes \cup PoSTypes \cup {"FUND"}
  <2>1. sh.registered \subseteq Domains
    BY DEF Shadows
  <2>2. SameHeads(T, S)
    BY <1>0, <1>6, <2>1, GateIsComplete, MarketEffect
  <2> QED
    BY <1>5, <2>2
<1>7. CASE tx.type = "COMMIT"
  <2> DEFINE rec == [hash |-> tx.hash, committer |-> tx.owner, slot |-> c.slot,
                     tid |-> tx.tid, expiry |-> index + CommitMaxWindow]
  <2>1. /\ T.dom = S.dom /\ T.spent = S.spent
        /\ T.commits = {x \in S.commits : x.hash # tx.hash} \cup {rec}
    BY <1>0, <1>7, CommitEffect
  <2>2. tx.domain = None
    BY <1>7 DEF GateTx, StructureOK, CommitGate
  <2>3. Issued(tx.tid, None, sh2.nonce)
    BY <1>1, <1>2, <1>7, <2>2 DEF Issued
  <2>4. rec.tid = tx.tid
    OBVIOUS
  <2> HIDE DEF T, rec
  <2>5. \A x \in T.commits : x \in S.commits \/ Issued(x.tid, None, sh2.nonce)
    BY <2>1, <2>3, <2>4
  <2>6. Unspent(T, sh2.nonce, c.slot)
    BY <1>1, <2>1, <2>5, UnspentGrows
  <2>7. HeadsFollow(V, T, sh2)
    BY <1>1, <1>7, <2>1 DEF HeadsFollow
  <2> QED
    BY <2>6, <2>7
<1>8. CASE tx.type = "REVEAL"
  <2>1. /\ HasCommit(S, RevealHash(tx)) /\ tx.domain \in Domains
        /\ CommitOf(V, RevealHash(tx)) \in V.commits
    BY <1>8, RevealFindsCommit
  <2>2. tx.redeems = CommitOf(V, RevealHash(tx)).tid
    BY <1>1, <1>8 DEF GateTx, RevealGate
  <2>3. Issued(tx.redeems, None, sh.nonce)
    BY <1>4, <2>1, <2>2 DEF Unspent
  <2>4. IF Free(S, tx.domain, c.slot)
        THEN /\ Restated(T, S, tx) /\ T.spent = S.spent \cup {tx.redeems}
             /\ T.commits = S.commits
        ELSE T = S
    BY <1>0, <1>8, <2>1, RevealEffect
  <2>5. CASE T = S
    <3>1. SameHeads(T, S)
      BY <2>5 DEF SameHeads
    <3> QED
      BY <1>5, <3>1
  <2>6. CASE /\ Restated(T, S, tx) /\ T.spent = S.spent \cup {tx.redeems}
             /\ T.commits = S.commits
    <3> HIDE DEF T
    <3>1. Unspent(T, sh2.nonce, c.slot)
      BY <1>1, <1>2, <1>8, <2>1, <2>3, <2>6, UnspentHead
    <3>2. HeadsFollow(V, T, sh2)
      BY <1>1, <1>8, <2>6 DEF HeadsFollow, Restated
    <3> QED
      BY <3>1, <3>2
  <2> QED
    BY <2>4, <2>5, <2>6
<1>9. CASE tx.type \in {"UPDATE", "RENEW", "REVOKE"}
  <2>1. tx.redeems # 0 /\ Redeems(tx)
    BY <1>9 DEF GateTx, StructureOK, StructuralGate, Redeems, RedeemTypes
  <2>2. \/ T = S
        \/ /\ ReplacesHead(L, S, tx) /\ Replaced(T, S, tx)
           /\ tx.type = "REVOKE" /\ tx.owner = None =>
                Exists(S, tx.domain) /\ Phase(S, tx.domain, c.slot) # "active"
    BY <1>0, <1>9, <2>1, ReplaceEffect
  <2>3. CASE T = S
    <3>1. SameHeads(T, S)
      BY <2>3 DEF SameHeads
    <3> QED
      BY <1>5, <3>1
  <2>4. CASE /\ ReplacesHead(L, S, tx) /\ Replaced(T, S, tx)
             /\ tx.type = "REVOKE" /\ tx.owner = None =>
                  Exists(S, tx.domain) /\ Phase(S, tx.domain, c.slot) # "active"
    <3>1. /\ Restated(T, S, tx) /\ T.spent = S.spent \cup {tx.redeems}
          /\ T.commits = S.commits
      BY <2>4 DEF Replaced
    <3>2. /\ tx.domain \in Domains
          /\ S.dom[tx.domain].tid = tx.redeems \/ V.dom[tx.domain].tid = tx.redeems
      BY <2>4 DEF ReplacesHead
    <3> HIDE DEF T
    <3>3. Issued(tx.redeems, tx.domain, sh.nonce)
      BY <1>4, <2>1, <3>2 DEF Unspent, Exists
    <3>4. HeadsFollow(V, T, sh2)
      <4>1. SUFFICES ASSUME NEW d \in Domains \ sh.registered
                     PROVE  T.dom[d].tid = V.dom[d].tid \/ V.dom[d].tid \in T.spent
        BY <1>1, <1>9 DEF HeadsFollow
      <4>2. S.dom[d].tid = V.dom[d].tid \/ V.dom[d].tid \in S.spent
        BY DEF HeadsFollow
      <4>3. d # tx.domain => T.dom[d].tid = S.dom[d].tid
        BY <3>1, <4>1 DEF Restated
      <4> QED
        BY <3>1, <3>2, <4>2, <4>3
    <3>5. CASE tx.owner # None
      <4>1. Unspent(T, sh2.nonce, c.slot)
        BY <1>1, <1>2, <3>1, <3>2, <3>3, <3>5, UnspentHead
      <4> QED
        BY <3>4, <4>1
    <3>6. CASE tx.owner = None
      <4>1. tx.type = "REVOKE" /\ tx.domain \notin sh.registered
        BY <3>6 DEF GateTx, AutoRevokeGate
      <4>2. tx.redeems \notin sh.spent \cup V.spent
        BY <2>1 DEF GateTx, StructureOK, RedeemGate
      <4>3. tx.redeems \notin S.spent
        BY <4>2 DEF Kept, SpendsKept
      <4>4. S.dom[tx.domain].tid = tx.redeems
        BY <3>2, <4>1, <4>3 DEF HeadsFollow
      <4>5. NamesKnown(S, sh.nonce) /\ Phase(S, tx.domain, c.slot) # "active"
        BY <2>4, <3>6, <4>1 DEF Kept
      <4>6. Unspent(T, sh.nonce, c.slot)
        BY <1>1, <2>1, <3>1, <3>2, <3>6, <4>4, <4>5, UnspentRevoked
      <4> QED
        BY <1>3, <3>4, <3>6, <4>6
    <3> QED
      BY <3>5, <3>6
  <2> QED
    BY <2>2, <2>3, <2>4
<1> QED
  BY <1>0, <1>6, <1>7, <1>8, <1>9
  DEF Transactions, TxTypes, MarketTypes, PoSTypes

\* Every step keeps the heads of active names unspent.
LEMMA NextUnspent ==
  ASSUME IDsAsIssued, TypeOK, GatesHeld, NoncesStaged, Underway, DomainInv,
         UnspentInv, [Next]_vars
  PROVE  UnspentInv'
<1>0. /\ live \in States /\ staged \in States /\ Unspent(live, live.nonce, Tip.slot)
      /\ live.nonce \in Nonces
  BY DEF TypeOK, UnspentInv, States, Nonces
<1>1. CASE \/ BlockArrives \/ GatePass \/ GateReject \/ GatesDone \/ LedgerStep
           \/ HashMismatch
  <2>1. UNCHANGED <<live, chain>> /\ pc' \notin {"domain", "stake"}
    BY <1>1 DEF BlockArrives, ReceiveBlock, GatePass, GateReject, GatesDone,
                LedgerStep, HashMismatch, Idle
  <2> QED
    BY <1>0, <2>1 DEF UnspentInv, Tip
<1>2. CASE LedgerDone
  <2>1. /\ UNCHANGED <<live, chain, blk, shadows>> /\ pc = "ledger"
        /\ pc' = "domain" /\ i' = 1 /\ View' = View
    BY <1>2 DEF LedgerDone, View
  <2>2. /\ staged'.dom = live.dom /\ staged'.commits = live.commits
        /\ staged'.spent = live.spent
    BY <1>2, DomainPassStarts
  <2>3. shadows[1].nonce = live.nonce /\ View.dom = live.dom
    BY <1>0, <2>1, ViewFields DEF GatesHeld, InitShadow, View
  <2>4. /\ Tip.slot \in Nat /\ blk.slot \in Nat /\ Tip.slot <= blk.slot
    <3>1. Tip \in Blocks \cup {Genesis} /\ blk \in Blocks
      BY <2>1 DEF TypeOK, Tip
    <3>2. Tip.slot \in Nat /\ blk.slot \in Nat
      BY <3>1, BlockFacts DEF Genesis
    <3>3. blk.slot > Tip.slot
      BY <2>1 DEF Underway, HeaderOK
    <3> QED
      BY <3>2, <3>3
  <2>5. Unspent(staged', live.nonce, blk.slot)
    <3>1. \A k \in Keys : live.nonce[k] <= live.nonce[k]
      BY <1>0 DEF Nonces
    <3> QED
      BY <1>0, <2>2, <2>4, <3>1, UnspentGrows
  <2>6. HeadsFollow(View, staged', shadows[1])
    BY <2>2, <2>3 DEF HeadsFollow
  <2> QED
    BY <1>0, <2>1, <2>3, <2>5, <2>6 DEF UnspentInv, Tip
<1>3. CASE DomainStep
  <2>1. /\ UNCHANGED <<live, chain, blk, shadows, pc>> /\ i' = i + 1 /\ pc = "domain"
        /\ View' = View
        /\ staged' = ApplyDomainMutations(live, staged, Tx, blk.slot, blk.index)
    BY <1>3 DEF DomainStep, View
  <2>2. /\ Kept(View, staged, shadows[i]) /\ Tx \in Submitted
        /\ View \in States /\ shadows[i] \in Shadows
        /\ GateTx(View, shadows[i], Tx, GateContext)
        /\ shadows[i + 1] = ShadowAfter(View, shadows[i], Tx)
        /\ NamesKnown(View, View.nonce)
        /\ \A k \in Keys : View.nonce[k] <= shadows[i].nonce[k]
    BY <1>3, DomainStepKeeps
  <2>3. /\ View.dom = live.dom /\ View.nonce = live.nonce
        /\ View.spent = live.spent /\ View.commits = live.commits
    BY <1>0, ViewFields DEF View
  <2>4. Unspent(View, View.nonce, Tip.slot)
    BY <1>0, <2>3 DEF Unspent, Exists, Phase
  <2>5. GateContext.slot = blk.slot /\ blk.slot \in Nat
    BY <2>1, BlockFacts DEF GateContext, TypeOK
  <2>6. /\ Unspent(staged, shadows[i].nonce, GateContext.slot)
        /\ HeadsFollow(View, staged, shadows[i])
    BY <2>1, <2>5 DEF UnspentInv
  <2>7. Unspent(staged', shadows[i + 1].nonce, blk.slot)
        /\ HeadsFollow(View, staged', shadows[i + 1])
    <3> HIDE DEF GateContext
    <3> QED
      BY <1>0, <2>1, <2>2, <2>3, <2>4, <2>5, <2>6, UnspentKeepsUp
  <2> QED
    BY <1>0, <2>1, <2>7 DEF UnspentInv, Tip
<1>4. CASE DomainDone
  <2>1. /\ UNCHANGED <<live, chain, blk, shadows, staged>> /\ pc = "domain"
        /\ pc' = "stake" /\ i = Len(blk.txs) + 1
    BY <1>4 DEF DomainDone, AtEnd
  <2>2. Unspent(staged, staged.nonce, blk.slot)
    BY <2>1 DEF UnspentInv, NoncesStaged
  <2> QED
    BY <1>0, <2>1, <2>2 DEF UnspentInv, Tip
<1>5. CASE StakeStep
  <2>1. /\ UNCHANGED <<live, chain, blk, pc>> /\ pc = "stake" /\ ~AtEnd
        /\ staged' = ApplyStakeMutations(staged, Tx, blk.slot)
    BY <1>5 DEF StakeStep
  <2>2. /\ staged'.dom = staged.dom /\ staged'.spent = staged.spent
        /\ staged'.commits = staged.commits /\ staged'.nonce = staged.nonce
    BY <1>0, <2>1, CurrentTx, StakePassFields
  <2>3. Unspent(staged', staged'.nonce, blk.slot)
    BY <2>1, <2>2 DEF UnspentInv, Unspent, Exists, Phase
  <2> QED
    BY <1>0, <2>1, <2>3 DEF UnspentInv, Tip
<1>6. CASE AcceptBlock
  <2>1. /\ pc = "stake" /\ pc' = "idle" /\ chain' = Append(chain, blk)
        /\ live' = CommitIndex(live, CommitCommits(staged))
    BY <1>6 DEF AcceptBlock, Idle, Committed
  <2>2. /\ live'.dom = staged.dom /\ live'.spent = staged.spent
        /\ live'.commits \subseteq staged.commits /\ live'.nonce = staged.nonce
    BY <1>0, <2>1 DEF CommitIndex, CommitCommits, States
  <2>3. Tip' = blk
    BY <2>1 DEF TypeOK, Tip
  <2>4. Unspent(live', live'.nonce, blk.slot)
    BY <2>1, <2>2 DEF UnspentInv, Unspent, Exists, Phase
  <2> QED
    BY <2>1, <2>3, <2>4 DEF UnspentInv
<1>7. CASE UNCHANGED vars
  BY <1>7 DEF vars, UnspentInv, Tip, View
<1> QED
  BY <1>1, <1>2, <1>3, <1>4, <1>5, <1>6, <1>7 DEF Next

\* The transaction that defines an active name can be redeemed next: no chain
\* of updates, renewals, revocations and registrations, in whatever order peers
\* pack them into blocks, spends the head of a name that is still active, which
\* Gate 1 (block.go:496-505) would then refuse to touch.  Auto-revocations are
\* included as the leader builds them, with the ID they redeem: they spend the
\* head that they leave in place, but only once the name has expired.
THEOREM HeadsStayUnspent == IDsAsIssued => (Spec => []HeadUnspent)
<1>1. SUFFICES ASSUME IDsAsIssued PROVE Spec => []HeadUnspent
  OBVIOUS
<1> DEFINE Base == TypeOK /\ GatesHeld /\ NoncesStaged /\ DomainInv
<1>2. Init => Underway /\ UnspentInv
  BY DEF Init, Underway, UnspentInv, Unspent, GenesisState, NoEntry, Exists
<1>3. Base /\ Underway /\ UnspentInv /\ [Next]_vars => Underway' /\ UnspentInv'
  BY <1>1, NextUnderway, NextUnspent
<1>4. UnspentInv => HeadUnspent
  BY DEF UnspentInv, Unspent, HeadUnspent
<1>5. Spec => []Base
  BY DomainInvHolds
<1> QED
  BY <1>2, <1>3, <1>4, <1>5, PTL DEF Spec

-----------------------------------------------------------------------------
(* What the gates accept as a registration is one *)

\* Transactions on other names leave a free name alone, and so does an
\* auto-revocation that copies the expiry.
LEMMA FreeKeepsUp ==
  ASSUME NEW V \in States, NEW sh \in Shadows, NEW tx \in Submitted, NEW c,
         GateTx(V, sh, tx, c), NamesKnown(V, V.nonce),
         \A k \in Keys : V.nonce[k] <= sh.nonce[k],
         NEW L \in States, L.dom = V.dom,
         NEW S \in States, Kept(V, S, sh), NEW index,
         FreeKept(V, S, sh, c.slot), RevocationsKeepExpiry \/ tx.type # "REVOKE"
  PROVE  FreeKept(V, ApplyDomainMutations(L, S, tx, c.slot, index),
                  ShadowAfter(V, sh, tx), c.slot)
<1> DEFINE sh2 == ShadowAfter(V, sh, tx)
           T == ApplyDomainMutations(L, S, tx, c.slot, index)
<1>0. tx \in Transactions /\ tx.type # "REGISTER"
  BY SubmittedAssumption DEF GateTx, StructureOK, RegisterDeprecated
<1>1. /\ tx.type # "REVEAL" => sh2.registered = sh.registered
      /\ tx.type = "REVEAL" => sh2.registered = sh.registered \cup {tx.domain}
  BY ShadowSteps
<1>2. SUFFICES ASSUME NEW d \in Domains, d \notin sh2.registered, Free(V, d, c.slot)
               PROVE  /\ Exists(T, d) <=> Exists(V, d)
                      /\ T.dom[d].expiry = V.dom[d].expiry
  BY DEF FreeKept
<1>3. d \notin sh.registered /\ (tx.type = "REVEAL" => d # tx.domain)
  BY <1>1, <1>2
<1>4. (Exists(S, d) <=> Exists(V, d)) /\ S.dom[d].expiry = V.dom[d].expiry
  BY <1>2, <1>3 DEF FreeKept
<1>5. ASSUME T.dom[d].tid = S.dom[d].tid, T.dom[d].expiry = S.dom[d].expiry
      PROVE  /\ Exists(T, d) <=> Exists(V, d)
             /\ T.dom[d].expiry = V.dom[d].expiry
  BY <1>4, <1>5 DEF Exists
<1>6. CASE tx.type \in MarketTypes \cup PoSTypes \cup {"FUND"}
  <2>1. sh.registered \subseteq Domains
    BY DEF Shadows
  <2>2. SameHeads(T, S)
    BY <1>0, <1>6, <2>1, GateIsComplete, MarketEffect
  <2> HIDE DEF T
  <2> QED
    BY <1>5, <2>2 DEF SameHeads
<1>7. CASE tx.type = "COMMIT"
  <2>1. T.dom = S.dom
    BY <1>7 DEF ApplyDomainMutations, ApplyCommit, AddCommit, States
  <2> QED
    BY <1>5, <2>1
<1>8. CASE tx.type = "REVEAL"
  <2>1. T = S \/ Restated(T, S, tx)
    BY <1>0, <1>8, RevealEffect
  <2> QED
    BY <1>3, <1>5, <1>8, <2>1 DEF Restated
<1>9. CASE tx.type \in {"UPDATE", "RENEW", "REVOKE"}
  <2>1. tx.redeems # 0
    BY <1>9 DEF GateTx, StructureOK, StructuralGate
  <2>2. \/ T = S
        \/ /\ ReplacesHead(L, S, tx) /\ Restated(T, S, tx)
           /\ tx.type = "REVOKE" /\ tx.owner = None => Exists(S, tx.domain)
    BY <1>0, <1>9, <2>1, ReplaceEffect DEF Replaced
  <2>3. CASE T = S
    BY <1>5, <2>3
  <2>4. CASE d # tx.domain /\ Restated(T, S, tx)
    BY <1>5, <2>4 DEF Restated
  <2>5. CASE /\ d = tx.domain /\ ReplacesHead(L, S, tx) /\ Restated(T, S, tx)
             /\ tx.type = "REVOKE" /\ tx.owner = None => Exists(S, tx.domain)
    <3>1. tx.owner = None
      <4>1. SUFFICES ASSUME tx.owner # None PROVE NotPurged(V, sh, tx, c)
        BY <1>2, <1>3, <2>5 DEF NotPurged, Free
      <4> QED
        BY <1>9, <4>1 DEF GateTx, UpdateRevokeGate, RenewGate
    <3>2. tx.type = "REVOKE"
      BY <3>1 DEF GateTx, AutoRevokeGate
    <3>3. Exists(S, d) /\ Exists(V, d)
      BY <1>4, <2>5, <3>1, <3>2
    <3>4. ReplacesHead(V, S, tx)
      BY <2>5 DEF ReplacesHead
    <3>5. PICK old \in Submitted : /\ old.tid = tx.redeems
                                  /\ old.expiry \in {S.dom[d].expiry, V.dom[d].expiry}
      BY <2>5, <3>4, ReplacedIsKnown
    <3>6. tx.expiry = V.dom[d].expiry
      BY <1>4, <3>1, <3>2, <3>5 DEF RevocationsKeepExpiry
    <3>7. T.dom[d].expiry = tx.expiry /\ T.dom[d].tid = tx.tid
      BY <2>5 DEF Restated
    <3>8. tx.tid # 0
      BY SubmittedAssumption
    <3> QED
      BY <3>3, <3>6, <3>7, <3>8 DEF Exists
  <2> QED
    BY <2>2, <2>3, <2>4, <2>5
<1> QED
  BY <1>0, <1>6, <1>7, <1>8, <1>9 DEF Transactions, TxTypes, MarketTypes, PoSTypes

\* Every step keeps free names free.
LEMMA NextFree ==
  ASSUME TypeOK, GatesHeld, DomainInv, FreeInv, [Next]_vars
  PROVE  FreeInv'
<1>1. CASE LedgerDone
  <2>1. /\ UNCHANGED <<live, blk, shadows>> /\ i' = 1 /\ pc = "ledger"
        /\ live \in States
    BY <1>1 DEF LedgerDone, TypeOK
  <2>2. staged'.dom = live.dom
    BY <1>1, DomainPassStarts
  <2>3. View' = View /\ View.dom = live.dom
    BY <2>1, ViewFields DEF View
  <2> QED
    BY <2>1, <2>2, <2>3 DEF FreeInv, FreeKept, Exists
<1>2. CASE DomainStep
  <2>1. /\ UNCHANGED <<live, blk, shadows, pc>> /\ i' = i + 1 /\ pc = "domain"
        /\ ~AtEnd /\ live \in States
        /\ staged' = ApplyDomainMutations(live, staged, Tx, blk.slot, blk.index)
    BY <1>2 DEF DomainStep, TypeOK
  <2>2. View' = View /\ View.dom = live.dom /\ GateContext.slot = blk.slot
    BY <2>1, ViewFields DEF View, GateContext
  <2>3. (RevokesHarmless' <=> RevokesHarmless)
    BY <2>1 DEF RevokesHarmless
  <2>4. SUFFICES ASSUME RevokesHarmless
                 PROVE  FreeKept(View, staged', shadows[i + 1], blk.slot)
    BY <2>1, <2>2, <2>3 DEF FreeInv
  <2>5. /\ Kept(View, staged, shadows[i]) /\ Tx \in Submitted /\ staged \in States
        /\ View \in States /\ shadows[i] \in Shadows
        /\ GateTx(View, shadows[i], Tx, GateContext)
        /\ shadows[i + 1] = ShadowAfter(View, shadows[i], Tx)
        /\ NamesKnown(View, View.nonce)
        /\ \A k \in Keys : View.nonce[k] <= shadows[i].nonce[k]
    BY <1>2, DomainStepKeeps
  <2>6. RevocationsKeepExpiry \/ Tx.type # "REVOKE"
    BY <2>1, <2>4, CurrentTx DEF RevokesHarmless, Tx
  <2>7. FreeKept(View, staged, shadows[i], blk.slot)
    BY <2>1, <2>4 DEF FreeInv
  <2> QED
    BY <2>1, <2>2, <2>5, <2>6, <2>7, FreeKeepsUp
<1>3. CASE UNCHANGED vars
  <2>1. UNCHANGED <<live, blk, pc, i, shadows, staged>> /\ View' = View
    BY <1>3 DEF vars, View
  <2> QED
    BY <2>1 DEF FreeInv, RevokesHarmless
<1>4. CASE \/ BlockArrives \/ GatePass \/ GateReject \/ GatesDone \/ LedgerStep
           \/ DomainDone \/ StakeStep \/ HashMismatch \/ AcceptBlock
  <2>1. pc' # "domain"
    BY <1>4 DEF BlockArrives, ReceiveBlock, GatePass, GateReject, GatesDone,
                LedgerStep, DomainDone, StakeStep, HashMismatch, AcceptBlock, Idle
  <2> QED
    BY <2>1 DEF FreeInv
<1> QED
  BY <1>1, <1>2, <1>3, <1>4 DEF Next

\* What the domain pass knows of a REVEAL it reaches.
LEMMA RevealIsEffective ==
  ASSUME TypeOK, GatesHeld, DomainInv, FreeInv, RevokesHarmless,
         pc = "domain", ~AtEnd, Tx.type = "REVEAL"
  PROVE  /\ HasCommit(staged, RevealHash(Tx)) /\ Free(staged, Tx.domain, blk.slot)
         /\ Tx.domain \in Domains
<1>1. /\ i \in 1 .. Len(blk.txs) /\ blk \in Blocks /\ live \in States
      /\ staged \in States /\ Len(blk.txs) \in Nat
  BY CurrentTx, BlockFacts DEF TypeOK
<1>2. Tx \in Submitted
  BY <1>1, BlockFacts DEF Tx
<1>3. GateTx(View, shadows[i], Tx, GateContext) /\ shadows[i] \in Shadows
      /\ View \in States
  BY <1>1, PastGates DEF Tx
<1>4. /\ View.dom = live.dom /\ View.nonce = live.nonce
      /\ View.spent = live.spent /\ View.commits = live.commits
  BY <1>1, ViewFields DEF View
<1>5. NamesKnown(View, View.nonce) /\ Kept(View, staged, shadows[i])
  BY <1>4, NamesKnownReads DEF DomainInv
<1>6. \A k \in Keys : View.nonce[k] <= shadows[i].nonce[k]
  <2>1. Grows(shadows[1], shadows[i])
    BY <1>1, ShadowsGrow
  <2>2. shadows[1].nonce = View.nonce
    BY DEF GatesHeld, InitShadow
  <2> QED
    BY <2>1, <2>2 DEF Grows
<1>7. /\ HasCommit(staged, RevealHash(Tx)) /\ Tx.domain \in Domains
      /\ Tx.domain \notin shadows[i].registered /\ Free(View, Tx.domain, blk.slot)
  <2>1. GateContext.slot = blk.slot
    BY DEF GateContext
  <2> QED
    BY <1>2, <1>3, <1>5, <1>6, <2>1, RevealFindsCommit
<1>8. Free(staged, Tx.domain, blk.slot)
  BY <1>7 DEF FreeInv, FreeKept, Free, Phase
<1> QED
  BY <1>7, <1>8

\* The invariant of this section.
LEMMA FreeInvHolds ==
  Spec => [](TypeOK /\ GatesHeld /\ NoncesStaged /\ DomainInv /\ FreeInv)
<1> DEFINE Base == TypeOK /\ GatesHeld /\ NoncesStaged /\ DomainInv
<1>1. Init => FreeInv
  BY DEF Init, FreeInv
<1>2. Base /\ FreeInv /\ [Next]_vars => FreeInv'
  BY NextFree
<1> QED
  BY <1>1, <1>2, DomainInvHolds, PTL DEF Spec

\* A REVEAL that the gates accepted is carried out, whatever else the block
\* holds, provided that auto-revocations copy the expiry of what they revoke:
\* no registration fee is taken for nothing (apply.go:119-148).
THEOREM RevealsTakeEffect ==
  RevocationsKeepExpiry => (Spec => []RevealTakesEffect)
<1>1. SUFFICES ASSUME RevocationsKeepExpiry PROVE Spec => []RevealTakesEffect
  OBVIOUS
<1>2. TypeOK /\ GatesHeld /\ DomainInv /\ FreeInv => RevealTakesEffect
  <2>1. SUFFICES ASSUME TypeOK, GatesHeld, DomainInv, FreeInv, pc = "domain",
                        ~AtEnd, Tx.type = "REVEAL"
                 PROVE  ApplyReveal(staged, Tx, blk.slot) # staged
    BY DEF RevealTakesEffect
  <2>2. /\ HasCommit(staged, RevealHash(Tx)) /\ Free(staged, Tx.domain, blk.slot)
        /\ Tx.domain \in Domains
    BY <1>1, <2>1, RevealIsEffective DEF RevokesHarmless
  <2>3. staged \in States /\ Tx \in Transactions
    BY <2>1, CurrentTx DEF TypeOK
  <2>4. ApplyReveal(staged, Tx, blk.slot).gone = staged.gone \cup {RevealHash(Tx)}
    <3>1. ApplyDomainMutations(live, staged, Tx, blk.slot, 0).gone
            = staged.gone \cup {RevealHash(Tx)}
      BY <2>1, <2>2, <2>3, RevealEffect
    <3> QED
      BY <2>1, <3>1 DEF ApplyDomainMutations
  <2>5. RevealHash(Tx) \notin staged.gone
    BY <2>2 DEF HasCommit
  <2> QED
    BY <2>4, <2>5
<1> QED
  BY <1>2, FreeInvHolds, PTL

-----------------------------------------------------------------------------
(* Every registration answers a COMMIT of its own *)

IsReveal(tx) == tx.type = "REVEAL"

\* The COMMIT tx of block b left the record c.
LeftBy(c, tx, b) ==
  /\ tx.type = "COMMIT"
  /\ c = [hash |-> tx.hash, committer |-> tx.owner, slot |-> b.slot,
          tid |-> tx.tid, expiry |-> b.index + CommitMaxWindow]

\* Every record in the store was left by a COMMIT of the chain, every staged
\* one by a COMMIT of the chain or of the block in progress.
CommitsTraced ==
  /\ \A c \in live.commits : \E p \in Positions : LeftBy(c, TxAt(p), chain[p[1]])
  /\ pc \in {"domain", "stake"} =>
       \A c \in staged.commits :
         c \in live.commits \/ \E j \in 1 .. Len(blk.txs) : LeftBy(c, blk.txs[j], blk)

\* What a REVEAL redeems is spent once it is carried out.
RevealsSpend ==
  /\ \A q \in Positions : IsReveal(TxAt(q)) => TxAt(q).redeems \in live.spent
  /\ pc = "domain" =>
       \A j \in 1 .. i - 1 :
         IsReveal(blk.txs[j]) => blk.txs[j].redeems \in staged.spent
  /\ pc = "stake" =>
       \A j \in 1 .. Len(blk.txs) :
         IsReveal(blk.txs[j]) => blk.txs[j].redeems \in staged.spent

\* Every REVEAL of the chain has the COMMIT it needs.
RevealsAnswer ==
  \A q \in Positions : IsReveal(TxAt(q)) =>
    \E p \in Positions :
      /\ Answers(p, q)
      /\ TxAt(p).owner = TxAt(q).owner
      /\ chain[q[1]].slot - chain[p[1]].slot >= CommitMinDelay
      /\ chain[q[1]].index - chain[p[1]].index <= CommitMaxWindow

\* No two REVEALs of the chain redeem the same COMMIT.
RevealsDiffer ==
  \A q, r \in Positions :
    IsReveal(TxAt(q)) /\ IsReveal(TxAt(r)) /\ TxAt(q).redeems = TxAt(r).redeems
      => q = r

RevealInv == CommitsTraced /\ RevealsSpend /\ RevealsAnswer /\ RevealsDiffer

\* Positions of the chain stay where they are.
LEMMA OldPositions ==
  ASSUME TypeOK, blk \in Blocks, chain' = Append(chain, blk), NEW p \in Positions
  PROVE  p \in Positions' /\ TxAt(p)' = TxAt(p) /\ chain'[p[1]] = chain[p[1]]
<1>1. chain \in Seq(Blocks \cup {Genesis}) /\ Len(chain) \in Nat
  BY DEF TypeOK
<1>2. /\ DOMAIN chain = 1 .. Len(chain) /\ DOMAIN chain' = 1 .. Len(chain) + 1
      /\ \A b \in 1 .. Len(chain) : chain'[b] = chain[b]
  BY <1>1
<1>3. PICK b \in DOMAIN chain : p \in {b} \X DOMAIN chain[b].txs
  BY DEF Positions
<1>4. b \in DOMAIN chain' /\ chain'[b] = chain[b] /\ p[1] = b
  BY <1>1, <1>2, <1>3
<1>5. p \in {b} \X DOMAIN chain'[b].txs
  BY <1>3, <1>4
<1>6. p \in Positions'
  BY <1>4, <1>5 DEF Positions
<1> QED
  BY <1>4, <1>6 DEF TxAt

\* The transactions of an accepted block get positions.
LEMMA BlockPositions ==
  ASSUME TypeOK, blk \in Blocks, chain' = Append(chain, blk),
         NEW j \in 1 .. Len(blk.txs)
  PROVE  \E p \in Positions' : TxAt(p)' = blk.txs[j] /\ chain'[p[1]] = blk
<1>1. chain \in Seq(Blocks \cup {Genesis}) /\ Len(chain) \in Nat
  BY DEF TypeOK
<1>2. PICK n \in DOMAIN chain' : chain'[n] = blk
  BY <1>1
<1>3. PICK p : p = <<n, j>>
  OBVIOUS
<1>4. p \in {n} \X DOMAIN chain'[n].txs /\ p[1] = n /\ p[2] = j
  BY <1>2, <1>3, BlockFacts
<1>5. p \in Positions'
  BY <1>4 DEF Positions
<1>6. TxAt(p)' = blk.txs[j] /\ chain'[p[1]] = blk
  BY <1>2, <1>4 DEF TxAt
<1> QED
  BY <1>5, <1>6

\* What the gates checked of a REVEAL of the block.
LEMMA BlockReveals ==
  ASSUME TypeOK, GatesHeld, DomainInv, pc \in {"ledger", "domain", "stake"},
         NEW j \in 1 .. Len(blk.txs), IsReveal(blk.txs[j])
  PROVE  /\ \E cm \in live.commits :
              /\ cm.hash = RevealHash(blk.txs[j]) /\ cm.tid = blk.txs[j].redeems
              /\ cm.committer = blk.txs[j].owner
              /\ blk.slot - cm.slot >= CommitMinDelay
              /\ ~(blk.index > cm.expiry)
         /\ blk.txs[j].redeems \notin live.spent
         /\ blk.txs[j].redeems \notin shadows[j].spent
         /\ \A m \in j + 1 .. Len(blk.txs) + 1 :
              blk.txs[j].redeems \in shadows[m].spent
<1> DEFINE tx == blk.txs[j]
           h == RevealHash(tx)
           cm == CommitOf(View, h)
<1>1. /\ blk \in Blocks /\ Len(blk.txs) \in Nat /\ live \in States
      /\ tx \in Submitted
  BY BlockFacts DEF TypeOK
<1>2. /\ GateTx(View, shadows[j], tx, GateContext)
      /\ shadows[j + 1] = ShadowAfter(View, shadows[j], tx)
      /\ shadows[j] \in Shadows /\ View \in States
  BY PastGates
<1>3. tx.type = "REVEAL" /\ tx.owner # None
  BY <1>1, <1>2, ShadowSteps DEF IsReveal
<1>4. RevealGate(View, shadows[j], tx, GateContext)
  BY <1>2, <1>3 DEF GateTx
<1>5. /\ HasCommit(View, h) /\ tx.redeems = cm.tid /\ tx.owner = cm.committer
      /\ blk.slot - cm.slot >= CommitMinDelay
  BY <1>3, <1>4 DEF RevealGate, GateContext
<1>6. cm \in View.commits /\ cm.hash = h /\ h \notin View.gone
  BY <1>5 DEF HasCommit, CommitOf
<1>7. View.commits = live.commits /\ View.spent = live.spent
  BY <1>1, ViewFields DEF View
<1>8. ~(blk.index > cm.expiry)
  <2>1. View.gone = live.gone \cup
                    {r.hash : r \in {x \in live.commits : blk.index > x.expiry}}
    BY <1>1 DEF View, PurgeExpired, States
  <2> QED
    BY <1>6, <1>7, <2>1
<1>9. Redeems(tx)
  <2>1. PICK old \in Submitted : old.tid = cm.tid
    BY <1>6, <1>7 DEF DomainInv, NamesKnown, CommitKnown
  <2> QED
    BY <1>3, <1>5, <2>1, SubmittedAssumption DEF Redeems, RedeemTypes
<1>10. tx.redeems \notin shadows[j].spent /\ tx.redeems \notin live.spent
  BY <1>2, <1>7, <1>9 DEF GateTx, StructureOK, RedeemGate
<1>11. ASSUME NEW m \in j + 1 .. Len(blk.txs) + 1
       PROVE  tx.redeems \in shadows[m].spent
  <2>1. tx.redeems \in shadows[j + 1].spent
    BY <1>1, <1>2, <1>9, ShadowSteps
  <2>2. Grows(shadows[j + 1], shadows[m])
    BY <1>1, ShadowsGrow
  <2> QED
    BY <2>1, <2>2 DEF Grows
<1>12. \E x \in live.commits :
         /\ x.hash = h /\ x.tid = tx.redeems /\ x.committer = tx.owner
         /\ blk.slot - x.slot >= CommitMinDelay /\ ~(blk.index > x.expiry)
  <2> HIDE DEF cm
  <2> QED
    BY <1>5, <1>6, <1>7, <1>8
<1> QED
  BY <1>10, <1>11, <1>12

\* Accepting a block adds REVEALs that answer COMMITs nobody answered.
LEMMA AcceptReveals ==
  ASSUME TypeOK, GatesHeld, DomainInv, RevealInv, AcceptBlock
  PROVE  RevealInv'
<1> DEFINE n == Len(blk.txs)
           Old(x) == x \in Positions /\ TxAt(x)' = TxAt(x) /\ chain'[x[1]] = chain[x[1]]
           New(x, j) == /\ x = <<Len(chain) + 1, j>> /\ TxAt(x)' = blk.txs[j]
                        /\ chain'[x[1]] = blk
<1>1. /\ pc = "stake" /\ pc' = "idle" /\ blk \in Blocks
      /\ chain' = Append(chain, blk) /\ n \in Nat
      /\ live \in States /\ staged \in States
      /\ live' = CommitIndex(live, CommitCommits(staged))
  BY BlockFacts DEF AcceptBlock, Idle, Committed, TypeOK
<1>2. live'.spent = staged.spent /\ live'.commits \subseteq staged.commits
  BY <1>1 DEF CommitIndex, CommitCommits, States
<1>3. ASSUME NEW x \in Positions' PROVE Old(x) \/ \E j \in 1 .. n : New(x, j)
  BY <1>1, NewPositions
<1>4. ASSUME NEW x \in Positions PROVE x \in Positions' /\ Old(x)
  BY <1>1, OldPositions
<1>5. live.spent \subseteq live'.spent
  BY <1>1, <1>2 DEF DomainInv
<1>6. CommitsTraced'
  <2>1. ASSUME NEW c \in live'.commits
        PROVE  \E p \in Positions' : LeftBy(c, TxAt(p)', chain'[p[1]])
    <3>1. CASE c \in live.commits
      <4>1. PICK p \in Positions : LeftBy(c, TxAt(p), chain[p[1]])
        BY <3>1 DEF RevealInv, CommitsTraced
      <4> QED
        BY <1>4, <4>1
    <3>2. CASE \E j \in 1 .. n : LeftBy(c, blk.txs[j], blk)
      <4>1. PICK j \in 1 .. n : LeftBy(c, blk.txs[j], blk)
        BY <3>2
      <4>2. PICK p \in Positions' : TxAt(p)' = blk.txs[j] /\ chain'[p[1]] = blk
        BY <1>1, BlockPositions
      <4> QED
        BY <4>1, <4>2
    <3> QED
      BY <1>1, <1>2, <2>1, <3>1, <3>2 DEF RevealInv, CommitsTraced
  <2> QED
    BY <1>1, <2>1 DEF CommitsTraced, LeftBy
<1>7. RevealsSpend'
  <2>1. ASSUME NEW q \in Positions', IsReveal(TxAt(q)')
        PROVE  TxAt(q)'.redeems \in live'.spent
    BY <1>1, <1>2, <1>3, <1>5, <2>1 DEF RevealInv, RevealsSpend
  <2> QED
    BY <1>1, <2>1 DEF RevealsSpend, IsReveal
<1>8. RevealsAnswer'
  <2>1. SUFFICES ASSUME NEW q \in Positions', IsReveal(TxAt(q)')
                 PROVE  \E p \in Positions' :
                          /\ Answers(p, q)'
                          /\ TxAt(p)'.owner = TxAt(q)'.owner
                          /\ chain'[q[1]].slot - chain'[p[1]].slot >= CommitMinDelay
                          /\ chain'[q[1]].index - chain'[p[1]].index <= CommitMaxWindow
    BY DEF RevealsAnswer, IsReveal
  <2>2. CASE Old(q)
    <3>1. PICK p \in Positions :
            /\ Answers(p, q) /\ TxAt(p).owner = TxAt(q).owner
            /\ chain[q[1]].slot - chain[p[1]].slot >= CommitMinDelay
            /\ chain[q[1]].index - chain[p[1]].index <= CommitMaxWindow
      BY <2>1, <2>2 DEF RevealInv, RevealsAnswer
    <3>2. p \in Positions' /\ Old(p)
      BY <1>4
    <3>3. Answers(p, q)'
      BY <2>2, <3>1, <3>2 DEF Answers, RevealHash
    <3> QED
      BY <2>2, <3>1, <3>2, <3>3
  <2>3. CASE \E j \in 1 .. n : New(q, j)
    <3>1. PICK j \in 1 .. n : TxAt(q)' = blk.txs[j] /\ chain'[q[1]] = blk
      BY <2>3
    <3>2. PICK cm \in live.commits :
            /\ cm.hash = RevealHash(blk.txs[j]) /\ cm.tid = blk.txs[j].redeems
            /\ cm.committer = blk.txs[j].owner
            /\ blk.slot - cm.slot >= CommitMinDelay /\ ~(blk.index > cm.expiry)
      BY <1>1, <2>1, <3>1, BlockReveals
    <3>3. PICK p \in Positions : LeftBy(cm, TxAt(p), chain[p[1]])
      BY DEF RevealInv, CommitsTraced
    <3>4. p \in Positions' /\ TxAt(p)' = TxAt(p) /\ chain'[p[1]] = chain[p[1]]
      BY <1>4
    <3>5. /\ TxAt(p).type = "COMMIT" /\ cm.hash = TxAt(p).hash
          /\ cm.committer = TxAt(p).owner /\ cm.tid = TxAt(p).tid
          /\ cm.slot = chain[p[1]].slot
          /\ cm.expiry = chain[p[1]].index + CommitMaxWindow
      BY <3>3 DEF LeftBy
    <3>6. chain[p[1]].index \in Nat /\ blk.index \in Nat
      <4>1. PICK b \in DOMAIN chain : p \in {b} \X DOMAIN chain[b].txs
        BY DEF Positions
      <4>2. chain[b] \in Blocks \cup {Genesis} /\ p[1] = b
        BY <4>1 DEF TypeOK
      <4> QED
        BY <1>1, <4>2, BlockFacts DEF Genesis
    <3>7. blk.index - chain[p[1]].index <= CommitMaxWindow
      BY <3>2, <3>5, <3>6, LimitsAssumption
    <3>8. Answers(p, q)'
      BY <3>1, <3>2, <3>4, <3>5 DEF Answers, RevealHash
    <3> QED
      BY <3>1, <3>2, <3>4, <3>5, <3>7, <3>8
  <2> QED
    BY <1>3, <2>2, <2>3
<1>9. RevealsDiffer'
  <2>1. SUFFICES ASSUME NEW q \in Positions', NEW r \in Positions',
                        IsReveal(TxAt(q)'), IsReveal(TxAt(r)'),
                        TxAt(q)'.redeems = TxAt(r)'.redeems
                 PROVE  q = r
    BY DEF RevealsDiffer, IsReveal
  <2>2. ASSUME NEW x \in Positions, NEW j \in 1 .. n, IsReveal(TxAt(x)),
               IsReveal(blk.txs[j]), TxAt(x).redeems = blk.txs[j].redeems
        PROVE  FALSE
    BY <1>1, <2>2, BlockReveals DEF RevealInv, RevealsSpend
  <2>3. ASSUME NEW j \in 1 .. n, NEW m \in 1 .. n, j < m, IsReveal(blk.txs[j]),
               IsReveal(blk.txs[m]), blk.txs[j].redeems = blk.txs[m].redeems
        PROVE  FALSE
    <3>1. m \in j + 1 .. n + 1
      BY <1>1, <2>3
    <3>2. blk.txs[j].redeems \in shadows[m].spent
      BY <1>1, <2>3, <3>1, BlockReveals
    <3>3. blk.txs[m].redeems \notin shadows[m].spent
      BY <1>1, <2>3, BlockReveals
    <3> QED
      BY <2>3, <3>2, <3>3
  <2>4. CASE Old(q) /\ Old(r)
    BY <2>1, <2>4 DEF RevealInv, RevealsDiffer
  <2>5. CASE \E j \in 1 .. n, m \in 1 .. n : New(q, j) /\ New(r, m)
    <3>1. PICK j \in 1 .. n, m \in 1 .. n : New(q, j) /\ New(r, m)
      BY <2>5
    <3>2. j = m
      BY <1>1, <2>1, <2>3, <3>1
    <3> QED
      BY <3>1, <3>2
  <2>6. CASE Old(q) /\ \E j \in 1 .. n : New(r, j)
    BY <2>1, <2>2, <2>6
  <2>7. CASE Old(r) /\ \E j \in 1 .. n : New(q, j)
    BY <2>1, <2>2, <2>7
  <2> QED
    BY <1>3, <2>4, <2>5, <2>6, <2>7
<1> QED
  BY <1>6, <1>7, <1>8, <1>9 DEF RevealInv

\* Every step keeps the record of COMMITs and REVEALs straight.
LEMMA NextReveals ==
  ASSUME RevocationsKeepExpiry, TypeOK, GatesHeld, DomainInv, FreeInv, RevealInv,
         [Next]_vars
  PROVE  RevealInv'
<1> DEFINE Chain == /\ RevealsAnswer /\ RevealsDiffer
                    /\ \A c \in live.commits :
                         \E p \in Positions : LeftBy(c, TxAt(p), chain[p[1]])
                    /\ \A q \in Positions :
                         IsReveal(TxAt(q)) => TxAt(q).redeems \in live.spent
<1>0. live \in States /\ staged \in States
  BY DEF TypeOK
<1>1. ASSUME UNCHANGED <<live, chain>> PROVE Chain'
  <2>1. /\ Positions' = Positions /\ \A p : TxAt(p)' = TxAt(p)
        /\ live' = live /\ chain' = chain
    BY <1>1 DEF Positions, TxAt
  <2>2. \A p, q : Answers(p, q)' <=> Answers(p, q)
    BY <2>1 DEF Answers, RevealHash
  <2>3. RevealsAnswer'
    BY <2>1, <2>2 DEF RevealInv, RevealsAnswer, IsReveal
  <2>4. RevealsDiffer'
    BY <2>1 DEF RevealInv, RevealsDiffer, IsReveal
  <2>5. \A c \in live'.commits :
          \E p \in Positions' : LeftBy(c, TxAt(p), chain[p[1]])'
    BY <2>1 DEF RevealInv, CommitsTraced, LeftBy
  <2>6. \A q \in Positions' :
          IsReveal(TxAt(q))' => TxAt(q)'.redeems \in live'.spent
    BY <2>1 DEF RevealInv, RevealsSpend, IsReveal
  <2> QED
    BY <2>3, <2>4, <2>5, <2>6
<1>2. CASE \/ BlockArrives \/ GatePass \/ GateReject \/ GatesDone \/ LedgerStep
           \/ HashMismatch
  <2>1. UNCHANGED <<live, chain>> /\ pc' \notin {"domain", "stake"}
    BY <1>2 DEF BlockArrives, ReceiveBlock, GatePass, GateReject, GatesDone,
                LedgerStep, HashMismatch, Idle
  <2> QED
    BY <1>1, <2>1 DEF RevealInv, CommitsTraced, RevealsSpend
<1>3. CASE LedgerDone
  <2>1. UNCHANGED <<live, chain, blk>> /\ i' = 1 /\ pc' = "domain"
    BY <1>3 DEF LedgerDone
  <2>2. staged'.commits = live.commits
    BY <1>3, DomainPassStarts
  <2>3. 1 .. i' - 1 = {}
    BY <2>1
  <2> QED
    BY <1>1, <2>1, <2>2, <2>3 DEF RevealInv, CommitsTraced, RevealsSpend
<1>4. CASE DomainStep
  <2>1. /\ UNCHANGED <<live, chain, blk, pc>> /\ i' = i + 1 /\ pc = "domain" /\ ~AtEnd
        /\ staged' = ApplyDomainMutations(live, staged, Tx, blk.slot, blk.index)
    BY <1>4 DEF DomainStep
  <2>2. Tx \in Submitted /\ GateTx(View, shadows[i], Tx, GateContext)
    BY <1>4, DomainStepKeeps
  <2>3. Tx \in Transactions /\ i \in 1 .. Len(blk.txs) /\ Tx = blk.txs[i]
    BY <2>1, CurrentTx DEF Tx
  <2>4. /\ \/ staged'.commits = staged.commits
           \/ \A c \in staged'.commits : c \in staged.commits \/ LeftBy(c, Tx, blk)
        /\ staged.spent \subseteq staged'.spent
        /\ Tx.type = "REVEAL" => Tx.redeems \in staged'.spent
    <3>1. CASE Tx.type \in MarketTypes \cup PoSTypes \cup {"FUND"}
      <4>1. shadows[i].registered \subseteq Domains
        BY <1>4, DomainStepKeeps DEF Shadows
      <4>2. SameHeads(staged', staged)
        BY <1>0, <2>1, <2>2, <2>3, <3>1, <4>1, GateIsComplete, MarketEffect
      <4> QED
        BY <3>1, <4>2 DEF SameHeads, MarketTypes, PoSTypes
    <3>2. CASE Tx.type = "COMMIT"
      <4> DEFINE rec == [hash |-> Tx.hash, committer |-> Tx.owner,
                         slot |-> blk.slot, tid |-> Tx.tid,
                         expiry |-> blk.index + CommitMaxWindow]
      <4>1. staged' = AddCommit(staged, rec)
        BY <2>1, <3>2 DEF ApplyDomainMutations, ApplyCommit
      <4>2. LeftBy(rec, Tx, blk)
        BY <3>2 DEF LeftBy
      <4> HIDE DEF rec
      <4>3. /\ staged'.spent = staged.spent
            /\ staged'.commits \subseteq staged.commits \cup {rec}
        BY <1>0, <4>1 DEF AddCommit, States
      <4> QED
        BY <3>2, <4>2, <4>3
    <3>3. CASE Tx.type = "REVEAL"
      <4>1. HasCommit(staged, RevealHash(Tx)) /\ Free(staged, Tx.domain, blk.slot)
        BY <2>1, <3>3, RevealIsEffective DEF RevokesHarmless
      <4>2. PICK tx \in Transactions : tx = Tx
        BY <2>3
      <4>3. LET T == ApplyDomainMutations(live, staged, tx, blk.slot, blk.index)
            IN  T.spent = staged.spent \cup {tx.redeems} /\ T.commits = staged.commits
        BY <1>0, <3>3, <4>1, <4>2, RevealEffect
      <4> QED
        BY <2>1, <4>2, <4>3
    <3>4. CASE Tx.type \in {"UPDATE", "RENEW", "REVOKE"}
      <4>1. Tx.redeems # 0
        BY <2>2, <3>4 DEF GateTx, StructureOK, StructuralGate
      <4>2. staged' = staged \/ Replaced(staged', staged, Tx)
        BY <1>0, <2>1, <2>3, <3>4, <4>1, ReplaceEffect
      <4> QED
        BY <3>4, <4>2 DEF Replaced
    <3>5. Tx.type # "REGISTER"
      BY <2>2 DEF GateTx, StructureOK, RegisterDeprecated
    <3> QED
      BY <2>3, <3>1, <3>2, <3>3, <3>4, <3>5
      DEF Transactions, TxTypes, MarketTypes, PoSTypes
  <2>5. CommitsTraced'
    <3>1. ASSUME NEW c \in staged'.commits
          PROVE  \/ c \in live.commits
                 \/ \E j \in 1 .. Len(blk.txs) : LeftBy(c, blk.txs[j], blk)
      BY <2>1, <2>3, <2>4 DEF RevealInv, CommitsTraced
    <3> QED
      BY <1>1, <2>1, <3>1 DEF CommitsTraced, LeftBy
  <2>6. RevealsSpend'
    <3>1. ASSUME NEW j \in 1 .. i, IsReveal(blk.txs[j])
          PROVE  blk.txs[j].redeems \in staged'.spent
      <4>1. CASE j = i
        BY <2>3, <2>4, <3>1, <4>1 DEF IsReveal
      <4>2. CASE j # i
        BY <2>1, <2>3, <2>4, <3>1, <4>2 DEF RevealInv, RevealsSpend
      <4> QED
        BY <4>1, <4>2
    <3>2. (i + 1) - 1 = i
      BY <2>3
    <3> QED
      BY <1>1, <2>1, <3>1, <3>2 DEF RevealsSpend, IsReveal
  <2> QED
    BY <1>1, <2>1, <2>5, <2>6 DEF RevealInv
<1>5. CASE DomainDone
  <2>1. /\ UNCHANGED <<live, chain, blk, staged>> /\ pc = "domain" /\ pc' = "stake"
        /\ i = Len(blk.txs) + 1 /\ blk \in Blocks
    BY <1>5 DEF DomainDone, AtEnd, TypeOK
  <2>2. i - 1 = Len(blk.txs)
    BY <2>1, BlockFacts
  <2> QED
    BY <1>1, <2>1, <2>2 DEF RevealInv, CommitsTraced, RevealsSpend, LeftBy, IsReveal
<1>6. CASE StakeStep
  <2>1. /\ UNCHANGED <<live, chain, blk, pc>> /\ pc = "stake" /\ ~AtEnd
        /\ staged' = ApplyStakeMutations(staged, Tx, blk.slot)
    BY <1>6 DEF StakeStep
  <2>2. staged'.spent = staged.spent /\ staged'.commits = staged.commits
    BY <1>0, <2>1, CurrentTx, StakePassFields
  <2> QED
    BY <1>1, <2>1, <2>2 DEF RevealInv, CommitsTraced, RevealsSpend, LeftBy, IsReveal
<1>7. CASE AcceptBlock
  BY <1>7, AcceptReveals
<1>8. CASE UNCHANGED vars
  BY <1>1, <1>8 DEF vars, RevealInv, CommitsTraced, RevealsSpend, LeftBy, IsReveal
<1> QED
  BY <1>2, <1>3, <1>4, <1>5, <1>6, <1>7, <1>8 DEF Next

\* Every REVEAL of the chain answers a COMMIT of the same key that waited for
\* CommitMinDelay slots and has not expired, and no COMMIT registers two names
\* or one name twice, provided that auto-revocations copy the expiry of what
\* they revoke (block.go:885-958, commit.go:158-181).
THEOREM CommitsPrecedeReveals ==
  RevocationsKeepExpiry => (Spec => []CommitBeforeReveal)
<1>1. SUFFICES ASSUME RevocationsKeepExpiry PROVE Spec => []CommitBeforeReveal
  OBVIOUS
<1> DEFINE Base == TypeOK /\ GatesHeld /\ NoncesStaged /\ DomainInv /\ FreeInv
<1>2. Init => RevealInv
  <2>1. Init => Positions = {}
    BY DEF Init, Positions, Genesis
  <2> QED
    BY <2>1 DEF Init, GenesisState, RevealInv, CommitsTraced, RevealsSpend,
                RevealsAnswer, RevealsDiffer
<1>3. Base /\ RevealInv /\ [Next]_vars => RevealInv'
  BY <1>1, NextReveals
<1>4. RevealInv => CommitBeforeReveal
  BY DEF RevealInv, RevealsAnswer, RevealsDiffer, CommitBeforeReveal, Answers, IsReveal
<1> QED
  BY <1>2, <1>3, <1>4, FreeInvHolds, PTL DEF Spec

-----------------------------------------------------------------------------
(* What the domain pass does to owners, list prices and balances *)

\* T has the owners and list prices of S.
SameMeta(T, S) ==
  \A x \in Domains : /\ T.dom[x].owner = S.dom[x].owner
                     /\ T.dom[x].price = S.dom[x].price

\* T has the owners and list prices of S, but d belongs to k at price p.
Deal(T, S, d, k, p) ==
  \A x \in Domains :
    /\ T.dom[x].owner = IF x = d THEN k ELSE S.dom[x].owner
    /\ T.dom[x].price = IF x = d THEN p ELSE S.dom[x].price

\* SetOwner and SetListPrice change one field of one entry, Add keeps both.
LEMMA MetadataSet ==
  ASSUME NEW S \in States
  PROVE  /\ \A d \in Domains : \A k :
              /\ Deal(SetOwner(S, d, k), S, d, k, S.dom[d].price)
              /\ SetOwner(S, d, k).bal = S.bal
         /\ \A d \in Domains : \A n :
              /\ Deal(SetListPrice(S, d, n), S, d, S.dom[d].owner, n)
              /\ SetListPrice(S, d, n).bal = S.bal
         /\ \A d, tid, n, recs :
              /\ SameMeta(AddDomain(S, d, tid, n, recs), S)
              /\ AddDomain(S, d, tid, n, recs).bal = S.bal
<1>1. S.dom \in [Domains -> Entries]
  BY DEF States
<1>2. \A D : [S EXCEPT !.dom = D].dom = D /\ [S EXCEPT !.dom = D].bal = S.bal
  BY DEF States
<1>3. \A d \in Domains : \A e :
        LET T == [S EXCEPT !.dom = [S.dom EXCEPT ![d] = e]]
        IN  T.bal = S.bal /\ Deal(T, S, d, e.owner, e.price)
  BY <1>1, <1>2 DEF Deal
<1>4. ASSUME NEW d \in Domains, NEW k
      PROVE  /\ Deal(SetOwner(S, d, k), S, d, k, S.dom[d].price)
             /\ SetOwner(S, d, k).bal = S.bal
  <2> DEFINE e == [S.dom[d] EXCEPT !.owner = k]
  <2>1. SetOwner(S, d, k) = [S EXCEPT !.dom = [S.dom EXCEPT ![d] = e]]
    BY DEF SetOwner, States
  <2>2. e.owner = k /\ e.price = S.dom[d].price
    BY <1>1 DEF Entries
  <2> HIDE DEF e
  <2> QED
    BY <1>3, <2>1, <2>2
<1>5. ASSUME NEW d \in Domains, NEW n
      PROVE  /\ Deal(SetListPrice(S, d, n), S, d, S.dom[d].owner, n)
             /\ SetListPrice(S, d, n).bal = S.bal
  <2> DEFINE e == [S.dom[d] EXCEPT !.price = n]
  <2>1. SetListPrice(S, d, n) = [S EXCEPT !.dom = [S.dom EXCEPT ![d] = e]]
    BY DEF SetListPrice, States
  <2>2. e.owner = S.dom[d].owner /\ e.price = n
    BY <1>1 DEF Entries
  <2> HIDE DEF e
  <2> QED
    BY <1>3, <2>1, <2>2
<1>6. ASSUME NEW d, NEW tid, NEW n, NEW recs
      PROVE  /\ SameMeta(AddDomain(S, d, tid, n, recs), S)
             /\ AddDomain(S, d, tid, n, recs).bal = S.bal
  <2> DEFINE e == [S.dom[d] EXCEPT !.tid = tid, !.expiry = n, !.records = recs]
  <2>1. AddDomain(S, d, tid, n, recs) = [S EXCEPT !.dom = [S.dom EXCEPT ![d] = e]]
    BY DEF AddDomain, States
  <2>2. d \in Domains => e.owner = S.dom[d].owner /\ e.price = S.dom[d].price
    BY <1>1 DEF Entries
  <2> HIDE DEF e
  <2>3. CASE d \in Domains
    BY <1>3, <2>1, <2>2, <2>3 DEF Deal, SameMeta
  <2>4. CASE d \notin Domains
    <3>1. [S.dom EXCEPT ![d] = e] = S.dom
      BY <1>1, <2>4
    <3> QED
      BY <1>2, <2>1, <3>1 DEF SameMeta
  <2> QED
    BY <2>3, <2>4
<1> QED
  BY <1>4, <1>5, <1>6

\* The conditions under which LIST, DELIST and TRANSFER are carried out.
OwnerMay(S, tx, slot) ==
  Phase(S, tx.domain, slot) = "active" /\ S.dom[tx.domain].owner = tx.owner

\* LIST, DELIST and TRANSFER change one entry's owner or price, or nothing.
LEMMA OwnerDeals ==
  ASSUME NEW L, NEW S \in States, NEW tx \in Transactions, NEW slot, NEW index,
         tx.domain \in Domains
  PROVE  LET T == ApplyDomainMutations(L, S, tx, slot, index)
             d == tx.domain
         IN  /\ tx.type = "LIST" =>
                  IF OwnerMay(S, tx, slot)
                  THEN Deal(T, S, d, tx.owner, tx.price) /\ T.bal = S.bal
                  ELSE T = S
             /\ tx.type = "DELIST" =>
                  IF OwnerMay(S, tx, slot) /\ IsForSale(S, d)
                  THEN Deal(T, S, d, tx.owner, 0) /\ T.bal = S.bal
                  ELSE T = S
             /\ tx.type = "TRANSFER" =>
                  IF OwnerMay(S, tx, slot)
                  THEN Deal(T, S, d, tx.recipient, 0) /\ T.bal = S.bal
                  ELSE T = S
<1> DEFINE T == ApplyDomainMutations(L, S, tx, slot, index)
           d == tx.domain
<1>1. CASE tx.type = "LIST"
  <2>1. T = IF OwnerMay(S, tx, slot) THEN SetListPrice(S, d, tx.price) ELSE S
    BY <1>1 DEF ApplyDomainMutations, ApplyList, OwnerMay
  <2> HIDE DEF T
  <2>2. OwnerMay(S, tx, slot) => Deal(T, S, d, tx.owner, tx.price) /\ T.bal = S.bal
    BY <2>1, MetadataSet DEF OwnerMay
  <2> QED
    BY <1>1, <2>1, <2>2 DEF T
<1>2. CASE tx.type = "DELIST"
  <2>1. T = IF OwnerMay(S, tx, slot) /\ IsForSale(S, d)
            THEN SetListPrice(S, d, 0) ELSE S
    BY <1>2 DEF ApplyDomainMutations, ApplyDelist, OwnerMay
  <2> HIDE DEF T
  <2>2. OwnerMay(S, tx, slot) /\ IsForSale(S, d)
          => Deal(T, S, d, tx.owner, 0) /\ T.bal = S.bal
    BY <2>1, MetadataSet DEF OwnerMay
  <2> QED
    BY <1>2, <2>1, <2>2 DEF T
<1>3. CASE tx.type = "TRANSFER"
  <2> DEFINE A == SetOwner(S, d, tx.recipient)
  <2>1. T = IF OwnerMay(S, tx, slot) THEN SetListPrice(A, d, 0) ELSE S
    BY <1>3 DEF ApplyDomainMutations, ApplyTransferDomain, OwnerMay
  <2>2. tx.recipient \in Keys \cup {None} /\ 0 \in Nat
    BY DEF Transactions
  <2>3. A \in States
    BY <2>2, IndexType DEF Names
  <2>4. Deal(A, S, d, tx.recipient, S.dom[d].price) /\ A.bal = S.bal
    BY MetadataSet
  <2> HIDE DEF T, A
  <2>5. Deal(SetListPrice(A, d, 0), A, d, A.dom[d].owner, 0)
        /\ SetListPrice(A, d, 0).bal = A.bal
    BY <2>3, MetadataSet
  <2>6. OwnerMay(S, tx, slot) => Deal(T, S, d, tx.recipient, 0) /\ T.bal = S.bal
    BY <2>1, <2>4, <2>5 DEF Deal
  <2> QED
    BY <1>3, <2>1, <2>6 DEF T
<1> QED
  BY <1>1, <1>2, <1>3

\* A BUY hands the name to the buyer and moves the price, or does nothing.
LEMMA BuyDeals ==
  ASSUME NEW L, NEW S \in States, NEW tx \in Transactions, NEW slot, NEW index,
         tx.domain \in Domains, tx.owner \in Keys, tx.type = "BUY"
  PROVE  LET T == ApplyDomainMutations(L, S, tx, slot, index)
             d == tx.domain
             p == S.dom[d].price
         IN  IF BuyIsOpen(S, tx, slot) /\ CanDebit(S.bal, tx.owner, p)
             THEN /\ Deal(T, S, d, tx.owner, 0)
                  /\ T.bal = Credit(Debit(S.bal, tx.owner, p), S.dom[d].owner, p)
             ELSE T = S
<1> DEFINE T == ApplyDomainMutations(L, S, tx, slot, index)
           d == tx.domain
           p == S.dom[d].price
           k == S.dom[d].owner
           open == BuyIsOpen(S, tx, slot) /\ CanDebit(S.bal, tx.owner, p)
           bal1 == Debit(S.bal, tx.owner, p)
           bal2 == Credit(bal1, k, p)
           A == [S EXCEPT !.bal = bal2]
           B == SetOwner(A, d, tx.owner)
<1>1. T = IF open THEN SetListPrice(B, d, 0) ELSE S
  BY DEF ApplyDomainMutations, ApplyBuyDomain
<1>2. p \in Nat /\ S.bal \in [Keys -> Nat] /\ k \in Keys \cup {None}
  BY DEF States, Entries
<1>3. bal1 \in [Keys -> Nat]
  BY <1>2, BalanceType
<1>4. bal2 \in [Keys -> Nat]
  <2> HIDE DEF bal1, p
  <2>1. CASE k \in Keys
    BY <1>2, <1>3, <2>1, BalanceType
  <2>2. CASE k \notin Keys
    BY <1>3, <2>2 DEF Credit
  <2> QED
    BY <2>1, <2>2
<1>5. A \in States /\ A.dom = S.dom /\ A.bal = bal2
  <2> HIDE DEF bal2
  <2> QED
    BY <1>4 DEF States
<1> HIDE DEF A
<1>6. B \in States
  BY <1>5, IndexType DEF Names
<1>7. Deal(B, A, d, tx.owner, A.dom[d].price) /\ B.bal = A.bal
  BY <1>5, MetadataSet
<1> HIDE DEF B
<1>8. Deal(SetListPrice(B, d, 0), B, d, B.dom[d].owner, 0)
      /\ SetListPrice(B, d, 0).bal = B.bal
  BY <1>6, MetadataSet
<1> HIDE DEF T
<1>9. open => Deal(T, S, d, tx.owner, 0) /\ T.bal = bal2
  BY <1>1, <1>5, <1>7, <1>8 DEF Deal
<1> QED
  BY <1>1, <1>9 DEF T

\* A REVEAL that is carried out hands the name to its recipient; the list price
\* stays.
LEMMA RevealDeals ==
  ASSUME NEW L, NEW S \in States, NEW tx \in Transactions, NEW slot, NEW index,
         tx.domain \in Domains, tx.type = "REVEAL"
  PROVE  LET T == ApplyDomainMutations(L, S, tx, slot, index)
             d == tx.domain
         IN  /\ T.bal = S.bal
             /\ IF HasCommit(S, RevealHash(tx)) /\ Free(S, d, slot)
                THEN Deal(T, S, d, tx.recipient, S.dom[d].price)
                ELSE T = S
<1> DEFINE T == ApplyDomainMutations(L, S, tx, slot, index)
           d == tx.domain
           done == HasCommit(S, RevealHash(tx)) /\ Free(S, d, slot)
           A == AddDomain(S, d, tx.tid, tx.expiry, tx.records)
           B == SetOwner(A, d, tx.recipient)
           C == ConsumeCommit(MarkAsSpent(B, tx.redeems), RevealHash(tx))
<1>1. T = IF done THEN C ELSE S
  BY DEF ApplyDomainMutations, ApplyReveal, Free
<1>2. tx.tid \in Nat /\ tx.expiry \in Nat /\ tx.records \in Names
      /\ tx.recipient \in Keys \cup {None}
  BY DEF Transactions, Names
<1>3. A \in States /\ SameMeta(A, S) /\ A.bal = S.bal
  BY <1>2, IndexType, MetadataSet
<1> HIDE DEF A
<1>4. B \in States /\ Deal(B, A, d, tx.recipient, A.dom[d].price) /\ B.bal = A.bal
  <2>1. B \in States
    BY <1>2, <1>3, IndexType
  <2>2. Deal(B, A, d, tx.recipient, A.dom[d].price) /\ B.bal = A.bal
    BY <1>3, MetadataSet
  <2> QED
    BY <2>1, <2>2
<1> HIDE DEF B
<1>5. C.dom = B.dom /\ C.bal = B.bal
  BY <1>4 DEF ConsumeCommit, MarkAsSpent, States
<1> HIDE DEF C, T
<1>6. done => Deal(T, S, d, tx.recipient, S.dom[d].price) /\ T.bal = S.bal
  BY <1>1, <1>3, <1>4, <1>5 DEF Deal, SameMeta
<1> QED
  BY <1>1, <1>6 DEF T

\* No other type touches an owner, a price or a balance.
LEMMA OthersDealNot ==
  ASSUME NEW L, NEW S \in States, NEW tx \in Transactions, NEW slot, NEW index,
         tx.type \notin MarketTypes \cup {"REVEAL", "REGISTER"}
  PROVE  LET T == ApplyDomainMutations(L, S, tx, slot, index)
         IN  SameMeta(T, S) /\ T.bal = S.bal
<1> DEFINE T == ApplyDomainMutations(L, S, tx, slot, index)
           M == MarkAsSpent(S, tx.redeems)
           Alike(X) == SameMeta(X, S) /\ X.bal = S.bal
<1>0. Alike(S)
  BY DEF SameMeta
<1>1. tx.redeems \in Nat
  BY DEF Transactions
<1>2. M \in States /\ M.dom = S.dom /\ M.bal = S.bal
  BY <1>1 DEF MarkAsSpent, States
<1> HIDE DEF M
<1>3. ASSUME NEW d, NEW tid, NEW n, NEW recs
      PROVE  Alike(AddDomain(M, d, tid, n, recs)) /\ Alike(AddDomain(S, d, tid, n, recs))
  BY <1>2, MetadataSet DEF SameMeta
<1>4. CASE tx.type = "COMMIT"
  BY <1>4 DEF ApplyDomainMutations, ApplyCommit, AddCommit, States, SameMeta
<1>5. CASE tx.type = "REVOKE"
  <2>1. T = S \/ \E X \in {S, M} :
          T = AddDomain(X, tx.domain, tx.tid, tx.expiry, tx.records)
    BY <1>5 DEF ApplyDomainMutations, ApplyRevoke, M
  <2> HIDE DEF T
  <2>2. Alike(T)
    BY <1>0, <1>3, <2>1
  <2> QED
    BY <2>2 DEF T
<1>6. CASE tx.type \in {"UPDATE", "RENEW"}
  <2>1. \A r : \/ ApplyUpdateOrRenew(L, S, tx, r) = S
               \/ \E recs : ApplyUpdateOrRenew(L, S, tx, r)
                              = AddDomain(M, tx.domain, tx.tid, tx.expiry, recs)
    BY DEF ApplyUpdateOrRenew, M
  <2>2. T = S \/ \E r : T = ApplyUpdateOrRenew(L, S, tx, r)
    BY <1>6 DEF ApplyDomainMutations, ApplyUpdate, ApplyRenew
  <2>3. T = S \/ \E recs : T = AddDomain(M, tx.domain, tx.tid, tx.expiry, recs)
    BY <2>1, <2>2
  <2> HIDE DEF T
  <2>4. Alike(T)
    BY <1>0, <1>3, <2>3
  <2> QED
    BY <2>4 DEF T
<1>7. CASE tx.type \in PoSTypes \cup {"FUND"}
  BY <1>0, <1>7 DEF ApplyDomainMutations, PoSTypes
<1> QED
  BY <1>4, <1>5, <1>6, <1>7 DEF Transactions, TxTypes, MarketTypes, PoSTypes

-----------------------------------------------------------------------------
(* Names leave their owner with the owner's consent *)

\* Only names that exist have an owner.
OwnersKnown(S) == \A d \in Domains : S.dom[d].owner # None => Exists(S, d)

\* Whoever has lost a name in S gave it up, and so did whoever did not offer
\* the name for sale and now sees it offered.
Consented(S) ==
  \A d \in Domains :
    LET k == live.dom[d].owner
    IN  k # None =>
          /\ S.dom[d].owner # k => GivesUp(k, d)
          /\ IsForSale(S, d) => IsForSale(live, d) \/ GivesUp(k, d)

ConsentInv ==
  /\ OwnersKnown(live)
  /\ pc \in {"domain", "stake"} => OwnersKnown(staged) /\ Consented(staged)

\* Whatever the gates let through is signed by its owner, unless it is an
\* auto-revocation; what trades a name is about a name.
LEMMA GateIsSigned ==
  ASSUME NEW V, NEW sh \in Shadows, NEW tx \in Transactions, NEW c,
         GateTx(V, sh, tx, c)
  PROVE  /\ tx.owner = None => tx.type = "REVOKE"
         /\ tx.owner # None => tx.owner \in Keys /\ tx.signer = tx.owner
         /\ tx.type # "REGISTER"
         /\ tx.type \in MarketTypes =>
              /\ tx.domain \in Domains
              /\ tx.domain \in sh.registered \/ Exists(V, tx.domain)
         /\ tx.type \in {"UPDATE", "RENEW", "REVOKE"} => tx.redeems # 0
<1>1. tx.owner \in Keys \cup {None} /\ sh.registered \subseteq Domains
  BY DEF Transactions, Shadows
<1>2. tx.owner = None => tx.type = "REVOKE"
  BY DEF GateTx, AutoRevokeGate
<1>3. tx.owner # None => tx.signer = tx.owner
  BY DEF GateTx, StructureOK, SignatureGate
<1>4. tx.type # "REGISTER"
  BY DEF GateTx, StructureOK, RegisterDeprecated
<1>5. tx.type \in MarketTypes => tx.domain \in sh.registered \/ Exists(V, tx.domain)
  BY DEF GateTx, StructureOK, MarketPhaseGate
<1>6. tx.type \in {"UPDATE", "RENEW", "REVOKE"} => tx.redeems # 0
  BY DEF GateTx, StructureOK, StructuralGate
<1> QED
  BY <1>1, <1>2, <1>3, <1>4, <1>5, <1>6 DEF Exists

\* No transaction removes a name from the index.
LEMMA NamesStay ==
  ASSUME NEW V \in States, NEW sh \in Shadows, NEW tx \in Submitted, NEW c,
         GateTx(V, sh, tx, c), NEW L \in States, NEW S \in States, NEW slot,
         NEW index, NEW d \in Domains, Exists(S, d)
  PROVE  Exists(ApplyDomainMutations(L, S, tx, slot, index), d)
<1> DEFINE T == ApplyDomainMutations(L, S, tx, slot, index)
<1>0. tx \in Transactions /\ tx.tid # 0 /\ sh.registered \subseteq Domains
  BY SubmittedAssumption DEF Shadows
<1>1. /\ tx.type # "REGISTER"
      /\ tx.type \in {"UPDATE", "RENEW", "REVOKE"} => tx.redeems # 0
  BY <1>0, GateIsSigned
<1>2. CASE tx.type \in MarketTypes \cup PoSTypes \cup {"FUND"}
  <2>1. SameHeads(T, S)
    BY <1>0, <1>2, GateIsComplete, MarketEffect
  <2> QED
    BY <2>1 DEF SameHeads, Exists
<1>3. CASE tx.type = "COMMIT"
  <2>1. T.dom = S.dom
    BY <1>3 DEF ApplyDomainMutations, ApplyCommit, AddCommit, States
  <2> QED
    BY <2>1 DEF Exists
<1>4. CASE tx.type \in {"REVEAL", "UPDATE", "RENEW", "REVOKE"}
  <2>1. CASE tx.type = "REVEAL"
    <3>1. T = S \/ Restated(T, S, tx)
      BY <1>0, <2>1, RevealEffect
    <3> QED
      BY <1>0, <3>1 DEF Restated, Exists
  <2>2. CASE tx.type # "REVEAL"
    <3>1. T = S \/ Restated(T, S, tx)
      BY <1>0, <1>1, <1>4, <2>2, ReplaceEffect DEF Replaced
    <3> QED
      BY <1>0, <3>1 DEF Restated, Exists
  <2> QED
    BY <2>1, <2>2
<1> QED
  BY <1>0, <1>1, <1>2, <1>3, <1>4
  DEF Transactions, TxTypes, MarketTypes, PoSTypes

\* A transaction of the domain pass that changes hands or prices.
LEMMA StepConsents ==
  ASSUME TypeOK, GatesHeld, DomainInv, ConsentInv, DomainStep
  PROVE  OwnersKnown(staged') /\ Consented(staged')
<1>1. /\ pc = "domain" /\ ~AtEnd /\ live \in States /\ staged \in States
      /\ staged' = ApplyDomainMutations(live, staged, Tx, blk.slot, blk.index)
      /\ OwnersKnown(live) /\ OwnersKnown(staged) /\ Consented(staged)
  BY DEF DomainStep, TypeOK, ConsentInv
<1>2. /\ Kept(View, staged, shadows[i]) /\ Tx \in Submitted
      /\ View \in States /\ shadows[i] \in Shadows
      /\ GateTx(View, shadows[i], Tx, GateContext)
      /\ NamesKnown(View, View.nonce)
      /\ \A k \in Keys : View.nonce[k] <= shadows[i].nonce[k]
  BY DomainStepKeeps
<1>3. View.dom = live.dom /\ GateContext.slot = blk.slot
  BY <1>1, ViewFields DEF View, GateContext
<1>4. Tx \in Transactions /\ i \in DOMAIN blk.txs /\ Tx = blk.txs[i]
      /\ Tx.tid # 0 /\ blk.slot \in Nat
  <2>1. i \in 1 .. Len(blk.txs) /\ blk \in Blocks /\ blk.slot \in Nat
    BY <1>1, CurrentTx DEF TypeOK
  <2>2. blk.txs \in Seq(Submitted)
    BY <2>1, BlockFacts
  <2> QED
    BY <1>2, <2>1, <2>2, SubmittedAssumption DEF Tx
<1>5. /\ Tx.type # "REVOKE" => Tx.owner \in Keys /\ Tx.signer = Tx.owner
      /\ Tx.type # "REGISTER"
      /\ Tx.type \in MarketTypes => Tx.domain \in Domains /\ Exists(staged, Tx.domain)
  <2>1. NamesKept(View, staged, shadows[i])
    BY <1>2 DEF Kept
  <2> QED
    BY <1>2, <1>4, <2>1, GateIsSigned DEF NamesKept
<1>6. Tx.type = "REVEAL" => Tx.domain \in Domains /\ Free(View, Tx.domain, blk.slot)
  BY <1>2, <1>3, RevealFindsCommit
<1>7. \A d \in Domains : Exists(staged, d) => Exists(staged', d)
  BY <1>1, <1>2, NamesStay
<1>8. ASSUME SameMeta(staged', staged)
      PROVE  OwnersKnown(staged') /\ Consented(staged')
  BY <1>1, <1>7, <1>8 DEF SameMeta, OwnersKnown, Consented, IsForSale
<1>9. ASSUME NEW k, NEW p, Deal(staged', staged, Tx.domain, k, p), Tx.domain \in Domains,
             Exists(staged', Tx.domain),
             LET o == live.dom[Tx.domain].owner
             IN  o # None => /\ k # o => GivesUp(o, Tx.domain)
                             /\ p > 0 => \/ IsForSale(live, Tx.domain)
                                         \/ GivesUp(o, Tx.domain)
      PROVE  OwnersKnown(staged') /\ Consented(staged')
  <2>1. OwnersKnown(staged')
    BY <1>1, <1>7, <1>9 DEF Deal, OwnersKnown
  <2>2. Consented(staged')
    BY <1>1, <1>9 DEF Deal, Consented, IsForSale
  <2> QED
    BY <2>1, <2>2
<1>10. CASE Tx.type \notin MarketTypes \cup {"REVEAL", "REGISTER"}
  BY <1>1, <1>4, <1>8, <1>10, OthersDealNot
<1>11. staged' = staged => SameMeta(staged', staged)
  BY DEF SameMeta
<1> DEFINE o == live.dom[Tx.domain].owner
<1>12. Tx.domain \in Domains /\ o # None =>
         /\ staged.dom[Tx.domain].owner # o => GivesUp(o, Tx.domain)
         /\ IsForSale(staged, Tx.domain) =>
              IsForSale(live, Tx.domain) \/ GivesUp(o, Tx.domain)
  BY <1>1 DEF Consented
<1>13. CASE Tx.type \in {"LIST", "TRANSFER"}
  <2>1. Tx.domain \in Domains /\ Exists(staged', Tx.domain) /\ Tx.signer = Tx.owner
    BY <1>5, <1>7, <1>13 DEF MarketTypes
  <2>2. CASE OwnerMay(staged, Tx, blk.slot)
    <3>1. o = Tx.owner => GivesUp(o, Tx.domain)
      BY <1>4, <1>13, <2>1 DEF GivesUp
    <3>2. o # None => GivesUp(o, Tx.domain)
      BY <1>12, <2>1, <2>2, <3>1 DEF OwnerMay
    <3>3. \E k, p : Deal(staged', staged, Tx.domain, k, p)
      BY <1>1, <1>4, <1>13, <2>1, <2>2, OwnerDeals
    <3> QED
      BY <1>9, <2>1, <3>2, <3>3
  <2>3. CASE ~OwnerMay(staged, Tx, blk.slot)
    <3>1. staged' = staged
      BY <1>1, <1>4, <1>13, <2>1, <2>3, OwnerDeals
    <3> QED
      BY <1>8, <1>11, <3>1
  <2> QED
    BY <2>2, <2>3
<1>14. CASE Tx.type = "DELIST"
  <2>1. Tx.domain \in Domains /\ Exists(staged', Tx.domain)
    BY <1>5, <1>7, <1>14 DEF MarketTypes
  <2>2. CASE OwnerMay(staged, Tx, blk.slot) /\ IsForSale(staged, Tx.domain)
    <3>1. Deal(staged', staged, Tx.domain, Tx.owner, 0)
      BY <1>1, <1>4, <1>14, <2>1, <2>2, OwnerDeals
    <3>2. o # None => (Tx.owner # o => GivesUp(o, Tx.domain))
      BY <1>12, <2>1, <2>2 DEF OwnerMay
    <3> QED
      BY <1>9, <2>1, <3>1, <3>2
  <2>3. CASE ~(OwnerMay(staged, Tx, blk.slot) /\ IsForSale(staged, Tx.domain))
    <3>1. staged' = staged
      BY <1>1, <1>4, <1>14, <2>1, <2>3, OwnerDeals
    <3> QED
      BY <1>8, <1>11, <3>1
  <2> QED
    BY <2>2, <2>3
<1>15. CASE Tx.type = "BUY"
  <2> DEFINE paid == /\ BuyIsOpen(staged, Tx, blk.slot)
                     /\ CanDebit(staged.bal, Tx.owner, staged.dom[Tx.domain].price)
  <2>1. /\ Tx.domain \in Domains /\ Exists(staged', Tx.domain) /\ Tx.owner \in Keys
    BY <1>5, <1>7, <1>15 DEF MarketTypes
  <2>2. CASE paid
    <3>1. Deal(staged', staged, Tx.domain, Tx.owner, 0)
      BY <1>1, <1>4, <1>15, <2>1, <2>2, BuyDeals
    <3>2. IsForSale(live, Tx.domain) => GivesUp(o, Tx.domain)
      BY <1>4, <1>15 DEF GivesUp, BlockHas
    <3>3. o # None => GivesUp(o, Tx.domain)
      BY <1>12, <2>1, <2>2, <3>2 DEF BuyIsOpen
    <3> QED
      BY <1>9, <2>1, <3>1, <3>3
  <2>3. CASE ~paid
    <3>1. staged' = staged
      BY <1>1, <1>4, <1>15, <2>1, <2>3, BuyDeals
    <3> QED
      BY <1>8, <1>11, <3>1
  <2> QED
    BY <2>2, <2>3
<1>16. CASE Tx.type = "REVEAL"
  <2> DEFINE done == /\ HasCommit(staged, RevealHash(Tx))
                     /\ Free(staged, Tx.domain, blk.slot)
  <2>1. Tx.domain \in Domains
    BY <1>6, <1>16
  <2>2. CASE done
    <3>1. Deal(staged', staged, Tx.domain, Tx.recipient, staged.dom[Tx.domain].price)
      BY <1>1, <1>4, <1>16, <2>1, <2>2, RevealDeals
    <3>2. Restated(staged', staged, Tx)
      BY <1>1, <1>4, <1>16, <2>2, RevealEffect
    <3>3. Exists(staged', Tx.domain)
      BY <1>4, <2>1, <3>2 DEF Restated, Exists
    <3>4. o # None => GivesUp(o, Tx.domain)
      <4>1. SUFFICES ASSUME o # None PROVE GivesUp(o, Tx.domain)
        OBVIOUS
      <4>2. Exists(live, Tx.domain)
        BY <1>1, <2>1, <4>1 DEF OwnersKnown
      <4>3. Phase(live, Tx.domain, blk.slot) = "purged"
        BY <1>3, <1>6, <1>16, <4>2 DEF Free, Exists, Phase
      <4>4. live.dom[Tx.domain].expiry \in Nat
        BY <1>1, <2>1 DEF States, Entries
      <4>5. blk.slot >= live.dom[Tx.domain].expiry + GraceSlots
        BY <1>4, <4>3, <4>4, LimitsAssumption
        DEF Phase, GetDomainPhase, ComputePurgeSlot
      <4> QED
        BY <1>4, <1>16, <4>5 DEF GivesUp, BlockHas
    <3> QED
      BY <1>9, <2>1, <3>1, <3>3, <3>4
  <2>3. CASE ~done
    <3>1. staged' = staged
      BY <1>1, <1>4, <1>16, <2>1, <2>3, RevealDeals
    <3> QED
      BY <1>8, <1>11, <3>1
  <2> QED
    BY <2>2, <2>3
<1> QED
  BY <1>5, <1>10, <1>13, <1>14, <1>15, <1>16 DEF MarketTypes

\* Promotion keeps what was staged of names, balances and stakes.
LEMMA AcceptFields ==
  ASSUME TypeOK, AcceptBlock
  PROVE  /\ live'.dom = staged.dom /\ live'.bal = staged.bal
         /\ live'.stake = staged.stake /\ live'.queue = staged.queue
         /\ pc = "stake" /\ pc' = "idle"
<1>1. staged \in States /\ live' = CommitIndex(live, CommitCommits(staged))
      /\ pc = "stake" /\ pc' = "idle"
  BY DEF TypeOK, AcceptBlock, Idle, Committed
<1> QED
  BY <1>1 DEF CommitIndex, CommitCommits, States

\* The chain grows in AcceptBlock only.
LEMMA ChainGrows ==
  ASSUME [Next]_vars, chain' # chain
  PROVE  AcceptBlock
BY DEF Next, vars, BlockArrives, ReceiveBlock, GatePass, GateReject, GatesDone,
       LedgerStep, LedgerDone, DomainStep, DomainDone, StakeStep, HashMismatch

\* Every step keeps the invariant.
LEMMA NextConsents ==
  ASSUME TypeOK, GatesHeld, DomainInv, ConsentInv, [Next]_vars
  PROVE  ConsentInv'
<1>0. OwnersKnown(live) /\ live \in States /\ staged \in States
  BY DEF TypeOK, ConsentInv
<1>1. CASE \/ BlockArrives \/ GatePass \/ GateReject \/ GatesDone \/ LedgerStep
           \/ HashMismatch
  BY <1>0, <1>1
  DEF BlockArrives, ReceiveBlock, GatePass, GateReject, GatesDone, LedgerStep,
      HashMismatch, Idle, ConsentInv
<1>2. CASE LedgerDone
  <2>1. UNCHANGED <<live, blk>>
    BY <1>2 DEF LedgerDone
  <2>2. staged'.dom = live.dom
    BY <1>2, DomainPassStarts
  <2>3. OwnersKnown(staged') /\ Consented(staged')
    BY <1>0, <2>2 DEF OwnersKnown, Exists, Consented, IsForSale
  <2> QED
    BY <1>0, <2>1, <2>3
    DEF ConsentInv, OwnersKnown, Exists, Consented, GivesUp, BlockHas, IsForSale
<1>3. CASE DomainStep
  <2>1. UNCHANGED <<live, blk>>
    BY <1>3 DEF DomainStep
  <2>2. OwnersKnown(staged') /\ Consented(staged')
    BY <1>3, StepConsents
  <2> QED
    BY <1>0, <2>1, <2>2
    DEF ConsentInv, OwnersKnown, Exists, Consented, GivesUp, BlockHas, IsForSale
<1>4. CASE DomainDone \/ StakeStep \/ UNCHANGED vars
  <2>1. UNCHANGED <<live, blk>> /\ (pc' \in {"domain", "stake"} => pc \in {"domain", "stake"})
    BY <1>4 DEF DomainDone, StakeStep, vars
  <2>2. staged'.dom = staged.dom
    BY <1>0, <1>4, CurrentTx, StakePassFields DEF DomainDone, StakeStep, vars
  <2> QED
    BY <1>0, <2>1, <2>2
    DEF ConsentInv, OwnersKnown, Exists, Consented, GivesUp, BlockHas, IsForSale
<1>5. CASE AcceptBlock
  <2>1. live'.dom = staged.dom /\ pc = "stake" /\ pc' = "idle"
    BY <1>5, AcceptFields
  <2> QED
    BY <2>1 DEF ConsentInv, OwnersKnown, Exists
<1> QED
  BY <1>1, <1>2, <1>3, <1>4, <1>5 DEF Next

\* Nobody loses a name without having given it up: whatever blocks arrive, a
\* name changes hands only after its grace period, or because it was for sale,
\* or because its owner signed a TRANSFER or a LIST of it.
THEOREM NamesLeaveByConsent == Spec => OwnerLosesByConsent
<1> DEFINE Inv == TypeOK /\ GatesHeld /\ NoncesStaged /\ DomainInv
           Step == chain' # chain =>
                     \A d \in Domains :
                       LET k == live.dom[d].owner
                       IN  k # None /\ live'.dom[d].owner # k => GivesUp(k, d)
<1>1. Init => ConsentInv
  BY DEF Init, ConsentInv, OwnersKnown, GenesisState, NoEntry
<1>2. Inv /\ ConsentInv /\ [Next]_vars => ConsentInv'
  BY NextConsents
<1>3. Inv /\ ConsentInv /\ [Next]_vars => Step
  <2>1. SUFFICES ASSUME Inv, ConsentInv, [Next]_vars, chain' # chain,
                        NEW d \in Domains, live.dom[d].owner # None,
                        live'.dom[d].owner # live.dom[d].owner
                 PROVE  GivesUp(live.dom[d].owner, d)
    OBVIOUS
  <2>2. live'.dom = staged.dom /\ pc = "stake"
    BY <2>1, ChainGrows, AcceptFields
  <2> QED
    BY <2>1, <2>2 DEF ConsentInv, Consented
<1>4. Spec => []Inv
  BY DomainInvHolds
<1>5. Inv /\ ConsentInv /\ [Next]_vars => [Step]_vars
  BY <1>3
<1>6. Spec => [][Step]_vars
  BY <1>1, <1>2, <1>4, <1>5, PTL DEF Spec
<1> QED
  BY <1>6 DEF OwnerLosesByConsent

-----------------------------------------------------------------------------
(* Coins leave their owner with the owner's signature *)

\* In the passes after the gates, whoever has less than before the block signed
\* for it or, as far as the stake goes, was accused.
SignedInv ==
  /\ pc \in {"ledger", "domain", "stake"} =>
       \A k \in Keys : staged.bal[k] < live.bal[k] => Signed(k)
  /\ pc = "stake" =>
       \A k \in Keys : staged.stake[k] < live.stake[k] => Signed(k) \/ Accused(k)

\* The owner of the current transaction has signed.
LEMMA OwnerSigned ==
  ASSUME TypeOK, GatesHeld, pc \in {"ledger", "domain", "stake"}, ~AtEnd
  PROVE  /\ GateTx(View, shadows[i], Tx, GateContext) /\ shadows[i] \in Shadows
         /\ shadows[i + 1] = ShadowAfter(View, shadows[i], Tx)
         /\ shadows[i + 1] \in Shadows
         /\ Tx \in Transactions /\ View \in States /\ IsComplete(Tx)
         /\ i \in 1 .. Len(blk.txs) /\ i \in DOMAIN blk.txs
         /\ Tx.owner # None => Tx.owner \in Keys /\ Signed(Tx.owner)
<1>1. i \in 1 .. Len(blk.txs) /\ Tx \in Transactions /\ blk \in Blocks
  BY CurrentTx DEF TypeOK
<1>2. i \in DOMAIN blk.txs
  BY <1>1, BlockFacts
<1>3. /\ GateTx(View, shadows[i], Tx, GateContext) /\ shadows[i] \in Shadows
      /\ shadows[i + 1] = ShadowAfter(View, shadows[i], Tx)
      /\ shadows[i + 1] \in Shadows /\ View \in States /\ IsComplete(Tx)
  BY <1>1, PastGates DEF Tx
<1>4. Tx.owner # None => Tx.owner \in Keys /\ Tx.signer = Tx.owner
  BY <1>1, <1>3, GateIsSigned
<1> QED
  BY <1>1, <1>2, <1>3, <1>4 DEF Signed, Tx

\* The domain pass takes coins from the owner of a BUY only.
LEMMA DomainTakes ==
  ASSUME NEW V, NEW sh \in Shadows, NEW tx \in Transactions, NEW c,
         GateTx(V, sh, tx, c), NEW L \in States, NEW S \in States,
         NEW slot \in Nat, NEW index \in Nat,
         tx.type = "REVEAL" => tx.domain \in Domains, NEW k \in Keys,
         k # tx.owner \/ tx.type # "BUY"
  PROVE  ApplyDomainMutations(L, S, tx, slot, index).bal[k] >= S.bal[k]
<1> DEFINE T == ApplyDomainMutations(L, S, tx, slot, index)
<1>0. S.bal \in [Keys -> Nat] /\ S.bal[k] \in Nat
  BY DEF States
<1>1. /\ tx.type # "REGISTER" /\ (tx.type \in MarketTypes => tx.domain \in Domains)
      /\ tx.type = "BUY" => tx.owner \in Keys
  BY GateIsSigned
<1>2. CASE tx.type = "BUY"
  <2> DEFINE p == S.dom[tx.domain].price
             o == S.dom[tx.domain].owner
  <2>1. p \in Nat /\ tx.domain \in Domains /\ tx.owner \in Keys /\ k # tx.owner
    BY <1>1, <1>2 DEF MarketTypes, States, Entries
  <2>2. T = S \/ T.bal = Credit(Debit(S.bal, tx.owner, p), o, p)
    BY <1>2, <2>1, BuyDeals
  <2> HIDE DEF T, p, o
  <2>3. Debit(S.bal, tx.owner, p)[k] = S.bal[k] /\ DOMAIN Debit(S.bal, tx.owner, p) = Keys
    BY <1>0, <2>1 DEF Debit
  <2>4. Credit(Debit(S.bal, tx.owner, p), o, p)[k] >= S.bal[k]
    BY <1>0, <2>1, <2>3 DEF Credit
  <2> QED
    BY <1>0, <2>2, <2>4 DEF T
<1>3. CASE tx.type # "BUY"
  <2>1. T.bal = S.bal
    BY <1>1, <1>3, OwnerDeals, RevealDeals, OthersDealNot DEF MarketTypes
  <2> QED
    BY <1>0, <2>1
<1> QED
  BY <1>2, <1>3

\* The stake pass takes stake from the owner of an UNSTAKE and from the accused.
LEMMA StakeTakes ==
  ASSUME NEW V, NEW sh \in Shadows, NEW tx \in Transactions, NEW c,
         GateTx(V, sh, tx, c), NEW S \in States, NEW slot \in Nat, NEW k \in Keys,
         k # tx.owner,
         tx.type = "EQUIVOCATION_PROOF" => OffenceOf(tx)[2] # k
  PROVE  ApplyStakeMutations(S, tx, slot).stake[k] = S.stake[k]
<1> DEFINE T == ApplyStakeMutations(S, tx, slot)
<1>0. S.stake \in [Keys -> Nat]
  BY DEF States
<1>1. CASE tx.owner = None \/ tx.type \notin PoSTypes
  BY <1>1 DEF ApplyStakeMutations, PoSTypes
<1>2. CASE tx.owner # None /\ tx.type = "STAKE"
  BY <1>0, <1>2 DEF ApplyStakeMutations, AddStake, States
<1>3. CASE tx.owner # None /\ tx.type = "UNSTAKE"
  <2>1. T.stake = ReduceStake(S.stake, tx.owner, tx.amount)
    BY <1>3 DEF ApplyStakeMutations, ApplyUnstake, States
  <2> QED
    BY <1>0, <2>1 DEF ReduceStake
<1>4. CASE tx.owner # None /\ tx.type = "EQUIVOCATION_PROOF"
  <2> DEFINE x == OffenceOf(tx)[2]
  <2>1. tx.evidence # NoEvidence
    BY <1>4 DEF GateTx, EquivocationGate
  <2>2. x \in Keys /\ k # x
    BY <1>4, <2>1, OffenceType
  <2>3. Slash(S, x) \in States /\ Slash(S, x).stake[k] = S.stake[k]
    BY <2>2, SlashIsLocal, SlashType
  <2>4. T = S \/ T = [Slash(S, x) EXCEPT !.slashed = @ \cup {OffenceOf(tx)}]
    BY <1>4 DEF ApplyStakeMutations, ApplyEquivocation
  <2> HIDE DEF T, x
  <2>5. T.stake[k] = S.stake[k]
    BY <2>3, <2>4 DEF States
  <2> QED
    BY <2>5 DEF T
<1> QED
  BY <1>1, <1>2, <1>3, <1>4 DEF PoSTypes

\* Every step keeps the invariant.
LEMMA NextSigned ==
  ASSUME TypeOK, GatesHeld, LedgerAgrees, StakeAgrees, DomainInv, SignedInv,
         [Next]_vars
  PROVE  SignedInv'
<1>0. /\ live \in States /\ staged \in States
      /\ live.bal \in [Keys -> Nat] /\ staged.bal \in [Keys -> Nat]
      /\ live.stake \in [Keys -> Nat] /\ staged.stake \in [Keys -> Nat]
  BY DEF TypeOK, States
<1>1. CASE BlockArrives \/ GatePass \/ GateReject \/ HashMismatch \/ AcceptBlock
  <2>1. pc' \in {"idle", "gates"}
    BY <1>1 DEF BlockArrives, ReceiveBlock, GatePass, GateReject, HashMismatch,
                AcceptBlock, Idle
  <2> QED
    BY <2>1 DEF SignedInv
<1>2. CASE GatesDone
  <2>1. UNCHANGED <<live, staged>> /\ pc = "gates" /\ pc' = "ledger"
    BY <1>2 DEF GatesDone
  <2>2. staged.bal = live.bal
    BY <2>1 DEF LedgerAgrees
  <2> QED
    BY <1>0, <2>1, <2>2 DEF SignedInv
<1>3. CASE LedgerStep
  <2>1. /\ UNCHANGED <<live, blk, pc>> /\ pc = "ledger" /\ ~AtEnd
        /\ staged' = ApplyLedgerMutations(staged, Tx)
    BY <1>3 DEF LedgerStep
  <2>2. /\ GateTx(View, shadows[i], Tx, GateContext) /\ shadows[i] \in Shadows
        /\ Tx \in Transactions /\ View \in States
        /\ Tx.owner # None => Tx.owner \in Keys /\ Signed(Tx.owner)
    BY <2>1, OwnerSigned
  <2>3. SUFFICES ASSUME NEW k \in Keys, staged'.bal[k] < live.bal[k]
                 PROVE  Signed(k)
    BY <2>1 DEF SignedInv, Signed
  <2>4. staged.bal[k] < live.bal[k] => Signed(k)
    BY <2>1 DEF SignedInv
  <2>5. CASE k = Tx.owner
    BY <2>2, <2>5, NamesAssumption
  <2>6. CASE k # Tx.owner
    <3>1. CASE Tx.owner = None
      BY <2>1, <2>3, <2>4, <3>1 DEF ApplyLedgerMutations
    <3>2. CASE Tx.owner # None
      <4>1. CanDebit(staged.bal, Tx.owner, LedgerCost(Tx))
        BY <1>0, <2>1, <2>2, <3>2, CostCovered DEF LedgerAgrees
      <4>2. staged'.bal[k] >= staged.bal[k] - 0
        BY <1>0, <2>1, <2>2, <2>6, <3>2, <4>1, LedgerTakes
      <4>3. staged'.bal[k] \in Nat
        BY ZenonT(30), <1>0, <2>1, <2>2, LedgerType DEF States
      <4> QED
        BY <1>0, <2>3, <2>4, <4>2, <4>3
    <3> QED
      BY <3>1, <3>2
  <2> QED
    BY <2>5, <2>6
<1>4. CASE LedgerDone
  <2>1. /\ UNCHANGED <<live, blk>> /\ pc = "ledger" /\ pc' = "domain"
        /\ staged' = [staged EXCEPT !.bal = Credit(@, blk.leader, fees)]
        /\ blk.leader \in Keys /\ fees \in Nat
    BY <1>4, BlockFacts DEF LedgerDone, TypeOK
  <2>2. staged'.bal = Credit(staged.bal, blk.leader, fees)
    BY <1>0, <2>1 DEF States
  <2>3. \A k \in Keys : staged'.bal[k] \in Nat /\ staged'.bal[k] >= staged.bal[k]
    BY <1>0, <2>1, <2>2 DEF Credit
  <2>4. \A k \in Keys : staged'.bal[k] < live.bal[k] => Signed(k)
    BY <1>0, <2>1, <2>3 DEF SignedInv
  <2> QED
    BY <2>1, <2>4 DEF SignedInv, Signed
<1>5. CASE DomainStep
  <2>1. /\ UNCHANGED <<live, blk, pc>> /\ pc = "domain" /\ ~AtEnd
        /\ staged' = ApplyDomainMutations(live, staged, Tx, blk.slot, blk.index)
    BY <1>5 DEF DomainStep
  <2>2. /\ GateTx(View, shadows[i], Tx, GateContext) /\ shadows[i] \in Shadows
        /\ Tx \in Transactions /\ IsComplete(Tx)
        /\ Tx.owner # None => Tx.owner \in Keys /\ Signed(Tx.owner)
    BY <2>1, OwnerSigned
  <2>3. blk.slot \in Nat /\ blk.index \in Nat
    BY <2>1, CurrentTx
  <2>4. Tx.type = "REVEAL" => Tx.domain \in Domains
    BY <1>5, DomainStepKeeps, RevealFindsCommit
  <2>5. SUFFICES ASSUME NEW k \in Keys, staged'.bal[k] < live.bal[k]
                 PROVE  Signed(k)
    BY <2>1 DEF SignedInv, Signed
  <2>6. staged.bal[k] < live.bal[k] => Signed(k)
    BY <2>1 DEF SignedInv
  <2>7. CASE k = Tx.owner
    BY <2>2, <2>7, NamesAssumption
  <2>8. CASE k # Tx.owner
    <3>1. staged'.bal[k] >= staged.bal[k]
      BY <1>0, <2>1, <2>2, <2>3, <2>4, <2>8, DomainTakes
    <3>2. staged' \in States
      BY <1>0, <2>1, <2>2, <2>3, DomainType
    <3>3. staged'.bal[k] \in Nat
      BY <3>2 DEF States
    <3> QED
      BY <1>0, <2>5, <2>6, <3>1, <3>3
  <2> QED
    BY <2>7, <2>8
<1>6. CASE DomainDone
  <2>1. UNCHANGED <<live, blk, staged>> /\ pc = "domain" /\ pc' = "stake"
    BY <1>6 DEF DomainDone
  <2>2. staged.stake = live.stake
    BY <2>1 DEF StakeAgrees
  <2> QED
    BY <1>0, <2>1, <2>2 DEF SignedInv, Signed
<1>7. CASE StakeStep
  <2>1. /\ UNCHANGED <<live, blk, pc>> /\ pc = "stake" /\ ~AtEnd
        /\ staged' = ApplyStakeMutations(staged, Tx, blk.slot)
    BY <1>7 DEF StakeStep
  <2>2. /\ GateTx(View, shadows[i], Tx, GateContext) /\ shadows[i] \in Shadows
        /\ Tx \in Transactions /\ i \in DOMAIN blk.txs
        /\ Tx.owner # None => Tx.owner \in Keys /\ Signed(Tx.owner)
    BY <2>1, OwnerSigned
  <2>3. blk.slot \in Nat
    BY <2>1, CurrentTx
  <2>4. staged'.bal = staged.bal
    BY <1>0, <2>1, <2>2, StakePassFields
  <2>5. ASSUME NEW k \in Keys, staged'.stake[k] < live.stake[k]
        PROVE  Signed(k) \/ Accused(k)
    <3>1. staged.stake[k] < live.stake[k] => Signed(k) \/ Accused(k)
      BY <2>1 DEF SignedInv
    <3>2. CASE k = Tx.owner
      BY <2>2, <3>2, NamesAssumption
    <3>3. CASE Tx.type = "EQUIVOCATION_PROOF" /\ OffenceOf(Tx)[2] = k
      BY <2>2, <3>3 DEF Accused, Tx
    <3>4. CASE k # Tx.owner /\ (Tx.type = "EQUIVOCATION_PROOF" => OffenceOf(Tx)[2] # k)
      BY <1>0, <2>1, <2>2, <2>3, <2>5, <3>1, <3>4, StakeTakes
    <3> QED
      BY <3>2, <3>3, <3>4
  <2> QED
    BY <2>1, <2>4, <2>5 DEF SignedInv, Signed, Accused
<1>8. CASE UNCHANGED vars
  BY <1>8 DEF vars, SignedInv, Signed, Accused
<1> QED
  BY <1>1, <1>2, <1>3, <1>4, <1>5, <1>6, <1>7, <1>8 DEF Next

\* Nobody's coins are touched behind their back: whatever blocks arrive, a
\* balance falls only if its owner signed a transaction of the block, a stake
\* only if its owner did or an equivocation of theirs was proved.
THEOREM CoinsAreSafe == Spec => CoinsLeaveBySignature
<1> DEFINE Inv == /\ TypeOK /\ GatesHeld /\ LedgerAgrees
                  /\ StakeFloor /\ StakeAgrees /\ SignedInv
           Step == chain' # chain =>
                     \A k \in Keys :
                       /\ live'.bal[k] < live.bal[k] => Signed(k)
                       /\ live'.stake[k] < live.stake[k] => Signed(k) \/ Accused(k)
<1>1. Init => Inv
  <2> SUFFICES ASSUME Init PROVE Inv
    OBVIOUS
  <2>1. TypeOK /\ GatesHeld
    BY InitTyped
  <2> QED
    BY <2>1 DEF Init, GenesisState, LedgerAgrees, StakeFloor, StakeAgrees,
                AboveFloor, SignedInv
<1>2. Inv /\ DomainInv /\ [Next]_vars => Inv'
  BY NextTyped, NextAgrees, NextStakeAgrees, NextSigned
<1>3. Inv /\ [Next]_vars => [Step]_vars
  <2>1. SUFFICES ASSUME Inv, [Next]_vars, chain' # chain, NEW k \in Keys
                 PROVE  /\ live'.bal[k] < live.bal[k] => Signed(k)
                        /\ live'.stake[k] < live.stake[k] => Signed(k) \/ Accused(k)
    OBVIOUS
  <2>2. live'.bal = staged.bal /\ live'.stake = staged.stake /\ pc = "stake"
    BY <2>1, ChainGrows, AcceptFields
  <2> QED
    BY <2>1, <2>2 DEF SignedInv
<1>4. Spec => []DomainInv
  BY DomainInvHolds, PTL
<1>5. Spec => [][Step]_vars
  BY <1>1, <1>2, <1>3, <1>4, PTL DEF Spec
<1> QED
  BY <1>5 DEF CoinsLeaveBySignature

-----------------------------------------------------------------------------
(* A sale that is still open can be paid *)

\* What the gates took from k for transaction j, if it is a BUY by k.
BuyCost(k, j) ==
  IF blk.txs[j].type = "BUY" /\ blk.txs[j].owner = k
  THEN shadows[j].forSale[blk.txs[j].domain] ELSE 0

\* What the gates took from k for the BUYs among the first n transactions.
Bought(k) ==
  LET sum[n \in 0 .. Len(blk.txs)] ==
        IF n = 0 THEN 0 ELSE sum[n - 1] + BuyCost(k, n)
  IN  sum

\* The index and the shadow maps have the same owner and price for d.
SameDeal(S, sh, d) ==
  S.dom[d].owner = sh.owner[d] /\ S.dom[d].price = sh.forSale[d]

\* d ended in this block, and cannot be registered again by it.
Ended(V, S, sh, d, slot) ==
  Phase(S, d, slot) # "active" /\ ~(d \notin sh.registered /\ Free(V, d, slot))

DealsKept(V, S, sh, slot) ==
  \A d \in Domains : SameDeal(S, sh, d) \/ Ended(V, S, sh, d, slot)

\* While the ledger pass runs every account still has, on top of its shadow
\* balance, what the BUYs so far will cost; while the domain pass runs it has
\* what the BUYs to come will cost.  Where a name is still alive, owner and
\* price are those of the shadow maps.
PriceInv ==
  /\ pc = "ledger" =>
       \A k \in Keys : staged.bal[k] >= shadows[i].bal[k] + Bought(k)[i - 1]
  /\ pc = "domain" /\ NothingRevived =>
       /\ \A k \in Keys : staged.bal[k] + Bought(k)[i - 1]
                            >= shadows[Len(blk.txs) + 1].bal[k] + Bought(k)[Len(blk.txs)]
       /\ DealsKept(View, staged, shadows[i], blk.slot)

\* After the gates the cost of a BUY is a number.
LEMMA BuyCostType ==
  ASSUME TypeOK, GatesHeld,
         pc \in {"ledger", "domain", "stake"} \/ (pc = "gates" /\ AtEnd),
         NEW k, NEW j \in 1 .. Len(blk.txs)
  PROVE  BuyCost(k, j) \in Nat
<1>1. shadows[j] \in Shadows /\ IsComplete(blk.txs[j])
  <2>1. /\ Len(shadows) = Len(blk.txs) + 1 /\ shadows \in Seq(Shadows)
        /\ blk \in Blocks /\ pc # "idle"
    BY DEF GatesHeld, TypeOK, AtEnd
  <2>2. /\ j \in 1 .. Len(shadows) - 1 /\ j \in 1 .. Len(shadows)
        /\ blk.txs[j] \in Transactions
    BY <2>1, BlockFacts
  <2>3. shadows[j] \in Shadows
    BY <2>1, <2>2
  <2>4. shadows[j].registered \subseteq Domains
    BY <2>3 DEF Shadows
  <2>5. GateTx(View, shadows[j], blk.txs[j], GateContext)
    BY <2>1, <2>2 DEF GatesHeld
  <2> QED
    BY <2>2, <2>3, <2>4, <2>5, GateIsComplete
<1>2. blk.txs[j].type = "BUY" => blk.txs[j].domain \in Domains
  BY <1>1 DEF IsComplete
<1> QED
  BY <1>1, <1>2 DEF BuyCost, Shadows

\* The sum Bought, step by step.
LEMMA BoughtSteps ==
  ASSUME TypeOK, GatesHeld,
         pc \in {"ledger", "domain", "stake"} \/ (pc = "gates" /\ AtEnd), NEW k
  PROVE  /\ Bought(k)[0] = 0
         /\ \A n \in 1 .. Len(blk.txs) : Bought(k)[n] = Bought(k)[n - 1] + BuyCost(k, n)
         /\ \A n \in 0 .. Len(blk.txs) : Bought(k)[n] \in Nat
<1> DEFINE L == Len(blk.txs)
           next(n, v) == v + BuyCost(k, n)
           eq(f) == f = [n \in 0 .. L |-> IF n = 0 THEN 0 ELSE next(n, f[n - 1])]
           step == [p \in (1 .. L) \X Nat |-> next(p[1], p[2])]
           loop == Bought(k)
<1>1. L \in Nat /\ \A n \in 1 .. L, v \in Nat : next(n, v) \in Nat
  BY BuyCostType, BlockFacts DEF TypeOK
<1>2. loop = CHOOSE f : eq(f)
  BY DEF Bought
<1> HIDE DEF next, L
<1>3. PICK f \in [0 .. L -> Nat] :
        f[0] = 0 /\ \A n \in 1 .. L : f[n] = step[<<n, f[n - 1]>>]
  <2>1. step \in [(1 .. L) \X Nat -> Nat]
    BY <1>1
  <2> HIDE DEF step
  <2>2. LoopTables(L, Nat, 0, step) # {}
    BY <1>1, <2>1, LoopExists
  <2> QED
    BY <2>2 DEF LoopTables
<1>4. \A n \in 1 .. L : f[n] = next(n, f[n - 1])
  <2>1. TAKE n \in 1 .. L
  <2>2. f[n - 1] \in Nat
    BY <1>1
  <2> QED
    BY <1>3, <2>2
<1>5. eq(f)
  BY <1>1, <1>3, <1>4
<1>6. eq(loop)
  BY <1>2, <1>5
<1> HIDE DEF loop
<1>7. \A n \in 0 .. L : loop[n] = IF n = 0 THEN 0 ELSE next(n, loop[n - 1])
  BY <1>6
<1>8. loop[0] = 0 /\ \A n \in 1 .. L : loop[n] = next(n, loop[n - 1])
  BY <1>1, <1>7
<1>9. \A n \in 0 .. L : loop[n] \in Nat
  <2>1. loop[0] \in Nat
    BY <1>8
  <2>2. ASSUME NEW n \in 1 .. L, loop[n - 1] \in Nat PROVE loop[n] \in Nat
    BY <1>1, <1>8, <2>2
  <2> QED
    BY <1>1, <2>1, <2>2, LoopType
<1> QED
  BY <1>8, <1>9 DEF next, L, loop

\* The sum never falls.
LEMMA BoughtGrows ==
  ASSUME TypeOK, GatesHeld, pc \in {"ledger", "domain", "stake"}, NEW k,
         NEW a \in 0 .. Len(blk.txs)
  PROVE  Bought(k)[a] <= Bought(k)[Len(blk.txs)]
<1> DEFINE L == Len(blk.txs)
           T == {m \in Nat : a + m <= L => Bought(k)[a] <= Bought(k)[a + m]}
<1>1. L \in Nat
  BY BlockFacts DEF TypeOK
<1>2. /\ \A n \in 1 .. L : Bought(k)[n] = Bought(k)[n - 1] + BuyCost(k, n)
      /\ \A n \in 0 .. L : Bought(k)[n] \in Nat
      /\ \A n \in 1 .. L : BuyCost(k, n) \in Nat
  BY BoughtSteps, BuyCostType
<1>3. 0 \in T
  BY <1>1, <1>2
<1>4. ASSUME NEW m \in Nat, m \in T PROVE m + 1 \in T
  <2>1. SUFFICES ASSUME a + (m + 1) <= L
                 PROVE  Bought(k)[a] <= Bought(k)[a + (m + 1)]
    OBVIOUS
  <2>2. a + m <= L /\ Bought(k)[a] <= Bought(k)[a + m]
    BY <1>1, <1>4, <2>1
  <2>3. a + (m + 1) \in 1 .. L /\ (a + (m + 1)) - 1 = a + m /\ a + m \in 0 .. L
    BY <1>1, <2>1
  <2>4. Bought(k)[a + (m + 1)] = Bought(k)[a + m] + BuyCost(k, a + (m + 1))
    BY <1>2, <2>3
  <2> QED
    BY <1>2, <2>2, <2>3, <2>4
<1>5. Nat \subseteq T
  <2> HIDE DEF T
  <2> QED
    BY <1>3, <1>4, SetInduction
<1>6. L - a \in Nat /\ a + (L - a) = L
  BY <1>1
<1>7. L - a \in T
  <2> HIDE DEF T
  <2> QED
    BY <1>5, <1>6
<1> QED
  BY <1>1, <1>6, <1>7

\* What the shadow balance loses is what the ledger pass takes and the price.
LEMMA ShadowPays ==
  ASSUME TypeOK, GatesHeld, pc \in {"ledger", "domain", "stake"}, ~AtEnd, NEW k \in Keys
  PROVE  shadows[i + 1].bal[k]
           = shadows[i].bal[k] - (IF k = Tx.owner THEN LedgerCost(Tx) ELSE 0)
               - BuyCost(k, i)
<1>1. /\ shadows[i] \in Shadows /\ shadows[i + 1] = ShadowAfter(View, shadows[i], Tx)
      /\ Tx \in Transactions /\ i \in 1 .. Len(blk.txs)
  BY OwnerSigned
<1>2. /\ shadows[i].bal \in [Keys -> Nat] /\ shadows[i].bal[k] \in Nat
      /\ Tx.fee \in Nat /\ Tx.price \in Nat /\ Tx.amount \in Nat
  <2>1. Tx.fee \in Nat /\ Tx.price \in Nat /\ Tx.amount \in Nat
    BY <1>1, LimitsAssumption DEF Transactions, U64
  <2> QED
    BY <1>1, <2>1 DEF Shadows
<1>3. BuyCost(k, i) \in Nat
  BY <1>1, BuyCostType
<1>4. CASE k # Tx.owner
  <2>1. shadows[i + 1].bal[k] = shadows[i].bal[k]
    BY <1>1, <1>2, <1>4 DEF ShadowAfter, Shadows
  <2>2. BuyCost(k, i) = 0
    BY <1>4 DEF BuyCost, Tx
  <2> QED
    BY <1>2, <1>4, <2>1, <2>2
<1>5. CASE k = Tx.owner
  <2>1. Tx.owner # None
    BY <1>5, NamesAssumption
  <2>2. shadows[i + 1].bal[k] = BalanceAfter(shadows[i], Tx)
    BY <1>1, <1>2, <1>5, <2>1 DEF ShadowAfter
  <2>3. CASE Tx.type = "BUY"
    <3>1. /\ LedgerCost(Tx) = Tx.fee
          /\ BuyCost(k, i) = shadows[i].forSale[Tx.domain]
      BY <1>2, <1>5, <2>3 DEF LedgerCost, BuyCost, Tx
    <3>2. BalanceAfter(shadows[i], Tx) = shadows[i].bal[k] - Tx.fee - BuyCost(k, i)
      BY <1>5, <2>3, <3>1 DEF BalanceAfter
    <3> QED
      BY <1>5, <2>2, <3>1, <3>2
  <2>4. CASE Tx.type # "BUY"
    <3>1. BuyCost(k, i) = 0
      BY <2>4 DEF BuyCost, Tx
    <3> QED
      BY <1>2, <1>5, <2>2, <2>4, <3>1 DEF BalanceAfter, LedgerCost
  <2> QED
    BY <2>3, <2>4
<1> QED
  BY <1>4, <1>5

\* A transaction keeps the shadow maps and the index together, name by name.
LEMMA DealKeepsUp ==
  ASSUME NEW V \in States, NEW sh \in Shadows, NEW tx \in Submitted, NEW c,
         GateTx(V, sh, tx, c), tx.type \notin {"RENEW", "REVOKE"},
         NEW L \in States, NEW S \in States, Kept(V, S, sh), NEW index,
         DealsKept(V, S, sh, c.slot),
         tx.type = "REVEAL" => /\ HasCommit(S, RevealHash(tx))
                               /\ Free(S, tx.domain, c.slot)
                               /\ tx.domain \in Domains \ sh.registered
                               /\ Free(V, tx.domain, c.slot),
         tx.type = "BUY" /\ BuyIsOpen(S, tx, c.slot)
           => CanDebit(S.bal, tx.owner, S.dom[tx.domain].price)
  PROVE  DealsKept(V, ApplyDomainMutations(L, S, tx, c.slot, index),
                   ShadowAfter(V, sh, tx), c.slot)
<1> DEFINE T == ApplyDomainMutations(L, S, tx, c.slot, index)
           sh2 == ShadowAfter(V, sh, tx)
           x == tx.domain
           Good(d) == SameDeal(T, sh2, d) \/ Ended(V, T, sh2, d, c.slot)
<1>0. tx \in Transactions /\ sh.registered \subseteq Domains
      /\ sh.owner \in [Domains -> Keys \cup {None}] /\ sh.forSale \in [Domains -> Nat]
  BY SubmittedAssumption DEF Shadows
<1>1. /\ tx.owner \in Keys /\ tx.owner # None /\ tx.type # "REGISTER"
      /\ tx.type \in MarketTypes =>
           x \in Domains /\ (x \in sh.registered \/ Exists(V, x))
      /\ tx.type = "UPDATE" => tx.redeems # 0
  BY <1>0, GateIsSigned
<1>2. /\ sh2.owner = OwnerAfter(sh, tx) /\ sh2.forSale = ForSaleAfter(sh, tx)
      /\ sh.registered \subseteq sh2.registered
      /\ tx.type # "REVEAL" => sh2.registered = sh.registered
  BY <1>1 DEF ShadowAfter
<1>3. SUFFICES ASSUME NEW d \in Domains PROVE Good(d)
  BY DEF DealsKept
<1>4. SameDeal(S, sh, d) \/ Ended(V, S, sh, d, c.slot)
  BY DEF DealsKept
<1>5. d # x => sh2.owner[d] = sh.owner[d] /\ sh2.forSale[d] = sh.forSale[d]
  BY <1>0, <1>2 DEF OwnerAfter, ForSaleAfter
<1>6. ASSUME T.dom[d].owner = S.dom[d].owner, T.dom[d].price = S.dom[d].price,
             T.dom[d].expiry = S.dom[d].expiry,
             sh2.owner[d] = sh.owner[d], sh2.forSale[d] = sh.forSale[d]
      PROVE  Good(d)
  BY <1>2, <1>4, <1>6 DEF SameDeal, Ended, Phase
<1> HIDE DEF T, sh2
<1>7. CASE tx.type \in {"COMMIT", "FUND"} \cup PoSTypes
  <2>1. SameMeta(T, S)
    BY <1>0, <1>7, OthersDealNot DEF T, MarketTypes, PoSTypes
  <2>2. T.dom[d].expiry = S.dom[d].expiry
    <3>1. CASE tx.type = "COMMIT"
      <4>1. T.dom = S.dom
        BY <3>1 DEF T, ApplyDomainMutations, ApplyCommit, AddCommit, States
      <4> QED
        BY <4>1
    <3>2. CASE tx.type # "COMMIT"
      <4>1. SameHeads(T, S)
        BY <1>0, <1>7, <3>2, GateIsComplete, MarketEffect DEF T
      <4> QED
        BY <4>1 DEF SameHeads
    <3> QED
      BY <3>1, <3>2
  <2>3. sh2.owner[d] = sh.owner[d] /\ sh2.forSale[d] = sh.forSale[d]
    BY <1>2, <1>7 DEF OwnerAfter, ForSaleAfter, PoSTypes
  <2> QED
    BY <1>6, <2>1, <2>2, <2>3 DEF SameMeta
<1>8. CASE tx.type = "UPDATE"
  <2>1. SameMeta(T, S)
    BY <1>0, <1>8, OthersDealNot DEF T, MarketTypes
  <2>2. sh2.owner[d] = sh.owner[d] /\ sh2.forSale[d] = sh.forSale[d]
    BY <1>2, <1>8 DEF OwnerAfter, ForSaleAfter
  <2>3. T = S \/ Restated(T, S, tx)
    BY <1>0, <1>1, <1>8, ReplaceEffect DEF T, Replaced
  <2>4. CASE d # x
    BY <1>6, <2>1, <2>2, <2>3, <2>4 DEF SameMeta, Restated
  <2>5. CASE SameDeal(S, sh, d)
    BY <2>1, <2>2, <2>5 DEF SameMeta, SameDeal
  <2>6. CASE d = x /\ Ended(V, S, sh, d, c.slot)
    <3>1. Phase(S, d, c.slot) # "active" /\ Exists(S, d)
      BY <2>6 DEF Ended, Kept, NamesKept, Free, Exists
    <3>2. T = S
      BY <1>8, <2>6, <3>1 DEF T, ApplyDomainMutations, ApplyUpdate
    <3> QED
      BY <1>6, <2>2, <3>2
  <2> QED
    BY <1>4, <2>4, <2>5, <2>6
<1>9. CASE tx.type = "REVEAL"
  <2>1. Deal(T, S, x, tx.recipient, S.dom[x].price)
    BY <1>0, <1>9, RevealDeals DEF T
  <2>2. Restated(T, S, tx)
    BY <1>0, <1>9, RevealEffect DEF T
  <2>3. CASE d # x
    BY <1>5, <1>6, <2>1, <2>2, <2>3 DEF Deal, Restated
  <2>4. CASE d = x
    <3>1. SameDeal(S, sh, d)
      BY <1>4, <1>9, <2>4 DEF Ended
    <3>2. sh2.owner[d] = tx.recipient /\ sh2.forSale[d] = sh.forSale[d]
      BY <1>0, <1>2, <1>9, <2>4 DEF OwnerAfter, ForSaleAfter
    <3> QED
      BY <2>1, <2>4, <3>1, <3>2 DEF Deal, SameDeal
  <2> QED
    BY <2>3, <2>4
<1>10. CASE tx.type \in MarketTypes
  <2>1. T.dom[d].expiry = S.dom[d].expiry
    BY <1>0, <1>10, GateIsComplete, MarketEffect DEF T, SameHeads
  <2>2. \/ T = S /\ tx.type \in MarketTypes
        \/ tx.type = "LIST" /\ Deal(T, S, x, tx.owner, tx.price)
        \/ tx.type = "DELIST" /\ Deal(T, S, x, tx.owner, 0)
        \/ tx.type = "TRANSFER" /\ Deal(T, S, x, tx.recipient, 0)
        \/ tx.type = "BUY" /\ Deal(T, S, x, tx.owner, 0)
    BY <1>0, <1>1, <1>10, OwnerDeals, BuyDeals DEF T, MarketTypes
  <2>3. CASE d # x
    BY <1>5, <1>6, <2>1, <2>2, <2>3 DEF Deal
  <2>4. CASE d = x /\ Phase(S, d, c.slot) # "active"
    <3>1. x \in sh.registered \/ (Exists(V, x) /\ Phase(V, x, c.slot) = "active")
      BY <1>10 DEF GateTx, StructureOK, MarketPhaseGate
    <3>2. Phase(T, d, c.slot) # "active"
      BY <2>1, <2>4 DEF Phase
    <3> QED
      BY <1>2, <2>4, <3>1, <3>2 DEF Ended, Free
  <2>5. CASE d = x /\ Phase(S, d, c.slot) = "active"
    <3>1. SameDeal(S, sh, d)
      BY <1>4, <2>5 DEF Ended
    <3>2. CASE tx.type = "LIST"
      <4>1. OwnerMay(S, tx, c.slot)
        BY <1>1, <2>5, <3>1, <3>2 DEF GateTx, ListGate, SameDeal, OwnerMay
      <4>2. Deal(T, S, x, tx.owner, tx.price)
        BY <1>0, <1>1, <1>10, <3>2, <4>1, OwnerDeals DEF T
      <4>3. sh2.owner[d] = sh.owner[d] /\ sh2.forSale[d] = tx.price
        BY <1>0, <1>2, <2>5, <3>2 DEF OwnerAfter, ForSaleAfter
      <4> QED
        BY <2>5, <3>1, <4>1, <4>2, <4>3 DEF Deal, SameDeal, OwnerMay
    <3>3. CASE tx.type = "DELIST"
      <4>1. OwnerMay(S, tx, c.slot) /\ IsForSale(S, x)
        BY <1>1, <2>5, <3>1, <3>3 DEF GateTx, ListGate, SameDeal, OwnerMay, IsForSale
      <4>2. Deal(T, S, x, tx.owner, 0)
        BY <1>0, <1>1, <1>10, <3>3, <4>1, OwnerDeals DEF T
      <4>3. sh2.owner[d] = sh.owner[d] /\ sh2.forSale[d] = 0
        BY <1>0, <1>2, <2>5, <3>3 DEF OwnerAfter, ForSaleAfter
      <4> QED
        BY <2>5, <3>1, <4>1, <4>2, <4>3 DEF Deal, SameDeal, OwnerMay
    <3>4. CASE tx.type = "TRANSFER"
      <4>1. OwnerMay(S, tx, c.slot)
        BY <1>1, <2>5, <3>1, <3>4 DEF GateTx, TransferGate, SameDeal, OwnerMay
      <4>2. Deal(T, S, x, tx.recipient, 0)
        BY <1>0, <1>1, <1>10, <3>4, <4>1, OwnerDeals DEF T
      <4>3. sh2.owner[d] = tx.recipient /\ sh2.forSale[d] = 0
        BY <1>0, <1>2, <2>5, <3>4 DEF OwnerAfter, ForSaleAfter
      <4> QED
        BY <2>5, <4>2, <4>3 DEF Deal, SameDeal
    <3>5. CASE tx.type = "BUY"
      <4>1. BuyIsOpen(S, tx, c.slot)
        BY <1>1, <2>5, <3>1, <3>5 DEF GateTx, BuyGate, SameDeal, BuyIsOpen, IsForSale
      <4>2. Deal(T, S, x, tx.owner, 0)
        BY <1>0, <1>1, <1>10, <3>5, <4>1, BuyDeals DEF T
      <4>3. sh2.owner[d] = tx.owner /\ sh2.forSale[d] = 0
        BY <1>0, <1>2, <2>5, <3>5 DEF OwnerAfter, ForSaleAfter
      <4> QED
        BY <2>5, <4>2, <4>3 DEF Deal, SameDeal
    <3> QED
      BY <1>10, <3>2, <3>3, <3>4, <3>5 DEF MarketTypes
  <2> QED
    BY <2>3, <2>4, <2>5
<1> QED
  BY <1>0, <1>1, <1>7, <1>8, <1>9, <1>10
  DEF Transactions, TxTypes, MarketTypes, PoSTypes

\* The first price is the live one.
LEMMA DealsStart ==
  ASSUME TypeOK, GatesHeld, DomainInv, LedgerDone
  PROVE  DealsKept(View, staged', shadows[1], blk.slot)
<1>1. live \in States /\ pc = "ledger"
  BY DEF TypeOK, LedgerDone
<1>2. staged'.dom = live.dom /\ View.dom = live.dom
  BY <1>1, DomainPassStarts, ViewFields DEF View
<1>3. shadows[1] = InitShadow(View)
  BY <1>1 DEF GatesHeld
<1> QED
  BY <1>2, <1>3 DEF InitShadow, DealsKept, SameDeal

\* A BUY that is open costs what the gates took for it, and can be paid.
LEMMA OpenBuyIsCovered ==
  ASSUME TypeOK, GatesHeld, PriceInv, pc = "domain", ~AtEnd, NothingRevived,
         Tx.type = "BUY", BuyIsOpen(staged, Tx, blk.slot)
  PROVE  /\ staged.dom[Tx.domain].price = shadows[i].forSale[Tx.domain]
         /\ BuyCost(Tx.owner, i) = shadows[i].forSale[Tx.domain]
         /\ CanDebit(staged.bal, Tx.owner, staged.dom[Tx.domain].price)
<1> DEFINE k == Tx.owner
           n == Len(blk.txs)
<1>1. /\ IsComplete(Tx) /\ i \in 1 .. n /\ staged \in States /\ n \in Nat
  BY OwnerSigned, BlockFacts DEF TypeOK
<1>2. Tx.domain \in Domains /\ k \in Keys
  BY <1>1 DEF IsComplete
<1>3. staged.dom[Tx.domain].price = shadows[i].forSale[Tx.domain]
  BY <1>2 DEF PriceInv, DealsKept, SameDeal, Ended, BuyIsOpen
<1>4. BuyCost(k, i) = shadows[i].forSale[Tx.domain]
  BY DEF BuyCost, Tx
<1>5. staged.bal[k] + Bought(k)[i - 1] >= shadows[n + 1].bal[k] + Bought(k)[n]
  BY <1>2 DEF PriceInv
<1>6. /\ Bought(k)[i] = Bought(k)[i - 1] + BuyCost(k, i) /\ BuyCost(k, i) \in Nat
      /\ Bought(k)[i] \in Nat /\ Bought(k)[i - 1] \in Nat /\ Bought(k)[n] \in Nat
  <2>1. i \in 0 .. n /\ i - 1 \in 0 .. n /\ n \in 0 .. n
    BY <1>1
  <2> QED
    BY <1>1, <2>1, BoughtSteps, BuyCostType
<1>7. Bought(k)[i] <= Bought(k)[n]
  BY <1>1, BoughtGrows
<1>8. shadows[n + 1].bal[k] \in Nat
  <2>1. Len(shadows) = n + 1 /\ shadows \in Seq(Shadows)
    BY DEF GatesHeld, TypeOK
  <2>2. shadows[n + 1] \in Shadows
    BY <1>1, <2>1
  <2> QED
    BY <1>2, <2>2 DEF Shadows
<1>9. staged.bal[k] \in Nat
  BY <1>1, <1>2 DEF States
<1>10. staged.bal[k] >= BuyCost(k, i)
  <2> HIDE DEF k, n
  <2> QED
    BY <1>5, <1>6, <1>7, <1>8, <1>9
<1> QED
  BY <1>3, <1>4, <1>10 DEF CanDebit

\* Every step of the ledger pass leaves what the BUYs will cost.
LEMMA LedgerPrices ==
  ASSUME TypeOK, GatesHeld, LedgerAgrees, PriceInv, LedgerStep, NEW k \in Keys
  PROVE  staged'.bal[k] >= shadows[i + 1].bal[k] + Bought(k)[i]
<1>1. /\ pc = "ledger" /\ ~AtEnd /\ staged \in States
      /\ staged' = ApplyLedgerMutations(staged, Tx)
  BY DEF LedgerStep, TypeOK
<1>2. /\ GateTx(View, shadows[i], Tx, GateContext) /\ shadows[i] \in Shadows
      /\ shadows[i + 1] \in Shadows
      /\ Tx \in Transactions /\ View \in States /\ i \in 1 .. Len(blk.txs)
  BY <1>1, OwnerSigned
<1> DEFINE cost == IF k = Tx.owner THEN LedgerCost(Tx) ELSE 0
<1>3. staged.bal \in [Keys -> Nat] /\ staged.bal[k] \in Nat
      /\ shadows[i].bal[k] \in Nat /\ shadows[i + 1].bal[k] \in Nat
  BY <1>1, <1>2 DEF States, Shadows
<1>4. staged'.bal[k] \in Nat
  BY <1>1, <1>2, LedgerType DEF States
<1>5. cost \in Nat /\ staged'.bal[k] >= staged.bal[k] - cost
  <2>1. CASE Tx.owner = None
    <3>1. staged' = staged /\ cost = 0
      BY <1>1, <2>1, NamesAssumption DEF ApplyLedgerMutations
    <3> QED
      BY <1>3, <3>1
  <2>2. CASE Tx.owner # None
    <3>1. CanDebit(staged.bal, Tx.owner, LedgerCost(Tx)) /\ LedgerCost(Tx) \in Nat
      BY <1>1, <1>2, <1>3, <2>2, CostCovered DEF LedgerAgrees
    <3> QED
      BY <1>1, <1>2, <2>2, <3>1, LedgerTakes
  <2> QED
    BY <2>1, <2>2
<1>6. shadows[i + 1].bal[k] = shadows[i].bal[k] - cost - BuyCost(k, i)
  BY <1>1, ShadowPays
<1>7. staged.bal[k] >= shadows[i].bal[k] + Bought(k)[i - 1]
  BY <1>1 DEF PriceInv
<1>8. /\ Bought(k)[i] = Bought(k)[i - 1] + BuyCost(k, i) /\ BuyCost(k, i) \in Nat
      /\ Bought(k)[i - 1] \in Nat
  <2>1. i - 1 \in 0 .. Len(blk.txs)
    BY <1>2
  <2> QED
    BY <1>1, <1>2, <2>1, BoughtSteps, BuyCostType
<1> HIDE DEF cost
<1> QED
  BY <1>3, <1>4, <1>5, <1>6, <1>7, <1>8

\* A step of the domain pass pays at most what was kept for it.
LEMMA DomainPrices ==
  ASSUME TypeOK, GatesHeld, DomainInv, PriceInv, NothingRevived, DomainStep,
         NEW k \in Keys
  PROVE  staged'.bal[k] + Bought(k)[i]
           >= shadows[Len(blk.txs) + 1].bal[k] + Bought(k)[Len(blk.txs)]
<1> DEFINE n == Len(blk.txs)
<1>1. /\ pc = "domain" /\ ~AtEnd /\ staged \in States /\ live \in States
      /\ staged' = ApplyDomainMutations(live, staged, Tx, blk.slot, blk.index)
      /\ blk.slot \in Nat /\ blk.index \in Nat
  BY CurrentTx DEF DomainStep, TypeOK
<1>2. /\ GateTx(View, shadows[i], Tx, GateContext) /\ shadows[i] \in Shadows
      /\ Tx \in Transactions /\ View \in States /\ IsComplete(Tx)
      /\ i \in 1 .. n /\ n \in Nat
  BY <1>1, OwnerSigned, BlockFacts DEF TypeOK
<1>3. Tx.type = "REVEAL" => Tx.domain \in Domains
  BY DomainStepKeeps, RevealFindsCommit
<1>4. staged.bal \in [Keys -> Nat] /\ staged.bal[k] \in Nat
  BY <1>1 DEF States
<1>5. staged'.bal[k] \in Nat
  <2>1. staged' \in States
    BY <1>1, <1>2, DomainType
  <2> QED
    BY <2>1 DEF States
<1>6. /\ Bought(k)[i] = Bought(k)[i - 1] + BuyCost(k, i) /\ BuyCost(k, i) \in Nat
      /\ Bought(k)[i - 1] \in Nat
  <2>1. i - 1 \in 0 .. n
    BY <1>2
  <2> QED
    BY <1>1, <1>2, <2>1, BoughtSteps, BuyCostType
<1>7. staged'.bal[k] >= staged.bal[k] - BuyCost(k, i)
  <2>1. CASE k # Tx.owner \/ Tx.type # "BUY"
    <3>1. staged'.bal[k] >= staged.bal[k]
      BY <1>1, <1>2, <1>3, <2>1, DomainTakes
    <3> QED
      BY <1>4, <1>5, <1>6, <3>1
  <2>2. CASE k = Tx.owner /\ Tx.type = "BUY"
    <3> DEFINE p == staged.dom[Tx.domain].price
               o == staged.dom[Tx.domain].owner
               open == BuyIsOpen(staged, Tx, blk.slot)
    <3>1. Tx.domain \in Domains
      BY <1>2, <2>2 DEF IsComplete
    <3>2. IF open /\ CanDebit(staged.bal, k, p)
          THEN staged'.bal = Credit(Debit(staged.bal, k, p), o, p)
          ELSE staged' = staged
      BY <1>1, <1>2, <2>2, <3>1, BuyDeals
    <3>3. CASE open /\ CanDebit(staged.bal, k, p)
      <4>1. p = BuyCost(k, i) /\ p \in Nat
        BY <1>1, <1>6, <2>2, <3>3, OpenBuyIsCovered
      <4>2. /\ staged'.bal = Credit(Debit(staged.bal, k, p), o, p)
            /\ CanDebit(staged.bal, k, p)
        BY <3>2, <3>3
      <4> HIDE DEF p, o
      <4>3. Debit(staged.bal, k, p) = [staged.bal EXCEPT ![k] = @ - p]
        BY <4>2 DEF Debit
      <4>4. Debit(staged.bal, k, p)[k] = staged.bal[k] - p
            /\ DOMAIN Debit(staged.bal, k, p) = Keys
        BY <1>4, <4>3
      <4>5. staged'.bal[k] >= staged.bal[k] - p
        BY <1>4, <4>1, <4>2, <4>4 DEF Credit
      <4> QED
        BY <4>1, <4>5
    <3>4. CASE ~(open /\ CanDebit(staged.bal, k, p))
      BY <1>4, <1>6, <3>2, <3>4
    <3> QED
      BY <3>3, <3>4
  <2> QED
    BY <2>1, <2>2
<1>8. staged.bal[k] + Bought(k)[i - 1] >= shadows[n + 1].bal[k] + Bought(k)[n]
  BY <1>1 DEF PriceInv
<1>9. shadows[n + 1].bal[k] + Bought(k)[n] \in Nat
  <2>1. Len(shadows) = n + 1 /\ shadows \in Seq(Shadows)
    BY <1>1 DEF GatesHeld, TypeOK
  <2>2. shadows[n + 1] \in Shadows
    BY <1>2, <2>1
  <2>3. shadows[n + 1].bal[k] \in Nat
    BY <2>2 DEF Shadows
  <2>4. n \in 0 .. n
    BY <1>2
  <2>5. Bought(k)[n] \in Nat
    BY <1>1, <2>4, BoughtSteps
  <2> HIDE DEF n
  <2> QED
    BY <2>3, <2>5
<1> HIDE DEF n
<1> QED
  BY <1>4, <1>5, <1>6, <1>7, <1>8, <1>9 DEF n

\* Every step keeps the invariant.
LEMMA NextPrices ==
  ASSUME TypeOK, GatesHeld, LedgerAgrees, DomainInv, FreeInv, PriceInv, [Next]_vars
  PROVE  PriceInv'
<1>0. ASSUME UNCHANGED <<blk, shadows>> PROVE \A k \in Keys : Bought(k)' = Bought(k)
  BY <1>0 DEF Bought, BuyCost
<1>1. CASE \/ BlockArrives \/ GatePass \/ GateReject \/ DomainDone \/ StakeStep
           \/ HashMismatch \/ AcceptBlock
  <2>1. pc' \notin {"ledger", "domain"}
    BY <1>1 DEF BlockArrives, ReceiveBlock, GatePass, GateReject, DomainDone,
                StakeStep, HashMismatch, AcceptBlock, Idle
  <2> QED
    BY <2>1 DEF PriceInv
<1>2. CASE GatesDone
  <2>1. /\ UNCHANGED <<live, blk, shadows, staged>> /\ pc = "gates" /\ pc' = "ledger"
        /\ i' = 1 /\ live \in States /\ AtEnd
    BY <1>2 DEF GatesDone, TypeOK
  <2>2. View.bal = live.bal /\ live.bal \in [Keys -> Nat]
    BY <2>1, ViewFields DEF View, States
  <2>3. shadows[1].bal = live.bal /\ staged.bal = live.bal
    BY <2>1, <2>2 DEF GatesHeld, InitShadow, LedgerAgrees
  <2>4. \A k \in Keys : Bought(k)[0] = 0
    BY <2>1, BoughtSteps
  <2> QED
    BY <1>0, <2>1, <2>2, <2>3, <2>4 DEF PriceInv
<1>3. CASE LedgerStep
  <2>1. UNCHANGED <<blk, shadows>> /\ pc' = "ledger" /\ i' = i + 1 /\ i \in Nat
    BY <1>3, CurrentTx DEF LedgerStep
  <2>2. \A k \in Keys : staged'.bal[k] >= shadows[i + 1].bal[k] + Bought(k)[i]
    BY <1>3, LedgerPrices
  <2>3. i' - 1 = i
    BY <2>1
  <2> QED
    BY <1>0, <2>1, <2>2, <2>3 DEF PriceInv
<1>4. CASE LedgerDone
  <2> DEFINE n == Len(blk.txs)
  <2>1. /\ UNCHANGED <<live, blk, shadows>> /\ pc = "ledger" /\ pc' = "domain"
        /\ i' = 1 /\ i = n + 1 /\ staged \in States /\ blk \in Blocks
        /\ staged' = [staged EXCEPT !.bal = Credit(@, blk.leader, fees)]
        /\ fees \in Nat
    BY <1>4 DEF LedgerDone, AtEnd, TypeOK
  <2>2. blk.leader \in Keys /\ n \in Nat
    BY <2>1, BlockFacts
  <2>3. staged'.bal = Credit(staged.bal, blk.leader, fees)
        /\ staged.bal \in [Keys -> Nat]
    BY <2>1 DEF States
  <2>4. ASSUME NEW k \in Keys
        PROVE  staged'.bal[k] + Bought(k)[0] >= shadows[n + 1].bal[k] + Bought(k)[n]
    <3>1. staged.bal[k] >= shadows[n + 1].bal[k] + Bought(k)[n]
      BY <2>1, <2>2 DEF PriceInv
    <3>2. staged'.bal[k] \in Nat /\ staged'.bal[k] >= staged.bal[k]
      BY <2>1, <2>2, <2>3 DEF Credit
    <3>3. Bought(k)[0] = 0 /\ Bought(k)[n] \in Nat
      <4>1. n \in 0 .. n
        BY <2>2
      <4> QED
        BY <2>1, <4>1, BoughtSteps
    <3>4. shadows[n + 1].bal[k] \in Nat
      <4>1. Len(shadows) = n + 1 /\ shadows \in Seq(Shadows)
        BY <2>1 DEF GatesHeld, TypeOK
      <4>2. shadows[n + 1] \in Shadows
        BY <2>2, <4>1
      <4> QED
        BY <4>2 DEF Shadows
    <3>5. staged.bal[k] \in Nat
      BY <2>3
    <3> HIDE DEF n
    <3> QED
      BY <3>1, <3>2, <3>3, <3>4, <3>5
  <2>5. DealsKept(View, staged', shadows[1], blk.slot)
    BY <1>4, DealsStart
  <2>6. View' = View /\ i' - 1 = 0
    BY <2>1 DEF View
  <2> QED
    BY <1>0, <2>1, <2>4, <2>5, <2>6 DEF PriceInv
<1>5. CASE DomainStep
  <2>1. /\ UNCHANGED <<live, blk, shadows>> /\ pc = "domain" /\ ~AtEnd
        /\ pc' = "domain" /\ i' = i + 1 /\ i \in Nat /\ live \in States
        /\ staged' = ApplyDomainMutations(live, staged, Tx, blk.slot, blk.index)
    BY <1>5, CurrentTx DEF DomainStep, TypeOK
  <2>2. View' = View /\ i' - 1 = i /\ (NothingRevived' <=> NothingRevived)
        /\ GateContext.slot = blk.slot
    BY <2>1 DEF View, NothingRevived, GateContext
  <2>3. ASSUME NothingRevived
        PROVE  DealsKept(View, staged', shadows[i + 1], blk.slot)
    <3>1. /\ Kept(View, staged, shadows[i]) /\ Tx \in Submitted /\ staged \in States
          /\ View \in States /\ shadows[i] \in Shadows
          /\ GateTx(View, shadows[i], Tx, GateContext)
          /\ shadows[i + 1] = ShadowAfter(View, shadows[i], Tx)
          /\ NamesKnown(View, View.nonce)
          /\ \A k \in Keys : View.nonce[k] <= shadows[i].nonce[k]
      BY <1>5, DomainStepKeeps
    <3>2. Tx.type \notin {"RENEW", "REVOKE"}
      BY <2>1, <2>3, OwnerSigned DEF NothingRevived, Tx
    <3>3. DealsKept(View, staged, shadows[i], blk.slot)
      BY <2>1, <2>3 DEF PriceInv
    <3>4. Tx.type = "REVEAL" => /\ HasCommit(staged, RevealHash(Tx))
                                /\ Free(staged, Tx.domain, blk.slot)
                                /\ Tx.domain \in Domains \ shadows[i].registered
                                /\ Free(View, Tx.domain, blk.slot)
      <4>1. blk \in Blocks
        BY <2>1 DEF TypeOK
      <4>2. RevokesHarmless
        BY <2>3, <4>1, BlockFacts DEF NothingRevived, RevokesHarmless
      <4> QED
        BY <2>1, <2>2, <3>1, <4>2, RevealIsEffective, RevealFindsCommit
    <3>5. Tx.type = "BUY" /\ BuyIsOpen(staged, Tx, blk.slot)
            => CanDebit(staged.bal, Tx.owner, staged.dom[Tx.domain].price)
      BY <2>1, <2>3, OpenBuyIsCovered
    <3> QED
      BY ZenonT(30), <2>1, <2>2, <3>1, <3>2, <3>3, <3>4, <3>5, DealKeepsUp
  <2>4. NothingRevived =>
          \A k \in Keys : staged'.bal[k] + Bought(k)[i]
                            >= shadows[Len(blk.txs) + 1].bal[k] + Bought(k)[Len(blk.txs)]
    BY <1>5, DomainPrices
  <2> QED
    BY <1>0, <2>1, <2>2, <2>3, <2>4 DEF PriceInv
<1>6. CASE UNCHANGED vars
  <2>1. UNCHANGED <<live, blk, pc, i, shadows, staged>> /\ View' = View
        /\ (NothingRevived' <=> NothingRevived)
    BY <1>6 DEF vars, View, NothingRevived
  <2> QED
    BY <1>0, <2>1 DEF PriceInv
<1> QED
  BY <1>1, <1>2, <1>3, <1>4, <1>5, <1>6 DEF Next

\* In a block that revives no name, every BUY the domain pass finds open costs
\* what the gates took for it and can be paid: applyBuyDomain never stops at
\* the balance check.
THEOREM BuysAreCovered == Spec => []BuyCovered
<1> DEFINE Base == TypeOK /\ GatesHeld /\ NoncesStaged /\ DomainInv /\ FreeInv
<1>1. Init => LedgerAgrees /\ PriceInv
  BY DEF Init, LedgerAgrees, PriceInv
<1>2. Base /\ LedgerAgrees /\ PriceInv /\ [Next]_vars => (LedgerAgrees /\ PriceInv)'
  BY NextAgrees, NextPrices
<1>3. Base /\ PriceInv => BuyCovered
  BY OpenBuyIsCovered DEF BuyCovered
<1>4. Spec => []Base
  BY FreeInvHolds
<1> QED
  BY <1>1, <1>2, <1>3, <1>4, PTL DEF Spec

-----------------------------------------------------------------------------
(* Sums over the keys *)

\* Numbers of coins, one for each key.
Coins == [Keys -> Nat]

\* KeyOrder counts every key once.
LEMMA KeyOrderFacts ==
  ASSUME IsFiniteSet(Keys)
  PROVE  /\ Cardinality(Keys) \in Nat
         /\ KeyOrder \in [1 .. Cardinality(Keys) -> Keys]
         /\ \A k \in Keys : \E m \in 1 .. Cardinality(Keys) :
              /\ KeyOrder[m] = k
              /\ \A n \in 1 .. Cardinality(Keys) : KeyOrder[n] = k => n = m
<1> DEFINE N == Cardinality(Keys)
<1>1. N \in Nat /\ Bijection(1 .. N, Keys) # {}
  BY FS_CardinalityType DEF ExistsBijection
<1>2. KeyOrder \in Bijection(1 .. N, Keys)
  BY <1>1 DEF KeyOrder
<1> HIDE DEF N
<1>3. /\ KeyOrder \in [1 .. N -> Keys]
      /\ \A k \in Keys : \E m \in 1 .. N : KeyOrder[m] = k
      /\ \A m, n \in 1 .. N : KeyOrder[m] = KeyOrder[n] => m = n
  BY <1>2 DEF Bijection, Injection, Surjection, IsInjective
<1> QED
  BY <1>1, <1>3 DEF N

\* The loop of Total adds up the coins of the keys.
LEMMA TotalSteps ==
  ASSUME IsFiniteSet(Keys), NEW f \in Coins
  PROVE  /\ TotalLoop(f)[0] = 0
         /\ \A n \in 1 .. Cardinality(Keys) :
              TotalLoop(f)[n] = TotalLoop(f)[n - 1] + f[KeyOrder[n]]
         /\ \A n \in 0 .. Cardinality(Keys) : TotalLoop(f)[n] \in Nat
<1> DEFINE L == Cardinality(Keys)
           next(n, v) == v + f[KeyOrder[n]]
           eq(g) == g = [n \in 0 .. L |-> IF n = 0 THEN 0 ELSE next(n, g[n - 1])]
           step == [p \in (1 .. L) \X Nat |-> next(p[1], p[2])]
           loop == TotalLoop(f)
<1>1. L \in Nat /\ \A n \in 1 .. L, v \in Nat : next(n, v) \in Nat
  <2>1. L \in Nat /\ \A n \in 1 .. L : KeyOrder[n] \in Keys
    BY KeyOrderFacts
  <2> HIDE DEF L
  <2> QED
    BY <2>1 DEF Coins
<1>2. loop = CHOOSE g : eq(g)
  BY DEF TotalLoop
<1> HIDE DEF next, L
<1>3. PICK g \in [0 .. L -> Nat] :
        g[0] = 0 /\ \A n \in 1 .. L : g[n] = step[<<n, g[n - 1]>>]
  <2>1. step \in [(1 .. L) \X Nat -> Nat]
    BY <1>1
  <2> HIDE DEF step
  <2>2. LoopTables(L, Nat, 0, step) # {}
    BY <1>1, <2>1, LoopExists
  <2> QED
    BY <2>2 DEF LoopTables
<1>4. \A n \in 1 .. L : g[n] = next(n, g[n - 1])
  <2>1. TAKE n \in 1 .. L
  <2>2. g[n - 1] \in Nat
    BY <1>1
  <2> QED
    BY <1>3, <2>2
<1>5. eq(g)
  BY <1>1, <1>3, <1>4
<1>6. eq(loop)
  BY <1>2, <1>5
<1> HIDE DEF loop
<1>7. \A n \in 0 .. L : loop[n] = IF n = 0 THEN 0 ELSE next(n, loop[n - 1])
  BY <1>6
<1>8. loop[0] = 0 /\ \A n \in 1 .. L : loop[n] = next(n, loop[n - 1])
  BY <1>1, <1>7
<1>9. \A n \in 0 .. L : loop[n] \in Nat
  <2>1. loop[0] \in Nat
    BY <1>8
  <2>2. \A n \in 1 .. L : loop[n - 1] \in Nat => loop[n] \in Nat
    BY <1>1, <1>8
  <2> QED
    BY <1>1, <2>1, <2>2, LoopType
<1> QED
  BY <1>8, <1>9 DEF next, L, loop

\* A total is a number of coins.
LEMMA TotalType ==
  ASSUME IsFiniteSet(Keys), NEW f \in Coins
  PROVE  Total(f) \in Nat
<1>1. Cardinality(Keys) \in Nat
  BY KeyOrderFacts
<1> QED
  BY <1>1, TotalSteps DEF Total

\* A total changes by what one key gains or loses.
LEMMA TotalChange ==
  ASSUME IsFiniteSet(Keys), NEW f \in Coins, NEW g \in Coins, NEW k \in Keys,
         \A x \in Keys \ {k} : g[x] = f[x]
  PROVE  Total(g) + f[k] = Total(f) + g[k]
<1> DEFINE N == Cardinality(Keys)
           F == TotalLoop(f)
           G == TotalLoop(g)
<1>1. N \in Nat /\ \A n \in 1 .. N : KeyOrder[n] \in Keys
  BY KeyOrderFacts
<1>2. PICK m \in 1 .. N : /\ KeyOrder[m] = k
                          /\ \A n \in 1 .. N : KeyOrder[n] = k => n = m
  BY KeyOrderFacts
<1>3. /\ F[0] = 0 /\ \A n \in 1 .. N : F[n] = F[n - 1] + f[KeyOrder[n]]
      /\ \A n \in 0 .. N : F[n] \in Nat
  BY TotalSteps
<1>4. /\ G[0] = 0 /\ \A n \in 1 .. N : G[n] = G[n - 1] + g[KeyOrder[n]]
      /\ \A n \in 0 .. N : G[n] \in Nat
  BY TotalSteps
<1> DEFINE T == {n \in Nat : n <= N => IF n < m THEN G[n] = F[n]
                                       ELSE G[n] + f[k] = F[n] + g[k]}
<1>5. f[k] \in Nat /\ g[k] \in Nat /\ \A n \in 1 .. N : f[KeyOrder[n]] \in Nat
  BY <1>1 DEF Coins
<1> HIDE DEF N, F, G
<1>6. 0 \in T
  BY <1>3, <1>4
<1>7. ASSUME NEW n \in Nat, n \in T PROVE n + 1 \in T
  <2>1. SUFFICES ASSUME n + 1 <= N
                 PROVE  IF n + 1 < m THEN G[n + 1] = F[n + 1]
                        ELSE G[n + 1] + f[k] = F[n + 1] + g[k]
    OBVIOUS
  <2> DEFINE x == KeyOrder[n + 1]
  <2>2. n + 1 \in 1 .. N /\ (n + 1) - 1 = n /\ n \in 0 .. N
    BY <1>1, <2>1
  <2>3. /\ F[n + 1] = F[n] + f[x] /\ G[n + 1] = G[n] + g[x]
        /\ F[n] \in Nat /\ G[n] \in Nat /\ x \in Keys /\ f[x] \in Nat
    BY <1>1, <1>3, <1>4, <1>5, <2>2
  <2>4. IF n < m THEN G[n] = F[n] ELSE G[n] + f[k] = F[n] + g[k]
    BY <1>7, <2>2
  <2>5. x = k <=> n + 1 = m
    BY <1>2, <2>2
  <2>6. x # k => g[x] = f[x]
    BY <2>3
  <2> HIDE DEF x
  <2>7. CASE n + 1 = m
    BY <1>5, <2>3, <2>4, <2>5, <2>7
  <2>8. CASE n + 1 # m
    BY <1>5, <2>3, <2>4, <2>5, <2>6, <2>8
  <2> QED
    BY <2>7, <2>8
<1> HIDE DEF T
<1>8. Nat \subseteq T
  BY <1>6, <1>7, SetInduction
<1>9. ~(N < m) /\ N <= N
  BY <1>1
<1>10. G[N] + f[k] = F[N] + g[k]
  BY <1>1, <1>8, <1>9 DEF T
<1> QED
  BY <1>10 DEF Total, N, F, G

\* Whoever gives nobody more gives no more in total.
LEMMA TotalMono ==
  ASSUME IsFiniteSet(Keys), NEW f \in Coins, NEW g \in Coins,
         \A x \in Keys : f[x] <= g[x]
  PROVE  Total(f) <= Total(g)
<1> DEFINE N == Cardinality(Keys)
           F == TotalLoop(f)
           G == TotalLoop(g)
           T == {n \in Nat : n <= N => F[n] <= G[n]}
<1>1. N \in Nat /\ \A n \in 1 .. N : KeyOrder[n] \in Keys
  BY KeyOrderFacts
<1>2. /\ F[0] = 0 /\ \A n \in 1 .. N : F[n] = F[n - 1] + f[KeyOrder[n]]
      /\ \A n \in 0 .. N : F[n] \in Nat
  BY TotalSteps
<1>3. /\ G[0] = 0 /\ \A n \in 1 .. N : G[n] = G[n - 1] + g[KeyOrder[n]]
      /\ \A n \in 0 .. N : G[n] \in Nat
  BY TotalSteps
<1>4. \A x \in Keys : f[x] \in Nat /\ g[x] \in Nat
  BY DEF Coins
<1> HIDE DEF N, F, G
<1>5. 0 \in T
  BY <1>2, <1>3
<1>6. ASSUME NEW n \in Nat, n \in T PROVE n + 1 \in T
  <2>1. SUFFICES ASSUME n + 1 <= N PROVE F[n + 1] <= G[n + 1]
    OBVIOUS
  <2> DEFINE x == KeyOrder[n + 1]
  <2>2. n + 1 \in 1 .. N /\ (n + 1) - 1 = n /\ n \in 0 .. N
    BY <1>1, <2>1
  <2>3. /\ F[n + 1] = F[n] + f[x] /\ G[n + 1] = G[n] + g[x]
        /\ F[n] \in Nat /\ G[n] \in Nat /\ x \in Keys
    BY <1>1, <1>2, <1>3, <2>2
  <2>4. F[n] <= G[n]
    BY <1>6, <2>2
  <2>5. f[x] \in Nat /\ g[x] \in Nat /\ f[x] <= g[x]
    BY <1>4, <2>3
  <2> HIDE DEF x
  <2> QED
    BY <2>3, <2>4, <2>5
<1> HIDE DEF T
<1>7. Nat \subseteq T
  BY <1>5, <1>6, SetInduction
<1>8. F[N] <= G[N]
  BY <1>1, <1>7 DEF T
<1> QED
  BY <1>8 DEF Total, N, F, G

\* A credit adds what it credits, a debit that is covered takes what it debits.
LEMMA TotalMoves ==
  ASSUME IsFiniteSet(Keys), NEW f \in Coins, NEW k \in Keys, NEW n \in Nat
  PROVE  /\ Total(Credit(f, k, n)) = Total(f) + n
         /\ CanDebit(f, k, n) => Total(Debit(f, k, n)) = Total(f) - n
<1> DEFINE c == Credit(f, k, n)
           d == Debit(f, k, n)
<1>1. c \in Coins /\ d \in Coins
  BY BalanceType DEF Coins
<1>2. /\ f[k] \in Nat /\ c[k] = f[k] + n /\ \A x \in Keys \ {k} : c[x] = f[x]
      /\ \A x \in Keys \ {k} : d[x] = f[x]
      /\ CanDebit(f, k, n) => d[k] = f[k] - n
  BY DEF Coins, Credit, Debit
<1> HIDE DEF c, d
<1>3. Total(c) + f[k] = Total(f) + c[k] /\ Total(d) + f[k] = Total(f) + d[k]
  BY <1>1, <1>2, TotalChange
<1>4. Total(c) \in Nat /\ Total(d) \in Nat /\ Total(f) \in Nat
  BY <1>1, TotalType
<1> QED
  BY <1>2, <1>3, <1>4 DEF c, d

-----------------------------------------------------------------------------
(* What the passes do to the supply *)

Queued(S) == [k \in Keys |-> GetPendingStake(S.queue, k)]

\* What tx takes from the liquid coins in the ledger pass and gives to the
\* stakes in the stake pass.
Pledge(tx) == IF tx.type = "STAKE" THEN tx.amount ELSE 0

\* The parts of a supply are numbers of coins.
LEMMA SupplyType ==
  ASSUME IsFiniteSet(Keys), NEW S \in States
  PROVE  /\ S.bal \in Coins /\ S.stake \in Coins /\ Queued(S) \in Coins
         /\ Total(S.bal) \in Nat /\ Total(S.stake) \in Nat
         /\ Total(Queued(S)) \in Nat
         /\ Supply(S) = Total(S.bal) + Total(S.stake) + Total(Queued(S))
         /\ Supply(S) \in Nat
<1>1. S.bal \in Coins /\ S.stake \in Coins /\ S.queue \in Queues
  BY DEF States, Coins, Queues
<1>2. Queued(S) \in Coins
  BY <1>1, PendingType DEF Queued, Coins
<1>3. Total(S.bal) \in Nat /\ Total(S.stake) \in Nat /\ Total(Queued(S)) \in Nat
  BY <1>1, <1>2, TotalType
<1>4. Supply(S) = Total(S.bal) + Total(S.stake) + Total(Queued(S))
  BY DEF Supply, Queued
<1> QED
  BY <1>1, <1>2, <1>3, <1>4

\* A covered transaction costs the accounts its fee and what it stakes; what a
\* FUND takes from one account it gives to another.
LEMMA LedgerCoins ==
  ASSUME IsFiniteSet(Keys), NEW S \in States, NEW tx \in Transactions,
         tx.owner # None, CanDebit(S.bal, tx.owner, LedgerCost(tx))
  PROVE  Total(ApplyLedgerMutations(S, tx).bal)
           = Total(S.bal) - tx.fee - Pledge(tx)
<1> DEFINE o == tx.owner
           bal1 == Debit(S.bal, o, tx.fee)
           bal2 == MoveFunds(bal1, tx)
           bal3 == LockStake(bal2, tx)
<1>1. /\ o \in Keys /\ tx.fee \in Nat /\ tx.price \in Nat /\ tx.amount \in Nat
      /\ S.bal \in Coins /\ (tx.recipient # None => tx.recipient \in Keys)
  <2>1. o \in Keys /\ (tx.recipient # None => tx.recipient \in Keys)
    BY DEF Transactions
  <2>2. tx.fee \in Nat /\ tx.price \in Nat /\ tx.amount \in Nat
    BY LimitsAssumption DEF Transactions, U64
  <2> QED
    BY <2>1, <2>2 DEF States, Coins
<1>2. ApplyLedgerMutations(S, tx).bal = bal3
  BY DEF ApplyLedgerMutations, States
<1>3. S.bal[o] >= LedgerCost(tx) /\ LedgerCost(tx) \in Nat /\ S.bal[o] \in Nat
  BY <1>1 DEF CanDebit, LedgerCost, Coins
<1>4. /\ CanDebit(S.bal, o, tx.fee) /\ bal1 \in Coins
      /\ Total(bal1) = Total(S.bal) - tx.fee
      /\ bal1[o] = S.bal[o] - tx.fee
  <2>1. S.bal[o] >= tx.fee
    BY <1>1, <1>3 DEF LedgerCost
  <2>2. CanDebit(S.bal, o, tx.fee)
    BY <2>1 DEF CanDebit
  <2>3. bal1 \in Coins /\ Total(bal1) = Total(S.bal) - tx.fee
    BY <1>1, <2>2, TotalMoves, BalanceType DEF Coins
  <2> QED
    BY <1>1, <2>2, <2>3 DEF Debit, Coins
<1>5. Total(bal1) \in Nat /\ Total(S.bal) \in Nat
  BY <1>1, <1>4, TotalType
<1> HIDE DEF bal1
<1>6. bal2 \in Coins /\ Total(bal2) = Total(bal1)
  <2>1. CASE /\ tx.type = "FUND" /\ tx.recipient # None /\ tx.price > 0
             /\ CanDebit(bal1, tx.owner, tx.price)
    <3> DEFINE d == Debit(bal1, o, tx.price)
    <3>1. d \in Coins /\ Total(d) = Total(bal1) - tx.price
      BY <1>1, <1>4, <2>1, TotalMoves, BalanceType DEF Coins
    <3>2. bal2 = Credit(d, tx.recipient, tx.price)
      BY <2>1 DEF MoveFunds
    <3> HIDE DEF d
    <3> HIDE DEF bal2
    <3>3. tx.recipient \in Keys
      BY <1>1, <2>1
    <3>4. bal2 \in Coins
      BY <1>1, <3>1, <3>2, <3>3, BalanceType DEF Coins
    <3>5. Total(bal2) = Total(d) + tx.price
      BY <1>1, <3>1, <3>2, <3>3, TotalMoves
    <3> QED
      BY <1>1, <1>5, <3>1, <3>4, <3>5
  <2>2. CASE ~ /\ tx.type = "FUND" /\ tx.recipient # None /\ tx.price > 0
               /\ CanDebit(bal1, tx.owner, tx.price)
    BY <1>4, <2>2 DEF MoveFunds
  <2> QED
    BY <2>1, <2>2
<1>7. Total(bal3) = Total(bal1) - Pledge(tx)
  <2>1. CASE tx.type = "STAKE"
    <3>1. bal2 = bal1 /\ LedgerCost(tx) = tx.fee + tx.amount
      BY <2>1 DEF MoveFunds, LedgerCost
    <3>2. CanDebit(bal1, o, tx.amount)
      BY <1>1, <1>3, <1>4, <3>1 DEF CanDebit
    <3>3. bal3 = Debit(bal1, o, tx.amount)
      BY <2>1, <3>1 DEF LockStake
    <3> HIDE DEF bal3
    <3>4. Total(bal3) = Total(bal1) - tx.amount
      BY <1>1, <1>4, <3>2, <3>3, TotalMoves
    <3> QED
      BY <2>1, <3>4 DEF Pledge
  <2>2. CASE tx.type # "STAKE"
    BY <1>5, <1>6, <2>2 DEF LockStake, Pledge
  <2> QED
    BY <2>1, <2>2
<1> HIDE DEF bal3
<1> QED
  BY <1>1, <1>2, <1>4, <1>5, <1>7 DEF Pledge

\* What is for sale has an owner to be paid.
ListedOwned(S) == \A d \in Domains : IsForSale(S, d) => S.dom[d].owner \in Keys

\* The domain pass moves coins from buyer to seller and nowhere else.
LEMMA DomainCoins ==
  ASSUME IsFiniteSet(Keys), NEW V, NEW sh \in Shadows, NEW tx \in Transactions,
         NEW c, GateTx(V, sh, tx, c), NEW L \in States, NEW S \in States,
         NEW slot \in Nat, NEW index \in Nat,
         tx.type = "REVEAL" => tx.domain \in Domains, ListedOwned(S)
  PROVE  LET T == ApplyDomainMutations(L, S, tx, slot, index)
         IN  Total(T.bal) = Total(S.bal) /\ ListedOwned(T)
<1> DEFINE T == ApplyDomainMutations(L, S, tx, slot, index)
           d == tx.domain
<1>1. /\ tx.type # "REGISTER" /\ (tx.type \in MarketTypes => d \in Domains)
      /\ tx.type \in MarketTypes \cup {"REVEAL"} => tx.owner \in Keys
  BY GateIsSigned DEF MarketTypes
<1>2. tx.type \in {"TRANSFER", "REVEAL"} => tx.recipient \in Keys
  <2>1. tx.recipient \in Keys \cup {None}
    BY DEF Transactions
  <2>2. tx.type = "TRANSFER" => tx.recipient # None
    BY DEF GateTx, StructureOK, StructuralGate
  <2>3. tx.type = "REVEAL" => tx.recipient # None
    BY <1>1, NamesAssumption DEF GateTx, RevealGate
  <2> QED
    BY <2>1, <2>2, <2>3
<1>3. \A k \in Keys : \A p : Deal(T, S, d, k, p) => ListedOwned(T)
  BY DEF Deal, ListedOwned, IsForSale
<1>4. CASE tx.type = "LIST"
  <2>1. T = S \/ (Deal(T, S, d, tx.owner, tx.price) /\ T.bal = S.bal)
    BY <1>1, <1>4, OwnerDeals DEF MarketTypes
  <2> QED
    BY <1>1, <1>3, <1>4, <2>1 DEF MarketTypes
<1>5. CASE tx.type = "DELIST"
  <2>1. T = S \/ (Deal(T, S, d, tx.owner, 0) /\ T.bal = S.bal)
    BY <1>1, <1>5, OwnerDeals DEF MarketTypes
  <2> QED
    BY <1>1, <1>3, <1>5, <2>1 DEF MarketTypes
<1>6. CASE tx.type = "TRANSFER"
  <2>1. T = S \/ (Deal(T, S, d, tx.recipient, 0) /\ T.bal = S.bal)
    BY <1>1, <1>6, OwnerDeals DEF MarketTypes
  <2> QED
    BY <1>2, <1>3, <1>6, <2>1
<1>7. CASE tx.type = "BUY"
  <2> DEFINE p == S.dom[d].price
             k == S.dom[d].owner
             open == BuyIsOpen(S, tx, slot) /\ CanDebit(S.bal, tx.owner, p)
             b == Debit(S.bal, tx.owner, p)
  <2>1. d \in Domains /\ tx.owner \in Keys
    BY <1>1, <1>7 DEF MarketTypes
  <2>2. p \in Nat /\ S.bal \in Coins
    BY <2>1 DEF States, Entries, Coins
  <2>3. IF open THEN Deal(T, S, d, tx.owner, 0) /\ T.bal = Credit(b, k, p) ELSE T = S
    BY <1>7, <2>1, BuyDeals
  <2>4. CASE open
    <3>1. k \in Keys
      BY <2>1, <2>4 DEF BuyIsOpen, ListedOwned
    <3> HIDE DEF p, k, T
    <3>2. b \in Coins /\ Total(b) = Total(S.bal) - p
      BY <2>1, <2>2, <2>4, TotalMoves, BalanceType DEF Coins
    <3> HIDE DEF b
    <3>3. Total(T.bal) = Total(b) + p
      BY <2>2, <2>3, <2>4, <3>1, <3>2, TotalMoves
    <3>4. Total(S.bal) \in Nat
      BY <2>2, TotalType
    <3>5. Total(T.bal) = Total(S.bal)
      BY <2>2, <3>2, <3>3, <3>4
    <3>6. ListedOwned(T)
      BY <1>3, <2>1, <2>3, <2>4
    <3> QED
      BY <3>5, <3>6 DEF T
  <2>5. CASE ~open
    BY <2>3, <2>5
  <2> QED
    BY <2>4, <2>5
<1>8. CASE tx.type = "REVEAL"
  <2>1. T.bal = S.bal /\ (T = S \/ Deal(T, S, d, tx.recipient, S.dom[d].price))
    BY <1>8, RevealDeals
  <2> QED
    BY <1>2, <1>3, <1>8, <2>1
<1>9. CASE tx.type \notin MarketTypes \cup {"REVEAL", "REGISTER"}
  <2>1. SameMeta(T, S) /\ T.bal = S.bal
    BY <1>9, OthersDealNot
  <2> HIDE DEF T
  <2>2. ListedOwned(T)
    BY <2>1 DEF SameMeta, ListedOwned, IsForSale
  <2> QED
    BY <2>1, <2>2 DEF T
<1> QED
  BY <1>1, <1>4, <1>5, <1>6, <1>7, <1>8, <1>9 DEF MarketTypes

\* Key by key, the larger of two numbers of coins.
Larger(f, g) == [k \in Keys |-> IF f[k] >= g[k] THEN f[k] ELSE g[k]]

\* The supply of S, with every stake as large as its shadow.  Once a key was
\* slashed its shadow stake may exceed its stake (the gate's total may have
\* wrapped around), and a later UNSTAKE is judged by the shadow.
Held(S, sh) ==
  Total(S.bal) + Total(Larger(S.stake, sh.stake)) + Total(Queued(S))

\* The parts of what is held are numbers of coins, and it is no less than the
\* supply.
LEMMA HeldType ==
  ASSUME IsFiniteSet(Keys), NEW S \in States, NEW sh, sh.stake \in Coins
  PROVE  /\ Larger(S.stake, sh.stake) \in Coins
         /\ Total(Larger(S.stake, sh.stake)) \in Nat
         /\ Held(S, sh) \in Nat
         /\ Supply(S) <= Held(S, sh)
         /\ sh.stake = S.stake => Held(S, sh) = Supply(S)
<1> DEFINE f == Larger(S.stake, sh.stake)
<1>1. /\ S.stake \in Coins /\ Total(S.bal) \in Nat /\ Total(S.stake) \in Nat
      /\ Total(Queued(S)) \in Nat
      /\ Supply(S) = Total(S.bal) + Total(S.stake) + Total(Queued(S))
  BY SupplyType
<1>2. \A k \in Keys : S.stake[k] \in Nat /\ sh.stake[k] \in Nat
  BY <1>1 DEF Coins
<1>3. f \in Coins /\ \A k \in Keys : S.stake[k] <= f[k]
  BY <1>2 DEF Larger, Coins
<1>4. sh.stake = S.stake => f = S.stake
  BY <1>1 DEF Larger, Coins
<1> HIDE DEF f
<1>5. Total(f) \in Nat /\ Total(S.stake) <= Total(f)
  BY <1>1, <1>3, TotalType, TotalMono
<1>6. Held(S, sh) = Total(S.bal) + Total(f) + Total(Queued(S))
  BY DEF Held, f
<1> QED
  BY <1>1, <1>3, <1>4, <1>5, <1>6 DEF f

\* A slash takes coins and gives none.
LEMMA SlashTakes ==
  ASSUME NEW S \in States, NEW x \in Keys
  PROVE  /\ \A k \in Keys : Slash(S, x).stake[k] <= S.stake[k]
         /\ \A k \in Keys : GetPendingStake(Slash(S, x).queue, k)
                               <= GetPendingStake(S.queue, k)
<1> DEFINE staked == S.stake[x]
           amount == ComputeSlashAmount(
                       staked + GetPendingStake(S.queue, x), SlashingPercent)
           A == [S EXCEPT !.stake = ReduceStake(@, x, amount)]
           B == [S EXCEPT !.stake = ReduceStake(@, x, staked),
                          !.queue = BurnPending(@, x, amount - staked)]
<1>1. S.stake \in [Keys -> Nat] /\ S.queue \in Queues /\ staked \in Nat
  BY DEF States, Queues
<1>2. amount \in Nat
  BY <1>1, PendingType, SlashAmountType
<1>3. Slash(S, x) = IF amount <= staked THEN A ELSE B
  BY DEF Slash
<1>4. /\ A.stake = ReduceStake(S.stake, x, amount) /\ A.queue = S.queue
      /\ B.stake = ReduceStake(S.stake, x, staked)
      /\ B.queue = BurnPending(S.queue, x, amount - staked)
  BY DEF States
<1>5. \A n \in Nat : \A k \in Keys : ReduceStake(S.stake, x, n)[k] <= S.stake[k]
  BY <1>1 DEF ReduceStake
<1>6. ASSUME ~(amount <= staked), NEW k \in Keys
      PROVE  GetPendingStake(BurnPending(S.queue, x, amount - staked), k)
               <= GetPendingStake(S.queue, k)
  <2>1. amount - staked \in Nat
    BY <1>1, <1>2, <1>6
  <2> HIDE DEF amount, staked
  <2> QED
    BY <1>1, <2>1, BurnLeaves
<1>7. \A k \in Keys : GetPendingStake(S.queue, k) <= GetPendingStake(S.queue, k)
  <2>1. TAKE k \in Keys
  <2>2. GetPendingStake(S.queue, k) \in Nat
    BY <1>1, PendingType
  <2> QED
    BY <2>2
<1> HIDE DEF A, B, amount, staked
<1>8. CASE amount <= staked
  BY <1>2, <1>3, <1>4, <1>5, <1>7, <1>8
<1>9. CASE ~(amount <= staked)
  BY <1>1, <1>3, <1>4, <1>5, <1>6, <1>9
<1> QED
  BY <1>8, <1>9

\* The stake pass adds what was pledged and takes what is slashed; an UNSTAKE
\* moves coins from the stake to the queue.
LEMMA StakeCoins ==
  ASSUME IsFiniteSet(Keys), NEW V \in States, NEW sh \in Shadows,
         NEW tx \in Transactions, NEW c, GateTx(V, sh, tx, c),
         NEW S \in States, NEW slot \in Nat
  PROVE  LET T == ApplyStakeMutations(S, tx, slot)
             sh2 == ShadowAfter(V, sh, tx)
         IN  /\ Held(T, sh2) <= Held(S, sh) + Pledge(tx)
             /\ tx.type # "EQUIVOCATION_PROOF" /\ sh.stake = S.stake =>
                  /\ sh2.stake = T.stake
                  /\ Held(T, sh2) = Held(S, sh) + Pledge(tx)
<1> DEFINE T == ApplyStakeMutations(S, tx, slot)
           sh2 == ShadowAfter(V, sh, tx)
           o == tx.owner
           a == tx.amount
           m == Larger(S.stake, sh.stake)
           m2 == Larger(T.stake, sh2.stake)
<1>0. /\ S.stake \in Coins /\ sh.stake \in Coins /\ a \in Nat
      /\ o \in Keys \cup {None} /\ sh2 \in Shadows /\ T \in States
  <2>1. S.stake \in Coins /\ sh.stake \in Coins
    BY DEF States, Shadows, Coins
  <2>2. a \in Nat /\ o \in Keys \cup {None}
    BY LimitsAssumption DEF Transactions, U64
  <2> QED
    BY <2>1, <2>2, ShadowType, StakeType
<1>1. T.bal = S.bal /\ sh2.stake \in Coins
  BY <1>0, StakePassFields DEF Shadows, Coins
<1>2. /\ m \in Coins /\ m2 \in Coins /\ Queued(S) \in Coins /\ Queued(T) \in Coins
      /\ Total(S.bal) \in Nat /\ Total(m) \in Nat /\ Total(m2) \in Nat
      /\ Total(Queued(S)) \in Nat /\ Total(Queued(T)) \in Nat
  BY <1>0, <1>1, SupplyType, HeldType
<1>3. /\ Held(S, sh) = Total(S.bal) + Total(m) + Total(Queued(S))
      /\ Held(T, sh2) = Total(S.bal) + Total(m2) + Total(Queued(T))
  BY <1>1 DEF Held
<1>4. /\ \A k \in Keys : m[k] = IF S.stake[k] >= sh.stake[k] THEN S.stake[k]
                                                           ELSE sh.stake[k]
      /\ \A k \in Keys : m2[k] = IF T.stake[k] >= sh2.stake[k] THEN T.stake[k]
                                                             ELSE sh2.stake[k]
  BY DEF Larger
<1>5. \A k \in Keys : /\ S.stake[k] \in Nat /\ sh.stake[k] \in Nat
                       /\ T.stake[k] \in Nat /\ sh2.stake[k] \in Nat
  BY <1>0, <1>1 DEF Coins, States
<1>6. CASE o = None
  <2>1. T = S /\ sh2.stake = sh.stake /\ Pledge(tx) = 0
    BY <1>6, GateIsSigned DEF ApplyStakeMutations, ShadowAfter, Shadows, Pledge
  <2> HIDE DEF T, sh2
  <2> QED
    BY <1>2, <1>3, <2>1 DEF T, sh2
<1>7. CASE o # None
  <2>1. sh2.stake = StakeAfter(V, sh, tx) /\ o \in Keys
    BY <1>0, <1>7 DEF ShadowAfter
  <2>2. UnstakeGate(sh, tx) /\ EquivocationGate(V, sh, tx)
    BY <1>7 DEF GateTx
  <2>3. CASE tx.type = "STAKE"
    <3>1. /\ T.stake = [S.stake EXCEPT ![o] = @ + a] /\ T.queue = S.queue
          /\ sh2.stake = [sh.stake EXCEPT ![o] = @ + a]
      BY <1>7, <2>1, <2>3 DEF ApplyStakeMutations, AddStake, States, StakeAfter
    <3>2. Queued(T) = Queued(S) /\ Pledge(tx) = a
      BY <2>3, <3>1 DEF Queued, Pledge
    <3> HIDE DEF T, sh2, m, m2, o, a
    <3>3. m2[o] = m[o] + a /\ \A k \in Keys \ {o} : m2[k] = m[k]
      BY <1>0, <1>4, <1>5, <2>1, <3>1 DEF Coins
    <3>4. Total(m2) + m[o] = Total(m) + m2[o]
      BY <1>2, <2>1, <3>3, TotalChange
    <3>5. m[o] \in Nat
      BY <1>2, <2>1 DEF Coins
    <3>6. Held(T, sh2) = Held(S, sh) + Pledge(tx)
      BY <1>0, <1>2, <1>3, <3>2, <3>3, <3>4, <3>5
    <3>7. Held(T, sh2) \in Nat
      BY <1>2, <1>3
    <3> QED
      BY <3>1, <3>6, <3>7 DEF T, sh2
  <2>4. CASE tx.type = "UNSTAKE"
    <3> DEFINE e == [key |-> o, amount |-> a, mature |-> slot + UnstakeDelaySlots]
               p == Queued(S)
               q == Queued(T)
    <3>1. /\ T.stake = ReduceStake(S.stake, o, a) /\ T.queue = Append(S.queue, e)
          /\ sh2.stake = [sh.stake EXCEPT ![o] = @ - a] /\ sh.stake[o] - a >= 0
      BY <1>7, <2>1, <2>2, <2>4
      DEF ApplyStakeMutations, ApplyUnstake, Enqueue, States, StakeAfter, UnstakeGate
    <3>2. Pledge(tx) = 0
      BY <2>4 DEF Pledge
    <3>3. e \in PendingUnstakes /\ S.queue \in Queues
      <4>1. o \in Keys /\ a \in Nat /\ slot + UnstakeDelaySlots \in Nat
        BY <1>0, <2>1, LimitsAssumption
      <4> HIDE DEF o, a
      <4>2. e \in PendingUnstakes
        BY <4>1 DEF PendingUnstakes
      <4> QED
        BY <1>0, <4>2 DEF States, Queues
    <3>4. /\ e.key = o /\ e.amount = a
          /\ \A k \in Keys : p[k] = GetPendingStake(S.queue, k)
          /\ \A k \in Keys : q[k] = GetPendingStake(T.queue, k)
      BY DEF Queued
    <3> HIDE DEF T, sh2, m, m2, o, a, e, p, q
    <3>5. \A k \in Keys : q[k] = p[k] + (IF o = k THEN a ELSE 0)
      <4>1. TAKE k \in Keys
      <4>2. GetPendingStake(Append(S.queue, e), k)
              = GetPendingStake(S.queue, k) + (IF e.key = k THEN e.amount ELSE 0)
        BY <3>3, PendingAppend
      <4> QED
        BY <3>1, <3>4, <4>2
    <3>6. p \in Coins /\ q \in Coins /\ Total(p) \in Nat /\ Total(q) \in Nat
      BY <1>2 DEF p, q
    <3>7. q[o] = p[o] + a /\ \A k \in Keys \ {o} : q[k] = p[k]
      <4>1. \A k \in Keys : p[k] \in Nat
        BY <3>6 DEF Coins
      <4> QED
        BY <2>1, <3>5, <4>1
    <3>8. /\ T.stake[o] = IF a >= S.stake[o] THEN 0 ELSE S.stake[o] - a
          /\ sh2.stake[o] = sh.stake[o] - a
          /\ \A k \in Keys \ {o} : T.stake[k] = S.stake[k] /\ sh2.stake[k] = sh.stake[k]
      BY <1>0, <2>1, <3>1 DEF ReduceStake, Coins
    <3>9. m2[o] = m[o] - a /\ \A k \in Keys \ {o} : m2[k] = m[k]
      <4>1. \A k \in Keys \ {o} : m2[k] = m[k]
        BY <1>4, <3>8
      <4>2. /\ S.stake[o] \in Nat /\ sh.stake[o] \in Nat
            /\ m[o] = IF S.stake[o] >= sh.stake[o] THEN S.stake[o] ELSE sh.stake[o]
            /\ m2[o] = IF T.stake[o] >= sh2.stake[o] THEN T.stake[o] ELSE sh2.stake[o]
        BY <1>4, <1>5, <2>1
      <4>3. m2[o] = m[o] - a
        BY <1>0, <3>1, <3>8, <4>2
      <4> QED
        BY <4>1, <4>3
    <3>10. /\ Total(m2) + m[o] = Total(m) + m2[o]
           /\ Total(q) + p[o] = Total(p) + q[o]
      BY <1>2, <2>1, <3>6, <3>7, <3>9, TotalChange
    <3>11. m[o] \in Nat /\ p[o] \in Nat
      BY <1>2, <2>1, <3>6 DEF Coins
    <3>12. Held(T, sh2) = Held(S, sh)
      <4>1. Total(m2) = Total(m) - a /\ Total(q) = Total(p) + a
        BY <1>0, <1>2, <3>6, <3>7, <3>9, <3>10, <3>11
      <4> QED
        BY <1>0, <1>2, <1>3, <3>6, <4>1 DEF p, q
    <3>13. Held(T, sh2) \in Nat
      BY <1>2, <1>3
    <3>14. sh.stake = S.stake => sh2.stake = T.stake
      <4>1. \A k \in Keys : sh.stake = S.stake => sh2.stake[k] = T.stake[k]
        BY <1>0, <1>5, <2>1, <3>1, <3>8
      <4>2. T.stake \in Coins
        BY <1>0 DEF States, Coins
      <4> QED
        BY <1>1, <4>1, <4>2 DEF Coins
    <3> QED
      BY <3>2, <3>12, <3>13, <3>14 DEF T, sh2
  <2>5. CASE tx.type = "EQUIVOCATION_PROOF"
    <3> DEFINE x == OffenceOf(tx)[2]
               w == SlashAmount(V, sh, x)
               p == Queued(S)
               q == Queued(T)
    <3>1. x \in Keys
      BY <2>2, <2>5, OffenceType DEF EquivocationGate
    <3>2. w \in Nat
      BY <3>1, ShadowSlashType
    <3>3. sh2.stake = [sh.stake EXCEPT ![x] = IF w <= @ THEN @ - w ELSE 0]
      BY <2>1, <2>5 DEF StakeAfter
    <3>4. T = S \/ T = [Slash(S, x) EXCEPT !.slashed = @ \cup {OffenceOf(tx)}]
      BY <1>7, <2>5 DEF ApplyStakeMutations, ApplyEquivocation
    <3>5. \/ T.stake = S.stake /\ T.queue = S.queue
          \/ T.stake = Slash(S, x).stake /\ T.queue = Slash(S, x).queue
      <4> DEFINE A == Slash(S, x)
                 B == [A EXCEPT !.slashed = @ \cup {OffenceOf(tx)}]
      <4>1. A \in States
        BY <3>1, SlashType
      <4> HIDE DEF A
      <4>2. B.stake = A.stake /\ B.queue = A.queue
        BY <4>1 DEF States
      <4>3. T = S \/ T = B
        BY <3>4 DEF A
      <4> HIDE DEF T, B
      <4> QED
        BY <4>2, <4>3 DEF A
    <3>6. /\ \A k \in Keys : p[k] = GetPendingStake(S.queue, k)
          /\ \A k \in Keys : q[k] = GetPendingStake(T.queue, k)
      BY DEF Queued
    <3> HIDE DEF T, sh2, m, m2, x, w, p, q
    <3>7. \A k \in Keys : p[k] \in Nat
      BY <1>2 DEF Coins, p
    <3>8. \A k \in Keys : T.stake[k] <= S.stake[k] /\ q[k] <= p[k]
      <4>1. CASE T.stake = S.stake /\ T.queue = S.queue
        <5>1. TAKE k \in Keys
        <5>2. S.stake[k] \in Nat /\ p[k] \in Nat /\ T.stake[k] = S.stake[k] /\ q[k] = p[k]
          BY <1>5, <3>6, <3>7, <4>1
        <5> QED
          BY <5>2
      <4>2. CASE T.stake = Slash(S, x).stake /\ T.queue = Slash(S, x).queue
        BY <3>1, <3>6, <4>2, SlashTakes
      <4> QED
        BY <3>5, <4>1, <4>2
    <3>9. \A k \in Keys : sh2.stake[k] <= sh.stake[k]
      <4>1. TAKE k \in Keys
      <4>2. sh.stake[k] \in Nat
        BY <1>5
      <4>3. sh2.stake[k] = IF k = x THEN IF w <= sh.stake[k] THEN sh.stake[k] - w ELSE 0
                                    ELSE sh.stake[k]
        BY <1>0, <3>1, <3>3 DEF Coins
      <4> QED
        BY <3>2, <4>2, <4>3
    <3>10. \A k \in Keys : m2[k] <= m[k]
      <4>1. TAKE k \in Keys
      <4>2. /\ S.stake[k] \in Nat /\ sh.stake[k] \in Nat
            /\ T.stake[k] \in Nat /\ sh2.stake[k] \in Nat
            /\ T.stake[k] <= S.stake[k] /\ sh2.stake[k] <= sh.stake[k]
            /\ m[k] = IF S.stake[k] >= sh.stake[k] THEN S.stake[k] ELSE sh.stake[k]
            /\ m2[k] = IF T.stake[k] >= sh2.stake[k] THEN T.stake[k] ELSE sh2.stake[k]
        BY <1>4, <1>5, <3>8, <3>9
      <4> QED
        BY <4>2
    <3>11. Total(m2) <= Total(m) /\ Total(q) <= Total(p)
      BY <1>2, <3>8, <3>10, TotalMono DEF p, q
    <3>12. Pledge(tx) = 0
      BY <2>5 DEF Pledge
    <3>13. Held(T, sh2) <= Held(S, sh) + Pledge(tx)
      BY <1>2, <1>3, <3>11, <3>12 DEF p, q
    <3> QED
      BY <2>5, <3>13 DEF T, sh2
  <2>6. CASE tx.type \notin PoSTypes
    <3>1. T = S /\ sh2.stake = sh.stake /\ Pledge(tx) = 0
      BY <1>7, <2>1, <2>6 DEF ApplyStakeMutations, StakeAfter, PoSTypes, Pledge
    <3> HIDE DEF T, sh2
    <3> QED
      BY <1>2, <1>3, <3>1 DEF T, sh2
  <2> QED
    BY <2>3, <2>4, <2>5, <2>6 DEF PoSTypes
<1> QED
  BY <1>6, <1>7

-----------------------------------------------------------------------------
(* No coins are created *)

\* What the first n transactions of a block pledge.
PledgedLoop(txs) ==
  LET sum[n \in 0 .. Len(txs)] ==
        IF n = 0 THEN 0 ELSE sum[n - 1] + Pledge(txs[n])
  IN  sum

\* The loop adds up the pledges.
LEMMA PledgedSteps ==
  ASSUME NEW txs \in Seq(Transactions)
  PROVE  /\ PledgedLoop(txs)[0] = 0
         /\ \A n \in 1 .. Len(txs) :
              PledgedLoop(txs)[n] = PledgedLoop(txs)[n - 1] + Pledge(txs[n])
         /\ \A n \in 0 .. Len(txs) : PledgedLoop(txs)[n] \in Nat
<1> DEFINE L == Len(txs)
           next(n, v) == v + Pledge(txs[n])
           eq(f) == f = [n \in 0 .. L |-> IF n = 0 THEN 0 ELSE next(n, f[n - 1])]
           step == [p \in (1 .. L) \X Nat |-> next(p[1], p[2])]
           loop == PledgedLoop(txs)
<1>1. L \in Nat /\ \A n \in 1 .. L, v \in Nat : next(n, v) \in Nat
  <2>1. \A n \in 1 .. L : txs[n] \in Transactions
    OBVIOUS
  <2>2. \A tx \in Transactions : Pledge(tx) \in Nat
    BY LimitsAssumption DEF Transactions, U64, Pledge
  <2> QED
    BY <2>1, <2>2
<1>2. loop = CHOOSE f : eq(f)
  BY DEF PledgedLoop
<1> HIDE DEF next, L
<1>3. PICK f \in [0 .. L -> Nat] :
        f[0] = 0 /\ \A n \in 1 .. L : f[n] = step[<<n, f[n - 1]>>]
  <2>1. step \in [(1 .. L) \X Nat -> Nat]
    BY <1>1
  <2> HIDE DEF step
  <2>2. LoopTables(L, Nat, 0, step) # {}
    BY <1>1, <2>1, LoopExists
  <2> QED
    BY <2>2 DEF LoopTables
<1>4. \A n \in 1 .. L : f[n] = next(n, f[n - 1])
  <2>1. TAKE n \in 1 .. L
  <2>2. f[n - 1] \in Nat
    BY <1>1
  <2> QED
    BY <1>3, <2>2
<1>5. eq(f)
  BY <1>1, <1>3, <1>4
<1>6. eq(loop)
  BY <1>2, <1>5
<1> HIDE DEF loop
<1>7. \A n \in 0 .. L : loop[n] = IF n = 0 THEN 0 ELSE next(n, loop[n - 1])
  BY <1>6
<1>8. loop[0] = 0 /\ \A n \in 1 .. L : loop[n] = next(n, loop[n - 1])
  BY <1>1, <1>7
<1>9. \A n \in 0 .. L : loop[n] \in Nat
  <2>1. loop[0] \in Nat
    BY <1>8
  <2>2. \A n \in 1 .. L : loop[n - 1] \in Nat => loop[n] \in Nat
    BY <1>1, <1>8
  <2> QED
    BY <1>1, <2>1, <2>2, LoopType
<1> QED
  BY <1>8, <1>9 DEF next, L, loop

\* Auto-revocations carry no fee, as GenerateAutoRevocations writes them
\* (node_leader.go:287-297).  The gates skip the fee of a transaction without
\* an owner and ValidateBlock credits the leader with every fee
\* (block.go:362-367), so this is a hypothesis of the theorem below.
RevocationsAreFree == \A tx \in Submitted : tx.owner = None => tx.fee = 0

\* What is left of the supply when the block starts.
Remaining == Supply([live EXCEPT !.queue = SweepMature(@, blk.slot)])

\* Between the passes, coins are in the clone, among the fees to be credited or
\* among the pledges to be staked.
CoinsStaged ==
  LET pledged == PledgedLoop(blk.txs)
      all     == pledged[Len(blk.txs)]
  IN  /\ pc = "idle" => fees = 0
      /\ pc = "gates" => fees = 0 /\ Supply(staged) = Remaining
      /\ pc = "ledger" => Supply(staged) + fees + pledged[i - 1] = Remaining
      /\ pc = "domain" => Supply(staged) + all = Remaining
      /\ pc = "stake" =>
           /\ Held(staged, shadows[i]) + all - pledged[i - 1] <= Remaining
           /\ Proofs(blk) = {} =>
                /\ shadows[i].stake = staged.stake
                /\ Held(staged, shadows[i]) + all - pledged[i - 1] = Remaining

\* A name for sale has an owner, to whom a BUY pays its price.
ListedInv ==
  ListedOwned(live) /\ (pc \in {"domain", "stake"} => ListedOwned(staged))

\* The supply is made of balances, stakes and the queue.
LEMMA SupplyReads ==
  ASSUME NEW S, NEW T, T.bal = S.bal, T.stake = S.stake, T.queue = S.queue
  PROVE  Supply(T) = Supply(S)
BY DEF Supply

\* Every step keeps the list prices payable.
LEMMA NextListed ==
  ASSUME IsFiniteSet(Keys), TypeOK, GatesHeld, DomainInv, ListedInv, [Next]_vars
  PROVE  ListedInv'
<1>0. ListedOwned(live) /\ live \in States /\ staged \in States
  BY DEF TypeOK, ListedInv
<1>1. CASE \/ BlockArrives \/ GatePass \/ GateReject \/ GatesDone \/ LedgerStep
           \/ HashMismatch
  BY <1>0, <1>1
  DEF BlockArrives, ReceiveBlock, GatePass, GateReject, GatesDone, LedgerStep,
      HashMismatch, Idle, ListedInv
<1>2. CASE LedgerDone
  <2>1. live' = live
    BY <1>2 DEF LedgerDone
  <2>2. staged'.dom = live.dom
    BY <1>2, DomainPassStarts
  <2> QED
    BY <1>0, <2>1, <2>2 DEF ListedInv, ListedOwned, IsForSale
<1>3. CASE DomainStep
  <2>1. /\ live' = live /\ pc = "domain" /\ ~AtEnd
        /\ staged' = ApplyDomainMutations(live, staged, Tx, blk.slot, blk.index)
    BY <1>3 DEF DomainStep
  <2>2. /\ GateTx(View, shadows[i], Tx, GateContext) /\ shadows[i] \in Shadows
        /\ Tx \in Transactions
    BY <2>1, OwnerSigned
  <2>3. blk.slot \in Nat /\ blk.index \in Nat
    BY <2>1, CurrentTx
  <2>4. Tx.type = "REVEAL" => Tx.domain \in Domains
    BY <1>3, DomainStepKeeps, RevealFindsCommit
  <2>5. ListedOwned(staged)
    BY <2>1 DEF ListedInv
  <2>6. ListedOwned(staged')
    BY <1>0, <2>1, <2>2, <2>3, <2>4, <2>5, DomainCoins
  <2> QED
    BY <1>0, <2>1, <2>6 DEF ListedInv, ListedOwned, IsForSale
<1>4. CASE DomainDone \/ StakeStep \/ UNCHANGED vars
  <2>1. live' = live /\ (pc' \in {"domain", "stake"} => pc \in {"domain", "stake"})
    BY <1>4 DEF DomainDone, StakeStep, vars
  <2>2. staged'.dom = staged.dom
    BY <1>0, <1>4, CurrentTx, StakePassFields DEF DomainDone, StakeStep, vars
  <2> QED
    BY <1>0, <2>1, <2>2 DEF ListedInv, ListedOwned, IsForSale
<1>5. CASE AcceptBlock
  <2>1. live'.dom = staged.dom /\ pc = "stake" /\ pc' = "idle"
    BY <1>5, AcceptFields
  <2> QED
    BY <2>1 DEF ListedInv, ListedOwned, IsForSale
<1> QED
  BY <1>1, <1>2, <1>3, <1>4, <1>5 DEF Next

\* Every step keeps the coins of the block accounted for.
LEMMA NextCoins ==
  ASSUME IsFiniteSet(Keys), RevocationsAreFree, TypeOK, GatesHeld, LedgerAgrees,
         StakeAgrees, DomainInv, ListedInv, CoinsStaged, [Next]_vars
  PROVE  CoinsStaged'
<1> DEFINE P == PledgedLoop(blk.txs)
           n == Len(blk.txs)
<1>0. /\ live \in States /\ staged \in States /\ staged' \in States /\ fees \in Nat
      /\ fees' \in Nat
  BY NextTyped DEF TypeOK
<1>1. ASSUME pc # "idle"
      PROVE  /\ n \in Nat /\ blk.txs \in Seq(Transactions)
             /\ P[0] = 0 /\ \A m \in 1 .. n : P[m] = P[m - 1] + Pledge(blk.txs[m])
             /\ \A m \in 0 .. n : P[m] \in Nat
  BY <1>1, BlockFacts, BlockTxs, PledgedSteps DEF TypeOK
<1>2. Supply(staged) \in Nat /\ Supply(staged') \in Nat
  BY <1>0, SupplyType
<1>3. ASSUME UNCHANGED <<live, blk>>
      PROVE  Remaining' = Remaining
  BY <1>3 DEF Remaining
<1>4. CASE BlockArrives
  <2>1. PICK b \in Arrivals : ReceiveBlock(b)
    BY <1>4 DEF BlockArrives
  <2>2. /\ staged' = [PurgeExpired(live, b.index) EXCEPT
                        !.queue = SweepMature(@, b.slot)]
        /\ pc = "idle" /\ pc' = "gates" /\ live' = live /\ blk' = b /\ fees' = fees
    BY <1>4, <2>1 DEF BlockArrives, ReceiveBlock
  <2> DEFINE S == [live EXCEPT !.queue = SweepMature(@, b.slot)]
  <2>3. staged'.bal = S.bal /\ staged'.stake = S.stake /\ staged'.queue = S.queue
    BY <1>0, <2>2 DEF PurgeExpired, States
  <2>4. Supply(staged') = Supply(S)
    BY <2>3, SupplyReads
  <2>5. Remaining' = Supply(S)
    BY <2>2 DEF Remaining
  <2>6. fees' = 0
    BY <2>2 DEF CoinsStaged
  <2> QED
    BY <2>2, <2>4, <2>5, <2>6 DEF CoinsStaged
<1>5. CASE GatePass
  <2>1. pc = "gates" /\ UNCHANGED <<pc, live, blk, staged, fees>>
    BY <1>5 DEF GatePass
  <2>2. fees = 0 /\ Supply(staged) = Remaining
    BY <2>1 DEF CoinsStaged
  <2> QED
    BY <1>3, <2>1, <2>2 DEF CoinsStaged
<1>6. CASE GatesDone
  <2>1. /\ pc = "gates" /\ pc' = "ledger" /\ i' = 1
        /\ UNCHANGED <<live, blk, staged, fees>>
    BY <1>6 DEF GatesDone
  <2>2. fees = 0 /\ Supply(staged) = Remaining
    BY <2>1 DEF CoinsStaged
  <2>3. PledgedLoop(blk.txs)[0] = 0
    BY <1>1, <2>1
  <2>4. (Supply(staged) + fees + PledgedLoop(blk.txs)[i - 1] = Remaining)'
    BY <1>2, <1>3, <2>1, <2>2, <2>3
  <2> QED
    BY <2>1, <2>4 DEF CoinsStaged
<1>7. CASE LedgerStep
  <2>1. /\ pc = "ledger" /\ pc' = "ledger" /\ ~AtEnd /\ i' = i + 1
        /\ UNCHANGED <<live, blk>>
        /\ staged' = ApplyLedgerMutations(staged, Tx) /\ fees' = fees + Tx.fee
    BY <1>7 DEF LedgerStep
  <2>2. /\ GateTx(View, shadows[i], Tx, GateContext) /\ shadows[i] \in Shadows
        /\ Tx \in Transactions /\ View \in States /\ i \in 1 .. n
    BY <2>1, OwnerSigned
  <2>3. Tx \in Submitted
    BY <2>1, <2>2, BlockFacts DEF Tx, TypeOK
  <2>4. Tx.fee \in Nat /\ Pledge(Tx) \in Nat
    BY <2>2, LimitsAssumption DEF Transactions, U64, Pledge
  <2>5. Supply(staged') = Supply(staged) - Tx.fee - Pledge(Tx)
    <3>1. CASE Tx.owner = None
      <4>1. Tx.fee = 0 /\ Pledge(Tx) = 0
        BY <2>2, <2>3, <3>1, GateIsSigned DEF RevocationsAreFree, Pledge
      <4>2. staged' = staged
        BY <2>1, <3>1 DEF ApplyLedgerMutations
      <4> QED
        BY <1>2, <4>1, <4>2
    <3>2. CASE Tx.owner # None
      <4>1. CanDebit(staged.bal, Tx.owner, LedgerCost(Tx))
        <5>1. staged.bal \in [Keys -> Nat] /\ \A k \in Keys : staged.bal[k] >= shadows[i].bal[k]
          BY <1>0, <2>1 DEF LedgerAgrees, States
        <5> QED
          BY <2>2, <3>2, <5>1, CostCovered
      <4>2. Total(staged'.bal) = Total(staged.bal) - Tx.fee - Pledge(Tx)
        BY <1>0, <2>1, <2>2, <3>2, <4>1, LedgerCoins
      <4>3. staged'.stake = staged.stake /\ staged'.queue = staged.queue
        BY <1>0, <2>1, <2>2, LedgerLeavesStake DEF SameStake
      <4>4. Queued(staged') = Queued(staged)
        BY <4>3 DEF Queued
      <4>5. /\ Supply(staged) = Total(staged.bal) + Total(staged.stake)
                                + Total(Queued(staged))
            /\ Supply(staged') = Total(staged'.bal) + Total(staged.stake)
                                 + Total(Queued(staged))
            /\ Total(staged.bal) \in Nat /\ Total(staged.stake) \in Nat
            /\ Total(Queued(staged)) \in Nat
        BY <1>0, <4>3, <4>4, SupplyType
      <4> QED
        BY <2>4, <4>2, <4>5
    <3> QED
      BY <3>1, <3>2
  <2>6. /\ P[i] = P[i - 1] + Pledge(Tx) /\ P[i - 1] \in Nat /\ (i + 1) - 1 = i
    BY <1>1, <2>1, <2>2 DEF Tx
  <2>7. Supply(staged) + fees + P[i - 1] = Remaining
    BY <2>1 DEF CoinsStaged
  <2>8. Supply(staged') + fees' + P[i] = Remaining
    BY <1>0, <1>2, <2>1, <2>4, <2>5, <2>6, <2>7
  <2> QED
    BY <1>3, <2>1, <2>6, <2>8 DEF CoinsStaged
<1>8. CASE LedgerDone
  <2>1. /\ pc = "ledger" /\ pc' = "domain" /\ i = n + 1 /\ UNCHANGED <<live, blk>>
        /\ staged' = [staged EXCEPT !.bal = Credit(@, blk.leader, fees)]
        /\ blk.leader \in Keys
    BY <1>8, BlockFacts DEF LedgerDone, AtEnd, TypeOK
  <2>2. n \in Nat /\ i - 1 = n /\ P[n] \in Nat
    BY <1>1, <2>1
  <2>3. /\ staged'.bal = Credit(staged.bal, blk.leader, fees)
        /\ staged'.stake = staged.stake /\ staged'.queue = staged.queue
    BY <1>0, <2>1 DEF States
  <2>4. Total(staged'.bal) = Total(staged.bal) + fees
    <3>1. staged.bal \in Coins
      BY <1>0, SupplyType
    <3>2. Total(Credit(staged.bal, blk.leader, fees)) = Total(staged.bal) + fees
      BY <1>0, <2>1, <3>1, TotalMoves
    <3> QED
      BY <2>3, <3>2
  <2>5. /\ Supply(staged) = Total(staged.bal) + Total(staged.stake)
                            + Total(Queued(staged))
        /\ Supply(staged') = Total(staged'.bal) + Total(staged.stake)
                             + Total(Queued(staged))
        /\ Total(staged.bal) \in Nat /\ Total(staged.stake) \in Nat
        /\ Total(Queued(staged)) \in Nat
    <3>1. Queued(staged') = Queued(staged)
      BY <2>3 DEF Queued
    <3> QED
      BY <1>0, <2>3, <3>1, SupplyType
  <2>6. Supply(staged) + fees + P[n] = Remaining
    BY <2>1, <2>2 DEF CoinsStaged
  <2>7. Supply(staged') + P[n] = Remaining
    BY <1>0, <2>2, <2>4, <2>5, <2>6
  <2> QED
    BY <1>3, <2>1, <2>7 DEF CoinsStaged
<1>9. CASE DomainStep
  <2>1. /\ pc = "domain" /\ pc' = "domain" /\ ~AtEnd /\ UNCHANGED <<live, blk>>
        /\ staged' = ApplyDomainMutations(live, staged, Tx, blk.slot, blk.index)
    BY <1>9 DEF DomainStep
  <2>2. /\ GateTx(View, shadows[i], Tx, GateContext) /\ shadows[i] \in Shadows
        /\ Tx \in Transactions /\ blk.slot \in Nat /\ blk.index \in Nat
    BY <2>1, OwnerSigned, CurrentTx
  <2>3. Tx.type = "REVEAL" => Tx.domain \in Domains
    BY <1>9, DomainStepKeeps, RevealFindsCommit
  <2>4. ListedOwned(staged)
    BY <2>1 DEF ListedInv
  <2>5. Total(staged'.bal) = Total(staged.bal)
    BY <1>0, <2>1, <2>2, <2>3, <2>4, DomainCoins
  <2>6. staged'.stake = staged.stake /\ staged'.queue = staged.queue
    BY <1>0, <2>1, <2>2, DomainLeavesStake DEF SameStake
  <2>7. Supply(staged') = Supply(staged)
    BY <2>5, <2>6 DEF Supply
  <2>8. Supply(staged) + P[n] = Remaining
    BY <2>1 DEF CoinsStaged
  <2> QED
    BY <1>3, <2>1, <2>7, <2>8 DEF CoinsStaged
<1>10. CASE DomainDone
  <2>1. /\ pc = "domain" /\ pc' = "stake" /\ i' = 1
        /\ UNCHANGED <<live, blk, staged, shadows>>
    BY <1>10 DEF DomainDone
  <2>2. shadows[1].stake = live.stake
    BY <1>0, <2>1 DEF GatesHeld, InitShadow, View, PurgeExpired, States
  <2>3. shadows[1].stake = staged.stake
    BY <2>1, <2>2 DEF StakeAgrees
  <2>4. Held(staged, shadows[1]) = Supply(staged)
    BY <1>0, <2>3, SupplyType, HeldType
  <2>5. P[0] = 0 /\ n \in Nat /\ P[n] \in Nat
    BY <1>1, <2>1
  <2>6. Supply(staged) + P[n] = Remaining
    BY <2>1 DEF CoinsStaged
  <2>7. Held(staged, shadows[1]) + P[n] - P[0] = Remaining /\ Remaining \in Nat
    BY <1>2, <2>4, <2>5, <2>6
  <2> HIDE DEF P
  <2>8. /\ Held(staged, shadows[1]) + P[n] - P[1 - 1] <= Remaining
        /\ Held(staged, shadows[1]) + P[n] - P[1 - 1] = Remaining
    BY <2>7
  <2> QED
    BY <1>3, <2>1, <2>3, <2>8 DEF CoinsStaged, P
<1>11. CASE StakeStep
  <2>1. /\ pc = "stake" /\ pc' = "stake" /\ ~AtEnd /\ i' = i + 1
        /\ UNCHANGED <<live, blk, shadows>>
        /\ staged' = ApplyStakeMutations(staged, Tx, blk.slot)
    BY <1>11 DEF StakeStep
  <2>2. /\ GateTx(View, shadows[i], Tx, GateContext) /\ shadows[i] \in Shadows
        /\ shadows[i + 1] = ShadowAfter(View, shadows[i], Tx)
        /\ shadows[i + 1] \in Shadows /\ i \in DOMAIN blk.txs
        /\ Tx \in Transactions /\ View \in States /\ i \in 1 .. n
        /\ blk.slot \in Nat
    BY <2>1, OwnerSigned, CurrentTx
  <2> DEFINE h == Held(staged, shadows[i])
             h2 == Held(staged', shadows[i + 1])
             g == Pledge(Tx)
             quiet == Proofs(blk) = {}
  <2>3. /\ h2 <= h + g
        /\ Tx.type # "EQUIVOCATION_PROOF" /\ shadows[i].stake = staged.stake =>
             shadows[i + 1].stake = staged'.stake /\ h2 = h + g
    BY <1>0, <2>1, <2>2, StakeCoins
  <2>4. quiet => Tx.type # "EQUIVOCATION_PROOF"
    BY <2>2 DEF Proofs, Tx
  <2>5. h \in Nat /\ h2 \in Nat
    BY <1>0, <2>2, HeldType DEF Shadows, Coins
  <2>6. /\ P[i] = P[i - 1] + g /\ P[i - 1] \in Nat /\ P[n] \in Nat
        /\ (i + 1) - 1 = i
    BY <1>1, <2>1, <2>2 DEF Tx
  <2>7. g \in Nat
    BY <2>2, LimitsAssumption DEF Transactions, U64, Pledge
  <2>8. /\ h + P[n] - P[i - 1] <= Remaining
        /\ quiet => /\ shadows[i].stake = staged.stake
                    /\ h + P[n] - P[i - 1] = Remaining
    BY <2>1 DEF CoinsStaged
  <2>9. Remaining \in Nat
    <3>1. blk.slot \in Nat /\ live.queue \in Queues
      BY <1>0, <2>2 DEF States, Queues
    <3>2. SweepMature(live.queue, blk.slot) \in Queues
      BY <3>1, SweepType
    <3>3. [live EXCEPT !.queue = SweepMature(@, blk.slot)] \in States
      BY <1>0, <3>2 DEF States, Queues
    <3> QED
      BY <3>3, SupplyType DEF Remaining
  <2> HIDE DEF h, h2, g, P, n, quiet
  <2>10. /\ h2 + P[n] - P[i] <= Remaining
         /\ quiet => /\ shadows[i + 1].stake = staged'.stake
                     /\ h2 + P[n] - P[i] = Remaining
    BY <2>3, <2>4, <2>5, <2>6, <2>7, <2>8, <2>9
  <2> QED
    BY <1>3, <2>1, <2>6, <2>10 DEF CoinsStaged, h2, P, n, quiet, Proofs
<1>12. CASE GateReject \/ HashMismatch \/ AcceptBlock
  <2>1. pc' = "idle" /\ fees' = 0
    BY <1>12 DEF GateReject, HashMismatch, AcceptBlock, Idle
  <2> QED
    BY <2>1 DEF CoinsStaged
<1>13. CASE UNCHANGED vars
  BY <1>3, <1>13 DEF vars, CoinsStaged, Proofs
<1> QED
  BY <1>4, <1>5, <1>6, <1>7, <1>8, <1>9, <1>10, <1>11, <1>12, <1>13 DEF Next

\* No block creates coins: whatever blocks arrive, and whatever fees, sales,
\* funds, stakes, unstakes and slashes they combine, the supply after a block
\* is at most what SweepMature left of the supply before it, and exactly that
\* if the block reports no equivocation.
THEOREM CoinsAreAccounted ==
  ASSUME IsFiniteSet(Keys), RevocationsAreFree
  PROVE  Spec => CoinsAccounted
<1> DEFINE Inv == /\ TypeOK /\ GatesHeld /\ LedgerAgrees
                  /\ StakeFloor /\ StakeAgrees /\ ListedInv /\ CoinsStaged
           Step == chain' # chain =>
                     LET kept == Supply([live EXCEPT !.queue = SweepMature(@, blk.slot)])
                     IN  /\ Supply(live') <= kept
                         /\ Proofs(blk) = {} => Supply(live') = kept
<1>1. Init => Inv
  <2> SUFFICES ASSUME Init PROVE Inv
    OBVIOUS
  <2>1. TypeOK /\ GatesHeld
    BY InitTyped
  <2>2. ListedOwned(live)
    BY DEF Init, GenesisState, NoEntry, ListedOwned, IsForSale
  <2> QED
    BY <2>1, <2>2 DEF Init, GenesisState, LedgerAgrees, StakeFloor, StakeAgrees,
                      AboveFloor, ListedInv, CoinsStaged
<1>2. Inv /\ DomainInv /\ [Next]_vars => Inv'
  BY NextTyped, NextAgrees, NextStakeAgrees, NextListed, NextCoins
<1>3. Inv /\ [Next]_vars => [Step]_vars
  <2>1. SUFFICES ASSUME Inv, [Next]_vars, chain' # chain
                 PROVE  /\ Supply(live') <= Remaining
                        /\ Proofs(blk) = {} => Supply(live') = Remaining
    BY DEF Remaining
  <2>2. /\ AcceptBlock /\ pc = "stake" /\ live'.bal = staged.bal
        /\ live'.stake = staged.stake /\ live'.queue = staged.queue
    BY <2>1, ChainGrows, AcceptFields
  <2>3. Supply(live') = Supply(staged)
    BY <2>2, SupplyReads
  <2> DEFINE n == Len(blk.txs)
             P == PledgedLoop(blk.txs)
             h == Held(staged, shadows[i])
  <2>4. i = n + 1 /\ n \in Nat /\ blk.txs \in Seq(Transactions)
    BY <2>1, <2>2, BlockFacts, BlockTxs DEF AcceptBlock, AtEnd, TypeOK
  <2>5. P[n] \in Nat /\ i - 1 = n
    BY <2>4, PledgedSteps
  <2>6. /\ h + P[n] - P[i - 1] <= Remaining
        /\ Proofs(blk) = {} => /\ shadows[i].stake = staged.stake
                               /\ h + P[n] - P[i - 1] = Remaining
    BY <2>1, <2>2 DEF CoinsStaged
  <2>7. shadows[i].stake \in Coins /\ staged \in States
    <3>1. Len(shadows) = n + 1
      BY <2>1, <2>2 DEF GatesHeld
    <3>2. shadows[i] \in Shadows
      BY <2>1, <2>4, <3>1 DEF TypeOK
    <3> QED
      BY <2>1, <3>2 DEF TypeOK, Shadows, Coins
  <2>8. /\ Supply(staged) <= h /\ h \in Nat /\ Supply(staged) \in Nat
        /\ shadows[i].stake = staged.stake => h = Supply(staged)
    BY <2>7, HeldType, SupplyType
  <2>9. Remaining \in Int
    <3>1. live \in States /\ blk.slot \in Nat
      BY <2>1, <2>2, BlockFacts DEF TypeOK
    <3>2. SweepMature(live.queue, blk.slot) \in Queues
      BY <3>1, SweepType DEF States, Queues
    <3>3. [live EXCEPT !.queue = SweepMature(@, blk.slot)] \in States
      BY <3>1, <3>2 DEF States, Queues
    <3> QED
      BY <3>3, SupplyType DEF Remaining
  <2> HIDE DEF h, P, n
  <2> QED
    BY <2>3, <2>5, <2>6, <2>8, <2>9
<1>4. Spec => []DomainInv
  BY DomainInvHolds, PTL
<1>5. Spec => [][Step]_vars
  BY <1>1, <1>2, <1>3, <1>4, PTL DEF Spec
<1> QED
  BY <1>5 DEF CoinsAccounted

=============================================================================
