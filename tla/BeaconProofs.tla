----------------------------- MODULE BeaconProofs -----------------------------
(***************************************************************************)
(* Theorems about the beacon, for every set of peers, every set of values  *)
(* and every epoch length.                                                 *)
(***************************************************************************)
EXTENDS Beacon, TLAPS

\* A stored commitment is remembered by the deduplication cache: without this
\* a second commitment could replace the one a reveal was checked against.
CommitmentsSeen ==
  \A p \in Sources : commitments[p] # NoValue => <<"commit", p[1], p[2]>> \in seen

\* The inductive invariant: the maps are maps, and the three facts that hold
\* each other up.
BeaconInv ==
  /\ TypeOK
  /\ CommitmentsSeen
  /\ RandomsOpenCommitments
  /\ NoRevealLeftBehind

\* The beacon starts with empty maps.
LEMMA BeaconStarts == Init => BeaconInv
<1> SUFFICES ASSUME Init PROVE BeaconInv
  OBVIOUS
<1>1. TypeOK
  BY BeaconAssumption DEF Init, TypeOK, Nothing
<1>2. \A p \in Sources :
        commitments[p] = NoValue /\ pending[p] = NoValue /\ randoms[p] = NoValue
  BY DEF Init, Nothing
<1> QED
  BY <1>1, <1>2
  DEF BeaconInv, CommitmentsSeen, RandomsOpenCommitments, NoRevealLeftBehind

\* Pruning drops the same epochs from every map and from the cache.
LEMMA PruneKeeps ==
  ASSUME TypeOK, CommitmentsSeen, RandomsOpenCommitments, NoRevealLeftBehind,
         NEW e \in Int, PruneDRGEpochState(e)
  PROVE  /\ commitments' \in [Sources -> Values \cup {NoValue}]
         /\ pending' \in [Sources -> Values \cup {NoValue}]
         /\ randoms' \in [Sources -> Values \cup {NoValue}]
         /\ seen' \subseteq {"commit", "reveal"} \X Epochs \X Peers
         /\ CommitmentsSeen' /\ RandomsOpenCommitments' /\ NoRevealLeftBehind'
<1>1. \A p \in Sources : p[1] \in Int /\ p = <<p[1], p[2]>>
  BY DEF Sources, Epochs
<1>2. \A p \in Sources :
        /\ commitments'[p] = IF p[1] < e - 2 THEN NoValue ELSE commitments[p]
        /\ pending'[p] = IF p[1] < e - 2 THEN NoValue ELSE pending[p]
        /\ randoms'[p] = IF p[1] < e - 2 THEN NoValue ELSE randoms[p]
  BY DEF PruneDRGEpochState, Pruned
<1>3. /\ commitments' \in [Sources -> Values \cup {NoValue}]
      /\ pending' \in [Sources -> Values \cup {NoValue}]
      /\ randoms' \in [Sources -> Values \cup {NoValue}]
  BY DEF PruneDRGEpochState, Pruned, TypeOK
<1>4. seen' \subseteq seen
  BY DEF PruneDRGEpochState
<1>5. CommitmentsSeen'
  <2> SUFFICES ASSUME NEW p \in Sources, commitments'[p] # NoValue
               PROVE  <<"commit", p[1], p[2]>> \in seen'
    BY DEF CommitmentsSeen
  <2>1. ~(p[1] < e - 2) /\ <<"commit", p[1], p[2]>> \in seen
    BY <1>2 DEF CommitmentsSeen
  <2> QED
    BY <2>1, <1>1 DEF PruneDRGEpochState
<1>6. RandomsOpenCommitments'
  BY <1>2 DEF RandomsOpenCommitments
<1>7. NoRevealLeftBehind'
  BY <1>2 DEF NoRevealLeftBehind
<1> QED
  BY <1>3, <1>4, <1>5, <1>6, <1>7 DEF TypeOK

\* A tick of the slot loop prunes or leaves the received messages alone.
LEMMA TickKeeps ==
  ASSUME BeaconInv, SlotTick
  PROVE  BeaconInv'
<1> DEFINE s == slot + 1
           e == s \div SlotsPerEpoch
<1>1. s \in Nat /\ e \in Nat
  BY BeaconAssumption DEF BeaconInv, TypeOK
<1>2. slot' \in Nat /\ epoch' \in Nat
  BY <1>1 DEF SlotTick
<1> DEFINE B == IF e # epoch /\ s % SlotsPerEpoch = 0
                THEN BroadcastCommitment(e + 1, mySecrets, published)
                ELSE [mySecrets |-> mySecrets, published |-> published]
           reveals == e # epoch /\ s % SlotsPerEpoch = 1
<1>a. mySecrets \subseteq Nat /\ published \subseteq {"commit", "reveal"} \X Nat
  BY DEF BeaconInv, TypeOK
<1>b. /\ B.mySecrets \subseteq Nat
      /\ B.published \subseteq {"commit", "reveal"} \X Nat
  <2>1. CASE e # epoch /\ s % SlotsPerEpoch = 0
    <3>1. /\ B.mySecrets = mySecrets \cup {e + 1}
          /\ B.published = published \cup {<<"commit", e + 1>>}
      BY <2>1 DEF BroadcastCommitment
    <3> HIDE DEF B
    <3>2. e + 1 \in Nat
      BY <1>1
    <3>3. B.mySecrets \subseteq Nat
      BY <1>a, <3>1, <3>2
    <3>4. <<"commit", e + 1>> \in {"commit", "reveal"} \X Nat
      BY <3>2
    <3>5. B.published \subseteq {"commit", "reveal"} \X Nat
      BY <1>a, <3>1, <3>4, Zenon
    <3> QED
      BY <3>3, <3>5
  <2>2. CASE ~(e # epoch /\ s % SlotsPerEpoch = 0)
    BY <1>a, <2>2
  <2> QED
    BY <2>1, <2>2
<1>c. /\ mySecrets' = IF reveals THEN {x \in B.mySecrets : x >= e - 2}
                      ELSE B.mySecrets
      /\ published' = IF reveals THEN BroadcastReveal(e, B.mySecrets, B.published)
                      ELSE B.published
  BY DEF SlotTick
<1> HIDE DEF B, reveals
<1>3. mySecrets' \subseteq Nat
  BY <1>b, <1>c
<1>4. published' \subseteq {"commit", "reveal"} \X Nat
  BY <1>1, <1>b, <1>c DEF BroadcastReveal
<1>5. CASE PruneDRGEpochState(e)
  BY <1>1, <1>2, <1>3, <1>4, <1>5, PruneKeeps DEF BeaconInv, TypeOK
<1>6. CASE UNCHANGED received
  BY <1>2, <1>3, <1>4, <1>6
  DEF received, BeaconInv, TypeOK, CommitmentsSeen, RandomsOpenCommitments,
      NoRevealLeftBehind
<1> QED
  BY <1>5, <1>6 DEF SlotTick

\* A commitment that is handled is the sender's first: nothing was opened
\* against an earlier one.
LEMMA CommitmentKeeps ==
  ASSUME BeaconInv, NEW p \in Sources, NEW v \in Values, CommitmentHandler(p, v)
  PROVE  BeaconInv'
<1>1. commitments[p] = NoValue /\ randoms[p] = NoValue
  BY DEF BeaconInv, CommitmentsSeen, RandomsOpenCommitments, CommitmentHandler
<1>2. p[1] \in Epochs /\ p[2] \in Peers /\ v # NoValue
  BY BeaconAssumption DEF Sources
<1>3. TypeOK'
  BY <1>2 DEF BeaconInv, TypeOK, CommitmentHandler, Store
<1>4. commitments' = [commitments EXCEPT ![p] = v]
  BY DEF CommitmentHandler, Store
<1>5. CASE pending[p] = v
  <2>1. /\ randoms' = [randoms EXCEPT ![p] = v]
        /\ pending' = [pending EXCEPT ![p] = NoValue]
    BY <1>5 DEF CommitmentHandler, Store
  <2> QED
    BY <1>1, <1>2, <1>3, <1>4, <2>1
    DEF BeaconInv, TypeOK, CommitmentsSeen, RandomsOpenCommitments,
        NoRevealLeftBehind, CommitmentHandler
<1>6. CASE pending[p] # v
  <2>1. randoms' = randoms /\ pending' = pending
    BY <1>6 DEF CommitmentHandler
  <2> QED
    BY <1>1, <1>2, <1>3, <1>4, <1>6, <2>1
    DEF BeaconInv, TypeOK, CommitmentsSeen, RandomsOpenCommitments,
        NoRevealLeftBehind, CommitmentHandler
<1> QED
  BY <1>5, <1>6

\* A reveal is stored only against the commitment it opens, and buffered only
\* while there is none.
LEMMA RevealKeeps ==
  ASSUME BeaconInv, NEW p \in Sources, NEW v \in Values, RevealHandler(p, v)
  PROVE  BeaconInv'
<1>1. p[1] \in Epochs /\ p[2] \in Peers /\ v # NoValue
  BY BeaconAssumption DEF Sources
<1>2. TypeOK'
  BY <1>1 DEF BeaconInv, TypeOK, RevealHandler, Store
<1>3. CommitmentsSeen'
  BY DEF BeaconInv, CommitmentsSeen, RevealHandler
<1>4. RandomsOpenCommitments'
  BY <1>1 DEF BeaconInv, TypeOK, RandomsOpenCommitments, RevealHandler, Store
<1>5. NoRevealLeftBehind'
  BY <1>1 DEF BeaconInv, TypeOK, NoRevealLeftBehind, RevealHandler, Store
<1> QED
  BY <1>2, <1>3, <1>4, <1>5 DEF BeaconInv

\* The invariant is inductive.
LEMMA BeaconStep == BeaconInv /\ [Next]_vars => BeaconInv'
<1> SUFFICES ASSUME BeaconInv, [Next]_vars PROVE BeaconInv'
  OBVIOUS
<1>1. CASE UNCHANGED vars
  BY <1>1 DEF vars, received, BeaconInv, TypeOK, CommitmentsSeen,
      RandomsOpenCommitments, NoRevealLeftBehind
<1> QED
  BY <1>1, TickKeeps, CommitmentKeeps, RevealKeeps DEF Next

\* BeaconInv holds always.
THEOREM BeaconInvHolds == Spec => []BeaconInv
BY BeaconStarts, BeaconStep, PTL DEF Spec

\* Whatever the order in which the commitments and reveals of the peers arrive
\* (node.go:340-439), only randomness that opens its sender's commitment is
\* used to elect a leader.
THEOREM SeedsAreCommitted == Spec => []RandomsOpenCommitments
<1>1. BeaconInv => RandomsOpenCommitments
  BY DEF BeaconInv
<1> QED
  BY <1>1, BeaconInvHolds, PTL

\* No reveal stays buffered beside the commitment it opens (node.go:362-383).
THEOREM RevealsAreFlushed == Spec => []NoRevealLeftBehind
<1>1. BeaconInv => NoRevealLeftBehind
  BY DEF BeaconInv
<1> QED
  BY <1>1, BeaconInvHolds, PTL

\* A sender cannot change its commitment for an epoch, nor the randomness that
\* was accepted against it (node.go:341-345).
THEOREM CommitmentsStand == Spec => FirstCommitmentStands
<1> DEFINE Stands ==
      \A p \in Sources :
        /\ commitments[p] # NoValue => commitments'[p] \in {commitments[p], NoValue}
        /\ randoms[p] # NoValue => randoms'[p] \in {randoms[p], NoValue}
<1>1. BeaconInv /\ [Next]_vars => [Stands]_vars
  <2> SUFFICES ASSUME BeaconInv, Next PROVE Stands
    OBVIOUS
  <2>1. CASE SlotTick
    BY <2>1 DEF SlotTick, PruneDRGEpochState, Pruned, received
  <2>2. ASSUME NEW p \in Sources, NEW v \in Values, CommitmentHandler(p, v)
        PROVE  Stands
    <3>1. commitments[p] = NoValue /\ randoms[p] = NoValue
      BY <2>2 DEF BeaconInv, CommitmentsSeen, RandomsOpenCommitments,
          CommitmentHandler
    <3> QED
      BY <2>2, <3>1 DEF CommitmentHandler, Store, BeaconInv, TypeOK
  <2>3. ASSUME NEW p \in Sources, NEW v \in Values, RevealHandler(p, v)
        PROVE  Stands
    BY <2>3 DEF RevealHandler, Store, BeaconInv, TypeOK, RandomsOpenCommitments
  <2> QED
    BY <2>1, <2>2, <2>3 DEF Next
<1> QED
  BY <1>1, BeaconInvHolds, PTL DEF Spec, FirstCommitmentStands

=============================================================================
