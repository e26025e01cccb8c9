-------------------------------- MODULE Beacon --------------------------------
(***************************************************************************)
(* The randomness beacon (DRG) of one node: the slot loop that should      *)
(* publish a commitment and later its reveal (network/node_leader.go), and *)
(* the handlers of the commitments and reveals of its peers                *)
(* (network/node.go, consensus/drg.go).                                    *)
(*                                                                         *)
(* A commitment is represented by the value it hides, so that a reveal     *)
(* opens a commitment when the two values are equal.  A message arrives    *)
(* any number of times and in any order; the handlers run one at a time in *)
(* the gossip goroutine, interleaved with the slot loop.                   *)
(***************************************************************************)
EXTENDS Integers

CONSTANTS
  Peers,          \* the other validators
  Values,         \* the secrets they may draw
  NoValue,        \* a missing map entry
  SlotsPerEpoch,
  MaxSlot         \* bound: last slot

ASSUME BeaconAssumption ==
  /\ NoValue \notin Values
  /\ SlotsPerEpoch \in Nat \ {0}
  /\ MaxSlot \in Nat

VARIABLES
  slot,         \* the loop's slot counter
  epoch,        \* the loop's epoch
  mySecrets,    \* MySecrets: epochs this node has committed to
  published,    \* what this node broadcast: <<"commit" or "reveal", epoch>>
  commitments,  \* EpochCommitments
  pending,      \* PendingReveals
  randoms,      \* EpochRandoms
  seen          \* DRGDedupCache: <<"commit" or "reveal", epoch, sender>>

received == <<commitments, pending, randoms, seen>>
vars == <<slot, epoch, mySecrets, published, received>>

Epochs == 0 .. (MaxSlot \div SlotsPerEpoch) + 1
Sources == Epochs \X Peers
Nothing == [p \in Sources |-> NoValue]

\* The loop starts at the end of epoch 0, after BroadcastCommitment(1).
Init ==
  /\ slot = SlotsPerEpoch - 1
  /\ epoch = 0
  /\ mySecrets = {1}
  /\ published = {<<"commit", 1>>}
  /\ commitments = Nothing /\ pending = Nothing /\ randoms = Nothing
  /\ seen = {}

-----------------------------------------------------------------------------
(* The slot loop *)

BroadcastCommitment(e, s, p) == [mySecrets |-> s \cup {e},
                                 published |-> p \cup {<<"commit", e>>}]

BroadcastReveal(e, s, p) == IF e \in s THEN p \cup {<<"reveal", e>>} ELSE p

Pruned(f, e) == [p \in Sources |-> IF p[1] < e - 2 THEN NoValue ELSE f[p]]

\* PruneDRGEpochState
PruneDRGEpochState(e) ==
  /\ commitments' = Pruned(commitments, e)
  /\ pending' = Pruned(pending, e)
  /\ randoms' = Pruned(randoms, e)
  /\ seen' = {m \in seen : m[2] >= e - 2}

\* One tick: everything the loop does for the beacon happens on the tick that
\* enters a new epoch.
SlotTick ==
  LET s == slot + 1
      e == s \div SlotsPerEpoch
      entered == e # epoch
      commits == entered /\ s % SlotsPerEpoch = 0
      reveals == entered /\ s % SlotsPerEpoch = 1
      B == IF commits THEN BroadcastCommitment(e + 1, mySecrets, published)
           ELSE [mySecrets |-> mySecrets, published |-> published]
  IN  /\ slot < MaxSlot
      /\ slot' = s
      /\ epoch' = e
      /\ published' = IF reveals THEN BroadcastReveal(e, B.mySecrets, B.published)
                      ELSE B.published
      /\ mySecrets' = IF reveals THEN {x \in B.mySecrets : x >= e - 2}
                      ELSE B.mySecrets
      /\ IF reveals THEN PruneDRGEpochState(e) ELSE UNCHANGED received

-----------------------------------------------------------------------------
(* The handlers.  p = <<epoch, sender>>, and v is what the message holds. *)

Store(f, p, v) == [f EXCEPT ![p] = v]

\* Mutant: a reveal that was waiting for its commitment is left waiting.
StoreOnly(p, v) ==
  /\ <<"commit", p[1], p[2]>> \notin seen
  /\ seen' = seen \cup {<<"commit", p[1], p[2]>>}
  /\ commitments' = Store(commitments, p, v)
  /\ UNCHANGED <<pending, randoms, slot, epoch, mySecrets, published>>

\* Mutant: nothing remembers that a commitment was seen.
Unmarked(p, v) ==
  /\ <<"commit", p[1], p[2]>> \notin seen
  /\ commitments' = Store(commitments, p, v)
  /\ UNCHANGED <<seen, pending, randoms, slot, epoch, mySecrets, published>>

\* CommitmentHandler: store it, and flush a reveal that came first.
CommitmentHandler(p, v) ==
  /\ <<"commit", p[1], p[2]>> \notin seen
  /\ seen' = seen \cup {<<"commit", p[1], p[2]>>}
  /\ commitments' = Store(commitments, p, v)
  /\ IF pending[p] = v
     THEN /\ randoms' = Store(randoms, p, v)
          /\ pending' = Store(pending, p, NoValue)
     ELSE UNCHANGED <<pending, randoms>>
  /\ UNCHANGED <<slot, epoch, mySecrets, published>>

\* Mutant: a reveal is believed without its commitment.
Believed(p, v) ==
  /\ <<"reveal", p[1], p[2]>> \notin seen
  /\ seen' = seen \cup {<<"reveal", p[1], p[2]>>}
  /\ randoms' = Store(randoms, p, v)
  /\ UNCHANGED <<commitments, pending, slot, epoch, mySecrets, published>>

\* RevealHandler: buffer it, store it, or drop it if it opens nothing.
RevealHandler(p, v) ==
  /\ <<"reveal", p[1], p[2]>> \notin seen
  /\ seen' = seen \cup {<<"reveal", p[1], p[2]>>}
  /\ pending' = IF commitments[p] = NoValue THEN Store(pending, p, v) ELSE pending
  /\ randoms' = IF commitments[p] = v THEN Store(randoms, p, v) ELSE randoms
  /\ UNCHANGED <<commitments, slot, epoch, mySecrets, published>>

Next ==
  \/ SlotTick
  \/ \E p \in Sources, v \in Values : CommitmentHandler(p, v)
  \/ \E p \in Sources, v \in Values : RevealHandler(p, v)

Spec == Init /\ [][Next]_vars

-----------------------------------------------------------------------------
TypeOK ==
  /\ slot \in Nat /\ epoch \in Nat
  /\ mySecrets \subseteq Nat
  /\ published \subseteq {"commit", "reveal"} \X Nat
  /\ commitments \in [Sources -> Values \cup {NoValue}]
  /\ pending \in [Sources -> Values \cup {NoValue}]
  /\ randoms \in [Sources -> Values \cup {NoValue}]
  /\ seen \subseteq {"commit", "reveal"} \X Epochs \X Peers

\* Only randomness that opens the sender's commitment enters the seed of an
\* epoch, in whatever order commitment and reveal arrive (node.go:340-439).
RandomsOpenCommitments ==
  \A p \in Sources : randoms[p] # NoValue => randoms[p] = commitments[p]

\* A contribution is not lost to reordering: a buffered reveal does not open
\* the commitment that is known (node.go:362-383, 412-423).
NoRevealLeftBehind ==
  \A p \in Sources :
    commitments[p] # NoValue /\ pending[p] # NoValue => pending[p] # commitments[p]

\* The first commitment of a sender for an epoch stands (node.go:341-345): no
\* later message replaces it or the randomness it led to.
FirstCommitmentStands ==
  [][\A p \in Sources :
       /\ commitments[p] # NoValue => commitments'[p] \in {commitments[p], NoValue}
       /\ randoms[p] # NoValue => randoms'[p] \in {randoms[p], NoValue}]_vars

=============================================================================
