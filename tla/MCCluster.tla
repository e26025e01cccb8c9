------------------------------ MODULE MCCluster ------------------------------
(***************************************************************************)
(* Small clusters and the transactions their users send.                   *)
(***************************************************************************)
EXTENDS ClusterProperties

TwoNodes == <<"reg", "rex">>

Seeded == [k \in Keys |-> 8]

\* Two of rex's transactions compete for a nonce; once the stake is in, rex
\* leads the later epochs.
StakingTxs == {
  NewStakeTransaction(2, 2, "rex", 1, 0),
  NewCommitTransaction(3, "dom", "s1", "rex", 1, 1),
  NewFundTransaction(4, "reg", 1, "rex", 1, 1)}

RaceTxs == {
  NewFundTransaction(1, "rex", 1, "reg", 1, 0),
  NewStakeTransaction(2, 2, "rex", 1, 0)}

=============================================================================
