-------------------------- MODULE ClusterProperties --------------------------
(***************************************************************************)
(* What the nodes of a cluster owe each other.                             *)
(***************************************************************************)
EXTENDS Cluster

\* The states reached by executing the blocks of c one by one from genesis.
ReplayLoop(c) ==
  LET out[k \in 1 .. Len(c)] ==
        IF k = 1 THEN GenesisLive ELSE Executed(out[k - 1], c[k])
  IN  out

\* The state reached by executing all of them.
Replay(c) == ReplayLoop(c)[Len(c)]

\* The live state of a node is a function of its chain, whether it made a
\* block (node_leader.go:185-245) or accepted it (node_helper.go:27-90): leader
\* and validators run different code over different copies and end up with the
\* same ledger, stakes, index and commits.  The one thing that breaks it is a
\* block accepted while the node's own leader is between two of its steps.
StateIsReplay ==
  \A n \in Nodes \ torn : work[n] = Idle => live[n] = Replay(chain[n])

\* The same without the exception.
StateAlwaysReplay ==
  \A n \in Nodes : work[n] = Idle => live[n] = Replay(chain[n])

\* c ends with a block whose parent is the tip of n.
OnMyTip(n, c) == work[n] = Idle /\ ParentOf(c) = chain[n]

BuysIn(b) == {j \in DOMAIN b.txs : b.txs[j].type = "BUY"}

\* The hashes a leader puts into a block are the ones a validator at the same
\* parent computes, whatever the gates say, if the block holds no BUY and
\* neither of the two ever accepted a block in the middle of its own leader's
\* work (node_leader.go:185-222 against block.go:357-401).
HashesMatch ==
  \A c \in BlocksOn, n \in Nodes \ torn :
    LET b == TipOf(c)
    IN  OnMyTip(n, c) /\ BuysIn(b) = {} /\ b.leader \notin torn
        => b.digest = ValidatorDigest(live[n], b)

PlacesIn(c) == UNION {{k} \X DOMAIN c[k].txs : k \in DOMAIN c}

\* Nobody's transaction is executed twice on any node's chain.
ExecutedOnce ==
  \A n \in Nodes : \A p, q \in PlacesIn(chain[n]) :
    LET t == chain[n][p[1]].txs[p[2]]
        u == chain[n][q[1]].txs[q[2]]
    IN  t = u /\ t.owner # None => p = q

\* None of the leaders of c ever accepted a block in the middle of its work.
Clean(c) == \A i \in 2 .. Len(c) : c[i].leader \notin torn

\* A transaction comes twice on a node's chain only if the node's own leader,
\* which runs no gates, took up a copy that AddTransaction had let in while
\* the first one was out of the pool and not yet executed
\* (node_leader.go:163-245, node_helper.go:92-142), or if a block came into
\* the middle of a leader's work.  No other order of blocks, late copies and
\* put-backs repeats one.
RepeatsAreLate ==
  \A n \in Nodes \ torn : \A p, q \in PlacesIn(chain[n]) :
    LET t == chain[n][p[1]].txs[p[2]]
        u == chain[n][q[1]].txs[q[2]]
    IN  Clean(chain[n]) /\ t = u /\ t.owner # None /\ p # q
        => /\ p[1] # q[1]
           /\ p[1] < q[1] => chain[n][q[1]].leader = n /\ t \in late[n]

\* Of two transactions in a pool that compete for the same nonce of an account
\* one was let in while the leader was at work: AddTransaction validates the
\* newcomer together with the whole pool, and only what the leader holds is
\* missing from it (node_helper.go:107-139, node_leader.go:163-180).
PoolNoncesDistinct ==
  \A n \in Nodes : \A t, u \in pool[n] :
    t.owner = u.owner /\ t.nonce = u.nonce /\ t.owner # None /\ t # u
      => t \in late[n] \/ u \in late[n]

=============================================================================
