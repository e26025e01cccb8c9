---------------------------- MODULE ConnectionPool ----------------------------
(***************************************************************************)
(* The light node's pool of gateway clients (gateway/pool.go): queries and *)
(* broadcasts that fail over from one full node to the next, the monitor   *)
(* that checks their health, and VerifyNXDOMAIN, which asks the pool       *)
(* whether a name is absent (network/node_helper.go).                      *)
(*                                                                         *)
(* Calls run side by side under the read lock of the pool and yet write    *)
(* its health map; the monitor takes the write lock, and while it waits    *)
(* for it no new reader gets in (sync.RWMutex).  One name is asked for.    *)
(***************************************************************************)
EXTENDS Integers, FiniteSets

CONSTANTS
  NumPeers,    \* number of clients of the pool
  Callers,     \* goroutines that call the pool
  MaxChanges   \* bound: changes of the peers and of their connections

ASSUME PoolAssumption == NumPeers \in Nat \ {0} /\ MaxChanges \in Nat

VARIABLES
  link,     \* link[p]: the connection is "up", "down", "hung" (a call on it
            \* neither answers nor fails) or "closed"
  holds,    \* holds[p]: peer p has the name "stored", only "indexed" (its block
            \* is not yet in the chain), or "none"
  health,   \* p.health
  current,  \* p.current
  monitor,  \* monitorHealth is "asleep", "waiting" for the lock or "checking"
  checked,  \* the next client the monitor checks
  call,     \* call[c]: the call caller c is in
  dead,     \* the Go runtime has stopped the process: concurrent map accesses
  changes   \* changes so far

vars == <<link, holds, health, current, monitor, checked, call, dead, changes>>
world == <<link, holds, changes>>
clock == <<monitor, checked>>

Peers == 0 .. NumPeers - 1

\* "submit" is the broadcast of a transaction the full nodes accept, "refused"
\* that of one they answer with Accepted = false.
Ops == {"query", "verify", "submit", "refused"}

\* A call: its control point, the value of p.current it started from and the
\* clients it has passed, and the history of its loop: the peers that could have
\* served it all along.
Calls == [op : Ops, at : {"idle", "count", "begin", "ask", "flag"},
          start : Peers, tried : 0 .. NumPeers, steady : SUBSET Peers]

NoCall == [op |-> "query", at |-> "idle", start |-> 0, tried |-> 0, steady |-> {}]

\* NewConnectionPool: every client is taken for healthy, reachable or not.
Init ==
  /\ link \in [Peers -> {"up", "down"}]
  /\ holds = [p \in Peers |-> "stored"]
  /\ health = [p \in Peers |-> TRUE]
  /\ current = 0
  /\ monitor = "asleep" /\ checked = 0
  /\ call = [c \in Callers |-> NoCall]
  /\ dead = FALSE
  /\ changes = 0

TypeOK ==
  /\ link \in [Peers -> {"up", "down", "hung", "closed"}]
  /\ holds \in [Peers -> {"none", "indexed", "stored"}]
  /\ health \in [Peers -> BOOLEAN]
  /\ current \in Peers
  /\ monitor \in {"asleep", "waiting", "checking"} /\ checked \in Peers
  /\ call \in [Callers -> Calls]
  /\ dead \in BOOLEAN
  /\ changes \in 0 .. MaxChanges

-----------------------------------------------------------------------------
(* What a peer answers *)

\* GatewayServer.QueryDomain and BroadcastTransaction, and the gRPC error of a
\* connection that is down or closed.
Answer(op, p) ==
  CASE link[p] # "up" \/ op = "refused" -> "fail"
    [] op = "submit"                    -> "ok"
    [] holds[p] = "none"                -> "notfound"
    [] holds[p] = "indexed"             -> "fail"
    [] OTHER                            -> "ok"

\* GatewayServer.HealthCheck: a node that can be reached is healthy.
HealthCheck(p) == link[p] = "up"

\* The peer would serve the call, given connections, names and flags.
CouldServe(op, p, ln, hs, hl) ==
  /\ ln[p] = "up" /\ hl[p] /\ op # "refused"
  /\ op \in {"query", "verify"} => hs[p] = "stored"

Looping(k) == k.at \in {"ask", "flag"}

\* The histories of the calls in their loops, brought up to date by every step
\* that changes connections, names or flags.
Observed(calls, ln, hs, hl) ==
  [c \in Callers |->
     IF ~Looping(calls[c]) THEN calls[c]
     ELSE [calls[c] EXCEPT
             !.steady = {p \in @ : CouldServe(calls[c].op, p, ln, hs, hl)}]]

\* Mutant: the loop adds its counter to p.current, which other calls move.
ClientFromCurrent(k) == (current + k.tried) % NumPeers

Client(k) == (k.start + k.tried) % NumPeers

-----------------------------------------------------------------------------
(* The lock *)

\* Mutant: VerifyNXDOMAIN keeps the read lock from the count to the query.
HoldsThroughout(c) == call[c].at \in {"ask", "flag"}
                        \/ (call[c].at = "begin" /\ call[c].op = "verify")

HoldsReadLock(c) == Looping(call[c])

\* RLock: not while the monitor holds the lock or waits for it.
CanRLock == monitor = "asleep"

-----------------------------------------------------------------------------
(* Calls *)

\* A caller starts an operation; VerifyNXDOMAIN first counts.
Start(c, op) ==
  /\ call[c].at = "idle"
  /\ call' = [call EXCEPT ![c] =
       [NoCall EXCEPT !.op = op, !.at = IF op = "verify" THEN "count" ELSE "begin"]]
  /\ UNCHANGED <<world, health, current, clock>>

\* VerifyNXDOMAIN: GetHealthyCount, under a read lock of its own.
Count(c) ==
  /\ call[c].at = "count" /\ CanRLock
  /\ call' = [call EXCEPT ![c] =
       IF Cardinality({p \in Peers : health[p]}) < 2
       THEN NoCall
       ELSE [@ EXCEPT !.at = "begin"]]
  /\ UNCHANGED <<world, health, current, clock>>

\* QueryWithFailover, BroadcastTransactionWithFailover: the read lock is taken
\* and p.current read.
Begin(c) ==
  /\ call[c].at = "begin" /\ CanRLock
  /\ call' = Observed([call EXCEPT ![c].at = "ask", ![c].start = current,
                                   ![c].steady = Peers], link, holds, health)
  /\ UNCHANGED <<world, health, current, clock>>

Skip(c, p) ==
  /\ ~health[p]
  /\ call' = [call EXCEPT ![c].tried = @ + 1]
  /\ UNCHANGED <<world, health, current, clock>>

Served(c, p) ==
  /\ health[p] /\ Answer(call[c].op, p) = "ok"
  /\ current' = p
  /\ call' = [call EXCEPT ![c] = NoCall]
  /\ UNCHANGED <<world, health, clock>>

\* NotFound ends a query at once.
Absent(c, p) ==
  /\ health[p] /\ Answer(call[c].op, p) = "notfound"
  /\ call' = [call EXCEPT ![c] = NoCall]
  /\ UNCHANGED <<world, health, current, clock>>

Fails(c, p) ==
  /\ health[p] /\ Answer(call[c].op, p) = "fail"
  /\ call' = [call EXCEPT ![c].at = "flag"]
  /\ UNCHANGED <<world, health, current, clock>>

\* One round of the loop: a call on a hung connection does not come back.
Ask(c) ==
  /\ call[c].at = "ask" /\ call[c].tried < NumPeers
  /\ LET p == Client(call[c]) IN
       \/ Skip(c, p)
       \/ link[p] # "hung" /\ (Served(c, p) \/ Absent(c, p) \/ Fails(c, p))

\* p.health[idx] = false, for a broadcast that was refused too.
Flag(c) ==
  /\ call[c].at = "flag"
  /\ health' = [health EXCEPT ![Client(call[c])] = FALSE]
  /\ call' = Observed([call EXCEPT ![c].at = "ask", ![c].tried = @ + 1],
                      link, holds, health')
  /\ UNCHANGED <<world, current, clock>>

\* ErrAllPeersDown
GiveUp(c) ==
  /\ call[c].at = "ask" /\ call[c].tried = NumPeers
  /\ call' = [call EXCEPT ![c] = NoCall]
  /\ UNCHANGED <<world, health, current, clock>>

\* Two goroutines are at the map at once and one of them writes: the runtime
\* may notice, and ends the process.
MapFault(c, d) ==
  /\ c # d /\ call[c].at = "flag"
  /\ call[d].at \in {"ask", "flag"} \/ (call[d].at = "count" /\ CanRLock)
  /\ dead' = TRUE
  /\ call' = [k \in Callers |-> NoCall]
  /\ UNCHANGED <<world, health, current, clock>>

-----------------------------------------------------------------------------
(* The monitor, the shutdown and the peers *)

Tick ==
  /\ monitor = "asleep"
  /\ monitor' = "waiting"
  /\ UNCHANGED <<world, health, current, checked, call>>

Lock ==
  /\ monitor = "waiting" /\ \A c \in Callers : ~HoldsReadLock(c)
  /\ monitor' = "checking" /\ checked' = 0
  /\ UNCHANGED <<world, health, current, call>>

\* Mutant: a client that was flagged is not checked again.
CheckHealthyOnly ==
  /\ monitor = "checking" /\ link[checked] # "hung"
  /\ health' = [health EXCEPT ![checked] = @ /\ HealthCheck(checked)]
  /\ IF checked + 1 < NumPeers
     THEN checked' = checked + 1 /\ UNCHANGED monitor
     ELSE checked' = 0 /\ monitor' = "asleep"
  /\ call' = Observed(call, link, holds, health')
  /\ UNCHANGED <<world, current>>

\* One client, with no deadline of its own.
Check ==
  /\ monitor = "checking" /\ link[checked] # "hung"
  /\ health' = [health EXCEPT ![checked] = HealthCheck(checked)]
  /\ IF checked + 1 < NumPeers
     THEN checked' = checked + 1 /\ UNCHANGED monitor
     ELSE checked' = 0 /\ monitor' = "asleep"
  /\ call' = Observed(call, link, holds, health')
  /\ UNCHANGED <<world, current>>

\* Close shuts every connection; the monitor goes on.
Close ==
  /\ monitor # "checking" /\ \A c \in Callers : ~HoldsReadLock(c)
  /\ \E p \in Peers : link[p] # "closed"
  /\ link' = [p \in Peers |-> "closed"]
  /\ UNCHANGED <<holds, changes, health, current, clock, call>>

ChangeLink(p, s) ==
  /\ changes < MaxChanges /\ link[p] \notin {s, "closed"}
  /\ link' = [link EXCEPT ![p] = s]
  /\ changes' = changes + 1
  /\ call' = Observed(call, link', holds, health)
  /\ UNCHANGED <<holds, health, current, clock>>

\* TCP gives a silent connection up at last, and the calls on it fail.
Expire(p) ==
  /\ link[p] = "hung"
  /\ link' = [link EXCEPT ![p] = "down"]
  /\ call' = Observed(call, link', holds, health)
  /\ UNCHANGED <<holds, changes, health, current, clock>>

\* A peer registers or drops the name; Node.AddBlock commits the index first
\* and stores the block after.
ChangeName(p) ==
  /\ changes < MaxChanges /\ holds[p] \in {"none", "stored"}
  /\ holds' = [holds EXCEPT ![p] = IF @ = "none" THEN "indexed" ELSE "none"]
  /\ changes' = changes + 1
  /\ call' = Observed(call, link, holds', health)
  /\ UNCHANGED <<link, health, current, clock>>

StoreBlock(p) ==
  /\ holds[p] = "indexed"
  /\ holds' = [holds EXCEPT ![p] = "stored"]
  /\ call' = Observed(call, link, holds', health)
  /\ UNCHANGED <<link, changes, health, current, clock>>

-----------------------------------------------------------------------------
Step(c) == Count(c) \/ Begin(c) \/ Ask(c) \/ Flag(c) \/ GiveUp(c)

Monitor == Tick \/ Lock \/ Check

Alive(A) == ~dead /\ A /\ UNCHANGED dead

Next ==
  \/ \E c \in Callers :
       \/ Alive(\E op \in Ops : Start(c, op))
       \/ Alive(Step(c))
       \/ ~dead /\ \E d \in Callers : MapFault(c, d)
  \/ Alive(Monitor \/ Close)
  \/ \E p \in Peers :
       \/ Alive(\E s \in {"up", "down", "hung"} : ChangeLink(p, s))
       \/ Alive(Expire(p) \/ ChangeName(p) \/ StoreBlock(p))

\* Goroutines run, the ticker ticks and silent connections end.  A goroutine
\* that waits for the read lock gets it when the monitor unlocks, before the
\* monitor can lock again (sync.RWMutex), hence strong fairness.  Nothing is
\* assumed of new calls or of the peers.
Fairness ==
  /\ \A c \in Callers : SF_vars(Alive(Step(c)))
  /\ WF_vars(Alive(Monitor))
  /\ \A p \in Peers : WF_vars(Alive(Expire(p) \/ StoreBlock(p)))

Spec == Init /\ [][Next]_vars
FairSpec == Spec /\ Fairness

-----------------------------------------------------------------------------
\* A call reports ErrAllPeersDown (pool.go:74, 100) only if no peer could have
\* served it all through its loop, whatever other calls do to p.current and
\* p.health meanwhile.
GiveUpIsJustified ==
  \A c \in Callers :
    call[c].at = "ask" /\ call[c].tried = NumPeers => call[c].steady = {}

\* No two goroutines of the pool wait for each other: every call returns, unless
\* the runtime ends the process.
EveryCallReturns ==
  \A c \in Callers : call[c].at # "idle" ~> call[c].at = "idle"

\* A full node that is up and has the name stored is used again, however it was
\* flagged (pool.go:71, 97, 129), once no broadcast is refused any more.
FlaggedPeerReturns ==
  \A p \in Peers :
    <>[](/\ link[p] = "up" /\ holds[p] = "stored"
         /\ \A c \in Callers : call[c].op # "refused")
      => <>[](health[p] \/ dead)

=============================================================================
