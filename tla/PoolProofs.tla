------------------------------ MODULE PoolProofs ------------------------------
(***************************************************************************)
(* Theorems about the pool of gateway clients, for every number of peers   *)
(* and every set of callers.                                               *)
(***************************************************************************)
EXTENDS ConnectionPool, TLAPS

-----------------------------------------------------------------------------
(* The order in which a call visits the clients *)

\* The clients a call has passed: the first k.tried of its round.
Passed(k) == {(k.start + i) % NumPeers : i \in 0 .. k.tried - 1}

\* A remainder by the number of peers is a peer.
LEMMA RemainderIsPeer == \A x \in Int : x % NumPeers \in Peers
BY PoolAssumption DEF Peers

\* The remainders met within two rounds.
LEMMA Remainders ==
  \A x \in Peers : x % NumPeers = x /\ (x + NumPeers) % NumPeers = x
BY PoolAssumption DEF Peers

\* A full round passes every client, wherever it starts.
LEMMA RoundIsComplete ==
  ASSUME NEW k \in Calls, k.tried = NumPeers
  PROVE  Peers \subseteq Passed(k)
<1> SUFFICES ASSUME NEW p \in Peers PROVE p \in Passed(k)
  OBVIOUS
<1> DEFINE s == k.start
<1>1. s \in Peers
  BY DEF Calls
<1>2. CASE s <= p
  <2>1. p - s \in 0 .. NumPeers - 1 /\ s + (p - s) = p
    BY <1>1, <1>2, PoolAssumption DEF Peers
  <2> QED
    BY <2>1, Remainders DEF Passed
<1>3. CASE p < s
  <2>1. /\ (p + NumPeers) - s \in 0 .. NumPeers - 1
        /\ s + ((p + NumPeers) - s) = p + NumPeers
    BY <1>1, <1>3, PoolAssumption DEF Peers
  <2> QED
    BY <2>1, Remainders DEF Passed
<1> QED
  BY <1>1, <1>2, <1>3, PoolAssumption DEF Peers

\* One more round of the loop passes one more client.
LEMMA OneMorePassed ==
  ASSUME NEW k \in Calls, NEW j \in Calls,
         j.start = k.start, j.tried = k.tried + 1
  PROVE  Passed(j) \subseteq Passed(k) \cup {Client(k)}
<1>1. k.tried \in Nat /\ j.tried - 1 = k.tried
  BY PoolAssumption DEF Calls
<1>2. \A i \in 0 .. k.tried : i \in 0 .. k.tried - 1 \/ i = k.tried
  BY <1>1
<1> QED
  BY <1>1, <1>2 DEF Passed, Client

-----------------------------------------------------------------------------
(* The invariant *)

\* What holds of a call in its loop: the peers still counted as steady could
\* serve it as connections, names and flags stand, and none was passed over.
LoopOK(k, ln, hs, hl) ==
  Looping(k) => /\ \A p \in k.steady : CouldServe(k.op, p, ln, hs, hl)
                /\ k.steady \cap Passed(k) = {}

\* Before its loop a call has passed no client; a call that is about to flag a
\* client is still within its round.
ControlOK(k) ==
  /\ ~Looping(k) => k.tried = 0
  /\ k.at = "flag" => k.tried < NumPeers

CallOK(k, ln, hs, hl) == k \in Calls /\ ControlOK(k) /\ LoopOK(k, ln, hs, hl)

PoolInv ==
  /\ TypeOK
  /\ \A c \in Callers : CallOK(call[c], link, holds, health)

\* No call at all.
LEMMA NoCallOK == \A ln, hs, hl : CallOK(NoCall, ln, hs, hl)
BY PoolAssumption DEF CallOK, NoCall, Calls, ControlOK, LoopOK, Looping, Ops, Peers

\* Bringing the histories up to date keeps a call in order, if no client it has
\* passed could serve it any more.
LEMMA ObservedOK ==
  ASSUME NEW calls \in [Callers -> Calls], NEW ln, NEW hs, NEW hl,
         \A c \in Callers :
           /\ ControlOK(calls[c])
           /\ Looping(calls[c]) =>
                \A p \in calls[c].steady \cap Passed(calls[c]) :
                  ~CouldServe(calls[c].op, p, ln, hs, hl)
  PROVE  /\ Observed(calls, ln, hs, hl) \in [Callers -> Calls]
         /\ \A c \in Callers : CallOK(Observed(calls, ln, hs, hl)[c], ln, hs, hl)
<1> DEFINE after == Observed(calls, ln, hs, hl)
<1>1. ASSUME NEW c \in Callers PROVE CallOK(after[c], ln, hs, hl)
  <2> DEFINE k == calls[c]
             kept == {p \in k.steady : CouldServe(k.op, p, ln, hs, hl)}
  <2>1. k \in Calls /\ kept \in SUBSET Peers
    BY DEF Calls
  <2>2. CASE ~Looping(k)
    BY <2>1, <2>2 DEF Observed, CallOK, LoopOK
  <2>3. CASE Looping(k)
    <3>1. after[c] = [k EXCEPT !.steady = kept]
      BY <2>3 DEF Observed
    <3>2. /\ after[c] \in Calls /\ after[c].steady = kept /\ after[c].op = k.op
          /\ after[c].at = k.at /\ after[c].start = k.start /\ after[c].tried = k.tried
      BY <2>1, <3>1 DEF Calls
    <3>3. Passed(after[c]) = Passed(k) /\ ControlOK(after[c])
      BY <3>2 DEF Passed, ControlOK, Looping
    <3>4. kept \cap Passed(k) = {}
      BY <2>3
    <3> QED
      BY <3>2, <3>3, <3>4 DEF CallOK, LoopOK
  <2> QED
    BY <2>2, <2>3
<1>2. after \in [Callers -> Calls]
  BY <1>1 DEF CallOK, Observed
<1> QED
  BY <1>1, <1>2

\* A step that leaves the calls to Observed keeps the invariant of every call.
LEMMA WorldMoves ==
  ASSUME PoolInv, NEW ln, NEW hs, NEW hl
  PROVE  /\ Observed(call, ln, hs, hl) \in [Callers -> Calls]
         /\ \A c \in Callers : CallOK(Observed(call, ln, hs, hl)[c], ln, hs, hl)
BY ObservedOK DEF PoolInv, TypeOK, CallOK, LoopOK

\* The types of everything but the calls.
Rest ==
  /\ link \in [Peers -> {"up", "down", "hung", "closed"}]
  /\ holds \in [Peers -> {"none", "indexed", "stored"}]
  /\ health \in [Peers -> BOOLEAN]
  /\ current \in Peers
  /\ monitor \in {"asleep", "waiting", "checking"} /\ checked \in Peers
  /\ dead \in BOOLEAN
  /\ changes \in 0 .. MaxChanges

\* The invariant is the types of the rest and one fact per call.
LEMMA InvParts ==
  PoolInv <=> /\ Rest /\ call \in [Callers -> Calls]
              /\ \A c \in Callers : CallOK(call[c], link, holds, health)
BY DEF PoolInv, TypeOK, Rest

\* A step that changes one call, and nothing calls depend on.
LEMMA OneCall ==
  ASSUME PoolInv, Rest', UNCHANGED <<link, holds, health>>,
         NEW c \in Callers, NEW k, call' = [call EXCEPT ![c] = k],
         CallOK(k, link, holds, health)
  PROVE  PoolInv'
<1>1. k \in Calls
  BY DEF CallOK
<1>2. call' \in [Callers -> Calls] /\ \A d \in Callers : call'[d] = IF d = c THEN k ELSE call[d]
  BY <1>1, InvParts
<1>3. \A d \in Callers : CallOK(call'[d], link, holds, health)
  BY <1>2, InvParts
<1> QED
  BY <1>2, <1>3 DEF PoolInv, TypeOK, Rest

-----------------------------------------------------------------------------
(* The actions of a call *)

\* A call that starts is not in its loop yet.
LEMMA StartKeeps ==
  ASSUME PoolInv, NEW c \in Callers, NEW op \in Ops, Start(c, op), UNCHANGED dead
  PROVE  PoolInv'
<1> DEFINE k == [NoCall EXCEPT !.op = op, !.at = IF op = "verify" THEN "count" ELSE "begin"]
<1>1. CallOK(k, link, holds, health)
  <2>1. NoCall \in Calls /\ NoCall.tried = 0
    BY NoCallOK DEF CallOK, NoCall
  <2>2. k \in Calls /\ k.tried = 0 /\ k.at \in {"count", "begin"}
    BY <2>1 DEF Calls
  <2> QED
    BY <2>2 DEF CallOK, ControlOK, LoopOK, Looping
<1>2. Rest'
  BY InvParts DEF Rest, Start, world, clock
<1> QED
  BY <1>1, <1>2, OneCall DEF Start, world

\* The count of healthy clients ends the call or lets it go on to its query.
LEMMA CountKeeps ==
  ASSUME PoolInv, NEW c \in Callers, Count(c), UNCHANGED dead
  PROVE  PoolInv'
<1> DEFINE k == IF Cardinality({p \in Peers : health[p]}) < 2 THEN NoCall
                ELSE [call[c] EXCEPT !.at = "begin"]
<1>1. call[c] \in Calls /\ ControlOK(call[c]) /\ call[c].at = "count"
  BY InvParts DEF CallOK, Count
<1>2. CallOK([call[c] EXCEPT !.at = "begin"], link, holds, health)
  BY <1>1 DEF CallOK, Calls, ControlOK, LoopOK, Looping
<1>3. CallOK(k, link, holds, health)
  BY <1>2, NoCallOK
<1>4. Rest'
  BY InvParts DEF Rest, Count, world, clock
<1>5. call' = [call EXCEPT ![c] = k]
  BY DEF Count
<1> QED
  BY <1>3, <1>4, <1>5, OneCall DEF Count, world

\* A loop that begins has passed no client.
LEMMA BeginKeeps ==
  ASSUME PoolInv, NEW c \in Callers, Begin(c), UNCHANGED dead
  PROVE  PoolInv'
<1> DEFINE k == [call[c] EXCEPT !.at = "ask", !.start = current, !.steady = Peers]
           calls == [call EXCEPT ![c] = k]
<1>1. call[c] \in Calls /\ call[c].tried = 0 /\ current \in Peers
  BY InvParts DEF CallOK, ControlOK, Looping, Begin, Rest
<1>2. k \in Calls /\ k.tried = 0 /\ k.at = "ask"
  BY <1>1 DEF Calls
<1>3. ControlOK(k) /\ Passed(k) = {}
  BY <1>2 DEF ControlOK, Looping, Passed
<1>4. /\ calls \in [Callers -> Calls] /\ calls[c] = k
      /\ \A d \in Callers \ {c} : calls[d] = call[d]
  BY <1>2, InvParts
<1>5. \A d \in Callers : /\ ControlOK(calls[d])
                         /\ Looping(calls[d]) => calls[d].steady \cap Passed(calls[d]) = {}
  BY <1>3, <1>4, InvParts DEF CallOK, LoopOK
<1>6. call' = Observed(calls, link, holds, health)
  BY <1>1 DEF Begin
<1>7. Rest' /\ UNCHANGED <<link, holds, health>>
  BY InvParts DEF Rest, Begin, world, clock
<1>8. /\ call' \in [Callers -> Calls]
      /\ \A d \in Callers : CallOK(call'[d], link, holds, health)
  <2> HIDE DEF calls
  <2> QED
    BY <1>4, <1>5, <1>6, ObservedOK
<1> QED
  BY <1>7, <1>8 DEF PoolInv, TypeOK, Rest

\* One round of the loop: a client that is skipped is flagged, so it was not
\* among the steady ones.
LEMMA AskKeeps ==
  ASSUME PoolInv, NEW c \in Callers, Ask(c), UNCHANGED dead
  PROVE  PoolInv'
<1> DEFINE p == Client(call[c])
<1>1. /\ CallOK(call[c], link, holds, health) /\ call[c] \in Calls
      /\ call[c].at = "ask" /\ call[c].tried < NumPeers
  BY InvParts DEF CallOK, Ask
<1>2. p \in Peers
  BY <1>1, RemainderIsPeer, PoolAssumption DEF Client, Calls, Peers
<1>3. CASE Skip(c, p)
  <2> DEFINE k == [call[c] EXCEPT !.tried = @ + 1]
  <2>1. /\ k \in Calls /\ k.at = "ask" /\ k.start = call[c].start /\ k.op = call[c].op
        /\ k.tried = call[c].tried + 1 /\ k.steady = call[c].steady
    BY <1>1, PoolAssumption DEF Calls
  <2>2. p \notin call[c].steady
    BY <1>1, <1>3 DEF CallOK, LoopOK, Looping, CouldServe, Skip
  <2>3. Passed(k) \subseteq Passed(call[c]) \cup {p}
    BY <1>1, <2>1, OneMorePassed
  <2>4. CallOK(k, link, holds, health)
    BY <1>1, <2>1, <2>2, <2>3 DEF CallOK, ControlOK, LoopOK, Looping
  <2>5. Rest' /\ UNCHANGED <<link, holds, health>>
    BY <1>3, InvParts DEF Rest, Skip, world, clock
  <2>6. call' = [call EXCEPT ![c] = k]
    BY <1>1, <1>3, InvParts DEF Skip
  <2> QED
    BY <2>4, <2>5, <2>6, OneCall
<1>4. CASE Served(c, p) \/ Absent(c, p)
  <2>1. Rest' /\ UNCHANGED <<link, holds, health>>
    BY <1>2, <1>4, InvParts DEF Rest, Served, Absent, world, clock
  <2>2. call' = [call EXCEPT ![c] = NoCall]
    BY <1>4 DEF Served, Absent
  <2> QED
    BY <2>1, <2>2, NoCallOK, OneCall
<1>5. CASE Fails(c, p)
  <2> DEFINE k == [call[c] EXCEPT !.at = "flag"]
  <2>1. /\ k \in Calls /\ k.at = "flag" /\ k.start = call[c].start /\ k.op = call[c].op
        /\ k.tried = call[c].tried /\ k.steady = call[c].steady
    BY <1>1 DEF Calls
  <2>2. Passed(k) = Passed(call[c])
    BY <2>1 DEF Passed
  <2>3. CallOK(k, link, holds, health)
    BY <1>1, <2>1, <2>2 DEF CallOK, ControlOK, LoopOK, Looping
  <2>4. Rest' /\ UNCHANGED <<link, holds, health>>
    BY <1>5, InvParts DEF Rest, Fails, world, clock
  <2>5. call' = [call EXCEPT ![c] = k]
    BY <1>1, <1>5, InvParts DEF Fails
  <2> QED
    BY <2>3, <2>4, <2>5, OneCall
<1> QED
  BY <1>3, <1>4, <1>5 DEF Ask

\* Flagging a client takes it out of every steady set before the call passes it.
LEMMA FlagKeeps ==
  ASSUME PoolInv, NEW c \in Callers, Flag(c), UNCHANGED dead
  PROVE  PoolInv'
<1> DEFINE p == Client(call[c])
           k == [call[c] EXCEPT !.at = "ask", !.tried = @ + 1]
           calls == [call EXCEPT ![c] = k]
<1>1. /\ CallOK(call[c], link, holds, health) /\ call[c] \in Calls
      /\ call[c].at = "flag" /\ call[c].tried < NumPeers
  BY InvParts DEF CallOK, ControlOK, Flag
<1>2. p \in Peers
  BY <1>1, RemainderIsPeer, PoolAssumption DEF Client, Calls, Peers
<1>3. /\ k \in Calls /\ k.at = "ask" /\ k.start = call[c].start /\ k.op = call[c].op
      /\ k.tried = call[c].tried + 1 /\ k.steady = call[c].steady
  <2>1. call[c].tried + 1 \in 0 .. NumPeers
    BY <1>1, PoolAssumption DEF Calls
  <2> QED
    BY <1>1, <2>1 DEF Calls
<1>4. Passed(k) \subseteq Passed(call[c]) \cup {p}
  BY <1>1, <1>3, OneMorePassed
<1>5. health' = [health EXCEPT ![p] = FALSE] /\ ~health'[p] /\ Rest'
  BY <1>2, InvParts DEF Rest, Flag, world, clock
<1>6. ControlOK(k)
  BY <1>3 DEF ControlOK, Looping
<1>7. \A q \in k.steady \cap Passed(k) : ~CouldServe(k.op, q, link, holds, health')
  BY <1>1, <1>3, <1>4, <1>5 DEF CallOK, LoopOK, Looping, CouldServe
<1>8. /\ calls \in [Callers -> Calls] /\ calls[c] = k
      /\ \A d \in Callers \ {c} : calls[d] = call[d]
  BY <1>3, InvParts
<1>9. \A d \in Callers :
        /\ ControlOK(calls[d])
        /\ Looping(calls[d]) =>
             \A q \in calls[d].steady \cap Passed(calls[d]) :
               ~CouldServe(calls[d].op, q, link, holds, health')
  BY <1>6, <1>7, <1>8, InvParts DEF CallOK, LoopOK
<1>10. call' = Observed(calls, link, holds, health') /\ UNCHANGED <<link, holds>>
  BY <1>1 DEF Flag, world
<1>11. /\ call' \in [Callers -> Calls]
       /\ \A d \in Callers : CallOK(call'[d], link, holds, health')
  <2> HIDE DEF calls
  <2> QED
    BY <1>8, <1>9, <1>10, ObservedOK
<1> QED
  BY <1>5, <1>10, <1>11 DEF PoolInv, TypeOK, Rest

\* A call that gives up is over, and so are all calls after a fault.
LEMMA EndKeeps ==
  ASSUME PoolInv, NEW c \in Callers,
         \/ GiveUp(c) /\ UNCHANGED dead
         \/ \E d \in Callers : MapFault(c, d)
  PROVE  PoolInv'
<1>1. Rest' /\ UNCHANGED <<link, holds, health>>
  BY InvParts DEF Rest, GiveUp, MapFault, world, clock
<1>2. CASE GiveUp(c)
  <2>1. call' = [call EXCEPT ![c] = NoCall]
    BY <1>2 DEF GiveUp
  <2> QED
    BY <1>1, <2>1, NoCallOK, OneCall
<1>3. CASE \E d \in Callers : MapFault(c, d)
  <2>1. call' = [d \in Callers |-> NoCall]
    BY <1>3 DEF MapFault
  <2>2. /\ call' \in [Callers -> Calls]
        /\ \A d \in Callers : CallOK(call'[d], link, holds, health)
    BY <2>1, NoCallOK DEF CallOK
  <2> QED
    BY <1>1, <2>2 DEF PoolInv, TypeOK, Rest
<1> QED
  BY <1>2, <1>3

-----------------------------------------------------------------------------
(* The monitor, the shutdown and the peers *)

\* The monitor waits and locks without touching the map.
LEMMA MonitorWaits ==
  ASSUME PoolInv, Tick \/ Lock, UNCHANGED dead
  PROVE  PoolInv'
<1>1. Rest'
  BY InvParts, PoolAssumption DEF Rest, Tick, Lock, world, Peers
<1>2. UNCHANGED <<link, holds, health, call>>
  BY DEF Tick, Lock, world
<1> QED
  BY <1>1, <1>2, InvParts DEF PoolInv, TypeOK, Rest

\* A check sets one flag, and the calls observe it.
LEMMA CheckKeeps ==
  ASSUME PoolInv, Check, UNCHANGED dead
  PROVE  PoolInv'
<1>1. Rest'
  <2>1. health' \in [Peers -> BOOLEAN]
    BY InvParts DEF Rest, Check, HealthCheck
  <2>2. monitor' \in {"asleep", "waiting", "checking"} /\ checked' \in Peers
    BY InvParts, PoolAssumption DEF Rest, Check, Peers
  <2> QED
    BY <2>1, <2>2, InvParts DEF Rest, Check, world
<1>2. call' = Observed(call, link, holds, health') /\ UNCHANGED <<link, holds>>
  BY DEF Check, world
<1>3. /\ call' \in [Callers -> Calls]
      /\ \A c \in Callers : CallOK(call'[c], link, holds, health')
  BY <1>2, WorldMoves
<1> QED
  BY <1>1, <1>2, <1>3 DEF PoolInv, TypeOK, Rest

\* The connections are closed under the write lock: no call is in its loop.
LEMMA CloseKeeps ==
  ASSUME PoolInv, Close, UNCHANGED dead
  PROVE  PoolInv'
<1>1. Rest'
  BY InvParts DEF Rest, Close, clock
<1>2. call' = call /\ \A c \in Callers : ~Looping(call[c])
  BY DEF Close, HoldsReadLock
<1>3. \A c \in Callers : CallOK(call'[c], link', holds', health')
  BY <1>2, InvParts DEF CallOK, LoopOK
<1> QED
  BY <1>1, <1>2, <1>3, InvParts DEF PoolInv, TypeOK, Rest

\* Connections and names change, and the calls observe it.
LEMMA PeersKeep ==
  ASSUME PoolInv, UNCHANGED dead, NEW p \in Peers,
         \/ \E s \in {"up", "down", "hung"} : ChangeLink(p, s)
         \/ Expire(p) \/ ChangeName(p) \/ StoreBlock(p)
  PROVE  PoolInv'
<1> DEFINE links == {"up", "down", "hung", "closed"}
           names == {"none", "indexed", "stored"}
<1>1. link' \in [Peers -> links] /\ holds' \in [Peers -> names]
  <2>1. link \in [Peers -> links] /\ holds \in [Peers -> names]
    BY InvParts DEF Rest
  <2>2. CASE \E s \in {"up", "down", "hung"} : ChangeLink(p, s)
    BY <2>1, <2>2 DEF ChangeLink
  <2>3. CASE Expire(p)
    BY <2>1, <2>3 DEF Expire
  <2>4. CASE ChangeName(p)
    BY <2>1, <2>4 DEF ChangeName
  <2>5. CASE StoreBlock(p)
    BY <2>1, <2>5 DEF StoreBlock
  <2> QED
    BY <2>2, <2>3, <2>4, <2>5
<1>2. changes' \in 0 .. MaxChanges
  BY InvParts, PoolAssumption DEF Rest, ChangeLink, Expire, ChangeName, StoreBlock
<1>3. UNCHANGED <<health, current, monitor, checked>>
  BY DEF ChangeLink, Expire, ChangeName, StoreBlock, clock
<1>4. call' = Observed(call, link', holds', health')
  BY <1>3 DEF ChangeLink, Expire, ChangeName, StoreBlock
<1>5. /\ call' \in [Callers -> Calls]
      /\ \A c \in Callers : CallOK(call'[c], link', holds', health')
  BY <1>4, WorldMoves
<1> QED
  BY <1>1, <1>2, <1>3, <1>5, InvParts DEF PoolInv, TypeOK, Rest

-----------------------------------------------------------------------------
(* The theorems *)

\* The pool keeps PoolInv, whatever callers, the monitor and the peers do.
THEOREM PoolInvHolds == Spec => []PoolInv
<1>1. Init => PoolInv
  <2> SUFFICES ASSUME Init PROVE PoolInv
    OBVIOUS
  <2>1. Rest
    <3>1. 0 \in Peers /\ 0 \in 0 .. MaxChanges
      BY PoolAssumption DEF Peers
    <3>2. link \in [Peers -> {"up", "down", "hung", "closed"}]
      BY DEF Init
    <3>3. health \in [Peers -> BOOLEAN] /\ dead \in BOOLEAN
      BY DEF Init
    <3> QED
      BY <3>1, <3>2, <3>3 DEF Init, Rest
  <2>2. call = [c \in Callers |-> NoCall]
    BY DEF Init
  <2>3. /\ call \in [Callers -> Calls]
        /\ \A c \in Callers : CallOK(call[c], link, holds, health)
    BY <2>2, NoCallOK DEF CallOK
  <2> QED
    BY <2>1, <2>3, InvParts
<1>2. PoolInv /\ [Next]_vars => PoolInv'
  <2> SUFFICES ASSUME PoolInv, [Next]_vars PROVE PoolInv'
    OBVIOUS
  <2>1. ASSUME NEW c \in Callers, NEW op \in Ops, Start(c, op), UNCHANGED dead
        PROVE  PoolInv'
    BY <2>1, StartKeeps
  <2>2. ASSUME NEW c \in Callers, Step(c), UNCHANGED dead PROVE PoolInv'
    BY <2>2, CountKeeps, BeginKeeps, AskKeeps, FlagKeeps, EndKeeps DEF Step
  <2>3. ASSUME NEW c \in Callers, NEW d \in Callers, MapFault(c, d) PROVE PoolInv'
    BY <2>3, EndKeeps
  <2>4. ASSUME Monitor \/ Close, UNCHANGED dead PROVE PoolInv'
    BY <2>4, MonitorWaits, CheckKeeps, CloseKeeps DEF Monitor
  <2>5. ASSUME NEW p \in Peers, UNCHANGED dead,
               \/ \E s \in {"up", "down", "hung"} : ChangeLink(p, s)
               \/ Expire(p) \/ ChangeName(p) \/ StoreBlock(p)
        PROVE  PoolInv'
    BY <2>5, PeersKeep
  <2>6. CASE UNCHANGED vars
    BY <2>6, InvParts DEF vars, PoolInv, TypeOK
  <2> QED
    BY <2>1, <2>2, <2>3, <2>4, <2>5, <2>6 DEF Next, Alive
<1> QED
  BY <1>1, <1>2, PTL DEF Spec

\* ErrAllPeersDown (pool.go:74, 100) is reported only when no peer could have
\* served the call all through its loop, for every number of peers and callers:
\* a steady peer was not passed, and a full round passes all.
THEOREM GivingUpIsJustified == Spec => []GiveUpIsJustified
<1>1. PoolInv => GiveUpIsJustified
  <2> SUFFICES ASSUME PoolInv, NEW c \in Callers,
                      call[c].at = "ask", call[c].tried = NumPeers
               PROVE  call[c].steady = {}
    BY DEF GiveUpIsJustified
  <2>1. /\ call[c] \in Calls /\ call[c].steady \subseteq Peers
        /\ call[c].steady \cap Passed(call[c]) = {}
    BY InvParts DEF CallOK, LoopOK, Looping, Calls
  <2> QED
    BY <2>1, RoundIsComplete
<1> QED
  BY <1>1, PoolInvHolds, PTL

=============================================================================
