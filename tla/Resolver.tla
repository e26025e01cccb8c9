------------------------------- MODULE Resolver -------------------------------
(***************************************************************************)
(* Name resolution at a full node: ResolveDomain with its cache and its    *)
(* CNAME walk (network/resolver.go, network/cache.go) and the DNS server   *)
(* (network/rfc1035_handler.go).  Callers run side by side; TxMutex is     *)
(* held for one index read at a time, so the index may change between the  *)
(* reads of one walk and before a value that was read is cached.  Answers  *)
(* of other nodes (network/node.go) go into the same cache.                *)
(*                                                                         *)
(* A registration is an address or none (its A records), a CNAME target    *)
(* or none, and whether it is in its active phase.  Time passes in ticks;  *)
(* a call lasts at most one tick.                                          *)
(***************************************************************************)
EXTENDS Integers, FiniteSets

CONSTANTS
  Names,            \* domain names
  Addrs,            \* addresses
  Nothing,          \* no record, no registration
  Choices,          \* Choices[n]: the registrations name n may have
  Questions,        \* the pairs of a name and a type that are asked
  Callers,          \* goroutines that resolve
  CnameDepthLimit,  \* 10 in the code
  TTL,              \* ticks a cache entry lives, 300 seconds in the code
  SlotInterval,     \* seconds of a slot
  Word,             \* the number of values of a uint32
  CacheTTLs         \* values of a transaction's CacheTTL

Entry == [addr : Addrs \cup {Nothing}, cname : Names \cup {Nothing}, active : BOOLEAN]

ASSUME ResolverAssumption ==
  /\ Nothing \notin Names \cup Addrs
  /\ Choices \in [Names -> SUBSET (Entry \cup {Nothing})]
  /\ Questions \subseteq Names \X {"A", "CNAME"} /\ Questions # {}
  /\ {CnameDepthLimit, TTL, SlotInterval} \subseteq Nat \ {0}
  /\ Word \in Nat /\ SlotInterval < Word
  /\ CacheTTLs \subseteq Int

VARIABLES
  zone,   \* zone[n]: the registration the index holds for n, or Nothing
  cache,  \* cache[q]: the cached answer to question q, or Nothing
  call    \* call[c]: the resolution caller c is in

vars == <<zone, cache, call>>

\* An answer in the cache and the ticks since it was cached.  Histories: whether a
\* call or a peer's answer put it there, and the ticks, up to TTL + 2, since the
\* call read it from the index or the peer's answer came.
CacheEntry == [value : Names \cup Addrs, age : 0 .. TTL, read : 0 .. TTL + 2,
               by : {"cache", "peer"}]

\* A call: its question, its control point, the name its walk has reached, the
\* names the walk has visited, its value and the TTL the DNS server gives it.
\* Histories: where the value is from, the ticks since it was read, the ticks of
\* the call, and whether the index has not changed since the call began.
Calls == [ask : Questions, at : {"idle", "index", "walk", "fill", "done"},
          name : Names, visited : SUBSET Names,
          value : Names \cup Addrs \cup {Nothing}, ttl : 0 .. Word,
          from : {"none", "cache", "peer", "index", "server"}, read : 0 .. TTL + 2,
          lag : 0 .. 1, steady : BOOLEAN]

NoCall == [ask |-> CHOOSE q \in Questions : TRUE, at |-> "idle",
           name |-> CHOOSE n \in Names : TRUE, visited |-> {}, value |-> Nothing,
           ttl |-> 0, from |-> "none", read |-> 0, lag |-> 0, steady |-> TRUE]

Init ==
  /\ zone \in {z \in [Names -> UNION {Choices[n] : n \in Names}] :
                 \A n \in Names : z[n] \in Choices[n]}
  /\ cache = [q \in Questions |-> Nothing]
  /\ call = [c \in Callers |-> NoCall]

TypeOK ==
  /\ zone \in [Names -> Entry \cup {Nothing}]
  /\ cache \in [Questions -> CacheEntry \cup {Nothing}]
  /\ call \in [Callers -> Calls]

-----------------------------------------------------------------------------
(* Records *)

\* filterByType
Filtered(e, type) == IF type = "A" THEN e.addr ELSE e.cname

Active(e) == e # Nothing /\ e.active

\* hasCNAME, unless it is the CNAME that is asked for.
Redirects(e, type) == type # "CNAME" /\ e.cname # Nothing

NoAnswer(e, type) ==
  ~Active(e) \/ (~Redirects(e, type) /\ Filtered(e, type) = Nothing)

Returns(c, v) ==
  call' = [call EXCEPT ![c] =
             [@ EXCEPT !.at = "done", !.value = v, !.from = "index", !.lag = 0,
                       !.name = NoCall.name, !.visited = {}]]

-----------------------------------------------------------------------------
(* ResolveDomain *)

\* A call that finds an entry returns at once.
ReturnsCached(c, q) ==
  call' = [call EXCEPT ![c] = [NoCall EXCEPT !.ask = q, !.at = "done",
             !.value = cache[q].value, !.from = cache[q].by, !.read = cache[q].read]]

\* Mutant: a hit makes the entry young again.
HitRefreshes(c, q) ==
  /\ call[c].at = "idle" /\ cache[q] # Nothing
  /\ ReturnsCached(c, q)
  /\ cache' = [cache EXCEPT ![q].age = 0]
  /\ UNCHANGED zone

\* GetFromCache finds an entry.
CacheHit(c, q) ==
  /\ call[c].at = "idle" /\ cache[q] # Nothing
  /\ ReturnsCached(c, q)
  /\ UNCHANGED <<zone, cache>>

CacheMiss(c, q) ==
  /\ call[c].at = "idle" /\ cache[q] = Nothing
  /\ call' = [call EXCEPT ![c] = [NoCall EXCEPT !.ask = q, !.at = "index"]]
  /\ UNCHANGED <<zone, cache>>

\* The first index read: no answer, a walk, or a value to cache.
ReadIndex(c) ==
  LET q == call[c].ask
      e == zone[q[1]]
  IN
  /\ call[c].at = "index"
  /\ \/ NoAnswer(e, q[2]) /\ Returns(c, Nothing)
     \/ /\ ~NoAnswer(e, q[2]) /\ Redirects(e, q[2])
        /\ call' = [call EXCEPT ![c].at = "walk", ![c].name = q[1]]
     \/ /\ ~NoAnswer(e, q[2]) /\ ~Redirects(e, q[2])
        /\ call' = [call EXCEPT ![c].at = "fill", ![c].value = Filtered(e, q[2])]
  /\ UNCHANGED <<zone, cache>>

\* SetToCache, over whatever another call has put there meanwhile.
Fill(c) ==
  /\ call[c].at = "fill"
  /\ cache' = [cache EXCEPT ![call[c].ask] =
                 [value |-> call[c].value, age |-> 0, read |-> call[c].read,
                  by |-> "cache"]]
  /\ Returns(c, call[c].value)
  /\ UNCHANGED zone

\* Mutant: every call of resolveCNAME gets a visited set of its own.
WalkForgets(c) ==
  LET n == call[c].name
      e == zone[n]
  IN
  /\ call[c].at = "walk"
  /\ IF ~Active(e) THEN Returns(c, Nothing)
     ELSE IF e.cname = Nothing THEN Returns(c, Filtered(e, call[c].ask[2]))
     ELSE call' = [call EXCEPT ![c].name = e.cname]
  /\ UNCHANGED <<zone, cache>>

\* Mutant: the limit is checked after the name was added.
WalkShort(c) ==
  LET n == call[c].name
      e == zone[n]
  IN
  /\ call[c].at = "walk"
  /\ IF n \in call[c].visited \/ Cardinality(call[c].visited) + 1 >= CnameDepthLimit
     THEN Returns(c, Nothing)
     ELSE IF ~Active(e) THEN Returns(c, Nothing)
     ELSE IF e.cname = Nothing THEN Returns(c, Filtered(e, call[c].ask[2]))
     ELSE call' = [call EXCEPT ![c].name = e.cname, ![c].visited = @ \cup {n}]
  /\ UNCHANGED <<zone, cache>>

\* One call of resolveCNAME.
Walk(c) ==
  LET n == call[c].name
      e == zone[n]
  IN
  /\ call[c].at = "walk"
  /\ IF n \in call[c].visited \/ Cardinality(call[c].visited) >= CnameDepthLimit
     THEN Returns(c, Nothing)
     ELSE IF ~Active(e) THEN Returns(c, Nothing)
     ELSE IF e.cname = Nothing THEN Returns(c, Filtered(e, call[c].ask[2]))
     ELSE call' = [call EXCEPT ![c].name = e.cname, ![c].visited = @ \cup {n}]
  /\ UNCHANGED <<zone, cache>>

-----------------------------------------------------------------------------
(* RFC1035Handler *)

\* Mutant: zero is passed on.
CapOnlyAbove(ttl) == IF ttl > SlotInterval THEN SlotInterval ELSE ttl

\* capTTL
CapTTL(ttl) == IF ttl = 0 \/ ttl > SlotInterval THEN SlotInterval ELSE ttl

\* buildARecords, buildCNAMERecords and the others: the records of the type asked
\* for, all of which parse.
BuildRecords(e, type) == CASE type = "A" -> e.addr [] type = "CNAME" -> e.cname

\* HandleDNSQuery: the index alone, no cache and no walk.  A CacheTTL is converted
\* to a uint32 before it is capped.
HandleDNSQuery(c, q, cacheTTL) ==
  /\ call[c].at = "idle"
  /\ call' = [call EXCEPT ![c] =
       [NoCall EXCEPT !.ask = q, !.at = "done", !.from = "server",
          !.ttl = CapTTL(cacheTTL % Word),
          !.value = IF Active(zone[q[1]]) THEN BuildRecords(zone[q[1]], q[2])
                    ELSE Nothing]]
  /\ UNCHANGED <<zone, cache>>

-----------------------------------------------------------------------------
Leave(c) ==
  /\ call[c].at = "done"
  /\ call' = [call EXCEPT ![c] = NoCall]
  /\ UNCHANGED <<zone, cache>>

\* A block changes a registration, or its active phase ends.
ChangeZone(n, e) ==
  /\ e \in Choices[n] \ {zone[n]}
  /\ zone' = [zone EXCEPT ![n] = e]
  /\ call' = [c \in Callers |->
                 [call[c] EXCEPT !.steady = call[c].at = "idle"
                                              \/ call[c].from \in {"cache", "peer", "server"}]]
  /\ UNCHANGED cache

\* DNSResponseHandler: the address another node found in its own index goes into
\* the cache, asked for or not.  That index may be ahead or behind, and the message
\* late, so it is any address a registration of n may have.
DNSResponseHandler(n, v) ==
  /\ <<n, "A">> \in Questions
  /\ \E e \in Choices[n] : Active(e) /\ e.addr = v
  /\ cache' = [cache EXCEPT ![<<n, "A">>] =
                 [value |-> v, age |-> 0, read |-> 0, by |-> "peer"]]
  /\ UNCHANGED <<zone, call>>

Busy(c) == call[c].at \notin {"idle", "done"}

\* GetFromCache deletes an entry it finds expired; here it is gone when it expires.
Aged(e) ==
  IF e = Nothing \/ e.age = TTL THEN Nothing
  ELSE [e EXCEPT !.age = @ + 1, !.read = IF @ = TTL + 2 THEN @ ELSE @ + 1]

Tick ==
  /\ \A c \in Callers : call[c].lag = 0
  /\ cache' = [q \in Questions |-> Aged(cache[q])]
  /\ call' = [c \in Callers |->
                 IF Busy(c)
                 THEN [call[c] EXCEPT !.lag = 1,
                                      !.read = IF call[c].at = "fill" THEN 1 ELSE 0]
                 ELSE call[c]]
  /\ UNCHANGED zone

Step(c) == ReadIndex(c) \/ Fill(c) \/ Walk(c) \/ Leave(c)

Next ==
  \/ \E c \in Callers :
       \/ Step(c)
       \/ \E q \in Questions :
            \/ CacheHit(c, q) \/ CacheMiss(c, q)
            \/ \E t \in CacheTTLs : HandleDNSQuery(c, q, t)
  \/ \E n \in Names : \E e \in Choices[n] : ChangeZone(n, e)
  \/ \E n \in Names, v \in Addrs : DNSResponseHandler(n, v)
  \/ Tick

\* Goroutines run and time passes.  Nothing is assumed of new questions, of the
\* index or of peers.
Fairness ==
  /\ \A c \in Callers : WF_vars(Step(c))
  /\ SF_vars(Tick)

Spec == Init /\ [][Next]_vars
FairSpec == Spec /\ Fairness

-----------------------------------------------------------------------------
Done(c) == call[c].at = "done"

\* The chains of CNAMEs from n: as the index stands, n leads to the address v over
\* at most CnameDepthLimit names.
LeadsTo(n, v) ==
  \E k \in 0 .. CnameDepthLimit - 1 : \E h \in [0 .. k -> Names] :
    /\ h[0] = n
    /\ \A i \in 0 .. k : Active(zone[h[i]])
    /\ \A i \in 0 .. k - 1 : zone[h[i]].cname = h[i + 1]
    /\ zone[h[k]].cname = Nothing /\ zone[h[k]].addr = v

\* What the question has for an answer, as the index stands.
Truth(q) ==
  IF q[2] = "CNAME"
  THEN IF Active(zone[q[1]]) THEN zone[q[1]].cname ELSE Nothing
  ELSE IF \E v \in Addrs : LeadsTo(q[1], v) THEN CHOOSE v \in Addrs : LeadsTo(q[1], v)
  ELSE Nothing

\* The walk of resolveCNAME (resolver.go:88-122) finds the end of a chain of at
\* most cnameDepthLimit names and nothing else, loops included: an answer read
\* from an index that has not changed since the call began is the truth.
WalkIsExact ==
  \A c \in Callers :
    Done(c) /\ call[c].from = "index" /\ call[c].steady
      => call[c].value = Truth(call[c].ask)

\* Whatever calls and peers put into the cache meanwhile, an answer was read from
\* the index no longer ago than a cache entry lives and a call lasts, or is a
\* peer's that came no longer ago than an entry lives (cache.go:27-49,
\* node.go:627-631).  How old a peer's answer was when it came is unknown.
AnswersAreRecent ==
  \A c \in Callers :
    Done(c) => call[c].read <= IF call[c].from = "peer" THEN TTL ELSE TTL + 1

\* The TTL of an answer of the DNS server (rfc1035_handler.go:105-111) is positive
\* and at most a slot, for every value of CacheTTL.
ServedTTLBounded ==
  \A c \in Callers : call[c].from = "server" => call[c].ttl \in 1 .. SlotInterval

\* Every resolution returns, even while CNAMEs change under its walk.
EveryWalkEnds == \A c \in Callers : Busy(c) ~> ~Busy(c)

\* Peers answer what the index holds.
PeersAgree == \A n \in Names, v \in Addrs : DNSResponseHandler(n, v) => v = Truth(<<n, "A">>)

\* Once the index no longer changes and peers that answer have caught up with it,
\* answers from the cache come to agree with it: a stale entry cannot keep itself
\* alive (resolver.go:19-72, cache.go:27-49).
CacheHeals ==
  <>[][UNCHANGED zone /\ PeersAgree]_<<zone, cache>>
    => <>[](\A c \in Callers : Done(c) /\ call[c].from \in {"cache", "peer"}
                                => call[c].value = Truth(call[c].ask))

=============================================================================
