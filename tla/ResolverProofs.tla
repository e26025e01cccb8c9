---------------------------- MODULE ResolverProofs ----------------------------
(***************************************************************************)
(* Theorems about name resolution, for every set of names, every limit on  *)
(* the depth of a walk and every number of callers: the walk of            *)
(* resolveCNAME is exact, answers are recent and served TTLs bounded.      *)
(***************************************************************************)
EXTENDS Resolver, FiniteSetTheorems, WellFoundedInduction, TLAPS

-----------------------------------------------------------------------------
(* Induction up to a bound, for sets *)

\* A set that contains 0 and with every number below m its successor contains
\* all numbers up to m.
LEMMA InductionUpTo ==
  ASSUME NEW m \in Nat, NEW S, 0 \in S,
         \A i \in 0 .. m - 1 : i \in S => i + 1 \in S
  PROVE  0 .. m \subseteq S
<1> DEFINE R == OpToRel(<, Nat)
           T == (0 .. m) \ S
<1>1. SUFFICES ASSUME T # {} PROVE FALSE
  OBVIOUS
<1>2. IsWellFoundedOn(R, Nat)
  BY NatLessThanWellFounded
<1>3. \A a, b \in Nat : a < b => <<a, b>> \in R
  BY DEF OpToRel
<1> HIDE DEF R
<1>4. PICK x \in T : \A y \in T : ~ (<<y, x>> \in R)
  <2>1. T \subseteq Nat
    OBVIOUS
  <2> HIDE DEF T
  <2> QED
    BY <1>1, <1>2, <2>1, WFMin
<1>5. x \in 1 .. m /\ x - 1 \in 0 .. m - 1 /\ (x - 1) + 1 = x /\ x - 1 < x
  BY <1>4
<1>6. <<x - 1, x>> \in R
  BY <1>3, <1>5
<1>7. x - 1 \in S
  BY <1>4, <1>5, <1>6
<1> QED
  BY <1>4, <1>5, <1>7

-----------------------------------------------------------------------------
(* Chains of CNAMEs *)

\* g is a chain of k redirections from name n, as zone z stands.
IsChain(z, g, k, n) ==
  /\ g \in [0 .. k -> Names] /\ g[0] = n
  /\ \A i \in 0 .. k : Active(z[g[i]])
  /\ \A i \in 0 .. k - 1 : z[g[i]].cname = g[i + 1]
  /\ z[g[k]].cname = Nothing

\* The definitions of the model with the zone as an argument.
LeadsToIn(z, n, v) ==
  \E k \in 0 .. CnameDepthLimit - 1 : \E g \in [0 .. k -> Names] :
    IsChain(z, g, k, n) /\ z[g[k]].addr = v

TruthIn(z, q) ==
  IF q[2] = "CNAME"
  THEN IF Active(z[q[1]]) THEN z[q[1]].cname ELSE Nothing
  ELSE IF \E v \in Addrs : LeadsToIn(z, q[1], v)
       THEN CHOOSE v \in Addrs : LeadsToIn(z, q[1], v)
       ELSE Nothing

\* They agree with the model's.
LEMMA TruthIsIn == \A q : Truth(q) = TruthIn(zone, q)
<1>1. \A n, v : LeadsTo(n, v) <=> LeadsToIn(zone, n, v)
  BY DEF LeadsTo, LeadsToIn, IsChain
<1> QED
  BY <1>1 DEF Truth, TruthIn

\* The walk from start has visited vis and reached name along h.
Follows(z, h, start, vis, name) ==
  LET m == Cardinality(vis) IN
  /\ h \in [0 .. m -> Names] /\ h[0] = start /\ h[m] = name
  /\ \A i \in 0 .. m - 1 : Active(z[h[i]]) /\ z[h[i]].cname = h[i + 1]

\* What holds of a walk while the index does not change: it has followed a path
\* of as many names as it has visited, and what it has visited redirects to what
\* it has visited or reached.
OnPath(z, start, vis, name) ==
  /\ IsFiniteSet(vis)
  /\ \E h \in [0 .. Cardinality(vis) -> Names] : Follows(z, h, start, vis, name)
  /\ \A x \in vis : Active(z[x]) /\ z[x].cname \in vis \cup {name}

Zones == [Names -> Entry \cup {Nothing}]

\* Redirections are deterministic: every chain from the start of a walk goes
\* through the name the walk has reached.
LEMMA ChainPasses ==
  ASSUME NEW z \in Zones, NEW start \in Names, NEW vis \in SUBSET Names, NEW name \in Names,
         OnPath(z, start, vis, name),
         NEW k \in Nat, NEW g, IsChain(z, g, k, start)
  PROVE  Cardinality(vis) <= k /\ g[Cardinality(vis)] = name
<1> DEFINE m == Cardinality(vis)
<1>1. m \in Nat
  BY FS_CardinalityType DEF OnPath
<1>2. PICK h : Follows(z, h, start, vis, name)
  BY DEF OnPath
<1>3. /\ h \in [0 .. m -> Names] /\ h[0] = start /\ h[m] = name
      /\ \A i \in 0 .. m - 1 : Active(z[h[i]]) /\ z[h[i]].cname = h[i + 1]
  BY <1>2 DEF Follows
<1>4. ASSUME NEW e \in Nat, e <= m, e <= k PROVE \A i \in 0 .. e : g[i] = h[i]
  <2> DEFINE S == {i \in 0 .. e : g[i] = h[i]}
  <2>1. 0 \in S
    BY <1>3, <1>4 DEF IsChain
  <2>2. ASSUME NEW i \in 0 .. e - 1, i \in S PROVE i + 1 \in S
    <3>1. i \in 0 .. m - 1 /\ i \in 0 .. k - 1 /\ i + 1 \in 0 .. e
      BY <1>1, <1>4, <2>2
    <3> QED
      BY <1>3, <2>2, <3>1 DEF IsChain
  <2>3. 0 .. e \subseteq S
    <3> HIDE DEF S
    <3> QED
      BY <2>1, <2>2, InductionUpTo
  <2> QED
    BY <2>3
<1>5. m <= k
  <2> SUFFICES ASSUME k < m PROVE FALSE
    BY <1>1
  <2>1. g[k] = h[k] /\ k \in 0 .. m - 1 /\ k + 1 \in 0 .. m
    BY <1>1, <1>4
  <2>2. z[g[k]].cname = h[k + 1] /\ h[k + 1] \in Names
    BY <1>3, <2>1
  <2> QED
    BY <2>2, ResolverAssumption DEF IsChain
<1> QED
  BY <1>1, <1>3, <1>4, <1>5

\* A walk that meets a name again is on a loop, and no chain ends.
LEMMA LoopHasNoChain ==
  ASSUME NEW z \in Zones, NEW start \in Names, NEW vis \in SUBSET Names, NEW name \in vis,
         OnPath(z, start, vis, name),
         NEW k \in Nat, NEW g, IsChain(z, g, k, start)
  PROVE  FALSE
<1> DEFINE m == Cardinality(vis)
<1>1. \A x \in vis : z[x].cname \in vis
  BY DEF OnPath
<1>2. m <= k /\ g[m] = name /\ m \in Nat
  BY ChainPasses, FS_CardinalityType DEF OnPath
<1> DEFINE S == {i \in 0 .. k - m : g[m + i] \in vis}
<1>3. 0 \in S
  BY <1>2
<1>4. ASSUME NEW i \in 0 .. (k - m) - 1, i \in S PROVE i + 1 \in S
  <2>1. m + i \in 0 .. k - 1 /\ m + (i + 1) = (m + i) + 1 /\ i + 1 \in 0 .. k - m
    BY <1>2
  <2>2. z[g[m + i]].cname = g[(m + i) + 1]
    BY <2>1 DEF IsChain
  <2> QED
    BY <1>1, <1>4, <2>1, <2>2
<1>5. 0 .. k - m \subseteq S
  <2>1. k - m \in Nat
    BY <1>2
  <2> HIDE DEF S
  <2> QED
    BY <1>3, <1>4, <2>1, InductionUpTo
<1>6. g[k] \in vis
  <2>1. k - m \in 0 .. k - m /\ m + (k - m) = k
    BY <1>2
  <2> QED
    BY <1>5, <2>1
<1> QED
  BY <1>1, <1>6, ResolverAssumption DEF IsChain

-----------------------------------------------------------------------------
(* What the steps of a walk find *)

\* An active entry is a registration.
LEMMA ActiveIsEntry ==
  ASSUME NEW z \in Zones, NEW n \in Names, Active(z[n])
  PROVE  /\ z[n].addr \in Addrs \cup {Nothing} /\ z[n].cname \in Names \cup {Nothing}
         /\ z[n] \in Entry
BY DEF Zones, Active, Entry

\* A walk begins at the name that was asked for.
LEMMA PathBegins ==
  ASSUME NEW z \in Zones, NEW n \in Names
  PROVE  OnPath(z, n, {}, n) /\ Cardinality({}) = 0
<1>1. IsFiniteSet({}) /\ Cardinality({}) = 0
  BY FS_EmptySet
<1> DEFINE h == [i \in 0 .. 0 |-> n]
<1>2. Follows(z, h, n, {}, n)
  BY <1>1 DEF Follows
<1> QED
  BY <1>1, <1>2 DEF OnPath

\* A redirection takes the walk one name further.
LEMMA PathGrows ==
  ASSUME NEW z \in Zones, NEW start \in Names, NEW vis \in SUBSET Names, NEW name \in Names,
         OnPath(z, start, vis, name), name \notin vis,
         Active(z[name]), z[name].cname # Nothing
  PROVE  OnPath(z, start, vis \cup {name}, z[name].cname)
<1> DEFINE m == Cardinality(vis)
           on == vis \cup {name}
           x == z[name].cname
<1>1. IsFiniteSet(on) /\ Cardinality(on) = m + 1 /\ m \in Nat
  BY FS_AddElement, FS_CardinalityType DEF OnPath
<1>2. x \in Names
  BY ActiveIsEntry
<1>3. PICK h : Follows(z, h, start, vis, name)
  BY DEF OnPath
<1>4. /\ h \in [0 .. m -> Names] /\ h[0] = start /\ h[m] = name
      /\ \A i \in 0 .. m - 1 : Active(z[h[i]]) /\ z[h[i]].cname = h[i + 1]
  BY <1>3 DEF Follows
<1> DEFINE g == [i \in 0 .. m + 1 |-> IF i <= m THEN h[i] ELSE x]
<1>5. /\ g \in [0 .. m + 1 -> Names] /\ g[0] = start /\ g[m + 1] = x
      /\ \A i \in 0 .. m : g[i] = h[i]
  BY <1>1, <1>2, <1>4
<1>6. ASSUME NEW i \in 0 .. m PROVE Active(z[g[i]]) /\ z[g[i]].cname = g[i + 1]
  <2>1. CASE i = m
    BY <1>1, <1>4, <1>5, <2>1
  <2>2. CASE i < m
    <3>1. i \in 0 .. m - 1 /\ i + 1 \in 0 .. m
      BY <1>1, <2>2
    <3> QED
      BY <1>4, <1>5, <3>1
  <2> QED
    BY <1>1, <2>1, <2>2
<1>7. Follows(z, g, start, on, x)
  <2>1. (m + 1) - 1 = m
    BY <1>1
  <2> HIDE DEF g
  <2> QED
    BY <1>1, <1>5, <1>6, <2>1 DEF Follows
<1>8. \A y \in on : Active(z[y]) /\ z[y].cname \in on \cup {x}
  BY DEF OnPath
<1>9. g \in [0 .. Cardinality(on) -> Names]
  BY <1>1, <1>5
<1> HIDE DEF g
<1> QED
  BY <1>1, <1>7, <1>8, <1>9 DEF OnPath

\* A walk that meets a loop, the limit or a name that is not active has no
\* answer, and there is none.
LEMMA NoEnd ==
  ASSUME NEW z \in Zones, NEW q \in Questions, q[2] = "A",
         NEW vis \in SUBSET Names, NEW name \in Names, OnPath(z, q[1], vis, name),
         name \in vis \/ Cardinality(vis) >= CnameDepthLimit \/ ~Active(z[name])
  PROVE  TruthIn(z, q) = Nothing
<1>1. q[1] \in Names /\ CnameDepthLimit \in Nat \ {0}
  BY ResolverAssumption
<1>2. ASSUME NEW k \in 0 .. CnameDepthLimit - 1, NEW g, IsChain(z, g, k, q[1])
      PROVE  FALSE
  <2>1. k \in Nat /\ Cardinality(vis) \in Nat
    BY <1>1, FS_CardinalityType DEF OnPath
  <2>2. Cardinality(vis) <= k /\ g[Cardinality(vis)] = name
    BY <1>1, <1>2, <2>1, ChainPasses
  <2>3. CASE name \in vis
    BY <1>1, <1>2, <2>1, <2>3, LoopHasNoChain
  <2>4. CASE Cardinality(vis) >= CnameDepthLimit
    BY <1>1, <2>1, <2>2, <2>4
  <2>5. CASE ~Active(z[name])
    <3>1. Cardinality(vis) \in 0 .. k
      BY <2>1, <2>2
    <3> QED
      BY <1>2, <2>2, <2>5, <3>1 DEF IsChain
  <2> QED
    BY <2>3, <2>4, <2>5
<1>3. \A v : ~LeadsToIn(z, q[1], v)
  BY <1>2 DEF LeadsToIn
<1> QED
  BY <1>3 DEF TruthIn

\* A walk that ends at an active name within the limit has the answer.
LEMMA WalkEnds ==
  ASSUME NEW z \in Zones, NEW q \in Questions, q[2] = "A",
         NEW vis \in SUBSET Names, NEW name \in Names, OnPath(z, q[1], vis, name),
         Cardinality(vis) < CnameDepthLimit, Active(z[name]), z[name].cname = Nothing
  PROVE  TruthIn(z, q) = z[name].addr
<1> DEFINE m == Cardinality(vis)
<1>1. q[1] \in Names /\ CnameDepthLimit \in Nat \ {0} /\ Nothing \notin Names \cup Addrs
  BY ResolverAssumption
<1>2. m \in Nat /\ m \in 0 .. CnameDepthLimit - 1
  BY <1>1, FS_CardinalityType DEF OnPath
<1>3. LeadsToIn(z, q[1], z[name].addr)
  <2>1. PICK h : Follows(z, h, q[1], vis, name)
    BY DEF OnPath
  <2>2. /\ h \in [0 .. m -> Names] /\ h[0] = q[1] /\ h[m] = name
        /\ \A i \in 0 .. m - 1 : Active(z[h[i]]) /\ z[h[i]].cname = h[i + 1]
    BY <2>1 DEF Follows
  <2>3. \A i \in 0 .. m : Active(z[h[i]])
    <3>1. \A i \in 0 .. m : i = m \/ i \in 0 .. m - 1
      BY <1>2
    <3> QED
      BY <2>2, <3>1
  <2>4. IsChain(z, h, m, q[1])
    BY <2>2, <2>3 DEF IsChain
  <2> QED
    BY <1>2, <2>2, <2>4 DEF LeadsToIn
<1>4. ASSUME NEW v, LeadsToIn(z, q[1], v) PROVE v = z[name].addr
  <2>1. PICK k \in 0 .. CnameDepthLimit - 1 :
          \E g \in [0 .. k -> Names] : IsChain(z, g, k, q[1]) /\ z[g[k]].addr = v
    BY <1>4 DEF LeadsToIn
  <2>2. PICK g \in [0 .. k -> Names] : IsChain(z, g, k, q[1]) /\ z[g[k]].addr = v
    BY <2>1
  <2>3. k \in Nat
    BY <1>1
  <2>4. m <= k /\ g[m] = name
    BY <1>1, <2>2, <2>3, ChainPasses
  <2>5. m = k
    <3> SUFFICES ASSUME m < k PROVE FALSE
      BY <1>2, <2>3, <2>4
    <3>1. m \in 0 .. k - 1 /\ m + 1 \in 0 .. k
      BY <1>2, <2>3
    <3>2. z[g[m]].cname = g[m + 1] /\ g[m + 1] \in Names
      BY <2>2, <3>1 DEF IsChain
    <3> QED
      BY <1>1, <2>4, <3>2
  <2> QED
    BY <2>2, <2>4, <2>5
<1>5. z[name].addr \in Addrs \cup {Nothing}
  BY ActiveIsEntry
<1>6. CASE z[name].addr \in Addrs
  <2>1. \A v \in Addrs : LeadsToIn(z, q[1], v) <=> v = z[name].addr
    BY <1>3, <1>4
  <2>2. (CHOOSE v \in Addrs : LeadsToIn(z, q[1], v)) = z[name].addr
    BY <1>6, <2>1
  <2> QED
    BY <1>3, <1>6, <2>2 DEF TruthIn
<1>7. CASE z[name].addr = Nothing
  <2>1. \A v \in Addrs : ~LeadsToIn(z, q[1], v)
    BY <1>1, <1>4, <1>7
  <2> QED
    BY <1>7, <2>1 DEF TruthIn
<1> QED
  BY <1>5, <1>6, <1>7

\* The first read of the index answers at once, finds the value to cache, or
\* begins a walk.
LEMMA FirstRead ==
  ASSUME NEW z \in Zones, NEW q \in Questions
  PROVE  /\ NoAnswer(z[q[1]], q[2]) => TruthIn(z, q) = Nothing
         /\ ~NoAnswer(z[q[1]], q[2]) /\ ~Redirects(z[q[1]], q[2]) =>
              /\ TruthIn(z, q) = Filtered(z[q[1]], q[2])
              /\ Filtered(z[q[1]], q[2]) \in Names \cup Addrs
         /\ ~NoAnswer(z[q[1]], q[2]) /\ Redirects(z[q[1]], q[2]) =>
              q[2] = "A" /\ OnPath(z, q[1], {}, q[1])
<1> DEFINE e == z[q[1]]
<1>1. q[1] \in Names /\ q[2] \in {"A", "CNAME"} /\ CnameDepthLimit \in Nat \ {0}
  BY ResolverAssumption
<1>2. OnPath(z, q[1], {}, q[1]) /\ Cardinality({}) < CnameDepthLimit
  BY <1>1, PathBegins
<1>3. Active(e) => e.addr \in Addrs \cup {Nothing} /\ e.cname \in Names \cup {Nothing}
  BY <1>1, ActiveIsEntry
<1>4. CASE q[2] = "CNAME"
  BY <1>3, <1>4 DEF NoAnswer, Redirects, Filtered, TruthIn
<1>5. CASE q[2] = "A"
  <2>1. ~Active(e) => TruthIn(z, q) = Nothing
    BY <1>1, <1>2, <1>5, NoEnd
  <2>2. Active(e) /\ e.cname = Nothing => TruthIn(z, q) = e.addr
    BY <1>1, <1>2, <1>5, WalkEnds
  <2> QED
    BY <1>2, <1>3, <1>5, <2>1, <2>2 DEF NoAnswer, Redirects, Filtered
<1> QED
  BY <1>1, <1>4, <1>5

-----------------------------------------------------------------------------
(* The invariant *)

\* How long ago the value of a call was read, at each of its control points.
ReadOK(k) ==
  /\ k.at \in {"index", "walk"} => k.read = 0
  /\ k.at = "fill" => k.read <= 1 /\ k.value # Nothing
  /\ k.at = "done" => k.read <= TTL + 1 /\ (k.from = "peer" => k.read <= TTL)

\* Control: where a value is from, what a walk has visited, what is served.
FlowOK(k) ==
  /\ k.at = "index" => k.visited = {}
  /\ k.at = "walk" => k.ask[2] = "A"
  /\ k.at \in {"index", "walk", "fill"} => k.from = "none"
  /\ k.from = "server" => k.ttl \in 1 .. SlotInterval

\* What a call has found is right as long as the index has not changed.
ExactOK(k, z) ==
  k.steady => /\ k.at = "walk" => OnPath(z, k.ask[1], k.visited, k.name)
              /\ k.at = "fill" => k.value = TruthIn(z, k.ask)
              /\ k.at = "done" /\ k.from = "index" => k.value = TruthIn(z, k.ask)

CallOK(k, z) == k \in Calls /\ ReadOK(k) /\ FlowOK(k) /\ ExactOK(k, z)

\* A cached value was read at most one tick before it was cached; a peer's was
\* cached when it came.
EntryOK(e) ==
  e \in CacheEntry /\ e.read <= e.age + 1 /\ (e.by = "peer" => e.read <= e.age)

CacheOK(f) ==
  /\ f \in [Questions -> CacheEntry \cup {Nothing}]
  /\ \A q \in Questions : f[q] = Nothing \/ EntryOK(f[q])

ResolverInv ==
  /\ zone \in Zones
  /\ CacheOK(cache)
  /\ call \in [Callers -> Calls] /\ \A c \in Callers : CallOK(call[c], zone)

\* No call at all.
LEMMA NoCallOK == \A z : CallOK(NoCall, z)
<1>1. (CHOOSE q \in Questions : TRUE) \in Questions
  BY ResolverAssumption
<1>2. (CHOOSE n \in Names : TRUE) \in Names
  BY ResolverAssumption
<1>3. 0 \in 0 .. Word /\ 0 \in 0 .. TTL + 2
  BY ResolverAssumption
<1>4. NoCall \in Calls
  BY <1>1, <1>2, <1>3 DEF NoCall, Calls
<1> QED
  BY <1>4 DEF CallOK, ReadOK, FlowOK, ExactOK, NoCall

\* A step that changes one call and neither the index nor the cache.
LEMMA OneCall ==
  ASSUME ResolverInv, UNCHANGED <<zone, cache>>, NEW c \in Callers, NEW k,
         call' = [call EXCEPT ![c] = k], CallOK(k, zone)
  PROVE  ResolverInv'
<1>1. k \in Calls
  BY DEF CallOK
<1>2. /\ call' \in [Callers -> Calls]
      /\ \A d \in Callers : call'[d] = IF d = c THEN k ELSE call[d]
  BY <1>1 DEF ResolverInv
<1>3. \A d \in Callers : CallOK(call'[d], zone)
  BY <1>2 DEF ResolverInv
<1> QED
  BY <1>2, <1>3 DEF ResolverInv

-----------------------------------------------------------------------------
(* ResolveDomain *)

\* Resetting the ticks of a call.
LEMMA LagReset ==
  ASSUME NEW k \in Calls
  PROVE  LET i == [k EXCEPT !.lag = 0]
         IN  /\ i \in Calls /\ i.ask = k.ask /\ i.at = k.at /\ i.value = k.value
             /\ i.from = k.from /\ i.read = k.read /\ i.steady = k.steady
BY DEF Calls

\* Returning a value read from the index, if it is right or the index changed.
LEMMA ReturnOK ==
  ASSUME NEW z, NEW k, CallOK(k, z), NEW v \in Names \cup Addrs \cup {Nothing},
         k.at \in {"index", "walk", "fill"},
         k.steady => v = TruthIn(z, k.ask)
  PROVE  CallOK([k EXCEPT !.at = "done", !.value = v, !.from = "index", !.lag = 0,
                          !.name = NoCall.name, !.visited = {}], z)
<1> DEFINE j == [k EXCEPT !.at = "done", !.value = v, !.from = "index", !.lag = 0,
                          !.name = NoCall.name, !.visited = {}]
<1>1. k \in Calls /\ k.read <= 1 /\ TTL \in Nat \ {0}
  BY ResolverAssumption DEF CallOK, ReadOK
<1>2. NoCall.name \in Names
  BY NoCallOK DEF CallOK, Calls
<1>3. /\ j \in Calls /\ j.at = "done" /\ j.value = v /\ j.from = "index"
      /\ j.read = k.read /\ j.steady = k.steady /\ j.ask = k.ask
  <2> DEFINE i == [k EXCEPT !.at = "done", !.value = v, !.from = "index"]
  <2>1. /\ i \in Calls /\ i.at = "done" /\ i.value = v /\ i.from = "index"
        /\ i.read = k.read /\ i.steady = k.steady /\ i.ask = k.ask
    BY <1>1 DEF Calls
  <2> DEFINE l == [i EXCEPT !.lag = 0]
  <2>2. j = [l EXCEPT !.name = NoCall.name, !.visited = {}]
    BY Zenon
  <2> HIDE DEF i
  <2>3. /\ l \in Calls /\ l.at = "done" /\ l.value = v /\ l.from = "index"
        /\ l.read = k.read /\ l.steady = k.steady /\ l.ask = k.ask
    BY <2>1, LagReset
  <2> HIDE DEF l, j
  <2> QED
    BY <1>2, <2>2, <2>3 DEF Calls
<1>4. k.read \in Int
  BY <1>1 DEF Calls
<1> HIDE DEF j
<1>5. ReadOK(j) /\ FlowOK(j) /\ ExactOK(j, z)
  BY <1>1, <1>3, <1>4 DEF ReadOK, FlowOK, ExactOK
<1>6. CallOK(j, z)
  BY <1>3, <1>5 DEF CallOK
<1> QED
  BY <1>6 DEF j

\* The DNS server answers from the index, with a capped TTL.
LEMMA ServeKeeps ==
  ASSUME ResolverInv, NEW c \in Callers, NEW q \in Questions, NEW t \in CacheTTLs,
         HandleDNSQuery(c, q, t)
  PROVE  ResolverInv'
<1> DEFINE w == CapTTL(t % Word)
           v == IF Active(zone[q[1]]) THEN BuildRecords(zone[q[1]], q[2]) ELSE Nothing
           k == [NoCall EXCEPT !.ask = q, !.at = "done", !.from = "server",
                               !.ttl = w, !.value = v]
<1>1. w \in 1 .. SlotInterval /\ w \in 0 .. Word
  <2>1. t \in Int /\ Word \in Nat /\ SlotInterval \in Nat \ {0} /\ SlotInterval < Word
    BY ResolverAssumption
  <2>2. t % Word \in 0 .. Word - 1
    BY <2>1
  <2> QED
    BY <2>1, <2>2 DEF CapTTL
<1>2. v \in Names \cup Addrs \cup {Nothing}
  <2>1. q[1] \in Names /\ q[2] \in {"A", "CNAME"} /\ zone \in Zones
    BY ResolverAssumption DEF ResolverInv
  <2> QED
    BY <2>1, ActiveIsEntry DEF BuildRecords
<1>3. NoCall \in Calls /\ NoCall.read = 0
  BY NoCallOK DEF CallOK, NoCall
<1>4. /\ k \in Calls /\ k.at = "done" /\ k.read = 0 /\ k.from = "server" /\ k.ttl = w
  <2> HIDE DEF w, v
  <2> QED
    BY <1>1, <1>2, <1>3 DEF Calls
<1>5. CallOK(k, zone)
  <2> HIDE DEF k, w
  <2> QED
    BY <1>1, <1>4, ResolverAssumption DEF CallOK, ReadOK, FlowOK, ExactOK
<1> QED
  BY <1>5, OneCall DEF HandleDNSQuery

\* An answer from the cache is as old as its entry.
LEMMA HitKeeps ==
  ASSUME ResolverInv, NEW c \in Callers, NEW q \in Questions, CacheHit(c, q)
  PROVE  ResolverInv'
<1> DEFINE e == cache[q]
           k == [NoCall EXCEPT !.ask = q, !.at = "done", !.value = e.value,
                               !.from = e.by, !.read = e.read]
<1>1. EntryOK(e)
  BY DEF ResolverInv, CacheOK, CacheHit
<1>2. /\ e.value \in Names \cup Addrs /\ e.read \in 0 .. TTL + 2 /\ e.read <= TTL + 1
      /\ e.by \in {"cache", "peer"} /\ (e.by = "peer" => e.read <= TTL)
  BY <1>1, ResolverAssumption DEF EntryOK, CacheEntry
<1>3. NoCall \in Calls
  BY NoCallOK DEF CallOK
<1>4. /\ k \in Calls /\ k.at = "done" /\ k.from = e.by /\ k.read = e.read
  <2> HIDE DEF e
  <2> QED
    BY <1>2, <1>3 DEF Calls
<1>5. CallOK(k, zone)
  <2> HIDE DEF k, e
  <2> QED
    BY <1>2, <1>4 DEF CallOK, ReadOK, FlowOK, ExactOK
<1> QED
  BY <1>5, OneCall DEF CacheHit, ReturnsCached

\* A miss sends the call to the index.
LEMMA MissKeeps ==
  ASSUME ResolverInv, NEW c \in Callers, NEW q \in Questions, CacheMiss(c, q)
  PROVE  ResolverInv'
<1> DEFINE k == [NoCall EXCEPT !.ask = q, !.at = "index"]
<1>1. NoCall \in Calls /\ NoCall.read = 0 /\ NoCall.visited = {} /\ NoCall.from = "none"
  BY NoCallOK DEF CallOK, NoCall
<1>2. k \in Calls /\ k.at = "index" /\ k.read = 0 /\ k.visited = {} /\ k.from = "none"
  BY <1>1 DEF Calls
<1>3. CallOK(k, zone)
  BY <1>2 DEF CallOK, ReadOK, FlowOK, ExactOK
<1> QED
  BY <1>3, OneCall DEF CacheMiss

\* The first read of the index.
LEMMA ReadKeeps ==
  ASSUME ResolverInv, NEW c \in Callers, ReadIndex(c)
  PROVE  ResolverInv'
<1> DEFINE q == call[c].ask
           e == zone[q[1]]
<1>1. /\ call[c] \in Calls /\ CallOK(call[c], zone) /\ call[c].at = "index"
      /\ q \in Questions /\ zone \in Zones /\ UNCHANGED <<zone, cache>>
  BY DEF ResolverInv, ReadIndex, Calls
<1>2. q[1] \in Names /\ call[c].visited = {} /\ call[c].read = 0
  BY <1>1, ResolverAssumption DEF CallOK, FlowOK, ReadOK
<1>3. CASE NoAnswer(e, q[2]) /\ Returns(c, Nothing)
  <2>1. Nothing = TruthIn(zone, q)
    BY <1>1, <1>3, FirstRead
  <2> QED
    BY <1>1, <1>3, <2>1, ReturnOK, OneCall DEF Returns
<1>4. CASE /\ ~NoAnswer(e, q[2]) /\ Redirects(e, q[2])
           /\ call' = [call EXCEPT ![c].at = "walk", ![c].name = q[1]]
  <2> DEFINE k == [call[c] EXCEPT !.at = "walk", !.name = q[1]]
  <2>1. q[2] = "A" /\ OnPath(zone, q[1], {}, q[1])
    BY <1>1, <1>4, FirstRead
  <2>2. /\ k \in Calls /\ k.at = "walk" /\ k.name = q[1] /\ k.ask = q /\ k.visited = {}
        /\ k.read = 0 /\ k.from = call[c].from /\ k.ttl = call[c].ttl
    BY <1>1, <1>2 DEF Calls
  <2>3. CallOK(k, zone)
    <3> HIDE DEF k
    <3> QED
      BY <1>1, <2>1, <2>2 DEF CallOK, ReadOK, FlowOK, ExactOK
  <2>4. call' = [call EXCEPT ![c] = k]
    BY <1>4
  <2> QED
    BY <1>1, <2>3, <2>4, OneCall
<1>5. CASE /\ ~NoAnswer(e, q[2]) /\ ~Redirects(e, q[2])
           /\ call' = [call EXCEPT ![c].at = "fill", ![c].value = Filtered(e, q[2])]
  <2> DEFINE v == Filtered(e, q[2])
             k == [call[c] EXCEPT !.at = "fill", !.value = v]
  <2>1. v = TruthIn(zone, q) /\ v \in Names \cup Addrs /\ v # Nothing
    BY <1>1, <1>5, FirstRead, ResolverAssumption
  <2>2. /\ k \in Calls /\ k.at = "fill" /\ k.value = v /\ k.ask = q
        /\ k.read = 0 /\ k.from = call[c].from /\ k.ttl = call[c].ttl
    <3> HIDE DEF v
    <3> QED
      BY <1>1, <1>2, <2>1 DEF Calls
  <2>3. CallOK(k, zone)
    <3> HIDE DEF k, v
    <3> QED
      BY <1>1, <2>1, <2>2 DEF CallOK, ReadOK, FlowOK, ExactOK
  <2>4. call' = [call EXCEPT ![c] = k]
    BY <1>5
  <2> QED
    BY <1>1, <2>3, <2>4, OneCall
<1> QED
  BY <1>3, <1>4, <1>5 DEF ReadIndex

\* A value goes into the cache at most one tick after it was read.
LEMMA FillKeeps ==
  ASSUME ResolverInv, NEW c \in Callers, Fill(c)
  PROVE  ResolverInv'
<1> DEFINE e == [value |-> call[c].value, age |-> 0, read |-> call[c].read, by |-> "cache"]
           k == [call[c] EXCEPT !.at = "done", !.value = call[c].value, !.from = "index",
                                !.lag = 0, !.name = NoCall.name, !.visited = {}]
<1>1. /\ call[c] \in Calls /\ CallOK(call[c], zone) /\ call[c].at = "fill"
      /\ call[c].ask \in Questions /\ zone' = zone
  BY DEF ResolverInv, Fill, Calls
<1>2. /\ call[c].value \in Names \cup Addrs \cup {Nothing} /\ call[c].value # Nothing
      /\ call[c].read \in 0 .. TTL + 2 /\ call[c].read <= 1
      /\ call[c].steady => call[c].value = TruthIn(zone, call[c].ask)
  BY <1>1 DEF CallOK, ReadOK, ExactOK, Calls
<1>3. EntryOK(e)
  BY <1>2, ResolverAssumption DEF EntryOK, CacheEntry
<1>4. CacheOK(cache')
  <2>1. cache' = [cache EXCEPT ![call[c].ask] = e] /\ CacheOK(cache)
    BY DEF Fill, ResolverInv
  <2> HIDE DEF e
  <2> QED
    BY <1>1, <1>3, <2>1 DEF CacheOK, EntryOK
<1>5. CallOK(k, zone)
  BY <1>1, <1>2, ReturnOK
<1>6. call' = [call EXCEPT ![c] = k]
  BY DEF Fill, Returns
<1> HIDE DEF k
<1>7. k \in Calls
  BY <1>5 DEF CallOK
<1>8. /\ call' \in [Callers -> Calls]
      /\ \A d \in Callers : call'[d] = IF d = c THEN k ELSE call[d]
  BY <1>6, <1>7 DEF ResolverInv
<1>9. \A d \in Callers : CallOK(call'[d], zone)
  BY <1>5, <1>8 DEF ResolverInv
<1> QED
  BY <1>1, <1>4, <1>8, <1>9 DEF ResolverInv

\* One step of the walk returns the right answer or stays on the path.
LEMMA WalkKeeps ==
  ASSUME ResolverInv, NEW c \in Callers, Walk(c)
  PROVE  ResolverInv'
<1> DEFINE q == call[c].ask
           vis == call[c].visited
           n == call[c].name
           e == zone[n]
<1>1. /\ call[c] \in Calls /\ CallOK(call[c], zone) /\ call[c].at = "walk"
      /\ q \in Questions /\ n \in Names /\ vis \in SUBSET Names
      /\ zone \in Zones /\ UNCHANGED <<zone, cache>>
  BY DEF ResolverInv, Walk, Calls
<1>2. /\ q[2] = "A" /\ call[c].read = 0
      /\ call[c].steady => OnPath(zone, q[1], vis, n)
  BY <1>1 DEF CallOK, FlowOK, ReadOK, ExactOK
<1>3. CASE n \in vis \/ Cardinality(vis) >= CnameDepthLimit \/ ~Active(e)
  <2>1. call[c].steady => Nothing = TruthIn(zone, q)
    BY <1>1, <1>2, <1>3, NoEnd
  <2>2. Returns(c, Nothing)
    BY <1>3 DEF Walk
  <2> QED
    BY <1>1, <2>1, <2>2, ReturnOK, OneCall DEF Returns
<1>4. CASE ~(n \in vis \/ Cardinality(vis) >= CnameDepthLimit \/ ~Active(e))
  <2>1. Active(e) /\ e.addr \in Addrs \cup {Nothing} /\ e.cname \in Names \cup {Nothing}
    BY <1>1, <1>4, ActiveIsEntry
  <2>2. CASE e.cname = Nothing
    <3>1. Returns(c, e.addr)
      BY <1>2, <1>4, <2>2 DEF Walk, Filtered
    <3>2. call[c].steady => e.addr = TruthIn(zone, q)
      <4> SUFFICES ASSUME call[c].steady PROVE e.addr = TruthIn(zone, q)
        OBVIOUS
      <4>1. Cardinality(vis) < CnameDepthLimit
        BY <1>2, <1>4, FS_CardinalityType, ResolverAssumption DEF OnPath
      <4> QED
        BY <1>1, <1>2, <2>1, <2>2, <4>1, WalkEnds
    <3> QED
      BY <1>1, <2>1, <3>1, <3>2, ReturnOK, OneCall DEF Returns
  <2>3. CASE e.cname # Nothing
    <3> DEFINE x == e.cname
               k == [call[c] EXCEPT !.name = x, !.visited = @ \cup {n}]
    <3>1. call' = [call EXCEPT ![c].name = x, ![c].visited = @ \cup {n}]
      BY <1>4, <2>3 DEF Walk
    <3>2. x \in Names
      BY <2>1, <2>3
    <3>3. /\ k \in Calls /\ k.at = "walk" /\ k.name = x /\ k.ask = q
          /\ k.visited = vis \cup {n} /\ k.read = 0
          /\ k.from = call[c].from /\ k.ttl = call[c].ttl /\ k.steady = call[c].steady
      <4> HIDE DEF x
      <4> QED
        BY <1>1, <1>2, <3>2 DEF Calls
    <3>4. call[c].steady => OnPath(zone, q[1], vis \cup {n}, x)
      <4>1. q[1] \in Names
        BY <1>1, ResolverAssumption
      <4> QED
        BY <1>1, <1>2, <1>4, <2>3, <4>1, PathGrows
    <3>5. CallOK(k, zone)
      <4> HIDE DEF k, x
      <4> QED
        BY <1>1, <1>2, <3>3, <3>4 DEF CallOK, ReadOK, FlowOK, ExactOK
    <3>6. call' = [call EXCEPT ![c] = k]
      BY <3>1
    <3> QED
      BY <1>1, <3>5, <3>6, OneCall
  <2> QED
    BY <2>2, <2>3
<1> QED
  BY <1>3, <1>4

\* A caller leaves with its answer.
LEMMA LeaveKeeps ==
  ASSUME ResolverInv, NEW c \in Callers, Leave(c)
  PROVE  ResolverInv'
BY NoCallOK, OneCall DEF Leave

-----------------------------------------------------------------------------
(* The index changes and time passes *)

\* A change of the index unsettles what was read of it before.
LEMMA ZoneKeeps ==
  ASSUME ResolverInv, NEW n \in Names, NEW e \in Choices[n], ChangeZone(n, e)
  PROVE  ResolverInv'
<1>1. zone' \in Zones
  <2>1. e \in Entry \cup {Nothing}
    BY ResolverAssumption
  <2> QED
    BY <2>1 DEF ResolverInv, Zones, ChangeZone
<1>2. ASSUME NEW c \in Callers PROVE CallOK(call'[c], zone')
  <2> DEFINE s == call[c].at = "idle" \/ call[c].from \in {"cache", "peer", "server"}
             k == [call[c] EXCEPT !.steady = s]
  <2>1. call[c] \in Calls /\ CallOK(call[c], zone)
    BY DEF ResolverInv
  <2>2. call'[c] = k
    BY DEF ChangeZone
  <2>3. s \in BOOLEAN
    OBVIOUS
  <2> HIDE DEF s
  <2>4. /\ k \in Calls /\ k.steady = s /\ k.at = call[c].at /\ k.from = call[c].from
        /\ k.read = call[c].read /\ k.value = call[c].value /\ k.ask = call[c].ask
        /\ k.visited = call[c].visited /\ k.ttl = call[c].ttl
    BY <2>1, <2>3 DEF Calls
  <2> HIDE DEF k
  <2>5. ReadOK(k) /\ FlowOK(k)
    BY <2>1, <2>4 DEF CallOK, ReadOK, FlowOK
  <2>6. ExactOK(k, zone')
    <3>1. k.at = "walk" \/ k.at = "fill" => k.from = "none"
      BY <2>1, <2>4 DEF CallOK, FlowOK
    <3> QED
      BY <2>4, <3>1 DEF ExactOK, s
  <2> QED
    BY <2>2, <2>4, <2>5, <2>6 DEF CallOK
<1>3. call' \in [Callers -> Calls]
  BY <1>2 DEF CallOK, ChangeZone
<1> QED
  BY <1>1, <1>2, <1>3 DEF ResolverInv, ChangeZone

\* A peer's answer changes the cache alone.
LEMMA PeerKeeps ==
  ASSUME ResolverInv, NEW n \in Names, NEW v \in Addrs, DNSResponseHandler(n, v)
  PROVE  ResolverInv'
<1> DEFINE e == [value |-> v, age |-> 0, read |-> 0, by |-> "peer"]
<1>1. EntryOK(e)
  BY ResolverAssumption DEF EntryOK, CacheEntry
<1>2. cache' = [cache EXCEPT ![<<n, "A">>] = e] /\ <<n, "A">> \in Questions /\ CacheOK(cache)
  BY DEF DNSResponseHandler, ResolverInv
<1> HIDE DEF e
<1>3. CacheOK(cache')
  BY <1>1, <1>2 DEF CacheOK, EntryOK
<1> QED
  BY <1>3 DEF ResolverInv, DNSResponseHandler

\* An entry ages until it is gone; what it holds was read one tick before it was
\* cached at the most.
LEMMA AgedOK ==
  ASSUME NEW e, e = Nothing \/ EntryOK(e)
  PROVE  Aged(e) = Nothing \/ EntryOK(Aged(e))
<1> SUFFICES ASSUME e # Nothing, e.age # TTL, EntryOK(e) PROVE EntryOK(Aged(e))
  BY DEF Aged
<1> DEFINE r == IF e.read = TTL + 2 THEN e.read ELSE e.read + 1
<1>1. Aged(e) = [e EXCEPT !.age = @ + 1, !.read = r]
  BY DEF Aged
<1>2. /\ TTL \in Nat /\ e \in CacheEntry /\ e.age \in 0 .. TTL /\ e.read \in 0 .. TTL + 2
      /\ e.read <= e.age + 1 /\ (e.by = "peer" => e.read <= e.age)
  BY ResolverAssumption DEF EntryOK, CacheEntry
<1>3. /\ e.age + 1 \in 0 .. TTL /\ r \in 0 .. TTL + 2 /\ r <= (e.age + 1) + 1
      /\ e.by = "peer" => r <= e.age + 1
  BY <1>2
<1> HIDE DEF r
<1> QED
  BY <1>1, <1>2, <1>3 DEF EntryOK, CacheEntry

\* A tick.
LEMMA TickKeeps ==
  ASSUME ResolverInv, Tick
  PROVE  ResolverInv'
<1>1. CacheOK(cache')
  <2>1. \A q \in Questions : cache'[q] = Nothing \/ EntryOK(cache'[q])
    BY AgedOK DEF ResolverInv, CacheOK, Tick
  <2> QED
    BY <2>1 DEF CacheOK, EntryOK, Tick
<1>2. ASSUME NEW c \in Callers PROVE CallOK(call'[c], zone)
  <2>1. call[c] \in Calls /\ CallOK(call[c], zone)
    BY DEF ResolverInv
  <2>2. CASE ~Busy(c)
    BY <2>1, <2>2 DEF Tick
  <2>3. CASE Busy(c)
    <3> DEFINE r == IF call[c].at = "fill" THEN 1 ELSE 0
               i == [call[c] EXCEPT !.lag = 1]
               k == [i EXCEPT !.read = r]
    <3>1. call'[c] = [call[c] EXCEPT !.lag = 1, !.read = r]
      BY <2>3 DEF Tick
    <3>2. call'[c] = k
      <4> HIDE DEF r
      <4> QED
        BY <3>1, Zenon
    <3>3. /\ i \in Calls /\ i.at = call[c].at /\ i.from = call[c].from
          /\ i.value = call[c].value /\ i.ask = call[c].ask /\ i.name = call[c].name
          /\ i.visited = call[c].visited /\ i.ttl = call[c].ttl
          /\ i.steady = call[c].steady
      BY <2>1 DEF Calls
    <3>4. r \in 0 .. TTL + 2
      BY ResolverAssumption
    <3> HIDE DEF i
    <3>5. k \in Calls /\ k.read = r
      <4> HIDE DEF r
      <4> QED
        BY <3>3, <3>4 DEF Calls
    <3>6. /\ k.at = i.at /\ k.from = i.from /\ k.value = i.value /\ k.ask = i.ask
          /\ k.name = i.name /\ k.visited = i.visited /\ k.ttl = i.ttl
          /\ k.steady = i.steady
      <4> HIDE DEF r
      <4> QED
        BY <3>3 DEF Calls
    <3> HIDE DEF k
    <3>7. ReadOK(k)
      BY <2>1, <2>3, <3>3, <3>5, <3>6 DEF ReadOK, CallOK, Busy
    <3> HIDE DEF r
    <3>8. FlowOK(k) /\ ExactOK(k, zone)
      BY <2>1, <3>3, <3>6 DEF FlowOK, ExactOK, CallOK
    <3> QED
      BY <3>2, <3>5, <3>7, <3>8 DEF CallOK
  <2> QED
    BY <2>2, <2>3
<1>3. call' \in [Callers -> Calls]
  BY <1>2 DEF CallOK, Tick
<1> QED
  BY <1>1, <1>2, <1>3 DEF ResolverInv, Tick

-----------------------------------------------------------------------------
(* The theorems *)

\* The resolver keeps ResolverInv, whatever callers, blocks and time do.
THEOREM ResolverInvHolds == Spec => []ResolverInv
<1>1. Init => ResolverInv
  <2> SUFFICES ASSUME Init PROVE ResolverInv
    OBVIOUS
  <2>1. zone \in Zones
    BY ResolverAssumption DEF Init, Zones
  <2>2. CacheOK(cache)
    BY DEF Init, CacheOK
  <2>3. call \in [Callers -> Calls] /\ \A c \in Callers : CallOK(call[c], zone)
    BY NoCallOK DEF Init, CallOK
  <2> QED
    BY <2>1, <2>2, <2>3 DEF ResolverInv
<1>2. ResolverInv /\ [Next]_vars => ResolverInv'
  <2> SUFFICES ASSUME ResolverInv, [Next]_vars PROVE ResolverInv'
    OBVIOUS
  <2>1. ASSUME NEW c \in Callers, Step(c) PROVE ResolverInv'
    BY <2>1, ReadKeeps, FillKeeps, WalkKeeps, LeaveKeeps DEF Step
  <2>2. ASSUME NEW c \in Callers, NEW q \in Questions,
               \/ CacheHit(c, q) \/ CacheMiss(c, q)
               \/ \E t \in CacheTTLs : HandleDNSQuery(c, q, t)
        PROVE  ResolverInv'
    BY <2>2, HitKeeps, MissKeeps, ServeKeeps
  <2>3. ASSUME NEW n \in Names, NEW e \in Choices[n], ChangeZone(n, e) PROVE ResolverInv'
    BY <2>3, ZoneKeeps
  <2>4. CASE Tick
    BY <2>4, TickKeeps
  <2>5. CASE UNCHANGED vars
    BY <2>5 DEF vars, ResolverInv
  <2>6. ASSUME NEW n \in Names, NEW v \in Addrs, DNSResponseHandler(n, v) PROVE ResolverInv'
    BY <2>6, PeerKeeps
  <2> QED
    BY <2>1, <2>2, <2>3, <2>4, <2>5, <2>6 DEF Next
<1> QED
  BY <1>1, <1>2, PTL DEF Spec

\* resolveCNAME (resolver.go:88-122) is exact, for every set of names and every
\* depth limit: an answer read from an index that did not change meanwhile is the
\* end of the chain of CNAMEs, or nothing if there is none within the limit.
THEOREM WalksAreExact == Spec => []WalkIsExact
<1>1. ResolverInv => WalkIsExact
  BY TruthIsIn DEF ResolverInv, CallOK, ExactOK, WalkIsExact, Done
<1> QED
  BY <1>1, ResolverInvHolds, PTL

\* No answer rests on an index read longer ago than a cache entry lives and a
\* call lasts, or on a peer's answer that came longer ago than an entry lives
\* (cache.go:27-49, node.go:627-631), whatever calls and peers overwrite.
THEOREM AnswersStayRecent == Spec => []AnswersAreRecent
<1>1. ResolverInv => AnswersAreRecent
  BY DEF ResolverInv, CallOK, ReadOK, AnswersAreRecent, Done
<1> QED
  BY <1>1, ResolverInvHolds, PTL

\* The TTL the DNS server sends (rfc1035_handler.go:105-111) is positive and at
\* most a slot, for every CacheTTL and every width of the conversion.
THEOREM ServedTTLsBounded == Spec => []ServedTTLBounded
<1>1. ResolverInv => ServedTTLBounded
  BY DEF ResolverInv, CallOK, FlowOK, ServedTTLBounded
<1> QED
  BY <1>1, ResolverInvHolds, PTL

=============================================================================
