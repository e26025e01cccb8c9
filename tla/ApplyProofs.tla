----------------------------- MODULE ApplyProofs -----------------------------
(***************************************************************************)
(* Facts about the operators of the model: 64-bit arithmetic, what the     *)
(* loops over the unstake queue return, that the passes of apply.go and    *)
(* the gates of block.go keep the types of the states and of the shadow    *)
(* maps, and what the loops over a block's transactions compute.           *)
(***************************************************************************)
EXTENDS BlockRules, WellFoundedInduction, TLAPS

-----------------------------------------------------------------------------
(* uint64 arithmetic *)

\* A value reduced modulo 2^64 is a uint64.
LEMMA ModInU64 == \A x \in Int : x % (MaxU64 + 1) \in U64
BY LimitsAssumption DEF U64

\* Sums and differences of uint64 values are uint64 values.
LEMMA U64Type ==
  \A a, b \in Int : AddU64(a, b) \in U64 /\ SubU64(a, b) \in U64
BY ModInU64 DEF AddU64, SubU64

\* The overflow checks of block.go:660-668 and 998-1002 are sound: a sum that
\* is not below its first term did not wrap around.
LEMMA NoWrap ==
  ASSUME NEW a \in U64, NEW b \in U64, AddU64(a, b) >= a
  PROVE  AddU64(a, b) = a + b
<1> DEFINE m == MaxU64 + 1
<1>1. m \in Nat \ {0} /\ a + b \in Nat /\ a + b < 2 * m
  BY LimitsAssumption DEF U64
<1>2. CASE a + b < m
  BY <1>1, <1>2 DEF AddU64, U64
<1>3. CASE a + b >= m
  <2>1. (a + b) % m = (a + b) - m
    BY <1>1, <1>3
  <2> QED
    BY <2>1, <1>1, LimitsAssumption DEF AddU64, U64
<1> QED
  BY <1>1, <1>2, <1>3

-----------------------------------------------------------------------------
(* Induction over the natural numbers, for sets *)

\* A set that contains 0 and is closed under successor contains Nat.
LEMMA SetInduction ==
  ASSUME NEW S, 0 \in S, \A n \in Nat : n \in S => n + 1 \in S
  PROVE  Nat \subseteq S
<1> DEFINE R == OpToRel(<, Nat)
           T == Nat \ S
<1>1. SUFFICES ASSUME T # {} PROVE FALSE
  OBVIOUS
<1>2. IsWellFoundedOn(R, Nat)
  BY NatLessThanWellFounded
<1>3. PICK x \in T : \A y \in T : ~ (<<y, x>> \in R)
  <2>1. T \subseteq Nat
    OBVIOUS
  <2> HIDE DEF R, T
  <2> QED
    BY <1>1, <1>2, <2>1, WFMin
<1>4. x \in Nat /\ x # 0
  BY <1>3
<1>5. x - 1 \in Nat /\ <<x - 1, x>> \in R
  <2>1. \A a, b \in Nat : a < b => <<a, b>> \in R
    BY DEF OpToRel
  <2>2. x - 1 \in Nat /\ x - 1 < x
    BY <1>4
  <2> QED
    BY <2>1, <2>2, <1>4
<1>6. x - 1 \in S
  BY <1>3, <1>5
<1>7. x \in S
  <2>1. (x - 1) + 1 \in S
    BY <1>5, <1>6
  <2> QED
    BY <2>1, <1>4
<1> QED
  BY <1>7, <1>3

-----------------------------------------------------------------------------
(* Loops.  step[<<n, v>>] is what iteration n makes of the value v. *)

LoopTables(L, S, init, step) ==
  {f \in [0 .. L -> S] :
     f[0] = init /\ \A n \in 1 .. L : f[n] = step[<<n, f[n - 1]>>]}

\* A loop of L iterations over values of S has a table of its results.
LEMMA LoopExists ==
  ASSUME NEW L \in Nat, NEW S, NEW init \in S, NEW step \in [(1 .. L) \X S -> S]
  PROVE  LoopTables(L, S, init, step) # {}
<1> DEFINE Good(m, f) == /\ f \in [0 .. m -> S] /\ f[0] = init
                         /\ \A n \in 1 .. m : f[n] = step[<<n, f[n - 1]>>]
           T == {m \in Nat : m <= L => \E f : Good(m, f)}
<1>1. 0 \in T
  <2>1. Good(0, [n \in 0 .. 0 |-> init])
    OBVIOUS
  <2> QED
    BY <2>1
<1>2. ASSUME NEW m \in Nat, m \in T PROVE m + 1 \in T
  <2>1. SUFFICES ASSUME m + 1 <= L PROVE \E g : Good(m + 1, g)
    OBVIOUS
  <2>2. PICK f : Good(m, f)
    BY <1>2, <2>1
  <2> DEFINE g == [n \in 0 .. m + 1 |->
                     IF n <= m THEN f[n] ELSE step[<<m + 1, f[m]>>]]
  <2>3. f[m] \in S /\ m + 1 \in 1 .. L
    BY <2>1, <2>2
  <2>4. step[<<m + 1, f[m]>>] \in S
    BY <2>3
  <2>5. g \in [0 .. m + 1 -> S] /\ g[0] = init
    BY <2>2, <2>4
  <2>6. ASSUME NEW n \in 1 .. m + 1 PROVE g[n] = step[<<n, g[n - 1]>>]
    <3>1. CASE n <= m
      <4>1. n \in 1 .. m /\ n - 1 \in 0 .. m + 1 /\ n \in 0 .. m + 1
        BY <3>1
      <4>2. g[n] = f[n] /\ g[n - 1] = f[n - 1]
        BY <3>1, <4>1
      <4> QED
        BY <2>2, <4>1, <4>2
    <3>2. CASE n = m + 1
      <4>1. g[n] = step[<<m + 1, f[m]>>] /\ g[n - 1] = f[m]
        BY <3>2
      <4> QED
        BY <3>2, <4>1
    <3> QED
      BY <3>1, <3>2
  <2> QED
    <3>1. Good(m + 1, g)
      BY <2>5, <2>6
    <3> QED
      BY <3>1
<1> HIDE DEF T
<1>3. Nat \subseteq T
  BY <1>1, <1>2, SetInduction
<1>4. L \in T
  BY <1>3
<1> QED
  BY <1>4 DEF T, LoopTables


\* Values that satisfy a loop's equation stay in S if each iteration does.
LEMMA LoopType ==
  ASSUME NEW L \in Nat, NEW S, NEW f, f[0] \in S,
         \A n \in 1 .. L : f[n - 1] \in S => f[n] \in S
  PROVE  \A n \in 0 .. L : f[n] \in S
<1> DEFINE T == {n \in Nat : n <= L => f[n] \in S}
<1>1. 0 \in T
  OBVIOUS
<1>2. ASSUME NEW n \in Nat, n \in T PROVE n + 1 \in T
  <2>1. SUFFICES ASSUME n + 1 <= L PROVE f[n + 1] \in S
    OBVIOUS
  <2>2. f[n] \in S /\ n + 1 \in 1 .. L /\ (n + 1) - 1 = n
    BY <1>2, <2>1
  <2> QED
    BY <2>2
<1> HIDE DEF T
<1>3. Nat \subseteq T
  BY <1>1, <1>2, SetInduction
<1> QED
  BY <1>3 DEF T

-----------------------------------------------------------------------------
(* The loops of stake.go *)

Queues == Seq(PendingUnstakes)

\* The loop of GetPendingStake adds up the entries of a key.
LEMMA PendingSteps ==
  ASSUME NEW q \in Queues, NEW k
  PROVE  /\ PendingLoop(q, k)[0] = 0
         /\ \A n \in 1 .. Len(q) :
              PendingLoop(q, k)[n] = PendingLoop(q, k)[n - 1]
                                     + (IF q[n].key = k THEN q[n].amount ELSE 0)
         /\ \A n \in 0 .. Len(q) : PendingLoop(q, k)[n] \in Nat
<1> DEFINE L == Len(q)
           next(n, v) == v + (IF q[n].key = k THEN q[n].amount ELSE 0)
           eq(f) == f = [n \in 0 .. L |-> IF n = 0 THEN 0 ELSE next(n, f[n - 1])]
           step == [p \in (1 .. L) \X Nat |-> next(p[1], p[2])]
<1>1. L \in Nat /\ \A n \in 1 .. L, v \in Nat : next(n, v) \in Nat
  <2>1. L \in Nat /\ \A n \in 1 .. L : q[n] \in PendingUnstakes
    BY DEF Queues
  <2> QED
    BY <2>1 DEF PendingUnstakes
<1>2. 0 \in Nat
  BY DEF Queues
<1>3. \E f : eq(f)
  <2> HIDE DEF next, L
  <2>1. step \in [(1 .. L) \X Nat -> Nat]
    BY <1>1
  <2>2. \A n \in 1 .. L, v \in Nat : step[<<n, v>>] = next(n, v)
    OBVIOUS
  <2> HIDE DEF step
  <2>3. PICK f \in [0 .. L -> Nat] :
          f[0] = 0 /\ \A n \in 1 .. L : f[n] = step[<<n, f[n - 1]>>]
    <3>1. LoopTables(L, Nat, 0, step) # {}
      BY <1>1, <1>2, <2>1, LoopExists
    <3> QED
      BY <3>1 DEF LoopTables
  <2>4. \A n \in 1 .. L : f[n] = next(n, f[n - 1])
    <3>1. TAKE n \in 1 .. L
    <3>2. f[n - 1] \in Nat
      BY <1>1
    <3> QED
      BY <3>2, <2>2, <2>3
  <2>5. eq(f)
    BY <2>3, <2>4, <1>1
  <2> QED
    BY <2>5
<1> DEFINE f == PendingLoop(q, k)
<1>4. eq(f)
  <2>1. f = CHOOSE g : eq(g)
    BY DEF PendingLoop
  <2> QED
    BY <1>3, <2>1
<1>5. f[0] = 0 /\ \A n \in 1 .. L : f[n] = next(n, f[n - 1])
  <2> HIDE DEF f, next, L
  <2>1. \A n \in 0 .. L :
          f[n] = IF n = 0 THEN 0 ELSE next(n, f[n - 1])
    BY <1>4
  <2> QED
    BY <2>1, <1>1
<1> HIDE DEF f, next, L
<1>6. \A n \in 0 .. L : f[n] \in Nat
  <2>1. f[0] \in Nat /\ \A n \in 1 .. L : f[n - 1] \in Nat => f[n] \in Nat
    BY <1>5, <1>1, <1>2
  <2> QED
    BY <2>1, <1>1, LoopType
<1> QED
  BY <1>5, <1>6 DEF next, L, f

\* GetPendingStake returns a number of coins.
LEMMA PendingType ==
  ASSUME NEW q \in Queues, NEW k
  PROVE  GetPendingStake(q, k) \in Nat
<1>1. Len(q) \in Nat
  BY DEF Queues
<1> QED
  BY <1>1, PendingSteps DEF GetPendingStake

\* SweepMature returns a queue.
LEMMA SweepType ==
  ASSUME NEW q \in Queues, NEW slot \in Nat
  PROVE  SweepMature(q, slot) \in Queues
<1> DEFINE L == Len(q)
           next(n, v) == IF q[n].mature <= slot THEN v ELSE Append(v, q[n])
           eq(f) == f = [n \in 0 .. L |-> IF n = 0 THEN <<>> ELSE next(n, f[n - 1])]
           step == [p \in (1 .. L) \X Queues |-> next(p[1], p[2])]
<1>1. L \in Nat /\ \A n \in 1 .. L, v \in Queues : next(n, v) \in Queues
  <2>1. L \in Nat /\ \A n \in 1 .. L : q[n] \in PendingUnstakes
    BY DEF Queues
  <2> QED
    BY <2>1 DEF Queues
<1>2. <<>> \in Queues
  BY DEF Queues
<1>3. \E f : eq(f)
  <2> HIDE DEF next, L
  <2>1. step \in [(1 .. L) \X Queues -> Queues]
    BY <1>1
  <2>2. \A n \in 1 .. L, v \in Queues : step[<<n, v>>] = next(n, v)
    OBVIOUS
  <2> HIDE DEF step
  <2>3. PICK f \in [0 .. L -> Queues] :
          f[0] = <<>> /\ \A n \in 1 .. L : f[n] = step[<<n, f[n - 1]>>]
    <3>1. LoopTables(L, Queues, <<>>, step) # {}
      BY <1>1, <1>2, <2>1, LoopExists
    <3> QED
      BY <3>1 DEF LoopTables
  <2>4. \A n \in 1 .. L : f[n] = next(n, f[n - 1])
    <3>1. TAKE n \in 1 .. L
    <3>2. f[n - 1] \in Queues
      BY <1>1
    <3> QED
      BY <3>2, <2>2, <2>3
  <2>5. eq(f)
    BY <2>3, <2>4, <1>1
  <2> QED
    BY <2>5
<1> DEFINE f == SweepLoop(q, slot)
<1>4. eq(f)
  <2>1. f = CHOOSE g : eq(g)
    BY DEF SweepLoop
  <2> QED
    BY <1>3, <2>1
<1>5. f[0] = <<>> /\ \A n \in 1 .. L : f[n] = next(n, f[n - 1])
  <2> HIDE DEF f, next, L
  <2>1. \A n \in 0 .. L :
          f[n] = IF n = 0 THEN <<>> ELSE next(n, f[n - 1])
    BY <1>4
  <2> QED
    BY <2>1, <1>1
<1> HIDE DEF f, next, L
<1>6. \A n \in 0 .. L : f[n] \in Queues
  <2>1. f[0] \in Queues /\ \A n \in 1 .. L : f[n - 1] \in Queues => f[n] \in Queues
    BY <1>5, <1>1, <1>2
  <2> QED
    BY <2>1, <1>1, LoopType
<1>7. f[Len(q)] \in Queues
  BY <1>6, <1>1 DEF L
<1> QED
  BY <1>7 DEF SweepMature, f

\* The loop of BurnPending keeps of every entry what it does not cut.
LEMMA BurnSteps ==
  ASSUME NEW q \in Queues, NEW k, NEW amount \in Nat
  PROVE  LET f == BurnLoop(q, k, amount)
             c(n) == Cut(q[n], k, amount - f[n - 1].burned)
         IN  /\ f[0] = [burned |-> 0, out |-> <<>>]
             /\ \A n \in 1 .. Len(q) :
                  f[n].out = IF q[n].amount > c(n)
                             THEN Append(f[n - 1].out,
                                         [q[n] EXCEPT !.amount = q[n].amount - c(n)])
                             ELSE f[n - 1].out
             /\ \A n \in 1 .. Len(q) : c(n) \in Nat
             /\ \A n \in 0 .. Len(q) : f[n] \in [burned : 0 .. amount, out : Queues]
<1> DEFINE L == Len(q)
           S == [burned : 0 .. amount, out : Queues]
           cut(n, v) == Cut(q[n], k, amount - v.burned)
           next(n, v) ==
             [burned |-> v.burned + cut(n, v),
              out    |-> IF q[n].amount > cut(n, v)
                         THEN Append(v.out, [q[n] EXCEPT
                                !.amount = q[n].amount - cut(n, v)])
                         ELSE v.out]
           eq(f) == f = [n \in 0 .. L |-> IF n = 0 THEN [burned |-> 0, out |-> <<>>] ELSE next(n, f[n - 1])]
           step == [p \in (1 .. L) \X S |-> next(p[1], p[2])]
<1>1. L \in Nat /\ \A n \in 1 .. L, v \in S : next(n, v) \in S
  <2>1. L \in Nat /\ \A n \in 1 .. L : q[n] \in PendingUnstakes
    BY DEF Queues
  <2>2. ASSUME NEW n \in 1 .. L, NEW v \in S PROVE next(n, v) \in S
    <3>1. cut(n, v) \in Nat /\ v.burned + cut(n, v) \in 0 .. amount
      BY <2>1 DEF Cut, PendingUnstakes
    <3>2. ASSUME q[n].amount > cut(n, v)
          PROVE  [q[n] EXCEPT !.amount = q[n].amount - cut(n, v)]
                   \in PendingUnstakes
      <4> HIDE DEF cut
      <4> QED
        BY <3>1, <3>2, <2>1 DEF PendingUnstakes
    <3> HIDE DEF cut
    <3>3. v.out \in Queues
      OBVIOUS
    <3> QED
      BY <3>1, <3>2, <3>3 DEF Queues
  <2> QED
    BY <2>1, <2>2
<1>2. [burned |-> 0, out |-> <<>>] \in S
  BY DEF Queues
<1>3. \E f : eq(f)
  <2> HIDE DEF next, L
  <2>1. step \in [(1 .. L) \X S -> S]
    BY <1>1
  <2>2. \A n \in 1 .. L, v \in S : step[<<n, v>>] = next(n, v)
    OBVIOUS
  <2> HIDE DEF step
  <2>3. PICK f \in [0 .. L -> S] :
          f[0] = [burned |-> 0, out |-> <<>>] /\ \A n \in 1 .. L : f[n] = step[<<n, f[n - 1]>>]
    <3>1. LoopTables(L, S, [burned |-> 0, out |-> <<>>], step) # {}
      BY <1>1, <1>2, <2>1, LoopExists
    <3> QED
      BY <3>1 DEF LoopTables
  <2>4. \A n \in 1 .. L : f[n] = next(n, f[n - 1])
    <3>1. TAKE n \in 1 .. L
    <3>2. f[n - 1] \in S
      BY <1>1
    <3> QED
      BY <3>2, <2>2, <2>3
  <2>5. eq(f)
    BY <2>3, <2>4, <1>1
  <2> QED
    BY <2>5
<1> DEFINE f == BurnLoop(q, k, amount)
<1>4. eq(f)
  <2>1. f = CHOOSE g : eq(g)
    BY DEF BurnLoop
  <2> QED
    BY <1>3, <2>1
<1>5. f[0] = [burned |-> 0, out |-> <<>>] /\ \A n \in 1 .. L : f[n] = next(n, f[n - 1])
  <2> HIDE DEF f, next, L
  <2>1. \A n \in 0 .. L :
          f[n] = IF n = 0 THEN [burned |-> 0, out |-> <<>>] ELSE next(n, f[n - 1])
    BY <1>4
  <2> QED
    BY <2>1, <1>1
<1> HIDE DEF f, next, L
<1>6. \A n \in 0 .. L : f[n] \in S
  <2>1. f[0] \in S /\ \A n \in 1 .. L : f[n - 1] \in S => f[n] \in S
    BY <1>5, <1>1, <1>2
  <2> QED
    BY ZenonT(30), <2>1, <1>1, LoopType
<1>7. \A n \in 1 .. L : cut(n, f[n - 1]) \in Nat
  <2>1. TAKE n \in 1 .. L
  <2>2. f[n - 1] \in S /\ q[n] \in PendingUnstakes
    BY <1>1, <1>6 DEF L, Queues
  <2> QED
    BY <2>2 DEF Cut, PendingUnstakes
<1>8. \A n \in 1 .. L :
        f[n].out = IF q[n].amount > cut(n, f[n - 1])
                   THEN Append(f[n - 1].out, [q[n] EXCEPT
                          !.amount = q[n].amount - cut(n, f[n - 1])])
                   ELSE f[n - 1].out
  <2> HIDE DEF cut
  <2>1. TAKE n \in 1 .. L
  <2>2. f[n] = next(n, f[n - 1])
    BY <1>5
  <2>3. next(n, f[n - 1]).out
          = IF q[n].amount > cut(n, f[n - 1])
            THEN Append(f[n - 1].out, [q[n] EXCEPT
                   !.amount = q[n].amount - cut(n, f[n - 1])])
            ELSE f[n - 1].out
    BY DEF next
  <2> QED
    BY <2>2, <2>3
<1> QED
  BY <1>5, <1>6, <1>7, <1>8 DEF L, f

\* BurnPending returns a queue, and burns at most what was asked.
LEMMA BurnType ==
  ASSUME NEW q \in Queues, NEW k, NEW amount \in Nat
  PROVE  /\ BurnPending(q, k, amount) \in Queues
         /\ BurnLoop(q, k, amount)[Len(q)].burned \in 0 .. amount
<1>1. Len(q) \in Nat
  BY DEF Queues
<1>2. BurnLoop(q, k, amount)[Len(q)] \in [burned : 0 .. amount, out : Queues]
  BY <1>1, BurnSteps
<1> QED
  BY <1>2 DEF BurnPending

\* An entry added to the queue counts for its own key.
LEMMA PendingAppend ==
  ASSUME NEW q \in Queues, NEW e \in PendingUnstakes, NEW k
  PROVE  /\ Append(q, e) \in Queues
         /\ GetPendingStake(Append(q, e), k)
              = GetPendingStake(q, k) + (IF e.key = k THEN e.amount ELSE 0)
<1> DEFINE r == Append(q, e)
           L == Len(q)
           f == PendingLoop(q, k)
           g == PendingLoop(r, k)
           add(x) == IF x.key = k THEN x.amount ELSE 0
           T == {n \in Nat : n <= L => g[n] = f[n]}
<1>1. /\ r \in Queues /\ L \in Nat /\ Len(r) = L + 1 /\ r[L + 1] = e
      /\ \A n \in 1 .. L : r[n] = q[n]
  BY DEF Queues
<1>2. f[0] = 0 /\ \A n \in 1 .. L : f[n] = f[n - 1] + add(q[n])
  BY PendingSteps
<1>3. g[0] = 0 /\ \A n \in 1 .. L + 1 : g[n] = g[n - 1] + add(r[n])
  <2> HIDE DEF r, L
  <2>1. g[0] = 0 /\ \A n \in 1 .. Len(r) : g[n] = g[n - 1] + add(r[n])
    BY <1>1, PendingSteps
  <2> QED
    BY <1>1, <2>1
<1> HIDE DEF r, L, f, g, add
<1>4. 0 \in T
  BY <1>2, <1>3
<1>5. ASSUME NEW n \in Nat, n \in T PROVE n + 1 \in T
  <2>1. SUFFICES ASSUME n + 1 <= L PROVE g[n + 1] = f[n + 1]
    OBVIOUS
  <2>2. /\ n + 1 \in 1 .. L /\ n + 1 \in 1 .. L + 1 /\ (n + 1) - 1 = n
        /\ g[n] = f[n] /\ r[n + 1] = q[n + 1]
    BY <1>1, <1>5, <2>1
  <2>3. f[n + 1] = f[n] + add(q[n + 1]) /\ g[n + 1] = g[n] + add(r[n + 1])
    BY <1>2, <1>3, <2>2
  <2> QED
    BY <2>2, <2>3
<1> HIDE DEF T
<1>6. Nat \subseteq T
  BY <1>4, <1>5, SetInduction
<1>7. g[L] = f[L]
  BY <1>1, <1>6 DEF T
<1>8. L + 1 \in 1 .. L + 1 /\ (L + 1) - 1 = L
  BY <1>1
<1>9. g[L + 1] = f[L] + add(e)
  BY <1>1, <1>3, <1>7, <1>8
<1> QED
  BY <1>1, <1>9 DEF GetPendingStake, r, L, f, g, add

\* Burning leaves nobody more queued coins than before.
LEMMA BurnLeaves ==
  ASSUME NEW q \in Queues, NEW k, NEW amount \in Nat, NEW x
  PROVE  GetPendingStake(BurnPending(q, k, amount), x) <= GetPendingStake(q, x)
<1> DEFINE L == Len(q)
           f == BurnLoop(q, k, amount)
           c(n) == Cut(q[n], k, amount - f[n - 1].burned)
           p == PendingLoop(q, x)
           T == {n \in Nat : n <= L => GetPendingStake(f[n].out, x) <= p[n]}
<1>1. L \in Nat /\ \A n \in 1 .. L : q[n] \in PendingUnstakes
  BY DEF Queues
<1>2. /\ p[0] = 0
      /\ \A n \in 1 .. L : p[n] = p[n - 1] + (IF q[n].key = x THEN q[n].amount ELSE 0)
      /\ \A n \in 0 .. L : p[n] \in Nat
  BY PendingSteps
<1>3. /\ f[0] = [burned |-> 0, out |-> <<>>]
      /\ \A n \in 1 .. L :
           f[n].out = IF q[n].amount > c(n)
                      THEN Append(f[n - 1].out,
                                  [q[n] EXCEPT !.amount = q[n].amount - c(n)])
                      ELSE f[n - 1].out
      /\ \A n \in 1 .. L : c(n) \in Nat
  BY BurnSteps
<1>4. \A n \in 0 .. L : f[n].out \in Queues
  <2>1. \A n \in 0 .. L : f[n] \in [burned : 0 .. amount, out : Queues]
    BY BurnSteps
  <2> HIDE DEF f, L
  <2> QED
    BY <2>1
<1> HIDE DEF f, c, p, L
<1>5. 0 \in T
  <2>1. <<>> \in Queues /\ Len(<<>>) = 0
    BY DEF Queues
  <2>2. GetPendingStake(<<>>, x) = 0
    BY <2>1, PendingSteps DEF GetPendingStake
  <2> QED
    BY <1>2, <1>3, <2>2
<1>6. ASSUME NEW n \in Nat, n \in T PROVE n + 1 \in T
  <2>1. SUFFICES ASSUME n + 1 <= L PROVE GetPendingStake(f[n + 1].out, x) <= p[n + 1]
    OBVIOUS
  <2> DEFINE m == n + 1
             e == [q[m] EXCEPT !.amount = q[m].amount - c(m)]
             o == f[n].out
  <2>2. m \in 1 .. L /\ m - 1 = n /\ n \in 0 .. L
    BY <1>1, <2>1
  <2>3. /\ o \in Queues /\ GetPendingStake(o, x) <= p[n] /\ p[n] \in Nat
        /\ GetPendingStake(o, x) \in Nat
    BY <1>2, <1>4, <1>6, <2>2, PendingType
  <2>4. /\ q[m] \in PendingUnstakes /\ c(m) \in Nat
        /\ p[m] = p[n] + (IF q[m].key = x THEN q[m].amount ELSE 0)
        /\ f[m].out = IF q[m].amount > c(m) THEN Append(o, e) ELSE o
    BY <1>1, <1>2, <1>3, <2>2
  <2> HIDE DEF m, o
  <2>5. q[m].amount \in Nat
    BY <2>4 DEF PendingUnstakes
  <2>6. CASE q[m].amount > c(m)
    <3>1. e \in PendingUnstakes /\ e.key = q[m].key /\ e.amount = q[m].amount - c(m)
      BY <2>4, <2>6 DEF PendingUnstakes
    <3> HIDE DEF e
    <3>2. GetPendingStake(Append(o, e), x)
            = GetPendingStake(o, x) + (IF e.key = x THEN e.amount ELSE 0)
      BY <2>3, <3>1, PendingAppend
    <3>3. GetPendingStake(f[m].out, x) <= p[m]
      BY <2>3, <2>4, <2>5, <2>6, <3>1, <3>2
    <3> QED
      BY <3>3 DEF m
  <2>7. CASE ~(q[m].amount > c(m))
    <3>1. GetPendingStake(f[m].out, x) <= p[m]
      BY <2>3, <2>4, <2>5, <2>7
    <3> QED
      BY <3>1 DEF m
  <2> QED
    BY <2>6, <2>7
<1> HIDE DEF T
<1>7. Nat \subseteq T
  BY <1>5, <1>6, SetInduction
<1>8. GetPendingStake(f[L].out, x) <= p[L]
  BY <1>1, <1>7 DEF T
<1> QED
  BY <1>8 DEF BurnPending, GetPendingStake, f, p, L

-----------------------------------------------------------------------------
(* Ledger pass *)

\* Debit and Credit keep every balance a natural number.
LEMMA BalanceType ==
  ASSUME NEW bal \in [Keys -> Nat], NEW k \in Keys, NEW n \in Nat
  PROVE  Debit(bal, k, n) \in [Keys -> Nat] /\ Credit(bal, k, n) \in [Keys -> Nat]
BY DEF Debit, Credit, CanDebit

\* A transaction's ledger mutations lead from a state to a state.
LEMMA LedgerType ==
  ASSUME NEW S \in States, NEW tx \in Transactions
  PROVE  ApplyLedgerMutations(S, tx) \in States
<1>1. tx.fee \in Nat /\ tx.price \in Nat /\ tx.amount \in Nat
  BY LimitsAssumption DEF Transactions, U64
<1>2. S.bal \in [Keys -> Nat] /\ S.nonce \in [Keys -> Nat]
  BY DEF States
<1>3. CASE tx.owner = None
  BY <1>3 DEF ApplyLedgerMutations
<1>4. CASE tx.owner # None
  <2>1. tx.owner \in Keys /\ (tx.recipient # None => tx.recipient \in Keys)
    BY <1>4 DEF Transactions
  <2>2. IncrementNonce(S.nonce, tx.owner) \in [Keys -> Nat]
    BY <1>2, <2>1 DEF IncrementNonce
  <2> DEFINE bal1 == Debit(S.bal, tx.owner, tx.fee)
             bal2 == MoveFunds(bal1, tx)
  <2>3. bal1 \in [Keys -> Nat]
    BY <1>1, <1>2, <2>1, BalanceType
  <2>4. bal2 \in [Keys -> Nat]
    BY <1>1, <2>1, <2>3, BalanceType DEF MoveFunds
  <2>5. LockStake(bal2, tx) \in [Keys -> Nat]
    BY <1>1, <2>1, <2>4, BalanceType DEF LockStake
  <2> QED
    BY <1>4, <2>2, <2>5 DEF ApplyLedgerMutations, States
<1> QED
  BY <1>3, <1>4

-----------------------------------------------------------------------------
(* Stake pass *)

\* The amount to slash is a natural number.
LEMMA SlashAmountType ==
  \A n \in Nat : ComputeSlashAmount(n, SlashingPercent) \in Nat
BY LimitsAssumption DEF ComputeSlashAmount, SlashingPercent

\* Slashing leads from a state to a state.
LEMMA SlashType ==
  ASSUME NEW S \in States, NEW k \in Keys
  PROVE  Slash(S, k) \in States
<1> DEFINE staked == S.stake[k]
           amount == ComputeSlashAmount(staked + GetPendingStake(S.queue, k),
                                        SlashingPercent)
<1>1. staked \in Nat /\ S.queue \in Queues
  BY DEF States, Queues
<1>2. amount \in Nat
  BY <1>1, PendingType, SlashAmountType
<1>3. \A n \in Nat : ReduceStake(S.stake, k, n) \in [Keys -> Nat]
  BY DEF ReduceStake, States
<1>4. CASE amount <= staked
  BY <1>2, <1>3, <1>4 DEF Slash, States
<1>5. CASE ~(amount <= staked)
  <2>1. amount - staked \in Nat
    BY <1>1, <1>2, <1>5
  <2>2. BurnPending(S.queue, k, amount - staked) \in Seq(PendingUnstakes)
    BY <1>1, <2>1, BurnType DEF Queues
  <2> QED
    BY <1>1, <1>3, <1>5, <2>2 DEF Slash, States
<1> QED
  BY <1>4, <1>5

\* The evidence of a proof names an offence.
LEMMA OffenceType ==
  ASSUME NEW tx \in Transactions, tx.evidence # NoEvidence
  PROVE  OffenceOf(tx) \in Offences /\ OffenceOf(tx)[2] \in Keys
BY DEF Transactions, OffenceOf, Offences, EvidenceBlocks

\* A transaction's stake mutations lead from a state to a state.
LEMMA StakeType ==
  ASSUME NEW S \in States, NEW tx \in Transactions, NEW slot \in Nat
  PROVE  ApplyStakeMutations(S, tx, slot) \in States
<1>1. tx.amount \in Nat /\ (tx.owner # None => tx.owner \in Keys)
  BY LimitsAssumption DEF Transactions, U64
<1>2. CASE tx.owner # None /\ tx.type = "STAKE"
  <2>1. AddStake(S.stake, tx.owner, tx.amount) \in [Keys -> Nat]
    BY <1>1, <1>2 DEF AddStake, States
  <2> QED
    BY <1>2, <2>1 DEF ApplyStakeMutations, States
<1>3. CASE tx.owner # None /\ tx.type = "UNSTAKE"
  <2>1. ReduceStake(S.stake, tx.owner, tx.amount) \in [Keys -> Nat]
    BY <1>1, <1>3 DEF ReduceStake, States
  <2>2. Enqueue(S.queue, tx.owner, tx.amount, slot + UnstakeDelaySlots)
          \in Seq(PendingUnstakes)
    BY <1>1, <1>3, LimitsAssumption DEF Enqueue, States, PendingUnstakes
  <2> QED
    BY <1>3, <2>1, <2>2 DEF ApplyStakeMutations, ApplyUnstake, States
<1>4. CASE tx.owner # None /\ tx.type = "EQUIVOCATION_PROOF"
  <2>1. ApplyStakeMutations(S, tx, slot) = ApplyEquivocation(S, tx)
    BY <1>4 DEF ApplyStakeMutations
  <2>2. CASE tx.evidence = NoEvidence \/ OffenceOf(tx) \in S.slashed
    BY <2>1, <2>2 DEF ApplyEquivocation
  <2>3. CASE ~(tx.evidence = NoEvidence \/ OffenceOf(tx) \in S.slashed)
    <3> DEFINE T == Slash(S, OffenceOf(tx)[2])
               o == OffenceOf(tx)
    <3>1. o \in Offences /\ T \in States
      BY <2>3, OffenceType, SlashType
    <3>2. ApplyEquivocation(S, tx) = [T EXCEPT !.slashed = @ \cup {o}]
      BY <2>3 DEF ApplyEquivocation
    <3> HIDE DEF T, o
    <3> QED
      BY ZenonT(30), <2>1, <3>1, <3>2 DEF States
  <2> QED
    BY <2>2, <2>3
<1> QED
  BY <1>2, <1>3, <1>4 DEF ApplyStakeMutations

-----------------------------------------------------------------------------
(* Domain pass *)

Names == RecordSets \cup {None}

\* The index operations lead from a state to a state, for any name.
LEMMA IndexType ==
  ASSUME NEW S \in States, NEW d, NEW tid \in Nat, NEW n \in Nat,
         NEW recs \in Names, NEW k \in Keys \cup {None}
  PROVE  /\ AddDomain(S, d, tid, n, recs) \in States
         /\ SetOwner(S, d, k) \in States
         /\ SetListPrice(S, d, n) \in States
         /\ MarkAsSpent(S, tid) \in States
<1> DEFINE F == [Domains -> Entries]
<1>1. S.dom \in F
  BY DEF States
<1>2. \A D \in F : [S EXCEPT !.dom = D] \in States
  BY DEF States
<1> DEFINE added == [S.dom[d] EXCEPT !.tid = tid, !.expiry = n, !.records = recs]
           owned == [S.dom[d] EXCEPT !.owner = k]
           listed == [S.dom[d] EXCEPT !.price = n]
<1>3. /\ AddDomain(S, d, tid, n, recs) = [S EXCEPT !.dom = [S.dom EXCEPT ![d] = added]]
      /\ SetOwner(S, d, k) = [S EXCEPT !.dom = [S.dom EXCEPT ![d] = owned]]
      /\ SetListPrice(S, d, n) = [S EXCEPT !.dom = [S.dom EXCEPT ![d] = listed]]
  BY DEF AddDomain, SetOwner, SetListPrice, States
<1>4. CASE d \in Domains
  <2>1. added \in Entries /\ owned \in Entries /\ listed \in Entries
    BY <1>1, <1>4 DEF Entries, Names
  <2>2. \A e \in Entries : [S.dom EXCEPT ![d] = e] \in F
    BY <1>1, <1>4
  <2> HIDE DEF added, owned, listed, F
  <2> QED
    BY <1>2, <1>3, <2>1, <2>2 DEF MarkAsSpent, States
<1>5. CASE d \notin Domains
  <2>1. \A e : [S.dom EXCEPT ![d] = e] = S.dom
    BY <1>1, <1>5
  <2> HIDE DEF added, owned, listed, F
  <2> QED
    BY <1>1, <1>2, <1>3, <2>1 DEF MarkAsSpent, States
<1> QED
  BY <1>4, <1>5

\* The commit operations lead from a state to a state.
LEMMA CommitType ==
  ASSUME NEW S \in States
  PROVE  /\ \A rec \in CommitRecords : AddCommit(S, rec) \in States
         /\ \A h \in CommitHashes : ConsumeCommit(S, h) \in States
         /\ \A n \in Nat : PurgeExpired(S, n) \in States
         /\ CommitCommits(S) \in States
<1>1. \A rec \in CommitRecords : AddCommit(S, rec) \in States
  BY DEF AddCommit, States
<1>2. \A h \in CommitHashes : ConsumeCommit(S, h) \in States
  BY DEF ConsumeCommit, States
<1>3. ASSUME NEW n \in Nat PROVE PurgeExpired(S, n) \in States
  <2> DEFINE expired == {c.hash : c \in {r \in S.commits : n > r.expiry}}
  <2>1. expired \subseteq CommitHashes
    BY DEF States, CommitRecords
  <2> HIDE DEF expired
  <2>2. [S EXCEPT !.gone = @ \cup expired] \in States
    BY <2>1 DEF States
  <2> QED
    BY <2>2 DEF PurgeExpired, expired
<1>4. CommitCommits(S) \in States
  BY DEF CommitCommits, States
<1> QED
  BY <1>1, <1>2, <1>3, <1>4

\* What the gates make sure of before a COMMIT or a BUY is applied.
IsComplete(tx) ==
  /\ tx.type = "COMMIT" => tx.hash \in CommitHashes /\ tx.owner \in Keys
  /\ tx.type = "BUY" => tx.domain \in Domains /\ tx.owner \in Keys

\* A transaction's domain mutations lead from a state to a state.
LEMMA DomainType ==
  ASSUME NEW L \in States, NEW S \in States, NEW tx \in Transactions,
         IsComplete(tx), NEW slot \in Nat, NEW index \in Nat
  PROVE  ApplyDomainMutations(L, S, tx, slot, index) \in States
<1>1. /\ tx.tid \in Nat /\ tx.expiry \in Nat /\ tx.redeems \in Nat
      /\ tx.price \in Nat /\ tx.records \in Names
      /\ tx.owner \in Keys \cup {None} /\ tx.recipient \in Keys \cup {None}
  BY LimitsAssumption DEF Transactions, U64, Names
<1>2. ASSUME NEW T \in States
      PROVE  /\ \A recs \in Names :
                  AddDomain(T, tx.domain, tx.tid, tx.expiry, recs) \in States
             /\ SetOwner(T, tx.domain, tx.owner) \in States
             /\ SetOwner(T, tx.domain, tx.recipient) \in States
             /\ SetListPrice(T, tx.domain, tx.price) \in States
             /\ SetListPrice(T, tx.domain, 0) \in States
             /\ MarkAsSpent(T, tx.redeems) \in States
  BY <1>1, IndexType
<1>3. ApplyRegister(S, tx, slot) \in States
  BY <1>1, <1>2 DEF ApplyRegister
<1>4. CASE tx.type = "COMMIT"
  <2> DEFINE rec == [hash |-> tx.hash, committer |-> tx.owner, slot |-> slot,
                     tid |-> tx.tid, expiry |-> index + CommitMaxWindow]
  <2>1. rec \in CommitRecords
    BY <1>1, <1>4, LimitsAssumption DEF IsComplete, CommitRecords
  <2> HIDE DEF rec
  <2>2. AddCommit(S, rec) \in States
    BY <2>1, CommitType
  <2> QED
    BY <1>4, <2>2 DEF ApplyDomainMutations, ApplyCommit, rec
<1>5. ApplyReveal(S, tx, slot) \in States
  <2>1. HasCommit(S, RevealHash(tx)) => RevealHash(tx) \in CommitHashes
    BY DEF HasCommit, States, CommitRecords
  <2>2. \A T \in States : HasCommit(S, RevealHash(tx)) =>
          ConsumeCommit(T, RevealHash(tx)) \in States
    BY <2>1, CommitType
  <2> QED
    BY <1>1, <1>2, <2>2 DEF ApplyReveal
<1>6. ApplyRevoke(L, S, tx, slot) \in States
  BY <1>1, <1>2 DEF ApplyRevoke
<1>7. ASSUME NEW isRenew \in BOOLEAN PROVE ApplyUpdateOrRenew(L, S, tx, isRenew) \in States
  <2> DEFINE kept == S.dom[tx.domain].records
             recs == IF isRenew /\ kept # None THEN kept ELSE tx.records
  <2>1. CASE tx.redeems # 0 /\ RedeemsOwnDomain(L, S, tx)
    <3>1. tx.domain \in Domains
      BY <2>1 DEF RedeemsOwnDomain, GetTxByID, HolderOf
    <3>2. recs \in Names
      BY <1>1, <3>1 DEF States, Entries, Names
    <3> HIDE DEF recs
    <3> QED
      BY <1>2, <2>1, <3>2 DEF ApplyUpdateOrRenew, recs
  <2>2. CASE ~(tx.redeems # 0 /\ RedeemsOwnDomain(L, S, tx))
    BY <2>2 DEF ApplyUpdateOrRenew
  <2> QED
    BY <2>1, <2>2
<1>8. ApplyUpdate(L, S, tx, slot) \in States /\ ApplyRenew(L, S, tx, slot) \in States
  BY <1>7 DEF ApplyUpdate, ApplyRenew
<1>9. ApplyList(S, tx, slot) \in States /\ ApplyDelist(S, tx, slot) \in States
  BY <1>2 DEF ApplyList, ApplyDelist
<1>10. ApplyTransferDomain(S, tx, slot) \in States
  BY <1>2 DEF ApplyTransferDomain
<1>11. CASE tx.type = "BUY"
  <2> DEFINE seller == S.dom[tx.domain].owner
             price == S.dom[tx.domain].price
             bal1 == Debit(S.bal, tx.owner, price)
             bal2 == Credit(bal1, seller, price)
  <2>1. price \in Nat /\ tx.owner \in Keys /\ S.bal \in [Keys -> Nat]
    BY <1>11 DEF IsComplete, States, Entries
  <2>2. bal1 \in [Keys -> Nat]
    BY <2>1, BalanceType
  <2>3. bal2 \in [Keys -> Nat]
    <3> HIDE DEF bal1, price
    <3>1. CASE seller \in Keys
      BY <2>1, <2>2, <3>1, BalanceType
    <3>2. CASE seller \notin Keys
      BY <2>2, <3>2 DEF Credit
    <3> QED
      BY <3>1, <3>2
  <2> DEFINE T == [S EXCEPT !.bal = bal2]
  <2>4. T \in States
    <3> HIDE DEF bal2
    <3> QED
      BY <2>3 DEF States
  <2>5. ApplyBuyDomain(S, tx, slot) \in
          {S, SetListPrice(SetOwner(T, tx.domain, tx.owner), tx.domain, 0)}
    BY DEF ApplyBuyDomain
  <2> HIDE DEF T
  <2>6. ApplyBuyDomain(S, tx, slot) \in States
    BY <1>2, <2>4, <2>5
  <2> QED
    BY <1>11, <2>6 DEF ApplyDomainMutations
<1> QED
  BY <1>3, <1>4, <1>5, <1>6, <1>8, <1>9, <1>10, <1>11 DEF ApplyDomainMutations

-----------------------------------------------------------------------------
(* Promotion and shadow maps *)

\* Committing the index overlay leads from a state to a state.
LEMMA CommitIndexType ==
  ASSUME NEW L \in States, NEW S \in States
  PROVE  CommitIndex(L, S) \in States
<1> DEFINE D == {e \in Readded(L, S) : S.dom[e].expiry > 0}
           P == {<<ComputePurgeSlot(S.dom[d].expiry), d, S.dom[d].tid>> : d \in D}
<1>1. P \subseteq Nat \X Domains \X Nat
  <2>1. D \subseteq Domains
    BY DEF Readded
  <2> HIDE DEF D
  <2> QED
    BY <2>1, SMTT(30), LimitsAssumption DEF States, Entries, ComputePurgeSlot
<1> HIDE DEF P
<1>2. [S EXCEPT !.purge = @ \cup P] \in States
  BY <1>1 DEF States
<1> QED
  BY <1>2 DEF CommitIndex, P

\* The shadow maps start out well-typed.
LEMMA InitShadowType ==
  ASSUME NEW V \in States
  PROVE  InitShadow(V) \in Shadows
BY LimitsAssumption DEF InitShadow, Shadows, States, Entries, U64

\* The gates let only complete transactions through.
LEMMA GateIsComplete ==
  ASSUME NEW V, NEW sh, NEW tx \in Transactions, NEW c, GateTx(V, sh, tx, c),
         sh.registered \subseteq Domains
  PROVE  IsComplete(tx)
<1>1. tx.type = "COMMIT" => tx.hash \in CommitHashes /\ tx.owner \in Keys
  BY NamesAssumption DEF GateTx, StructureOK, CommitGate, IsRegistryKey, Transactions
<1>2. tx.type = "BUY" => tx.domain \in Domains
  BY DEF GateTx, StructureOK, MarketPhaseGate, MarketTypes, Exists
<1>3. tx.type = "BUY" => tx.owner \in Keys
  BY DEF GateTx, AutoRevokeGate, Transactions
<1> QED
  BY <1>1, <1>2, <1>3 DEF IsComplete

\* The shadow balance left by an accepted transaction does not go below zero.
LEMMA BalanceAfterType ==
  ASSUME NEW V \in States, NEW sh \in Shadows, NEW tx \in Transactions, NEW c,
         GateTx(V, sh, tx, c), tx.owner # None
  PROVE  BalanceAfter(sh, tx) \in Nat
<1>1. /\ tx.owner \in Keys /\ sh.bal[tx.owner] \in Nat
      /\ tx.fee \in U64 /\ tx.price \in U64 /\ tx.amount \in U64
  BY DEF Transactions, Shadows
<1>2. /\ FundGate(sh, tx) /\ BalanceGate(sh, tx)
      /\ BuyGate(sh, tx) /\ StakeGate(sh, tx)
  BY DEF GateTx
<1>3. CASE tx.type = "FUND"
  <2>1. AddU64(tx.fee, tx.price) = tx.fee + tx.price
    BY <1>1, <1>2, <1>3, NoWrap DEF FundGate
  <2>2. sh.bal[tx.owner] >= tx.fee + tx.price
    BY <1>2, <1>3, <2>1 DEF FundGate
  <2> QED
    BY <1>1, <1>3, <2>2 DEF BalanceAfter, U64
<1>4. CASE tx.type = "BUY"
  <2>1. sh.forSale[tx.domain] \in Nat
    <3>1. tx.domain \in Domains
      BY <1>4, GateIsComplete DEF IsComplete, Shadows
    <3> QED
      BY <3>1 DEF Shadows
  <2>2. sh.bal[tx.owner] - tx.fee >= sh.forSale[tx.domain]
    BY <1>2, <1>4 DEF BuyGate
  <2> QED
    BY <1>1, <1>4, <2>1, <2>2 DEF BalanceAfter, U64
<1>5. CASE tx.type = "STAKE"
  <2>1. sh.bal[tx.owner] - tx.fee >= tx.amount
    BY <1>2, <1>5 DEF StakeGate
  <2> QED
    BY <1>1, <1>5, <2>1 DEF BalanceAfter, U64
<1>6. CASE tx.type \notin {"FUND", "BUY", "STAKE"}
  BY <1>1, <1>2, <1>6 DEF BalanceAfter, BalanceGate, U64
<1> QED
  BY <1>3, <1>4, <1>5, <1>6

\* What the gate computes about a slash are natural numbers.
LEMMA ShadowSlashType ==
  ASSUME NEW V \in States, NEW sh \in Shadows, NEW k \in Keys
  PROVE  SlashAmount(V, sh, k) \in Nat /\ Excess(V, sh, k) \in Nat
<1>1. sh.stake[k] \in Nat /\ sh.pending[k] \in Nat /\ sh.burn[k] \in Nat
  BY LimitsAssumption DEF Shadows, U64
<1>2. GetPendingStake(V.queue, k) \in Nat
  BY PendingType DEF States, Queues
<1>3. QueuePart(V, sh, k) \in U64
  BY <1>1, <1>2, U64Type DEF QueuePart
<1>4. TotalSlashable(V, sh, k) \in Nat
  <2>1. QueuePart(V, sh, k) \in Int /\ sh.stake[k] \in Int
    BY <1>1, <1>3 DEF U64
  <2>2. TotalSlashable(V, sh, k) \in U64
    BY <2>1, U64Type DEF TotalSlashable
  <2> QED
    BY <2>2 DEF U64
<1>5. SlashAmount(V, sh, k) \in Nat
  BY <1>4, SlashAmountType DEF SlashAmount
<1> QED
  BY <1>1, <1>5 DEF Excess

\* An accepted transaction leaves well-typed shadow maps.
LEMMA ShadowType ==
  ASSUME NEW V \in States, NEW sh \in Shadows, NEW tx \in Transactions, NEW c,
         GateTx(V, sh, tx, c)
  PROVE  ShadowAfter(V, sh, tx) \in Shadows
<1>1. SpentAfter(sh, tx) \in SUBSET Nat
  BY DEF SpentAfter, Shadows, Transactions
<1>2. CASE tx.owner = None
  BY <1>1, <1>2 DEF ShadowAfter, Shadows
<1>3. CASE tx.owner # None
  <2>1. tx.owner \in Keys /\ tx.amount \in Nat /\ tx.price \in Nat
    BY <1>3, LimitsAssumption DEF Transactions, U64
  <2>2. [sh.nonce EXCEPT ![tx.owner] = @ + 1] \in [Keys -> Nat]
    BY <2>1 DEF Shadows
  <2>3. [sh.bal EXCEPT ![tx.owner] = BalanceAfter(sh, tx)] \in [Keys -> Nat]
    BY <1>3, <2>1, BalanceAfterType DEF Shadows
  <2>4. ForSaleAfter(sh, tx) \in [Domains -> Nat]
    BY <2>1 DEF ForSaleAfter, Shadows
  <2>5. tx.type = "REVEAL" => tx.domain \in Domains /\ RevealHash(tx) \in CommitHashes
    <3>1. tx.type = "REVEAL" => HasCommit(V, RevealHash(tx))
      BY <1>3 DEF GateTx, RevealGate
    <3>2. tx.type = "REVEAL" => RevealHash(tx) \in CommitHashes
      BY <3>1 DEF HasCommit, States, CommitRecords
    <3> QED
      BY <3>2 DEF RevealHash, CommitHashes
  <2>6. OwnerAfter(sh, tx) \in [Domains -> Keys \cup {None}]
    BY DEF OwnerAfter, Shadows, Transactions
  <2>7. sh.txs \cup {<<tx.tid, tx.domain>>} \in SUBSET (Nat \X (Domains \cup {None}))
    BY DEF Shadows, Transactions
  <2>8. CommitAfter(sh, tx) \in SUBSET CommitHashes
    BY <2>5, GateIsComplete DEF CommitAfter, Shadows, IsComplete
  <2>9. tx.type = "EQUIVOCATION_PROOF" =>
          OffenceOf(tx) \in Offences /\ OffenceOf(tx)[2] \in Keys
    BY <1>3, OffenceType DEF GateTx, EquivocationGate
  <2>10. OffencesAfter(sh, tx) \in SUBSET Offences
    BY <2>9 DEF OffencesAfter, Shadows
  <2>11. StakeAfter(V, sh, tx) \in [Keys -> Nat]
    <3>1. sh.stake \in [Keys -> Nat]
      BY DEF Shadows
    <3>2. CASE tx.type = "STAKE"
      BY <2>1, <3>1, <3>2 DEF StakeAfter
    <3>3. CASE tx.type = "UNSTAKE"
      <4>1. sh.stake[tx.owner] - tx.amount \in Nat
        BY <1>3, <2>1, <3>1, <3>3 DEF GateTx, UnstakeGate
      <4> QED
        BY <2>1, <3>1, <3>3, <4>1 DEF StakeAfter
    <3>4. CASE tx.type = "EQUIVOCATION_PROOF"
      BY <2>9, <3>1, <3>4, ShadowSlashType DEF StakeAfter
    <3> QED
      BY <3>1, <3>2, <3>3, <3>4 DEF StakeAfter
  <2>12. PendingAfter(V, sh, tx) \in [Keys -> Nat]
    <3>1. sh.pending \in [Keys -> Nat]
      BY DEF Shadows
    <3>2. CASE tx.type = "EQUIVOCATION_PROOF"
      BY <2>9, <3>1, <3>2, ShadowSlashType DEF PendingAfter
    <3> QED
      BY <2>1, <3>1, <3>2 DEF PendingAfter
  <2>13. BurnAfter(V, sh, tx) \in [Keys -> U64]
    <3>1. sh.burn \in [Keys -> U64]
      BY DEF Shadows
    <3>2. CASE tx.type = "EQUIVOCATION_PROOF"
      <4> DEFINE k == OffenceOf(tx)[2]
      <4>1. k \in Keys /\ Excess(V, sh, k) \in Int /\ sh.burn[k] \in Int
        BY <2>9, <3>1, <3>2, ShadowSlashType DEF U64
      <4>2. AddU64(sh.burn[k], Excess(V, sh, k)) \in U64
        BY <4>1, U64Type
      <4> QED
        BY <3>1, <3>2, <4>1, <4>2 DEF BurnAfter
    <3> QED
      BY <3>1, <3>2 DEF BurnAfter
  <2> QED
    BY <1>1, <1>3, <2>2, <2>3, <2>4, <2>5, <2>6, <2>7, <2>8, <2>10, <2>11, <2>12, <2>13
    DEF ShadowAfter, Shadows
<1> QED
  BY <1>2, <1>3

-----------------------------------------------------------------------------
(* What the loops of BlockRules compute, one iteration at a time *)

\* The parts of a block that the passes read.
IsBody(b) ==
  /\ b.slot \in Nat /\ b.index \in Nat /\ b.txs \in Seq(Transactions)
  /\ \A j \in 1 .. Len(b.txs) : IsComplete(b.txs[j])

\* The ledger loop starts from S and applies one transaction per iteration.
LEMMA LedgerLoopSteps ==
  ASSUME NEW S \in States, NEW txs \in Seq(Transactions)
  PROVE  /\ LedgerLoop(S, txs)[0] = S
         /\ \A n \in 1 .. Len(txs) :
              LedgerLoop(S, txs)[n]
                = ApplyLedgerMutations(LedgerLoop(S, txs)[n - 1], txs[n])
<1> DEFINE L == Len(txs)
           next(n, v) == ApplyLedgerMutations(v, txs[n])
           eq(f) == f = [n \in 0 .. L |-> IF n = 0 THEN S ELSE next(n, f[n - 1])]
           step == [p \in (1 .. L) \X States |-> next(p[1], p[2])]
           loop == LedgerLoop(S, txs)
<1>1. L \in Nat /\ \A n \in 1 .. L, v \in States : next(n, v) \in States
  BY LedgerType
<1>2. loop = CHOOSE f : eq(f)
  BY DEF LedgerLoop
<1> HIDE DEF next, L
<1>3. PICK f \in [0 .. L -> States] :
        f[0] = S /\ \A n \in 1 .. L : f[n] = step[<<n, f[n - 1]>>]
  <2>1. step \in [(1 .. L) \X States -> States]
    BY <1>1
  <2> HIDE DEF step
  <2>2. LoopTables(L, States, S, step) # {}
    BY <1>1, <2>1, LoopExists
  <2> QED
    BY <2>2 DEF LoopTables
<1>4. \A n \in 1 .. L : f[n] = next(n, f[n - 1])
  <2>1. TAKE n \in 1 .. L
  <2>2. f[n - 1] \in States
    BY <1>1
  <2> QED
    BY <1>3, <2>2
<1>5. eq(f)
  BY <1>1, <1>3, <1>4
<1>6. eq(loop)
  BY <1>2, <1>5
<1> HIDE DEF loop
<1>7. \A n \in 0 .. L : loop[n] = IF n = 0 THEN S ELSE next(n, loop[n - 1])
  BY <1>6
<1>8. loop[0] = S /\ \A n \in 1 .. L : loop[n] = next(n, loop[n - 1])
  BY <1>1, <1>7
<1> QED
  BY <1>8 DEF next, L, loop

\* The fee loop adds up the fees.
LEMMA FeeLoopSteps ==
  ASSUME NEW txs \in Seq(Transactions)
  PROVE  /\ FeeLoop(txs)[0] = 0
         /\ \A n \in 1 .. Len(txs) :
              FeeLoop(txs)[n]
                = FeeLoop(txs)[n - 1] + txs[n].fee
<1> DEFINE L == Len(txs)
           next(n, v) == v + txs[n].fee
           eq(f) == f = [n \in 0 .. L |-> IF n = 0 THEN 0 ELSE next(n, f[n - 1])]
           step == [p \in (1 .. L) \X Nat |-> next(p[1], p[2])]
           loop == FeeLoop(txs)
<1>1. L \in Nat /\ \A n \in 1 .. L, v \in Nat : next(n, v) \in Nat
  <2>1. \A n \in 1 .. L : txs[n] \in Transactions
    OBVIOUS
  <2>2. \A tx \in Transactions : tx.fee \in Nat
    BY LimitsAssumption DEF Transactions, U64
  <2> QED
    BY <2>1, <2>2
<1>2. loop = CHOOSE f : eq(f)
  BY DEF FeeLoop
<1> HIDE DEF next, L
<1>3. PICK f \in [0 .. L -> Nat] :
        f[0] = 0 /\ \A n \in 1 .. L : f[n] = step[<<n, f[n - 1]>>]
  <2>1. step \in [(1 .. L) \X Nat -> Nat]
    BY <1>1
  <2> HIDE DEF step
  <2>2. LoopTables(L, Nat, 0, step) # {}
    BY <1>1, <2>1, LoopExists
  <2> QED
    BY <2>2 DEF LoopTables
<1>4. \A n \in 1 .. L : f[n] = next(n, f[n - 1])
  <2>1. TAKE n \in 1 .. L
  <2>2. f[n - 1] \in Nat
    BY <1>1
  <2> QED
    BY <1>3, <2>2
<1>5. eq(f)
  BY <1>1, <1>3, <1>4
<1>6. eq(loop)
  BY <1>2, <1>5
<1> HIDE DEF loop
<1>7. \A n \in 0 .. L : loop[n] = IF n = 0 THEN 0 ELSE next(n, loop[n - 1])
  BY <1>6
<1>8. loop[0] = 0 /\ \A n \in 1 .. L : loop[n] = next(n, loop[n - 1])
  BY <1>1, <1>7
<1> QED
  BY <1>8 DEF next, L, loop

\* The domain loop applies one complete transaction per iteration.
LEMMA DomainLoopSteps ==
  ASSUME NEW K \in States, NEW S \in States, NEW b, IsBody(b)
  PROVE  /\ DomainLoop(K, S, b)[0] = S
         /\ \A n \in 1 .. Len(b.txs) :
              DomainLoop(K, S, b)[n]
                = ApplyDomainMutations(K, DomainLoop(K, S, b)[n - 1], b.txs[n], b.slot, b.index)
<1> DEFINE L == Len(b.txs)
           next(n, v) == ApplyDomainMutations(K, v, b.txs[n], b.slot, b.index)
           eq(f) == f = [n \in 0 .. L |-> IF n = 0 THEN S ELSE next(n, f[n - 1])]
           step == [p \in (1 .. L) \X States |-> next(p[1], p[2])]
           loop == DomainLoop(K, S, b)
<1>1. L \in Nat /\ \A n \in 1 .. L, v \in States : next(n, v) \in States
  <2>1. /\ b.slot \in Nat /\ b.index \in Nat /\ Len(b.txs) \in Nat
        /\ \A n \in 1 .. Len(b.txs) : b.txs[n] \in Transactions /\ IsComplete(b.txs[n])
    BY DEF IsBody
  <2> QED
    BY <2>1, DomainType
<1>2. loop = CHOOSE f : eq(f)
  BY DEF DomainLoop
<1> HIDE DEF next, L
<1>3. PICK f \in [0 .. L -> States] :
        f[0] = S /\ \A n \in 1 .. L : f[n] = step[<<n, f[n - 1]>>]
  <2>1. step \in [(1 .. L) \X States -> States]
    BY <1>1
  <2> HIDE DEF step
  <2>2. LoopTables(L, States, S, step) # {}
    BY <1>1, <2>1, LoopExists
  <2> QED
    BY <2>2 DEF LoopTables
<1>4. \A n \in 1 .. L : f[n] = next(n, f[n - 1])
  <2>1. TAKE n \in 1 .. L
  <2>2. f[n - 1] \in States
    BY <1>1
  <2> QED
    BY <1>3, <2>2
<1>5. eq(f)
  BY <1>1, <1>3, <1>4
<1>6. eq(loop)
  BY <1>2, <1>5
<1> HIDE DEF loop
<1>7. \A n \in 0 .. L : loop[n] = IF n = 0 THEN S ELSE next(n, loop[n - 1])
  BY <1>6
<1>8. loop[0] = S /\ \A n \in 1 .. L : loop[n] = next(n, loop[n - 1])
  BY <1>1, <1>7
<1> QED
  BY <1>8 DEF next, L, loop

\* The stake loop applies one transaction per iteration.
LEMMA StakeLoopSteps ==
  ASSUME NEW S \in States, NEW b, IsBody(b)
  PROVE  /\ StakeLoop(S, b)[0] = S
         /\ \A n \in 1 .. Len(b.txs) :
              StakeLoop(S, b)[n]
                = ApplyStakeMutations(StakeLoop(S, b)[n - 1], b.txs[n], b.slot)
<1> DEFINE L == Len(b.txs)
           next(n, v) == ApplyStakeMutations(v, b.txs[n], b.slot)
           eq(f) == f = [n \in 0 .. L |-> IF n = 0 THEN S ELSE next(n, f[n - 1])]
           step == [p \in (1 .. L) \X States |-> next(p[1], p[2])]
           loop == StakeLoop(S, b)
<1>1. L \in Nat /\ \A n \in 1 .. L, v \in States : next(n, v) \in States
  <2>1. /\ b.slot \in Nat /\ Len(b.txs) \in Nat
        /\ \A n \in 1 .. Len(b.txs) : b.txs[n] \in Transactions
    BY DEF IsBody
  <2> QED
    BY <2>1, StakeType
<1>2. loop = CHOOSE f : eq(f)
  BY DEF StakeLoop
<1> HIDE DEF next, L
<1>3. PICK f \in [0 .. L -> States] :
        f[0] = S /\ \A n \in 1 .. L : f[n] = step[<<n, f[n - 1]>>]
  <2>1. step \in [(1 .. L) \X States -> States]
    BY <1>1
  <2> HIDE DEF step
  <2>2. LoopTables(L, States, S, step) # {}
    BY <1>1, <2>1, LoopExists
  <2> QED
    BY <2>2 DEF LoopTables
<1>4. \A n \in 1 .. L : f[n] = next(n, f[n - 1])
  <2>1. TAKE n \in 1 .. L
  <2>2. f[n - 1] \in States
    BY <1>1
  <2> QED
    BY <1>3, <2>2
<1>5. eq(f)
  BY <1>1, <1>3, <1>4
<1>6. eq(loop)
  BY <1>2, <1>5
<1> HIDE DEF loop
<1>7. \A n \in 0 .. L : loop[n] = IF n = 0 THEN S ELSE next(n, loop[n - 1])
  BY <1>6
<1>8. loop[0] = S /\ \A n \in 1 .. L : loop[n] = next(n, loop[n - 1])
  BY <1>1, <1>7
<1> QED
  BY <1>8 DEF next, L, loop

-----------------------------------------------------------------------------
(* Passes that leave the nonces alone *)

\* T has the nonces of S.
SameNonce(T, S) == "nonce" \in DOMAIN T /\ T.nonce = S.nonce

\* The index, commit and stake operations leave the nonces alone.
LEMMA FieldsLeaveNonce ==
  ASSUME NEW S, NEW T, SameNonce(T, S)
  PROVE  /\ \A d, tid, n, recs : SameNonce(AddDomain(T, d, tid, n, recs), S)
         /\ \A d, k : SameNonce(SetOwner(T, d, k), S)
         /\ \A d, n : SameNonce(SetListPrice(T, d, n), S)
         /\ \A tid : SameNonce(MarkAsSpent(T, tid), S)
         /\ \A h : SameNonce(ConsumeCommit(T, h), S)
         /\ \A rec : SameNonce(AddCommit(T, rec), S)
         /\ \A b : SameNonce([T EXCEPT !.bal = b], S)
         /\ \A q : SameNonce([T EXCEPT !.queue = q], S)
         /\ SameNonce(CommitCommits(T), S)
         /\ \A L : SameNonce(CommitIndex(L, T), S)
BY DEF SameNonce, AddDomain, SetOwner, SetListPrice, MarkAsSpent, ConsumeCommit,
       AddCommit, CommitCommits, CommitIndex

\* The domain pass leaves the nonces to the ledger pass.
LEMMA DomainLeavesNonce ==
  ASSUME NEW L, NEW S \in States, NEW tx \in Transactions, NEW slot, NEW index
  PROVE  SameNonce(ApplyDomainMutations(L, S, tx, slot, index), S)
<1>0. SameNonce(S, S)
  BY DEF SameNonce, States
<1>1. SameNonce(ApplyRegister(S, tx, slot), S)
  BY <1>0, FieldsLeaveNonce DEF ApplyRegister
<1>2. SameNonce(ApplyCommit(S, tx, slot, index), S)
  BY <1>0, FieldsLeaveNonce DEF ApplyCommit
<1>3. SameNonce(ApplyReveal(S, tx, slot), S)
  BY <1>0, FieldsLeaveNonce DEF ApplyReveal
<1>4. SameNonce(ApplyRevoke(L, S, tx, slot), S)
  BY <1>0, FieldsLeaveNonce DEF ApplyRevoke
<1>5. \A r : SameNonce(ApplyUpdateOrRenew(L, S, tx, r), S)
  BY <1>0, FieldsLeaveNonce DEF ApplyUpdateOrRenew
<1>6. /\ SameNonce(ApplyUpdate(L, S, tx, slot), S)
      /\ SameNonce(ApplyRenew(L, S, tx, slot), S)
  BY <1>0, <1>5 DEF ApplyUpdate, ApplyRenew
<1>7. /\ SameNonce(ApplyList(S, tx, slot), S)
      /\ SameNonce(ApplyDelist(S, tx, slot), S)
      /\ SameNonce(ApplyTransferDomain(S, tx, slot), S)
  BY <1>0, FieldsLeaveNonce DEF ApplyList, ApplyDelist, ApplyTransferDomain
<1>8. SameNonce(ApplyBuyDomain(S, tx, slot), S)
  BY <1>0, FieldsLeaveNonce DEF ApplyBuyDomain
<1> QED
  BY <1>0, <1>1, <1>2, <1>3, <1>4, <1>6, <1>7, <1>8 DEF ApplyDomainMutations

\* The stake pass writes the stake map, the queue and the evidence only.
LEMMA StakePassFields ==
  ASSUME NEW S \in States, NEW tx \in Transactions, NEW slot
  PROVE  LET T == ApplyStakeMutations(S, tx, slot)
         IN  /\ T.nonce = S.nonce /\ T.bal = S.bal /\ T.dom = S.dom
             /\ T.spent = S.spent /\ T.purge = S.purge
             /\ T.commits = S.commits /\ T.gone = S.gone
<1> DEFINE Same(T) == /\ T.nonce = S.nonce /\ T.bal = S.bal /\ T.dom = S.dom
                      /\ T.spent = S.spent /\ T.purge = S.purge
                      /\ T.commits = S.commits /\ T.gone = S.gone
<1>1. Same(S)
  OBVIOUS
<1>2. \A f : Same([S EXCEPT !.stake = f])
  BY DEF States
<1>3. Same(ApplyUnstake(S, tx, slot))
  BY DEF ApplyUnstake, States
<1>4. \A k : Same(Slash(S, k)) /\ DOMAIN Slash(S, k) = DOMAIN S
  BY DEF Slash, States
<1>5. Same(ApplyEquivocation(S, tx))
  <2> DEFINE A == Slash(S, OffenceOf(tx)[2])
  <2>1. Same(A) /\ DOMAIN A = DOMAIN S
    BY <1>4
  <2> HIDE DEF A
  <2>2. Same([A EXCEPT !.slashed = @ \cup {OffenceOf(tx)}])
    BY <2>1 DEF States
  <2> QED
    BY <1>1, <2>2 DEF ApplyEquivocation, A
<1> HIDE DEF Same
<1>6. Same(ApplyStakeMutations(S, tx, slot))
  BY <1>1, <1>2, <1>3, <1>5 DEF ApplyStakeMutations
<1> QED
  BY <1>6 DEF Same

=============================================================================
