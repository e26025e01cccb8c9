------------------------------- MODULE Election -------------------------------
(***************************************************************************)
(* Leader election, internal/consensus/pos.go.  Registries are numbered in *)
(* the order of RegistryKeys, and "stakes" is the sequence of their        *)
(* stakes.                                                                 *)
(*                                                                         *)
(* The code computes shares of the stake, their running sums and the seed  *)
(* in float64.  A float is an integer number of units of 2^-Scale here,    *)
(* and every conversion, quotient and sum is rounded to a mantissa of      *)
(* "Mantissa" bits, to the nearest float and to the even one of two.       *)
(***************************************************************************)
EXTENDS Integers, Sequences

CONSTANTS
  SeedMax,    \* the largest value of the leading word of the revealed XOR,
              \* 2^64 - 1 in the code
  Mantissa,   \* bits of a float's mantissa, 53 in the code
  Scale       \* bound: a float is a multiple of 2^-Scale

ASSUME ElectionAssumption ==
  SeedMax \in Nat \ {0} /\ Mantissa \in Nat \ {0} /\ Scale \in Nat

-----------------------------------------------------------------------------
(* Floats *)

Unit == 2 ^ Scale

\* The distance between floats around v units.
Ulp(v) ==
  2 ^ (CHOOSE k \in 0 .. 2 * Scale :
         v < 2 ^ (Mantissa + k) /\ \A j \in 0 .. k - 1 : v >= 2 ^ (Mantissa + j))

\* The integer nearest to num/den.
NearestEven(num, den) ==
  LET q == num \div den
      r == num % den
  IN  IF 2 * r < den \/ (2 * r = den /\ q % 2 = 0) THEN q ELSE q + 1

\* The float nearest to num/den.
Round(num, den) ==
  IF num = 0 THEN 0
  ELSE LET u == Ulp((num * Unit) \div den) IN u * NearestEven(num * Unit, den * u)

\* float64(n), x / y and x + y; adding zero is exact.
Float(n) == Round(n, 1)
Quotient(x, y) == Round(x, y)
Plus(x, y) == IF y = 0 THEN x ELSE Round(x + y, Unit)

-----------------------------------------------------------------------------
(* Shares and seeds *)

SumOf(stakes) ==
  LET sum[n \in 0 .. Len(stakes)] == IF n = 0 THEN 0 ELSE sum[n - 1] + stakes[n]
  IN  sum[Len(stakes)]

\* GetStakes: stake over total stake; every registry has the same share while
\* nobody has staked.
GetStakes(stakes) ==
  [i \in DOMAIN stakes |->
     IF SumOf(stakes) = 0 THEN Quotient(Float(1), Float(Len(stakes)))
     ELSE Quotient(Float(stakes[i]), Float(SumOf(stakes)))]

\* The running sums of the shares.
Cumulative(probs) ==
  LET cum[n \in 0 .. Len(probs)] == IF n = 0 THEN 0 ELSE Plus(cum[n - 1], probs[n])
  IN  cum

Cdf(stakes) ==
  LET cum == Cumulative(GetStakes(stakes)) IN [i \in DOMAIN stakes |-> cum[i]]

\* The seed made of the revealed randoms of an epoch: the leading word of
\* their XOR, which may be any word, over the largest word.
RevealedSeed(word) == Quotient(Float(word), Float(SeedMax))

(* DRGMockSeed XORs all public keys and the slot.  The keys are PKIX/DER     *)
(* encodings of P-256 points (key_pair.go), whose first eight bytes are      *)
(* always 30 59 30 13 06 07 2a 86.  Only the first eight bytes of the seed   *)
(* are used, so an even number of keys cancels out and leaves the slot, and  *)
(* an odd number leaves the constant prefix with the slot in its low bits.   *)
(* A slot is far below 2^32: over 2^64 it is "Tiny", or zero.                *)

DerPrefix == Round(12377, 65536)    \* 16#3059, the leading 16 bits
Tiny      == 1                      \* smaller than any share of the stake

DRGMockSeed(n, slot) ==
  CASE n % 2 = 1              -> DerPrefix
    [] n % 2 = 0 /\ slot > 0  -> Tiny
    [] n % 2 = 0 /\ slot = 0  -> 0

-----------------------------------------------------------------------------
(* The walk *)

\* Mutant: a sum that is just reached is passed over.
ReachesBelow(seed, cdf, i) == seed < cdf[i]

\* seed <= cdf[i]
Reaches(seed, cdf, i) == seed <= cdf[i]

\* Mutant: the walk does not stop at the first registry it reaches.
WalkOn(seed, cdf) ==
  LET hits == {i \in DOMAIN cdf : Reaches(seed, cdf, i)}
  IN  IF hits = {} THEN Len(cdf)
      ELSE CHOOSE i \in hits : \A j \in hits : i >= j

\* The first registry whose sum reaches the seed, the last one if rounding
\* leaves none.
CdfWalk(seed, cdf) ==
  LET hits == {i \in DOMAIN cdf : Reaches(seed, cdf, i)}
  IN  IF hits = {} THEN Len(cdf)
      ELSE CHOOSE i \in hits : \A j \in hits : i <= j

\* GetSlotLeaderUtil without revealed randoms.
LeaderFromMock(stakes, slot) ==
  CdfWalk(DRGMockSeed(Len(stakes), slot), Cdf(stakes))

=============================================================================
