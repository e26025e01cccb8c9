---------------------------- MODULE ElectionRounds ----------------------------
(***************************************************************************)
(* Rounds of leader election over all small stake distributions: between   *)
(* epochs stakes change and the epoch either has revealed randoms or falls *)
(* back to the mock seed (GetSlotLeader, node_leader.go:17-71).            *)
(***************************************************************************)
EXTENDS Election, FiniteSets

CONSTANTS
  Sizes,      \* numbers of registries
  MaxStake,   \* bound: stake of one registry
  LastSlot    \* bound: slot of the latest block

ASSUME RoundsAssumption ==
  /\ Sizes \subseteq Nat \ {0} /\ MaxStake \in Nat /\ LastSlot \in Nat

VARIABLES
  stakes,   \* what the election reads
  seed,     \* the seed it drew
  leader    \* the registry elected, 0 before the election

erVars == <<stakes, seed, leader>>

ERInit ==
  \E n \in Sizes :
    stakes = [i \in 1 .. n |-> 0] /\ seed = 0 /\ leader = 0

Registries == DOMAIN stakes

\* Before the next election a registry stakes, unstakes or is slashed.
ChangeStake(i, s) ==
  /\ stakes' = [stakes EXCEPT ![i] = s]
  /\ seed' = 0 /\ leader' = 0

\* GetSlotLeaderUtil with a seed.
Elect(x) ==
  /\ leader = 0
  /\ seed' = x /\ leader' = CdfWalk(x, Cdf(stakes))
  /\ UNCHANGED stakes

ERNext ==
  \/ \E i \in Registries, s \in 0 .. MaxStake : ChangeStake(i, s)
  \/ \E word \in 0 .. SeedMax : Elect(RevealedSeed(word))
  \/ \E slot \in 0 .. LastSlot : Elect(DRGMockSeed(Len(stakes), slot))

ERSpec == ERInit /\ [][ERNext]_erVars

-----------------------------------------------------------------------------
Weight(i) == IF SumOf(stakes) = 0 THEN 1 ELSE stakes[i]
Whole == IF SumOf(stakes) = 0 THEN Len(stakes) ELSE SumOf(stakes)

\* Words a share may be off by: one at its border, and the rounding of the
\* share, of the seed and of each sum, at most one in 2^Mantissa each.
Slack == 1 + ((Len(stakes) + 2) * (SeedMax + 1)) \div 2 ^ Mantissa

\* README.md:81, "Leader election probability is proportional to locked stake":
\* of all words the next election may draw, the part that elects a registry is
\* its part of the stake, up to rounding (pos.go:26-100).
ShareFollowsStake ==
  leader = 0 =>
    LET cdf == Cdf(stakes)
        led == [word \in 0 .. SeedMax |-> CdfWalk(RevealedSeed(word), cdf)]
    IN  \A i \in Registries :
          LET words == Cardinality({w \in 0 .. SeedMax : led[w] = i}) * Whole
              fair  == Weight(i) * SeedMax
          IN  words - fair <= Slack * Whole /\ fair - words <= Slack * Whole

\* A registry without stake leads only while nobody has staked, or when the
\* seed is zero (the walk starts with seed <= cdf[0], pos.go:91-95), or as the
\* last registry when the rounded sum of all shares stays below the seed
\* (pos.go:97-99).
NoStakeNoLead ==
  leader # 0 /\ stakes[leader] = 0 =>
    \/ SumOf(stakes) = 0
    \/ seed <= 0
    \/ leader = Len(stakes) /\ ~(seed <= Cdf(stakes)[leader])

=============================================================================
