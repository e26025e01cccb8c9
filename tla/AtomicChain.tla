----------------------------- MODULE AtomicChain -----------------------------
(***************************************************************************)
(* What a validating node promises, without loops, clones or overlays: it  *)
(* holds a chain and a state; a block that extends the chain and passes    *)
(* the rules is executed as a whole, in one step, and nothing else ever    *)
(* changes the chain or the state.  The rules are those of BlockRules.     *)
(***************************************************************************)
EXTENDS Naturals, Sequences

CONSTANTS
  Origin,            \* the state before the first block
  Root,              \* the genesis block
  Offers,            \* the blocks that may be offered to the node
  GatesAccept(_, _), \* whether a block passes the rules in a state
  Executed(_, _)     \* the state in which a block leaves a state

VARIABLES live, chain

Extends(b) ==
  LET tip == chain[Len(chain)]
  IN  b.index = tip.index + 1 /\ b.slot > tip.slot

Accept(b) ==
  /\ chain' = Append(chain, b)
  /\ Extends(b)
  /\ GatesAccept(live, b)
  /\ live' = Executed(live, b)

Init == live = Origin /\ chain = <<Root>>

\* The block offered is the one that the chain then ends in; to say so first
\* spares TLC the search for it.
Next == \E b \in {chain'[Len(chain')]} \cap Offers : Accept(b)

Spec == Init /\ [][Next]_<<live, chain>>

=============================================================================
