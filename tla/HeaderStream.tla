----------------------------- MODULE HeaderStream -----------------------------
(***************************************************************************)
(* A light node that collects block headers: the gRPC header streams of    *)
(* the full nodes (gateway/server.go), the client loop that subscribes to  *)
(* them (gateway/client.go) and AddBlockHeader (network/node.go).          *)
(*                                                                         *)
(* The full nodes agree on one chain, so a header is its block index, and  *)
(* its PrevHash is the hash of the index before it.  Sending a header and  *)
(* handling it at the client is one step: a stream keeps its order, and    *)
(* the steps of different streams interleave.  Streams are opened before   *)
(* the genesis block exists (sims/gatewaySim.go): nobody has a block at    *)
(* the start and the light node has no header.                             *)
(***************************************************************************)
EXTENDS Integers, Sequences

CONSTANTS
  FullNodes,      \* full nodes the light node subscribes to
  Makers,         \* the full nodes that lead and make blocks
  Capacity,       \* of a subscriber channel, 100 in the code
  MaxHeight,      \* bound: blocks after genesis
  MaxBreaks       \* bound: stream errors

ASSUME StreamAssumption ==
  /\ Makers \subseteq FullNodes
  /\ Capacity \in Nat \ {0}
  /\ MaxHeight \in Nat /\ MaxBreaks \in Nat

VARIABLES
  height,   \* height[f]: index of the latest block of full node f, -1 before
            \* the genesis block
  headers,  \* the light node's HeaderChain
  tipOf,    \* the light node's own chain, fed by gossip: its latest index,
            \* -1 before the genesis block
  client,   \* client[f]: "idle" (about to subscribe), "open" or "ended"
  phase,    \* phase[f]: "none", "asked" (the request is on its way), "new",
            \* "replay" or "live" on the server
  next,     \* next[f]: the next index to replay, at first the StartIndex
  upto,     \* upto[f]: the tip read when the replay began
  listed,   \* listed[f]: the live stream's channel is in s.subscribers
  channel,  \* channel[f]: the live stream's buffered channel
  old,      \* old[f]: a broken stream whose deferred cleanup has not run
  missed,   \* missed[f] (history): the open stream lost a header, because its
            \* channel was full or not listed, or nothing was replayed
  breaks    \* stream errors so far

servers == <<phase, next, upto, listed, channel, old, missed>>
hsVars == <<height, headers, tipOf, client, servers, breaks>>

All(v) == [f \in FullNodes |-> v]

HSInit ==
  /\ height = All(-1)
  /\ headers = <<>> /\ tipOf = -1
  /\ client = All("idle") /\ phase = All("none")
  /\ next = All(0) /\ upto = All(0)
  /\ listed = All(FALSE) /\ channel = All(<<>>)
  /\ old = All(FALSE) /\ missed = All(FALSE)
  /\ breaks = 0

Top == CHOOSE h \in -1 .. MaxHeight :
         /\ \E f \in FullNodes : height[f] = h
         /\ \A f \in FullNodes : height[f] <= h

-----------------------------------------------------------------------------
(* AddBlockHeader *)

\* Mutant: a header is appended whatever it extends.
AppendAny(hs, h) == Append(hs, h)

\* The first header is taken as it comes; a later one must extend the last.
AddBlockHeader(hs, h) ==
  IF hs = <<>> \/ hs[Len(hs)] + 1 = h THEN Append(hs, h) ELSE hs

-----------------------------------------------------------------------------
(* Blocks at the full nodes *)

\* CreateBlockIfLeader stores its own block, the genesis block too, and sends
\* no header.
MakeBlock(f) ==
  /\ f \in Makers /\ height[f] = Top /\ Top < MaxHeight
  /\ height' = [height EXCEPT ![f] = @ + 1]
  /\ UNCHANGED <<headers, tipOf, client, servers, breaks>>

\* Node.AddBlock: the header goes to the subscriber's channel, or is dropped
\* when the channel is full.
AddBlock(f) ==
  /\ height[f] < Top
  /\ height' = [height EXCEPT ![f] = @ + 1]
  /\ IF listed[f] /\ Len(channel[f]) < Capacity
     THEN /\ channel' = [channel EXCEPT ![f] = Append(@, height[f] + 1)]
          /\ UNCHANGED missed
     ELSE /\ missed' = [missed EXCEPT ![f] = client[f] = "open"]
          /\ UNCHANGED channel
  /\ UNCHANGED <<headers, tipOf, client, phase, next, upto, listed, old, breaks>>

\* The light node is a gossip peer too: the next block of its own chain also
\* gives it a header.  Gossip may lose a block, so this step may never come.
LightAddBlock ==
  /\ tipOf < Top
  /\ tipOf' = tipOf + 1
  /\ headers' = AddBlockHeader(headers, tipOf + 1)
  /\ UNCHANGED <<height, client, servers, breaks>>

-----------------------------------------------------------------------------
(* One stream *)

\* The client asks for headers from its chain length on.
Subscribe(f) ==
  /\ client[f] = "idle"
  /\ client' = [client EXCEPT ![f] = "open"]
  /\ phase' = [phase EXCEPT ![f] = "asked"]
  /\ next' = [next EXCEPT ![f] = Len(headers)]
  /\ UNCHANGED <<height, headers, tipOf, upto, listed, channel, old, missed, breaks>>

\* SubscribeHeaders lists a fresh channel under the client's address.  What the
\* full node had by then is replayed if StartIndex is above zero, or not at all.
SubscribeHeaders(f) ==
  /\ phase[f] = "asked"
  /\ phase' = [phase EXCEPT ![f] = IF next[f] > 0 THEN "new" ELSE "live"]
  /\ listed' = [listed EXCEPT ![f] = TRUE]
  /\ channel' = [channel EXCEPT ![f] = <<>>]
  /\ missed' = [missed EXCEPT ![f] = next[f] = 0 /\ height[f] >= 0]
  /\ UNCHANGED <<height, headers, tipOf, client, next, upto, old, breaks>>

\* The tip is read.  Before the genesis block GetLatestBlock returns nil and
\* the handler panics; that end of the process is left out.
StartReplay(f) ==
  /\ phase[f] = "new" /\ height[f] >= 0
  /\ upto' = [upto EXCEPT ![f] = height[f]]
  /\ phase' = [phase EXCEPT ![f] = "replay"]
  /\ UNCHANGED <<height, headers, tipOf, client, next, listed, channel, old, missed, breaks>>

\* Mutant: the replay stops one header short of the tip.
ReplayShort(f) ==
  /\ phase[f] = "replay"
  /\ IF next[f] < upto[f]
     THEN /\ headers' = AddBlockHeader(headers, next[f])
          /\ next' = [next EXCEPT ![f] = @ + 1]
          /\ UNCHANGED phase
     ELSE /\ phase' = [phase EXCEPT ![f] = "live"]
          /\ UNCHANGED <<headers, next>>
  /\ UNCHANGED <<height, tipOf, client, upto, listed, channel, old, missed, breaks>>

ReplayHeader(f) ==
  /\ phase[f] = "replay"
  /\ IF next[f] <= upto[f]
     THEN /\ headers' = AddBlockHeader(headers, next[f])
          /\ next' = [next EXCEPT ![f] = @ + 1]
          /\ UNCHANGED phase
     ELSE /\ phase' = [phase EXCEPT ![f] = "live"]
          /\ UNCHANGED <<headers, next>>
  /\ UNCHANGED <<height, tipOf, client, upto, listed, channel, old, missed, breaks>>

ForwardHeader(f) ==
  /\ phase[f] = "live" /\ channel[f] # <<>>
  /\ headers' = AddBlockHeader(headers, Head(channel[f]))
  /\ channel' = [channel EXCEPT ![f] = Tail(@)]
  /\ UNCHANGED <<height, tipOf, client, phase, next, upto, listed, old, missed, breaks>>

\* The stream fails.  The client tries again, or gives up for good when the
\* status is EOF, Canceled or Unavailable.
StreamError(f, then) ==
  /\ phase[f] \in {"new", "replay", "live"} /\ breaks < MaxBreaks /\ ~old[f]
  /\ breaks' = breaks + 1
  /\ client' = [client EXCEPT ![f] = then]
  /\ phase' = [phase EXCEPT ![f] = "none"]
  /\ channel' = [channel EXCEPT ![f] = <<>>]
  /\ old' = [old EXCEPT ![f] = TRUE]
  /\ UNCHANGED <<height, headers, tipOf, next, upto, listed, missed>>

\* The deferred function of the broken stream deletes the entry under the
\* client's address, whichever channel is listed there by now.
Cleanup(f) ==
  /\ old[f]
  /\ old' = [old EXCEPT ![f] = FALSE]
  /\ listed' = [listed EXCEPT ![f] = FALSE]
  /\ UNCHANGED <<height, headers, tipOf, client, phase, next, upto, channel, missed, breaks>>

Stream(f) == Subscribe(f) \/ SubscribeHeaders(f) \/ StartReplay(f)
               \/ ReplayHeader(f) \/ ForwardHeader(f) \/ Cleanup(f)

HSNext ==
  \/ LightAddBlock
  \/ \E f \in FullNodes :
       \/ MakeBlock(f) \/ AddBlock(f)
       \/ Stream(f)
       \/ \E then \in {"idle", "ended"} : StreamError(f, then)

\* Every goroutine keeps running and blocks spread among the full nodes;
\* nothing is assumed of new blocks, of errors or of gossip to the light node.
Fairness ==
  \A f \in FullNodes : WF_hsVars(AddBlock(f)) /\ WF_hsVars(Stream(f))

HSSpec == HSInit /\ [][HSNext]_hsVars
HSFairSpec == HSSpec /\ Fairness

-----------------------------------------------------------------------------
\* The header chain has no gap and no repetition, whatever the streams and
\* gossip replay, repeat, drop or reorder (AddBlockHeader, node.go:647-663).
\* waitForHeader (node_helper.go:330-354) takes HeaderChain[i] for the header of
\* block i: that is right exactly when the first header was that of genesis, and
\* otherwise it is off by the same distance at every place.
HeadersConsecutive == \A i \in DOMAIN headers : headers[i] = headers[1] + i - 1

Latest == IF headers = <<>> THEN -1 ELSE headers[Len(headers)]

\* A subscription misses nothing between what it replays and what it forwards
\* (server.go:66-112): while the stream of one full node that makes no blocks
\* stays open and loses no header at its channel, the light node gets every
\* new header, whatever the other streams do.
LightCatchesUp ==
  (\E f \in FullNodes \ Makers : <>[](client[f] = "open" /\ ~missed[f]))
     => []<>(Latest = Top)

=============================================================================
