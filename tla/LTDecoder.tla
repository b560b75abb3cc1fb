----------------------------- MODULE LTDecoder -----------------------------
(***************************************************************************)
(* The belief-propagation decoder of afterimage-core (fountain.rs,         *)
(* LTDecoder), step by step: the droplets buffered before METADATA, the    *)
(* deduplication by seed, the pending droplets with their inverted index,  *)
(* and the worklist of propagate, which calls resolve, which calls         *)
(* propagate again.                                                        *)
(*                                                                         *)
(* A payload is symbolic: the set of source blocks XORed into it, so that  *)
(* XOR is symmetric difference.  A source block is <<session, index>>: two *)
(* sending sessions have different ciphertexts, but a droplet carries only *)
(* its seed and its payload, not the session that sent it.                 *)
(***************************************************************************)
EXTENDS Integers, Sequences, FiniteSets

CONSTANTS
  K,            \* number of source blocks, as METADATA gives it
  Seeds,        \* the droplet seeds
  Neighbours,   \* RobustSoliton::neighbours for K blocks
  Sessions,     \* the sending sessions whose droplets the camera may see
  MaxEarly      \* bound: droplets that arrive before METADATA

Blocks  == 0 .. (K - 1)
Packets == [seed : Seeds, session : Sessions]
Symbols == Sessions \X Blocks

ASSUME KAssumption == K \in Nat \ {0}
ASSUME NeighboursAssumption ==
  Neighbours \in [Seeds -> (SUBSET Blocks) \ {{}}]
ASSUME MaxEarlyAssumption == MaxEarly \in Nat

VARIABLES
  k,            \* the decoder's block count; 0 stands for None
  blocks,       \* the contents of the blocks (the zero block is {})
  decoded,      \* the blocks whose mask bit is set
  decodedCount,
  pending,      \* per seed: the reduced payload and the blocks left in it
  invIndex,     \* per block: the seeds whose pending droplet is filed under it
  seen,         \* the seeds already ingested
  earlyBuffer,  \* packets that arrived before set_block_count
  replay,       \* the rest of the buffer set_block_count is replaying
  stack,        \* the activations of propagate, the running one last
  sources       \* history: the sessions whose droplets were ingested

decoderVars ==
  <<k, blocks, decoded, decodedCount, pending, invIndex, seen, earlyBuffer,
    replay, stack, sources>>

-----------------------------------------------------------------------------
\* One activation of propagate: the block it handles, the droplets still to
\* visit for that block, and its local queue.
Frames == [block : Blocks, todo : SUBSET Seeds, queue : Seq(Blocks)]
Propagate(b) == [block |-> b, todo |-> {}, queue |-> <<b>>]

Top     == stack[Len(stack)]
Callers == SubSeq(stack, 1, Len(stack) - 1)

\* Nothing of the decoder is running: a caller may call it.
Idle == stack = <<>> /\ replay = <<>>

IsComplete == k # 0 /\ decodedCount = k

\* The payload generate_droplet writes, and XORing out the blocks in S.
Payload(p) == { <<p.session, b>> : b \in Neighbours[p.seed] }
XorOut(payload, S) ==
  { x \in Symbols :
      (x \in payload) # (Cardinality({i \in S : x \in blocks[i]}) % 2 = 1) }

\* inv_index[n].push(s) for every block n of a droplet.
File(s, ns) ==
  [n \in Blocks |-> IF n \in ns THEN invIndex[n] \cup {s} ELSE invIndex[n]]

\* resolve: store block b, then call propagate on top of the activations cs.
Resolve(b, payload, cs) ==
  /\ blocks' = [blocks EXCEPT ![b] = payload]
  /\ decoded' = decoded \cup {b}
  /\ decodedCount' = decodedCount + 1
  /\ stack' = Append(cs, Propagate(b))

-----------------------------------------------------------------------------
Init ==
  /\ k = 0
  /\ blocks = [b \in Blocks |-> {}]
  /\ decoded = {}
  /\ decodedCount = 0
  /\ pending = [s \in Seeds |-> [data |-> {}, neighbours |-> {}]]
  /\ invIndex = [b \in Blocks |-> {}]
  /\ seen = {}
  /\ earlyBuffer = <<>>
  /\ replay = <<>>
  /\ stack = <<>>
  /\ sources = {}

\* ingest of a packet whose seed is new; a seed already seen changes nothing.
Ingest(p) ==
  LET s       == p.seed
      left    == Neighbours[s] \ decoded
      payload == XorOut(Payload(p), Neighbours[s] \cap decoded)
  IN  \/ /\ s \in seen
         /\ UNCHANGED <<blocks, decoded, decodedCount, pending, invIndex, seen,
                        stack, sources>>
      \/ /\ s \notin seen
         /\ seen' = seen \cup {s}
         /\ sources' = sources \cup {p.session}
         /\ \/ /\ left = {}
               /\ UNCHANGED <<blocks, decoded, decodedCount, pending, invIndex,
                              stack>>
            \/ /\ \E b \in Blocks : left = {b} /\ Resolve(b, payload, <<>>)
               /\ UNCHANGED <<pending, invIndex>>
            \/ /\ left # {}
               /\ \A b \in Blocks : left # {b}
               /\ pending' = [pending EXCEPT ![s] =
                                [data |-> payload, neighbours |-> left]]
               /\ invIndex' = File(s, left)
               /\ UNCHANGED <<blocks, decoded, decodedCount, stack>>

\* add_droplet before set_block_count.
BufferEarly(p) ==
  /\ Idle
  /\ k = 0
  /\ Len(earlyBuffer) < MaxEarly
  /\ earlyBuffer' = Append(earlyBuffer, p)
  /\ UNCHANGED <<k, blocks, decoded, decodedCount, pending, invIndex, seen,
                 replay, stack, sources>>

\* add_droplet after set_block_count.
AddDroplet(p) ==
  /\ Idle
  /\ k # 0
  /\ Ingest(p)
  /\ UNCHANGED <<k, earlyBuffer, replay>>

\* Mutant: a second METADATA sets the decoder up again (but not decoded_count
\* and seen).
XSetAgain ==
  /\ Idle
  /\ k' = K
  /\ blocks' = [b \in Blocks |-> {}]
  /\ decoded' = {}
  /\ replay' = earlyBuffer
  /\ earlyBuffer' = <<>>
  /\ UNCHANGED <<decodedCount, pending, invIndex, seen, stack, sources>>

\* set_block_count; a second call returns at once.
SetBlockCount ==
  /\ Idle
  /\ k = 0
  /\ k' = K
  /\ replay' = earlyBuffer
  /\ earlyBuffer' = <<>>
  /\ UNCHANGED <<blocks, decoded, decodedCount, pending, invIndex, seen, stack,
                 sources>>

\* The next turn of set_block_count's loop over the buffered packets.
ReplayEarly ==
  /\ stack = <<>>
  /\ replay # <<>>
  /\ Ingest(Head(replay))
  /\ replay' = Tail(replay)
  /\ UNCHANGED <<k, earlyBuffer>>

-----------------------------------------------------------------------------
\* Mutant: the block is read off the queue but left on it.
XPeekQueue ==
  /\ stack # <<>>
  /\ Top.todo = {}
  /\ Top.queue # <<>>
  /\ LET idx == Top.queue[Len(Top.queue)]
     IN  /\ stack' = Append(Callers, [Top EXCEPT !.block = idx, !.todo = invIndex[idx]])
         /\ invIndex' = [invIndex EXCEPT ![idx] = {}]
  /\ UNCHANGED <<k, blocks, decoded, decodedCount, pending, seen, earlyBuffer,
                 replay, sources>>

\* propagate: pop a block off the queue and take its index entry.
PopQueue ==
  /\ stack # <<>>
  /\ Top.todo = {}
  /\ Top.queue # <<>>
  /\ LET q   == Top.queue
         idx == q[Len(q)]
     IN  /\ stack' = Append(Callers, [block |-> idx, todo |-> invIndex[idx],
                                      queue |-> SubSeq(q, 1, Len(q) - 1)])
         /\ invIndex' = [invIndex EXCEPT ![idx] = {}]
  /\ UNCHANGED <<k, blocks, decoded, decodedCount, pending, seen, earlyBuffer,
                 replay, sources>>

\* propagate: one droplet of the index entry taken.
Visit(s) ==
  /\ stack # <<>>
  /\ s \in Top.todo
  /\ LET idx    == Top.block
         here   == [Top EXCEPT !.todo = @ \ {s}]
         left   == pending[s].neighbours \ {idx}
         data   == XorOut(pending[s].data, {idx})
     IN  \/ /\ idx \notin pending[s].neighbours
            /\ stack' = Append(Callers, here)
            /\ UNCHANGED <<blocks, decoded, decodedCount, pending, invIndex>>
         \/ /\ idx \in pending[s].neighbours
            /\ pending' = [pending EXCEPT ![s] =
                             [data |-> data, neighbours |-> left]]
            /\ \/ /\ \E b \in Blocks \ decoded :
                       /\ left = {b}
                       /\ Resolve(b, data,
                                  Append(Callers,
                                         [here EXCEPT !.queue = Append(@, b)]))
                  /\ UNCHANGED invIndex
               \/ /\ left = {} \/ \E b \in decoded : left = {b}
                  /\ stack' = Append(Callers, here)
                  /\ UNCHANGED <<blocks, decoded, decodedCount, invIndex>>
               \/ /\ left # {}
                  /\ \A b \in Blocks : left # {b}
                  /\ invIndex' = File(s, left)
                  /\ stack' = Append(Callers, here)
                  /\ UNCHANGED <<blocks, decoded, decodedCount>>
  /\ UNCHANGED <<k, seen, earlyBuffer, replay, sources>>

\* Mutant: propagate returns with droplets and blocks still to visit.
XReturnEarly ==
  /\ stack # <<>>
  /\ stack' = Callers
  /\ UNCHANGED <<k, blocks, decoded, decodedCount, pending, invIndex, seen,
                 earlyBuffer, replay, sources>>

\* propagate returns to the activation that called it, or to ingest.
Return ==
  /\ stack # <<>>
  /\ Top.todo = {}
  /\ Top.queue = <<>>
  /\ stack' = Callers
  /\ UNCHANGED <<k, blocks, decoded, decodedCount, pending, invIndex, seen,
                 earlyBuffer, replay, sources>>

-----------------------------------------------------------------------------
\* The decoder's own code, once called.
Run == ReplayEarly \/ PopQueue \/ (\E s \in Seeds : Visit(s)) \/ Return

\* The calls of RecvSession.
Call ==
  \/ \E p \in Packets : BufferEarly(p) \/ AddDroplet(p)
  \/ SetBlockCount

Next == Run \/ Call

Spec == Init /\ [][Next]_decoderVars

\* A call, once made, runs to its end: the decoder is straight-line code on
\* one thread.  Nothing obliges a caller to call.
FairSpec == Spec /\ WF_decoderVars(Run)

-----------------------------------------------------------------------------
TypeOK ==
  /\ k \in {0, K}
  /\ blocks \in [Blocks -> SUBSET Symbols]
  /\ decoded \in SUBSET Blocks
  /\ decodedCount \in 0 .. K
  /\ pending \in [Seeds -> [data : SUBSET Symbols, neighbours : SUBSET Blocks]]
  /\ invIndex \in [Blocks -> SUBSET Seeds]
  /\ seen \in SUBSET Seeds
  /\ earlyBuffer \in Seq(Packets)
  /\ replay \in Seq(Packets)
  /\ stack \in Seq(Frames)
  /\ sources \in SUBSET Sessions

\* Droplets of one session only: every block stored is that session's block
\* of the same index, and every pending payload is the XOR of exactly the
\* blocks it still lists.  (ingest and propagate XOR out each block once.)
BlocksAuthentic ==
  \A o \in Sessions : sources \subseteq {o} =>
    /\ \A b \in decoded : blocks[b] = {<<o, b>>}
    /\ \A s \in Seeds :
         pending[s].data = { <<o, b>> : b \in pending[s].neighbours }

\* decoded_count counts the mask bits.
CountExact == decodedCount = Cardinality(decoded)

\* When is_complete says so and the droplets came from one session, get_data
\* concatenates that session's blocks, each in its place and none missing.
CompleteIsWhole ==
  \A o \in Sessions : IsComplete /\ sources \subseteq {o} =>
    \A b \in Blocks : blocks[b] = {<<o, b>>}

\* A block that a pending droplet still lists is one the inverted index finds
\* it under, or, when already decoded, one some activation of propagate has
\* yet to visit it for: no droplet is forgotten in the nested calls.
InFlight(s, n) ==
  \E i \in 1 .. Len(stack) :
    \/ stack[i].block = n /\ s \in stack[i].todo
    \/ s \in invIndex[n] /\ \E j \in 1 .. Len(stack[i].queue) : stack[i].queue[j] = n

NoDropletForgotten ==
  \A s \in Seeds : \A n \in pending[s].neighbours :
    IF n \in decoded THEN InFlight(s, n) ELSE s \in invIndex[n]

\* A droplet the camera has delivered stays delivered: buffered before METADATA,
\* waiting in the replay, or ingested, it is in one of the three, however
\* set_block_count falls among the frames.
Heard ==
  seen \cup {earlyBuffer[i].seed : i \in DOMAIN earlyBuffer}
       \cup {replay[i].seed : i \in DOMAIN replay}

NothingDropped == [][Heard \subseteq Heard']_decoderVars

\* The activations of propagate nest at most once per decoded block: the call
\* stack propagate needs grows with the number of blocks of the file.
NestingBounded == Len(stack) <= decodedCount

\* Strengthenings the three invariants above need to be inductive: what is on
\* the stack is decoded; a droplet ingested still lists every block of its own
\* that is not decoded, and nothing that is not its own; and none lists just
\* one undecoded block.
StackDecoded ==
  \A i \in 1 .. Len(stack) :
    /\ stack[i].block \in decoded
    /\ \A j \in 1 .. Len(stack[i].queue) : stack[i].queue[j] \in decoded

SeenAccounted ==
  \A s \in Seeds :
    IF s \in seen
      THEN /\ pending[s].neighbours \subseteq Neighbours[s]
           /\ Neighbours[s] \ decoded \subseteq pending[s].neighbours
      ELSE pending[s].neighbours = {}

NoSingleLeft ==
  \A s \in Seeds : \A b \in Blocks \ decoded : pending[s].neighbours # {b}

Peel == INSTANCE Peeling WITH
          received <- seen, recovered <- decoded, busy <- stack # <<>>

\* When a call has returned, the decoder knows exactly the blocks peeling can
\* reach from the droplets ingested, whatever order they came in.
SettledAtClosure == stack = <<>> => decoded = Peel!PeelClosure(seen)

\* The worklist implements the abstract peeling, step for step: a block is
\* stored only when a received droplet pins it, and a call returns only when
\* no droplet pins another.
ImplementsPeeling == Peel!PeelSpec

\* Every call of the decoder returns.
CallsReturn == ~Idle ~> Idle
=============================================================================
