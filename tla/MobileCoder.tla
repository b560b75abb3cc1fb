----------------------------- MODULE MobileCoder -----------------------------
(***************************************************************************)
(* The fountain coder of the mobile signer (AirSignCoreModule.ts), fed one *)
(* frame a call.  It differs from the Rust one: no deduplication, edges    *)
(* shared between the arrays of nested calls, and a state that is dropped  *)
(* when the payload is complete and made again for a frame that is late.   *)
(* No state, and one with nothing in it, are the same here.                *)
(***************************************************************************)
EXTENDS Naturals, Sequences, FiniteSets, SequencesExt

CONSTANTS TotalBlocks, \* blocks of the payload; every call passes their number
          FrameSeeds,  \* frame seeds
          Cover,       \* seed -> the blocks the generator picks for it
          MaxFrames,   \* bound: frames decoded
          Unknown

Indices == 1..TotalBlocks
\* Data is the set of the source blocks that are XORed in it.
Data == SUBSET (0..TotalBlocks)

ASSUME FramesCover == /\ TotalBlocks \in Nat \ {0}
                      /\ Cover \in [FrameSeeds -> SUBSET Indices]
                      /\ \A data \in Data : data /= Unknown

VARIABLES
  blockOf,  \* state.blocks
  resolved,
  edge,     \* the edges ever made, which lists refer to by number
  edges,    \* state.edges
  walks,    \* the activations of propagate, the running one last
  running,  \* a frame is being decoded
  received, \* history: the frames the state was given
  frames,   \* frames decoded
  payloads  \* the payloads that were reported

decodeVars == <<blockOf, resolved, edge, edges>>
coderVars == <<decodeVars, walks, running, received, frames, payloads>>

NoBlocks == [b \in Indices |-> Unknown]
CoderInit == /\ blockOf = NoBlocks /\ resolved = 0 /\ edge = <<>> /\ edges = <<>>
             /\ walks = <<>> /\ running = FALSE
             /\ received = {} /\ frames = 0 /\ payloads = {}

-----------------------------------------------------------------------------
\* fountainEncode: the length is written over the start of the first block,
\* which is then another block than the payload's, here 0.
Padded(b) == IF b = 1 THEN 0 ELSE b
Symbol(seed) == {Padded(b) : b \in Cover[seed]}

Known == {b \in Indices : blockOf[b] /= Unknown}
\* xorInto, of the blocks in S.
Xor(data, S) == {x \in 0..TotalBlocks : (x \in data) /= (Cardinality({b \in S : x \in blockOf[b]}) % 2 = 1)}

\* Mutant: an edge that is down to one block waits for another frame.
XSingle(rem) == {}
Single(rem) == {b \in rem : rem = {b}}

\* A block is recovered and propagate called, which walks the list as it is.
Recover(b, data, outer) ==
  /\ blockOf' = [blockOf EXCEPT ![b] = data]
  /\ resolved' = resolved + 1
  /\ walks' = Append(outer, [block |-> b, rest |-> edges, kept |-> <<>>])

FrameEdge(seed) == [rem |-> Cover[seed] \ Known, data |-> Xor(Symbol(seed), Cover[seed] \intersect Known)]

\* fountainDecodeFrame, to its call of propagate.
DecodeFrame(seed) ==
  /\ ~running /\ frames < MaxFrames
  /\ running' = TRUE /\ frames' = frames + 1
  /\ received' = received \union {seed}
  /\ LET e == FrameEdge(seed)
     IN \/ e.rem = {} /\ UNCHANGED <<decodeVars, walks>>
        \/ \E b \in Indices : e.rem = {b} /\ Recover(b, e.data, <<>>) /\ UNCHANGED <<edge, edges>>
        \/ /\ e.rem /= {} /\ \A b \in Indices : e.rem /= {b}
           /\ edge' = Append(edge, e) /\ edges' = Append(edges, Len(edge) + 1)
           /\ UNCHANGED <<blockOf, resolved, walks>>
  /\ UNCHANGED payloads

Walking == walks[Len(walks)]
Outer == SubSeq(walks, 1, Len(walks) - 1)

\* propagate, one edge of the list it walks: the edge is changed in place.
WalkOn ==
  /\ walks /= <<>> /\ Walking.rest /= <<>>
  /\ LET e == Head(Walking.rest)
         b == Walking.block
         rem == edge[e].rem \ {b}
         data == Xor(edge[e].data, {b})
         here == [Walking EXCEPT !.rest = Tail(@)]
         keeps == [here EXCEPT !.kept = Append(@, e)]
     IN \/ /\ b \notin edge[e].rem
           /\ walks' = Append(Outer, keeps)
           /\ UNCHANGED <<blockOf, resolved, edge>>
        \/ /\ b \in edge[e].rem
           /\ edge' = [edge EXCEPT ![e] = [rem |-> rem, data |-> data]]
           /\ \/ \E i \in Single(rem) \ Known : Recover(i, data, Append(Outer, here))
              \/ /\ rem = {} \/ Single(rem) \intersect Known /= {}
                 /\ walks' = Append(Outer, here) /\ UNCHANGED <<blockOf, resolved>>
              \/ /\ rem /= {} /\ Single(rem) = {}
                 /\ walks' = Append(Outer, keeps) /\ UNCHANGED <<blockOf, resolved>>
  /\ UNCHANGED <<edges, running, received, frames, payloads>>

\* ... and its end: its new list replaces those of the calls within it.
WalkEnds ==
  /\ walks /= <<>> /\ Walking.rest = <<>>
  /\ edges' = Walking.kept /\ walks' = Outer
  /\ UNCHANGED <<blockOf, resolved, edge, running, received, frames, payloads>>

Dropped == blockOf' = NoBlocks /\ resolved' = 0 /\ edge' = <<>> /\ edges' = <<>> /\ received' = {}

\* The end of fountainDecodeFrame: a payload is given out once every block is
\* known, and the state dropped.
FrameEnds ==
  /\ running /\ walks = <<>>
  /\ running' = FALSE
  /\ \/ resolved = TotalBlocks /\ payloads' = payloads \union {blockOf} /\ Dropped
     \/ resolved /= TotalBlocks /\ UNCHANGED <<decodeVars, received, payloads>>
  /\ UNCHANGED <<walks, frames>>

\* fountainDecodeReset
Reset == ~running /\ received /= {} /\ Dropped /\ UNCHANGED <<walks, running, frames, payloads>>

CoderNext == Reset \/ WalkOn \/ WalkEnds \/ FrameEnds \/ \E seed \in FrameSeeds : DecodeFrame(seed)
CoderSpec == CoderInit /\ [][CoderNext]_coderVars

-----------------------------------------------------------------------------
\* Between two frames the decoder knows exactly the blocks that peeling the
\* frames it was given reaches, each as the encoder cut it, and has not missed
\* that it was done; and what it reports is what was cut, block by block.
CoderPeel == INSTANCE Peeling WITH Blocks <- Indices, Seeds <- FrameSeeds, Neighbours <- Cover,
                                   recovered <- Known, busy <- running
DecodesAllItCan ==
  /\ \A blocks \in payloads : \A b \in Indices : blocks[b] = {Padded(b)}
  /\ ~running => /\ Known = CoderPeel!PeelClosure(received)
                 /\ Known /= Indices
                 /\ \A b \in Known : blockOf[b] = {Padded(b)}
                 /\ resolved = Cardinality(Known)
=============================================================================
