---------------------------- MODULE DecoderProofs ---------------------------
(***************************************************************************)
(* Proofs about the two fountain decoders, for every number of blocks,     *)
(* every set of droplets and every order of arrival: LTDecoder, that of    *)
(* afterimage-core, and MobileCoder, that of the phone.                    *)
(***************************************************************************)
EXTENDS LTDecoder, MobileCoder, FiniteSetTheorems, SequenceTheorems, TLAPS

-----------------------------------------------------------------------------
(***************************************************************************)
(* LTDecoder                                                               *)
(***************************************************************************)
\* The blocks are K in number.
LEMMA BlocksFinite == IsFiniteSet(Blocks) /\ Cardinality(Blocks) = K
  BY FS_Interval, KAssumption DEF Blocks

\* A set of blocks to which a new one is added: its size, and K as its bound.
LEMMA AddBlock ==
  ASSUME NEW D \in SUBSET Blocks, NEW b \in Blocks, b \notin D
  PROVE  /\ Cardinality(D \cup {b}) = Cardinality(D) + 1
         /\ Cardinality(D \cup {b}) \in 0 .. K
<1>1. IsFiniteSet(D)
  BY BlocksFinite, FS_Subset
<1>2. IsFiniteSet(D \cup {b}) /\ Cardinality(D \cup {b}) = Cardinality(D) + 1
  BY <1>1, FS_AddElement
<1>3. D \cup {b} \subseteq Blocks
  OBVIOUS
<1>4. Cardinality(D \cup {b}) <= K
  BY <1>3, BlocksFinite, FS_Subset
<1> QED
  BY <1>2, <1>4, FS_CardinalityType, KAssumption

\* XORing out decoded blocks of a session from a payload that lists them
\* leaves the XOR of the blocks not taken out.
LEMMA XorOutExact ==
  ASSUME NEW o \in Sessions, NEW P \in SUBSET Blocks, NEW S \in SUBSET P,
         \A b \in S : blocks[b] = {<<o, b>>}
  PROVE  XorOut({<<o, b>> : b \in P}, S) = {<<o, b>> : b \in P \ S}
<1> DEFINE Odd(x) == Cardinality({i \in S : x \in blocks[i]}) % 2 = 1
<1>1. ASSUME NEW b \in S
      PROVE  Odd(<<o, b>>)
  <2>1. {i \in S : <<o, b>> \in blocks[i]} = {b}
    OBVIOUS
  <2>2. Cardinality({i \in S : <<o, b>> \in blocks[i]}) = 1
    BY <2>1, FS_Singleton, Zenon
  <2> QED
    BY <2>2
<1>2. ASSUME NEW x \in Symbols, \A b \in S : x # <<o, b>>
      PROVE  ~Odd(x)
  <2>1. {i \in S : x \in blocks[i]} = {}
    BY <1>2
  <2>2. Cardinality({i \in S : x \in blocks[i]}) = 0
    BY <2>1, FS_EmptySet, Zenon
  <2> QED
    BY <2>2
<1>3. \A b \in P : <<o, b>> \in Symbols
  BY DEF Symbols
<1> QED
  BY <1>1, <1>2, <1>3 DEF XorOut

-----------------------------------------------------------------------------
(***************************************************************************)
(* Types.  decodedCount stays in 0 .. K only because it counts the mask    *)
(* bits and a block is resolved once, so the two are proved together.      *)
(***************************************************************************)
TypeInv == TypeOK /\ CountExact

\* The part of the types and of the count that ingest, resolve and propagate
\* can disturb.
WorkOK ==
  /\ blocks \in [Blocks -> SUBSET Symbols]
  /\ decoded \in SUBSET Blocks
  /\ decodedCount \in 0 .. K
  /\ CountExact
  /\ pending \in [Seeds -> [data : SUBSET Symbols, neighbours : SUBSET Blocks]]
  /\ invIndex \in [Blocks -> SUBSET Seeds]
  /\ stack \in Seq(Frames)

LEMMA XorOutType ==
  ASSUME NEW payload, NEW S
  PROVE  XorOut(payload, S) \in SUBSET Symbols
  BY DEF XorOut

LEMMA FileType ==
  ASSUME invIndex \in [Blocks -> SUBSET Seeds], NEW s \in Seeds, NEW ns
  PROVE  File(s, ns) \in [Blocks -> SUBSET Seeds]
  BY DEF File

LEMMA ResolveType ==
  ASSUME WorkOK, NEW b \in Blocks, b \notin decoded,
         NEW payload \in SUBSET Symbols, NEW cs \in Seq(Frames),
         Resolve(b, payload, cs)
  PROVE  /\ blocks' \in [Blocks -> SUBSET Symbols]
         /\ decoded' \in SUBSET Blocks
         /\ decodedCount' \in 0 .. K
         /\ CountExact'
         /\ stack' \in Seq(Frames)
<1>1. Propagate(b) \in Frames
  <2>1. <<b>> \in Seq(Blocks)
    OBVIOUS
  <2> QED
    BY <2>1 DEF Propagate, Frames
<1>2. stack' \in Seq(Frames)
  BY <1>1, AppendProperties DEF Resolve
<1>3. decodedCount' = Cardinality(decoded') /\ decodedCount' \in 0 .. K
  BY AddBlock DEF Resolve, WorkOK, CountExact
<1> QED
  BY <1>2, <1>3 DEF Resolve, WorkOK, CountExact

LEMMA IngestType ==
  ASSUME TypeInv, NEW p \in Packets, Ingest(p)
  PROVE  WorkOK' /\ seen' \in SUBSET Seeds /\ sources' \in SUBSET Sessions
<1> DEFINE s       == p.seed
           left    == Neighbours[s] \ decoded
           payload == XorOut(Payload(p), Neighbours[s] \cap decoded)
<1>0. WorkOK /\ s \in Seeds /\ p.session \in Sessions
  BY DEF TypeInv, TypeOK, WorkOK, Packets
<1>1. payload \in SUBSET Symbols /\ left \in SUBSET Blocks
  BY <1>0, XorOutType, NeighboursAssumption
<1>2. CASE s \in seen
  BY <1>2, <1>0 DEF Ingest, WorkOK, CountExact, TypeInv, TypeOK
<1>3. CASE s \notin seen
  <2>1. seen' \in SUBSET Seeds /\ sources' \in SUBSET Sessions
    BY <1>3, <1>0 DEF Ingest, TypeInv, TypeOK
  <2>2. CASE UNCHANGED <<blocks, decoded, decodedCount, pending, invIndex, stack>>
    BY <2>1, <2>2, <1>0 DEF WorkOK, CountExact
  <2>3. CASE /\ \E b \in Blocks : left = {b} /\ Resolve(b, payload, <<>>)
             /\ UNCHANGED <<pending, invIndex>>
    <3>1. PICK b \in Blocks : left = {b} /\ Resolve(b, payload, <<>>)
      BY <2>3
    <3>2. <<>> \in Seq(Frames) /\ b \notin decoded
      BY <3>1
    <3> HIDE DEF left, payload
    <3>3. WorkOK'
      BY <3>1, <3>2, <1>0, <1>1, <2>3, ResolveType DEF WorkOK
    <3> QED
      BY <2>1, <3>3
  <2>4. CASE /\ pending' = [pending EXCEPT ![s] =
                              [data |-> payload, neighbours |-> left]]
             /\ invIndex' = File(s, left)
             /\ UNCHANGED <<blocks, decoded, decodedCount, stack>>
    <3> HIDE DEF left, payload, s
    <3>1. WorkOK'
      BY <2>4, <1>0, <1>1, FileType DEF WorkOK, CountExact
    <3> QED
      BY <2>1, <3>1
  <2> QED
    BY <1>3, <2>2, <2>3, <2>4 DEF Ingest
<1> QED
  BY <1>2, <1>3

\* A sequence without its last element.
LEMMA FrontOfSeq ==
  ASSUME NEW S, NEW q \in Seq(S), Len(q) \in Nat \ {0}
  PROVE  /\ SubSeq(q, 1, Len(q) - 1) \in Seq(S)
         /\ Len(SubSeq(q, 1, Len(q) - 1)) = Len(q) - 1
         /\ \A i \in 1 .. Len(q) - 1 : SubSeq(q, 1, Len(q) - 1)[i] = q[i]
<1>1. \A i \in 1 .. Len(q) - 1 : q[i] \in S
  BY ElementOfSeq
<1>2. SubSeq(q, 1, Len(q) - 1) \in Seq(S)
  BY <1>1, SubSeqProperties
<1>3. Len(SubSeq(q, 1, Len(q) - 1)) = Len(q) - 1
  <2>1. Len(SubSeq(q, 1, Len(q) - 1)) =
          IF 1 <= Len(q) - 1 THEN (Len(q) - 1) - 1 + 1 ELSE 0
    BY <1>1, SubSeqProperties
  <2> DEFINE m == Len(SubSeq(q, 1, Len(q) - 1))
             n == Len(q)
  <2>2. m = (IF 1 <= n - 1 THEN (n - 1) - 1 + 1 ELSE 0) /\ n \in Nat \ {0}
    BY <2>1
  <2> HIDE DEF m, n
  <2>3. m = n - 1
    BY <2>2
  <2> QED
    BY <2>3 DEF m, n
<1>4. ASSUME NEW i \in 1 .. Len(q) - 1
      PROVE  SubSeq(q, 1, Len(q) - 1)[i] = q[i]
  OBVIOUS
<1> QED
  BY <1>2, <1>3, <1>4

\* The running activation and the ones that wait for it.
\* Whatever is appended, the result is not empty.
LEMMA AppendNotEmpty ==
  ASSUME NEW S, NEW c \in Seq(S), NEW x
  PROVE  Append(c, x) # <<>>
<1>1. c \in Seq(S \cup {x})
  BY SeqMonotonic
<1> QED
  BY <1>1, AppendProperties

LEMMA StackParts ==
  ASSUME stack \in Seq(Frames), stack # <<>>
  PROVE  /\ Len(stack) \in Nat \ {0}
         /\ Top \in Frames
         /\ Callers \in Seq(Frames)
         /\ Len(Callers) = Len(stack) - 1
         /\ \A i \in 1 .. Len(stack) - 1 : Callers[i] = stack[i]
<1>1. Len(stack) \in Nat \ {0}
  BY EmptySeq, LenProperties
<1>2. Top \in Frames
  BY <1>1, ElementOfSeq DEF Top
<1> QED
  BY <1>1, <1>2, FrontOfSeq DEF Callers

LEMMA VisitType ==
  ASSUME TypeInv, NEW s \in Seeds, Visit(s)
  PROVE  WorkOK'
<1> DEFINE idx  == Top.block
           here == [Top EXCEPT !.todo = @ \ {s}]
           left == pending[s].neighbours \ {idx}
           data == XorOut(pending[s].data, {idx})
<1>0. WorkOK /\ stack # <<>>
  BY DEF TypeInv, TypeOK, WorkOK, Visit
<1>1. Callers \in Seq(Frames) /\ Top \in Frames
  BY <1>0, StackParts DEF WorkOK
<1>2. here \in Frames /\ \A b \in Blocks : [here EXCEPT !.queue = Append(@, b)] \in Frames
  <2>1. \A b \in Blocks : Append(Top.queue, b) \in Seq(Blocks)
    BY <1>1, AppendProperties DEF Frames
  <2> QED
    BY <1>1, <2>1 DEF Frames
<1>3. data \in SUBSET Symbols /\ left \in SUBSET Blocks
  BY <1>0, XorOutType DEF WorkOK
<1>4. Append(Callers, here) \in Seq(Frames)
  BY <1>1, <1>2, AppendProperties
<1> DEFINE pending2 == [pending EXCEPT ![s] = [data |-> data, neighbours |-> left]]
<1>5. pending2 \in [Seeds -> [data : SUBSET Symbols, neighbours : SUBSET Blocks]]
  <2> HIDE DEF data, left
  <2> QED
    BY <1>0, <1>3 DEF WorkOK
<1>6. CASE /\ stack' = Append(Callers, here)
           /\ UNCHANGED <<blocks, decoded, decodedCount, invIndex>>
           /\ pending' = pending \/ pending' = pending2
  <2> HIDE DEF here, pending2
  <2> QED
    BY <1>0, <1>4, <1>5, <1>6 DEF WorkOK, CountExact
<1>7. CASE /\ pending' = pending2
           /\ UNCHANGED invIndex
           /\ \E b \in Blocks \ decoded :
                Resolve(b, data, Append(Callers, [here EXCEPT !.queue = Append(@, b)]))
  <2>1. PICK b \in Blocks \ decoded :
          Resolve(b, data, Append(Callers, [here EXCEPT !.queue = Append(@, b)]))
    BY <1>7
  <2>2. Append(Callers, [here EXCEPT !.queue = Append(@, b)]) \in Seq(Frames)
    BY <1>1, <1>2, AppendProperties
  <2> HIDE DEF here, data, left, pending2
  <2> QED
    BY <1>0, <1>3, <1>5, <1>7, <2>1, <2>2, ResolveType DEF WorkOK
<1>8. CASE /\ pending' = pending2
           /\ invIndex' = File(s, left)
           /\ stack' = Append(Callers, here)
           /\ UNCHANGED <<blocks, decoded, decodedCount>>
  <2> HIDE DEF here, data, left, pending2
  <2> QED
    BY <1>0, <1>4, <1>5, <1>8, FileType DEF WorkOK, CountExact
<1> QED
  BY <1>6, <1>7, <1>8 DEF Visit

LEMMA PopQueueType ==
  ASSUME TypeInv, PopQueue
  PROVE  stack' \in Seq(Frames) /\ invIndex' \in [Blocks -> SUBSET Seeds]
<1> DEFINE q   == Top.queue
           idx == q[Len(q)]
           new == [block |-> idx, todo |-> invIndex[idx],
                   queue |-> SubSeq(q, 1, Len(q) - 1)]
<1>1. stack # <<>> /\ stack \in Seq(Frames) /\ invIndex \in [Blocks -> SUBSET Seeds]
  BY DEF TypeInv, TypeOK, PopQueue
<1>2. Callers \in Seq(Frames) /\ Top \in Frames
  BY <1>1, StackParts
<1>3. q \in Seq(Blocks) /\ q # <<>>
  BY <1>2 DEF Frames, PopQueue
<1>4. Len(q) \in Nat \ {0}
  BY <1>3, EmptySeq, LenProperties
<1>5. idx \in Blocks
  BY <1>3, <1>4, ElementOfSeq
<1>6. SubSeq(q, 1, Len(q) - 1) \in Seq(Blocks)
  BY <1>3, <1>4, FrontOfSeq
<1>7. new \in Frames
  BY <1>1, <1>5, <1>6 DEF Frames
<1>8. stack' = Append(Callers, new) /\ invIndex' = [invIndex EXCEPT ![idx] = {}]
  BY DEF PopQueue
<1> HIDE DEF new
<1> QED
  BY <1>1, <1>2, <1>5, <1>7, <1>8, AppendProperties

THEOREM TypeInvariant == Spec => []TypeInv
<1>1. Init => TypeInv
  <2> SUFFICES ASSUME Init PROVE TypeInv
    OBVIOUS
  <2>1. CountExact /\ 0 \in 0 .. K
    BY FS_EmptySet, KAssumption DEF Init, CountExact
  <2>2. <<>> \in Seq(Packets) /\ <<>> \in Seq(Frames)
    OBVIOUS
  <2> QED
    BY <2>1, <2>2 DEF Init, TypeInv, TypeOK
<1>2. TypeInv /\ [Next]_decoderVars => TypeInv'
  <2> SUFFICES ASSUME TypeInv, [Next]_decoderVars PROVE TypeInv'
    OBVIOUS
  <2> USE DEF TypeInv
  <2>1. ASSUME NEW p \in Packets, BufferEarly(p) PROVE TypeInv'
    <3>1. earlyBuffer' \in Seq(Packets)
      BY <2>1, AppendProperties DEF BufferEarly, TypeOK
    <3> QED
      BY <2>1, <3>1 DEF BufferEarly, TypeOK, CountExact
  <2>2. ASSUME NEW p \in Packets, AddDroplet(p) PROVE TypeInv'
    BY <2>2, IngestType DEF AddDroplet, TypeOK, WorkOK
  <2>3. CASE SetBlockCount
    <3>1. <<>> \in Seq(Packets)
      OBVIOUS
    <3> QED
      BY <2>3, <3>1 DEF SetBlockCount, TypeOK, CountExact
  <2>4. CASE ReplayEarly
    <3>1. Head(replay) \in Packets /\ Tail(replay) \in Seq(Packets)
      BY <2>4, HeadTailProperties DEF ReplayEarly, TypeOK
    <3> QED
      BY <2>4, <3>1, IngestType DEF ReplayEarly, TypeOK, WorkOK
  <2>5. CASE PopQueue
    BY <2>5, PopQueueType DEF PopQueue, TypeOK, CountExact
  <2>6. ASSUME NEW s \in Seeds, Visit(s) PROVE TypeInv'
    BY <2>6, VisitType DEF Visit, TypeOK, WorkOK
  <2>7. CASE Return
    BY <2>7, StackParts DEF Return, TypeOK, CountExact
  <2>8. CASE UNCHANGED decoderVars
    BY <2>8 DEF decoderVars, TypeOK, CountExact
  <2> QED
    BY <2>1, <2>2, <2>3, <2>4, <2>5, <2>6, <2>7, <2>8 DEF Next, Run, Call
<1> QED
  BY <1>1, <1>2, PTL DEF Spec

\* The decoder's types, for every K, every droplet set and every order of calls.
THEOREM TypeCorrect == Spec => []TypeOK
  BY TypeInvariant, PTL DEF TypeInv

-----------------------------------------------------------------------------
(***************************************************************************)
(* The inductive invariant.  BlocksAuthentic needs every block XORed out   *)
(* to be decoded (StackDecoded); SettledAtClosure needs every droplet to   *)
(* list all its undecoded blocks (SeenAccounted), none to be left with one *)
(* (NoSingleLeft), and the decoded blocks still listed to be on their way  *)
(* out (NoDropletForgotten).                                               *)
(***************************************************************************)
WorkInv ==
  /\ StackDecoded
  /\ BlocksAuthentic
  /\ NestingBounded
  /\ SeenAccounted
  /\ NoSingleLeft
  /\ NoDropletForgotten

IInv == TypeInv /\ WorkInv

\* The stack after the running activation has become x.
LEMMA ReplaceTop ==
  ASSUME stack \in Seq(Frames), stack # <<>>, NEW x \in Frames
  PROVE  /\ Len(Append(Callers, x)) = Len(stack)
         /\ Append(Callers, x) \in Seq(Frames)
         /\ \A i \in 1 .. Len(stack) - 1 : Append(Callers, x)[i] = stack[i]
         /\ Append(Callers, x)[Len(stack)] = x
<1>1. /\ Len(Callers) = Len(stack) - 1 /\ Callers \in Seq(Frames)
      /\ Len(stack) \in Nat \ {0}
      /\ \A i \in 1 .. Len(stack) - 1 : Callers[i] = stack[i]
  BY StackParts
<1> DEFINE n == Len(stack)
           c == Callers
<1>2. Len(c) = n - 1 /\ c \in Seq(Frames) /\ n \in Nat \ {0}
      /\ \A i \in 1 .. n - 1 : c[i] = stack[i]
  BY <1>1
<1> HIDE DEF n, c
<1>3. /\ Append(c, x) \in Seq(Frames)
      /\ Len(Append(c, x)) = n
      /\ \A i \in 1 .. n - 1 : Append(c, x)[i] = c[i]
      /\ Append(c, x)[n] = x
  BY <1>2, AppendProperties
<1> QED
  BY <1>2, <1>3 DEF n, c

\* The stack after an activation of propagate for b has been pushed on cs.
LEMMA PushFrame ==
  ASSUME NEW cs \in Seq(Frames), NEW b \in Blocks
  PROVE  /\ Propagate(b) \in Frames
         /\ Append(cs, Propagate(b)) \in Seq(Frames)
         /\ Len(cs) \in Nat
         /\ Len(Append(cs, Propagate(b))) = Len(cs) + 1
         /\ \A i \in 1 .. Len(cs) : Append(cs, Propagate(b))[i] = cs[i]
         /\ Append(cs, Propagate(b))[Len(cs) + 1] = Propagate(b)
<1>1. Propagate(b) \in Frames
  <2>1. <<b>> \in Seq(Blocks)
    OBVIOUS
  <2> QED
    BY <2>1 DEF Propagate, Frames
<1>2. Len(cs) \in Nat
  BY LenProperties
<1> HIDE DEF Propagate
<1> QED
  BY <1>1, <1>2, AppendProperties

\* What a resolve of a new block does to the invariant, when every block on
\* the stack cs it is called from is decoded and every decoded block that a
\* droplet lists is in flight on cs.
LEMMA ResolveStack ==
  ASSUME TypeOK, NEW b \in Blocks, b \notin decoded, NEW payload,
         NEW cs \in Seq(Frames), Resolve(b, payload, cs),
         Len(cs) <= decodedCount,
         \A i \in 1 .. Len(cs) :
           /\ cs[i].block \in decoded
           /\ \A j \in 1 .. Len(cs[i].queue) : cs[i].queue[j] \in decoded \cup {b}
  PROVE  StackDecoded' /\ NestingBounded'
<1>1. /\ Len(cs) \in Nat
      /\ Len(stack') = Len(cs) + 1
      /\ \A i \in 1 .. Len(cs) : stack'[i] = cs[i]
      /\ stack'[Len(cs) + 1] = Propagate(b)
  BY PushFrame DEF Resolve
<1>2. decoded' = decoded \cup {b} /\ decodedCount' = decodedCount + 1
  BY DEF Resolve
<1>3. NestingBounded'
  BY <1>1, <1>2 DEF NestingBounded, TypeOK
<1>4. ASSUME NEW i \in 1 .. Len(stack')
      PROVE  /\ stack'[i].block \in decoded'
             /\ \A j \in 1 .. Len(stack'[i].queue) : stack'[i].queue[j] \in decoded'
  <2>1. CASE i \in 1 .. Len(cs)
    BY <1>1, <1>2, <2>1
  <2>2. CASE i = Len(cs) + 1
    <3>1. stack'[i].block = b /\ stack'[i].queue = <<b>>
      BY <1>1, <2>2 DEF Propagate
    <3> QED
      BY <3>1, <1>2
  <2> QED
    BY <1>1, <2>1, <2>2
<1> QED
  BY <1>3, <1>4 DEF StackDecoded

\* The invariant reads only these variables, so it survives a step that leaves
\* them alone.
LEMMA WorkUnchanged ==
  ASSUME WorkInv,
         UNCHANGED <<blocks, decoded, decodedCount, pending, invIndex, seen,
                     stack, sources>>
  PROVE  WorkInv'
  BY DEF WorkInv, StackDecoded, BlocksAuthentic, NestingBounded, SeenAccounted,
         NoSingleLeft, NoDropletForgotten, InFlight

\* While nothing runs, no droplet lists a decoded block.
LEMMA IdleLists ==
  ASSUME IInv, stack = <<>>, NEW s \in Seeds, NEW n \in pending[s].neighbours
  PROVE  n \in Blocks /\ n \notin decoded /\ s \in invIndex[n]
<1>1. ~InFlight(s, n)
  BY DEF InFlight
<1> QED
  BY <1>1 DEF IInv, TypeInv, TypeOK, WorkInv, NoDropletForgotten

LEMMA IngestWork ==
  ASSUME IInv, stack = <<>>, NEW p \in Packets, Ingest(p)
  PROVE  WorkInv'
<1> DEFINE s       == p.seed
           left    == Neighbours[s] \ decoded
           payload == XorOut(Payload(p), Neighbours[s] \cap decoded)
<1>0. TypeOK /\ WorkInv
  BY DEF IInv, TypeInv
<1>1. s \in Seeds /\ p.session \in Sessions /\ Neighbours[s] \in SUBSET Blocks
  BY NeighboursAssumption DEF Packets
<1>2. CASE s \in seen
  BY <1>0, <1>2, WorkUnchanged DEF Ingest
<1>3. CASE s \notin seen
  <2>1. seen' = seen \cup {s} /\ sources' = sources \cup {p.session}
    BY <1>3 DEF Ingest
  <2>2. pending[s].neighbours = {}
    BY <1>0, <1>1, <1>3 DEF WorkInv, SeenAccounted
  <2>3. ASSUME NEW o \in Sessions, sources' \subseteq {o}
        PROVE  /\ sources \subseteq {o}
               /\ \A b \in decoded : blocks[b] = {<<o, b>>}
               /\ payload = {<<o, b>> : b \in left}
    <3>1. sources \subseteq {o} /\ p.session = o
      BY <2>1, <2>3
    <3>2. \A b \in decoded : blocks[b] = {<<o, b>>}
      BY <1>0, <3>1 DEF WorkInv, BlocksAuthentic
    <3>3. payload = {<<o, b>> : b \in Neighbours[s] \ (Neighbours[s] \cap decoded)}
      <4>1. Payload(p) = {<<o, b>> : b \in Neighbours[s]}
        BY <3>1 DEF Payload
      <4>2. Neighbours[s] \cap decoded \in SUBSET Neighbours[s]
            /\ \A b \in Neighbours[s] \cap decoded : blocks[b] = {<<o, b>>}
        BY <3>2
      <4> HIDE DEF s
      <4> QED
        BY <1>1, <4>1, <4>2, XorOutExact
    <3> QED
      BY <3>1, <3>2, <3>3
  <2> HIDE DEF payload
  <2>4. CASE /\ left = {}
             /\ UNCHANGED <<blocks, decoded, decodedCount, pending, invIndex, stack>>
    <3>1. BlocksAuthentic'
      BY <1>0, <2>3, <2>4 DEF WorkInv, BlocksAuthentic
    <3>2. SeenAccounted'
      BY <1>0, <2>1, <2>2, <2>4 DEF WorkInv, SeenAccounted
    <3>3. StackDecoded' /\ NestingBounded' /\ NoSingleLeft' /\ NoDropletForgotten'
      BY <1>0, <2>4 DEF WorkInv, StackDecoded, NestingBounded, NoSingleLeft,
                        NoDropletForgotten, InFlight
    <3> QED
      BY <3>1, <3>2, <3>3 DEF WorkInv
  <2>5. CASE /\ \E b \in Blocks : left = {b} /\ Resolve(b, payload, <<>>)
             /\ UNCHANGED <<pending, invIndex>>
    <3>1. PICK b \in Blocks : left = {b} /\ Resolve(b, payload, <<>>)
      BY <2>5
    <3>2. b \notin decoded /\ decoded' = decoded \cup {b}
          /\ blocks' = [blocks EXCEPT ![b] = payload]
      BY <3>1 DEF Resolve
    <3>3. StackDecoded' /\ NestingBounded'
      <4>1. <<>> \in Seq(Frames) /\ Len(<<>>) = 0 /\ 0 <= decodedCount
        BY <1>0 DEF TypeOK
      <4>2. \A i \in 1 .. Len(<<>>) : FALSE
        BY <4>1
      <4> QED
        BY <1>0, <3>1, <3>2, <4>1, <4>2, ResolveStack
    <3>4. BlocksAuthentic'
      <4> SUFFICES ASSUME NEW o \in Sessions, sources' \subseteq {o}
                   PROVE  /\ \A c \in decoded' : blocks'[c] = {<<o, c>>}
                          /\ \A t \in Seeds : pending'[t].data =
                               {<<o, c>> : c \in pending'[t].neighbours}
        BY DEF BlocksAuthentic
      <4>1. payload = {<<o, b>>}
        BY <2>3, <3>1
      <4>2. \A c \in decoded' : blocks'[c] = {<<o, c>>}
        BY <1>0, <2>3, <3>2, <4>1 DEF TypeOK
      <4>3. \A t \in Seeds : pending'[t].data =
               {<<o, c>> : c \in pending'[t].neighbours}
        BY <1>0, <2>3, <2>5 DEF WorkInv, BlocksAuthentic
      <4> QED
        BY <4>2, <4>3
    <3>5. SeenAccounted'
      BY <1>0, <1>1, <2>1, <2>2, <2>5, <3>1, <3>2 DEF WorkInv, SeenAccounted
    <3>6. NoSingleLeft'
      BY <1>0, <2>5, <3>2 DEF WorkInv, NoSingleLeft
    <3>7. NoDropletForgotten'
      <4> SUFFICES ASSUME NEW t \in Seeds, NEW n \in pending[t].neighbours
                   PROVE  IF n \in decoded' THEN InFlight(t, n)' ELSE t \in invIndex[n]
        BY <2>5 DEF NoDropletForgotten
      <4>1. n \notin decoded /\ t \in invIndex[n]
        BY IdleLists
      <4>2. CASE n = b
        <5>1. /\ Len(stack') = 1 /\ stack'[1] = Propagate(b)
          BY <3>1 DEF Resolve
        <5>2. stack'[1].queue = <<b>>
          BY <5>1 DEF Propagate
        <5>3. /\ 1 \in 1 .. Len(stack') /\ 1 \in 1 .. Len(stack'[1].queue)
              /\ stack'[1].queue[1] = n
          BY <4>2, <5>1, <5>2
        <5>4. InFlight(t, n)'
          BY <2>5, <4>1, <5>3 DEF InFlight
        <5> QED
          BY <3>2, <4>2, <5>4
      <4>3. CASE n # b
        BY <3>2, <4>1, <4>3
      <4> QED
        BY <4>2, <4>3
    <3> QED
      BY <3>3, <3>4, <3>5, <3>6, <3>7 DEF WorkInv
  <2>6. CASE /\ \A b \in Blocks : left # {b}
             /\ pending' = [pending EXCEPT ![s] =
                              [data |-> payload, neighbours |-> left]]
             /\ invIndex' = File(s, left)
             /\ UNCHANGED <<blocks, decoded, decodedCount, stack>>
    <3>1. /\ pending'[s] = [data |-> payload, neighbours |-> left]
          /\ \A t \in Seeds \ {s} : pending'[t] = pending[t]
      BY <1>0, <1>1, <2>6 DEF TypeOK
    <3>2. /\ \A n \in left : s \in invIndex'[n]
          /\ \A n \in Blocks : invIndex[n] \subseteq invIndex'[n]
      BY <1>1, <2>6 DEF File
    <3>3. StackDecoded' /\ NestingBounded'
      BY <1>0, <2>6 DEF WorkInv, StackDecoded, NestingBounded
    <3>4. BlocksAuthentic'
      <4> SUFFICES ASSUME NEW o \in Sessions, sources' \subseteq {o}
                   PROVE  /\ \A c \in decoded : blocks[c] = {<<o, c>>}
                          /\ \A t \in Seeds : pending'[t].data =
                               {<<o, c>> : c \in pending'[t].neighbours}
        BY <2>6 DEF BlocksAuthentic
      <4>1. \A t \in Seeds \ {s} : pending'[t].data =
               {<<o, c>> : c \in pending'[t].neighbours}
        BY <1>0, <2>3, <3>1 DEF WorkInv, BlocksAuthentic
      <4>2. pending'[s].data = {<<o, c>> : c \in pending'[s].neighbours}
        BY <2>3, <3>1
      <4> QED
        BY <2>3, <4>1, <4>2
    <3>5. SeenAccounted'
      BY <1>0, <1>1, <2>1, <2>6, <3>1 DEF WorkInv, SeenAccounted
    <3>6. NoSingleLeft'
      BY <1>0, <2>6, <3>1 DEF WorkInv, NoSingleLeft
    <3>7. NoDropletForgotten'
      <4> SUFFICES ASSUME NEW t \in Seeds, NEW n \in pending'[t].neighbours
                   PROVE  n \notin decoded /\ t \in invIndex'[n]
        BY <2>6 DEF NoDropletForgotten
      <4>1. CASE t = s
        BY <3>1, <3>2, <4>1
      <4>2. CASE t # s
        BY <3>1, <3>2, <4>2, IdleLists
      <4> QED
        BY <4>1, <4>2
    <3> QED
      BY <3>3, <3>4, <3>5, <3>6, <3>7 DEF WorkInv
  <2> QED
    BY <1>3, <2>4, <2>5, <2>6 DEF Ingest, payload
<1> QED
  BY <1>2, <1>3

LEMMA PopQueueWork ==
  ASSUME IInv, PopQueue
  PROVE  WorkInv'
<1> DEFINE q   == Top.queue
           idx == q[Len(q)]
           new == [block |-> idx, todo |-> invIndex[idx],
                   queue |-> SubSeq(q, 1, Len(q) - 1)]
           m   == Len(stack)
<1>0. TypeOK /\ WorkInv
  BY DEF IInv, TypeInv
<1>1. stack # <<>> /\ stack \in Seq(Frames) /\ Top \in Frames
      /\ m \in Nat \ {0} /\ Top = stack[m]
  BY <1>0, StackParts DEF TypeOK, PopQueue, Top
<1>2. q \in Seq(Blocks) /\ q # <<>> /\ Top.todo = {}
  BY <1>1 DEF Frames, PopQueue
<1>3. Len(q) \in Nat \ {0}
  BY <1>2, EmptySeq, LenProperties
<1>4. \A j \in 1 .. Len(q) : q[j] \in Blocks /\ q[j] \in decoded
  BY <1>0, <1>1, <1>2, ElementOfSeq DEF WorkInv, StackDecoded
<1>5. idx \in Blocks /\ idx \in decoded
  BY <1>3, <1>4
<1>6. /\ SubSeq(q, 1, Len(q) - 1) \in Seq(Blocks)
      /\ Len(SubSeq(q, 1, Len(q) - 1)) = Len(q) - 1
      /\ \A j \in 1 .. Len(q) - 1 : SubSeq(q, 1, Len(q) - 1)[j] = q[j]
  BY <1>2, <1>3, FrontOfSeq
<1>7. new \in Frames
  BY <1>0, <1>5, <1>6 DEF Frames, TypeOK
<1>8. /\ stack' = Append(Callers, new)
      /\ invIndex' = [invIndex EXCEPT ![idx] = {}]
      /\ UNCHANGED <<blocks, decoded, decodedCount, pending, seen, sources>>
  BY DEF PopQueue
<1>9. /\ Len(stack') = m
      /\ \A i \in 1 .. m - 1 : stack'[i] = stack[i]
      /\ stack'[m] = new
  BY <1>1, <1>7, <1>8, ReplaceTop
<1>10. StackDecoded'
  <2> SUFFICES ASSUME NEW i \in 1 .. Len(stack')
               PROVE  /\ stack'[i].block \in decoded
                      /\ \A j \in 1 .. Len(stack'[i].queue) : stack'[i].queue[j] \in decoded
    BY <1>8 DEF StackDecoded
  <2>1. CASE i \in 1 .. m - 1
    BY <1>0, <1>1, <1>9, <2>1 DEF WorkInv, StackDecoded
  <2>2. CASE i = m
    <3>1. stack'[i].block = idx /\ stack'[i].queue = SubSeq(q, 1, Len(q) - 1)
      BY <1>9, <2>2
    <3>2. \A j \in 1 .. Len(q) - 1 : SubSeq(q, 1, Len(q) - 1)[j] \in decoded
      BY <1>3, <1>4, <1>6
    <3>3. \A j \in 1 .. Len(SubSeq(q, 1, Len(q) - 1)) :
            SubSeq(q, 1, Len(q) - 1)[j] \in decoded
      BY <1>6, <3>2
    <3> HIDE DEF q, idx
    <3> QED
      BY <1>5, <3>1, <3>3
  <2> QED
    BY <1>1, <1>9, <2>1, <2>2
<1>11. BlocksAuthentic' /\ SeenAccounted' /\ NoSingleLeft'
  BY <1>0, <1>8 DEF WorkInv, BlocksAuthentic, SeenAccounted, NoSingleLeft
<1>12. NestingBounded'
  BY <1>0, <1>8, <1>9 DEF WorkInv, NestingBounded
<1>13. NoDropletForgotten'
  <2> SUFFICES ASSUME NEW t \in Seeds, NEW n \in pending[t].neighbours
               PROVE  IF n \in decoded THEN InFlight(t, n)' ELSE t \in invIndex'[n]
    BY <1>8 DEF NoDropletForgotten
  <2>1. n \in Blocks
    BY <1>0 DEF TypeOK
  <2>2. CASE n \notin decoded
    BY <1>0, <1>5, <1>8, <2>1, <2>2 DEF WorkInv, NoDropletForgotten, TypeOK
  <2>3. CASE n = idx /\ t \in invIndex[idx]
    <3>1. stack'[m].block = n /\ t \in stack'[m].todo /\ m \in 1 .. Len(stack')
      BY <1>1, <1>9, <2>3
    <3> QED
      BY <1>5, <2>3, <3>1 DEF InFlight
  <2>4. CASE n \in decoded /\ ~(n = idx /\ t \in invIndex[idx])
    <3>1. PICK i \in 1 .. m :
            \/ stack[i].block = n /\ t \in stack[i].todo
            \/ /\ t \in invIndex[n]
               /\ \E j \in 1 .. Len(stack[i].queue) : stack[i].queue[j] = n
      BY <1>0, <2>4 DEF WorkInv, NoDropletForgotten, InFlight
    <3>2. i \in 1 .. Len(stack')
      BY <1>9
    <3>3. CASE i = m
      <4>1. PICK j \in 1 .. Len(q) : q[j] = n /\ t \in invIndex[n]
        BY <1>1, <1>2, <3>1, <3>3
      <4>2. j \in 1 .. Len(q) - 1 /\ n # idx
        BY <1>3, <2>4, <4>1
      <4>3. /\ t \in invIndex'[n]
            /\ j \in 1 .. Len(stack'[m].queue)
            /\ stack'[m].queue[j] = n
        BY <1>0, <1>6, <1>8, <1>9, <2>1, <4>1, <4>2 DEF TypeOK
      <4> QED
        BY <2>4, <3>2, <3>3, <4>3 DEF InFlight
    <3>4. CASE i # m
      <4>1. stack'[i] = stack[i]
        BY <1>1, <1>9, <3>4
      <4>2. t \in invIndex[n] => t \in invIndex'[n]
        BY <1>0, <1>8, <2>1, <2>4 DEF TypeOK
      <4> QED
        BY <2>4, <3>1, <3>2, <4>1, <4>2 DEF InFlight
    <3> QED
      BY <3>3, <3>4
  <2> QED
    BY <2>2, <2>3, <2>4
<1> QED
  BY <1>10, <1>11, <1>12, <1>13 DEF WorkInv

LEMMA ReturnWork ==
  ASSUME IInv, Return
  PROVE  WorkInv'
<1> DEFINE m == Len(stack)
<1>0. TypeOK /\ WorkInv
  BY DEF IInv, TypeInv
<1>1. /\ m \in Nat \ {0} /\ Len(stack') = m - 1
      /\ \A i \in 1 .. m - 1 : stack'[i] = stack[i]
      /\ Top = stack[m] /\ Top.todo = {} /\ Top.queue = <<>>
  BY <1>0, StackParts DEF TypeOK, Return, Top
<1>2. UNCHANGED <<blocks, decoded, decodedCount, pending, invIndex, seen, sources>>
  BY DEF Return
<1>3. StackDecoded' /\ NestingBounded'
  BY <1>0, <1>1, <1>2 DEF WorkInv, StackDecoded, NestingBounded, TypeOK
<1>4. BlocksAuthentic' /\ SeenAccounted' /\ NoSingleLeft'
  BY <1>0, <1>2 DEF WorkInv, BlocksAuthentic, SeenAccounted, NoSingleLeft
<1>5. NoDropletForgotten'
  <2> SUFFICES ASSUME NEW t \in Seeds, NEW n \in pending[t].neighbours, n \in decoded
               PROVE  InFlight(t, n)'
    BY <1>0, <1>2 DEF WorkInv, NoDropletForgotten
  <2>1. PICK i \in 1 .. m :
          \/ stack[i].block = n /\ t \in stack[i].todo
          \/ /\ t \in invIndex[n]
             /\ \E j \in 1 .. Len(stack[i].queue) : stack[i].queue[j] = n
    BY <1>0 DEF WorkInv, NoDropletForgotten, InFlight
  <2>2. i # m
    BY <1>1, <2>1
  <2>3. i \in 1 .. Len(stack') /\ stack'[i] = stack[i]
    BY <1>1, <2>2
  <2> QED
    BY <1>2, <2>1, <2>3 DEF InFlight
<1> QED
  BY <1>3, <1>4, <1>5 DEF WorkInv

LEMMA VisitWork ==
  ASSUME IInv, NEW s \in Seeds, Visit(s)
  PROVE  WorkInv'
<1> DEFINE idx  == Top.block
           here == [Top EXCEPT !.todo = @ \ {s}]
           left == pending[s].neighbours \ {idx}
           data == XorOut(pending[s].data, {idx})
           m    == Len(stack)
           next == [data |-> data, neighbours |-> left]
<1>0. TypeOK /\ WorkInv
  BY DEF IInv, TypeInv
<1>1. stack # <<>> /\ stack \in Seq(Frames) /\ Top \in Frames
      /\ m \in Nat \ {0} /\ Top = stack[m]
  BY <1>0, StackParts DEF TypeOK, Visit, Top
<1>2. /\ idx \in Blocks /\ idx \in decoded
      /\ \A j \in 1 .. Len(Top.queue) : Top.queue[j] \in decoded
  BY <1>0, <1>1 DEF WorkInv, StackDecoded, Frames
<1>3. /\ here \in Frames /\ here.block = idx
      /\ here.todo = Top.todo \ {s} /\ here.queue = Top.queue
  BY <1>1 DEF Frames
<1>4. /\ Top.queue \in Seq(Blocks)
      /\ UNCHANGED <<seen, sources>>
      /\ pending[s].neighbours \in SUBSET Blocks
  BY <1>0, <1>1 DEF Frames, Visit, TypeOK
\* The payload after the visit, when the droplets come from one session.
<1>5. ASSUME NEW o \in Sessions, sources \subseteq {o}, idx \in pending[s].neighbours
      PROVE  data = {<<o, c>> : c \in left}
  <2>1. /\ pending[s].data = {<<o, c>> : c \in pending[s].neighbours}
        /\ blocks[idx] = {<<o, idx>>}
    BY <1>0, <1>2, <1>5 DEF WorkInv, BlocksAuthentic
  <2>2. {idx} \in SUBSET pending[s].neighbours /\ \A c \in {idx} : blocks[c] = {<<o, c>>}
    BY <1>5, <2>1
  <2> HIDE DEF idx
  <2> QED
    BY <1>4, <2>1, <2>2, XorOutExact
\* A droplet in flight before the visit still is, unless the visit was for it.
<1>6. ASSUME NEW t \in Seeds, NEW n \in Blocks, InFlight(t, n),
             ~(t = s /\ n = idx),
             invIndex[n] \subseteq invIndex'[n],
             Len(stack') >= m,
             \A i \in 1 .. m - 1 : stack'[i] = stack[i],
             stack'[m].block = idx,
             stack'[m].todo = Top.todo \ {s},
             Len(stack'[m].queue) >= Len(Top.queue),
             \A j \in 1 .. Len(Top.queue) : stack'[m].queue[j] = Top.queue[j]
      PROVE  InFlight(t, n)'
  <2>1. PICK i \in 1 .. m :
          \/ stack[i].block = n /\ t \in stack[i].todo
          \/ /\ t \in invIndex[n]
             /\ \E j \in 1 .. Len(stack[i].queue) : stack[i].queue[j] = n
    BY <1>6 DEF InFlight
  <2> HIDE DEF idx
  <2>2. CASE i = m
    <3>1. CASE stack[i].block = n /\ t \in stack[i].todo
      <4>1. stack'[m].block = n /\ t \in stack'[m].todo
        BY <1>1, <1>6, <2>2, <3>1 DEF idx
      <4>2. m \in 1 .. Len(stack')
        BY <1>1, <1>6
      <4> QED
        BY <4>1, <4>2 DEF InFlight
    <3>2. CASE t \in invIndex[n] /\ \E j \in 1 .. Len(stack[i].queue) : stack[i].queue[j] = n
      <4>1. PICK j \in 1 .. Len(Top.queue) : Top.queue[j] = n
        BY <1>1, <2>2, <3>2
      <4>2. j \in 1 .. Len(stack'[m].queue) /\ stack'[m].queue[j] = n /\ t \in invIndex'[n]
        BY <1>6, <3>2, <4>1
      <4>3. m \in 1 .. Len(stack')
        BY <1>1, <1>6
      <4> QED
        BY <4>2, <4>3 DEF InFlight
    <3> QED
      BY <2>1, <3>1, <3>2
  <2>3. CASE i # m
    <3>1. i \in 1 .. Len(stack') /\ stack'[i] = stack[i]
      BY <1>1, <1>6, <2>3
    <3> QED
      BY <1>6, <2>1, <3>1 DEF InFlight
  <2> QED
    BY <2>2, <2>3
\* The invariants of the droplets, once s has been visited for idx.
<1>7. ASSUME idx \in pending[s].neighbours,
             pending' = [pending EXCEPT ![s] = next],
             decoded \subseteq decoded'
      PROVE  /\ SeenAccounted'
             /\ \A t \in Seeds \ {s} : pending'[t] = pending[t]
             /\ pending'[s].neighbours = left /\ pending'[s].data = data
  <2>1. /\ \A t \in Seeds \ {s} : pending'[t] = pending[t]
        /\ pending'[s] = next
    BY <1>0, <1>7 DEF TypeOK
  <2>2. pending'[s].neighbours = left /\ pending'[s].data = data
    BY <2>1
  <2> HIDE DEF left, data, next
  <2>3. \A t \in Seeds : pending'[t].neighbours \subseteq pending[t].neighbours
    BY <2>1, <2>2 DEF left
  <2>4. \A t \in Seeds : pending[t].neighbours \ decoded' \subseteq pending'[t].neighbours
    BY <1>2, <1>7, <2>1, <2>2 DEF left
  <2>5. SeenAccounted'
    <3> SUFFICES ASSUME NEW t \in Seeds
                 PROVE  IF t \in seen
                          THEN /\ pending'[t].neighbours \subseteq Neighbours[t]
                               /\ Neighbours[t] \ decoded' \subseteq pending'[t].neighbours
                          ELSE pending'[t].neighbours = {}
      BY <1>4 DEF SeenAccounted
    <3>1. IF t \in seen
            THEN /\ pending[t].neighbours \subseteq Neighbours[t]
                 /\ Neighbours[t] \ decoded \subseteq pending[t].neighbours
            ELSE pending[t].neighbours = {}
      BY <1>0 DEF WorkInv, SeenAccounted
    <3> QED
      BY <1>7, <2>3, <2>4, <3>1
  <2> QED
    BY <2>1, <2>2, <2>5
<1>8. ASSUME NEW t \in Seeds, NEW n \in pending[t].neighbours
      PROVE  n \in Blocks /\ IF n \in decoded THEN InFlight(t, n) ELSE t \in invIndex[n]
  BY <1>0, <1>8 DEF WorkInv, NoDropletForgotten, TypeOK
<1> HIDE DEF left, data
\* Every case but that of a resolve.
<1>9. CASE /\ stack' = Append(Callers, here)
           /\ UNCHANGED <<blocks, decoded, decodedCount>>
           /\ \/ idx \notin pending[s].neighbours /\ pending' = pending
              \/ /\ idx \in pending[s].neighbours
                 /\ pending' = [pending EXCEPT ![s] = next]
                 /\ \A b \in Blocks \ decoded : left # {b}
           /\ \A n \in Blocks : invIndex[n] \subseteq invIndex'[n]
  <2>1. /\ Len(stack') = m
        /\ \A i \in 1 .. m - 1 : stack'[i] = stack[i]
        /\ stack'[m] = here
    BY <1>1, <1>3, <1>9, ReplaceTop
  <2>2. /\ Len(stack') = m
        /\ stack'[m].block = idx /\ stack'[m].todo = Top.todo \ {s}
        /\ stack'[m].queue = Top.queue
    BY <1>3, <2>1
  <2>3. StackDecoded'
    <3> SUFFICES ASSUME NEW i \in 1 .. Len(stack')
                 PROVE  /\ stack'[i].block \in decoded
                        /\ \A j \in 1 .. Len(stack'[i].queue) : stack'[i].queue[j] \in decoded
      BY <1>9 DEF StackDecoded
    <3>1. CASE i \in 1 .. m - 1
      BY <1>0, <1>1, <2>1, <3>1 DEF WorkInv, StackDecoded
    <3>2. CASE i = m
      BY <1>2, <2>2, <3>2
    <3> QED
      BY <1>1, <2>1, <3>1, <3>2
  <2>4. NestingBounded'
    BY <1>0, <1>9, <2>1 DEF WorkInv, NestingBounded
  <2>5. BlocksAuthentic'
    <3> SUFFICES ASSUME NEW o \in Sessions, sources \subseteq {o}
                 PROVE  /\ \A c \in decoded : blocks[c] = {<<o, c>>}
                        /\ \A t \in Seeds : pending'[t].data =
                             {<<o, c>> : c \in pending'[t].neighbours}
      BY <1>4, <1>9 DEF BlocksAuthentic
    <3>1. /\ \A c \in decoded : blocks[c] = {<<o, c>>}
          /\ \A t \in Seeds : pending[t].data = {<<o, c>> : c \in pending[t].neighbours}
      BY <1>0 DEF WorkInv, BlocksAuthentic
    <3>2. CASE pending' = pending
      BY <3>1, <3>2
    <3>3. CASE idx \in pending[s].neighbours /\ pending' = [pending EXCEPT ![s] = next]
      <4>1. pending'[s].data = {<<o, c>> : c \in pending'[s].neighbours}
        BY <1>5, <1>7, <1>9, <3>3
      <4>2. \A t \in Seeds \ {s} : pending'[t] = pending[t]
        BY <1>7, <1>9, <3>3
      <4> QED
        BY <3>1, <4>1, <4>2
    <3> QED
      BY <1>9, <3>2, <3>3
  <2>6. SeenAccounted'
    BY <1>0, <1>4, <1>7, <1>9 DEF WorkInv, SeenAccounted
  <2>7. NoSingleLeft'
    BY <1>0, <1>7, <1>9 DEF WorkInv, NoSingleLeft
  <2>8. NoDropletForgotten'
    <3> SUFFICES ASSUME NEW t \in Seeds, NEW n \in pending'[t].neighbours
                 PROVE  IF n \in decoded THEN InFlight(t, n)' ELSE t \in invIndex'[n]
      BY <1>9 DEF NoDropletForgotten
    <3>1. n \in pending[t].neighbours /\ ~(t = s /\ n = idx)
      BY <1>7, <1>9 DEF left
    <3>2. CASE n \in decoded
      <4>1. InFlight(t, n) /\ n \in Blocks
        BY <1>8, <3>1, <3>2
      <4>2. InFlight(t, n)'
        BY <1>1, <1>6, <1>9, <2>1, <2>2, <3>1, <4>1
      <4> QED
        BY <3>2, <4>2
    <3>3. CASE n \notin decoded
      BY <1>8, <1>9, <3>1, <3>3
    <3> QED
      BY <3>2, <3>3
  <2> QED
    BY <2>3, <2>4, <2>5, <2>6, <2>7, <2>8 DEF WorkInv
\* The visit leaves s with one undecoded block, which is resolved.
<1>10. ASSUME NEW b \in Blocks \ decoded, left = {b}, idx \in pending[s].neighbours,
              pending' = [pending EXCEPT ![s] = next], UNCHANGED invIndex,
              Resolve(b, data, Append(Callers, [here EXCEPT !.queue = Append(@, b)]))
       PROVE  WorkInv'
  <2> DEFINE here2 == [here EXCEPT !.queue = Append(@, b)]
             cs    == Append(Callers, here2)
  <2>1. /\ Append(Top.queue, b) \in Seq(Blocks)
        /\ Len(Append(Top.queue, b)) = Len(Top.queue) + 1
        /\ \A j \in 1 .. Len(Top.queue) : Append(Top.queue, b)[j] = Top.queue[j]
        /\ Append(Top.queue, b)[Len(Top.queue) + 1] = b
        /\ Len(Top.queue) \in Nat
    BY <1>4, AppendProperties, LenProperties
  <2>2. /\ here2 \in Frames /\ here2.block = idx
        /\ here2.todo = Top.todo \ {s} /\ here2.queue = Append(Top.queue, b)
    BY <1>1, <1>3, <2>1 DEF Frames
  <2> HIDE DEF here2, here, next
  <2>3. /\ Len(cs) = m /\ cs \in Seq(Frames)
        /\ \A i \in 1 .. m - 1 : cs[i] = stack[i]
        /\ cs[m] = here2
    BY <1>1, <2>2, ReplaceTop
  <2>4. /\ stack' = Append(cs, Propagate(b))
        /\ blocks' = [blocks EXCEPT ![b] = data]
        /\ decoded' = decoded \cup {b}
        /\ Resolve(b, data, cs)
    BY <1>10 DEF Resolve, here2
  <2> HIDE DEF cs
  <2>5. /\ Len(stack') = m + 1
        /\ \A i \in 1 .. m : stack'[i] = cs[i]
        /\ stack'[m + 1] = Propagate(b)
    BY <2>3, <2>4, PushFrame
  <2>6. StackDecoded' /\ NestingBounded'
    <3>1. Len(cs) <= decodedCount
      BY <1>0, <2>3 DEF WorkInv, NestingBounded
    <3>2. ASSUME NEW i \in 1 .. Len(cs)
          PROVE  /\ cs[i].block \in decoded
                 /\ \A j \in 1 .. Len(cs[i].queue) : cs[i].queue[j] \in decoded \cup {b}
      <4>1. CASE i \in 1 .. m - 1
        <5>1. cs[i] = stack[i] /\ i \in 1 .. Len(stack)
          BY <1>1, <2>3, <4>1
        <5> QED
          BY <1>0, <5>1 DEF WorkInv, StackDecoded
      <4>2. CASE i = m
        <5>1. cs[i].block = idx /\ cs[i].queue = Append(Top.queue, b)
          BY <2>2, <2>3, <4>2
        <5>2. \A j \in 1 .. Len(Top.queue) + 1 :
                Append(Top.queue, b)[j] \in decoded \cup {b}
          BY <1>2, <2>1
        <5> QED
          BY <1>2, <2>1, <5>1, <5>2
      <4> QED
        BY <1>1, <2>3, <4>1, <4>2
    <3> QED
      BY <1>0, <2>3, <2>4, <3>1, <3>2, ResolveStack
  <2>7. BlocksAuthentic'
    <3> SUFFICES ASSUME NEW o \in Sessions, sources \subseteq {o}
                 PROVE  /\ \A c \in decoded' : blocks'[c] = {<<o, c>>}
                        /\ \A t \in Seeds : pending'[t].data =
                             {<<o, c>> : c \in pending'[t].neighbours}
      BY <1>4 DEF BlocksAuthentic
    <3>1. /\ \A c \in decoded : blocks[c] = {<<o, c>>}
          /\ \A t \in Seeds : pending[t].data = {<<o, c>> : c \in pending[t].neighbours}
      BY <1>0 DEF WorkInv, BlocksAuthentic
    <3>2. data = {<<o, c>> : c \in left}
      BY <1>5, <1>10
    <3>3. data = {<<o, b>>}
      BY <1>10, <3>2
    <3>4. \A c \in decoded' : blocks'[c] = {<<o, c>>}
      BY <1>0, <2>4, <3>1, <3>3 DEF TypeOK
    <3>5. \A t \in Seeds : pending'[t].data = {<<o, c>> : c \in pending'[t].neighbours}
      BY <1>7, <1>10, <2>4, <3>1, <3>2
    <3> QED
      BY <3>4, <3>5
  <2>8. SeenAccounted'
    BY <1>7, <1>10, <2>4
  <2>9. NoSingleLeft'
    BY <1>0, <1>7, <1>10, <2>4 DEF WorkInv, NoSingleLeft
  <2>10. NoDropletForgotten'
    <3> SUFFICES ASSUME NEW t \in Seeds, NEW n \in pending'[t].neighbours
                 PROVE  IF n \in decoded' THEN InFlight(t, n)' ELSE t \in invIndex[n]
      BY <1>10 DEF NoDropletForgotten
    <3>1. n \in pending[t].neighbours /\ ~(t = s /\ n = idx)
      BY <1>7, <1>10, <2>4 DEF left
    <3>2. CASE n \in decoded
      <4>1. InFlight(t, n) /\ n \in Blocks
        BY <1>8, <3>1, <3>2
      <4>2. /\ Len(stack') >= m
            /\ \A i \in 1 .. m - 1 : stack'[i] = stack[i]
            /\ stack'[m] = here2
        BY <1>1, <2>3, <2>5
      <4>3. /\ stack'[m].block = idx
            /\ stack'[m].todo = Top.todo \ {s}
            /\ Len(stack'[m].queue) >= Len(Top.queue)
            /\ \A j \in 1 .. Len(Top.queue) : stack'[m].queue[j] = Top.queue[j]
        BY <2>1, <2>2, <4>2
      <4>4. invIndex[n] \subseteq invIndex'[n]
        BY <1>10
      <4>5. InFlight(t, n)'
        BY <1>6, <3>1, <4>1, <4>2, <4>3, <4>4
      <4> QED
        BY <2>4, <3>2, <4>5
    <3>3. CASE n = b
      <4>1. t \in invIndex'[n]
        BY <1>8, <1>10, <3>1, <3>3
      <4>2. stack'[m + 1].queue = <<b>>
        BY <2>5 DEF Propagate
      <4>3. /\ m + 1 \in 1 .. Len(stack')
            /\ 1 \in 1 .. Len(stack'[m + 1].queue)
            /\ stack'[m + 1].queue[1] = n
        BY <1>1, <2>5, <3>3, <4>2
      <4>4. InFlight(t, n)'
        BY <4>1, <4>3 DEF InFlight
      <4> QED
        BY <2>4, <3>3, <4>4
    <3>4. CASE n \notin decoded /\ n # b
      BY <1>8, <2>4, <3>1, <3>4
    <3> QED
      BY <3>2, <3>3, <3>4
  <2> QED
    BY <2>6, <2>7, <2>8, <2>9, <2>10 DEF WorkInv
<1>11. CASE /\ idx \notin pending[s].neighbours
            /\ stack' = Append(Callers, here)
            /\ UNCHANGED <<blocks, decoded, decodedCount, pending, invIndex>>
  BY <1>9, <1>11
<1>12. CASE /\ idx \in pending[s].neighbours
            /\ pending' = [pending EXCEPT ![s] = next]
            /\ left = {} \/ \E b \in decoded : left = {b}
            /\ stack' = Append(Callers, here)
            /\ UNCHANGED <<blocks, decoded, decodedCount, invIndex>>
  BY <1>9, <1>12
<1>13. CASE /\ idx \in pending[s].neighbours
            /\ pending' = [pending EXCEPT ![s] = next]
            /\ \A b \in Blocks : left # {b}
            /\ invIndex' = File(s, left)
            /\ stack' = Append(Callers, here)
            /\ UNCHANGED <<blocks, decoded, decodedCount>>
  <2>1. \A n \in Blocks : invIndex[n] \subseteq invIndex'[n]
    BY <1>13 DEF File
  <2> QED
    BY <1>9, <1>13, <2>1
<1> QED
  BY <1>10, <1>11, <1>12, <1>13 DEF Visit, left, data

\* The inductive invariant holds in every state the decoder reaches.
THEOREM Invariance == Spec => []IInv
<1>1. Init => WorkInv
  <2> SUFFICES ASSUME Init PROVE WorkInv
    OBVIOUS
  <2>1. Len(<<>>) = 0
    OBVIOUS
  <2>2. StackDecoded /\ NestingBounded
    BY <2>1 DEF Init, StackDecoded, NestingBounded
  <2>3. BlocksAuthentic /\ SeenAccounted /\ NoSingleLeft /\ NoDropletForgotten
    BY DEF Init, BlocksAuthentic, SeenAccounted, NoSingleLeft, NoDropletForgotten
  <2> QED
    BY <2>2, <2>3 DEF WorkInv
<1>2. IInv /\ [Next]_decoderVars => WorkInv'
  <2> SUFFICES ASSUME IInv, [Next]_decoderVars PROVE WorkInv'
    OBVIOUS
  <2>0. WorkInv
    BY DEF IInv
  <2>1. ASSUME NEW p \in Packets, BufferEarly(p) PROVE WorkInv'
    BY <2>0, <2>1, WorkUnchanged DEF BufferEarly
  <2>2. ASSUME NEW p \in Packets, AddDroplet(p) PROVE WorkInv'
    BY <2>2, IngestWork DEF AddDroplet, Idle
  <2>3. CASE SetBlockCount
    BY <2>0, <2>3, WorkUnchanged DEF SetBlockCount
  <2>4. CASE ReplayEarly
    <3>1. Head(replay) \in Packets
      BY <2>4, HeadTailProperties DEF ReplayEarly, IInv, TypeInv, TypeOK
    <3> QED
      BY <2>4, <3>1, IngestWork DEF ReplayEarly
  <2>5. CASE PopQueue
    BY <2>5, PopQueueWork
  <2>6. ASSUME NEW s \in Seeds, Visit(s) PROVE WorkInv'
    BY <2>6, VisitWork
  <2>7. CASE Return
    BY <2>7, ReturnWork
  <2>8. CASE UNCHANGED decoderVars
    BY <2>0, <2>8, WorkUnchanged DEF decoderVars
  <2> QED
    BY <2>1, <2>2, <2>3, <2>4, <2>5, <2>6, <2>7, <2>8 DEF Next, Run, Call
<1> QED
  BY <1>1, <1>2, TypeInvariant, PTL DEF Spec, IInv

\* Droplets of one session: every stored block is that session's block, and a
\* pending payload is the XOR of exactly the blocks it still lists.
THEOREM Authentic == Spec => []BlocksAuthentic
  BY Invariance, PTL DEF IInv, WorkInv

\* A call of propagate nests at most once per decoded block.
THEOREM Nesting == Spec => []NestingBounded
  BY Invariance, PTL DEF IInv, WorkInv

\* The nested calls forget no droplet.
THEOREM NothingForgotten == Spec => []NoDropletForgotten
  BY Invariance, PTL DEF IInv, WorkInv

\* A decoder that reports completion holds every block of the one session
\* whose droplets it was given.
THEOREM Complete == Spec => []CompleteIsWhole
<1>1. IInv => CompleteIsWhole
  <2> SUFFICES ASSUME IInv, IsComplete, NEW o \in Sessions, sources \subseteq {o}
               PROVE  \A b \in Blocks : blocks[b] = {<<o, b>>}
    BY DEF CompleteIsWhole
  <2>1. decoded \in SUBSET Blocks /\ Cardinality(decoded) = K
    BY KAssumption DEF IInv, TypeInv, TypeOK, CountExact, IsComplete
  <2>2. decoded = Blocks
    BY <2>1, BlocksFinite, FS_Subset
  <2> QED
    BY <2>2 DEF IInv, WorkInv, BlocksAuthentic
<1> QED
  BY <1>1, Invariance, PTL

-----------------------------------------------------------------------------
(***************************************************************************)
(* The decoder implements Peeling.                                         *)
(***************************************************************************)

\* When no droplet is in flight, no droplet pins a block.
LEMMA NothingInFlight ==
  ASSUME IInv, \A s \in Seeds : \A n \in Blocks : ~InFlight(s, n)
  PROVE  Peel!Stuck(seen, decoded)
<1> SUFFICES ASSUME NEW b \in Blocks, NEW s \in seen, Neighbours[s] \ decoded = {b}
             PROVE  FALSE
  BY DEF Peel!Stuck, Peel!Peelable
<1>1. s \in Seeds /\ pending[s].neighbours \in SUBSET Blocks
  BY DEF IInv, TypeInv, TypeOK
<1>2. pending[s].neighbours \cap decoded = {}
  BY <1>1 DEF IInv, WorkInv, NoDropletForgotten
<1>3. /\ pending[s].neighbours \subseteq Neighbours[s]
      /\ Neighbours[s] \ decoded \subseteq pending[s].neighbours
  BY <1>1 DEF IInv, WorkInv, SeenAccounted
<1>4. pending[s].neighbours = {b} /\ b \notin decoded
  BY <1>2, <1>3
<1> QED
  BY <1>1, <1>4 DEF IInv, WorkInv, NoSingleLeft

\* ingest of a new seed is Receive; of a seed already seen, nothing.
LEMMA IngestPeels ==
  ASSUME TypeOK, stack = <<>>, NEW p \in Packets, Ingest(p)
  PROVE  [Peel!PeelNext]_(Peel!peelVars)
<1> DEFINE s       == p.seed
           left    == Neighbours[s] \ decoded
           payload == XorOut(Payload(p), Neighbours[s] \cap decoded)
<1>1. s \in Seeds
  BY DEF Packets
<1>2. CASE s \in seen
  BY <1>2 DEF Ingest, Peel!peelVars
<1>3. CASE s \notin seen
  <2>1. seen' = seen \cup {s}
    BY <1>3 DEF Ingest
  <2>2. CASE UNCHANGED <<decoded, stack>> /\ \A b \in Blocks : left # {b}
    BY <1>1, <1>3, <2>1, <2>2 DEF Peel!PeelNext, Peel!Receive
  <2>3. CASE \E b \in Blocks : left = {b} /\ Resolve(b, payload, <<>>)
    <3>1. PICK b \in Blocks : left = {b} /\ Resolve(b, payload, <<>>)
      BY <2>3
    <3>2. stack' = Append(<<>>, Propagate(b)) /\ decoded' = decoded \cup {b}
      BY <3>1 DEF Resolve
    <3>3. stack' # <<>>
      BY <3>2
    <3> QED
      BY <1>1, <1>3, <2>1, <3>1, <3>2, <3>3 DEF Peel!PeelNext, Peel!Receive
  <2> QED
    BY <1>3, <2>2, <2>3 DEF Ingest
<1> QED
  BY <1>2, <1>3

\* A visit that resolves a block is Recover; any other, nothing.
LEMMA VisitPeels ==
  ASSUME IInv, NEW s \in Seeds, Visit(s)
  PROVE  [Peel!PeelNext]_(Peel!peelVars)
<1> DEFINE idx  == Top.block
           here == [Top EXCEPT !.todo = @ \ {s}]
           left == pending[s].neighbours \ {idx}
           data == XorOut(pending[s].data, {idx})
<1>1. stack # <<>> /\ stack \in Seq(Frames) /\ Callers \in Seq(Frames)
      /\ Len(stack) \in Nat \ {0}
  BY StackParts DEF Visit, IInv, TypeInv, TypeOK
<1>2. idx \in decoded
  BY <1>1 DEF IInv, WorkInv, StackDecoded, Top
<1>3. ASSUME NEW x PROVE Append(Callers, x) # <<>>
  BY <1>1, AppendNotEmpty
<1>4. CASE stack' = Append(Callers, here) /\ UNCHANGED <<decoded, seen>>
  <2>1. stack' # <<>>
    BY <1>3, <1>4
  <2> QED
    BY <1>1, <1>4, <2>1 DEF Peel!peelVars
<1>5. ASSUME idx \in pending[s].neighbours, NEW b \in Blocks \ decoded, left = {b},
             Resolve(b, data, Append(Callers, [here EXCEPT !.queue = Append(@, b)])),
             UNCHANGED seen
      PROVE  Peel!Recover(b)
  <2>1. s \in seen
    BY <1>5 DEF IInv, WorkInv, SeenAccounted
  <2>2. /\ pending[s].neighbours \subseteq Neighbours[s]
        /\ Neighbours[s] \ decoded \subseteq pending[s].neighbours
    BY <2>1 DEF IInv, WorkInv, SeenAccounted
  <2>3. Neighbours[s] \ decoded = {b}
    BY <1>2, <1>5, <2>2
  <2> DEFINE cs == Append(Callers, [here EXCEPT !.queue = Append(@, b)])
  <2>4. decoded' = decoded \cup {b} /\ stack' = Append(cs, Propagate(b))
    BY <1>5 DEF Resolve
  <2>5. cs \in Seq(Frames \cup {[here EXCEPT !.queue = Append(@, b)]})
    <3>1. Callers \in Seq(Frames \cup {[here EXCEPT !.queue = Append(@, b)]})
      BY <1>1, SeqMonotonic
    <3> QED
      BY <3>1, AppendProperties
  <2> HIDE DEF cs
  <2>6. stack' # <<>>
    BY <2>4, <2>5
  <2> QED
    BY <1>1, <1>5, <2>1, <2>3, <2>4, <2>6 DEF Peel!Recover, Peel!Peelable
<1>6. seen' = seen
  BY DEF Visit
<1> HIDE DEF here, data
<1> QED
  BY <1>4, <1>5, <1>6 DEF Visit, Peel!PeelNext, here, data

\* The outermost propagate returns only when no droplet is in flight.
LEMMA ReturnPeels ==
  ASSUME IInv, Return
  PROVE  [Peel!PeelNext]_(Peel!peelVars)
<1>1. /\ stack # <<>> /\ stack \in Seq(Frames) /\ Len(stack) \in Nat \ {0}
      /\ Callers \in Seq(Frames) /\ Len(Callers) = Len(stack) - 1
      /\ stack' = Callers /\ UNCHANGED <<seen, decoded>>
  BY StackParts DEF Return, IInv, TypeInv, TypeOK
<1>2. CASE Len(stack) = 1
  <2>1. stack' = <<>>
    BY <1>1, <1>2, EmptySeq
  <2>2. stack[1].todo = {} /\ stack[1].queue = <<>>
    BY <1>2 DEF Return, Top
  <2>3. \A s \in Seeds : \A n \in Blocks : ~InFlight(s, n)
    BY <1>2, <2>2 DEF InFlight
  <2> QED
    BY <1>1, <2>1, <2>3, NothingInFlight DEF Peel!PeelNext, Peel!Settle
<1>3. CASE Len(stack) # 1
  <2>1. stack' # <<>>
    BY <1>1, <1>3
  <2> QED
    BY <1>1, <2>1 DEF Peel!peelVars
<1> QED
  BY <1>2, <1>3

LEMMA StepPeels == IInv /\ [Next]_decoderVars => [Peel!PeelNext]_(Peel!peelVars)
<1> SUFFICES ASSUME IInv, [Next]_decoderVars PROVE [Peel!PeelNext]_(Peel!peelVars)
  OBVIOUS
<1>0. TypeOK
  BY DEF IInv, TypeInv
<1>1. ASSUME NEW p \in Packets, BufferEarly(p) PROVE [Peel!PeelNext]_(Peel!peelVars)
  BY <1>1 DEF BufferEarly, Peel!peelVars
<1>2. ASSUME NEW p \in Packets, AddDroplet(p) PROVE [Peel!PeelNext]_(Peel!peelVars)
  BY <1>0, <1>2, IngestPeels DEF AddDroplet, Idle
<1>3. CASE SetBlockCount
  BY <1>3 DEF SetBlockCount, Peel!peelVars
<1>4. CASE ReplayEarly
  <2>1. Head(replay) \in Packets
    BY <1>0, <1>4, HeadTailProperties DEF ReplayEarly, TypeOK
  <2> QED
    BY <1>0, <1>4, <2>1, IngestPeels DEF ReplayEarly
<1>5. CASE PopQueue
  <2>1. Callers \in Seq(Frames) /\ stack # <<>>
    BY <1>0, <1>5, StackParts DEF PopQueue, TypeOK
  <2>2. ASSUME NEW x PROVE Append(Callers, x) # <<>>
    BY <2>1, AppendNotEmpty
  <2>3. stack' # <<>> /\ UNCHANGED <<seen, decoded>>
    BY <1>5, <2>2 DEF PopQueue
  <2> QED
    BY <2>1, <2>3 DEF Peel!peelVars
<1>6. ASSUME NEW s \in Seeds, Visit(s) PROVE [Peel!PeelNext]_(Peel!peelVars)
  BY <1>6, VisitPeels
<1>7. CASE Return
  BY <1>7, ReturnPeels
<1>8. CASE UNCHANGED decoderVars
  BY <1>8 DEF decoderVars, Peel!peelVars
<1> QED
  BY <1>1, <1>2, <1>3, <1>4, <1>5, <1>6, <1>7, <1>8 DEF Next, Run, Call

\* Every behaviour of the worklist decoder is a behaviour of Peeling.
THEOREM Refinement == Spec => ImplementsPeeling
<1>1. Init => Peel!PeelInit
  BY DEF Init, Peel!PeelInit
<1> QED
  BY <1>1, StepPeels, Invariance, PTL DEF Spec, ImplementsPeeling, Peel!PeelSpec

-----------------------------------------------------------------------------
\* Peeling one more block stays inside the closure.
LEMMA ClosureGrows ==
  ASSUME NEW R \in SUBSET Seeds, NEW D \in SUBSET Peel!PeelClosure(R), NEW b \in Blocks,
         Peel!Peelable(b, R, D)
  PROVE  D \cup {b} \subseteq Peel!PeelClosure(R)
<1> SUFFICES ASSUME NEW E \in SUBSET Blocks, Peel!Stuck(R, E), b \notin E
             PROVE  FALSE
  BY DEF Peel!PeelClosure
<1>1. D \subseteq E
  BY DEF Peel!PeelClosure
<1>2. PICK s \in R : Neighbours[s] \ D = {b}
  BY DEF Peel!Peelable
<1>3. Neighbours[s] \ E = {b}
  BY <1>1, <1>2
<1> QED
  BY <1>3 DEF Peel!Stuck, Peel!Peelable

\* More droplets, more blocks.
LEMMA ClosureMonotone ==
  ASSUME NEW R, NEW s
  PROVE  Peel!PeelClosure(R) \subseteq Peel!PeelClosure(R \cup {s})
<1>1. ASSUME NEW D, Peel!Stuck(R \cup {s}, D) PROVE Peel!Stuck(R, D)
  BY <1>1 DEF Peel!Stuck, Peel!Peelable
<1> QED
  BY <1>1 DEF Peel!PeelClosure

\* The decoded blocks are always some of those peeling can reach.
InClosure == decoded \subseteq Peel!PeelClosure(seen)

LEMMA ClosureStep ==
  ASSUME IInv, InClosure, [Peel!PeelNext]_(Peel!peelVars)
  PROVE  InClosure'
<1>0. seen \in SUBSET Seeds /\ decoded \in SUBSET Blocks
  BY DEF IInv, TypeInv, TypeOK
<1>1. ASSUME NEW s \in Seeds, Peel!Receive(s) PROVE InClosure'
  <2>1. seen' = seen \cup {s} /\ decoded \subseteq Peel!PeelClosure(seen \cup {s})
        /\ seen \cup {s} \in SUBSET Seeds
    BY <1>0, <1>1, ClosureMonotone DEF Peel!Receive, InClosure
  <2>2. CASE UNCHANGED decoded
    BY <2>1, <2>2 DEF InClosure, Peel!PeelClosure, Peel!Stuck, Peel!Peelable
  <2>3. ASSUME NEW b \in Blocks, Neighbours[s] \ decoded = {b}, decoded' = decoded \cup {b}
        PROVE  InClosure'
    <3>1. Peel!Peelable(b, seen \cup {s}, decoded)
      BY <2>3 DEF Peel!Peelable
    <3>2. decoded \cup {b} \subseteq Peel!PeelClosure(seen \cup {s})
      BY <2>1, <3>1, ClosureGrows
    <3> QED
      BY <2>1, <2>3, <3>2 DEF InClosure, Peel!PeelClosure, Peel!Stuck, Peel!Peelable
  <2> QED
    BY <1>1, <2>2, <2>3 DEF Peel!Receive
<1>2. ASSUME NEW b \in Blocks, Peel!Recover(b) PROVE InClosure'
  <2>1. decoded \cup {b} \subseteq Peel!PeelClosure(seen)
    BY <1>0, <1>2, ClosureGrows DEF Peel!Recover, InClosure
  <2> QED
    BY <1>2, <2>1 DEF Peel!Recover, InClosure, Peel!PeelClosure, Peel!Stuck, Peel!Peelable
<1>3. CASE UNCHANGED <<seen, decoded>>
  BY <1>3 DEF InClosure, Peel!PeelClosure, Peel!Stuck, Peel!Peelable
<1> QED
  BY <1>1, <1>2, <1>3 DEF Peel!PeelNext, Peel!Settle, Peel!peelVars

\* When a call has returned, the decoder knows exactly the peeling closure of
\* the droplets ingested, in whatever order they came.
THEOREM Settled == Spec => []SettledAtClosure
<1>1. Init => InClosure
  BY DEF Init, InClosure
<1>2. IInv /\ InClosure /\ [Next]_decoderVars => InClosure'
  BY StepPeels, ClosureStep
<1>3. IInv /\ InClosure => SettledAtClosure
  <2> SUFFICES ASSUME IInv, InClosure, stack = <<>>
               PROVE  decoded = Peel!PeelClosure(seen)
    BY DEF SettledAtClosure
  <2>1. \A s \in Seeds : \A n \in Blocks : ~InFlight(s, n)
    BY DEF InFlight
  <2>2. Peel!Stuck(seen, decoded) /\ decoded \in SUBSET Blocks
    BY <2>1, NothingInFlight DEF IInv, TypeInv, TypeOK
  <2> QED
    BY <2>2 DEF InClosure, Peel!PeelClosure
<1> QED
  BY <1>1, <1>2, <1>3, Invariance, PTL DEF Spec

\* No droplet delivered is dropped between the buffer, the replay and ingest.
THEOREM Delivered == Spec => NothingDropped
<1>1. TypeOK /\ [Next]_decoderVars => [Heard \subseteq Heard']_decoderVars
  <2> SUFFICES ASSUME TypeOK, Next PROVE Heard \subseteq Heard'
    BY DEF decoderVars
  <2>0. earlyBuffer \in Seq(Packets) /\ replay \in Seq(Packets)
    BY DEF TypeOK
  <2>1. ASSUME NEW p \in Packets, Ingest(p)
        PROVE  seen \subseteq seen' /\ p.seed \in seen'
    BY <2>1 DEF Ingest
  <2>2. ASSUME NEW p \in Packets, BufferEarly(p) PROVE Heard \subseteq Heard'
    BY <2>0, <2>2 DEF BufferEarly, Heard
  <2>3. ASSUME NEW p \in Packets, AddDroplet(p) PROVE Heard \subseteq Heard'
    BY <2>0, <2>1, <2>3 DEF AddDroplet, Heard
  <2>4. CASE SetBlockCount
    BY <2>0, <2>4 DEF SetBlockCount, Heard, Idle
  <2>5. CASE ReplayEarly
    <3>1. Head(replay) \in Packets /\ Tail(replay) \in Seq(Packets)
          /\ Len(replay) \in Nat \ {0} /\ Head(replay) = replay[1]
      BY <2>0, <2>5 DEF ReplayEarly
    <3>2. seen \subseteq seen' /\ replay[1].seed \in seen'
      BY <2>1, <2>5, <3>1 DEF ReplayEarly
    <3>3. \A i \in DOMAIN replay \ {1} :
            i - 1 \in DOMAIN Tail(replay) /\ Tail(replay)[i - 1] = replay[i]
      BY <2>0, <3>1
    <3>4. ASSUME NEW i \in DOMAIN replay PROVE replay[i].seed \in Heard'
      BY <2>5, <3>2, <3>3 DEF ReplayEarly, Heard
    <3> QED
      BY <2>5, <3>2, <3>4 DEF ReplayEarly, Heard
  <2>6. CASE PopQueue \/ Return \/ \E s \in Seeds : Visit(s)
    BY <2>6 DEF PopQueue, Return, Visit, Heard
  <2> QED
    BY <2>2, <2>3, <2>4, <2>5, <2>6 DEF Next, Run, Call
<1> QED
  BY <1>1, TypeCorrect, PTL DEF Spec, NothingDropped

-----------------------------------------------------------------------------
(***************************************************************************)
(* MobileCoder                                                             *)
(***************************************************************************)
\* The parts of a sequence that a walk takes and adds.
LEMMA HeadAndTail ==
  ASSUME NEW S, NEW s \in Seq(S), s /= <<>>
  PROVE  /\ Head(s) \in S /\ Tail(s) \in Seq(S)
         /\ ToSet(s) \subseteq ToSet(Tail(s)) \union {Head(s)}
<1>1. /\ Head(s) = s[1] /\ Tail(s) \in Seq(S) /\ Len(Tail(s)) = Len(s) - 1 /\ Len(s) \in Nat
      /\ \A i \in 1..(Len(s) - 1) : Tail(s)[i] = s[i + 1]
  OBVIOUS
<1>2. ASSUME NEW i \in DOMAIN s PROVE s[i] \in ToSet(Tail(s)) \union {Head(s)}
  <2>1. CASE i = 1
    BY <1>1, <2>1
  <2>2. CASE i /= 1
    <3>1. i - 1 \in DOMAIN Tail(s) /\ Tail(s)[i - 1] = s[i]
      BY <1>1, <2>2
    <3> QED
      BY <3>1 DEF ToSet
  <2> QED
    BY <2>1, <2>2
<1>3. Head(s) \in S
  OBVIOUS
<1> QED
  BY <1>1, <1>2, <1>3 DEF ToSet

\* A list that an element is added to.
LEMMA OneAdded ==
  ASSUME NEW S, NEW s \in Seq(S), NEW x \in S
  PROVE  /\ Append(s, x) \in Seq(S)
         /\ ToSet(Append(s, x)) = ToSet(s) \union {x}
<1>1. /\ Append(s, x) \in Seq(S) /\ Len(s) \in Nat /\ DOMAIN s = 1..Len(s)
      /\ DOMAIN Append(s, x) = 1..Len(s) + 1
      /\ \A i \in DOMAIN s : Append(s, x)[i] = s[i]
      /\ Append(s, x)[Len(s) + 1] = x
  OBVIOUS
<1>2. ToSet(s) \union {x} \subseteq ToSet(Append(s, x))
  BY <1>1 DEF ToSet
<1>3. ToSet(Append(s, x)) \subseteq ToSet(s) \union {x}
  BY <1>1 DEF ToSet
<1> QED
  BY <1>1, <1>2, <1>3

\* The running activation is replaced, and another one put over it.
LEMMA OneReplaced ==
  ASSUME NEW W, NEW s \in Seq(W), s /= <<>>, NEW w \in W, NEW v \in W,
         NEW n, n = Len(s), NEW o, o = SubSeq(s, 1, Len(s) - 1)
  PROVE  /\ n \in Nat \ {0} /\ DOMAIN s = 1..n /\ s[n] \in W
         /\ o \in Seq(W) /\ DOMAIN o = 1..(n - 1) /\ \A i \in 1..(n - 1) : o[i] = s[i]
         /\ Append(o, w) \in Seq(W) /\ DOMAIN Append(o, w) = 1..n
         /\ Append(o, w)[n] = w /\ \A i \in 1..(n - 1) : Append(o, w)[i] = s[i]
         /\ Append(Append(o, w), v) \in Seq(W) /\ DOMAIN Append(Append(o, w), v) = 1..(n + 1)
         /\ Append(Append(o, w), v)[n + 1] = v /\ Append(Append(o, w), v)[n] = w
         /\ \A i \in 1..(n - 1) : Append(Append(o, w), v)[i] = s[i]
<1>1. n \in Nat \ {0} /\ DOMAIN s = 1..n /\ s[n] \in W
  OBVIOUS
<1>2. o \in Seq(W) /\ Len(o) = n - 1 /\ \A i \in 1..(n - 1) : o[i] = s[i]
  BY <1>1
<1>3. DOMAIN o = 1..(n - 1)
  BY <1>2
<1>4. /\ Append(o, w) \in Seq(W) /\ Len(Append(o, w)) = n /\ Append(o, w)[n] = w
      /\ \A i \in 1..(n - 1) : Append(o, w)[i] = s[i]
  BY <1>1, <1>2
<1>5. DOMAIN Append(o, w) = 1..n
  BY <1>4
<1>6. /\ Append(Append(o, w), v) \in Seq(W) /\ Len(Append(Append(o, w), v)) = n + 1
      /\ Append(Append(o, w), v)[n + 1] = v /\ Append(Append(o, w), v)[n] = w
      /\ \A i \in 1..(n - 1) : Append(Append(o, w), v)[i] = s[i]
  BY <1>1, <1>4
<1>7. DOMAIN Append(Append(o, w), v) = 1..(n + 1)
  BY <1>6
<1> QED
  BY <1>1, <1>2, <1>3, <1>4, <1>5, <1>6, <1>7

\* No two blocks are cut to the same one.
LEMMA PaddedDiffer == \A b, c \in Indices : Padded(b) = Padded(c) => b = c
BY FramesCover DEF Padded, Indices

\* XORing known blocks out of data that they are in leaves the others.
LEMMA XorExact ==
  ASSUME NEW P \in SUBSET Indices, NEW S \in SUBSET P, \A b \in S : blockOf[b] = {Padded(b)}
  PROVE  Xor({Padded(b) : b \in P}, S) = {Padded(b) : b \in P \ S}
<1> DEFINE Odd(x) == Cardinality({b \in S : x \in blockOf[b]}) % 2 = 1
<1>1. ASSUME NEW b \in S PROVE Odd(Padded(b))
  <2>1. {c \in S : Padded(b) \in blockOf[c]} = {b}
    BY PaddedDiffer
  <2>2. Cardinality({c \in S : Padded(b) \in blockOf[c]}) = 1
    BY <2>1, FS_Singleton, Zenon
  <2> QED
    BY <2>2
<1>2. ASSUME NEW x, \A b \in S : x /= Padded(b) PROVE ~Odd(x)
  <2>1. {b \in S : x \in blockOf[b]} = {}
    BY <1>2
  <2>2. Cardinality({b \in S : x \in blockOf[b]}) = 0
    BY <2>1, FS_EmptySet, Zenon
  <2> QED
    BY <2>2
<1>3. \A b \in P : Padded(b) \in 0..TotalBlocks
  BY FramesCover DEF Padded, Indices
<1>4. \A b \in P \ S, c \in S : Padded(b) /= Padded(c)
  BY PaddedDiffer
<1> HIDE DEF Odd
<1>5. ASSUME NEW x \in 0..TotalBlocks
      PROVE  x \in Xor({Padded(b) : b \in P}, S) <=> x \in {Padded(b) : b \in P \ S}
  <2>1. CASE \E b \in S : x = Padded(b)
    <3>1. Odd(x) /\ x \in {Padded(b) : b \in P}
      BY <1>1, <2>1
    <3>2. x \notin {Padded(b) : b \in P \ S}
      BY <1>4, <2>1
    <3>3. x \notin Xor({Padded(b) : b \in P}, S)
      BY <3>1 DEF Xor, Odd
    <3> QED
      BY <3>2, <3>3
  <2>2. CASE \A b \in S : x /= Padded(b)
    <3>1. ~Odd(x)
      BY <1>2, <2>2
    <3>2. x \in {Padded(b) : b \in P} <=> x \in {Padded(b) : b \in P \ S}
      BY <2>2
    <3>3. x \in Xor({Padded(b) : b \in P}, S) <=> x \in {Padded(b) : b \in P}
      BY <3>1 DEF Xor, Odd
    <3> QED
      BY <3>2, <3>3
  <2> QED
    BY <2>1, <2>2
<1> QED
  BY <1>3, <1>5 DEF Xor

\* XOR makes a set of blocks.
LEMMA XorType == ASSUME NEW data, NEW S PROVE Xor(data, S) \in Data
BY DEF Xor, Data

-----------------------------------------------------------------------------
\* What peeling reaches of more frames is no less, and a block that a frame
\* lacks besides reached ones is reached.
LEMMA CoderClosureGrows ==
  ASSUME NEW R \in SUBSET FrameSeeds, NEW seed \in FrameSeeds
  PROVE  CoderPeel!PeelClosure(R) \subseteq CoderPeel!PeelClosure(R \union {seed})
<1>1. \A D \in SUBSET Indices : CoderPeel!Stuck(R \union {seed}, D) => CoderPeel!Stuck(R, D)
  BY DEF CoderPeel!Stuck, CoderPeel!Peelable
<1> QED
  BY <1>1 DEF CoderPeel!PeelClosure

\* A block that a frame lacks besides reached ones is reached.
LEMMA CoderClosurePeels ==
  ASSUME NEW R \in SUBSET FrameSeeds, NEW seed \in R, NEW D \in SUBSET CoderPeel!PeelClosure(R),
         NEW b \in Indices, Cover[seed] \ D = {b}
  PROVE  D \union {b} \subseteq CoderPeel!PeelClosure(R)
<1>1. ASSUME NEW E \in SUBSET Indices, CoderPeel!Stuck(R, E) PROVE b \in E
  <2>1. D \subseteq E
    BY <1>1 DEF CoderPeel!PeelClosure
  <2>2. b \notin E => Cover[seed] \ E = {b}
    BY <2>1
  <2> QED
    BY <1>1, <2>2 DEF CoderPeel!Stuck, CoderPeel!Peelable
<1> QED
  BY <1>1 DEF CoderPeel!PeelClosure

-----------------------------------------------------------------------------
EdgeNumbers == 1..Len(edge)
EdgeType == [rem : SUBSET Indices, data : Data]
WalkType(numbers) == [block : Indices, rest : Seq(numbers), kept : Seq(numbers)]
CoderTypeOK ==
  /\ blockOf \in [Indices -> Data \union {Unknown}]
  /\ resolved \in Nat
  /\ edge \in Seq(EdgeType)
  /\ edges \in Seq(EdgeNumbers)
  /\ walks \in Seq(WalkType(EdgeNumbers))
  /\ running \in BOOLEAN
  /\ received \subseteq FrameSeeds

\* Blocks are as they were cut, and counted once; an edge holds its blocks.
BlocksExact ==
  /\ \A b \in Known : blockOf[b] = {Padded(b)}
  /\ resolved = Cardinality(Known)
EdgesExact == \A e \in EdgeNumbers : edge[e].data = {Padded(b) : b \in edge[e].rem}
PayloadsExact == \A p \in payloads : \A b \in Indices : p[b] = {Padded(b)}

\* An edge of two blocks or more is in every list, and each known block of it
\* is the block of some activation that has not come to it.
Listed(e) == e \in ToSet(edges) /\ \A i \in DOMAIN walks : e \in ToSet(walks[i].rest) \union ToSet(walks[i].kept)
Due(e, b) == \E i \in DOMAIN walks : walks[i].block = b /\ e \in ToSet(walks[i].rest)
EdgesDue ==
  \A e \in EdgeNumbers : \A b, c \in edge[e].rem : b /= c => Listed(e) /\ (b \in Known => Due(e, b))
NoneSingle == \A e \in EdgeNumbers : \A b \in Indices : edge[e].rem = {b} => b \in Known

\* A frame is used up or has an edge, and an edge is of a frame.
Stems(e, seed) == edge[e].rem \subseteq Cover[seed] /\ Cover[seed] \ Known \subseteq edge[e].rem
FramesKept == /\ \A seed \in received : Cover[seed] \subseteq Known \/ \E e \in EdgeNumbers : Stems(e, seed)
              /\ \A e \in EdgeNumbers : \E seed \in received : Stems(e, seed)
KnownReached == Known \subseteq CoderPeel!PeelClosure(received)

\* What runs, and what has ended.
CallsFollow == /\ \A i \in DOMAIN walks : walks[i].block \in Known
               /\ walks /= <<>> => running
               /\ ~running => resolved /= TotalBlocks
CoderInv == /\ CoderTypeOK /\ BlocksExact /\ EdgesExact /\ PayloadsExact
            /\ EdgesDue /\ NoneSingle /\ FramesKept /\ KnownReached /\ CallsFollow

\* The blocks are TotalBlocks in number.
LEMMA KnownFinite == IsFiniteSet(Known) /\ Cardinality(Known) \in Nat /\ (Known /= Indices => Cardinality(Known) /= TotalBlocks)
                     /\ (Known = Indices => Cardinality(Known) = TotalBlocks)
<1>1. IsFiniteSet(Indices) /\ Cardinality(Indices) = TotalBlocks
  BY FramesCover, FS_Interval DEF Indices
<1>2. Known \in SUBSET Indices
  BY DEF Known
<1>3. IsFiniteSet(Known) /\ (Cardinality(Indices) = Cardinality(Known) => Indices = Known)
  BY <1>1, <1>2, FS_Subset
<1> QED
  BY <1>1, <1>3, FS_CardinalityType

\* A decoder with nothing in it.
Empty == /\ blockOf = NoBlocks /\ resolved = 0 /\ edge = <<>> /\ edges = <<>> /\ received = {} /\ walks = <<>>
         /\ running = FALSE /\ PayloadsExact
\* It keeps the invariant.
LEMMA NothingFits == Empty => CoderInv
<1> SUFFICES ASSUME Empty PROVE CoderInv
  OBVIOUS
<1>1. Known = {}
  BY DEF Known, NoBlocks, Empty
<1>2. Cardinality(Known) = 0
  BY <1>1, FS_EmptySet
<1>3. EdgeNumbers = {}
  BY DEF EdgeNumbers, Empty
<1>4. CoderTypeOK
  <2>1. \A S : <<>> \in Seq(S)
    OBVIOUS
  <2>2. blockOf \in [Indices -> Data \union {Unknown}]
    BY DEF Empty, NoBlocks
  <2> QED
    BY <2>1, <2>2, Zenon DEF CoderTypeOK, Empty
<1>5. BlocksExact /\ KnownReached
  BY <1>1, <1>2, Zenon DEF BlocksExact, KnownReached, Empty
<1>6. EdgesExact /\ EdgesDue /\ NoneSingle
  BY <1>3 DEF EdgesExact, EdgesDue, NoneSingle
<1>7. FramesKept
  BY <1>3 DEF FramesKept, Empty
<1>8. CallsFollow
  BY FramesCover DEF CallsFollow, Empty
<1> QED
  BY <1>4, <1>5, <1>6, <1>7, <1>8 DEF CoderInv, Empty

\* A new decoder has nothing in it.
LEMMA CoderInitInv == CoderInit => CoderInv
BY NothingFits DEF CoderInit, Empty, PayloadsExact

\* Nor has one that was reset.
LEMMA ResetStep == ASSUME CoderInv, Reset PROVE CoderInv'
<1>1. Empty'
  BY DEF CoderInv, CallsFollow, CoderTypeOK, PayloadsExact, Reset, Dropped, Empty, NoBlocks
<1>2. Empty' => CoderInv'
  BY NothingFits, PTL
<1> QED
  BY <1>1, <1>2

\* The payload is given out with every block of it known.
LEMMA FrameEndsStep == ASSUME CoderInv, FrameEnds PROVE CoderInv'
<1>1. CASE resolved = TotalBlocks
  <2>1. Known = Indices
    BY <1>1, KnownFinite DEF CoderInv, BlocksExact
  <2>2. PayloadsExact'
    BY <1>1, <2>1 DEF CoderInv, BlocksExact, PayloadsExact, FrameEnds
  <2>3. Empty'
    BY <1>1, <2>2 DEF FrameEnds, Dropped, Empty, NoBlocks
  <2>4. Empty' => CoderInv'
    BY NothingFits, PTL
  <2> QED
    BY <2>3, <2>4
<1>2. CASE resolved /= TotalBlocks
  <2>1. UNCHANGED <<decodeVars, walks, received, payloads>> /\ running' = FALSE /\ walks = <<>>
    BY <1>2 DEF FrameEnds
  <2>2. CoderTypeOK' /\ BlocksExact' /\ EdgesExact' /\ PayloadsExact' /\ NoneSingle'
    BY <2>1 DEF decodeVars, CoderInv, CoderTypeOK, EdgeNumbers, BlocksExact, EdgesExact, PayloadsExact, NoneSingle, Known
  <2>3. EdgesDue' /\ FramesKept' /\ KnownReached'
    BY <2>1 DEF decodeVars, CoderInv, EdgesDue, EdgeNumbers, Listed, Due, Known, FramesKept, KnownReached, Stems
  <2>4. CallsFollow'
    BY <1>2, <2>1 DEF decodeVars, CallsFollow
  <2> QED
    BY <2>2, <2>3, <2>4 DEF CoderInv
<1> QED
  BY <1>1, <1>2

-----------------------------------------------------------------------------
\* A walk that ends has kept every edge that lists still need: the block it
\* was for is in none of them.
LEMMA WalkEndsStep == ASSUME CoderInv, WalkEnds PROVE CoderInv'
<1> DEFINE n == Len(walks)
           W == WalkType(EdgeNumbers)
<1>1. /\ n \in Nat \ {0} /\ DOMAIN walks = 1..n /\ walks[n] \in W /\ walks[n].rest = <<>>
      /\ walks' \in Seq(W) /\ DOMAIN walks' = 1..(n - 1) /\ \A i \in 1..(n - 1) : walks'[i] = walks[i]
  <2>1. walks \in Seq(W) /\ walks /= <<>> /\ walks' = Outer /\ walks[n].rest = <<>>
    BY DEF CoderInv, CoderTypeOK, WalkEnds, Walking
  <2> HIDE DEF W
  <2>2. walks[n] \in W
    BY <2>1
  <2> QED
    BY <2>1, <2>2, OneReplaced DEF Outer
<1>2. /\ edges' = walks[n].kept /\ edges' \in Seq(EdgeNumbers)
      /\ UNCHANGED <<blockOf, resolved, edge, running, received, payloads>>
  BY <1>1 DEF WalkEnds, Walking, WalkType
<1>3. EdgeNumbers' = EdgeNumbers /\ Known' = Known
  BY <1>2 DEF EdgeNumbers, Known
<1>4. CoderTypeOK'
  <2>1. walks' \in Seq(WalkType(EdgeNumbers'))
    BY <1>1, <1>3
  <2> QED
    BY <1>2, <1>3, <2>1 DEF CoderInv, CoderTypeOK
<1>5. EdgesDue'
  <2> SUFFICES ASSUME NEW f \in EdgeNumbers, NEW b \in edge[f].rem, NEW c \in edge[f].rem, b /= c
               PROVE  Listed(f)' /\ (b \in Known => Due(f, b)')
    BY <1>2, <1>3 DEF EdgesDue
  <2>1. Listed(f) /\ (b \in Known => Due(f, b))
    BY DEF CoderInv, EdgesDue
  <2>2. f \notin ToSet(walks[n].rest)
    BY <1>1 DEF ToSet
  <2>3. f \in ToSet(edges')
    BY <1>1, <1>2, <2>1, <2>2 DEF Listed
  <2>4. Listed(f)'
    BY <1>1, <2>1, <2>3 DEF Listed
  <2>5. b \in Known => Due(f, b)'
    <3> SUFFICES ASSUME b \in Known PROVE Due(f, b)'
      OBVIOUS
    <3>1. PICK i \in 1..n : walks[i].block = b /\ f \in ToSet(walks[i].rest)
      BY <1>1, <2>1 DEF Due
    <3>2. i \in 1..(n - 1)
      BY <1>1, <2>2, <3>1
    <3> QED
      BY <1>1, <3>1, <3>2 DEF Due
  <2> QED
    BY <2>4, <2>5
<1>6. CallsFollow'
  BY <1>1, <1>2, <1>3 DEF CoderInv, CallsFollow
<1>7. BlocksExact' /\ EdgesExact' /\ PayloadsExact' /\ NoneSingle'
  BY <1>2, <1>3 DEF CoderInv, BlocksExact, EdgesExact, PayloadsExact, NoneSingle
<1>8. FramesKept' /\ KnownReached'
  BY <1>2, <1>3 DEF CoderInv, FramesKept, KnownReached, Stems
<1> QED
  BY <1>4, <1>5, <1>6, <1>7, <1>8 DEF CoderInv

-----------------------------------------------------------------------------
NewWalk(b) == [block |-> b, rest |-> edges, kept |-> <<>>]

\* What a step of the running activation does to the activations.
LEMMA WalksChange ==
  ASSUME CoderInv, walks /= <<>>, NEW n, n = Len(walks), NEW w \in WalkType(EdgeNumbers),
         \/ walks' = Append(Outer, w)
         \/ \E i \in Indices : walks' = Append(Append(Outer, w), NewWalk(i))
  PROVE  /\ n \in Nat \ {0} /\ DOMAIN walks = 1..n /\ walks[n] \in WalkType(EdgeNumbers)
         /\ walks' \in Seq(WalkType(EdgeNumbers)) /\ 1..n \subseteq DOMAIN walks'
         /\ walks'[n] = w /\ \A i \in 1..(n - 1) : walks'[i] = walks[i]
         /\ walks' = Append(Outer, w) => DOMAIN walks' = 1..n
         /\ \A i \in Indices : walks' = Append(Append(Outer, w), NewWalk(i)) =>
              DOMAIN walks' = 1..(n + 1) /\ walks'[n + 1] = NewWalk(i)
<1> DEFINE W == WalkType(EdgeNumbers)
<1>1. walks \in Seq(W) /\ w \in W /\ \A i \in Indices : NewWalk(i) \in W
  BY DEF CoderInv, CoderTypeOK, WalkType, NewWalk
<1> HIDE DEF W
<1>2. walks[n] \in W
  BY <1>1
<1>3. CASE walks' = Append(Outer, w)
  <2>1. \A i \in Indices : walks' = Append(Append(Outer, w), NewWalk(i)) =>
          DOMAIN walks' = 1..(n + 1) /\ walks'[n + 1] = NewWalk(i)
    BY <1>1, <1>2, OneReplaced DEF Outer
  <2> QED
    BY <1>1, <1>2, <1>3, <2>1, OneReplaced DEF W, Outer
<1>4. ASSUME NEW i \in Indices, walks' = Append(Append(Outer, w), NewWalk(i))
      PROVE  /\ n \in Nat \ {0} /\ DOMAIN walks = 1..n /\ walks' \in Seq(W) /\ DOMAIN walks' = 1..(n + 1)
             /\ walks'[n] = w /\ walks'[n + 1] = NewWalk(i) /\ \A j \in 1..(n - 1) : walks'[j] = walks[j]
  BY <1>1, <1>2, <1>4, OneReplaced DEF Outer
<1>5. walks' = Append(Outer, w) => DOMAIN walks' = 1..n
  BY <1>1, <1>2, OneReplaced DEF Outer
<1> QED
  BY <1>2, <1>3, <1>4, <1>5 DEF W

\* A step of the walk that leaves edge e out of its list only when e is used up
\* keeps every edge due, also one that a nested call is made in.
LEMMA EdgesStayDue ==
  ASSUME CoderInv, walks /= <<>>, NEW n, n = Len(walks), NEW e \in EdgeNumbers, NEW w \in WalkType(EdgeNumbers),
         w.block = walks[n].block,
         ToSet(walks[n].rest) \subseteq ToSet(w.rest) \union {e}, ToSet(walks[n].kept) \subseteq ToSet(w.kept),
         edges' = edges, EdgeNumbers' = EdgeNumbers,
         \A f \in EdgeNumbers : edge'[f].rem \subseteq edge[f].rem,
         w.block \notin edge'[e].rem,
         e \in ToSet(w.kept) \/ \A b, c \in edge'[e].rem : b = c,
         \/ Known' = Known /\ walks' = Append(Outer, w)
         \/ \E i \in Indices : Known' = Known \union {i} /\ walks' = Append(Append(Outer, w), NewWalk(i))
  PROVE  EdgesDue'
<1>1. /\ n \in Nat \ {0} /\ DOMAIN walks = 1..n /\ 1..n \subseteq DOMAIN walks'
      /\ walks'[n] = w /\ \A i \in 1..(n - 1) : walks'[i] = walks[i]
      /\ walks' = Append(Outer, w) => DOMAIN walks' = 1..n
      /\ \A i \in Indices : walks' = Append(Append(Outer, w), NewWalk(i)) =>
           DOMAIN walks' = 1..(n + 1) /\ walks'[n + 1] = NewWalk(i)
  BY WalksChange
<1> SUFFICES ASSUME NEW f \in EdgeNumbers, NEW b \in edge'[f].rem, NEW c \in edge'[f].rem, b /= c
             PROVE  Listed(f)' /\ (b \in Known' => Due(f, b)')
  BY DEF EdgesDue
<1>2. b \in edge[f].rem /\ Listed(f) /\ (b \in Known => Due(f, b))
  BY DEF CoderInv, EdgesDue
<1>3. f \in ToSet(edges)
  BY <1>2 DEF Listed
<1>4. f = e => e \in ToSet(w.kept)
  OBVIOUS
<1>5. f \in ToSet(w.rest) \union ToSet(w.kept)
  BY <1>1, <1>2, <1>4 DEF Listed
<1>6. \A j \in DOMAIN walks' : f \in ToSet(walks'[j].rest) \union ToSet(walks'[j].kept)
  <2> SUFFICES ASSUME NEW j \in DOMAIN walks' PROVE f \in ToSet(walks'[j].rest) \union ToSet(walks'[j].kept)
    OBVIOUS
  <2>1. CASE j \in 1..(n - 1)
    BY <1>1, <1>2, <2>1 DEF Listed
  <2>2. CASE j = n
    BY <1>1, <1>5, <2>2
  <2>3. CASE j \notin 1..n
    <3>1. PICK i \in Indices : walks' = Append(Append(Outer, w), NewWalk(i))
      BY <1>1, <2>3
    <3>2. walks'[n + 1] = NewWalk(i) /\ DOMAIN walks' = 1..(n + 1)
      BY <1>1, <3>1
    <3>3. j = n + 1
      BY <1>1, <2>3, <3>2
    <3>4. walks'[j].rest = edges
      BY <3>2, <3>3 DEF NewWalk
    <3> QED
      BY <1>3, <3>4
  <2> QED
    BY <1>1, <2>1, <2>2, <2>3
<1>7. ASSUME b \in Known' PROVE Due(f, b)'
  <2>1. CASE b \in Known
    <3>1. PICK i \in 1..n : walks[i].block = b /\ f \in ToSet(walks[i].rest)
      BY <1>1, <1>2, <2>1 DEF Due
    <3>2. CASE i = n
      <4>1. f \in ToSet(w.rest)
        BY <3>1, <3>2
      <4> QED
        BY <1>1, <3>1, <3>2, <4>1 DEF Due
    <3>3. CASE i /= n
      BY <1>1, <3>1, <3>3 DEF Due
    <3> QED
      BY <3>2, <3>3
  <2>2. CASE b \notin Known
    <3>1. PICK i \in Indices : b = i /\ walks' = Append(Append(Outer, w), NewWalk(i))
      BY <1>7, <2>2
    <3>2. n + 1 \in DOMAIN walks' /\ walks'[n + 1].block = b /\ walks'[n + 1].rest = edges
      BY <1>1, <3>1 DEF NewWalk
    <3> QED
      BY <1>3, <3>2 DEF Due
  <2> QED
    BY <2>1, <2>2
<1> QED
  BY <1>3, <1>6, <1>7 DEF Listed

\* An edge that loses a known block is still of the frames it was of.
LEMMA FramesStay ==
  ASSUME CoderInv, NEW e \in EdgeNumbers, NEW b \in Known, EdgeNumbers' = EdgeNumbers, received' = received,
         Known \subseteq Known', \A f \in EdgeNumbers \ {e} : edge'[f].rem = edge[f].rem,
         edge'[e].rem = edge[e].rem \ {b}
  PROVE  FramesKept'
<1>1. \A f \in EdgeNumbers, seed \in received : Stems(f, seed) => Stems(f, seed)'
  BY DEF Stems
<1> QED
  BY <1>1 DEF CoderInv, FramesKept

-----------------------------------------------------------------------------
\* A block that a frame lacks besides known ones is recovered as it was cut.
LEMMA RecoverFits ==
  ASSUME CoderInv, NEW i \in Indices \ Known, NEW data, data = {Padded(i)},
         blockOf' = [blockOf EXCEPT ![i] = data], resolved' = resolved + 1,
         received' \subseteq FrameSeeds, Known \subseteq CoderPeel!PeelClosure(received'),
         NEW seed \in received', Cover[seed] \ Known = {i}
  PROVE  /\ Known' = Known \union {i} /\ BlocksExact' /\ KnownReached'
         /\ blockOf' \in [Indices -> Data \union {Unknown}] /\ resolved' \in Nat
<1>1. data \in Data /\ data /= Unknown
  BY FramesCover DEF Data, Padded, Indices
<1>2. blockOf' \in [Indices -> Data \union {Unknown}] /\ resolved' \in Nat
  BY <1>1 DEF CoderInv, CoderTypeOK
<1>3. /\ blockOf'[i] = data /\ \A b \in Indices \ {i} : blockOf'[b] = blockOf[b]
  BY DEF CoderInv, CoderTypeOK
<1>4. Known' = Known \union {i}
  BY <1>1, <1>3 DEF Known
<1>5. Cardinality(Known \union {i}) = Cardinality(Known) + 1
  BY KnownFinite, FS_AddElement
<1>6. BlocksExact'
  <2>1. resolved' = Cardinality(Known')
    BY <1>4, <1>5, Zenon DEF CoderInv, BlocksExact
  <2>2. \A b \in Known' : blockOf'[b] = {Padded(b)}
    BY <1>3, <1>4 DEF CoderInv, BlocksExact, Known
  <2> QED
    BY <2>1, <2>2 DEF BlocksExact
<1>7. KnownReached'
  BY <1>4, CoderClosurePeels DEF KnownReached
<1> QED
  BY <1>2, <1>4, <1>6, <1>7

\* One edge of the list is reduced, recovered from, or kept.
LEMMA WalkOnStep == ASSUME CoderInv, WalkOn PROVE CoderInv'
<1>1. PICK n : n = Len(walks)
  OBVIOUS
<1>2. PICK v : v = walks[n]
  OBVIOUS
<1>3. v \in WalkType(EdgeNumbers) /\ walks /= <<>> /\ Walking = v /\ v.rest /= <<>> /\ n \in Nat \ {0} /\ DOMAIN walks = 1..n
  <2>1. walks \in Seq(WalkType(EdgeNumbers)) /\ walks /= <<>> /\ Walking = v /\ v.rest /= <<>>
    BY <1>1, <1>2 DEF CoderInv, CoderTypeOK, WalkOn, Walking
  <2> QED
    BY <1>1, <1>2, <2>1
<1>4. PICK e : e = Head(v.rest)
  OBVIOUS
<1>5. PICK b : b = v.block
  OBVIOUS
<1>6. /\ e \in EdgeNumbers /\ Tail(v.rest) \in Seq(EdgeNumbers)
      /\ ToSet(v.rest) \subseteq ToSet(Tail(v.rest)) \union {e}
      /\ v.kept \in Seq(EdgeNumbers) /\ Append(v.kept, e) \in Seq(EdgeNumbers)
      /\ ToSet(Append(v.kept, e)) = ToSet(v.kept) \union {e}
  <2>1. v.rest \in Seq(EdgeNumbers) /\ v.kept \in Seq(EdgeNumbers) /\ v.rest /= <<>>
    BY <1>3 DEF WalkType
  <2>2. /\ e \in EdgeNumbers /\ Tail(v.rest) \in Seq(EdgeNumbers)
        /\ ToSet(v.rest) \subseteq ToSet(Tail(v.rest)) \union {e}
    BY <1>4, <2>1, HeadAndTail
  <2> QED
    BY <2>1, <2>2, OneAdded
<1>7. b \in Known /\ b \in Indices /\ blockOf[b] = {Padded(b)}
  BY <1>1, <1>2, <1>3, <1>5 DEF CoderInv, CallsFollow, BlocksExact, Known
<1>8. PICK here : here = [v EXCEPT !.rest = Tail(v.rest)]
  OBVIOUS
<1>9. PICK keeps : keeps = [here EXCEPT !.kept = Append(v.kept, e)]
  OBVIOUS
<1>10. /\ here \in WalkType(EdgeNumbers) /\ here.block = b /\ here.rest = Tail(v.rest) /\ here.kept = v.kept
       /\ keeps \in WalkType(EdgeNumbers) /\ keeps.block = b /\ keeps.rest = Tail(v.rest)
       /\ keeps.kept = Append(v.kept, e)
  BY <1>3, <1>5, <1>6, <1>8, <1>9 DEF WalkType
<1>11. keeps = [here EXCEPT !.kept = Append(@, e)] /\ here = [Walking EXCEPT !.rest = Tail(@)]
  BY <1>3, <1>8, <1>9, <1>10 DEF WalkType
<1>12. UNCHANGED <<edges, running, received, frames, payloads>> /\ edges \in Seq(EdgeNumbers) /\ received \subseteq FrameSeeds
  BY DEF WalkOn, CoderInv, CoderTypeOK
<1>13. CASE b \notin edge[e].rem
  <2>1. walks' = Append(Outer, keeps) /\ UNCHANGED <<blockOf, resolved, edge>>
    BY <1>3, <1>4, <1>5, <1>11, <1>13 DEF WalkOn
  <2>2. EdgeNumbers' = EdgeNumbers /\ Known' = Known
    BY <2>1 DEF EdgeNumbers, Known
  <2>3. EdgesDue'
    BY <1>1, <1>2, <1>3, <1>5, <1>6, <1>10, <1>12, <1>13, <2>1, <2>2, EdgesStayDue
  <2>4. DOMAIN walks' = 1..n /\ walks' \in Seq(WalkType(EdgeNumbers)) /\ walks'[n] = keeps
        /\ \A i \in 1..(n - 1) : walks'[i] = walks[i]
    BY <1>1, <1>3, <1>10, <2>1, WalksChange
  <2>5. CoderTypeOK'
    BY <1>12, <2>1, <2>2, <2>4, Zenon DEF CoderInv, CoderTypeOK
  <2>6. CallsFollow'
    <3>1. \A i \in 1..n : walks'[i].block \in Known
      BY <1>3, <1>7, <1>10, <2>4 DEF CoderInv, CallsFollow
    <3> QED
      BY <1>3, <1>12, <2>1, <2>2, <2>4, <3>1 DEF CoderInv, CallsFollow
  <2>7. BlocksExact' /\ EdgesExact' /\ PayloadsExact' /\ NoneSingle'
    BY <1>12, <2>1, <2>2 DEF CoderInv, BlocksExact, EdgesExact, PayloadsExact, NoneSingle
  <2>8. FramesKept' /\ KnownReached'
    BY <1>12, <2>1, <2>2 DEF CoderInv, FramesKept, KnownReached, Stems
  <2> QED
    BY <2>3, <2>5, <2>6, <2>7, <2>8 DEF CoderInv
<1>14. CASE b \in edge[e].rem
  <2>1. PICK rem : rem = edge[e].rem \ {b}
    OBVIOUS
  <2>2. PICK data : data = Xor(edge[e].data, {b})
    OBVIOUS
  <2>3. /\ edge' = [edge EXCEPT ![e] = [rem |-> rem, data |-> data]]
        /\ \/ \E i \in Single(rem) \ Known : Recover(i, data, Append(Outer, here))
           \/ /\ rem = {} \/ Single(rem) \intersect Known /= {}
              /\ walks' = Append(Outer, here) /\ UNCHANGED <<blockOf, resolved>>
           \/ /\ rem /= {} /\ Single(rem) = {}
              /\ walks' = Append(Outer, keeps) /\ UNCHANGED <<blockOf, resolved>>
    BY <1>3, <1>4, <1>5, <1>11, <1>14, <2>1, <2>2 DEF WalkOn
  <2>4. edge \in Seq(EdgeType) /\ edge[e] \in EdgeType
    BY <1>6 DEF CoderInv, CoderTypeOK, EdgeNumbers
  <2>5. rem \in SUBSET Indices /\ rem \subseteq edge[e].rem
    BY <2>1, <2>4 DEF EdgeType
  <2>6. data = {Padded(x) : x \in rem} /\ data \in Data
    <3>1. edge[e].data = {Padded(x) : x \in edge[e].rem} /\ edge[e].rem \in SUBSET Indices
      BY <1>6, <2>4 DEF CoderInv, EdgesExact, EdgeType
    <3>2. {b} \in SUBSET edge[e].rem /\ \A x \in {b} : blockOf[x] = {Padded(x)}
      BY <1>7, <1>14
    <3>3. Xor({Padded(x) : x \in edge[e].rem}, {b}) = {Padded(x) : x \in edge[e].rem \ {b}}
      BY <3>1, <3>2, XorExact
    <3> QED
      BY <2>1, <2>2, <3>1, <3>3, XorType
  <2>7. /\ edge' \in Seq(EdgeType) /\ EdgeNumbers' = EdgeNumbers
        /\ edge'[e].rem = rem /\ edge'[e].data = data
        /\ \A f \in EdgeNumbers \ {e} : edge'[f] = edge[f]
    <3>1. [rem |-> rem, data |-> data] \in EdgeType
      BY <2>5, <2>6 DEF EdgeType
    <3> HIDE DEF EdgeType
    <3>2. edge' \in Seq(EdgeType) /\ Len(edge') = Len(edge) /\ edge'[e] = [rem |-> rem, data |-> data]
      BY <1>6, <2>3, <2>4, <3>1 DEF EdgeNumbers
    <3>3. \A f \in EdgeNumbers \ {e} : edge'[f] = edge[f]
      BY <1>6, <2>3, <2>4 DEF EdgeNumbers
    <3> QED
      BY <3>2, <3>3 DEF EdgeNumbers
  <2>8. EdgesExact'
    BY <2>6, <2>7 DEF CoderInv, EdgesExact
  <2>9. \A f \in EdgeNumbers : edge'[f].rem \subseteq edge[f].rem
    BY <2>5, <2>7
  <2>10. PayloadsExact'
    BY <1>12 DEF CoderInv, PayloadsExact
  <2>11. ASSUME NEW i \in Single(rem) \ Known, Recover(i, data, Append(Outer, here)) PROVE CoderInv'
    <3>1. rem = {i} /\ i \in Indices \ Known
      BY <2>5, <2>11 DEF Single
    <3>2. /\ blockOf' = [blockOf EXCEPT ![i] = data] /\ resolved' = resolved + 1
          /\ walks' = Append(Append(Outer, here), NewWalk(i))
      BY <2>11 DEF Recover, NewWalk
    <3>3. PICK seed \in received : Stems(e, seed)
      BY <1>6 DEF CoderInv, FramesKept
    <3>4. Cover[seed] \ Known = {i}
      BY <1>7, <2>1, <3>1, <3>3 DEF Stems
    <3>5. data = {Padded(i)}
      BY <2>6, <3>1
    <3>6. Known \subseteq CoderPeel!PeelClosure(received') /\ seed \in received' /\ received' \subseteq FrameSeeds
      BY <1>12, <3>3 DEF CoderInv, KnownReached
    <3>7. /\ Known' = Known \union {i} /\ BlocksExact' /\ KnownReached'
          /\ blockOf' \in [Indices -> Data \union {Unknown}] /\ resolved' \in Nat
      BY <3>1, <3>2, <3>4, <3>5, <3>6, RecoverFits
    <3>8. EdgesDue'
      <4>1. \A x, y \in edge'[e].rem : x = y
        BY <2>7, <3>1
      <4>2. \E j \in Indices : Known' = Known \union {j} /\ walks' = Append(Append(Outer, here), NewWalk(j))
        BY <3>1, <3>2, <3>7
      <4> QED
        BY <1>1, <1>2, <1>3, <1>5, <1>6, <1>10, <1>12, <2>1, <2>7, <2>9, <4>1, <4>2, EdgesStayDue
    <3>9. /\ DOMAIN walks' = 1..(n + 1) /\ walks' \in Seq(WalkType(EdgeNumbers)) /\ walks'[n] = here
          /\ walks'[n + 1] = NewWalk(i) /\ \A j \in 1..(n - 1) : walks'[j] = walks[j]
      BY <1>1, <1>3, <1>10, <3>1, <3>2, WalksChange
    <3>10. CoderTypeOK'
      BY <1>12, <2>7, <3>7, <3>9, Zenon DEF CoderInv, CoderTypeOK
    <3>11. CallsFollow'
      <4>1. \A j \in 1..(n + 1) : walks'[j].block \in Known'
        BY <1>3, <1>7, <1>10, <3>7, <3>9 DEF CoderInv, CallsFollow, NewWalk
      <4> QED
        BY <1>3, <1>12, <3>9, <4>1 DEF CoderInv, CallsFollow
    <3>12. NoneSingle'
      <4> SUFFICES ASSUME NEW f \in EdgeNumbers, NEW x \in Indices, edge'[f].rem = {x} PROVE x \in Known'
        BY <2>7 DEF NoneSingle
      <4>1. CASE f = e
        BY <2>7, <3>1, <3>7, <4>1
      <4>2. CASE f /= e
        BY <2>7, <3>7, <4>2 DEF CoderInv, NoneSingle
      <4> QED
        BY <4>1, <4>2
    <3>13. FramesKept'
      BY <1>6, <1>7, <1>12, <2>1, <2>7, <3>7, FramesStay
    <3> QED
      BY <2>8, <2>10, <3>7, <3>8, <3>10, <3>11, <3>12, <3>13 DEF CoderInv
  <2>12. ASSUME NEW w, \/ w = here /\ (rem = {} \/ Single(rem) \intersect Known /= {})
                       \/ w = keeps /\ rem /= {} /\ Single(rem) = {},
                walks' = Append(Outer, w), UNCHANGED <<blockOf, resolved>>
         PROVE  CoderInv'
    <3>1. w \in WalkType(EdgeNumbers) /\ w.block = b /\ w.rest = Tail(v.rest) /\ ToSet(v.kept) \subseteq ToSet(w.kept)
      BY <1>6, <1>10, <2>12
    <3>2. Known' = Known
      BY <2>12 DEF Known
    <3>3. EdgesDue'
      <4>1. e \in ToSet(w.kept) \/ \A x, y \in edge'[e].rem : x = y
        BY <1>6, <1>10, <2>7, <2>12 DEF Single
      <4> QED
        BY <1>1, <1>2, <1>3, <1>5, <1>6, <1>12, <2>1, <2>7, <2>9, <2>12, <3>1, <3>2, <4>1, EdgesStayDue
    <3>4. /\ DOMAIN walks' = 1..n /\ walks' \in Seq(WalkType(EdgeNumbers)) /\ walks'[n] = w
          /\ \A j \in 1..(n - 1) : walks'[j] = walks[j]
      BY <1>1, <1>3, <2>12, <3>1, WalksChange
    <3>5. CoderTypeOK'
      BY <1>12, <2>7, <2>12, <3>4, Zenon DEF CoderInv, CoderTypeOK
    <3>6. CallsFollow'
      <4>1. \A j \in 1..n : walks'[j].block \in Known'
        BY <1>3, <1>7, <3>1, <3>2, <3>4 DEF CoderInv, CallsFollow
      <4> QED
        BY <1>3, <1>12, <2>12, <3>4, <4>1 DEF CoderInv, CallsFollow
    <3>7. NoneSingle'
      <4> SUFFICES ASSUME NEW f \in EdgeNumbers, NEW x \in Indices, edge'[f].rem = {x} PROVE x \in Known'
        BY <2>7 DEF NoneSingle
      <4>1. CASE f = e
        BY <2>7, <2>12, <3>2, <4>1 DEF Single
      <4>2. CASE f /= e
        BY <2>7, <3>2, <4>2 DEF CoderInv, NoneSingle
      <4> QED
        BY <4>1, <4>2
    <3>8. FramesKept'
      BY <1>6, <1>7, <1>12, <2>1, <2>7, <3>2, FramesStay
    <3>9. BlocksExact' /\ KnownReached'
      BY <1>12, <2>12, <3>2 DEF CoderInv, BlocksExact, KnownReached
    <3> QED
      BY <2>8, <2>10, <3>3, <3>5, <3>6, <3>7, <3>8, <3>9 DEF CoderInv
  <2> QED
    BY <2>3, <2>11, <2>12
<1> QED
  BY <1>13, <1>14

-----------------------------------------------------------------------------
\* A frame is used up, recovered from, or becomes an edge.
LEMMA DecodeFrameStep == ASSUME CoderInv, NEW seed \in FrameSeeds, DecodeFrame(seed) PROVE CoderInv'
<1>1. /\ running' = TRUE /\ received' = received \union {seed} /\ received \subseteq FrameSeeds
      /\ received' \subseteq FrameSeeds /\ seed \in received' /\ UNCHANGED payloads
  BY DEF DecodeFrame, CoderInv, CoderTypeOK
<1>2. walks = <<>> /\ DOMAIN walks = {}
  BY DEF DecodeFrame, CoderInv, CallsFollow
<1>3. edge \in Seq(EdgeType) /\ edges \in Seq(EdgeNumbers) /\ Cover[seed] \in SUBSET Indices
  BY FramesCover DEF CoderInv, CoderTypeOK
<1>4. PICK rem : rem = Cover[seed] \ Known
  OBVIOUS
<1>5. PICK data : data = Xor(Symbol(seed), Cover[seed] \intersect Known)
  OBVIOUS
<1>6. FrameEdge(seed).rem = rem /\ FrameEdge(seed).data = data /\ FrameEdge(seed) = [rem |-> rem, data |-> data]
  BY <1>4, <1>5 DEF FrameEdge
<1>7. data = {Padded(x) : x \in rem} /\ data \in Data /\ rem \in SUBSET Indices
  <2>1. \A x \in Cover[seed] \intersect Known : blockOf[x] = {Padded(x)}
    BY DEF CoderInv, BlocksExact
  <2>2. data = {Padded(x) : x \in Cover[seed] \ (Cover[seed] \intersect Known)}
    BY <1>3, <1>5, <2>1, XorExact DEF Symbol
  <2>3. Cover[seed] \ (Cover[seed] \intersect Known) = rem
    BY <1>4
  <2> QED
    BY <1>3, <1>4, <1>5, <2>2, <2>3, XorType
<1>8. Known \subseteq CoderPeel!PeelClosure(received')
  BY <1>1, CoderClosureGrows DEF CoderInv, KnownReached
\* No activation is left, so that an edge of two blocks has none that is known.
<1>9. \A f \in EdgeNumbers : \A b, c \in edge[f].rem : b /= c => f \in ToSet(edges) /\ b \notin Known
  BY <1>2 DEF CoderInv, EdgesDue, Listed, Due
<1>10. PayloadsExact'
  BY <1>1 DEF CoderInv, PayloadsExact
<1>11. CASE rem = {} /\ UNCHANGED <<decodeVars, walks>>
  <2>1. UNCHANGED <<blockOf, resolved, edge, edges, walks>> /\ EdgeNumbers' = EdgeNumbers /\ Known' = Known
    BY <1>11 DEF decodeVars, EdgeNumbers, Known
  <2>2. CoderTypeOK'
    BY <1>1, <2>1, Zenon DEF CoderInv, CoderTypeOK
  <2>3. BlocksExact' /\ EdgesExact' /\ NoneSingle' /\ KnownReached'
    BY <1>8, <2>1 DEF CoderInv, BlocksExact, EdgesExact, NoneSingle, KnownReached
  <2>4. EdgesDue' /\ CallsFollow'
    BY <1>1, <2>1 DEF CoderInv, EdgesDue, Listed, Due, CallsFollow
  <2>5. FramesKept'
    BY <1>1, <1>4, <1>11, <2>1 DEF CoderInv, FramesKept, Stems
  <2> QED
    BY <1>10, <2>2, <2>3, <2>4, <2>5 DEF CoderInv
<1>12. ASSUME NEW b \in Indices, rem = {b}, Recover(b, data, <<>>), UNCHANGED <<edge, edges>> PROVE CoderInv'
  <2>1. b \notin Known /\ data = {Padded(b)}
    BY <1>4, <1>7, <1>12
  <2>2. /\ blockOf' = [blockOf EXCEPT ![b] = data] /\ resolved' = resolved + 1
        /\ walks' = Append(<<>>, NewWalk(b)) /\ edges' = edges /\ edge' = edge /\ EdgeNumbers' = EdgeNumbers
    BY <1>12 DEF Recover, NewWalk, EdgeNumbers
  <2>3. /\ Known' = Known \union {b} /\ BlocksExact' /\ KnownReached'
        /\ blockOf' \in [Indices -> Data \union {Unknown}] /\ resolved' \in Nat
    BY <1>1, <1>4, <1>8, <1>12, <2>1, <2>2, RecoverFits
  <2>4. DOMAIN walks' = {1} /\ walks'[1] = NewWalk(b) /\ walks' \in Seq(WalkType(EdgeNumbers))
    <3>1. NewWalk(b) \in WalkType(EdgeNumbers)
      BY <1>3 DEF NewWalk, WalkType
    <3> HIDE DEF NewWalk
    <3> QED
      BY <2>2, <3>1
  <2>5. CoderTypeOK'
    BY <1>1, <1>3, <2>2, <2>3, <2>4, Zenon DEF CoderTypeOK
  <2>6. EdgesExact' /\ NoneSingle'
    BY <2>2, <2>3 DEF CoderInv, EdgesExact, NoneSingle
  <2>7. EdgesDue'
    <3> SUFFICES ASSUME NEW f \in EdgeNumbers, NEW x \in edge[f].rem, NEW y \in edge[f].rem, x /= y
                 PROVE  Listed(f)' /\ (x \in Known' => Due(f, x)')
      BY <2>2 DEF EdgesDue
    <3>1. f \in ToSet(edges) /\ x \notin Known
      BY <1>9
    <3>2. Listed(f)'
      BY <2>2, <2>4, <3>1 DEF Listed, NewWalk
    <3>3. x \in Known' => Due(f, x)'
      BY <2>3, <2>4, <3>1 DEF Due, NewWalk
    <3> QED
      BY <3>2, <3>3
  <2>8. CallsFollow'
    BY <1>1, <2>3, <2>4 DEF CallsFollow, NewWalk
  <2>9. FramesKept'
    <3>1. \A f \in EdgeNumbers, s \in received : Stems(f, s) => Stems(f, s)'
      BY <2>2, <2>3 DEF Stems
    <3>2. Cover[seed] \subseteq Known'
      BY <1>4, <1>12, <2>3
    <3> QED
      BY <1>1, <2>2, <2>3, <3>1, <3>2 DEF CoderInv, FramesKept
  <2> QED
    BY <1>10, <2>3, <2>5, <2>6, <2>7, <2>8, <2>9 DEF CoderInv
<1>13. ASSUME rem /= {}, \A b \in Indices : rem /= {b},
              edge' = Append(edge, [rem |-> rem, data |-> data]), edges' = Append(edges, Len(edge) + 1),
              UNCHANGED <<blockOf, resolved, walks>>
       PROVE  CoderInv'
  <2>1. PICK m : m = Len(edge) + 1
    OBVIOUS
  <2>2. m \in Nat \ {0} /\ m \notin EdgeNumbers /\ EdgeNumbers = 1..(m - 1)
    BY <1>3, <2>1 DEF EdgeNumbers
  <2>3. /\ edge' \in Seq(EdgeType) /\ EdgeNumbers' = EdgeNumbers \union {m}
        /\ edge'[m] = [rem |-> rem, data |-> data] /\ \A f \in EdgeNumbers : edge'[f] = edge[f]
    <3>1. [rem |-> rem, data |-> data] \in EdgeType
      BY <1>7 DEF EdgeType
    <3> HIDE DEF EdgeType
    <3>2. /\ edge' \in Seq(EdgeType) /\ Len(edge') = m /\ edge'[m] = [rem |-> rem, data |-> data]
          /\ \A f \in 1..(m - 1) : edge'[f] = edge[f]
      BY <1>3, <1>13, <2>1, <3>1
    <3> QED
      BY <2>2, <3>2 DEF EdgeNumbers
  <2>4. edges' \in Seq(EdgeNumbers') /\ ToSet(edges') = ToSet(edges) \union {m}
    <3>1. edges \in Seq(EdgeNumbers') /\ m \in EdgeNumbers'
      BY <1>3, <2>3
    <3>2. edges' = Append(edges, m)
      BY <1>13, <2>1
    <3> QED
      BY <3>1, <3>2, OneAdded
  <2>5. walks' = <<>> /\ DOMAIN walks' = {} /\ Known' = Known
    BY <1>2, <1>13 DEF Known
  <2>6. CoderTypeOK'
    <3>1. walks' \in Seq(WalkType(EdgeNumbers'))
      BY <2>5
    <3>2. /\ blockOf' \in [Indices -> Data \union {Unknown}] /\ resolved' \in Nat
          /\ running' \in BOOLEAN /\ received' \subseteq FrameSeeds
      BY <1>1, <1>13 DEF CoderInv, CoderTypeOK
    <3> QED
      BY <2>3, <2>4, <3>1, <3>2, Zenon DEF CoderTypeOK
  <2>7. EdgesExact' /\ NoneSingle'
    <3>1. EdgesExact'
      BY <1>7, <2>3 DEF CoderInv, EdgesExact
    <3>2. ASSUME NEW f \in EdgeNumbers', NEW b \in Indices, edge'[f].rem = {b} PROVE b \in Known'
      <4>1. edge'[m].rem /= {b}
        <5>1. edge'[m].rem = rem
          BY <2>3
        <5>2. rem /= {b}
          BY <1>13
        <5> QED
          BY <5>1, <5>2, Zenon
      <4> QED
        BY <2>3, <2>5, <3>2, <4>1 DEF CoderInv, NoneSingle
    <3> QED
      BY <3>1, <3>2 DEF NoneSingle
  <2>8. EdgesDue'
    <3> SUFFICES ASSUME NEW f \in EdgeNumbers', NEW x \in edge'[f].rem, NEW y \in edge'[f].rem, x /= y
                 PROVE  f \in ToSet(edges') /\ x \notin Known
      BY <2>5 DEF EdgesDue, Listed, Due
    <3>1. CASE f = m
      BY <1>4, <2>3, <2>4, <3>1
    <3>2. CASE f \in EdgeNumbers
      BY <1>9, <2>3, <2>4, <3>2
    <3> QED
      BY <2>3, <3>1, <3>2
  <2>9. CallsFollow'
    BY <1>1, <2>5 DEF CallsFollow
  <2>10. FramesKept'
    <3>1. \A f \in EdgeNumbers, s \in received : Stems(f, s) => Stems(f, s)'
      BY <2>3, <2>5 DEF Stems
    <3>2. Stems(m, seed)'
      BY <1>4, <2>3, <2>5 DEF Stems
    <3>3. \A s \in received' : Cover[s] \subseteq Known' \/ \E f \in EdgeNumbers' : Stems(f, s)'
      BY <1>1, <2>3, <2>5, <3>1, <3>2 DEF CoderInv, FramesKept
    <3>4. \A f \in EdgeNumbers' : \E s \in received' : Stems(f, s)'
      BY <1>1, <2>3, <3>1, <3>2 DEF CoderInv, FramesKept
    <3> QED
      BY <3>3, <3>4 DEF FramesKept
  <2>11. BlocksExact' /\ KnownReached'
    BY <1>8, <1>13, <2>5 DEF CoderInv, BlocksExact, KnownReached
  <2> QED
    BY <1>10, <2>6, <2>7, <2>8, <2>9, <2>10, <2>11 DEF CoderInv
<1>14. \/ rem = {} /\ UNCHANGED <<decodeVars, walks>>
       \/ \E b \in Indices : rem = {b} /\ Recover(b, data, <<>>) /\ UNCHANGED <<edge, edges>>
       \/ /\ rem /= {} /\ \A b \in Indices : rem /= {b}
          /\ edge' = Append(edge, [rem |-> rem, data |-> data]) /\ edges' = Append(edges, Len(edge) + 1)
          /\ UNCHANGED <<blockOf, resolved, walks>>
  <2>1. LET e == FrameEdge(seed)
        IN \/ e.rem = {} /\ UNCHANGED <<decodeVars, walks>>
           \/ \E b \in Indices : e.rem = {b} /\ Recover(b, e.data, <<>>) /\ UNCHANGED <<edge, edges>>
           \/ /\ e.rem /= {} /\ \A b \in Indices : e.rem /= {b}
              /\ edge' = Append(edge, e) /\ edges' = Append(edges, Len(edge) + 1)
              /\ UNCHANGED <<blockOf, resolved, walks>>
    BY DEF DecodeFrame
  <2> QED
    BY <1>6, <2>1, Zenon
<1> QED
  BY <1>11, <1>12, <1>13, <1>14

\* No step breaks the invariant.
LEMMA CoderStep == CoderInv /\ [CoderNext]_coderVars => CoderInv'
<1> SUFFICES ASSUME CoderInv, [CoderNext]_coderVars PROVE CoderInv'
  OBVIOUS
<1>1. CASE Reset
  BY <1>1, ResetStep
<1>2. CASE WalkOn
  BY <1>2, WalkOnStep
<1>3. CASE WalkEnds
  BY <1>3, WalkEndsStep
<1>4. CASE FrameEnds
  BY <1>4, FrameEndsStep
<1>5. ASSUME NEW seed \in FrameSeeds, DecodeFrame(seed) PROVE CoderInv'
  BY <1>5, DecodeFrameStep
<1>6. CASE UNCHANGED coderVars
  <2>1. UNCHANGED <<blockOf, resolved, edge, edges, walks, running, received, payloads>>
    BY <1>6 DEF coderVars, decodeVars
  <2>2. EdgeNumbers' = EdgeNumbers /\ Known' = Known
    BY <2>1 DEF EdgeNumbers, Known
  <2>3. CoderTypeOK' /\ BlocksExact' /\ EdgesExact' /\ PayloadsExact'
    BY <2>1, <2>2, Zenon DEF CoderInv, CoderTypeOK, BlocksExact, EdgesExact, PayloadsExact
  <2>4. EdgesDue' /\ NoneSingle' /\ CallsFollow'
    BY <2>1, <2>2 DEF CoderInv, EdgesDue, Listed, Due, NoneSingle, CallsFollow
  <2>5. FramesKept' /\ KnownReached'
    BY <2>1, <2>2 DEF CoderInv, FramesKept, KnownReached, Stems
  <2> QED
    BY <2>3, <2>4, <2>5 DEF CoderInv
<1> QED
  BY <1>1, <1>2, <1>3, <1>4, <1>5, <1>6 DEF CoderNext

\* With no frame being decoded, no edge is down to a block that could be had.
LEMMA NothingLeft == CoderInv => DecodesAllItCan
<1> SUFFICES ASSUME CoderInv PROVE DecodesAllItCan
  OBVIOUS
<1>1. ASSUME ~running PROVE Known = CoderPeel!PeelClosure(received)
  <2>1. DOMAIN walks = {} /\ Known \subseteq Indices /\ received \subseteq FrameSeeds
    BY <1>1 DEF CoderInv, CallsFollow, CoderTypeOK, Known
  <2>2. \A f \in EdgeNumbers : \A b, c \in edge[f].rem : b /= c => b \notin Known
    BY <2>1 DEF CoderInv, EdgesDue, Due
  <2>3. CoderPeel!Stuck(received, Known)
    <3> SUFFICES ASSUME NEW seed \in received, NEW b \in Indices, Cover[seed] \ Known = {b} PROVE FALSE
      BY DEF CoderPeel!Stuck, CoderPeel!Peelable
    <3>1. PICK f \in EdgeNumbers : Stems(f, seed)
      BY DEF CoderInv, FramesKept
    <3>2. b \in edge[f].rem /\ b \notin Known /\ edge[f].rem \subseteq Indices
      BY <3>1, FramesCover, <2>1 DEF Stems
    <3>3. edge[f].rem /= {b}
      BY <3>2 DEF CoderInv, NoneSingle
    <3>4. PICK c \in edge[f].rem : c /= b
      BY <3>2, <3>3
    <3>5. c \notin Known
      BY <2>2, <3>2, <3>4
    <3> QED
      BY <3>1, <3>4, <3>5 DEF Stems
  <2>4. CoderPeel!PeelClosure(received) \subseteq Known
    BY <2>1, <2>3 DEF CoderPeel!PeelClosure
  <2> QED
    BY <2>4 DEF CoderInv, KnownReached
<1>2. ~running => Known /= Indices
  BY KnownFinite DEF CoderInv, BlocksExact, CallsFollow
<1> QED
  BY <1>1, <1>2 DEF CoderInv, BlocksExact, PayloadsExact, DecodesAllItCan

\* Between two frames the phone's decoder knows exactly the blocks that peeling
\* the frames it was given reaches, each as the encoder cut it, has not missed
\* that it was done, and reports only what was cut.
THEOREM DecodesExactly == CoderSpec => []DecodesAllItCan
BY CoderInitInv, CoderStep, NothingLeft, PTL DEF CoderSpec
=============================================================================
