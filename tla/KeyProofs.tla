------------------------------ MODULE KeyProofs -------------------------------
(***************************************************************************)
(* Proofs about what holds the keys: the Ledger transport, for every set   *)
(* of transaction lengths, every derivation path that fits a chunk and any *)
(* number of calls; the phone's key store, for any number of tasks, keys   *)
(* and calls; and the command line's keychain, for any number of processes, *)
(* labels and key files.                                                   *)
(***************************************************************************)
EXTENDS Ledger, PhoneKeys, Keychain, SequenceTheorems, WellFoundedInduction, TLAPS

-----------------------------------------------------------------------------
(***************************************************************************)
(* The Ledger transport.                                                   *)
(***************************************************************************)

\* The answers of the device: two packets for a signature, one for the rest.
LEMMA ReplyPackets ==
  /\ PacketsFor(StatusLen) = 1
  /\ PacketsFor(ReplyLen("version")) = 1
  /\ PacketsFor(ReplyLen("pubkey")) = 1
  /\ PacketsFor(ReplyLen("chunk")) = 1
  /\ PacketsFor(ReplyLen("sign")) = 2
  BY DEF PacketsFor, StatusLen, ReplyLen, PacketSize

ReplyTotal(kind, status) == IF status = "ok" THEN ReplyLen(kind) ELSE StatusLen

LEMMA ReplyTotalType ==
  ASSUME NEW kind \in Ops \union {"chunk"}, NEW status \in {"ok", "denied"}
  PROVE  /\ ReplyTotal(kind, status) \in Nat
         /\ PacketsFor(ReplyTotal(kind, status)) \in {1, 2}
         /\ PacketsFor(ReplyTotal(kind, status)) = 2 => kind = "sign" /\ status = "ok"
<1>1. ReplyTotal(kind, status) \in Nat
  BY DEF Ops, ReplyTotal, ReplyLen, StatusLen
<1> QED
  BY <1>1, ReplyPackets DEF Ops, ReplyTotal

LEMMA PacketsType ==
  ASSUME NEW from \in Calls, NEW kind \in Ops \union {"chunk"}, NEW status \in {"ok", "denied"}
  PROVE  /\ Packets(from, ReplyTotal(kind, status), status) \in Seq(Packet)
         /\ \A i \in DOMAIN Packets(from, ReplyTotal(kind, status), status) :
              Packets(from, ReplyTotal(kind, status), status)[i].from = from
<1> DEFINE tot == ReplyTotal(kind, status)
<1>1. tot \in Nat /\ PacketsFor(tot) \in Nat
  BY ReplyTotalType
<1> HIDE DEF tot
<1>2. \A i \in 1..PacketsFor(tot) :
        [first |-> i = 1, total |-> tot, from |-> from, status |-> status] \in Packet
  BY <1>1 DEF Packet
<1>3. Packets(from, tot, status) \in [1..PacketsFor(tot) -> Packet]
  BY <1>2 DEF Packets
<1>4. Packets(from, tot, status) \in Seq(Packet)
  BY <1>1, <1>3
<1>5. ASSUME NEW i \in DOMAIN Packets(from, tot, status)
      PROVE  Packets(from, tot, status)[i].from = from
  <2>1. i \in 1..PacketsFor(tot)
    BY <1>5 DEF Packets
  <2>2. Packets(from, tot, status)[i]
          = [first |-> i = 1, total |-> tot, from |-> from, status |-> status]
    BY <2>1, Zenon DEF Packets
  <2> QED
    BY <2>2
<1> QED
  BY <1>4, <1>5 DEF tot

-----------------------------------------------------------------------------
\* Calls not begun have no result: what makes the type invariant inductive.
Typed == TypeOK /\ \A i \in Calls : i > n => result[i] = Pending

LEMMA Current ==
  ASSUME Typed, pc /= "idle"
  PROVE  n \in Calls /\ result[n] = Pending /\ op[n] \in Operation
  BY LedgerAssumption DEF Typed, TypeOK, Calls

LEMMA ReturnType ==
  ASSUME Typed, pc /= "idle", NEW status \in {"ok", "denied", "short", "frame", "hid"},
         NEW from \in Calls, Return(status, from)
  PROVE  /\ n' = n /\ op' = op /\ offset' = 0 /\ total' = 0
         /\ pc' = "idle" /\ got' = <<>> /\ written' = <<>>
         /\ offset' \in Nat /\ total' \in Nat /\ got' \in Seq(Packet) /\ written' \in Seq(Chunk)
         /\ result' \in [Calls -> Result]
         /\ \A i \in Calls : i > n => result'[i] = Pending
<1>1. n \in Calls
  BY Current
<1>2. [status |-> status, from |-> from] \in Result
  BY LedgerAssumption DEF Result, Calls
<1>3. 0 \in Nat /\ <<>> \in Seq(Packet) /\ <<>> \in Seq(Chunk)
  BY EmptySeq
<1> QED
  BY <1>1, <1>2, <1>3 DEF Return, Typed, TypeOK, Calls

LEMMA FinishType ==
  ASSUME Typed, pc /= "idle", NEW pkts \in Seq(Packet), pkts /= <<>>, Finish(pkts)
  PROVE  \E status \in {"ok", "denied", "short", "frame"}, from \in Calls :
           Return(status, from) /\ Outcome(pkts) = [status |-> status, from |-> from]
<1>1. pkts[1] \in Packet
  BY EmptySeq, ElementOfSeq
<1>2. n \in Calls
  BY Current
<1>3. Outcome(pkts).status \in {"ok", "denied", "short", "frame"} /\ Outcome(pkts).from \in Calls
  BY <1>1, <1>2 DEF Outcome, Packet
<1>4. Outcome(pkts) = [status |-> Outcome(pkts).status, from |-> Outcome(pkts).from]
  BY DEF Outcome
<1> QED
  BY <1>3, <1>4 DEF Finish

LEMMA FinishKeepsType ==
  ASSUME Typed, pc /= "idle", NEW pkts \in Seq(Packet), pkts /= <<>>, Finish(pkts)
  PROVE  /\ n' = n /\ op' = op /\ offset' = 0 /\ total' = 0
         /\ pc' = "idle" /\ got' = <<>> /\ written' = <<>>
         /\ offset' \in Nat /\ total' \in Nat /\ got' \in Seq(Packet) /\ written' \in Seq(Chunk)
         /\ result' \in [Calls -> Result]
         /\ \A i \in Calls : i > n => result'[i] = Pending
  BY FinishType, ReturnType

LEMMA BeginType ==
  ASSUME Typed, NEW kind \in Ops, NEW len \in TxLens \union {0}, Begin(kind, len)
  PROVE  /\ n' \in 0..MaxCalls
         /\ op' \in [Calls -> Operation]
         /\ pc' \in {"idle", "write"}
         /\ offset' = 0 /\ total' = 0 /\ got' = <<>> /\ written' = <<>>
         /\ result' \in [Calls -> Result]
         /\ pc' /= "idle" => n' > 0 /\ result'[n'] = Pending
         /\ \A i \in Calls : i > n' => result'[i] = Pending
<1> USE LedgerAssumption
<1>1. /\ n \in 0..MaxCalls /\ n < MaxCalls /\ n' = n + 1 /\ n + 1 \in Calls
      /\ offset' = 0 /\ total' = 0 /\ got' = <<>> /\ written' = <<>>
      /\ op' = [op EXCEPT ![n + 1] = [kind |-> kind, len |-> len]]
  BY DEF Begin, Typed, TypeOK, Calls
<1>2. op' \in [Calls -> Operation]
  BY <1>1 DEF Operation, Typed, TypeOK
<1>3. result[n + 1] = Pending /\ result \in [Calls -> Result]
  BY <1>1 DEF Typed, TypeOK
<1>4. CASE kind = "sign" /\ len = 0
  <2>1. [status |-> "empty", from |-> n + 1] \in Result
    BY <1>1 DEF Result, Calls
  <2>2. result' = [result EXCEPT ![n + 1] = [status |-> "empty", from |-> n + 1]] /\ pc' = "idle"
    BY <1>4 DEF Begin
  <2> QED
    BY <1>1, <1>2, <1>3, <2>1, <2>2 DEF Typed, Calls
<1>5. CASE ~(kind = "sign" /\ len = 0)
  <2>1. result' = result /\ pc' = "write"
    BY <1>5 DEF Begin
  <2> QED
    BY <1>1, <1>2, <1>3, <2>1 DEF Typed, Calls
<1> QED
  BY <1>4, <1>5

\* The next chunk of a transaction ends after it starts, and within it.
LEMMA ChunkEndType ==
  ASSUME NEW off \in Nat, NEW len \in Nat, off < len
  PROVE  ChunkEnd(off, len) \in Nat /\ off < ChunkEnd(off, len) /\ ChunkEnd(off, len) <= len
  BY LedgerAssumption DEF ChunkEnd, Smaller, PathLen, MaxTxChunk

\* While a transaction is written there is some of it left to write.
OffsetInv == pc = "write" /\ op[n].kind = "sign" => offset < op[n].len

LEMMA CollectType ==
  ASSUME Typed, pc = "more", NEW pkt \in Packet, Collect(pkt)
  PROVE  /\ n' = n /\ op' = op /\ offset' \in Nat /\ total' \in Nat
         /\ pc' \in {"idle", "more"} /\ got' \in Seq(Packet) /\ written' \in Seq(Chunk)
         /\ result' \in [Calls -> Result]
         /\ pc' /= "idle" => n' > 0 /\ result'[n'] = Pending
         /\ \A i \in Calls : i > n => result'[i] = Pending
<1>1. Append(got, pkt) \in Seq(Packet) /\ Append(got, pkt) /= <<>>
  BY AppendProperties DEF Typed, TypeOK
<1>2. CASE Len(Append(got, pkt)) >= total
  <2>1. Finish(Append(got, pkt))
    BY <1>2 DEF Collect
  <2> QED
    BY <1>1, <2>1, FinishKeepsType
<1>3. CASE ~(Len(Append(got, pkt)) >= total)
  <2>1. got' = Append(got, pkt) /\ UNCHANGED <<n, op, pc, offset, total, result, written>>
    BY <1>3 DEF Collect
  <2> QED
    BY <1>1, <2>1 DEF Typed, TypeOK
<1> QED
  BY <1>2, <1>3

LEMMA InitTyped == Init => Typed /\ OffsetInv
<1> SUFFICES ASSUME Init PROVE Typed /\ OffsetInv
  OBVIOUS
<1>1. Pending \in Result
  BY LedgerAssumption DEF Pending, Result
<1>2. [kind |-> "version", len |-> 0] \in Operation
  BY DEF Operation, Ops
<1> QED
  BY <1>1, <1>2, EmptySeq, LedgerAssumption DEF Init, Typed, TypeOK, OffsetInv

\* The types after a step, one conjunct each, and that what is left to write
\* is not empty.
NextTyped ==
  /\ n' \in 0..MaxCalls /\ op' \in [Calls -> Operation]
  /\ pc' \in {"idle", "write", "first", "more"}
  /\ offset' \in Nat /\ total' \in Nat /\ got' \in Seq(Packet)
  /\ result' \in [Calls -> Result]
  /\ wire' \in Seq(Packet) /\ written' \in Seq(Chunk) /\ queue' \in Seq(Command)
  /\ pc' /= "idle" => n' > 0 /\ result'[n'] = Pending
  /\ \A i \in Calls : i > n' => result'[i] = Pending
  /\ pc' = "write" /\ op'[n'].kind = "sign" => offset' < op'[n'].len

LEMMA TakesType ==
  ASSUME Typed, n \in Calls, NEW kind \in Ops \union {"chunk"}, Takes(kind)
  PROVE  queue' \in Seq(Command)
<1>1. [from |-> n, kind |-> kind] \in Command
  BY DEF Command
<1> QED
  BY <1>1, AppendProperties DEF Takes, Typed, TypeOK

\* Where a chunk of a transaction starts and ends.
LEMMA WriteChunk ==
  ASSUME Typed, OffsetInv, pc = "write", op[n].kind = "sign"
  PROVE  /\ op[n].len \in Nat /\ offset \in Nat /\ offset < op[n].len
         /\ ChunkEnd(offset, op[n].len) \in Nat
         /\ offset < ChunkEnd(offset, op[n].len) /\ ChunkEnd(offset, op[n].len) <= op[n].len
<1> DEFINE len == op[n].len
<1>1. len \in TxLens \union {0}
  BY Current DEF Operation
<1>2. offset \in Nat /\ offset < len
  BY DEF OffsetInv, Typed, TypeOK
<1> HIDE DEF len
<1>3. len \in Nat
  BY <1>1, LedgerAssumption
<1>4. /\ ChunkEnd(offset, len) \in Nat
      /\ offset < ChunkEnd(offset, len) /\ ChunkEnd(offset, len) <= len
  BY <1>2, <1>3, ChunkEndType
<1> QED
  BY <1>2, <1>3, <1>4 DEF len

LEMMA WriteType ==
  ASSUME Typed, OffsetInv, Write
  PROVE  NextTyped
<1> DEFINE len == op[n].len
           end == ChunkEnd(offset, len)
<1>1. pc = "write" /\ UNCHANGED <<n, op, total, got, result, wire>>
  BY DEF Write
<1>2. n \in Calls /\ result[n] = Pending /\ op[n] \in Operation /\ n > 0 /\ op[n].kind \in Ops
  BY <1>1, Current DEF Calls, Operation
<1>3. CASE op[n].kind /= "sign"
  <2>1. Takes(op[n].kind) /\ pc' = "first" /\ UNCHANGED <<offset, written>>
    BY <1>3 DEF Write
  <2>2. queue' \in Seq(Command)
    BY <1>2, <2>1, TakesType
  <2> QED
    BY <1>1, <1>2, <2>1, <2>2 DEF NextTyped, Typed, TypeOK
<1>4. CASE op[n].kind = "sign"
  <2>1. offset \in Nat /\ end \in Nat /\ end <= len /\ len \in Nat
    BY <1>1, <1>4, WriteChunk
  <2>2. PICK p1 \in {P1First, P1More} :
          /\ offset' = end
          /\ written' = Append(written, [start |-> offset, end |-> end, p1 |-> p1])
          /\ \/ end = len /\ Takes("sign") /\ pc' = "first"
             \/ end /= len /\ (Takes("chunk") \/ UNCHANGED queue) /\ UNCHANGED pc
    BY <1>4 DEF Write, IsLast
  <2> HIDE DEF end
  <2>3. [start |-> offset, end |-> end, p1 |-> p1] \in Chunk
    BY <2>1 DEF Chunk
  <2>4. written' \in Seq(Chunk)
    BY <2>2, <2>3, AppendProperties DEF Typed, TypeOK
  <2>5. queue' \in Seq(Command)
    BY <1>2, <2>2, TakesType DEF Ops, Typed, TypeOK
  <2>6. pc' = "first" \/ (pc' = "write" /\ offset' < len)
    BY <1>1, <2>1, <2>2
  <2> QED
    BY <1>1, <1>2, <2>1, <2>2, <2>4, <2>5, <2>6 DEF NextTyped, Typed, TypeOK
<1> QED
  BY <1>3, <1>4

LEMMA StepTyped ==
  ASSUME Typed, OffsetInv, [Next]_vars
  PROVE  NextTyped
<1> USE LedgerAssumption
<1>1. CASE UNCHANGED vars
  BY <1>1 DEF vars, hostVars, NextTyped, Typed, TypeOK, OffsetInv
<1>2. ASSUME NEW kind \in Ops, NEW len \in TxLens \union {0}, Begin(kind, len),
             wire' \in Seq(Packet)
      PROVE  NextTyped
  <2>1. UNCHANGED queue /\ op' = [op EXCEPT ![n + 1] = [kind |-> kind, len |-> len]]
        /\ n' = n + 1 /\ n < MaxCalls
    BY <1>2 DEF Begin
  <2>2. n + 1 \in Calls
    BY <2>1 DEF Typed, TypeOK, Calls
  <2>3. op'[n'] = [kind |-> kind, len |-> len]
    BY <2>1, <2>2 DEF Typed, TypeOK
  <2>4. pc' = "write" /\ kind = "sign" => len /= 0
    BY <1>2 DEF Begin
  <2>5. pc' = "write" /\ op'[n'].kind = "sign" => 0 < op'[n'].len
    <3>1. len \in Nat
      OBVIOUS
    <3> QED
      BY <2>3, <2>4, <3>1
  <2>6. queue' \in Seq(Command)
    BY <2>1 DEF Typed, TypeOK
  <2>7. /\ n' \in 0..MaxCalls /\ op' \in [Calls -> Operation]
        /\ pc' \in {"idle", "write"}
        /\ offset' = 0 /\ total' = 0 /\ got' = <<>> /\ written' = <<>>
        /\ result' \in [Calls -> Result]
        /\ pc' /= "idle" => n' > 0 /\ result'[n'] = Pending
        /\ \A i \in Calls : i > n' => result'[i] = Pending
    BY <1>2, BeginType
  <2> QED
    BY <1>2, <2>5, <2>6, <2>7, EmptySeq DEF NextTyped
<1>3. ASSUME NEW kind \in Ops, NEW len \in TxLens \union {0}, Call(kind, len) PROVE NextTyped
  BY <1>2, <1>3 DEF Call, Typed, TypeOK
<1>4. ASSUME NEW kind \in Ops, CliCommand(kind) PROVE NextTyped
  BY <1>2, <1>4, EmptySeq DEF CliCommand
<1>5. CASE Connect
  BY <1>5, EmptySeq DEF Connect, hostVars, NextTyped, Typed, TypeOK
<1>6. CASE Write
  BY <1>6, WriteType
<1>7. ASSUME pc /= "idle", NEW status \in {"frame", "hid"}, Return(status, n),
             UNCHANGED <<wire, queue>>
      PROVE  NextTyped
  <2>1. n \in Calls
    BY <1>7, Current
  <2> QED
    BY <1>7, <2>1, ReturnType DEF NextTyped, Typed, TypeOK
<1>8. CASE HidError
  BY <1>7, <1>8 DEF HidError
<1>9. CASE FirstTimeout
  BY <1>7, <1>9 DEF FirstTimeout
<1>10. CASE ReadFirst
  <2>1. /\ pc = "first" /\ wire /= <<>> /\ wire' = Tail(wire) /\ UNCHANGED queue
    BY <1>10 DEF ReadFirst
  <2>2. Head(wire) \in Packet /\ Tail(wire) \in Seq(Packet)
    BY <2>1, HeadTailProperties DEF Typed, TypeOK
  <2>3. <<Head(wire)>> \in Seq(Packet) /\ <<Head(wire)>> /= <<>>
    BY <2>2
  <2>4. CASE Finish(<<Head(wire)>>)
    BY <2>1, <2>2, <2>3, <2>4, FinishKeepsType
       DEF NextTyped, Typed, TypeOK
  <2>5. ASSUME NEW want \in 1..(MaxGarbage + 1), got' = <<Head(wire)>>, total' = want, pc' = "more",
               UNCHANGED <<n, op, offset, result, written>>
        PROVE  NextTyped
    BY <2>1, <2>2, <2>3, <2>5 DEF NextTyped, Typed, TypeOK
  <2> QED
    BY <1>10, <2>4, <2>5 DEF ReadFirst
<1>11. ASSUME pc = "more", NEW pkt \in Packet, Collect(pkt), UNCHANGED queue,
              wire' \in Seq(Packet)
       PROVE  NextTyped
  BY <1>11, CollectType DEF NextTyped, Typed, TypeOK
<1>12. CASE ReadMore
  <2>1. Head(wire) \in Packet /\ Tail(wire) \in Seq(Packet)
    BY <1>12, HeadTailProperties DEF ReadMore, Typed, TypeOK
  <2> QED
    BY <1>11, <1>12, <2>1 DEF ReadMore
<1>13. CASE MoreTimeout
  <2>1. n \in Calls
    BY <1>13, Current DEF MoreTimeout
  <2>2. Zeros \in Packet
    BY <2>1 DEF Zeros, Packet
  <2> QED
    BY <1>11, <1>13, <2>2 DEF MoreTimeout, Typed, TypeOK
<1>14. CASE Answer
  <2>1. queue /= <<>> /\ queue' = Tail(queue) /\ UNCHANGED hostVars
    BY <1>14 DEF Answer
  <2>2. Head(queue) \in Command /\ Tail(queue) \in Seq(Command)
    BY <2>1, HeadTailProperties DEF Typed, TypeOK
  <2>3. PICK status \in {"ok", "denied"} :
          wire' = wire \o Packets(Head(queue).from, ReplyTotal(Head(queue).kind, status), status)
    BY <1>14 DEF Answer, ReplyTotal
  <2>4. Packets(Head(queue).from, ReplyTotal(Head(queue).kind, status), status) \in Seq(Packet)
    BY <2>2, PacketsType DEF Command
  <2>5. wire' \in Seq(Packet)
    BY <2>3, <2>4, ConcatProperties DEF Typed, TypeOK
  <2> QED
    BY <2>1, <2>2, <2>5 DEF hostVars, NextTyped, Typed, TypeOK, OffsetInv
<1> QED
  BY <1>1, <1>3, <1>4, <1>5, <1>6, <1>8, <1>9, <1>10, <1>12, <1>13, <1>14 DEF Next

LEMMA TypedStep == Typed /\ OffsetInv /\ [Next]_vars => Typed' /\ OffsetInv'
<1> SUFFICES ASSUME Typed, OffsetInv, [Next]_vars PROVE Typed' /\ OffsetInv'
  OBVIOUS
<1>1. NextTyped
  BY StepTyped
<1> QED
  BY <1>1 DEF NextTyped, Typed, TypeOK, OffsetInv

\* What the host, the wire and the device hold stays what the code says it is.
THEOREM TypeCorrect == Spec => []TypeOK
<1>1. Typed => TypeOK
  BY DEF Typed
<1> QED
  BY <1>1, InitTyped, TypedStep, PTL DEF Spec

-----------------------------------------------------------------------------
\* What a read does to the host: it goes on, or the call returns.
HostRuns ==
  /\ n' = n /\ op' = op
  /\ pc' \in {"idle", "first", "more"}
  /\ \A i \in Calls : i /= n => result'[i] = result[i]

LEMMA ReturnRuns ==
  ASSUME Typed, pc /= "idle", NEW status, NEW from, Return(status, from)
  PROVE  HostRuns /\ pc' = "idle" /\ result'[n] = [status |-> status, from |-> from]
<1>1. n \in Calls /\ result \in [Calls -> Result]
  BY Current DEF Typed, TypeOK
<1> QED
  BY <1>1 DEF Return, HostRuns

LEMMA FinishRuns ==
  ASSUME Typed, pc /= "idle", NEW pkts, Finish(pkts)
  PROVE  HostRuns /\ pc' = "idle" /\ result'[n].status = Outcome(pkts).status
                 /\ result'[n].from = Outcome(pkts).from
<1> DEFINE status == Outcome(pkts).status
           from == Outcome(pkts).from
<1>1. Return(status, from)
  BY DEF Finish
<1> HIDE DEF status, from
<1>2. HostRuns /\ pc' = "idle" /\ result'[n] = [status |-> status, from |-> from]
  BY <1>1, ReturnRuns
<1>3. result'[n].status = status /\ result'[n].from = from
  BY <1>2
<1> QED
  BY <1>2, <1>3 DEF status, from

LEMMA CollectRuns ==
  ASSUME Typed, pc = "more", NEW pkt, Collect(pkt)
  PROVE  HostRuns
  BY FinishRuns DEF Collect, HostRuns

LEMMA ReadRuns ==
  ASSUME Typed, \/ ReadFirst \/ FirstTimeout \/ ReadMore \/ MoreTimeout
  PROVE  HostRuns /\ UNCHANGED queue /\ pc \in {"first", "more"}
<1>1. CASE ReadFirst
  BY <1>1, FinishRuns DEF ReadFirst, HostRuns
<1>2. CASE FirstTimeout
  BY <1>2, ReturnRuns DEF FirstTimeout
<1>3. CASE ReadMore
  BY <1>3, CollectRuns DEF ReadMore
<1>4. CASE MoreTimeout
  BY <1>4, CollectRuns DEF MoreTimeout
<1> QED
  BY <1>1, <1>2, <1>3, <1>4

LEMMA BeginRuns ==
  ASSUME Typed, NEW kind \in Ops, NEW len \in TxLens \union {0}, Begin(kind, len)
  PROVE  /\ pc = "idle" /\ n' = n + 1 /\ n + 1 \in Calls /\ n \in Nat
         /\ \A i \in Calls : i /= n + 1 => op'[i] = op[i] /\ result'[i] = result[i]
         /\ op'[n + 1] = [kind |-> kind, len |-> len]
         /\ offset' = 0 /\ got' = <<>> /\ UNCHANGED queue
         /\ result'[n + 1] = Pending \/ result'[n + 1] = [status |-> "empty", from |-> n + 1]
         /\ pc' = "idle" => result'[n + 1] = [status |-> "empty", from |-> n + 1]
         /\ pc' \in {"idle", "write"}
<1>1. n' = n + 1 /\ n + 1 \in Calls /\ n \in Nat
  BY LedgerAssumption DEF Begin, Typed, TypeOK, Calls
<1>2. result[n + 1] = Pending /\ result \in [Calls -> Result] /\ op \in [Calls -> Operation]
  BY <1>1 DEF Typed, TypeOK
<1> QED
  BY <1>1, <1>2 DEF Begin

\* A call that has returned keeps its result.
LEMMA ResultsKept ==
  ASSUME Typed, [Next]_vars
  PROVE  \A i \in Calls : result[i] /= Pending => result'[i] = result[i]
<1>1. ASSUME NEW kind \in Ops, NEW len \in TxLens \union {0}, Begin(kind, len)
      PROVE  \A i \in Calls : result[i] /= Pending => result'[i] = result[i]
  <2>1. n + 1 \in Calls /\ n \in Nat
    BY <1>1, BeginRuns
  <2>2. n + 1 > n
    BY <2>1
  <2>3. result[n + 1] = Pending
    BY <2>1, <2>2 DEF Typed
  <2> QED
    BY <1>1, <2>3, BeginRuns
<1>2. ASSUME NEW kind \in Ops, NEW len \in TxLens \union {0}, Call(kind, len)
      PROVE  \A i \in Calls : result[i] /= Pending => result'[i] = result[i]
  BY <1>1, <1>2 DEF Call
<1>3. ASSUME NEW kind \in Ops, CliCommand(kind)
      PROVE  \A i \in Calls : result[i] /= Pending => result'[i] = result[i]
  BY <1>1, <1>3 DEF CliCommand
<1>4. CASE UNCHANGED hostVars
  BY <1>4 DEF hostVars
<1>5. CASE Write
  BY <1>5 DEF Write
<1>6. ASSUME pc /= "idle", HostRuns
      PROVE  \A i \in Calls : result[i] /= Pending => result'[i] = result[i]
  BY <1>6, Current DEF HostRuns
<1>7. CASE HidError
  BY <1>6, <1>7, ReturnRuns DEF HidError
<1>8. CASE ReadFirst \/ FirstTimeout \/ ReadMore \/ MoreTimeout
  BY <1>6, <1>8, ReadRuns
<1> QED
  BY <1>2, <1>3, <1>4, <1>5, <1>7, <1>8 DEF Next, vars, Connect, Answer

-----------------------------------------------------------------------------
\* Chunks that are the transaction from its start to some byte, each with room
\* in an APDU.
Fits(chunk, i) == chunk.end - chunk.start + (IF i = 1 THEN PathLen ELSE 0) <= MaxApduPayload
PieceOf(chunks, end) ==
  /\ chunks /= <<>>
  /\ chunks[1].start = 0 /\ chunks[Len(chunks)].end = end
  /\ \A i \in DOMAIN chunks : /\ i > 1 => chunks[i].start = chunks[i - 1].end
                              /\ Fits(chunks[i], i)

\* What makes WritesWhole inductive: what was written of a transaction is its
\* bytes up to where writing has come, and all of them when an answer is awaited.
WholeInv ==
  pc /= "idle" /\ op[n].kind = "sign" =>
    IF pc = "write"
    THEN IF written = <<>> THEN offset = 0 ELSE offset > 0 /\ PieceOf(written, offset)
    ELSE PieceOf(written, op[n].len)

\* The chunk that starts at off has room in an APDU, with the path if it is the
\* first, and only that one starts at 0.
LEMMA ChunkFits ==
  ASSUME NEW off \in Nat, NEW len \in Nat, off < len, NEW i \in Nat \ {0}, i = 1 <=> off = 0,
         NEW p1
  PROVE  Fits([start |-> off, end |-> ChunkEnd(off, len), p1 |-> p1], i)
<1> DEFINE end == ChunkEnd(off, len)
<1>1. end \in Nat
  BY ChunkEndType
<1>2. end <= off + MaxTxChunk - (IF off = 0 THEN PathLen ELSE 0)
  BY LedgerAssumption DEF ChunkEnd, Smaller, PathLen, MaxTxChunk
<1> HIDE DEF end
<1>3. end - off + (IF i = 1 THEN PathLen ELSE 0) <= MaxApduPayload
  BY <1>1, <1>2, LedgerAssumption DEF PathLen, MaxTxChunk, MaxApduPayload
<1> QED
  BY <1>3 DEF Fits, end

LEMMA PieceGrows ==
  ASSUME NEW chunks \in Seq(Chunk), NEW chunk \in Chunk, Fits(chunk, Len(chunks) + 1),
         IF chunks = <<>> THEN chunk.start = 0 ELSE PieceOf(chunks, chunk.start)
  PROVE  PieceOf(Append(chunks, chunk), chunk.end)
<1> DEFINE more == Append(chunks, chunk)
<1>1. /\ Len(chunks) \in Nat /\ Len(more) = Len(chunks) + 1
      /\ DOMAIN chunks = 1..Len(chunks) /\ DOMAIN more = 1..(Len(chunks) + 1)
      /\ \A i \in 1..Len(chunks) : more[i] = chunks[i]
      /\ more[Len(chunks) + 1] = chunk
      /\ more /= <<>>
  BY AppendProperties, LenProperties
<1> HIDE DEF more
<1>2. ASSUME chunks = <<>> PROVE PieceOf(more, chunk.end)
  <2>1. Len(chunks) = 0 /\ chunk.start = 0
    BY <1>2
  <2>2. DOMAIN more = {1} /\ more[1] = chunk /\ Len(more) = 1
    BY <1>1, <2>1
  <2> QED
    BY <1>1, <2>1, <2>2 DEF PieceOf
<1>3. ASSUME chunks /= <<>> PROVE PieceOf(more, chunk.end)
  <2>1. Len(chunks) > 0 /\ PieceOf(chunks, chunk.start)
    BY <1>1, <1>3, EmptySeq
  <2>2. more[1].start = 0 /\ more[Len(more)].end = chunk.end
    BY <1>1, <2>1 DEF PieceOf
  <2>3. ASSUME NEW i \in DOMAIN more
        PROVE  (i > 1 => more[i].start = more[i - 1].end) /\ Fits(more[i], i)
    <3>1. CASE i <= Len(chunks)
      <4>1. i \in DOMAIN chunks /\ more[i] = chunks[i] /\ (i > 1 => more[i - 1] = chunks[i - 1])
        BY <1>1, <2>3, <3>1
      <4> QED
        BY <2>1, <4>1 DEF PieceOf
    <3>2. CASE i = Len(chunks) + 1
      <4>1. more[i] = chunk /\ more[i - 1] = chunks[Len(chunks)]
        BY <1>1, <2>1, <3>2
      <4> QED
        BY <2>1, <3>2, <4>1 DEF PieceOf
    <3> QED
      BY <1>1, <2>3, <3>1, <3>2
  <2> QED
    BY <1>1, <2>2, <2>3 DEF PieceOf
<1> QED
  BY <1>2, <1>3 DEF more

LEMMA WholeWrite ==
  ASSUME Typed, OffsetInv, WholeInv, Write
  PROVE  WholeInv'
<1>1. pc = "write" /\ n' = n /\ op' = op
  BY DEF Write
<1>2. CASE op[n].kind /= "sign"
  BY <1>1, <1>2 DEF WholeInv
<1>3. CASE op[n].kind = "sign"
  <2> DEFINE len == op[n].len
             end == ChunkEnd(offset, len)
  <2>1. len \in Nat /\ offset \in Nat /\ offset < len /\ end \in Nat /\ end > 0
    BY <1>1, <1>3, WriteChunk
  <2>2. PICK p1 \in {P1First, P1More} :
          /\ offset' = end
          /\ written' = Append(written, [start |-> offset, end |-> end, p1 |-> p1])
          /\ \/ end = len /\ pc' = "first"
             \/ end /= len /\ UNCHANGED pc
    BY <1>3 DEF Write, IsLast
  <2> DEFINE chunk == [start |-> offset, end |-> end, p1 |-> p1]
  <2>3. chunk \in Chunk /\ chunk.start = offset /\ chunk.end = end
    BY <2>1 DEF Chunk
  <2>4. IF written = <<>> THEN offset = 0 ELSE offset > 0 /\ PieceOf(written, offset)
    BY <1>1, <1>3 DEF WholeInv
  <2>5. written \in Seq(Chunk) /\ Len(written) \in Nat
    BY LenProperties DEF Typed, TypeOK
  <2>6. Len(written) + 1 = 1 <=> offset = 0
    BY <2>1, <2>4, <2>5, EmptySeq
  <2>7. Fits(chunk, Len(written) + 1)
    BY <2>1, <2>5, <2>6, ChunkFits
  <2> HIDE DEF chunk, len, end
  <2>8. PieceOf(Append(written, chunk), end)
    BY <2>3, <2>4, <2>5, <2>7, PieceGrows
  <2>9. written' = Append(written, chunk) /\ written' /= <<>>
    BY <2>2, <2>3, <2>5, AppendProperties DEF chunk
  <2> QED
    BY <1>1, <1>3, <2>1, <2>2, <2>8, <2>9 DEF WholeInv, len
<1> QED
  BY <1>2, <1>3

LEMMA WholeStep ==
  ASSUME Typed, OffsetInv, WholeInv, [Next]_vars
  PROVE  WholeInv'
<1>1. CASE UNCHANGED hostVars
  BY <1>1 DEF hostVars, WholeInv
<1>2. ASSUME NEW kind \in Ops, NEW len \in TxLens \union {0}, Begin(kind, len) PROVE WholeInv'
  <2>1. written' = <<>> /\ offset' = 0 /\ pc' \in {"idle", "write"}
    BY <1>2 DEF Begin
  <2> QED
    BY <2>1 DEF WholeInv
<1>3. CASE Write
  BY <1>3, WholeWrite
<1>4. CASE HidError \/ FirstTimeout
  BY <1>4 DEF HidError, FirstTimeout, Return, WholeInv
<1>5. ASSUME NEW pkt, Collect(pkt), pc = "more" PROVE WholeInv'
  BY <1>5 DEF Collect, Finish, Return, WholeInv
<1>6. CASE ReadFirst
  BY <1>6 DEF ReadFirst, Finish, Return, WholeInv
<1>7. CASE ReadMore \/ MoreTimeout
  BY <1>5, <1>7 DEF ReadMore, MoreTimeout
<1> QED
  BY <1>1, <1>2, <1>3, <1>4, <1>6, <1>7
     DEF Next, vars, Call, CliCommand, Connect, Answer

\* When a signature is awaited the whole transaction was written, in order and
\* in payloads an APDU can hold, whatever its length.
THEOREM WritesAll == Spec => []WritesWhole
<1>1. Init => WholeInv
  BY DEF Init, WholeInv
<1>2. WholeInv => WritesWhole
  BY DEF WholeInv, WritesWhole, PieceOf, Fits
<1>3. Typed /\ OffsetInv /\ WholeInv /\ [Next]_vars => WholeInv'
  BY WholeStep
<1> QED
  BY <1>1, <1>2, <1>3, InitTyped, TypedStep, PTL DEF Spec

-----------------------------------------------------------------------------
\* The packets of the device's answer to a command.
IsAnswer(pkts, from, kind) ==
  \E status \in {"ok", "denied"} :
    LET tot == ReplyTotal(kind, status)
    IN  /\ Len(pkts) = PacketsFor(tot)
        /\ \A i \in 1..PacketsFor(tot) :
             pkts[i] = [first |-> i = 1, total |-> tot, from |-> from, status |-> status]

\* Every call before this one sent one command and was answered.
Clear == \A j \in 1..(n - 1) : Answered(j) /\ Single(j)

\* Nothing on the way is of another call.
Mine ==
  pc /= "idle" => /\ \A i \in DOMAIN queue : queue[i].from = n
                  /\ \A i \in DOMAIN wire : wire[i].from = n
                  /\ \A i \in DOMAIN got : got[i].from = n

\* What is under way for a current call of one command when nothing was left
\* behind before it: nothing, its command, its answer, or the rest of that.
UnderWay ==
  /\ pc = "idle" /\ (n > 0 => Answered(n)) => queue = <<>> /\ wire = <<>>
  /\ pc = "write" => queue = <<>> /\ wire = <<>> /\ offset = 0
  /\ pc = "first" =>
       \/ /\ wire = <<>> /\ Len(queue) = 1
          /\ queue[1].from = n /\ queue[1].kind = op[n].kind
       \/ queue = <<>> /\ IsAnswer(wire, n, op[n].kind)
  /\ pc = "more" => /\ queue = <<>> /\ total = 2 /\ op[n].kind = "sign"
                     /\ Len(got) = 1 /\ Len(wire) = 1
                     /\ IsAnswer(<<got[1], wire[1]>>, n, "sign")

OwnInv == AnswersAreOwn /\ (Clear => Mine /\ (n = 0 \/ Single(n) => UnderWay))

\* Whose an outcome is, when the first packet is the current call's.
LEMMA OutcomeOwn ==
  ASSUME NEW pkts, pkts[1].from = n
  PROVE  Outcome(pkts).from = n
  BY DEF Outcome

\* A return of the current call with its own answer, or with none.
LEMMA OwnReturn ==
  ASSUME Typed, AnswersAreOwn, pc /= "idle", HostRuns,
         Clear => result'[n].status /= "ok" \/ result'[n].from = n
  PROVE  AnswersAreOwn'
<1>1. n \in Calls /\ n' = n /\ op' = op /\ result[n] = Pending
  BY Current DEF HostRuns
<1> SUFFICES ASSUME NEW i \in Calls, result'[i].status = "ok",
                    \A j \in 1..(i - 1) : Answered(j)' /\ Single(j)'
             PROVE  result'[i].from = i
  BY DEF AnswersAreOwn
<1>2. ASSUME NEW j \in Calls, j /= n
      PROVE  Answered(j)' /\ Single(j)' <=> Answered(j) /\ Single(j)
  <2>1. result'[j] = result[j]
    BY <1>2 DEF HostRuns
  <2> QED
    BY <1>1, <2>1 DEF Answered, Single
<1>3. n \in Nat /\ i \in Nat /\ \A j \in 1..(i - 1) : j \in Calls /\ j < i
  BY <1>1, LedgerAssumption DEF Calls
<1>4. CASE i > n
  <2>1. result'[i] = Pending
    BY <1>1, <1>3, <1>4 DEF HostRuns, Typed
  <2> QED
    BY <2>1 DEF Pending
<1>5. CASE i < n
  <2>1. \A j \in 1..(i - 1) : Answered(j) /\ Single(j)
    BY <1>2, <1>3, <1>5
  <2>2. result'[i] = result[i]
    BY <1>1, <1>3, <1>5 DEF HostRuns
  <2> QED
    BY <2>1, <2>2 DEF AnswersAreOwn
<1>6. CASE i = n
  <2>1. Clear
    BY <1>2, <1>3, <1>6 DEF Clear
  <2> QED
    BY <1>6, <2>1
<1> QED
  BY <1>3, <1>4, <1>5, <1>6

LEMMA ClearKept ==
  ASSUME Typed, pc /= "idle", HostRuns, Clear'
  PROVE  Clear
<1>1. n \in Calls /\ n' = n /\ op' = op
  BY Current DEF HostRuns
<1> SUFFICES ASSUME NEW j \in 1..(n - 1) PROVE Answered(j) /\ Single(j)
  BY DEF Clear
<1>2. j \in Calls /\ j /= n
  BY <1>1, LedgerAssumption DEF Calls
<1>3. result'[j] = result[j]
  BY <1>2 DEF HostRuns
<1>4. Answered(j)' /\ Single(j)'
  BY <1>1 DEF Clear
<1> QED
  BY <1>1, <1>3, <1>4 DEF Answered, Single

\* An answer is one or two packets, as its first packet says.
LEMMA FirstOfAnswer ==
  ASSUME NEW pkts \in Seq(Packet), NEW from, NEW kind \in Ops, IsAnswer(pkts, from, kind)
  PROVE  /\ Len(pkts) \in {1, 2}
         /\ Len(pkts) = 2 => kind = "sign"
         /\ pkts[1].first = TRUE
         /\ Len(pkts) = PacketsFor(pkts[1].total)
<1>1. PICK status \in {"ok", "denied"} :
        /\ Len(pkts) = PacketsFor(ReplyTotal(kind, status))
        /\ \A i \in 1..PacketsFor(ReplyTotal(kind, status)) :
             pkts[i] = [first |-> i = 1, total |-> ReplyTotal(kind, status),
                        from |-> from, status |-> status]
  BY DEF IsAnswer
<1> DEFINE tot == ReplyTotal(kind, status)
<1>2. Len(pkts) = PacketsFor(tot)
  BY <1>1
<1>3. \A i \in 1..PacketsFor(tot) :
        pkts[i] = [first |-> i = 1, total |-> tot, from |-> from, status |-> status]
  BY <1>1
<1>4. PacketsFor(tot) \in {1, 2} /\ (PacketsFor(tot) = 2 => kind = "sign")
  BY ReplyTotalType
<1> HIDE DEF tot
<1>5. 1 \in 1..PacketsFor(tot)
  BY <1>4
<1>6. pkts[1] = [first |-> 1 = 1, total |-> tot, from |-> from, status |-> status]
  BY <1>3, <1>5
<1>7. (1 = 1) = TRUE
  OBVIOUS
<1>8. pkts[1] = [first |-> TRUE, total |-> tot, from |-> from, status |-> status]
  BY <1>6, <1>7, Zenon
<1> QED
  BY <1>2, <1>4, <1>8

\* What the device sends is an answer.
LEMMA PacketsAnswer ==
  ASSUME NEW from \in Calls, NEW kind \in Ops, NEW status \in {"ok", "denied"}
  PROVE  IsAnswer(Packets(from, ReplyTotal(kind, status), status), from, kind)
<1> DEFINE tot == ReplyTotal(kind, status)
           pkts == Packets(from, tot, status)
<1>1. PacketsFor(tot) \in Nat
  BY ReplyTotalType
<1> HIDE DEF tot
<1>2. pkts = [i \in 1..PacketsFor(tot) |->
               [first |-> i = 1, total |-> tot, from |-> from, status |-> status]]
  BY DEF Packets
<1> HIDE DEF pkts
<1>3. DOMAIN pkts = 1..PacketsFor(tot)
  BY <1>2
<1>4. pkts \in Seq(Packet)
  BY PacketsType DEF pkts, tot
<1>5. Len(pkts) = PacketsFor(tot)
  BY <1>1, <1>3, <1>4, LenProperties
<1>6. \A i \in 1..PacketsFor(tot) :
        pkts[i] = [first |-> i = 1, total |-> tot, from |-> from, status |-> status]
  BY <1>2, Zenon
<1> QED
  BY <1>5, <1>6 DEF IsAnswer, tot, pkts

\* A call that returns without an answer leaves nothing to show.
LEMMA Unanswered ==
  ASSUME Typed, OwnInv, pc /= "idle", HostRuns, pc' = "idle",
         result'[n].status \notin {"ok", "denied", "empty"}
  PROVE  OwnInv'
<1>1. n \in Calls /\ n' = n /\ n > 0
  BY Current DEF HostRuns, Calls
<1>2. AnswersAreOwn'
  BY OwnReturn DEF OwnInv
<1>3. ~Answered(n)'
  BY <1>1 DEF Answered
<1>4. UnderWay' /\ Mine'
  BY <1>1, <1>3 DEF UnderWay, Mine, Answered
<1> QED
  BY <1>2, <1>4 DEF OwnInv

\* A call that returns with an answer of its own leaves nothing behind when it
\* sent one command.
LEMMA AnsweredWhole ==
  ASSUME Typed, OwnInv, pc /= "idle", NEW pkts, Finish(pkts),
         Clear => pkts[1].from = n,
         Clear /\ Single(n) => \/ queue' = <<>> /\ wire' = <<>>
                              \/ Outcome(pkts).status \notin {"ok", "denied", "empty"}
  PROVE  OwnInv'
<1>1. HostRuns /\ pc' = "idle" /\ result'[n].status = Outcome(pkts).status
      /\ result'[n].from = Outcome(pkts).from
  BY FinishRuns
<1>2. n' = n /\ op' = op /\ n \in Calls /\ n > 0 /\ n \in Nat
  BY <1>1, Current DEF HostRuns, Calls
<1>3. Clear => result'[n].from = n
  BY <1>1, OutcomeOwn
<1>4. AnswersAreOwn'
  BY <1>1, <1>3, OwnReturn DEF OwnInv
<1>5. (Clear' => Clear) /\ Mine'
  BY <1>1, ClearKept DEF Mine
<1>6. Clear /\ Single(n)' => UnderWay'
  BY <1>1, <1>2 DEF UnderWay, Single, Answered
<1> QED
  BY <1>2, <1>4, <1>5, <1>6 DEF OwnInv

LEMMA OwnReadFirst ==
  ASSUME Typed, OwnInv, ReadFirst
  PROVE  OwnInv'
<1>1. /\ pc = "first" /\ wire /= <<>> /\ wire' = Tail(wire) /\ queue' = queue
  BY DEF ReadFirst
<1>2. /\ wire \in Seq(Packet) /\ Len(wire) \in Nat /\ Len(wire) > 0 /\ Head(wire) = wire[1]
      /\ Tail(wire) \in Seq(Packet) /\ Len(Tail(wire)) = Len(wire) - 1
      /\ \A i \in 1..Len(Tail(wire)) : Tail(wire)[i] = wire[i + 1]
  BY <1>1, HeadTailProperties, LenProperties, EmptySeq DEF Typed, TypeOK
<1>3. op[n].kind \in Ops /\ n \in Calls /\ n > 0
  BY <1>1, Current DEF Operation, Calls
<1>4. Clear /\ Single(n) => queue = <<>> /\ IsAnswer(wire, n, op[n].kind)
  BY <1>1, <1>3 DEF OwnInv, UnderWay
<1>5. Clear /\ Single(n) => /\ Len(wire) \in {1, 2}
                            /\ Len(wire) = 2 => op[n].kind = "sign"
                            /\ wire[1].first = TRUE
                            /\ Len(wire) = PacketsFor(wire[1].total)
  BY <1>2, <1>3, <1>4, FirstOfAnswer
<1>6. PICK want \in 1..(MaxGarbage + 1) :
        /\ wire[1].first => want = PacketsFor(wire[1].total)
        /\ IF want = 1 THEN Finish(<<wire[1]>>)
           ELSE /\ got' = <<wire[1]>> /\ total' = want /\ pc' = "more"
                /\ UNCHANGED <<n, op, offset, result, written>>
  BY <1>2 DEF ReadFirst
<1>7. Clear /\ Single(n) => want = Len(wire)
  BY <1>5, <1>6
<1>8. wire[1] \in Packet
  BY <1>2, ElementOfSeq
<1>9. ASSUME Clear PROVE /\ \A i \in DOMAIN queue : queue[i].from = n
                         /\ \A i \in DOMAIN wire : wire[i].from = n
                         /\ wire[1].from = n
  <2>1. 1 \in DOMAIN wire
    BY <1>2, LenProperties
  <2> QED
    BY <1>1, <1>9, <2>1 DEF OwnInv, Mine
<1>10. CASE want = 1
  <2>1. Finish(<<wire[1]>>) /\ <<wire[1]>>[1] = wire[1]
    BY <1>6, <1>10
  <2>2. Clear /\ Single(n) => queue' = <<>> /\ wire' = <<>>
    BY <1>1, <1>2, <1>4, <1>7, <1>10, EmptySeq
  <2> DEFINE pkts == <<wire[1]>>
  <2>3. Finish(pkts) /\ (Clear => pkts[1].from = n)
    BY <1>9, <2>1
  <2> HIDE DEF pkts
  <2> QED
    BY <1>1, <2>2, <2>3, AnsweredWhole
<1>11. CASE want /= 1
  <2>1. got' = <<wire[1]>> /\ total' = want /\ pc' = "more" /\ UNCHANGED <<n, op, result>>
    BY <1>6, <1>11
  <2>2. AnswersAreOwn' /\ (Clear' => Clear) /\ (Single(n)' <=> Single(n))
    BY <2>1 DEF OwnInv, AnswersAreOwn, Clear, Answered, Single
  <2>3. ASSUME Clear PROVE Mine'
    <3>1. \A i \in DOMAIN got' : got'[i].from = n
      BY <1>9, <2>1, <2>3
    <3>2. \A i \in DOMAIN wire' : wire'[i] = wire[i + 1] /\ i + 1 \in DOMAIN wire
      BY <1>1, <1>2, LenProperties
    <3> QED
      BY <1>1, <1>9, <2>1, <2>3, <3>1, <3>2 DEF Mine
  <2>4. ASSUME Clear, Single(n) PROVE UnderWay'
    <3>1. Len(wire) = 2 /\ op[n].kind = "sign" /\ total' = 2
      BY <1>5, <1>7, <1>11, <2>1, <2>4
    <3>2. Len(wire') = 1 /\ wire'[1] = wire[2]
      <4>1. Len(Tail(wire)) = 1
        BY <1>2, <3>1
      <4>2. Tail(wire)[1] = wire[1 + 1]
        BY <1>2, <4>1
      <4> QED
        BY <1>1, <4>1, <4>2
    <3>3. wire[2] \in Packet
      BY <1>2, <3>1, ElementOfSeq
    <3>4. wire = <<wire[1], wire[2]>>
      BY <1>2, <1>8, <3>1, <3>3, SeqEqual
    <3>5. <<got'[1], wire'[1]>> = wire
      BY <2>1, <3>2, <3>4
    <3>6. IsAnswer(<<got'[1], wire'[1]>>, n, "sign")
      BY <1>4, <2>4, <3>1, <3>5, Zenon
    <3>7. Len(got') = 1
      BY <2>1
    <3>8. n' = n /\ op'[n'].kind = "sign" /\ queue' = <<>>
      BY <1>1, <1>4, <2>1, <2>4, <3>1
    <3>9. IsAnswer(<<got[1], wire[1]>>, n, "sign")'
      BY <3>6, <3>8 DEF IsAnswer
    <3> QED
      BY <2>1, <3>1, <3>2, <3>7, <3>8, <3>9 DEF UnderWay
  <2> QED
    BY <1>3, <2>1, <2>2, <2>3, <2>4 DEF OwnInv
<1> QED
  BY <1>10, <1>11

\* The packets got and one more of the current call's are its own.
LEMMA GotMine ==
  ASSUME Typed, NEW pkt \in Packet, pkt.from = n,
         \A i \in DOMAIN got : got[i].from = n
  PROVE  /\ \A i \in DOMAIN Append(got, pkt) : Append(got, pkt)[i].from = n
         /\ Append(got, pkt)[1].from = n
<1> DEFINE more == Append(got, pkt)
<1>1. /\ Len(got) \in Nat /\ Len(more) = Len(got) + 1 /\ more \in Seq(Packet)
      /\ DOMAIN got = 1..Len(got) /\ DOMAIN more = 1..(Len(got) + 1)
      /\ \A i \in 1..Len(got) : more[i] = got[i]
      /\ more[Len(got) + 1] = pkt
  BY AppendProperties, LenProperties DEF Typed, TypeOK
<1> HIDE DEF more
<1>2. \A i \in DOMAIN more : more[i].from = n
  BY <1>1
<1>3. 1 \in DOMAIN more
  BY <1>1
<1> QED
  BY <1>2, <1>3 DEF more

\* One more packet, of the current call when nothing else is under way.
LEMMA OwnCollect ==
  ASSUME Typed, OwnInv, pc = "more", NEW pkt \in Packet, Collect(pkt), queue' = queue,
         Clear => pkt.from = n /\ \A i \in DOMAIN wire' : wire'[i].from = n,
         Clear /\ Single(n) =>
           /\ total = 2 /\ Len(got) = 1
           /\ \/ queue = <<>> /\ wire' = <<>>
              \/ Outcome(Append(got, pkt)).status \notin {"ok", "denied", "empty"}
  PROVE  OwnInv'
<1> DEFINE pkts == Append(got, pkt)
<1>1. Len(pkts) = Len(got) + 1 /\ n \in Calls /\ n > 0
  BY AppendProperties, Current DEF Typed, TypeOK, Calls
<1>2. ASSUME Clear PROVE /\ \A i \in DOMAIN queue : queue[i].from = n
                         /\ \A i \in DOMAIN pkts : pkts[i].from = n
                         /\ pkts[1].from = n
  <2>1. \A i \in DOMAIN got : got[i].from = n
    BY <1>2 DEF OwnInv, Mine
  <2> QED
    BY <1>2, <2>1, GotMine DEF OwnInv, Mine
<1>3. IF Len(pkts) >= total THEN Finish(pkts)
      ELSE got' = pkts /\ UNCHANGED <<n, op, pc, offset, total, result, written>>
  BY DEF Collect
<1>4. Clear /\ Single(n) => \/ queue' = <<>> /\ wire' = <<>>
                            \/ Outcome(pkts).status \notin {"ok", "denied", "empty"}
  OBVIOUS
<1> HIDE DEF pkts
<1>5. CASE Len(pkts) >= total
  BY <1>2, <1>3, <1>4, <1>5, AnsweredWhole
<1>6. CASE ~(Len(pkts) >= total)
  <2>1. got' = pkts /\ UNCHANGED <<n, op, pc, offset, total, result, written>>
    BY <1>3, <1>6
  <2>2. AnswersAreOwn' /\ (Clear' => Clear) /\ (Single(n)' <=> Single(n))
    BY <2>1 DEF OwnInv, AnswersAreOwn, Clear, Answered, Single
  <2>3. ~(Clear /\ Single(n))
    BY <1>1, <1>6
  <2>4. Clear => Mine'
    BY <1>2, <2>1 DEF Mine
  <2> QED
    BY <1>1, <2>1, <2>2, <2>3, <2>4 DEF OwnInv
<1> QED
  BY <1>5, <1>6

LEMMA OwnReadMore ==
  ASSUME Typed, OwnInv, ReadMore
  PROVE  OwnInv'
<1>1. /\ pc = "more" /\ wire /= <<>> /\ wire' = Tail(wire) /\ queue' = queue
      /\ Collect(Head(wire))
  BY DEF ReadMore
<1>2. /\ wire \in Seq(Packet) /\ Head(wire) \in Packet /\ Head(wire) = wire[1]
      /\ Tail(wire) \in Seq(Packet) /\ Len(Tail(wire)) = Len(wire) - 1
      /\ \A i \in 1..Len(Tail(wire)) : Tail(wire)[i] = wire[i + 1]
      /\ Len(wire) \in Nat /\ Len(wire) > 0
  BY <1>1, HeadTailProperties, LenProperties, EmptySeq DEF Typed, TypeOK
<1>3. Clear => wire[1].from = n /\ \A i \in DOMAIN wire' : wire'[i].from = n
  <2> SUFFICES ASSUME Clear PROVE wire[1].from = n /\ \A i \in DOMAIN wire' : wire'[i].from = n
    OBVIOUS
  <2>1. \A i \in DOMAIN wire : wire[i].from = n
    BY <1>1 DEF OwnInv, Mine
  <2>2. \A i \in DOMAIN wire' : wire'[i] = wire[i + 1] /\ i + 1 \in DOMAIN wire
    BY <1>1, <1>2, LenProperties
  <2>3. 1 \in DOMAIN wire
    BY <1>2, LenProperties
  <2> QED
    BY <2>1, <2>2, <2>3
<1>4. n \in Calls /\ n > 0
  BY <1>1, Current DEF Calls
<1>5. Clear /\ Single(n) => /\ queue = <<>> /\ total = 2 /\ Len(got) = 1 /\ Len(wire) = 1
  BY <1>1, <1>4 DEF OwnInv, UnderWay
<1>6. Clear /\ Single(n) => wire' = <<>>
  BY <1>1, <1>2, <1>5, EmptySeq
<1> QED
  BY <1>1, <1>2, <1>3, <1>5, <1>6, OwnCollect

LEMMA OwnMoreTimeout ==
  ASSUME Typed, OwnInv, MoreTimeout
  PROVE  OwnInv'
<1>1. pc = "more" /\ Collect(Zeros) /\ UNCHANGED <<wire, queue>>
  BY DEF MoreTimeout
<1>2. n \in Calls /\ n > 0
  BY <1>1, Current DEF Calls
<1>3. Zeros \in Packet /\ Zeros.first = TRUE /\ Zeros.from = n
  BY <1>2 DEF Zeros, Packet
<1>4. got \in Seq(Packet)
  BY DEF Typed, TypeOK
<1> DEFINE pkts == Append(got, Zeros)
<1>5. /\ Len(pkts) = Len(got) + 1 /\ pkts[Len(got) + 1] = Zeros /\ Len(got) \in Nat
  BY <1>3, <1>4, AppendProperties, LenProperties
<1>6. Clear /\ Single(n) => total = 2 /\ Len(got) = 1
  BY <1>1, <1>2 DEF OwnInv, UnderWay
<1> HIDE DEF pkts
<1>7. ASSUME Clear, Single(n) PROVE Outcome(pkts).status = "frame"
  <2>1. Len(got) = 1
    BY <1>6, <1>7, Zenon
  <2>2. Len(got) + 1 = 2
    BY <2>1
  <2>3. Len(pkts) = 2 /\ pkts[2] = Zeros
    BY <1>5, <2>2, Zenon
  <2>4. 2 \in 2..Len(pkts) /\ pkts[2].first = TRUE
    BY <1>3, <2>3
  <2>5. ~Framed(pkts)
    BY <2>4 DEF Framed
  <2> QED
    BY <2>5 DEF Outcome
<1>8. Clear => \A i \in DOMAIN wire' : wire'[i].from = n
  BY <1>1 DEF OwnInv, Mine
<1>9. Clear /\ Single(n) => Outcome(pkts).status \notin {"ok", "denied", "empty"}
  BY <1>7
<1> QED
  BY <1>1, <1>3, <1>6, <1>8, <1>9, OwnCollect DEF pkts

LEMMA OwnBegin ==
  ASSUME Typed, OwnInv, NEW kind \in Ops, NEW len \in TxLens \union {0}, Begin(kind, len),
         wire' \in {wire, <<>>}
  PROVE  OwnInv'
<1>1. /\ pc = "idle" /\ n' = n + 1 /\ n + 1 \in Calls /\ n \in Nat
      /\ queue' = queue /\ pc' \in {"idle", "write"} /\ got' = <<>> /\ offset' = 0
      /\ result'[n + 1].status /= "ok"
  <2>1. result'[n + 1] \in {Pending, [status |-> "empty", from |-> n + 1]}
    BY BeginRuns
  <2>2. result'[n + 1].status /= "ok"
    BY <2>1 DEF Pending
  <2> QED
    BY <2>2, BeginRuns
<1>2. \A i \in Calls : i /= n + 1 => result'[i] = result[i] /\ op'[i] = op[i]
  BY BeginRuns
<1>3. \A i \in 1..n : i \in Calls /\ i /= n + 1
  BY <1>1, LedgerAssumption DEF Calls
<1>4. AnswersAreOwn'
  <2> SUFFICES ASSUME NEW i \in Calls, result'[i].status = "ok",
                      \A j \in 1..(i - 1) : Answered(j)' /\ Single(j)'
               PROVE  result'[i].from = i
    BY DEF AnswersAreOwn
  <2>1. i /= n + 1 /\ result'[i] = result[i]
    BY <1>1, <1>2
  <2>2. i <= n
    <3> SUFFICES ASSUME i > n PROVE FALSE
      BY <1>1 DEF Calls
    <3>1. result[i] = Pending
      BY DEF Typed
    <3> QED
      BY <2>1, <3>1 DEF Pending
  <2>3. \A j \in 1..(i - 1) : result'[j] = result[j] /\ op'[j] = op[j]
    BY <1>1, <1>2, <1>3, <2>2 DEF Calls
  <2>4. \A j \in 1..(i - 1) : Answered(j) /\ Single(j)
    BY <2>3 DEF Answered, Single
  <2> QED
    BY <2>1, <2>4 DEF OwnInv, AnswersAreOwn
<1>5. ASSUME Clear' PROVE UnderWay' /\ Mine'
  <2>1. \A j \in 1..n : Answered(j)' /\ Single(j)'
    BY <1>1, <1>5 DEF Clear
  <2>2. \A j \in 1..n : Answered(j) /\ Single(j)
    BY <1>2, <1>3, <2>1 DEF Answered, Single
  <2>3. Clear /\ (n > 0 => Answered(n)) /\ (n = 0 \/ Single(n))
    BY <1>1, <2>2 DEF Clear
  <2>4. queue = <<>> /\ wire = <<>>
    BY <1>1, <2>3 DEF OwnInv, UnderWay
  <2>5. queue' = <<>> /\ wire' = <<>> /\ DOMAIN (<<>>) = {}
    BY <1>1, <2>4
  <2> QED
    BY <1>1, <2>5 DEF UnderWay, Mine
<1> QED
  BY <1>4, <1>5 DEF OwnInv

\* A command of the current call joins those that the device has.
LEMMA TakesMine ==
  ASSUME Typed, NEW kind, Takes(kind), n \in Calls, kind \in Ops \union {"chunk"},
         \A i \in DOMAIN queue : queue[i].from = n
  PROVE  /\ \A i \in DOMAIN queue' : queue'[i].from = n
         /\ queue = <<>> => Len(queue') = 1 /\ queue'[1].from = n /\ queue'[1].kind = kind
<1> DEFINE cmd == [from |-> n, kind |-> kind]
<1>1. cmd \in Command /\ cmd.from = n /\ cmd.kind = kind
  BY DEF Command
<1> HIDE DEF cmd
<1>2. /\ Len(queue) \in Nat /\ DOMAIN queue = 1..Len(queue)
      /\ DOMAIN queue' = 1..(Len(queue) + 1) /\ Len(queue') = Len(queue) + 1
      /\ \A i \in 1..Len(queue) : queue'[i] = queue[i]
      /\ queue'[Len(queue) + 1] = cmd
  BY <1>1, AppendProperties, LenProperties DEF Takes, cmd, Typed, TypeOK
<1>3. queue = <<>> => Len(queue) = 0
  OBVIOUS
<1> QED
  BY <1>1, <1>2, <1>3

LEMMA OwnWrite ==
  ASSUME Typed, OffsetInv, OwnInv, Write
  PROVE  OwnInv'
<1>1. pc = "write" /\ UNCHANGED <<n, op, total, got, result, wire>>
  BY DEF Write
<1>2. AnswersAreOwn' /\ (Clear' => Clear) /\ (Single(n)' <=> Single(n))
  BY <1>1 DEF OwnInv, AnswersAreOwn, Clear, Answered, Single
<1>3. n \in Calls /\ n > 0 /\ op[n].kind \in Ops
  BY <1>1, Current DEF Calls, Operation
<1>4. PICK kind \in Ops \union {"chunk"} : Takes(kind) \/ UNCHANGED queue
  BY <1>3 DEF Write
<1>5. ASSUME Clear PROVE Mine'
  <2>1. /\ \A i \in DOMAIN queue : queue[i].from = n
        /\ \A i \in DOMAIN wire : wire[i].from = n
        /\ \A i \in DOMAIN got : got[i].from = n
    BY <1>1, <1>5 DEF OwnInv, Mine
  <2>2. \A i \in DOMAIN queue' : queue'[i].from = n
    BY <1>3, <1>4, <2>1, TakesMine
  <2> QED
    BY <1>1, <2>1, <2>2 DEF Mine
<1>6. ASSUME Clear, Single(n) PROVE UnderWay'
  <2>1. queue = <<>> /\ wire = <<>> /\ offset = 0
    BY <1>1, <1>3, <1>6 DEF OwnInv, UnderWay
  <2>2. Takes(op[n].kind) /\ pc' = "first"
    <3>1. CASE op[n].kind /= "sign"
      BY <3>1 DEF Write
    <3>2. CASE op[n].kind = "sign"
      <4>1. op[n].len \in Nat /\ op[n].len <= MaxTxChunk - PathLen
        BY <1>1, <1>6, <3>2, WriteChunk DEF Single
      <4>2. ChunkEnd(offset, op[n].len) = op[n].len
        BY <2>1, <4>1, LedgerAssumption DEF ChunkEnd, Smaller, PathLen, MaxTxChunk
      <4> QED
        BY <3>2, <4>2 DEF Write, IsLast
    <3> QED
      BY <3>1, <3>2
  <2>3. \A i \in DOMAIN queue : queue[i].from = n
    BY <2>1
  <2>4. Len(queue') = 1 /\ queue'[1].from = n /\ queue'[1].kind = op[n].kind
    BY <1>3, <2>1, <2>2, <2>3, TakesMine
  <2> QED
    BY <1>1, <2>1, <2>2, <2>4 DEF UnderWay
<1> QED
  BY <1>1, <1>2, <1>3, <1>5, <1>6 DEF OwnInv

LEMMA OwnAnswer ==
  ASSUME Typed, OwnInv, Answer
  PROVE  OwnInv'
<1>1. queue /= <<>> /\ queue' = Tail(queue) /\ UNCHANGED hostVars
  BY DEF Answer
<1>2. /\ Head(queue) = queue[1] /\ Head(queue) \in Command
      /\ Tail(queue) \in Seq(Command) /\ Len(Tail(queue)) = Len(queue) - 1
      /\ \A i \in 1..Len(Tail(queue)) : Tail(queue)[i] = queue[i + 1]
      /\ Len(queue) \in Nat /\ Len(queue) > 0
  BY <1>1, HeadTailProperties, LenProperties, EmptySeq DEF Typed, TypeOK
<1>3. AnswersAreOwn' /\ (Clear' => Clear) /\ (Single(n)' <=> Single(n))
  BY <1>1 DEF hostVars, OwnInv, AnswersAreOwn, Clear, Answered, Single
<1>4. PICK status \in {"ok", "denied"} :
        wire' = wire \o Packets(Head(queue).from, ReplyTotal(Head(queue).kind, status), status)
  BY DEF Answer, ReplyTotal
<1>5. ASSUME Clear PROVE Mine'
  <2> SUFFICES ASSUME pc /= "idle" PROVE Mine'
    BY <1>1 DEF Mine, hostVars
  <2> DEFINE from == Head(queue).from
             reply == Packets(from, ReplyTotal(Head(queue).kind, status), status)
  <2>1. /\ \A i \in DOMAIN queue : queue[i].from = n
        /\ \A i \in DOMAIN wire : wire[i].from = n
        /\ \A i \in DOMAIN got : got[i].from = n
    BY <1>5 DEF OwnInv, Mine
  <2>2. 1 \in DOMAIN queue /\ \A i \in DOMAIN queue' : queue'[i] = queue[i + 1] /\ i + 1 \in DOMAIN queue
    BY <1>1, <1>2, LenProperties DEF Typed, TypeOK
  <2>3. from = n /\ \A i \in DOMAIN queue' : queue'[i].from = n
    BY <1>2, <2>1, <2>2
  <2>4. reply \in Seq(Packet) /\ \A i \in DOMAIN reply : reply[i].from = from
    BY <1>2, PacketsType DEF Command
  <2>5. wire' = wire \o reply /\ wire \in Seq(Packet)
    BY <1>4 DEF Typed, TypeOK
  <2> HIDE DEF from, reply
  <2>6. \A i \in DOMAIN wire' : wire'[i].from = n
    <3>1. /\ Len(wire') = Len(wire) + Len(reply) /\ wire' \in Seq(Packet)
          /\ \A i \in 1..Len(wire) : wire'[i] = wire[i]
          /\ \A i \in (Len(wire) + 1)..(Len(wire) + Len(reply)) : wire'[i] = reply[i - Len(wire)]
      BY <2>4, <2>5, ConcatProperties
    <3>2. Len(wire) \in Nat /\ Len(reply) \in Nat /\ DOMAIN wire = 1..Len(wire)
          /\ DOMAIN reply = 1..Len(reply) /\ DOMAIN wire' = 1..Len(wire')
      BY <2>4, <2>5, <3>1, LenProperties
    <3> TAKE i \in DOMAIN wire'
    <3>3. CASE i \in 1..Len(wire)
      BY <2>1, <3>1, <3>2, <3>3
    <3>4. CASE i \notin 1..Len(wire)
      <4>1. i \in (Len(wire) + 1)..(Len(wire) + Len(reply)) /\ i - Len(wire) \in DOMAIN reply
        BY <3>1, <3>2, <3>4
      <4>2. wire'[i] = reply[i - Len(wire)]
        BY <3>1, <4>1
      <4> QED
        BY <2>3, <2>4, <4>1, <4>2
    <3> QED
      BY <3>3, <3>4
  <2> QED
    BY <1>1, <2>1, <2>3, <2>6 DEF Mine, hostVars
<1>6. ASSUME Clear, n = 0 \/ Single(n) PROVE UnderWay'
  <2>0. UnderWay
    BY <1>6 DEF OwnInv
  <2>1. CASE pc = "first"
    <3>0. n \in Calls /\ op[n].kind \in Ops
      BY <2>1, Current DEF Operation
    <3>1. wire = <<>> /\ Len(queue) = 1 /\ queue[1].from = n /\ queue[1].kind = op[n].kind
      BY <1>1, <2>0, <2>1 DEF UnderWay
    <3> DEFINE reply == Packets(n, ReplyTotal(op[n].kind, status), status)
    <3>2. reply \in Seq(Packet) /\ IsAnswer(reply, n, op[n].kind)
      BY <3>0, PacketsType, PacketsAnswer
    <3>4. wire' = <<>> \o reply
      BY <1>2, <1>4, <3>1, Zenon
    <3> HIDE DEF reply
    <3>5. wire' = reply
      BY <3>2, <3>4, ConcatEmptySeq
    <3>6. IsAnswer(wire', n, op[n].kind)
      BY <3>2, <3>5, Zenon
    <3>7. queue' = <<>>
      BY <1>1, <1>2, <3>1, EmptySeq
    <3>8. n' = n /\ op' = op /\ pc' = "first"
      BY <1>1, <2>1 DEF hostVars
    <3>9. IsAnswer(wire, n, op[n].kind)'
      BY <3>6, <3>8 DEF IsAnswer
    <3> QED
      BY <3>7, <3>8, <3>9 DEF UnderWay
  <2>2. CASE pc /= "first"
    BY <1>1, <2>0, <2>2 DEF hostVars, UnderWay, Answered, Typed, TypeOK
  <2> QED
    BY <2>1, <2>2
<1>7. n' = n
  BY <1>1 DEF hostVars
<1> QED
  BY <1>3, <1>5, <1>6, <1>7 DEF OwnInv

LEMMA OwnStep ==
  ASSUME Typed, OffsetInv, OwnInv, [Next]_vars
  PROVE  OwnInv'
<1>1. CASE UNCHANGED vars
  BY <1>1 DEF vars, hostVars, OwnInv, AnswersAreOwn, Clear, Answered, Single, Mine, UnderWay, IsAnswer
<1>2. ASSUME NEW kind \in Ops, NEW len \in TxLens \union {0}, Call(kind, len) PROVE OwnInv'
  BY <1>2, OwnBegin DEF Call
<1>3. ASSUME NEW kind \in Ops, CliCommand(kind) PROVE OwnInv'
  BY <1>3, OwnBegin DEF CliCommand
<1>4. CASE Connect
  <2>1. pc = "idle" /\ wire' = <<>> /\ UNCHANGED <<hostVars, queue>>
    BY <1>4 DEF Connect
  <2> QED
    BY <2>1 DEF hostVars, OwnInv, AnswersAreOwn, Clear, Answered, Single, Mine, UnderWay
<1>5. ASSUME pc /= "idle", NEW status \in {"hid", "frame"}, Return(status, n) PROVE OwnInv'
  <2>1. HostRuns /\ pc' = "idle" /\ result'[n] = [status |-> status, from |-> n]
    BY <1>5, ReturnRuns
  <2>2. result'[n].status = status
    BY <2>1
  <2> QED
    BY <1>5, <2>1, <2>2, Unanswered
<1>6. CASE HidError
  BY <1>5, <1>6 DEF HidError
<1>7. CASE FirstTimeout
  BY <1>5, <1>7 DEF FirstTimeout
<1> QED
  BY <1>1, <1>2, <1>3, <1>4, <1>6, <1>7, OwnWrite, OwnReadFirst, OwnReadMore, OwnMoreTimeout,
     OwnAnswer DEF Next

\* While every call so far sent one command and was answered, a success is the
\* answer to the call that returns it.
THEOREM OwnAnswers == Spec => []AnswersAreOwn
<1>1. Init => OwnInv
  BY DEF Init, OwnInv, AnswersAreOwn, Clear, Mine, UnderWay, Pending
<1>2. Typed /\ OffsetInv /\ OwnInv /\ [Next]_vars => OwnInv'
  BY OwnStep
<1>3. OwnInv => AnswersAreOwn
  BY DEF OwnInv
<1> QED
  BY <1>1, <1>2, <1>3, InitTyped, TypedStep, PTL DEF Spec

-----------------------------------------------------------------------------
(***************************************************************************)
(* The phone's key store.                                                  *)
(***************************************************************************)

Ids == 1..MaxKeyCalls
Secrets == Keys \union {<<"generated", i>> : i \in Ids}

PhoneCalls ==
  {c \in [op : {"none", "generate", "import", "delete"},
          pc : {"idle", "check", "compare", "store", "remove", "read", "save"},
          id : 0..MaxKeyCalls, key : Secrets \union {NoKey}, read : Seq(Ids)] :
     /\ c.pc /= "idle" => c.id \in Ids /\ c.op /= "none"
     /\ c.pc \in {"check", "compare"} => c.op = "import"
     /\ c.pc = "store" => c.op \in {"generate", "import"}
     /\ c.pc = "remove" => c.op = "delete"
     /\ c.op = "delete" => c.key = NoKey
     /\ c.op = "generate" => c.key = <<"generated", c.id>>}

Adds(c) == c.op \in {"generate", "import"} /\ c.pc /= "idle"
Deletes(c) == c.op = "delete" /\ c.pc /= "idle"
Imports(c) == c.op = "import" /\ c.pc \in {"compare", "store", "read", "save"}

\* None of these ids holds that key.
Different(ids, key) == \A a \in ids \intersect DOMAIN secrets : secrets[a] /= key

\* The entries, the list, and what the calls have reported.
EntriesFit ==
  /\ DOMAIN secrets \subseteq Ids
  /\ \A id \in DOMAIN secrets : secrets[id] \in Keys \union exported \union {<<"generated", id>>}
  /\ exported \subseteq Keys \union {<<"generated", j>> : j \in created}
  /\ index \in Seq(Ids) /\ IsInjective(index)
  /\ calls \in 0..MaxKeyCalls
  /\ created \subseteq 1..calls /\ deleting \subseteq created
  /\ created \ deleting \subseteq DOMAIN secrets
  /\ ToSet(index) \subseteq created
  /\ "index" \notin raced => created \ deleting \subseteq ToSet(index)
  /\ raced = {} => \A a, b \in ToSet(index) \intersect DOMAIN secrets : secrets[a] = secrets[b] => a = b

\* The id of a call that adds is its own, and nobody deletes it before it is
\* reported; once stored, the key stays.
OwnId(t, c) ==
  /\ Adds(c) => /\ c.id \in 1..calls /\ c.id \notin created
                /\ \A u \in Tasks \ {t} : Adds(task[u]) => task[u].id /= c.id
                /\ c.pc \in {"read", "save"} => c.id \in DOMAIN secrets /\ secrets[c.id] = c.key
  /\ c.op = "import" /\ c.pc /= "idle" => c.key \in Keys \union exported
  /\ Deletes(c) => c.id \in deleting

\* A list that was read holds reported ids, and is the list as it is until
\* two updates have met.
ReadFits(t, c) ==
  /\ c.pc \in {"compare", "save"} => ToSet(c.read) \subseteq created
  /\ c.pc = "save" => IsInjective(c.read)
  /\ c.pc = "save" /\ "index" \notin raced => c.read = index /\ \A u \in Tasks \ {t} : task[u].pc /= "save"

\* The key of an import past its comparisons is not listed, and of one at
\* them not among the ids compared, until two updates or imports have met.
KeyIsNew(t, c) ==
  Imports(c) =>
    /\ "import" \notin raced => \A u \in Tasks \ {t} : ~Imports(task[u])
    /\ raced = {} => Different(IF c.pc = "compare" THEN ToSet(index) \ ToSet(c.read) ELSE ToSet(index), c.key)

CallFits(t, c) == OwnId(t, c) /\ ReadFits(t, c) /\ KeyIsNew(t, c)
KeyInv == /\ EntriesFit
          /\ task \in [Tasks -> PhoneCalls]
          /\ \A t \in Tasks : CallFits(t, task[t])

\* A nonempty set of naturals has a least element: what replaces induction here.
LEMMA LeastOf == ASSUME NEW T \in SUBSET Nat, T /= {}
                 PROVE  \E m \in T : \A k \in T : m <= k
<1>1. PICK m \in T : \A k \in T : ~(<<k, m>> \in OpToRel(<, Nat))
  BY NatLessThanWellFounded, WFMin
<1>2. \A k \in T : ~(k < m)
  BY <1>1 DEF OpToRel
<1> QED
  BY <1>2

\* A list that an element is added to: what it holds, and that it repeats nothing.
LEMMA AppendAddsLast ==
  ASSUME NEW S, NEW s \in Seq(S), NEW e \in S
  PROVE  /\ Append(s, e) \in Seq(S)
         /\ ToSet(Append(s, e)) = ToSet(s) \union {e}
         /\ IsInjective(s) /\ e \notin ToSet(s) => IsInjective(Append(s, e))
<1>1. /\ Append(s, e) \in Seq(S)
      /\ DOMAIN s = 1..Len(s) /\ DOMAIN Append(s, e) = 1..Len(s) + 1
      /\ \A i \in 1..Len(s) : Append(s, e)[i] = s[i]
      /\ Append(s, e)[Len(s) + 1] = e /\ Len(s) \in Nat
  OBVIOUS
<1> DEFINE t == Append(s, e)
<1> HIDE DEF t
<1>2. ToSet(t) = ToSet(s) \union {e}
  BY <1>1 DEF ToSet, t
<1>3. ASSUME IsInjective(s), e \notin ToSet(s) PROVE IsInjective(t)
  BY <1>1, <1>3 DEF ToSet, IsInjective, t
<1> QED
  BY <1>1, <1>2, <1>3 DEF t

\* A list without its first element.
LEMMA TailDropsHead ==
  ASSUME NEW S, NEW s \in Seq(S), s /= <<>>
  PROVE  Tail(s) \in Seq(S) /\ ToSet(s) = {s[1]} \union ToSet(Tail(s))
<1>1. /\ Tail(s) \in Seq(S) /\ Len(s) \in Nat \ {0}
      /\ DOMAIN s = 1..Len(s) /\ DOMAIN Tail(s) = 1..Len(s) - 1
      /\ \A i \in 1..Len(s) - 1 : Tail(s)[i] = s[i + 1]
  OBVIOUS
<1>2. ASSUME NEW i \in 1..Len(s) PROVE s[i] \in {s[1]} \union ToSet(Tail(s))
  <2>1. CASE i = 1
    BY <2>1
  <2>2. CASE i /= 1
    <3>1. i - 1 \in 1..Len(s) - 1 /\ Tail(s)[i - 1] = s[i]
      BY <1>1, <2>2
    <3> QED
      BY <1>1, <3>1 DEF ToSet
  <2> QED
    BY <2>1, <2>2
<1>3. ASSUME NEW i \in 1..Len(s) - 1 PROVE Tail(s)[i] \in ToSet(s)
  BY <1>1, <1>3 DEF ToSet
<1> QED
  BY <1>1, <1>2, <1>3 DEF ToSet

\* The list without an id holds the others, and repeats none.
LEMMA WithoutKeepsTheRest ==
  ASSUME NEW S, NEW ids \in Seq(S), NEW id
  PROVE  /\ Without(ids, id) \in Seq(S)
         /\ ToSet(Without(ids, id)) = ToSet(ids) \ {id}
         /\ IsInjective(ids) => IsInjective(Without(ids, id))
<1> DEFINE len == Len(ids)
           At(f, k) == IF k = 0 THEN <<>> ELSE IF ids[k] = id THEN f[k - 1] ELSE Append(f[k - 1], ids[k])
           Built(f, m) == f = [k \in 0..m |-> At(f, k)]
           kept == CHOOSE f : Built(f, len)
<1>0. len \in Nat /\ DOMAIN ids = 1..len /\ \A k \in 1..len : ids[k] \in S
  OBVIOUS
<1>1. \E f : Built(f, len)
  <2> DEFINE Bad == {m \in 0..len : ~\E f : Built(f, m)}
  <2>1. SUFFICES Bad = {}
    BY <1>0
  <2>2. SUFFICES ASSUME Bad /= {} PROVE FALSE
    OBVIOUS
  <2>3. PICK m \in Bad : \A k \in Bad : m <= k
    <3>1. Bad \in SUBSET Nat
      BY <1>0
    <3> HIDE DEF Bad
    <3> QED
      BY <2>2, <3>1, LeastOf
  <2>4. CASE m = 0
    <3>1. Built([k \in 0..0 |-> <<>>], 0)
      OBVIOUS
    <3> QED
      BY <2>3, <2>4, <3>1
  <2>5. CASE m > 0
    <3>1. m - 1 \in 0..len /\ m - 1 \notin Bad
      <4>1. m \in 0..len
        OBVIOUS
      <4>2. m - 1 \in 0..len /\ ~(m <= m - 1)
        BY <1>0, <2>5, <4>1
      <4> HIDE DEF Bad
      <4> QED
        BY <2>3, <4>2
    <3>2. PICK f : Built(f, m - 1)
      BY <3>1
    <3> DEFINE g == [k \in 0..m |-> IF k = m THEN At(f, m) ELSE f[k]]
    <3>3. \A k \in 0..m - 1 : f[k] = At(f, k)
      BY <3>2, Zenon
    <3>4. ASSUME NEW k \in 0..m PROVE g[k] = At(g, k)
      <4>1. CASE k = m
        <5>1. g[m - 1] = f[m - 1] /\ g[m] = At(f, m)
          BY <1>0, <2>3, <2>5
        <5>2. At(g, m) = At(f, m)
          BY <5>1
        <5> QED
          BY <4>1, <5>1, <5>2
      <4>2. CASE k /= m
        <5>1. k \in 0..m - 1 /\ g[k] = f[k]
          BY <1>0, <2>3, <4>2
        <5>2. k > 0 => g[k - 1] = f[k - 1]
          BY <1>0, <2>3, <5>1
        <5>3. At(g, k) = At(f, k)
          BY <5>1, <5>2
        <5> QED
          BY <3>3, <5>1, <5>3
      <4> QED
        BY <4>1, <4>2
    <3>5. Built(g, m)
      <4>1. g = [k \in 0..m |-> g[k]]
        OBVIOUS
      <4> HIDE DEF g, At
      <4> QED
        BY <3>4, <4>1, Zenon
    <3> QED
      BY <2>3, <3>5
  <2> QED
    BY <1>0, <2>3, <2>4, <2>5
<1>2. \A k \in 0..len : kept[k] = At(kept, k)
  <2>1. kept = [k \in 0..len |-> At(kept, k)]
    BY <1>1, Zenon
  <2> QED
    BY <2>1, Zenon
<1>3. Without(ids, id) = kept[len]
  BY DEF Without
<1> DEFINE Fine(k) == /\ kept[k] \in Seq(S)
                      /\ ToSet(kept[k]) = {ids[j] : j \in 1..k} \ {id}
                      /\ IsInjective(ids) => IsInjective(kept[k])
           Bad == {k \in 0..len : ~Fine(k)}
<1> HIDE DEF kept
<1>4. Fine(0)
  <2>1. kept[0] = <<>>
    BY <1>0, <1>2
  <2> QED
    BY <2>1 DEF IsInjective, ToSet
<1>5. ASSUME NEW k \in 1..len, Fine(k - 1)
      PROVE  Fine(k)
  <2>1. kept[k] = IF ids[k] = id THEN kept[k - 1] ELSE Append(kept[k - 1], ids[k])
    BY <1>0, <1>2
  <2>2. {ids[j] : j \in 1..k} = {ids[j] : j \in 1..k - 1} \union {ids[k]}
    BY <1>0
  <2>3. CASE ids[k] = id
    <3>1. kept[k] = kept[k - 1]
      BY <2>1, <2>3
    <3> QED
      BY <1>5, <2>2, <2>3, <3>1
  <2>4. CASE ids[k] /= id
    <3>1. kept[k] = Append(kept[k - 1], ids[k]) /\ ids[k] \in S
      BY <1>0, <2>1, <2>4
    <3>2. kept[k] \in Seq(S)
      BY <1>5, <3>1
    <3>3. ToSet(kept[k]) = ToSet(kept[k - 1]) \union {ids[k]}
      BY <1>5, <3>1, AppendAddsLast
    <3>4. ASSUME IsInjective(ids) PROVE IsInjective(kept[k])
      <4>1. ids[k] \notin ToSet(kept[k - 1])
        BY <1>0, <1>5, <3>4 DEF IsInjective
      <4> QED
        BY <1>5, <3>1, <3>4, <4>1, AppendAddsLast
    <3> QED
      BY <1>5, <2>2, <2>4, <3>2, <3>3, <3>4
  <2> QED
    BY <2>3, <2>4
<1>6. Bad = {}
  <2> SUFFICES ASSUME Bad /= {} PROVE FALSE
    OBVIOUS
  <2>1. Bad \in SUBSET Nat
    BY <1>0
  <2>2. PICK m \in Bad : \A k \in Bad : m <= k
    <3> HIDE DEF Bad
    <3> QED
      BY <2>1, LeastOf
  <2>3. m \in 0..len /\ ~Fine(m)
    OBVIOUS
  <2> HIDE DEF Fine
  <2>4. m /= 0
    BY <1>4, <2>3
  <2>5. m \in 1..len /\ m - 1 \in 0..len /\ ~(m <= m - 1)
    BY <1>0, <2>3, <2>4
  <2>6. m - 1 \notin Bad
    <3> HIDE DEF Bad
    <3> QED
      BY <2>2, <2>5
  <2>7. Fine(m - 1)
    BY <2>5, <2>6
  <2> QED
    BY <1>5, <2>3, <2>5, <2>7
<1>7. Fine(len)
  <2> HIDE DEF Fine
  <2>1. len \in 0..len
    BY <1>0
  <2> QED
    BY <1>6, <2>1
<1>8. ToSet(ids) = {ids[j] : j \in 1..len}
  BY <1>0 DEF ToSet
<1> QED
  BY <1>3, <1>7, <1>8

\* No call at all is a call at rest.
LEMMA IdleIsCall == Idle \in PhoneCalls /\ Idle.pc = "idle"
<1>1. <<>> \in Seq(Ids) /\ 0 \in 0..MaxKeyCalls
  BY KeysAreOwn
<1> QED
  BY <1>1 DEF Idle, PhoneCalls

\* A step of one call leaves the others.
LEMMA CallMoves ==
  ASSUME task \in [Tasks -> PhoneCalls], NEW t \in Tasks, NEW c \in PhoneCalls,
         task' = [task EXCEPT ![t] = c]
  PROVE  /\ task' \in [Tasks -> PhoneCalls] /\ task'[t] = c
         /\ \A u \in Tasks \ {t} : task'[u] = task[u]
OBVIOUS

\* What keeps a call fitting, whatever another one does.
LEMMA OtherFits ==
  ASSUME NEW t \in Tasks, NEW u \in Tasks \ {t}, NEW c, NEW d, task[u] = d, task'[u] = d, task'[t] = c,
         \A v \in Tasks \ {t} : task'[v] = task[v],
         CallFits(u, d), CallFits(t, c)', secrets' = secrets, index' = index, created' = created, exported' = exported,
         calls \in Nat, calls' \in Nat, calls <= calls',
         deleting \subseteq deleting', raced \subseteq raced'
  PROVE  CallFits(u, d)'
<1>1. OwnId(u, d)'
  BY DEF CallFits, OwnId, Adds, Deletes
<1>2. ReadFits(u, d)'
  BY DEF CallFits, ReadFits
<1>3. KeyIsNew(u, d)'
  <2> SUFFICES ASSUME Imports(d) PROVE KeyIsNew(u, d)'
    BY DEF KeyIsNew, Imports
  <2>1. ASSUME "import" \notin raced', NEW v \in Tasks \ {u} PROVE ~Imports(task'[v])
    <3>1. CASE v = t
      BY <2>1, <3>1 DEF CallFits, KeyIsNew, Imports
    <3>2. CASE v /= t
      BY <2>1, <3>2 DEF CallFits, KeyIsNew, Imports
    <3> QED
      BY <3>1, <3>2
  <2>2. raced' = {} => raced = {}
    OBVIOUS
  <2>3. raced' = {} => Different(IF d.pc = "compare" THEN ToSet(index) \ ToSet(d.read) ELSE ToSet(index), d.key)'
    BY <2>2 DEF CallFits, KeyIsNew, Imports, Different
  <2> QED
    BY <2>1, <2>3 DEF KeyIsNew, Imports
<1> QED
  BY <1>1, <1>2, <1>3 DEF CallFits

\* A step that moves one call and leaves the entries and the list alone.
LEMMA OneCallMoves ==
  ASSUME KeyInv, NEW t \in Tasks, NEW c \in PhoneCalls, task' = [task EXCEPT ![t] = c],
         CallFits(t, c)', secrets' = secrets, index' = index, created' = created, exported' = exported,
         calls' \in 0..MaxKeyCalls, calls <= calls',
         deleting \subseteq deleting', deleting' \subseteq created, raced \subseteq raced'
  PROVE  KeyInv'
<1>1. /\ task' \in [Tasks -> PhoneCalls] /\ task'[t] = c
      /\ \A u \in Tasks \ {t} : task'[u] = task[u]
  BY CallMoves DEF KeyInv
<1>2. calls \in Nat /\ calls' \in Nat
  BY DEF KeyInv, EntriesFit
<1>3. ASSUME NEW u \in Tasks \ {t} PROVE CallFits(u, task[u])'
  <2>1. CallFits(u, task[u]) /\ task'[u] = task[u]
    BY <1>1 DEF KeyInv
  <2> DEFINE d == task[u]
  <2>2. CallFits(u, d)'
    BY <1>1, <1>2, <2>1, OtherFits
  <2> QED
    BY <2>1, <2>2
<1>4. EntriesFit'
  BY <1>2 DEF KeyInv, EntriesFit
<1> QED
  BY <1>1, <1>3, <1>4 DEF KeyInv

\* A call that begins takes a number that no key has had.
LEMMA KeyBegins ==
  ASSUME KeyInv, NEW t \in Tasks,
         \/ GenerateKeypair(t) \/ \E key \in Keys \union exported : ImportKeypair(t, key)
         \/ \E id \in 1..MaxKeyCalls : DeleteKeypair(t, id)
  PROVE  KeyInv'
<1>0. PICK new : new = calls + 1
  OBVIOUS
<1>1. /\ calls < MaxKeyCalls /\ calls' = new /\ task[t].pc = "idle"
      /\ secrets' = secrets /\ index' = index /\ created' = created /\ exported' = exported /\ raced' = raced
  BY <1>0 DEF GenerateKeypair, ImportKeypair, DeleteKeypair, BeginCall
<1>2. /\ new \in Ids /\ new \in 0..MaxKeyCalls /\ new \in 1..new /\ calls <= new
      /\ new \notin created
      /\ \A u \in Tasks : Adds(task[u]) => task[u].id /= new
  <2>1. calls \in 0..MaxKeyCalls /\ created \subseteq 1..calls
    BY DEF KeyInv, EntriesFit
  <2>2. ASSUME NEW u \in Tasks, Adds(task[u]) PROVE task[u].id \in 1..calls
    BY <2>2 DEF KeyInv, CallFits, OwnId
  <2> QED
    BY <1>0, <1>1, <2>1, <2>2, KeysAreOwn DEF Ids
<1>3. \A u \in Tasks \ {t} : Adds(task'[u]) => task'[u].id /= new
  BY <1>2 DEF GenerateKeypair, ImportKeypair, DeleteKeypair, BeginCall, KeyInv
<1>4. CASE GenerateKeypair(t)
  <2> DEFINE c == [op |-> "generate", pc |-> "store", id |-> new, key |-> <<"generated", new>>, read |-> <<>>]
  <2>1. task' = [task EXCEPT ![t] = c] /\ deleting' = deleting
    BY <1>0, <1>4 DEF GenerateKeypair, BeginCall
  <2>2. c \in PhoneCalls
    BY <1>2 DEF PhoneCalls, Secrets
  <2>4. CallFits(t, c)'
    BY <1>1, <1>2, <1>3, <2>1 DEF CallFits, OwnId, ReadFits, KeyIsNew, Adds, Deletes, Imports
  <2>5. deleting \subseteq created
    BY DEF KeyInv, EntriesFit
  <2> HIDE DEF c
  <2> QED
    BY <1>1, <1>2, <2>1, <2>2, <2>4, <2>5, OneCallMoves
<1>5. ASSUME NEW key \in Keys \union exported, ImportKeypair(t, key) PROVE KeyInv'
  <2> DEFINE c == [op |-> "import", pc |-> "check", id |-> new, key |-> key, read |-> <<>>]
  <2>1. task' = [task EXCEPT ![t] = c] /\ deleting' = deleting
    BY <1>0, <1>5 DEF ImportKeypair, BeginCall
  <2>2. c \in PhoneCalls
    <3>1. key \in Secrets
      <4>1. /\ key \in Keys \union {<<"generated", j>> : j \in created}
            /\ created \subseteq 1..calls /\ calls \in 0..MaxKeyCalls
        BY <1>5 DEF KeyInv, EntriesFit
      <4>2. created \subseteq Ids
        BY <4>1, KeysAreOwn DEF Ids
      <4> QED
        BY <4>1, <4>2 DEF Secrets
    <3> QED
      BY <1>2, <3>1 DEF PhoneCalls
  <2>4. CallFits(t, c)'
    BY <1>1, <1>2, <1>3, <2>1 DEF CallFits, OwnId, ReadFits, KeyIsNew, Adds, Deletes, Imports
  <2>5. deleting \subseteq created
    BY DEF KeyInv, EntriesFit
  <2> HIDE DEF c
  <2> QED
    BY <1>1, <1>2, <2>1, <2>2, <2>4, <2>5, OneCallMoves
<1>6. ASSUME NEW id \in Ids, DeleteKeypair(t, id) PROVE KeyInv'
  <2> DEFINE c == [op |-> "delete", pc |-> "remove", id |-> id, key |-> NoKey, read |-> <<>>]
  <2>1. task' = [task EXCEPT ![t] = c] /\ deleting' = deleting \union {id}
    BY <1>6 DEF DeleteKeypair, BeginCall
  <2>2. c \in PhoneCalls
    BY <1>2, KeysAreOwn DEF PhoneCalls, Secrets, Ids
  <2>4. CallFits(t, c)'
    BY <2>1 DEF CallFits, OwnId, ReadFits, KeyIsNew, Adds, Deletes, Imports
  <2>5. deleting' \subseteq created
    BY <1>6, <2>1 DEF DeleteKeypair, KeyInv, EntriesFit
  <2> HIDE DEF c
  <2> QED
    BY <1>1, <1>2, <2>1, <2>2, <2>4, <2>5, OneCallMoves
<1> QED
  BY <1>4, <1>5, <1>6 DEF Ids

\* A step that changes neither the entries nor what was reported.
KeyFrame == UNCHANGED <<secrets, index, created, calls, deleting, exported>> /\ raced \subseteq raced'

LEMMA FramedStep ==
  ASSUME KeyInv, NEW t \in Tasks, NEW c \in PhoneCalls, To(t, c), KeyFrame, CallFits(t, c)'
  PROVE  KeyInv'
<1>1. calls \in 0..MaxKeyCalls /\ deleting \subseteq created /\ calls <= calls'
  BY DEF KeyInv, EntriesFit, KeyFrame
<1> QED
  BY <1>1, OneCallMoves DEF KeyFrame, To

\* A call that ends leaves nothing to keep.
LEMMA Stops == ASSUME KeyInv, NEW t \in Tasks, To(t, Idle), KeyFrame PROVE KeyInv'
<1>1. CallFits(t, Idle)'
  BY IdleIsCall DEF CallFits, OwnId, ReadFits, KeyIsNew, Adds, Deletes, Imports
<1> QED
  BY <1>1, IdleIsCall, FramedStep

\* The import reads the list whose keys it compares.
LEMMA CheckStep == ASSUME KeyInv, NEW t \in Tasks, Check(t) PROVE KeyInv'
<1>d. PICK d : d = task[t]
  OBVIOUS
<1>c. PICK c : c = [d EXCEPT !.pc = "compare", !.read = index]
  OBVIOUS
<1>1. /\ To(t, c) /\ KeyFrame /\ d \in PhoneCalls /\ d.pc = "check" /\ index \in Seq(Ids)
      /\ "import" \notin raced' => ~Importing(t)
  BY <1>d, <1>c DEF Check, KeyFrame, KeyInv, EntriesFit
<1>2. c \in PhoneCalls /\ c.op = d.op /\ c.id = d.id /\ c.key = d.key /\ c.pc = "compare" /\ c.read = index
  BY <1>c, <1>1 DEF PhoneCalls
<1>3. \A u \in Tasks \ {t} : task'[u] = task[u]
  BY <1>1 DEF To, KeyInv
<1>4. CallFits(t, d)
  BY <1>d DEF KeyInv
<1>5. OwnId(t, c)'
  BY <1>1, <1>2, <1>3, <1>4 DEF CallFits, OwnId, Adds, Deletes, KeyFrame
<1>6. ReadFits(t, c)'
  BY <1>1, <1>2 DEF ReadFits, KeyFrame, KeyInv, EntriesFit
<1>7. KeyIsNew(t, c)'
  BY <1>1, <1>2, <1>3 DEF KeyIsNew, Different, Importing, Imports, KeyFrame
<1> QED
  BY <1>1, <1>2, <1>5, <1>6, <1>7, FramedStep DEF CallFits

\* One key more is found to be another one.
LEMMA CompareStep == ASSUME KeyInv, NEW t \in Tasks, Compare(t) PROVE KeyInv'
<1>d. PICK d : d = task[t]
  OBVIOUS
<1>1. /\ d \in PhoneCalls /\ d.pc = "compare" /\ d.read \in Seq(Ids) /\ d.op = "import"
      /\ CallFits(t, d) /\ KeyFrame
  BY <1>d DEF Compare, KeyFrame, KeyInv, PhoneCalls
<1>2. CASE d.read = <<>>
  <2>c. PICK c : c = [d EXCEPT !.pc = "store"]
    OBVIOUS
  <2>1. To(t, c)
    BY <1>d, <2>c, <1>2 DEF Compare
  <2>2. c \in PhoneCalls /\ c.op = d.op /\ c.id = d.id /\ c.key = d.key /\ c.pc = "store" /\ c.read = d.read
    BY <2>c, <1>1 DEF PhoneCalls
  <2>3. \A u \in Tasks \ {t} : task'[u] = task[u]
    BY <2>1 DEF To, KeyInv
  <2>4. ToSet(d.read) = {}
    BY <1>2 DEF ToSet
  <2>5. OwnId(t, c)' /\ ReadFits(t, c)'
    BY <1>1, <2>2, <2>3 DEF CallFits, OwnId, ReadFits, Adds, Deletes, KeyFrame
  <2>6. KeyIsNew(t, c)'
    BY <1>1, <2>2, <2>3, <2>4 DEF CallFits, KeyIsNew, Different, Imports, KeyFrame
  <2> QED
    BY <1>1, <2>1, <2>2, <2>5, <2>6, FramedStep DEF CallFits
<1>3. CASE d.read /= <<>> /\ Same(d.read, d.key)
  BY <1>d, <1>1, <1>3, Stops DEF Compare
<1>4. CASE d.read /= <<>> /\ ~Same(d.read, d.key)
  <2>c. PICK c : c = [d EXCEPT !.read = Tail(@)]
    OBVIOUS
  <2>1. To(t, c)
    BY <1>d, <2>c, <1>4 DEF Compare
  <2>2. Tail(d.read) \in Seq(Ids) /\ ToSet(d.read) = {d.read[1]} \union ToSet(Tail(d.read))
    BY <1>1, <1>4, TailDropsHead
  <2>3. c \in PhoneCalls /\ c.op = d.op /\ c.id = d.id /\ c.key = d.key /\ c.pc = "compare" /\ c.read = Tail(d.read)
    BY <2>c, <1>1, <2>2 DEF PhoneCalls
  <2>4. \A u \in Tasks \ {t} : task'[u] = task[u]
    BY <2>1 DEF To, KeyInv
  <2>5. OwnId(t, c)' /\ ReadFits(t, c)'
    BY <1>1, <2>2, <2>3, <2>4 DEF CallFits, OwnId, ReadFits, Adds, Deletes, KeyFrame
  <2>6. KeyIsNew(t, c)'
    <3>1. d.read[1] \in DOMAIN secrets => secrets[d.read[1]] /= d.key
      BY <1>4 DEF Same
    <3>2. \A u \in Tasks \ {t} : "import" \notin raced' => ~Imports(task'[u])
      BY <1>1, <2>4 DEF CallFits, KeyIsNew, Imports, KeyFrame
    <3>3. raced = {} => Different(ToSet(index) \ ToSet(d.read), d.key)
      BY <1>1 DEF CallFits, KeyIsNew, Imports
    <3>4. raced' = {} => Different(ToSet(index) \ ToSet(c.read), c.key)'
      BY <1>1, <2>2, <2>3, <3>1, <3>3 DEF Different, KeyFrame
    <3> QED
      BY <2>3, <3>2, <3>4 DEF KeyIsNew
  <2> QED
    BY <1>1, <2>1, <2>3, <2>5, <2>6, FramedStep DEF CallFits
<1> QED
  BY <1>2, <1>3, <1>4

\* The list that a call will save is the one it has read.
LEMMA ReadStep == ASSUME KeyInv, NEW t \in Tasks, ReadIndex(t) PROVE KeyInv'
<1>d. PICK d : d = task[t]
  OBVIOUS
<1>c. PICK c : c = [d EXCEPT !.pc = "save", !.read = index]
  OBVIOUS
<1>1. /\ To(t, c) /\ KeyFrame /\ d \in PhoneCalls /\ d.pc = "read" /\ index \in Seq(Ids)
      /\ "index" \notin raced' => ~Updating(t)
  BY <1>d, <1>c DEF ReadIndex, KeyFrame, KeyInv, EntriesFit
<1>2. c \in PhoneCalls /\ c.op = d.op /\ c.id = d.id /\ c.key = d.key /\ c.pc = "save" /\ c.read = index
  BY <1>c, <1>1 DEF PhoneCalls
<1>3. \A u \in Tasks \ {t} : task'[u] = task[u]
  BY <1>1 DEF To, KeyInv
<1>4. CallFits(t, d)
  BY <1>d DEF KeyInv
<1>5. OwnId(t, c)'
  BY <1>1, <1>2, <1>3, <1>4 DEF CallFits, OwnId, Adds, Deletes, KeyFrame
<1>6. ReadFits(t, c)'
  BY <1>1, <1>2, <1>3 DEF ReadFits, Updating, KeyFrame, KeyInv, EntriesFit
<1>7. KeyIsNew(t, c)'
  BY <1>1, <1>2, <1>3, <1>4 DEF CallFits, KeyIsNew, Different, Imports, KeyFrame
<1> QED
  BY <1>1, <1>2, <1>5, <1>6, <1>7, FramedStep DEF CallFits

\* An entry is stored under an id that only this call has.
LEMMA StoreStep == ASSUME KeyInv, NEW t \in Tasks, StoreSecret(t) PROVE KeyInv'
<1>d. PICK d : d = task[t]
  OBVIOUS
<1>c. PICK c : c = [d EXCEPT !.pc = "read"]
  OBVIOUS
<1>1. /\ To(t, c) /\ d \in PhoneCalls /\ d.pc = "store" /\ Adds(d) /\ CallFits(t, d)
      /\ secrets' = [id \in DOMAIN secrets \union {d.id} |-> IF id = d.id THEN d.key ELSE secrets[id]]
      /\ index' = index /\ calls' = calls /\ created' = created /\ deleting' = deleting
      /\ exported' = exported /\ raced' = raced
  BY <1>d, <1>c DEF StoreSecret, KeyInv, PhoneCalls, Adds
<1>2. /\ c \in PhoneCalls /\ c.op = d.op /\ c.id = d.id /\ c.key = d.key /\ c.pc = "read" /\ c.read = d.read
      /\ d.id \in Ids /\ d.key \in Keys \union exported \union {<<"generated", d.id>>}
  BY <1>c, <1>1 DEF PhoneCalls, Adds, CallFits, OwnId
<1>3. /\ task' \in [Tasks -> PhoneCalls] /\ task'[t] = c
      /\ \A u \in Tasks \ {t} : task'[u] = task[u]
  BY <1>1, <1>2, CallMoves DEF To, KeyInv
<1>4. /\ d.id \notin created
      /\ d.id \in 1..calls
      /\ \A u \in Tasks \ {t} : Adds(task[u]) => task[u].id /= d.id
  BY <1>1 DEF CallFits, OwnId, Adds
<1>5. /\ DOMAIN secrets' = DOMAIN secrets \union {d.id}
      /\ secrets'[d.id] = d.key
      /\ \A id \in DOMAIN secrets : id /= d.id => secrets'[id] = secrets[id]
  BY <1>1
\* The ids that were reported hold what they held.
<1>6. ASSUME NEW ids, ids \subseteq created
      PROVE  /\ ids \intersect DOMAIN secrets' = ids \intersect DOMAIN secrets
             /\ \A a \in ids \intersect DOMAIN secrets : secrets'[a] = secrets[a]
  BY <1>4, <1>5, <1>6
<1>7. EntriesFit'
  <2>1. EntriesFit /\ ToSet(index) \subseteq created
    BY DEF KeyInv, EntriesFit
  <2>2. raced = {} => \A a, b \in ToSet(index) \intersect DOMAIN secrets' : secrets'[a] = secrets'[b] => a = b
    BY <1>6, <2>1 DEF EntriesFit
  <2>3. \A id \in DOMAIN secrets' : secrets'[id] \in Keys \union exported \union {<<"generated", id>>}
    BY <1>2, <1>5, <2>1 DEF EntriesFit
  <2>4. created \ deleting \subseteq DOMAIN secrets'
    BY <1>5, <2>1 DEF EntriesFit
  <2> QED
    BY <1>1, <1>2, <1>5, <2>1, <2>2, <2>3, <2>4 DEF EntriesFit
<1>8. ASSUME NEW key, NEW ids, ids \subseteq created, Different(ids, key)
      PROVE  \A a \in ids \intersect DOMAIN secrets' : secrets'[a] /= key
  BY <1>6, <1>8 DEF Different
<1>9. ASSUME NEW u \in Tasks, NEW e, e = IF u = t THEN c ELSE task[u]
      PROVE  CallFits(u, e)'
  <2>1. CallFits(u, task[u]) /\ ToSet(index) \subseteq created
    BY DEF KeyInv, EntriesFit
  <2>2. OwnId(u, e)'
    BY <1>1, <1>2, <1>3, <1>4, <1>5, <1>9, <2>1 DEF CallFits, OwnId, Adds, Deletes
  <2>3. ReadFits(u, e)'
    BY <1>d, <1>1, <1>2, <1>3, <1>9, <2>1 DEF CallFits, ReadFits
  <2>4. KeyIsNew(u, e)'
    <3> SUFFICES ASSUME Imports(e) PROVE KeyIsNew(u, e)'
      BY DEF KeyIsNew, Imports
    <3>1. Imports(task[u]) /\ e.key = task[u].key /\ (e.pc = "compare" <=> task[u].pc = "compare")
          /\ e.read = task[u].read
      BY <1>d, <1>1, <1>2, <1>9 DEF Imports
    <3>2. "import" \notin raced => \A v \in Tasks \ {u} : ~Imports(task'[v])
      BY <1>d, <1>1, <1>2, <1>3, <2>1, <3>1 DEF CallFits, KeyIsNew, Imports
    <3>3. raced = {} => Different(IF e.pc = "compare" THEN ToSet(index) \ ToSet(e.read) ELSE ToSet(index), e.key)
      BY <2>1, <3>1 DEF CallFits, KeyIsNew
    <3>4. raced = {} => Different(IF e.pc = "compare" THEN ToSet(index) \ ToSet(e.read) ELSE ToSet(index), e.key)'
      <4> DEFINE ids == IF e.pc = "compare" THEN ToSet(index) \ ToSet(e.read) ELSE ToSet(index)
      <4>1. ids \subseteq created
        BY <2>1
      <4> HIDE DEF ids
      <4>2. raced = {} => \A a \in ids \intersect DOMAIN secrets' : secrets'[a] /= e.key
        BY <1>8, <3>3, <4>1 DEF ids
      <4>3. ids' = ids
        BY <1>1 DEF ids
      <4> QED
        BY <4>2, <4>3 DEF Different, ids
    <3> QED
      BY <1>1, <3>2, <3>4 DEF KeyIsNew
  <2> QED
    BY <2>2, <2>3, <2>4 DEF CallFits
<1> QED
  BY <1>3, <1>7, <1>9 DEF KeyInv

\* An entry is removed that a deletion was asked for.
LEMMA RemoveStep == ASSUME KeyInv, NEW t \in Tasks, RemoveSecret(t) PROVE KeyInv'
<1>d. PICK d : d = task[t]
  OBVIOUS
<1>c. PICK c : c = [d EXCEPT !.pc = "read"]
  OBVIOUS
<1>1. /\ To(t, c) /\ d \in PhoneCalls /\ d.pc = "remove" /\ d.op = "delete" /\ CallFits(t, d)
      /\ secrets' = [id \in DOMAIN secrets \ {d.id} |-> secrets[id]]
      /\ index' = index /\ calls' = calls /\ created' = created /\ deleting' = deleting
      /\ exported' = exported /\ raced' = raced
  BY <1>d, <1>c DEF RemoveSecret, KeyInv, PhoneCalls
<1>2. /\ c \in PhoneCalls /\ c.op = d.op /\ c.id = d.id /\ c.pc = "read" /\ c.key = NoKey
  BY <1>c, <1>1 DEF PhoneCalls
<1>3. /\ task' \in [Tasks -> PhoneCalls] /\ task'[t] = c
      /\ \A u \in Tasks \ {t} : task'[u] = task[u]
  BY <1>1, <1>2, CallMoves DEF To, KeyInv
<1>4. d.id \in deleting /\ deleting \subseteq created
  BY <1>1 DEF CallFits, OwnId, Deletes, KeyInv, EntriesFit
<1>5. /\ DOMAIN secrets' = DOMAIN secrets \ {d.id}
      /\ \A id \in DOMAIN secrets' : secrets'[id] = secrets[id]
  BY <1>1
<1>6. EntriesFit'
  <2>1. EntriesFit
    BY DEF KeyInv
  <2>2. raced = {} => \A a, b \in ToSet(index) \intersect DOMAIN secrets' : secrets'[a] = secrets'[b] => a = b
    BY <1>5, <2>1 DEF EntriesFit
  <2>3. \A id \in DOMAIN secrets' : secrets'[id] \in Keys \union exported \union {<<"generated", id>>}
    BY <1>5, <2>1 DEF EntriesFit
  <2>4. created \ deleting \subseteq DOMAIN secrets'
    BY <1>4, <1>5, <2>1 DEF EntriesFit
  <2> QED
    BY <1>1, <1>5, <2>1, <2>2, <2>3, <2>4 DEF EntriesFit
<1>7. ASSUME NEW u \in Tasks, NEW e, e = IF u = t THEN c ELSE task[u]
      PROVE  CallFits(u, e)'
  <2>1. CallFits(u, task[u])
    BY DEF KeyInv
  <2>2. OwnId(u, e)'
    BY <1>1, <1>2, <1>3, <1>4, <1>5, <1>7, <2>1 DEF CallFits, OwnId, Adds, Deletes
  <2>3. ReadFits(u, e)'
    BY <1>d, <1>1, <1>2, <1>3, <1>7, <2>1 DEF CallFits, ReadFits
  <2>4. KeyIsNew(u, e)'
    <3> SUFFICES ASSUME Imports(e) PROVE KeyIsNew(u, e)'
      BY DEF KeyIsNew, Imports
    <3>1. u /= t /\ e = task[u] /\ Imports(task[u])
      BY <1>1, <1>2, <1>7 DEF Imports
    <3>2. "import" \notin raced => \A v \in Tasks \ {u} : ~Imports(task'[v])
      BY <1>1, <1>2, <1>3, <2>1, <3>1 DEF CallFits, KeyIsNew, Imports
    <3>3. raced = {} => Different(IF e.pc = "compare" THEN ToSet(index) \ ToSet(e.read) ELSE ToSet(index), e.key)
      BY <2>1, <3>1 DEF CallFits, KeyIsNew
    <3>4. raced = {} => Different(IF e.pc = "compare" THEN ToSet(index) \ ToSet(e.read) ELSE ToSet(index), e.key)'
      BY <1>1, <1>5, <3>3 DEF Different
    <3> QED
      BY <1>1, <3>2, <3>4 DEF KeyIsNew
  <2> QED
    BY <2>2, <2>3, <2>4 DEF CallFits
<1> QED
  BY <1>3, <1>6, <1>7 DEF KeyInv

\* The list that a save writes, and what is reported with it.
LEMMA SaveStep == ASSUME KeyInv, NEW t \in Tasks, SaveIndex(t) PROVE KeyInv'
<1>d. PICK d : d = task[t]
  OBVIOUS
<1>l. PICK l : l = index'
  OBVIOUS
<1>n. PICK new : new = IF d.op /= "delete" THEN {d.id} ELSE {}
  OBVIOUS
<1>1. /\ To(t, Idle) /\ d \in PhoneCalls /\ d.pc = "save" /\ CallFits(t, d)
      /\ d.read \in Seq(Ids) /\ d.id \in Ids /\ d.op \in {"generate", "import", "delete"}
      /\ l = Updated(d) /\ created' = created \union new
      /\ secrets' = secrets /\ calls' = calls /\ deleting' = deleting /\ exported' = exported /\ raced' = raced
  BY <1>d, <1>l, <1>n DEF SaveIndex, KeyInv, PhoneCalls
<1>2. /\ task' \in [Tasks -> PhoneCalls] /\ task'[t] = Idle
      /\ \A u \in Tasks \ {t} : task'[u] = task[u]
  BY <1>1, IdleIsCall, CallMoves DEF To, KeyInv
<1>3. /\ ToSet(d.read) \subseteq created /\ IsInjective(d.read)
      /\ "index" \notin raced => d.read = index /\ \A u \in Tasks \ {t} : task[u].pc /= "save"
  BY <1>1 DEF CallFits, ReadFits
<1>4. d.op /= "delete" =>
        /\ d.id \in 1..calls /\ d.id \notin created
        /\ d.id \in DOMAIN secrets /\ secrets[d.id] = d.key
        /\ d.op = "import" => d.key \in Keys \union exported
        /\ d.op = "generate" => d.key = <<"generated", d.id>>
        /\ \A u \in Tasks \ {t} : Adds(task[u]) => task[u].id /= d.id
  BY <1>1 DEF CallFits, OwnId, Adds, PhoneCalls
<1>5. d.op = "delete" => d.id \in deleting
  BY <1>1 DEF CallFits, OwnId, Deletes
<1>6. EntriesFit
  BY DEF KeyInv
<1>7. l \in Seq(Ids) /\ IsInjective(l)
      /\ ToSet(l) = IF d.op /= "delete" THEN ToSet(d.read) \union {d.id} ELSE ToSet(d.read) \ {d.id}
  <2>1. CASE d.op /= "delete"
    BY <1>1, <1>3, <1>4, <2>1, AppendAddsLast DEF Updated
  <2>2. CASE d.op = "delete"
    BY <1>1, <1>3, <2>2, WithoutKeepsTheRest DEF Updated
  <2> QED
    BY <1>1, <2>1, <2>2
<1>8. ToSet(l) \subseteq created \union new
  BY <1>3, <1>7, <1>n
<1>9. "index" \notin raced => ToSet(l) \subseteq ToSet(index) \union new
                              /\ (created \union new) \ deleting \subseteq ToSet(l)
  BY <1>1, <1>3, <1>5, <1>6, <1>7, <1>n DEF EntriesFit
\* A key that is added now is no listed one's.
<1>10. raced = {} /\ d.op /= "delete" => Different(ToSet(index), d.key)
  <2> SUFFICES ASSUME raced = {}, d.op /= "delete", NEW a \in ToSet(index) \intersect DOMAIN secrets
               PROVE  secrets[a] /= d.key
    BY DEF Different
  <2>1. CASE d.op = "import"
    <3>1. Imports(d)
      BY <1>1, <2>1 DEF Imports
    <3> QED
      BY <1>1, <3>1 DEF CallFits, KeyIsNew, Different
  <2>2. CASE d.op = "generate"
    <3>1. a \in created
      BY <1>6 DEF EntriesFit
    <3>2. secrets[a] \in Keys \union {<<"generated", j>> : j \in created}
      BY <1>6, <3>1 DEF EntriesFit
    <3>3. <<"generated", d.id>> \notin Keys
      BY <1>1, KeysAreOwn DEF Ids
    <3> QED
      BY <1>4, <2>2, <3>2, <3>3
  <2> QED
    BY <1>1, <2>1, <2>2
<1>11. EntriesFit'
  <2>1. (created \union new) \ deleting \subseteq DOMAIN secrets
    BY <1>4, <1>6, <1>n DEF EntriesFit
  <2>2. created \union new \subseteq 1..calls
    BY <1>4, <1>6, <1>n DEF EntriesFit
  <2>3. ASSUME raced = {}, NEW a \in ToSet(l) \intersect DOMAIN secrets, NEW b \in ToSet(l) \intersect DOMAIN secrets,
               secrets[a] = secrets[b]
        PROVE  a = b
    <3>1. a \in ToSet(index) \union new /\ b \in ToSet(index) \union new
      BY <1>9, <2>3
    <3>2. CASE a \in ToSet(index) /\ b \in ToSet(index)
      BY <1>6, <2>3, <3>2 DEF EntriesFit
    <3>3. CASE a \in new \/ b \in new
      BY <1>4, <1>10, <1>n, <2>3, <3>1, <3>3 DEF Different
    <3> QED
      BY <3>1, <3>2, <3>3
  <2> QED
    BY <1>1, <1>l, <1>6, <1>7, <1>8, <1>9, <2>1, <2>2, <2>3 DEF EntriesFit
<1>12. ASSUME NEW u \in Tasks \ {t}, NEW e, e = task[u]
       PROVE  CallFits(u, e)'
  <2>1. CallFits(u, e) /\ task'[u] = e /\ (\A v \in Tasks \ {u} : task'[v] = Idle \/ task'[v] = task[v])
    BY <1>2, <1>12 DEF KeyInv
  <2>2. OwnId(u, e)'
    BY <1>1, <1>4, <1>12, <1>n, <2>1, IdleIsCall DEF CallFits, OwnId, Adds, Deletes
  <2>3. ReadFits(u, e)'
    BY <1>1, <1>3, <1>12, <2>1 DEF CallFits, ReadFits
  <2>4. KeyIsNew(u, e)'
    <3> SUFFICES ASSUME Imports(e) PROVE KeyIsNew(u, e)'
      BY DEF KeyIsNew, Imports
    <3>1. "import" \notin raced => (\A v \in Tasks \ {u} : ~Imports(task[v]))
      BY <2>1 DEF CallFits, KeyIsNew
    <3>2. "import" \notin raced' => (\A v \in Tasks \ {u} : ~Imports(task'[v]))
      BY <1>1, <2>1, <3>1, IdleIsCall DEF Imports
    <3>3. raced = {} => d.op /= "import"
      BY <1>d, <1>1, <1>12, <3>1 DEF Imports
    <3>4. raced = {} => \A a \in new : secrets[a] /= e.key
      <4>1. e.key \in Keys \union {<<"generated", j>> : j \in created}
        BY <1>6, <2>1 DEF Imports, CallFits, OwnId, EntriesFit
      <4>2. <<"generated", d.id>> \notin Keys
        BY <1>1, KeysAreOwn DEF Ids
      <4> QED
        BY <1>1, <1>4, <1>n, <3>3, <4>1, <4>2
    <3>5. raced = {} => Different(IF e.pc = "compare" THEN ToSet(index) \ ToSet(e.read) ELSE ToSet(index), e.key)
      BY <2>1 DEF CallFits, KeyIsNew
    <3>6. raced = {} => Different(IF e.pc = "compare" THEN ToSet(l) \ ToSet(e.read) ELSE ToSet(l), e.key)
      BY <1>9, <3>4, <3>5 DEF Different
    <3>7. raced' = {} => Different(IF e.pc = "compare" THEN ToSet(index) \ ToSet(e.read) ELSE ToSet(index), e.key)'
      BY <1>1, <1>l, <3>6 DEF Different
    <3> QED
      BY <3>2, <3>7 DEF KeyIsNew, Imports
  <2> QED
    BY <2>2, <2>3, <2>4 DEF CallFits
<1>13. CallFits(t, Idle)'
  BY IdleIsCall DEF CallFits, OwnId, ReadFits, KeyIsNew, Adds, Deletes, Imports
<1>14. ASSUME NEW u \in Tasks PROVE CallFits(u, task[u])'
  <2>1. CASE u = t
    BY <1>2, <1>13, <2>1, Zenon
  <2>2. CASE u /= t
    <3>1. PICK e : e = task[u]
      OBVIOUS
    <3>2. CallFits(u, e)' /\ task'[u] = e
      BY <1>2, <1>12, <2>2, <3>1
    <3> QED
      BY <3>2
  <2> QED
    BY <2>1, <2>2
<1> QED
  BY <1>2, <1>11, <1>14 DEF KeyInv

\* A key is shown that is in the store under a reported id.
LEMMA ExportStep == ASSUME KeyInv, NEW id \in Ids, ExportPrivateKey(id) PROVE KeyInv'
<1>1. /\ id \in created /\ id \in DOMAIN secrets /\ exported' = exported \union {secrets[id]}
      /\ task' = task /\ secrets' = secrets /\ index' = index /\ calls' = calls
      /\ created' = created /\ deleting' = deleting /\ raced' = raced
  BY DEF ExportPrivateKey, KeyInv, EntriesFit
<1>2. secrets[id] \in Keys \union {<<"generated", j>> : j \in created}
  BY <1>1 DEF KeyInv, EntriesFit
<1>3. EntriesFit'
  BY <1>1, <1>2 DEF KeyInv, EntriesFit
<1>4. ASSUME NEW t \in Tasks PROVE CallFits(t, task[t])'
  <2>1. CallFits(t, task[t])
    BY DEF KeyInv
  <2> QED
    BY <1>1, <2>1 DEF CallFits, OwnId, ReadFits, KeyIsNew, Adds, Deletes, Imports, Different
<1> QED
  BY <1>1, <1>3, <1>4 DEF KeyInv

\* The app is killed: no call goes on, and the store is as it was.
LEMMA AppEndsStep == ASSUME KeyInv, AppEnds PROVE KeyInv'
<1>1. /\ task' = [t \in Tasks |-> Idle] /\ secrets' = secrets /\ index' = index /\ calls' = calls
      /\ created' = created /\ deleting' = deleting
      /\ exported' = exported /\ raced' = raced
  BY DEF AppEnds
<1>2. EntriesFit'
  BY <1>1 DEF KeyInv, EntriesFit
<1>3. task' \in [Tasks -> PhoneCalls]
  BY <1>1, IdleIsCall
<1>4. ASSUME NEW t \in Tasks PROVE CallFits(t, Idle)' /\ task'[t] = Idle
  BY <1>1, IdleIsCall DEF CallFits, OwnId, ReadFits, KeyIsNew, Adds, Deletes, Imports
<1>5. \A t \in Tasks : CallFits(t, task[t])'
  BY <1>4
<1> QED
  BY <1>2, <1>3, <1>5 DEF KeyInv

\* Nothing happens.
LEMMA KeyStutter == ASSUME KeyInv, UNCHANGED keyVars PROVE KeyInv'
<1>1. /\ task' = task /\ secrets' = secrets /\ index' = index /\ calls' = calls
      /\ created' = created /\ deleting' = deleting
      /\ exported' = exported /\ raced' = raced
  BY DEF keyVars
<1>2. EntriesFit'
  BY <1>1 DEF KeyInv, EntriesFit
<1>3. ASSUME NEW t \in Tasks PROVE CallFits(t, task[t])'
  <2>1. CallFits(t, task[t])
    BY DEF KeyInv
  <2> QED
    BY <1>1, <2>1 DEF CallFits, OwnId, ReadFits, KeyIsNew, Adds, Deletes, Imports, Different
<1> QED
  BY <1>1, <1>2, <1>3 DEF KeyInv

\* At first there is no key and no call.
LEMMA KeyInitInv == KeyInit => KeyInv
<1> SUFFICES ASSUME KeyInit PROVE KeyInv
  OBVIOUS
<1>1. <<>> \in Seq(Ids) /\ ToSet(<<>>) = {} /\ IsInjective(<<>>) /\ 0 \in 0..MaxKeyCalls
  BY KeysAreOwn DEF ToSet, IsInjective
<1>2. EntriesFit
  BY <1>1 DEF KeyInit, EntriesFit
<1>3. ASSUME NEW t \in Tasks PROVE CallFits(t, Idle) /\ task[t] = Idle
  BY IdleIsCall DEF KeyInit, CallFits, OwnId, ReadFits, KeyIsNew, Adds, Deletes, Imports
<1> QED
  BY <1>2, <1>3, IdleIsCall DEF KeyInit, KeyInv

\* No step breaks the invariant.
LEMMA KeyStepInv == KeyInv /\ [KeyNext]_keyVars => KeyInv'
<1> SUFFICES ASSUME KeyInv, [KeyNext]_keyVars PROVE KeyInv'
  OBVIOUS
<1>1. ASSUME NEW t \in Tasks, Refused(t) PROVE KeyInv'
  BY <1>1, Stops DEF Refused, KeyFrame
<1> QED
  BY <1>1, KeyBegins, CheckStep, CompareStep, StoreStep, RemoveStep, ReadStep, SaveStep,
     ExportStep, AppEndsStep, KeyStutter DEF KeyNext, KeyStep, Ids

\* What the calls have reported is listed and there.
THEOREM ReportedIsListed == KeySpec => []ListedAsReported
<1>1. KeyInv => ListedAsReported
  BY DEF KeyInv, EntriesFit, ListedAsReported
<1> QED
  BY <1>1, KeyInitInv, KeyStepInv, PTL DEF KeySpec

\* For any number of tasks and calls: two listed ids that have an entry have
\* different keys, unless two imports or two updates of the list met.
THEOREM KeysAreDifferent == KeySpec => []NoKeyTwice
<1>1. KeyInv => NoKeyTwice
  <2> SUFFICES ASSUME KeyInv, raced = {}, NEW i \in DOMAIN index, NEW j \in DOMAIN index, i /= j,
                      index[i] \in DOMAIN secrets, index[j] \in DOMAIN secrets
               PROVE  secrets[index[i]] /= secrets[index[j]]
    BY DEF NoKeyTwice
  <2>1. index[i] /= index[j]
    BY DEF KeyInv, EntriesFit, IsInjective
  <2> QED
    BY <2>1 DEF KeyInv, EntriesFit, ToSet
<1> QED
  BY <1>1, KeyInitInv, KeyStepInv, PTL DEF KeySpec

-----------------------------------------------------------------------------
(***************************************************************************)
(* The keychain.                                                           *)
(***************************************************************************)

Generated == {<<"generated", i>> : i \in 1..MaxCommands}
AllKeys == KeyFiles \union Generated
Holding == {"erase", "store", "export", "delete"}

\* What a process may be at.
Commands == {c \in [pc : {"exit", "exists"} \union Holding, label : Labels \union {Nothing},
                    key : AllKeys \union {Nothing}, output : BOOLEAN] :
               /\ c.pc /= "exit" => c.label \in Labels
               /\ c.pc \notin {"exit", "delete"} => c.key \in AllKeys}
ChainTypeOK ==
  /\ chain \in [Labels -> AllKeys \union {Nothing}]
  /\ proc \in [Procs -> Commands]
  /\ commands \in 0..MaxCommands
  /\ printed \in SUBSET [label : Labels, key : AllKeys]
  /\ saved \in SUBSET [label : Labels, printed : AllKeys, key : AllKeys]

OneHolder == \A p, q \in Procs : /\ p /= q /\ proc[p].pc \in Holding /\ proc[q].pc \in Holding
                                 /\ proc[p].label = proc[q].label
                                 => proc[p].label \in met
NothingPrinted == \A p \in Procs : proc[p].pc \in {"erase", "store", "delete"} /\ proc[p].label \notin met
                                     => \A r \in printed : r.label /= proc[p].label
ExportsItsKey == \A p \in Procs : proc[p].pc = "export" /\ proc[p].label \notin met
                                     => chain[proc[p].label] = proc[p].key
ChainInv == ChainTypeOK /\ OneHolder /\ NothingPrinted /\ ExportsItsKey /\ PrintedKeyKept

\* A process that has ended.
LEMMA ExitIsCommand == Exit \in Commands
BY DEF Exit, Commands

\* A step of a command keeps what it was given.
LEMMA CommandAt == ASSUME NEW c \in Commands, c.pc \notin {"exit", "delete"},
                          NEW at \in {"exists"} \union Holding
                   PROVE  /\ [c EXCEPT !.pc = at] \in Commands
                          /\ [c EXCEPT !.pc = at].pc = at
                          /\ [c EXCEPT !.pc = at].label = c.label
                          /\ [c EXCEPT !.pc = at].key = c.key
BY DEF Commands, Holding

\* A process that begins.
LEMMA NewCommand == ASSUME NEW label \in Labels, NEW key \in AllKeys \union {Nothing},
                           NEW output \in BOOLEAN, NEW at \in {"exists"} \union Holding,
                           at /= "delete" => key \in AllKeys
                    PROVE  [pc |-> at, label |-> label, key |-> key, output |-> output] \in Commands
BY DEF Commands, Holding

\* A step of one process leaves the others.
LEMMA GoesOn == ASSUME proc \in [Procs -> Commands], NEW p \in Procs, NEW c \in Commands, Go(p, c)
                PROVE  proc' \in [Procs -> Commands] /\ proc'[p] = c
                       /\ \A q \in Procs \ {p} : proc'[q] = proc[q]
BY DEF Go

\* A command begins: generate, import or delete looks, or replaces.
LEMMA Begins == ASSUME NEW p \in Procs,
                       \/ \E label \in Labels, overwrite, output \in BOOLEAN : Generate(p, label, overwrite, output)
                       \/ \E label \in Labels, overwrite \in BOOLEAN, key \in KeyFiles : Import(p, label, key, overwrite)
                       \/ \E label \in Labels : Delete(p, label),
                       commands \in 0..MaxCommands
                PROVE  \E c \in Commands : \/ c.pc = "exists" /\ Looks(p, c)
                                           \/ c.pc \in {"erase", "store", "delete"} /\ Replaces(p, c)
<1>1. ASSUME NEW label \in Labels, NEW overwrite \in BOOLEAN, NEW output \in BOOLEAN,
             Generate(p, label, overwrite, output)
      PROVE  \E c \in Commands : \/ c.pc = "exists" /\ Looks(p, c)
                                 \/ c.pc \in {"erase", "store", "delete"} /\ Replaces(p, c)
  <2> DEFINE key == <<"generated", commands + 1>>
             c(at) == [pc |-> at, label |-> label, key |-> key, output |-> output]
  <2>1. IF overwrite THEN Replaces(p, c("erase")) ELSE Looks(p, c("exists"))
    BY <1>1, Zenon DEF Generate
  <2>2. commands + 1 \in 1..MaxCommands
    <3>1. commands < MaxCommands
      BY <2>1 DEF Replaces, Looks, BeginCommand
    <3> QED
      BY <3>1, KeysAreKeys
  <2>3. key \in AllKeys
    BY <2>2 DEF AllKeys, Generated
  <2>4. c("erase") \in Commands /\ c("exists") \in Commands
    BY <2>3, NewCommand DEF Holding
  <2>5. c("erase").pc = "erase" /\ c("exists").pc = "exists"
    OBVIOUS
  <2> QED
    BY <2>1, <2>4, <2>5, Zenon
<1>2. ASSUME NEW label \in Labels, NEW overwrite \in BOOLEAN, NEW key \in KeyFiles,
             Import(p, label, key, overwrite)
      PROVE  \E c \in Commands : \/ c.pc = "exists" /\ Looks(p, c)
                                 \/ c.pc \in {"erase", "store", "delete"} /\ Replaces(p, c)
  <2> DEFINE c(at) == [pc |-> at, label |-> label, key |-> key, output |-> FALSE]
  <2>1. IF overwrite THEN Replaces(p, c("store")) ELSE Looks(p, c("exists"))
    BY <1>2, Zenon DEF Import
  <2>2. c("store") \in Commands /\ c("exists") \in Commands
    BY NewCommand DEF Holding, AllKeys
  <2>3. c("store").pc = "store" /\ c("exists").pc = "exists"
    OBVIOUS
  <2> QED
    BY <2>1, <2>2, <2>3, Zenon
<1>3. ASSUME NEW label \in Labels, Delete(p, label)
      PROVE  \E c \in Commands : \/ c.pc = "exists" /\ Looks(p, c)
                                 \/ c.pc \in {"erase", "store", "delete"} /\ Replaces(p, c)
  <2> DEFINE c == [Exit EXCEPT !.pc = "delete", !.label = label]
  <2>1. c \in Commands /\ c.pc = "delete"
    BY DEF Exit, Commands, Holding
  <2> QED
    BY <1>3, <2>1, Zenon DEF Delete
<1> QED
  BY <1>1, <1>2, <1>3, Zenon

\* What the processes, the keychain and the files hold stays of its type.
LEMMA ChainTypeStep == ChainTypeOK /\ [ChainNext]_chainVars => ChainTypeOK'
<1> SUFFICES ASSUME ChainTypeOK, [ChainNext]_chainVars PROVE ChainTypeOK'
  OBVIOUS
<1> USE DEF ChainTypeOK
<1>1. ASSUME NEW p \in Procs, NEW c \in Commands, Looks(p, c) \/ Replaces(p, c)
      PROVE  ChainTypeOK'
  <2>1. proc' \in [Procs -> Commands]
    BY <1>1, GoesOn DEF Looks, Replaces, BeginCommand
  <2> QED
    BY <1>1, <2>1, KeysAreKeys DEF Looks, Replaces, BeginCommand
<1>2. ASSUME NEW p \in Procs, Exists(p) PROVE ChainTypeOK'
  <2>1. \E c \in Commands : Go(p, c)
    BY <1>2, ExitIsCommand, CommandAt DEF Exists, Holding
  <2> QED
    BY <1>2, <2>1, GoesOn DEF Exists
<1>3. ASSUME NEW p \in Procs, Erase(p) PROVE ChainTypeOK'
  <2>1. \E c \in Commands : Go(p, c)
    BY <1>3, ExitIsCommand, CommandAt DEF Erase, Holding
  <2>2. chain' \in [Labels -> AllKeys \union {Nothing}]
    BY <1>3 DEF Erase
  <2> QED
    BY <1>3, <2>1, <2>2, GoesOn DEF Erase
<1>4. ASSUME NEW p \in Procs, Store(p) PROVE ChainTypeOK'
  <2>1. \E c \in Commands : Go(p, c)
    BY <1>4, ExitIsCommand, CommandAt DEF Store, Holding
  <2>2. proc[p].label \in Labels /\ proc[p].key \in AllKeys
    BY <1>4 DEF Store, Commands
  <2>3. chain' \in [Labels -> AllKeys \union {Nothing}]
    BY <1>4, <2>2 DEF Store
  <2>4. printed' \in SUBSET [label : Labels, key : AllKeys]
    BY <1>4, <2>2 DEF Store
  <2> QED
    BY <1>4, <2>1, <2>3, <2>4, GoesOn DEF Store
<1>5. ASSUME NEW p \in Procs, Export(p) PROVE ChainTypeOK'
  <2>1. proc[p].label \in Labels /\ proc[p].key \in AllKeys
    BY <1>5 DEF Export, Commands
  <2>2. saved' \in SUBSET [label : Labels, printed : AllKeys, key : AllKeys]
    BY <1>5, <2>1 DEF Export
  <2> QED
    BY <1>5, <2>2, GoesOn, ExitIsCommand DEF Export
<1>6. ASSUME NEW p \in Procs, Killed(p) PROVE ChainTypeOK'
  BY <1>6, GoesOn, ExitIsCommand DEF Killed
<1>7. ASSUME NEW p \in Procs, NEW label \in Labels, Show(p, label) PROVE ChainTypeOK'
  <2>1. chain[label] \in AllKeys
    BY <1>7 DEF Show
  <2>2. printed' \in SUBSET [label : Labels, key : AllKeys]
    BY <1>7, <2>1 DEF Show
  <2> QED
    BY <1>7, <2>2 DEF Show
<1>8. CASE UNCHANGED chainVars
  BY <1>8 DEF chainVars
<1> QED
  BY <1>1, <1>2, <1>3, <1>4, <1>5, <1>6, <1>7, <1>8, Begins DEF ChainNext

\* Whoever comes to hold an entry that another process holds marks its label.
LEMMA OneHolderKept ==
  ASSUME ChainTypeOK, OneHolder, NEW p \in Procs, NEW c \in Commands, Go(p, c),
         met \subseteq met',
         \/ c.pc \notin Holding
         \/ Meets(p, c.label)
         \/ proc[p].pc \in Holding /\ c.label = proc[p].label
  PROVE  OneHolder'
<1> USE DEF ChainTypeOK
<1>1. proc'[p] = c /\ \A q \in Procs \ {p} : proc'[q] = proc[q]
  BY GoesOn
<1>2. ASSUME NEW q \in Procs \ {p}, proc[q].pc \in Holding, c.pc \in Holding, proc[q].label = c.label
      PROVE  c.label \in met'
  <2>1. CASE Meets(p, c.label)
    BY <1>2, <2>1 DEF Meets, Holding
  <2>2. CASE proc[p].pc \in Holding /\ c.label = proc[p].label
    BY <1>2, <2>2 DEF OneHolder
  <2> QED
    BY <1>2, <2>1, <2>2
<1>3. ASSUME NEW q \in Procs, NEW r \in Procs, q /= r, proc'[q].pc \in Holding, proc'[r].pc \in Holding,
             proc'[q].label = proc'[r].label
      PROVE  proc'[q].label \in met'
  <2>1. CASE q = p
    BY <1>1, <1>2, <1>3, <2>1
  <2>2. CASE r = p
    BY <1>1, <1>2, <1>3, <2>2
  <2>3. CASE q /= p /\ r /= p
    BY <1>1, <1>3, <2>3 DEF OneHolder
  <2> QED
    BY <2>1, <2>2, <2>3
<1> QED
  BY <1>3 DEF OneHolder

\* No step breaks the invariant.
LEMMA ChainStep == ChainInv /\ [ChainNext]_chainVars => ChainInv'
<1> SUFFICES ASSUME ChainInv, [ChainNext]_chainVars PROVE ChainInv'
  OBVIOUS
<1> DEFINE Kept == OneHolder' /\ NothingPrinted' /\ ExportsItsKey' /\ PrintedKeyKept'
<1>t. ChainTypeOK /\ ChainTypeOK'
  BY ChainTypeStep DEF ChainInv
<1>l. \A p \in Procs : proc[p].pc /= "exit" => proc[p].label \in Labels
  BY <1>t DEF ChainTypeOK, Commands
<1>k. \A p \in Procs : proc[p].pc \notin {"exit", "delete"} => proc[p].key \in AllKeys
  BY <1>t DEF ChainTypeOK, Commands
<1>n. Nothing \notin AllKeys
  BY KeysAreKeys DEF AllKeys, Generated
<1>1. ASSUME NEW p \in Procs, NEW c \in Commands, c.pc = "exists", Looks(p, c)
      PROVE  Kept
  <2>1. /\ Go(p, c)
        /\ proc'[p] = c /\ \A q \in Procs \ {p} : proc'[q] = proc[q]
        /\ chain' = chain /\ printed' = printed /\ saved' = saved /\ met' = met
    BY <1>1, <1>t, GoesOn DEF Looks, BeginCommand, ChainTypeOK
  <2>2. OneHolder'
    BY <1>1, <1>t, <2>1, OneHolderKept DEF ChainInv, Holding
  <2> QED
    BY <1>1, <2>1, <2>2 DEF ChainInv, NothingPrinted, ExportsItsKey, PrintedKeyKept
<1>2. ASSUME NEW p \in Procs, NEW c \in Commands, c.pc \in {"erase", "store", "delete"}, Replaces(p, c)
      PROVE  Kept
  <2>1. /\ Go(p, c) /\ Meets(p, c.label)
        /\ proc'[p] = c /\ \A q \in Procs \ {p} : proc'[q] = proc[q]
        /\ chain' = chain /\ saved' = saved /\ met \subseteq met'
        /\ printed' = {r \in printed : r.label /= c.label}
    BY <1>2, <1>t, GoesOn DEF Replaces, BeginCommand, Meets, ChainTypeOK
  <2>2. OneHolder'
    BY <1>t, <2>1, OneHolderKept DEF ChainInv
  <2>3. NothingPrinted'
    BY <2>1 DEF ChainInv, NothingPrinted
  <2> QED
    BY <1>2, <2>1, <2>2, <2>3 DEF ChainInv, ExportsItsKey, PrintedKeyKept
<1>3. ASSUME NEW p \in Procs, Exists(p)
      PROVE  Kept
  <2>1. CASE Taken(proc[p])
    <3>1. /\ Go(p, Exit)
          /\ proc'[p] = Exit /\ \A q \in Procs \ {p} : proc'[q] = proc[q]
          /\ chain' = chain /\ printed' = printed /\ saved' = saved /\ met' = met
      BY <1>3, <2>1, <1>t, GoesOn, ExitIsCommand DEF Exists, ChainTypeOK
    <3>2. OneHolder'
      BY <1>t, <3>1, OneHolderKept, ExitIsCommand DEF ChainInv, Holding, Exit
    <3> QED
      BY <3>1, <3>2 DEF ChainInv, NothingPrinted, ExportsItsKey, PrintedKeyKept, Exit
  <2>2. CASE ~Taken(proc[p])
    <3> DEFINE c == [proc[p] EXCEPT !.pc = "store"]
    <3>1. c \in Commands /\ c.pc = "store" /\ c.label = proc[p].label
      BY <1>3, <1>t, CommandAt DEF Exists, Holding, ChainTypeOK
    <3>2. /\ Go(p, c) /\ Meets(p, c.label)
          /\ chain' = chain /\ printed' = printed /\ saved' = saved /\ met \subseteq met'
      BY <1>3, <2>2, <3>1 DEF Exists, Meets
    <3>3. proc'[p] = c /\ \A q \in Procs \ {p} : proc'[q] = proc[q]
      BY <1>t, <3>1, <3>2, GoesOn DEF ChainTypeOK
    <3>4. OneHolder'
      BY <1>t, <3>1, <3>2, OneHolderKept DEF ChainInv
    <3>5. ASSUME c.label \notin met, NEW r \in printed PROVE r.label /= c.label
      \* The label holds nothing, and a key that was printed would be there.
      <4>1. chain[c.label] = Nothing
        BY <2>2, <3>1 DEF Taken
      <4>2. r.key \in AllKeys
        BY <1>t DEF ChainTypeOK
      <4> QED
        BY <1>n, <3>5, <4>1, <4>2 DEF ChainInv, PrintedKeyKept
    <3>6. NothingPrinted'
      BY <3>1, <3>2, <3>3, <3>5 DEF ChainInv, NothingPrinted
    <3> QED
      BY <3>1, <3>2, <3>3, <3>4, <3>6 DEF ChainInv, ExportsItsKey, PrintedKeyKept
  <2> QED
    BY <2>1, <2>2
<1>4. ASSUME NEW p \in Procs, Erase(p)
      PROVE  Kept
  <2> DEFINE l == proc[p].label
             c == IF proc[p].pc = "erase" THEN [proc[p] EXCEPT !.pc = "exists"] ELSE Exit
  <2>1. c \in Commands /\ c.pc \in {"exists", "exit"}
    <3>1. proc[p] \in Commands /\ proc[p].pc \in {"erase", "delete"}
      BY <1>4, <1>t DEF Erase, ChainTypeOK
    <3>2. CASE proc[p].pc = "erase"
      BY <3>1, <3>2, CommandAt
    <3>3. CASE proc[p].pc = "delete"
      BY <3>3, ExitIsCommand DEF Exit
    <3> QED
      BY <3>1, <3>2, <3>3
  <2>2. /\ Go(p, c) /\ chain' = [chain EXCEPT ![l] = Nothing]
        /\ printed' = printed /\ saved' = saved /\ met' = met
        /\ proc[p].pc \in {"erase", "delete"}
    BY <1>4 DEF Erase
  <2>3. proc'[p] = c /\ \A q \in Procs \ {p} : proc'[q] = proc[q]
    BY <1>t, <2>1, <2>2, GoesOn DEF ChainTypeOK
  <2>4. OneHolder'
    BY <1>t, <2>1, <2>2, OneHolderKept DEF ChainInv, Holding
  <2>5. NothingPrinted'
    BY <2>1, <2>2, <2>3 DEF ChainInv, NothingPrinted
  <2>6. ExportsItsKey'
    <3> SUFFICES ASSUME NEW q \in Procs, proc'[q].pc = "export", proc'[q].label \notin met'
                 PROVE  chain'[proc'[q].label] = proc'[q].key
      BY DEF ExportsItsKey
    <3>1. q /= p /\ proc'[q] = proc[q]
      BY <2>1, <2>3
    <3>2. proc[q].label /= l
      BY <2>2, <3>1 DEF ChainInv, OneHolder, Holding
    <3> QED
      BY <1>l, <1>t, <2>2, <3>1, <3>2 DEF ChainInv, ExportsItsKey, ChainTypeOK
  <2>7. PrintedKeyKept'
    <3> SUFFICES ASSUME NEW r \in printed', r.label \notin met' PROVE chain'[r.label] = r.key
      BY <2>2 DEF ChainInv, PrintedKeyKept
    <3>1. r.label /= l
      BY <2>2 DEF ChainInv, NothingPrinted
    <3>2. r.label \in Labels
      BY <1>t, <2>2 DEF ChainTypeOK
    <3> QED
      BY <1>t, <2>2, <3>1, <3>2 DEF ChainInv, PrintedKeyKept, ChainTypeOK
  <2> QED
    BY <2>4, <2>5, <2>6, <2>7
<1>5. ASSUME NEW p \in Procs, Store(p)
      PROVE  Kept
  <2> DEFINE l == proc[p].label
             c == IF proc[p].output THEN [proc[p] EXCEPT !.pc = "export"] ELSE Exit
  <2>1. c \in Commands /\ (c.pc = "exit" \/ (c.pc = "export" /\ c.label = l /\ c.key = proc[p].key))
    <3>1. CASE proc[p].output
      BY <1>5, <1>t, <3>1, CommandAt DEF Store, Holding, ChainTypeOK
    <3>2. CASE ~proc[p].output
      BY <3>2, ExitIsCommand DEF Exit
    <3> QED
      BY <3>1, <3>2
  <2>2. /\ Go(p, c) /\ chain' = [chain EXCEPT ![l] = proc[p].key]
        /\ printed' = printed \union {[label |-> l, key |-> proc[p].key]}
        /\ saved' = saved /\ met' = met /\ proc[p].pc = "store"
    BY <1>5 DEF Store
  <2>3. proc'[p] = c /\ \A q \in Procs \ {p} : proc'[q] = proc[q]
    BY <1>t, <2>1, <2>2, GoesOn DEF ChainTypeOK
  <2>4. OneHolder'
    BY <1>t, <2>1, <2>2, OneHolderKept DEF ChainInv, Holding
  <2>o. ASSUME NEW q \in Procs \ {p}, proc[q].pc \in Holding, proc[q].label \notin met
        PROVE  proc[q].label /= l
    BY <2>o, <2>2 DEF ChainInv, OneHolder, Holding
  <2>5. NothingPrinted'
    <3> SUFFICES ASSUME NEW q \in Procs, proc'[q].pc \in {"erase", "store", "delete"},
                        proc'[q].label \notin met', NEW r \in printed'
                 PROVE  r.label /= proc'[q].label
      BY DEF NothingPrinted
    <3>1. q /= p /\ proc'[q] = proc[q]
      BY <2>1, <2>3
    <3>2. proc[q].label /= l
      BY <2>2, <2>o, <3>1 DEF Holding
    <3> QED
      BY <2>2, <3>1, <3>2 DEF ChainInv, NothingPrinted
  <2>6. ExportsItsKey'
    <3> SUFFICES ASSUME NEW q \in Procs, proc'[q].pc = "export", proc'[q].label \notin met'
                 PROVE  chain'[proc'[q].label] = proc'[q].key
      BY DEF ExportsItsKey
    <3>1. CASE q = p
      BY <1>l, <1>t, <2>1, <2>2, <2>3, <3>1 DEF ChainTypeOK
    <3>2. CASE q /= p
      <4>1. proc'[q] = proc[q] /\ proc[q].label /= l
        BY <2>2, <2>3, <2>o, <3>2 DEF Holding
      <4> QED
        BY <1>l, <1>t, <2>2, <4>1 DEF ChainInv, ExportsItsKey, ChainTypeOK
    <3> QED
      BY <3>1, <3>2
  <2>7. PrintedKeyKept'
    <3> SUFFICES ASSUME NEW r \in printed', r.label \notin met' PROVE chain'[r.label] = r.key
      BY <2>2 DEF ChainInv, PrintedKeyKept
    <3>1. CASE r.label = l
      \* What was printed under l before is not: the new key is the only one.
      <4>1. r \notin printed
        BY <2>2, <3>1 DEF ChainInv, NothingPrinted
      <4>2. r = [label |-> l, key |-> proc[p].key]
        BY <2>2, <4>1
      <4> QED
        BY <1>l, <1>t, <2>2, <4>2 DEF ChainTypeOK
    <3>2. CASE r.label /= l
      <4>1. r \in printed
        BY <2>2, <3>2
      <4>2. r.label \in Labels
        BY <1>t, <4>1 DEF ChainTypeOK
      <4> QED
        BY <1>t, <2>2, <3>2, <4>1, <4>2 DEF ChainInv, PrintedKeyKept, ChainTypeOK
    <3> QED
      BY <3>1, <3>2
  <2> QED
    BY <2>4, <2>5, <2>6, <2>7
<1>6. ASSUME NEW p \in Procs, Export(p)
      PROVE  Kept
  <2>1. /\ Go(p, Exit)
        /\ proc'[p] = Exit /\ \A q \in Procs \ {p} : proc'[q] = proc[q]
        /\ chain' = chain /\ printed' = printed /\ met' = met
    BY <1>6, <1>t, GoesOn, ExitIsCommand DEF Export, ChainTypeOK
  <2>2. OneHolder'
    BY <1>t, <2>1, OneHolderKept, ExitIsCommand DEF ChainInv, Holding, Exit
  <2>3. \A f \in saved' : f.label \notin met' => f.key = f.printed
    BY <1>6, <2>1 DEF Export, ChainInv, ExportsItsKey, PrintedKeyKept
  <2> QED
    BY <2>1, <2>2, <2>3 DEF ChainInv, NothingPrinted, ExportsItsKey, PrintedKeyKept, Exit
<1>7. ASSUME NEW p \in Procs, Killed(p)
      PROVE  Kept
  <2>1. /\ Go(p, Exit)
        /\ proc'[p] = Exit /\ \A q \in Procs \ {p} : proc'[q] = proc[q]
        /\ chain' = chain /\ printed' = printed /\ saved' = saved /\ met' = met
    BY <1>7, <1>t, GoesOn, ExitIsCommand DEF Killed, ChainTypeOK
  <2>2. OneHolder'
    BY <1>t, <2>1, OneHolderKept, ExitIsCommand DEF ChainInv, Holding, Exit
  <2> QED
    BY <2>1, <2>2 DEF ChainInv, NothingPrinted, ExportsItsKey, PrintedKeyKept, Exit
<1>8. ASSUME NEW p \in Procs, NEW label \in Labels, Show(p, label)
      PROVE  Kept
  <2>1. /\ chain' = chain /\ proc' = proc /\ saved' = saved /\ met \subseteq met'
        /\ printed' = printed \union {[label |-> label, key |-> chain[label]]}
        /\ proc[p].pc = "exit"
    BY <1>8 DEF Show, Meets
  <2>2. OneHolder' /\ ExportsItsKey'
    BY <2>1 DEF ChainInv, OneHolder, ExportsItsKey
  \* Nobody is about to change the entry, or the label is marked.
  <2>3. ASSUME NEW q \in Procs, proc[q].pc \in {"erase", "store", "delete"}, proc[q].label = label
        PROVE  label \in met'
    BY <1>8, <2>1, <2>3 DEF Show, Meets
  <2>4. NothingPrinted'
    BY <2>1, <2>3 DEF ChainInv, NothingPrinted
  <2>5. PrintedKeyKept'
    BY <2>1 DEF ChainInv, PrintedKeyKept
  <2> QED
    BY <2>2, <2>4, <2>5
<1>9. ASSUME UNCHANGED chainVars PROVE Kept
  <2>1. OneHolder' /\ NothingPrinted'
    BY <1>9 DEF chainVars, ChainInv, OneHolder, NothingPrinted
  <2>2. ExportsItsKey' /\ PrintedKeyKept'
    <3>1. chain' = chain /\ proc' = proc /\ printed' = printed /\ saved' = saved /\ met' = met
      BY <1>9 DEF chainVars
    <3>2. ExportsItsKey'
      BY <3>1 DEF ChainInv, ExportsItsKey
    <3> QED
      BY <3>1, <3>2 DEF ChainInv, PrintedKeyKept
  <2> QED
    BY <2>1, <2>2
<1> QED
  <2>1. ChainNext => Kept
    BY <1>1, <1>2, <1>3, <1>4, <1>5, <1>6, <1>7, <1>8, <1>t, Begins DEF ChainNext, ChainTypeOK
  <2> QED
    BY <1>9, <1>t, <2>1 DEF ChainInv

\* At first no process runs, and nothing was printed.
LEMMA ChainInitInv == ChainInit => ChainInv
BY KeysAreKeys DEF ChainInit, ChainInv, ChainTypeOK, Commands, Exit, OneHolder, NothingPrinted,
   ExportsItsKey, PrintedKeyKept, Holding

\* For every set of labels and key files and any number of processes: a printed
\* key stays under its label, and a saved file holds it, until a command is told
\* to replace or delete it, or two commands met over the label.
THEOREM PrintedKeysStay == ChainSpec => []PrintedKeyKept
<1>1. ChainInv => PrintedKeyKept
  BY DEF ChainInv
<1> QED
  BY <1>1, ChainInitInv, ChainStep, PTL DEF ChainSpec
=============================================================================
