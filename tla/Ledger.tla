------------------------------- MODULE Ledger -------------------------------
(***************************************************************************)
(* The Ledger transport (ledger.rs, ledger_apdu.rs): a host that writes    *)
(* commands over USB HID and reads packets with a timeout, and a device    *)
(* that answers in its own time.  A read that times out is not an error to *)
(* the code: the buffer stays zero and is taken for a packet.  The answer  *)
(* it gave up on still arrives, and nothing in a packet says which command *)
(* it answers.                                                             *)
(*                                                                         *)
(* The device is external, and how it puts the chunks of a transaction     *)
(* together is not assumed: it answers commands in the order they came, or *)
(* never, and a chunk that has more after it with a status word, or not.   *)
(***************************************************************************)
EXTENDS Integers, Sequences

CONSTANTS TxLens,      \* lengths of the transactions signed
          Components,  \* components of the derivation path
          MaxCalls,    \* bound: calls made
          MaxGarbage   \* bound: packets read for a length that is not one

MaxTxChunk == 250
MaxApduPayload == 255

\* P1 of a chunk; the documentation gives them the other way round.
P1First == 0
P1More == 128

\* DerivationPath::to_bytes: a count and four bytes for each component.
PathLen == 1 + 4 * Components

ASSUME LedgerAssumption == /\ TxLens \subseteq Nat
                           /\ Components \in Nat /\ PathLen < MaxTxChunk
                           /\ MaxCalls \in Nat /\ MaxGarbage \in Nat

PacketSize == 64
StatusLen == 2

VARIABLES n,        \* calls begun so far; the last is the current one
          op,       \* op[i]: the operation of call i
          pc,       \* where the current call is: "idle", "write", "first", "more"
          offset,   \* transaction bytes written by the current sign_transaction
          total,    \* response length read from the first packet
          got,      \* packets read for the current call
          result,   \* result[i]: how call i ended
          written,  \* chunks written by the current sign_transaction
          wire,     \* packets sent to the open handle and not read yet
          queue     \* commands the device has taken and not answered

hostVars == <<n, op, pc, offset, total, got, result, written>>
vars == <<hostVars, wire, queue>>

Ops == {"version", "pubkey", "sign"}
Calls == 1..MaxCalls
Operation == [kind : Ops, len : TxLens \union {0}]
Pending == [status |-> "none", from |-> 0]
Result == [status : {"none", "ok", "denied", "short", "frame", "hid", "empty"},
           from : 0..MaxCalls]
\* A packet of an answer, and whether it is the first; "denied" stands for
\* every status word that is not success.
Packet == [first : BOOLEAN, total : Nat, from : Calls, status : {"ok", "denied"}]
\* The bytes of the transaction from one offset to another, and its mark.
Chunk == [start : Nat, end : Nat, p1 : {P1First, P1More}]
\* What the device got: a whole command, or a chunk with more to come.
Command == [from : Calls, kind : Ops \union {"chunk"}]

Smaller(a, b) == IF a < b THEN a ELSE b

TypeOK == /\ n \in 0..MaxCalls
          /\ op \in [Calls -> Operation]
          /\ pc \in {"idle", "write", "first", "more"}
          /\ offset \in Nat /\ total \in Nat
          /\ got \in Seq(Packet)
          /\ result \in [Calls -> Result]
          /\ written \in Seq(Chunk)
          /\ wire \in Seq(Packet)
          /\ queue \in Seq(Command)
          /\ pc /= "idle" => n > 0 /\ result[n] = Pending

Init == /\ n = 0
        /\ op = [i \in Calls |-> [kind |-> "version", len |-> 0]]
        /\ pc = "idle"
        /\ offset = 0 /\ total = 0
        /\ got = <<>>
        /\ result = [i \in Calls |-> Pending]
        /\ written = <<>> /\ wire = <<>> /\ queue = <<>>

-----------------------------------------------------------------------------
\* apdu_to_hid_packets: 57 bytes fit the first packet, 59 each one after it.
PacketsFor(len) == IF len <= PacketSize - 7 THEN 1
                   ELSE 1 + (len - (PacketSize - 7) + PacketSize - 6) \div (PacketSize - 5)

\* What the device has to say to a command, status word included.
ReplyLen(kind) == CASE kind = "version" -> 4 + StatusLen
                    [] kind = "pubkey" -> 32 + StatusLen
                    [] kind = "sign" -> 64 + StatusLen
                    [] kind = "chunk" -> StatusLen

\* The payload each operation asks for: longer ones are cut, shorter refused.
NeededLen(kind) == CASE kind = "version" -> 4
                     [] kind = "pubkey" -> 32
                     [] kind = "sign" -> 64

\* The next chunk of sign_transaction: the path takes room in the first.
ChunkEnd(off, len) == Smaller(len, off + MaxTxChunk - (IF off = 0 THEN PathLen ELSE 0))

\* Mutant: the chunk before a short one is marked last.
XIsLast(end, len) == end + MaxTxChunk > len

\* The chunk that ends the transaction is sent with exchange.
IsLast(end, len) == end = len

-----------------------------------------------------------------------------
\* A call ends: an early return of exchange or of the operation.
Return(status, from) ==
  /\ pc' = "idle"
  /\ result' = [result EXCEPT ![n] = [status |-> status, from |-> from]]
  /\ offset' = 0 /\ total' = 0
  /\ got' = <<>> /\ written' = <<>>
  /\ UNCHANGED <<n, op>>

\* app_version, pubkey or sign_transaction on the open connection; there is
\* nothing to sign in an empty transaction.
Begin(kind, len) ==
  /\ pc = "idle"
  /\ n < MaxCalls
  /\ kind /= "sign" => len = 0
  /\ n' = n + 1
  /\ op' = [op EXCEPT ![n + 1] = [kind |-> kind, len |-> len]]
  /\ offset' = 0 /\ total' = 0
  /\ got' = <<>> /\ written' = <<>>
  /\ IF kind = "sign" /\ len = 0
     THEN /\ result' = [result EXCEPT ![n + 1] = [status |-> "empty", from |-> n + 1]]
          /\ pc' = "idle"
     ELSE pc' = "write" /\ UNCHANGED result
  /\ UNCHANGED queue

\* A library caller uses the signer it has.
Call(kind, len) == Begin(kind, len) /\ UNCHANGED wire

\* connect: a new handle, with none of the packets sent to an earlier one.
Connect == pc = "idle" /\ wire' = <<>> /\ UNCHANGED <<hostVars, queue>>

\* cmd_ledger: every command is a process that opens the device first.
CliCommand(kind) == Begin(kind, 0) /\ kind /= "sign" /\ wire' = <<>>

\* A command other than sign, or the next chunk of a transaction; the path is
\* written before the first.  Chunks but the last are written without waiting
\* for an answer, whether or not the device gives one.
Takes(kind) == queue' = Append(queue, [from |-> n, kind |-> kind])
Write ==
  /\ pc = "write"
  /\ LET len == op[n].len
         end == ChunkEnd(offset, len)
         last == IsLast(end, len)
         p1 == IF last THEN P1First ELSE P1More
     IN IF op[n].kind /= "sign"
        THEN Takes(op[n].kind) /\ pc' = "first" /\ UNCHANGED <<offset, written>>
        ELSE /\ offset' = end
             /\ written' = Append(written, [start |-> offset, end |-> end, p1 |-> p1])
             /\ \/ last /\ Takes("sign") /\ pc' = "first"
                \/ ~last /\ (Takes("chunk") \/ UNCHANGED queue) /\ UNCHANGED pc
  /\ UNCHANGED <<n, op, total, got, result, wire>>

\* A write or a read that the operating system fails.
HidError == /\ pc /= "idle"
            /\ Return("hid", n)
            /\ UNCHANGED <<wire, queue>>

\* hid_packets_to_apdu: the tag of each packet is looked at, its sequence
\* number is not.
XFramed(pkts) == TRUE
Framed(pkts) == pkts[1].first /\ \A i \in 2..Len(pkts) : ~pkts[i].first

\* The status word, then the length of the payload.  Nothing says whose the
\* answer is.
Outcome(pkts) ==
  IF ~Framed(pkts) THEN [status |-> "frame", from |-> n]
  ELSE IF pkts[1].status = "denied" THEN [status |-> "denied", from |-> pkts[1].from]
  ELSE IF pkts[1].total - StatusLen < NeededLen(op[n].kind)
       THEN [status |-> "short", from |-> pkts[1].from]
       ELSE [status |-> "ok", from |-> pkts[1].from]

Finish(pkts) == LET o == Outcome(pkts) IN Return(o.status, o.from)

\* The first packet tells how many more to read.  A packet that continues
\* another answer has payload bytes where the length should be: any number.
ReadFirst ==
  /\ pc = "first"
  /\ wire /= <<>>
  /\ wire' = Tail(wire)
  /\ \E want \in 1..(MaxGarbage + 1) :
       /\ Head(wire).first => want = PacketsFor(Head(wire).total)
       /\ IF want = 1 THEN Finish(<<Head(wire)>>)
          ELSE /\ got' = <<Head(wire)>> /\ total' = want /\ pc' = "more"
               /\ UNCHANGED <<n, op, offset, result, written>>
  /\ UNCHANGED queue

\* The timeout of the first read: a zero packet, whose length is zero and
\* whose header is refused.  What is on the wire may come too late for it.
FirstTimeout ==
  /\ pc = "first"
  /\ Return("frame", n)
  /\ UNCHANGED <<wire, queue>>

\* Mutant: a packet that did not come is not counted.
XCollect(pkt) ==
  IF pkt.total = 0 THEN UNCHANGED hostVars
  ELSE LET pkts == Append(got, pkt)
       IN IF Len(pkts) >= total THEN Finish(pkts)
          ELSE got' = pkts /\ UNCHANGED <<n, op, pc, offset, total, result, written>>

\* One more packet, until as many as the length asks for were read.
Collect(pkt) ==
  LET pkts == Append(got, pkt)
  IN IF Len(pkts) >= total THEN Finish(pkts)
     ELSE got' = pkts /\ UNCHANGED <<n, op, pc, offset, total, result, written>>

ReadMore == /\ pc = "more"
            /\ wire /= <<>>
            /\ wire' = Tail(wire)
            /\ Collect(Head(wire))
            /\ UNCHANGED queue

\* A timeout counts as a packet, of zeros, and is refused only at the end.
Zeros == [first |-> TRUE, total |-> 0, from |-> n, status |-> "ok"]
MoreTimeout == /\ pc = "more"
               /\ Collect(Zeros)
               /\ UNCHANGED <<wire, queue>>

\* The device answers the oldest command it holds, if a handle is open; the
\* user may refuse to sign or to show a key.
Packets(from, total_, status) ==
  [i \in 1..PacketsFor(total_) |-> [first |-> i = 1, total |-> total_, from |-> from, status |-> status]]
Answer ==
  /\ queue /= <<>>
  /\ n > 0
  /\ \E status \in {"ok", "denied"} :
       /\ Head(queue).kind = "version" => status = "ok"
       /\ wire' = wire \o Packets(Head(queue).from,
                     IF status = "ok" THEN ReplyLen(Head(queue).kind) ELSE StatusLen, status)
  /\ queue' = Tail(queue)
  /\ UNCHANGED hostVars

Next == \/ \E kind \in Ops, len \in TxLens \union {0} : Call(kind, len)
        \/ \E kind \in Ops : CliCommand(kind)
        \/ Connect \/ Write \/ HidError
        \/ ReadFirst \/ FirstTimeout \/ ReadMore \/ MoreTimeout
        \/ Answer

\* A call runs on: writes return and each read returns within its timeout.
Step == Write \/ ReadFirst \/ FirstTimeout \/ ReadMore \/ MoreTimeout
Spec == Init /\ [][Next]_vars /\ WF_vars(Step)

-----------------------------------------------------------------------------
\* A call that got an answer read all of it, and one that sent its command
\* whole gets no other.
Answered(i) == result[i].status \in {"ok", "denied", "empty"}
Single(i) == op[i].kind = "sign" => op[i].len <= MaxTxChunk - PathLen

\* While every call so far sent one command and was answered, a success is the
\* answer to the call that returns it, though its own transaction take several
\* chunks.  One timeout, or one answer to a chunk that was not the last, and a
\* later call may return what an earlier one asked for.
AnswersAreOwn ==
  \A i \in Calls :
    result[i].status = "ok" /\ (\A j \in 1..(i - 1) : Answered(j) /\ Single(j))
      => result[i].from = i

\* sign_transaction waits for a signature only when it has written all of the
\* transaction, from the first byte to the last in order, in payloads whose
\* length the byte of an APDU can hold.
WritesWhole ==
  pc \in {"first", "more"} /\ op[n].kind = "sign" =>
    /\ written /= <<>>
    /\ written[1].start = 0 /\ written[Len(written)].end = op[n].len
    /\ \A i \in DOMAIN written :
         /\ i > 1 => written[i].start = written[i - 1].end
         /\ written[i].end - written[i].start + (IF i = 1 THEN PathLen ELSE 0) <= MaxApduPayload

\* What ledger_apdu.rs says of the chunks: the first carries P1 0x00, the
\* subsequent ones P1 0x80.
ChunksAsDocumented ==
  \A i \in DOMAIN written : written[i].p1 = IF i = 1 THEN P1First ELSE P1More

\* No call hangs, whatever was read and however long the answer takes.
CallsReturn == \A i \in Calls : (n = i /\ pc /= "idle") ~> (result[i] /= Pending)
=============================================================================
