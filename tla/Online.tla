------------------------------- MODULE Online -------------------------------
(***************************************************************************)
(* The online machine: prepare, inspect, broadcast, airdrop and run of the *)
(* CLI, the Broadcaster library and WasmBroadcaster, around one file of    *)
(* the unsigned transaction, an air-gapped signer that signs what the file *)
(* holds (AirSigner), and a cluster.                                       *)
(*                                                                         *)
(* The cluster and the RPC client are external.  A node takes a            *)
(* transaction, loses an answer, or refuses; what a node has taken lands   *)
(* at any time while its blockhash lives, once, and may fail; equal        *)
(* instructions under one blockhash are one transaction.                   *)
(***************************************************************************)
EXTENDS Inspector, FiniteSets, SequencesExt

CONSTANTS Procs,       \* broadcasting processes
          Cluster,     \* the cluster the commands name
          Orders,      \* the command lines of prepare and run
          Life,        \* heights a blockhash lives
          MaxRetries,  \* retries of broadcast_with_retry
          MaxPolls,    \* polls of wait_for_finalized
          MaxOrders,   \* bound: prepare and run commands
          MaxHeight    \* bound: heights; blockhashes are taken while they can expire

\* The commands that build a transaction; prepare takes --memo with each.
ASSUME OrdersAreCommands ==
  \A o \in Orders : o.kind \in {"transfer", "run", "token", "stake", "stake_all"} /\ o.memo \in BOOLEAN

VARIABLES height,   \* of the cluster
          payer,    \* the payer's balance
          stake,    \* the stake account's balance
          orders,   \* the commands that built a transaction, in order, each with it
          file,     \* unsigned_tx.bin
          review,   \* the last inspect: what it saw, its arguments and its exit code
          signed,   \* responses the signer has given
          pool,     \* transactions a node has taken
          landed,   \* transaction -> did it succeed, and since when
          call,     \* process -> its broadcast or poll
          answers   \* the signatures that calls have reported

onlineVars == <<height, payer, stake, orders, file, review, signed, pool, landed, call, answers>>
chain == <<height, payer, stake, pool, landed>>
desk == <<orders, file, review>>

NoTx == BuildTx(<<>>, 0)
NoReview == [tx |-> NoTx, lines |-> <<>>, simulated |-> FALSE, would |-> FALSE, exit |-> 1]
Idle == [phase |-> "idle", tx |-> NoTx, attempt |-> 0, max |-> 0, polls |-> 0]

\* What a transaction moves.
Spent(tx, program) == FoldLeft(LAMBDA s, ix : s + (IF ix.program = program THEN ix.amount ELSE 0), 0, tx.ixs)
Affords(tx) == Spent(tx, "system") <= payer /\ Spent(tx, "stake") <= stake
Alive(tx) == height <= tx.hash + Life

OnlineInit == /\ height = 1
              /\ payer = 1 /\ stake = 1
              /\ orders = <<>> /\ file = NoTx /\ review = NoReview
              /\ signed = {} /\ pool = {} /\ landed = <<>>
              /\ call = [p \in Procs |-> Idle]
              /\ answers = {}

-----------------------------------------------------------------------------
\* The amount of a command: --amount-all asks the node for the balance.
AmountOf(o) == IF o.kind = "stake_all" THEN stake ELSE o.amount

InstructionsOf(o, amount) ==
  (CASE o.kind \in {"transfer", "run"} -> <<Transfer("payer", o.to, amount)>>
     [] o.kind = "token" -> <<token_transfer("payer", ata_for("payer", o.mint), ata_for(o.to, o.mint), o.mint, amount)>>
     [] o.kind \in {"stake", "stake_all"} -> <<stake_withdraw("payer", "stake", o.to, amount)>>)
  \o (IF o.memo THEN <<memo>> ELSE <<>>)

OrderedTx(o) == BuildTx(InstructionsOf(o, AmountOf(o)), height)
Ordered(o) == /\ Len(orders) < MaxOrders
              /\ height + Life < MaxHeight
              /\ orders' = Append(orders, [order |-> o, tx |-> OrderedTx(o)])

\* cmd_prepare: the file is written over.  When the node does not answer
\* the command ends with the file as it was.
Prepare(o) == /\ o.kind /= "run"
              /\ Ordered(o)
              /\ file' = OrderedTx(o)
              /\ review' = NoReview
              /\ UNCHANGED <<chain, signed, call, answers>>

ExitCode(high, failed) ==
  LET code == IF high THEN 2 ELSE 0 IN IF failed /\ code < 1 THEN 1 ELSE code

\* The simulation, under a blockhash of the node's: what the transaction moves
\* decides.  A node that does not answer counts as a failure of it.
check_tx(tx, answered) == answered /\ Affords(tx)

\* cmd_inspect, of a file that has not been sent yet.  The check runs only when
\* a cluster is named, and counts only when --simulate is given.
Inspect(cluster, simulate, answered) ==
  /\ file \notin signed \union {NoTx}
  /\ LET summary == inspect_tx(file)
         simulated == cluster /\ simulate
         would == check_tx(file, answered)
     IN review' = [tx |-> file, lines |-> summary.lines, simulated |-> simulated,
                   would |-> simulated /\ would,
                   exit |-> ExitCode(has_high_risk(summary), simulated /\ ~would)]
  /\ UNCHANGED <<chain, orders, file, signed, call, answers>>

\* The file is sent to the signer, the review is over, and the response comes back.
SignFile == /\ file /= NoTx
            /\ signed' = signed \union {file}
            /\ review' = NoReview
            /\ UNCHANGED <<chain, orders, file, call, answers>>

-----------------------------------------------------------------------------
\* A call of broadcast_response, of broadcast_with_retry, or of
\* wait_for_finalized for a signature that was reported.
Start(p, c) == /\ call[p].phase = "idle"
               /\ call' = [call EXCEPT ![p] = c]
Broadcast(p, tx, max) == /\ tx \in signed
                         /\ Start(p, [phase |-> "send", tx |-> tx, attempt |-> 0, max |-> max, polls |-> 0])
                         /\ UNCHANGED <<chain, desk, signed, answers>>
Wait(p, tx) == /\ \E a \in answers : a.tx = tx /\ a.said \in {"confirmed", "accepted"}
               /\ Start(p, [phase |-> "poll", tx |-> tx, attempt |-> 0, max |-> 0, polls |-> 0])
               /\ UNCHANGED <<chain, desk, signed, answers>>

\* cmd_run: built, signed with the key file and broadcast once.
Run(p, o) == /\ o.kind = "run"
             /\ Ordered(o)
             /\ Start(p, [phase |-> "send", tx |-> OrderedTx(o), attempt |-> 0, max |-> 0, polls |-> 0])
             /\ UNCHANGED <<chain, file, review, signed, answers>>

Fail(p) == call' = [call EXCEPT ![p] = Idle] /\ UNCHANGED answers
End(p, said) == /\ call' = [call EXCEPT ![p] = Idle]
                /\ answers' = answers \union {[tx |-> call[p].tx, said |-> said]}

\* Mutant: a retry puts a new blockhash in, as prepare does.
XAgain(c) == [c EXCEPT !.attempt = @ + 1, !.phase = "send", !.tx.hash = height]
Again(c) == [c EXCEPT !.attempt = @ + 1, !.phase = "send"]

MayRetry(c) == c.attempt < c.max

\* The end of an attempt that failed, for whatever reason.
Failed(p) == IF MayRetry(call[p])
             THEN call' = [call EXCEPT ![p] = Again(call[p])] /\ UNCHANGED answers
             ELSE Fail(p)

\* send_and_confirm_transaction: the node takes the transaction, or takes it
\* and the answer is lost, or does not take it.
Send(p, taken, answered) ==
  /\ call[p].phase = "send"
  /\ taken => Alive(call[p].tx) /\ call[p].tx \notin DOMAIN landed
  /\ pool' = IF taken THEN pool \union {call[p].tx} ELSE pool
  /\ IF taken /\ answered THEN call' = [call EXCEPT ![p].phase = "confirm"] /\ UNCHANGED answers
     ELSE Failed(p)
  /\ UNCHANGED <<height, payer, stake, landed, desk, signed>>

\* ... and waits for it, until it has landed or its blockhash is dead.
Confirm(p) == /\ call[p].phase = "confirm"
              /\ IF call[p].tx \in DOMAIN landed
                 THEN IF landed[call[p].tx].ok THEN End(p, "confirmed") ELSE Failed(p)
                 ELSE ~Alive(call[p].tx) /\ Failed(p)
              /\ UNCHANGED <<chain, desk, signed>>
ConfirmFails(p) == call[p].phase = "confirm" /\ Failed(p) /\ UNCHANGED <<chain, desk, signed>>

\* Mutant: what is finalized counts, also when it failed.
XFinalized(tx) == tx \in DOMAIN landed /\ landed[tx].at < height
Finalized(tx) == tx \in DOMAIN landed /\ landed[tx].at < height /\ landed[tx].ok

\* Mutant: a poll that saw the transaction is not counted.
XPolled(c) == IF c.tx \in DOMAIN landed THEN c ELSE [c EXCEPT !.polls = @ + 1]
Polled(c) == [c EXCEPT !.polls = @ + 1]

Poll(p) == /\ call[p].phase = "poll"
           /\ IF Finalized(call[p].tx) THEN End(p, "finalized")
              ELSE IF call[p].polls + 1 < MaxPolls
                   THEN call' = [call EXCEPT ![p] = Polled(call[p])] /\ UNCHANGED answers
              ELSE Fail(p)
           /\ UNCHANGED <<chain, desk, signed>>
PollFails(p) == call[p].phase = "poll" /\ Fail(p) /\ UNCHANGED <<chain, desk, signed>>

\* A page with WasmBroadcaster sends the body it built and reads the answer: a
\* signature, of a transaction that was taken and no more.
WebSend(tx) == /\ tx \in signed /\ Alive(tx) /\ tx \notin DOMAIN landed
               /\ pool' = pool \union {tx}
               /\ answers' = answers \union {[tx |-> tx, said |-> "accepted"]}
               /\ UNCHANGED <<height, payer, stake, landed, desk, signed, call>>

\* cmd_airdrop, refused by the cluster's name.
Airdrop == /\ Cluster \notin {"mainnet", "mainnet-beta"}
           /\ payer = 0
           /\ payer' = 1
           /\ UNCHANGED <<height, stake, pool, landed, desk, signed, call, answers>>

-----------------------------------------------------------------------------
LandTx(tx) == /\ tx \in pool /\ Alive(tx) /\ tx \notin DOMAIN landed
              /\ landed' = [t \in DOMAIN landed \union {tx} |->
                               IF t = tx THEN [ok |-> Affords(tx), at |-> height] ELSE landed[t]]
              /\ payer' = IF Affords(tx) THEN payer - Spent(tx, "system") ELSE payer
              /\ stake' = IF Affords(tx) THEN stake - Spent(tx, "stake") ELSE stake
              /\ UNCHANGED <<height, pool, desk, signed, call, answers>>
Tick == /\ height < MaxHeight
          /\ height' = height + 1
          /\ UNCHANGED <<payer, stake, pool, landed, desk, signed, call, answers>>

Step(p) == \/ \E taken, answered \in BOOLEAN : Send(p, taken, answered)
           \/ Confirm(p) \/ ConfirmFails(p) \/ Poll(p) \/ PollFails(p)

OnlineNext == \/ \E o \in Orders : Prepare(o) \/ \E p \in Procs : Run(p, o)
              \/ \E cluster, simulate, answered \in BOOLEAN : Inspect(cluster, simulate, answered)
              \/ SignFile \/ Airdrop \/ Tick
              \/ \E p \in Procs, tx \in signed : Wait(p, tx) \/ \E max \in {0, MaxRetries} : Broadcast(p, tx, max)
              \/ \E p \in Procs : Step(p)
              \/ \E tx \in signed : WebSend(tx)
              \/ \E tx \in pool : LandTx(tx)

\* Heights go by, and an RPC call ends: the client's requests time out.
OnlineFairness ==
  /\ WF_onlineVars(Tick)
  /\ \A p \in Procs : /\ WF_onlineVars(\E taken, answered \in BOOLEAN : Send(p, taken, answered))
                      /\ WF_onlineVars(Confirm(p)) /\ WF_onlineVars(Poll(p))
OnlineSpec == OnlineInit /\ [][OnlineNext]_onlineVars /\ OnlineFairness

-----------------------------------------------------------------------------
\* What the cluster has carried out was ordered, and no more often than it was
\* ordered: retries, repeated broadcasts, a page that sends as well and answers
\* that were lost make no payment of their own.
PaidAsOrdered ==
  \A tx \in DOMAIN landed :
    Cardinality({t \in DOMAIN landed : t.ixs = tx.ixs})
      <= Cardinality({k \in DOMAIN orders : orders[k].tx.ixs = tx.ixs})

\* A call that says confirmed or finalized speaks of a transaction that was
\* carried out, whatever was lost, late or landed with an error before.
Succeeded(tx) == tx \in DOMAIN landed /\ landed[tx].ok
SuccessIsLanded == \A a \in answers : a.said \in {"confirmed", "finalized"} => Succeeded(a.tx)

\* The review of a file shows each order as it was given, and a script that
\* goes on after it has a file with no transfer of 100 SOL or more and, if it
\* asked for one, a simulation that went well.
Meant(o) == <<[name |-> IF o.kind = "token" THEN "token_transfer"
                        ELSE IF o.kind \in {"stake", "stake_all"} THEN "stake_withdraw" ELSE "transfer",
               to |-> IF o.kind = "token" THEN ata_for(o.to, o.mint) ELSE o.to]>>
            \o IF o.memo THEN <<[name |-> "memo", to |-> None]>> ELSE <<>>
ReviewedAsOrdered ==
  review.tx /= NoTx =>
    /\ \E e \in ToSet(orders) :
         /\ review.tx = e.tx
         /\ Meant(e.order) = [k \in DOMAIN review.lines |->
              [name |-> review.lines[k].name, to |-> review.lines[k].to]]
         /\ e.order.kind = "transfer" /\ e.order.amount >= 100 => review.exit = 2
    /\ review.exit = 0 /\ review.simulated => review.would

\* Every broadcast and every wait ends, whatever the node answers.
CallsEnd == \A p \in Procs : call[p].phase /= "idle" ~> call[p].phase = "idle"
=============================================================================
