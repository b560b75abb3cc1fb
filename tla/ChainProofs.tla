----------------------------- MODULE ChainProofs ------------------------------
(***************************************************************************)
(* Proofs about what meets the cluster: Squads, for any configurations and *)
(* contents, and Online, for any orders, processes and retries.            *)
(***************************************************************************)
EXTENDS Squads, Online, FiniteSetTheorems, SequenceTheorems, TLAPS

-----------------------------------------------------------------------------
(***************************************************************************)
(* Squads.                                                                 *)
(***************************************************************************)

TxAddresses(i) == {derive_transaction_pda(i), config_transaction_pda(i)}
At == Nat \ {0}

\* Addresses are of one index and one kind each.
LEMMA AddressesDiffer ==
  /\ \A i, j \in At : TxAddresses(i) \intersect TxAddresses(j) /= {} => i = j
  /\ \A i, j \in At : derive_proposal_pda(i) = derive_proposal_pda(j) => i = j
  /\ \A i \in At : derive_transaction_pda(i) /= config_transaction_pda(i)
BY DEF TxAddresses, derive_proposal_pda, derive_transaction_pda, config_transaction_pda, At

Creates(ix) == ix.name \in {"vault_transaction_create", "config_transaction_create"}
Executes(ix) == ix.name \in {"vault_transaction_execute", "config_transaction_execute"}

\* An instruction goes to the addresses of its index, and an approval's
\* builder found nothing there or what is there now.
IxFits(ix) ==
  /\ ix.at \in At
  /\ Creates(ix) => ix.accounts[1] \in TxAddresses(ix.at) /\ ix.content \in Contents
  /\ ~Creates(ix) => ix.accounts[1] = derive_proposal_pda(ix.at)
  /\ Executes(ix) => ix.accounts[2] \in TxAddresses(ix.at)
  /\ ix.name = "proposal_approve" => ix.saw \in {ContentAt(ix.at), NoContent}

\* An index has one transaction, of one kind, once it is reached.
TxsFit ==
  /\ index \in Nat
  /\ \A a \in DOMAIN txs : txs[a] /= NoContent /\ \E i \in 1..index : a \in TxAddresses(i)
  /\ \A i \in At : ~(TxAddresses(i) \subseteq DOMAIN txs)

\* An approval of an index that a member built.
Approval(ix, m, i) == ix.name = "proposal_approve" /\ ix.member = m /\ ix.at = i

\* The approvers of a proposal built approvals of its index.
ProposalsFit ==
  \A i \in At : derive_proposal_pda(i) \in DOMAIN proposals =>
    \A m \in proposals[derive_proposal_pda(i)].approved : \E ix \in built : Approval(ix, m, i)

SquadsInv == TxsFit /\ ProposalsFit /\ (\A ix \in built : IxFits(ix)) /\ ExecutesWhatWasApproved

\* At first no index has anything.
LEMMA SquadsInitInv == SquadsInit => SquadsInv
BY DEF SquadsInit, SquadsInv, TxsFit, ProposalsFit, IxFits, ExecutesWhatWasApproved, TxAddresses

\* What is at an index stays there.
LEMMA ContentStays ==
  ASSUME NEW i, ContentAt(i) /= NoContent, TxsFit, i \in At,
         \/ txs' = txs
         \/ \E a, v : a \notin DOMAIN txs /\ a \notin TxAddresses(i) /\ txs' = Put(txs, a, v)
  PROVE  ContentAt(i)' = ContentAt(i)
<1>1. CASE txs' = txs
  BY <1>1 DEF ContentAt
<1>2. ASSUME NEW a, NEW v, a \notin TxAddresses(i), txs' = Put(txs, a, v)
      PROVE  ContentAt(i)' = ContentAt(i)
  BY <1>2 DEF ContentAt, Put, TxAddresses
<1> QED
  BY <1>1, <1>2

\* A command that only builds adds a transaction that fits.
LEMMA BuildStep ==
  ASSUME SquadsInv, NEW ixs, Build(ixs), \A ix \in ixs : IxFits(ix)
  PROVE  SquadsInv'
<1>1. /\ built' = built \union ixs /\ index' = index /\ txs' = txs /\ proposals' = proposals
      /\ executed' = executed
  BY DEF Build
<1>2. TxsFit' /\ ProposalsFit'
  BY <1>1 DEF SquadsInv, TxsFit, ProposalsFit
<1>3. \A ix \in built' : IxFits(ix)'
  BY <1>1 DEF SquadsInv, IxFits, ContentAt
<1>4. ExecutesWhatWasApproved'
  BY <1>1 DEF SquadsInv, ExecutesWhatWasApproved
<1> QED
  BY <1>2, <1>3, <1>4 DEF SquadsInv

\* A transaction is put at an index that no one has reached.
LEMMA LandCreateStep ==
  ASSUME SquadsInv, NEW ix \in built, LandCreate(ix), built' = built
  PROVE  SquadsInv'
<1> DEFINE a == ix.accounts[1]
<1>1. /\ ix.at = index + 1 /\ index' = index + 1 /\ index \in Nat /\ ix.at \in At
      /\ a \notin DOMAIN txs /\ txs' = Put(txs, a, ix.content)
      /\ a \in TxAddresses(ix.at) /\ ix.content \in Contents
      /\ proposals' = proposals /\ executed' = executed
  BY DEF LandCreate, SquadsInv, TxsFit, IxFits, Creates
<1>2. /\ DOMAIN txs' = DOMAIN txs \union {a} /\ txs'[a] = ix.content
      /\ \A b \in DOMAIN txs : txs'[b] = txs[b]
  BY <1>1 DEF Put
<1>3. \A b \in TxAddresses(ix.at) : b \notin DOMAIN txs
  <2> SUFFICES ASSUME NEW b \in TxAddresses(ix.at), b \in DOMAIN txs PROVE FALSE
    OBVIOUS
  <2>1. PICK i \in 1..index : b \in TxAddresses(i)
    BY DEF SquadsInv, TxsFit
  <2>2. i \in At /\ i /= ix.at
    BY <1>1 DEF At
  <2> QED
    BY <1>1, <2>1, <2>2, AddressesDiffer
<1>4. TxsFit'
  <2>1. index' \in Nat
    BY <1>1
  <2>2. ASSUME NEW b \in DOMAIN txs' PROVE txs'[b] /= NoContent /\ \E i \in 1..index' : b \in TxAddresses(i)
    <3>1. CASE b = a
      BY <1>1, <1>2, <3>1, ContentsAreContents
    <3>2. CASE b /= a
      <4>1. b \in DOMAIN txs /\ txs'[b] = txs[b]
        BY <1>2, <3>2
      <4>2. txs[b] /= NoContent /\ \E i \in 1..index : b \in TxAddresses(i)
        BY <4>1 DEF SquadsInv, TxsFit
      <4> QED
        BY <1>1, <4>1, <4>2
    <3> QED
      BY <3>1, <3>2
  <2>3. ASSUME NEW i \in At PROVE ~(TxAddresses(i) \subseteq DOMAIN txs')
    <3>1. CASE i = ix.at
      BY <1>2, <1>3, <3>1, AddressesDiffer DEF TxAddresses
    <3>2. CASE i /= ix.at
      <4>1. a \notin TxAddresses(i)
        BY <1>1, <3>2, AddressesDiffer
      <4> QED
        BY <1>2, <4>1 DEF SquadsInv, TxsFit
    <3> QED
      BY <3>1, <3>2
  <2> QED
    BY <2>1, <2>2, <2>3 DEF TxsFit
<1>5. ASSUME NEW i \in At, ContentAt(i) /= NoContent PROVE ContentAt(i)' = ContentAt(i)
  <2>1. i /= ix.at
    BY <1>3, <1>5 DEF ContentAt, TxAddresses
  <2>2. a \notin TxAddresses(i)
    BY <1>1, <2>1, AddressesDiffer
  <2> QED
    BY <1>1, <1>5, <2>2, ContentStays DEF SquadsInv
<1>6. ProposalsFit'
  BY <1>1 DEF SquadsInv, ProposalsFit
<1>7. \A x \in built' : IxFits(x)'
  <2> SUFFICES ASSUME NEW x \in built PROVE IxFits(x)'
    OBVIOUS
  <2>1. IxFits(x)
    BY DEF SquadsInv
  <2>2. x.name = "proposal_approve" => x.saw = NoContent \/ x.saw = ContentAt(x.at)'
    BY <1>5, <2>1 DEF IxFits
  <2> QED
    BY <2>1, <2>2 DEF IxFits, Creates, Executes
<1> QED
  BY <1>1, <1>4, <1>6, <1>7 DEF SquadsInv, ExecutesWhatWasApproved

\* A new proposal has no approver yet.
LEMMA LandProposalStep ==
  ASSUME SquadsInv, NEW ix \in built, LandProposal(ix), built' = built
  PROVE  SquadsInv'
<1> DEFINE a == ix.accounts[1]
<1>1. /\ proposals' = Put(proposals, a, NewProposal)
      /\ index' = index /\ txs' = txs /\ executed' = executed
  BY DEF LandProposal
<1>2. ProposalsFit'
  BY <1>1 DEF SquadsInv, ProposalsFit, Put, NewProposal
<1> QED
  BY <1>1, <1>2 DEF SquadsInv, TxsFit, IxFits, Creates, Executes, ContentAt, ExecutesWhatWasApproved

\* An approval that lands counts for the index it was built for.
LEMMA LandVoteStep ==
  ASSUME SquadsInv, NEW ix \in built, LandVote(ix), built' = built
  PROVE  SquadsInv'
<1> DEFINE a == ix.accounts[1]
<1>1. /\ ix.name \in {"proposal_approve", "proposal_reject"} /\ a \in DOMAIN proposals
      /\ index' = index /\ txs' = txs /\ executed' = executed
      /\ ix.at \in At /\ a = derive_proposal_pda(ix.at)
  BY DEF LandVote, SquadsInv, IxFits, Creates
<1>2. PICK p : /\ p.approved = IF ix.name = "proposal_approve" THEN proposals[a].approved \union {ix.member}
                               ELSE proposals[a].approved \ {ix.member}
               /\ proposals' = Put(proposals, a, p)
  BY DEF LandVote
<1>3. \A m \in p.approved : \E x \in built : Approval(x, m, ix.at)
  BY <1>1, <1>2 DEF SquadsInv, ProposalsFit, Approval
<1>4. ProposalsFit'
  <2> SUFFICES ASSUME NEW i \in At, derive_proposal_pda(i) \in DOMAIN proposals',
                      NEW m \in proposals'[derive_proposal_pda(i)].approved
               PROVE  \E x \in built' : Approval(x, m, i)
    BY DEF ProposalsFit
  <2>2. CASE i = ix.at
    BY <1>1, <1>2, <1>3, <2>2 DEF Put
  <2>3. CASE i /= ix.at
    <3>1. derive_proposal_pda(i) /= a
      BY <1>1, <2>3, AddressesDiffer
    <3> QED
      BY <1>2, <3>1 DEF Put, SquadsInv, ProposalsFit
  <2> QED
    BY <2>2, <2>3
<1> QED
  BY <1>1, <1>4 DEF SquadsInv, TxsFit, IxFits, Creates, Executes, ContentAt, ExecutesWhatWasApproved

\* What is executed is what is at the index of the proposal that is approved.
LEMMA LandExecuteStep ==
  ASSUME SquadsInv, NEW ix \in built, LandExecute(ix), built' = built
  PROVE  SquadsInv'
<1> DEFINE a == ix.accounts[1]
           b == ix.accounts[2]
<1>1. /\ Executes(ix) /\ a \in DOMAIN proposals /\ b \in DOMAIN txs
      /\ index' = index /\ txs' = txs
      /\ ix.at \in At /\ a = derive_proposal_pda(ix.at) /\ b \in TxAddresses(ix.at)
      /\ proposals' = [proposals EXCEPT ![a].status = "executed"]
      /\ executed' = executed \union {[at |-> ix.at, content |-> txs[b], approved |-> proposals[a].approved]}
  BY DEF LandExecute, SquadsInv, IxFits, Creates, Executes
\* The other address of the index is not taken.
<1>2. ContentAt(ix.at) = txs[b]
  BY <1>1 DEF SquadsInv, TxsFit, ContentAt, TxAddresses
<1>3. \A m \in proposals[a].approved : \E x \in built :
        x.name = "proposal_approve" /\ x.member = m /\ x.at = ix.at /\ x.saw \in {txs[b], NoContent}
  BY <1>1, <1>2 DEF SquadsInv, ProposalsFit, Approval, IxFits
<1>4. ExecutesWhatWasApproved'
  BY <1>1, <1>3 DEF SquadsInv, ExecutesWhatWasApproved
<1>5. /\ DOMAIN proposals' = DOMAIN proposals
      /\ \A x \in DOMAIN proposals : proposals'[x].approved = proposals[x].approved
  BY <1>1
<1>6. ProposalsFit'
  BY <1>1, <1>5 DEF SquadsInv, ProposalsFit
<1> QED
  BY <1>1, <1>4, <1>6 DEF SquadsInv, TxsFit, IxFits, Creates, Executes, ContentAt

LEMMA BuildersFit ==
  ASSUME NEW m, NEW i \in At
  PROVE  /\ \A c \in Contents : IxFits(VaultCreateIx(m, i, c)) /\ IxFits(ConfigCreateIx(m, i, c))
         /\ IxFits(ProposalCreateIx(m, i))
         /\ IxFits(VoteIx("proposal_approve", m, i, ContentAt(i)))
         /\ IxFits(VoteIx("proposal_reject", m, i, NoContent))
         /\ \A kind \in {"vault_transaction", "config_transaction"} : IxFits(ExecuteIx(m, i, kind))
<1>1. \A c \in Contents : IxFits(VaultCreateIx(m, i, c)) /\ IxFits(ConfigCreateIx(m, i, c))
  BY DEF IxFits, Creates, Executes, VaultCreateIx, ConfigCreateIx, TxAddresses
<1>2. IxFits(ProposalCreateIx(m, i))
  BY DEF IxFits, Creates, Executes, ProposalCreateIx
<1>3. IxFits(VoteIx("proposal_approve", m, i, ContentAt(i)))
  BY DEF IxFits, Creates, Executes, VoteIx
<1>4. IxFits(VoteIx("proposal_reject", m, i, NoContent))
  BY DEF IxFits, Creates, Executes, VoteIx
<1>5. \A kind \in {"vault_transaction", "config_transaction"} : IxFits(ExecuteIx(m, i, kind))
  BY DEF IxFits, Creates, Executes, ExecuteIx, TxAddresses
<1> QED
  BY <1>1, <1>2, <1>3, <1>4, <1>5

\* No command, and no landing in any order, breaks the invariant.
LEMMA SquadsStep == SquadsInv /\ [SquadsNext]_squadsVars => SquadsInv'
<1> SUFFICES ASSUME SquadsInv, [SquadsNext]_squadsVars PROVE SquadsInv'
  OBVIOUS
<1>1. ASSUME NEW c \in Configs, NEW by \in {"native", "web"}, Create(c, by) PROVE SquadsInv'
  BY <1>1 DEF Create, SquadsInv, TxsFit, ProposalsFit, IxFits, Creates, Executes, ContentAt, ExecutesWhatWasApproved
<1>2. ASSUME NEW m \in People, NEW i \in 0..MaxIndex, i > 0 PROVE i \in At
  BY <1>2, ContentsAreContents DEF At
<1>3. ASSUME NEW m \in People, NEW i \in 0..MaxIndex, NEW c \in Contents, Propose(m, i, c) \/ ProposeConfig(m, i, c)
      PROVE  SquadsInv'
  BY <1>2, <1>3, BuildersFit, BuildStep DEF Propose, ProposeConfig
<1>4. ASSUME NEW m \in People, NEW i \in 0..MaxIndex, PairProposal(m, i) PROVE SquadsInv'
  BY <1>2, <1>4, BuildersFit, BuildStep DEF PairProposal
<1>5. ASSUME NEW m \in People, NEW i \in 0..MaxIndex, Approve(m, i) \/ Reject(m, i) PROVE SquadsInv'
  BY <1>2, <1>5, BuildersFit, BuildStep DEF Approve, Reject
<1>6. ASSUME NEW m \in People, NEW i \in 0..MaxIndex, NEW kind \in {"vault_transaction", "config_transaction"},
             Execute(m, i, kind)
      PROVE  SquadsInv'
  BY <1>2, <1>6, BuildersFit, BuildStep DEF Execute
<1>7. ASSUME NEW ix \in built, Land(ix) PROVE SquadsInv'
  BY <1>7, LandCreateStep, LandProposalStep, LandVoteStep, LandExecuteStep DEF Land
<1>8. ASSUME UNCHANGED squadsVars PROVE SquadsInv'
  BY <1>8 DEF squadsVars, SquadsInv, TxsFit, ProposalsFit, IxFits, Creates, Executes, ContentAt, ExecutesWhatWasApproved
<1> QED
  BY <1>1, <1>3, <1>4, <1>5, <1>6, <1>7, <1>8 DEF SquadsNext

\* For every set of members and contents, and any number of indices: each approver
\* of what a group executes built an approval of its index, and found that very
\* content there or nothing yet, however late the approval landed.
THEOREM ExecutesWhatIsApproved == SquadsSpec => []ExecutesWhatWasApproved
<1>1. SquadsInv => ExecutesWhatWasApproved
  BY DEF SquadsInv
<1> QED
  BY <1>1, SquadsInitInv, SquadsStep, PTL DEF SquadsSpec

-----------------------------------------------------------------------------
(***************************************************************************)
(* Online: what a call reports as carried out stays carried out.           *)
(***************************************************************************)

\* What has landed is not taken back.
LEMMA LandedStays ==
  ASSUME NEW tx, LandTx(tx), NEW t, Succeeded(t)
  PROVE  Succeeded(t)'
BY DEF LandTx, Succeeded

\* Only a transaction that has landed is reported as carried out.
LEMMA SuccessStep == SuccessIsLanded /\ [OnlineNext]_onlineVars => SuccessIsLanded'
<1> SUFFICES ASSUME SuccessIsLanded, [OnlineNext]_onlineVars PROVE SuccessIsLanded'
  OBVIOUS
<1> USE DEF SuccessIsLanded, Succeeded
<1>1. ASSUME answers' = answers, landed' = landed PROVE SuccessIsLanded'
  BY <1>1
<1>2. ASSUME NEW p \in Procs, NEW said, End(p, said), landed' = landed,
             said \in {"confirmed", "finalized"} => Succeeded(call[p].tx)
      PROVE  SuccessIsLanded'
  BY <1>2 DEF End
<1>3. ASSUME NEW p \in Procs, Step(p) PROVE SuccessIsLanded'
  <2>1. Failed(p) \/ Fail(p) => answers' = answers
    BY DEF Failed, Fail
  <2>2. ASSUME NEW taken \in BOOLEAN, NEW answered \in BOOLEAN, Send(p, taken, answered) PROVE SuccessIsLanded'
    BY <2>1, <2>2, <1>1 DEF Send
  <2>3. ASSUME Confirm(p) PROVE SuccessIsLanded'
    BY <2>1, <2>3, <1>1, <1>2 DEF Confirm, chain
  <2>4. ASSUME ConfirmFails(p) PROVE SuccessIsLanded'
    BY <2>1, <2>4, <1>1 DEF ConfirmFails, chain
  <2>5. ASSUME Poll(p) PROVE SuccessIsLanded'
    BY <2>1, <2>5, <1>1, <1>2 DEF Poll, Finalized, chain
  <2>6. ASSUME PollFails(p) PROVE SuccessIsLanded'
    BY <2>1, <2>6, <1>1 DEF PollFails, chain
  <2> QED
    BY <1>3, <2>2, <2>3, <2>4, <2>5, <2>6 DEF Step
<1>4. ASSUME NEW tx \in signed, WebSend(tx) PROVE SuccessIsLanded'
  BY <1>4 DEF WebSend
<1>5. ASSUME NEW tx \in pool, LandTx(tx) PROVE SuccessIsLanded'
  <2>1. answers' = answers
    BY <1>5 DEF LandTx
  <2> QED
    BY <1>5, <2>1, LandedStays
<1>6. ASSUME NEW o \in Orders, Prepare(o) PROVE SuccessIsLanded'
  BY <1>1, <1>6 DEF Prepare, chain
<1>7. ASSUME NEW o \in Orders, NEW p \in Procs, Run(p, o) PROVE SuccessIsLanded'
  BY <1>1, <1>7 DEF Run, chain
<1>8. ASSUME NEW c \in BOOLEAN, NEW s \in BOOLEAN, NEW a \in BOOLEAN, Inspect(c, s, a) PROVE SuccessIsLanded'
  BY <1>1, <1>8 DEF Inspect, chain
<1>9. ASSUME SignFile \/ Airdrop \/ Tick \/ UNCHANGED onlineVars PROVE SuccessIsLanded'
  BY <1>1, <1>9 DEF SignFile, Airdrop, Tick, onlineVars, chain
<1>10. ASSUME NEW p \in Procs, NEW tx \in signed, Wait(p, tx) \/ \E max \in {0, MaxRetries} : Broadcast(p, tx, max)
       PROVE  SuccessIsLanded'
  BY <1>1, <1>10 DEF Wait, Broadcast, chain
<1> QED
  BY <1>3, <1>4, <1>5, <1>6, <1>7, <1>8, <1>9, <1>10 DEF OnlineNext

\* What broadcaster.rs reports as confirmed or finalized has landed and succeeded,
\* after any failures, retries and timeouts.
THEOREM ReportedIsLanded == OnlineSpec => []SuccessIsLanded
<1>1. OnlineInit => SuccessIsLanded
  BY DEF OnlineInit, SuccessIsLanded
<1> QED
  BY <1>1, SuccessStep, PTL DEF OnlineSpec

-----------------------------------------------------------------------------
(***************************************************************************)
(* Online: what the builder puts in a transaction and the inspector shows  *)
(* of it.                                                                  *)
(***************************************************************************)

LEMMA TwoInOrder ==
  ASSUME NEW x, NEW y
  PROVE  <<x>> \o <<y>> = <<x, y>>
<1> DEFINE S == {x, y}
           a == <<x>>
           b == <<y>>
           s == a \o b
<1>1. a \in Seq(S) /\ b \in Seq(S) /\ Len(a) = 1 /\ Len(b) = 1 /\ a[1] = x /\ b[1] = y
  OBVIOUS
<1>2. /\ s \in Seq(S) /\ Len(s) = Len(a) + Len(b)
      /\ \A i \in 1 .. Len(a) + Len(b) : s[i] = IF i <= Len(a) THEN a[i] ELSE b[i - Len(a)]
  <2> HIDE DEF a, b, S
  <2> QED
    BY <1>1, ConcatProperties
<1> HIDE DEF s
<1>3. Len(s) = 2 /\ s[1] = x /\ s[2] = y
  BY <1>1, <1>2
<1>4. s = <<x, y>>
  BY <1>2, <1>3
<1> QED
  BY <1>4 DEF s, a, b

FirstIx(o, amount) ==
  CASE o.kind \in {"transfer", "run"} -> Transfer("payer", o.to, amount)
    [] o.kind = "token" -> token_transfer("payer", ata_for("payer", o.mint), ata_for(o.to, o.mint), o.mint, amount)
    [] o.kind \in {"stake", "stake_all"} -> stake_withdraw("payer", "stake", o.to, amount)

LEMMA InstructionsAre ==
  ASSUME NEW o \in Orders, NEW a
  PROVE  /\ o.memo => InstructionsOf(o, a) = <<FirstIx(o, a), memo>>
         /\ ~o.memo => InstructionsOf(o, a) = <<FirstIx(o, a)>>
         /\ InstructionsOf(o, a)[1] = FirstIx(o, a)
         /\ FirstIx(o, a).amount = a
<1>1. InstructionsOf(o, a) = <<FirstIx(o, a)>> \o (IF o.memo THEN <<memo>> ELSE <<>>)
  BY OrdersAreCommands DEF InstructionsOf, FirstIx
<1>2. FirstIx(o, a).amount = a
  BY OrdersAreCommands DEF FirstIx, Transfer, token_transfer, stake_withdraw
<1>3. o.memo => InstructionsOf(o, a) = <<FirstIx(o, a), memo>>
  BY <1>1, TwoInOrder
<1>4. ~o.memo => InstructionsOf(o, a) = <<FirstIx(o, a)>>
  BY <1>1, TwoInOrder
<1> QED
  BY <1>2, <1>3, <1>4, OrdersAreCommands

\* What the inspector shows of what the builder built
LEMMA InspectorReads ==
  ASSUME NEW to, NEW mint, NEW a
  PROVE  /\ LET i == Info(Transfer("payer", to, a)) IN i.name = "transfer" /\ i.to = to
         /\ LET i == Info(token_transfer("payer", ata_for("payer", mint), ata_for(to, mint), mint, a))
            IN i.name = "token_transfer" /\ i.to = ata_for(to, mint)
         /\ LET i == Info(stake_withdraw("payer", "stake", to, a)) IN i.name = "stake_withdraw" /\ i.to = to
         /\ Info(memo).name = "memo" /\ Info(memo).to = None
<1>1. /\ SystemReads[2] = R("transfer", 12, 0, 1, 99) /\ 2 \in DOMAIN SystemReads
      /\ TokenReads[12] = R("token_transfer", 9, 0, 2, 1) /\ 12 \in DOMAIN TokenReads
      /\ StakeReads[4] = R("stake_withdraw", 4, 0, 1, 99) /\ 4 \in DOMAIN StakeReads
  BY DEF SystemReads, TokenReads, StakeReads
<1>2. /\ ReadsByTag["system"] = SystemReads /\ ReadsByTag["token"] = TokenReads /\ ReadsByTag["stake"] = StakeReads
      /\ {"system", "token", "stake"} \subseteq DOMAIN ReadsByTag
  BY DEF ReadsByTag
<1>3. /\ ReadsAny["memo"] = R("memo", 0, 99, 99, 99) /\ DOMAIN ReadsAny = {"ata", "loader", "memo"}
  BY DEF ReadsAny
<1>4. LET i == Info(Transfer("payer", to, a)) IN i.name = "transfer" /\ i.to = to
  BY <1>1, <1>2, <1>3 DEF Info, Line, acct, Transfer, R
<1>5. LET i == Info(token_transfer("payer", ata_for("payer", mint), ata_for(to, mint), mint, a))
      IN  i.name = "token_transfer" /\ i.to = ata_for(to, mint)
  BY <1>1, <1>2, <1>3 DEF Info, Line, acct, token_transfer, R
<1>6. LET i == Info(stake_withdraw("payer", "stake", to, a)) IN i.name = "stake_withdraw" /\ i.to = to
  BY <1>1, <1>2, <1>3 DEF Info, Line, acct, stake_withdraw, R
<1>7. Info(memo).name = "memo" /\ Info(memo).to = None
  BY <1>3 DEF Info, Line, acct, memo, R
<1> QED
  BY <1>4, <1>5, <1>6, <1>7

\* The review of what was built from an order shows the order.
ShownAs(lines) == [k \in DOMAIN lines |-> [name |-> lines[k].name, to |-> lines[k].to]]
LEMMA ReviewShowsOrder ==
  ASSUME NEW o \in Orders, NEW a, NEW h
  PROVE  ShownAs(inspect_tx(BuildTx(InstructionsOf(o, a), h)).lines) = Meant(o)
<1> DEFINE tx == BuildTx(InstructionsOf(o, a), h)
           first == [name |-> IF o.kind = "token" THEN "token_transfer"
                              ELSE IF o.kind \in {"stake", "stake_all"} THEN "stake_withdraw" ELSE "transfer",
                     to |-> IF o.kind = "token" THEN ata_for(o.to, o.mint) ELSE o.to]
           last == [name |-> "memo", to |-> None]
           info == Info(FirstIx(o, a))
<1>1. first = [name |-> info.name, to |-> info.to]
  BY OrdersAreCommands, InspectorReads DEF FirstIx
<1>2. last = [name |-> Info(memo).name, to |-> Info(memo).to]
  BY InspectorReads
<1>3. inspect_tx(tx).lines = [i \in DOMAIN InstructionsOf(o, a) |-> Info(InstructionsOf(o, a)[i])]
  BY DEF inspect_tx, BuildTx
<1>4. CASE o.memo
  <2>1. Meant(o) = <<first, last>>
    BY <1>4, TwoInOrder DEF Meant
  <2>2. inspect_tx(tx).lines = <<info, Info(memo)>>
    BY <1>3, <1>4, InstructionsAre
  <2> QED
    BY <1>1, <1>2, <2>1, <2>2 DEF ShownAs
<1>5. CASE ~o.memo
  <2>1. Meant(o) = <<first>>
    BY <1>5, TwoInOrder DEF Meant
  <2>2. inspect_tx(tx).lines = <<info>>
    BY <1>3, <1>5, InstructionsAre
  <2> QED
    BY <1>1, <2>1, <2>2 DEF ShownAs
<1> QED
  BY <1>4, <1>5

LEMMA LargeIsHigh ==
  ASSUME NEW o \in Orders, NEW a, NEW h, o.kind = "transfer", a >= 100
  PROVE  has_high_risk(inspect_tx(BuildTx(InstructionsOf(o, a), h)))
<1> DEFINE ixs == InstructionsOf(o, a)
<1>1. 1 \in DOMAIN ixs /\ ixs[1] = Transfer("payer", o.to, a)
  BY OrdersAreCommands, InstructionsAre DEF FirstIx
<1>2. "HIGH" \in Risks(ixs[1])
  BY <1>1, InspectorReads DEF Risks, HIGH_TRANSFER, Transfer
<1> QED
  BY <1>1, <1>2 DEF has_high_risk, inspect_tx, BuildTx

-----------------------------------------------------------------------------
Given == {orders[k].tx : k \in DOMAIN orders}
CallsOf(given) == [phase : {"send", "confirm", "poll"}, tx : given, attempt : Nat, max : {0, MaxRetries}, polls : Nat]

OrderIsBuilt(e) ==
  /\ e.order \in Orders
  /\ \E a, h : /\ e.tx = BuildTx(InstructionsOf(e.order, a), h)
               /\ e.order.kind /= "stake_all" => a = e.order.amount
OrdersFit == orders \in Seq(ToSet(orders)) /\ \A k \in DOMAIN orders : OrderIsBuilt(orders[k])
OnlyOrdered == file \in Given \union {NoTx} /\ signed \subseteq Given /\ pool \subseteq Given /\ DOMAIN landed \subseteq Given
CallsFit == call \in [Procs -> {Idle} \union CallsOf(Given)]
ReviewFits ==
  review.tx /= NoTx =>
    /\ review.tx \in Given
    /\ review.lines = inspect_tx(review.tx).lines
    /\ has_high_risk(inspect_tx(review.tx)) => review.exit = 2
    /\ review.exit = 0 /\ review.simulated => review.would
OnlineInv == OrdersFit /\ OnlyOrdered /\ CallsFit /\ ReviewFits

\* At first nothing is ordered, and nothing held.
LEMMA OnlineInitInv == OnlineInit => OnlineInv
BY DEF OnlineInit, OnlineInv, OrdersFit, OnlyOrdered, CallsFit, ReviewFits, Given, NoReview, ToSet

\* An order more keeps those before it, and adds its transaction.
LEMMA OrderedKeeps ==
  ASSUME OrdersFit, NEW o \in Orders, Ordered(o)
  PROVE  /\ OrdersFit'
         /\ Given' = Given \union {OrderedTx(o)}
<1> DEFINE e == [order |-> o, tx |-> OrderedTx(o)]
           S == ToSet(orders)
           T == S \union {e}
<1>1. orders' = Append(orders, e) /\ orders \in Seq(T) /\ orders \in Seq(S)
  BY DEF Ordered, OrdersFit
<1>2. OrderIsBuilt(e)
  BY DEF OrderIsBuilt, OrderedTx, AmountOf
<1>3. /\ orders' \in Seq(T) /\ DOMAIN orders = 1..Len(orders) /\ DOMAIN orders' = 1..Len(orders) + 1 /\ Len(orders) \in Nat
      /\ \A k \in DOMAIN orders : orders'[k] = orders[k]
      /\ orders'[Len(orders) + 1] = e
  <2> HIDE DEF e, S, T
  <2> QED
    BY <1>1, e \in T DEF T
<1>4. ToSet(orders)' = T
  BY <1>3 DEF ToSet
<1>5. Given' = Given \union {e.tx}
  <2> HIDE DEF e
  <2> QED
    BY <1>3 DEF Given
<1>6. \A k \in DOMAIN orders' : OrderIsBuilt(orders'[k])
  <2> HIDE DEF e
  <2> QED
    BY <1>2, <1>3 DEF OrdersFit
<1> QED
  BY <1>3, <1>4, <1>5, <1>6 DEF OrdersFit

\* What a step that orders nothing has to keep.
LEMMA NothingOrdered ==
  ASSUME OnlineInv, orders' = orders
  PROVE  /\ OrdersFit' /\ Given' = Given
         /\ file' = file /\ review' = review => ReviewFits'
         /\ call' = call => CallsFit'
         /\ file' = file /\ signed' = signed /\ pool' = pool /\ landed' = landed => OnlyOrdered'
<1>1. OrdersFit' /\ Given' = Given
  BY DEF OnlineInv, OrdersFit, Given
<1> QED
  BY <1>1 DEF OnlineInv, ReviewFits, CallsFit, OnlyOrdered

\* A prepared file holds an ordered transaction.
LEMMA PrepareStep == ASSUME OnlineInv, NEW o \in Orders, Prepare(o) PROVE OnlineInv'
<1>1. OrdersFit' /\ Given' = Given \union {OrderedTx(o)}
  BY OrderedKeeps DEF Prepare, OnlineInv
<1>2. OnlyOrdered'
  BY <1>1 DEF Prepare, OnlineInv, OnlyOrdered, chain
<1>3. CallsFit'
  <2>1. CallsOf(Given) \subseteq CallsOf(Given')
    BY <1>1 DEF CallsOf
  <2> QED
    BY <2>1 DEF Prepare, OnlineInv, CallsFit
<1>4. ReviewFits'
  BY DEF Prepare, ReviewFits, NoReview
<1> QED
  BY <1>1, <1>2, <1>3, <1>4 DEF OnlineInv

\* A command that signs and sends at once sends what it ordered.
LEMMA RunStep == ASSUME OnlineInv, NEW o \in Orders, NEW p \in Procs, Run(p, o) PROVE OnlineInv'
<1>1. OrdersFit' /\ Given' = Given \union {OrderedTx(o)}
  BY OrderedKeeps DEF Run, OnlineInv
<1>2. OnlyOrdered'
  BY <1>1 DEF Run, OnlineInv, OnlyOrdered, chain
<1>3. CallsFit'
  <2> DEFINE c == [phase |-> "send", tx |-> OrderedTx(o), attempt |-> 0, max |-> 0, polls |-> 0]
  <2>1. CallsOf(Given) \subseteq CallsOf(Given')
    BY <1>1 DEF CallsOf
  <2>2. c \in CallsOf(Given')
    BY <1>1 DEF CallsOf
  <2>3. call' = [call EXCEPT ![p] = c]
    BY DEF Run, Start
  <2> QED
    BY <2>1, <2>2, <2>3 DEF OnlineInv, CallsFit
<1>4. ReviewFits'
  BY <1>1 DEF Run, OnlineInv, ReviewFits
<1> QED
  BY <1>1, <1>2, <1>3, <1>4 DEF OnlineInv

\* The inspector reports on the file that is there.
LEMMA InspectStep ==
  ASSUME OnlineInv, NEW c \in BOOLEAN, NEW s \in BOOLEAN, NEW a \in BOOLEAN, Inspect(c, s, a)
  PROVE  OnlineInv'
<1>1. OrdersFit' /\ Given' = Given /\ CallsFit' /\ OnlyOrdered'
  BY NothingOrdered DEF Inspect, chain
<1>2. ReviewFits'
  <2>1. /\ review'.tx = file
        /\ review'.lines = inspect_tx(file).lines
        /\ review'.exit = ExitCode(has_high_risk(inspect_tx(file)), review'.simulated /\ ~check_tx(file, a))
        /\ review'.would = (review'.simulated /\ check_tx(file, a))
        /\ review'.simulated \in BOOLEAN
    BY DEF Inspect
  <2>2. ASSUME NEW high \in BOOLEAN, NEW failed \in BOOLEAN
        PROVE  /\ high => ExitCode(high, failed) = 2
               /\ ExitCode(high, failed) = 0 => ~failed
    BY DEF ExitCode
  <2>3. has_high_risk(inspect_tx(file)) \in BOOLEAN /\ check_tx(file, a) \in BOOLEAN
    BY DEF has_high_risk, check_tx
  <2>4. has_high_risk(inspect_tx(file)) => review'.exit = 2
    BY <2>1, <2>2, <2>3
  <2>5. review'.exit = 0 /\ review'.simulated => review'.would
    BY <2>1, <2>2, <2>3
  <2> QED
    BY <1>1, <2>1, <2>4, <2>5 DEF ReviewFits, Inspect, OnlineInv, OnlyOrdered
<1> QED
  BY <1>1, <1>2 DEF OnlineInv

\* The signer signs what the file holds.
LEMMA SignFileStep == ASSUME OnlineInv, SignFile PROVE OnlineInv'
<1>1. OrdersFit' /\ Given' = Given /\ CallsFit'
  BY NothingOrdered DEF SignFile
<1>2. OnlyOrdered'
  BY <1>1 DEF SignFile, OnlineInv, OnlyOrdered, chain
<1>3. ReviewFits'
  BY DEF SignFile, ReviewFits, NoReview
<1> QED
  BY <1>1, <1>2, <1>3 DEF OnlineInv

LEMMA StartStep ==
  ASSUME OnlineInv, NEW p \in Procs, NEW tx \in signed,
         Wait(p, tx) \/ \E max \in {0, MaxRetries} : Broadcast(p, tx, max)
  PROVE  OnlineInv'
<1>1. OrdersFit' /\ Given' = Given /\ OnlyOrdered' /\ ReviewFits'
  BY NothingOrdered DEF Wait, Broadcast, chain, desk
<1>2. PICK c \in CallsOf(Given) : call' = [call EXCEPT ![p] = c]
  BY DEF Wait, Broadcast, Start, CallsOf, OnlineInv, OnlyOrdered
<1>3. CallsFit'
  BY <1>1, <1>2 DEF OnlineInv, CallsFit
<1> QED
  BY <1>1, <1>3 DEF OnlineInv

\* A call that goes on is still about its own transaction.
LEMMA CallGoesOn ==
  ASSUME NEW given, NEW c \in CallsOf(given)
  PROVE  /\ [c EXCEPT !.phase = "confirm"] \in CallsOf(given)
         /\ Again(c) \in CallsOf(given)
         /\ Polled(c) \in CallsOf(given)
         /\ c.tx \in given
<1>1. [c EXCEPT !.phase = "confirm"] \in CallsOf(given)
  BY DEF CallsOf
<1>2. Again(c) \in CallsOf(given)
  <2>1. Again(c) = [[c EXCEPT !.attempt = @ + 1] EXCEPT !.phase = "send"]
    BY DEF Again
  <2>2. [c EXCEPT !.attempt = @ + 1] \in CallsOf(given)
    BY DEF CallsOf
  <2> QED
    BY <2>1, <2>2 DEF CallsOf
<1>3. Polled(c) \in CallsOf(given)
  BY DEF CallsOf, Polled
<1>4. c.tx \in given
  BY DEF CallsOf
<1> QED
  BY <1>1, <1>2, <1>3, <1>4

\* Each step of a call, of its answers and failures.
LEMMA CallSteps == ASSUME OnlineInv, NEW p \in Procs, Step(p) PROVE OnlineInv'
<1>1. orders' = orders /\ file' = file /\ review' = review /\ signed' = signed /\ landed' = landed
  BY DEF Step, Send, Confirm, ConfirmFails, Poll, PollFails, chain, desk
<1>2. OrdersFit' /\ Given' = Given /\ ReviewFits'
  BY <1>1, NothingOrdered
<1>3. call[p] \in {Idle} \union CallsOf(Given)
  BY DEF OnlineInv, CallsFit
<1>4. ASSUME call[p] \in CallsOf(Given)
      PROVE  /\ [call[p] EXCEPT !.phase = "confirm"] \in CallsOf(Given)
             /\ Again(call[p]) \in CallsOf(Given)
             /\ Polled(call[p]) \in CallsOf(Given)
             /\ call[p].tx \in Given
  BY <1>4, CallGoesOn
<1>5. call[p].phase /= "idle" => call[p] \in CallsOf(Given)
  BY <1>3 DEF Idle
<1>6. pool' \subseteq pool \union {call[p].tx} /\ call[p].phase /= "idle"
  BY DEF Step, Send, Confirm, ConfirmFails, Poll, PollFails, chain
<1>7. \E c \in {Idle} \union CallsOf(Given) : call' = [call EXCEPT ![p] = c]
  <2>1. Failed(p) => \E c \in {Idle, Again(call[p])} : call' = [call EXCEPT ![p] = c]
    BY DEF Failed, Fail
  <2>2. Fail(p) => call' = [call EXCEPT ![p] = Idle]
    BY DEF Fail
  <2>3. \A said : End(p, said) => call' = [call EXCEPT ![p] = Idle]
    BY DEF End
  <2>4. ASSUME NEW taken \in BOOLEAN, NEW answered \in BOOLEAN, Send(p, taken, answered)
        PROVE  call' = [call EXCEPT ![p] = [call[p] EXCEPT !.phase = "confirm"]] \/ Failed(p)
    BY <2>4 DEF Send
  <2>5. Confirm(p) => End(p, "confirmed") \/ Failed(p)
    BY DEF Confirm
  <2>6. ConfirmFails(p) => Failed(p)
    BY DEF ConfirmFails
  <2>7. Poll(p) => End(p, "finalized") \/ call' = [call EXCEPT ![p] = Polled(call[p])] \/ Fail(p)
    BY Zenon DEF Poll
  <2>8. PollFails(p) => Fail(p)
    BY DEF PollFails
  <2> QED
    BY <1>4, <1>5, <1>6, <2>1, <2>2, <2>3, <2>4, <2>5, <2>6, <2>7, <2>8 DEF Step
<1>8. CallsFit'
  BY <1>2, <1>7 DEF OnlineInv, CallsFit
<1>9. OnlyOrdered'
  BY <1>1, <1>2, <1>4, <1>5, <1>6 DEF OnlineInv, OnlyOrdered
<1> QED
  BY <1>2, <1>8, <1>9 DEF OnlineInv

\* The cluster lands only what was sent to it.
LEMMA ClusterSteps ==
  ASSUME OnlineInv, \/ Airdrop \/ Tick \/ UNCHANGED onlineVars
                    \/ \E tx \in signed : WebSend(tx)
                    \/ \E tx \in pool : LandTx(tx)
  PROVE  OnlineInv'
<1>1. orders' = orders /\ file' = file /\ review' = review /\ signed' = signed /\ call' = call
  BY DEF Airdrop, Tick, WebSend, LandTx, onlineVars, desk
<1>2. OrdersFit' /\ Given' = Given /\ ReviewFits' /\ CallsFit'
  BY <1>1, NothingOrdered
<1>3. pool' \subseteq pool \union signed /\ DOMAIN landed' \subseteq DOMAIN landed \union pool
  BY DEF Airdrop, Tick, WebSend, LandTx, onlineVars
<1>4. OnlyOrdered'
  BY <1>1, <1>2, <1>3 DEF OnlineInv, OnlyOrdered
<1> QED
  BY <1>2, <1>4 DEF OnlineInv

\* No step breaks the invariant.
LEMMA OnlineStep == OnlineInv /\ [OnlineNext]_onlineVars => OnlineInv'
BY PrepareStep, RunStep, InspectStep, SignFileStep, StartStep, CallSteps, ClusterSteps DEF OnlineNext

\* Everything that the file, the signer, the calls and the cluster hold was ordered.
LEMMA OnlineInvariant == OnlineSpec => []OnlineInv
BY OnlineInitInv, OnlineStep, PTL DEF OnlineSpec

\* For every set of orders and any number of processes: what the cluster has
\* carried out was ordered, and no more often than it was ordered.
THEOREM CarriedOutAsOrdered == OnlineSpec => []PaidAsOrdered
<1>1. OnlineInv => PaidAsOrdered
  <2> SUFFICES ASSUME OnlineInv, NEW tx \in DOMAIN landed
               PROVE  Cardinality({t \in DOMAIN landed : t.ixs = tx.ixs})
                        <= Cardinality({k \in DOMAIN orders : orders[k].tx.ixs = tx.ixs})
    BY DEF PaidAsOrdered
  <2> DEFINE L == {t \in DOMAIN landed : t.ixs = tx.ixs}
             K == {k \in DOMAIN orders : orders[k].tx.ixs = tx.ixs}
             T == {orders[k].tx : k \in K}
             f == [k \in K |-> orders[k].tx]
  <2>1. IsFiniteSet(K) /\ Cardinality(K) \in Nat
    <3>1. DOMAIN orders = 1..Len(orders) /\ Len(orders) \in Nat
      BY DEF OnlineInv, OrdersFit
    <3>2. K \in SUBSET (1..Len(orders))
      BY <3>1
    <3>3. IsFiniteSet(1..Len(orders))
      BY <3>1, FS_Interval
    <3> HIDE DEF K
    <3> QED
      BY <3>2, <3>3, FS_Subset, FS_CardinalityType
  <2>2. f \in Surjection(K, T)
    BY DEF Surjection
  <2>3. IsFiniteSet(T) /\ Cardinality(T) <= Cardinality(K)
    <3> HIDE DEF K, T, f
    <3> QED
      BY <2>1, <2>2, FS_Surjection
  <2>4. L \in SUBSET T
    BY DEF OnlineInv, OnlyOrdered, Given
  <2>5. Cardinality(L) <= Cardinality(T) /\ Cardinality(L) \in Nat /\ Cardinality(T) \in Nat
    <3> HIDE DEF K, T, f, L
    <3> QED
      BY <2>3, <2>4, FS_Subset, FS_CardinalityType
  <2> QED
    BY <2>1, <2>3, <2>5
<1> QED
  BY <1>1, OnlineInvariant, PTL

\* For every set of orders: the review of a file shows the order as it was given,
\* and its exit code stops a script at a transfer of 100 SOL or more and at a
\* simulation that failed.
THEOREM ReviewShowsTheOrder == OnlineSpec => []ReviewedAsOrdered
<1>1. OnlineInv => ReviewedAsOrdered
  <2> SUFFICES ASSUME OnlineInv, review.tx /= NoTx
               PROVE  /\ \E e \in ToSet(orders) :
                           /\ review.tx = e.tx
                           /\ Meant(e.order) = ShownAs(review.lines)
                           /\ e.order.kind = "transfer" /\ e.order.amount >= 100 => review.exit = 2
                      /\ review.exit = 0 /\ review.simulated => review.would
    BY DEF ReviewedAsOrdered, ShownAs
  <2>1. PICK k \in DOMAIN orders : review.tx = orders[k].tx
    BY DEF OnlineInv, ReviewFits, Given
  <2>2. OrderIsBuilt(orders[k])
    BY DEF OnlineInv, OrdersFit
  <2>3. PICK a, h : /\ review.tx = BuildTx(InstructionsOf(orders[k].order, a), h)
                    /\ orders[k].order.kind /= "stake_all" => a = orders[k].order.amount
    BY <2>1, <2>2 DEF OrderIsBuilt
  <2>4. orders[k].order \in Orders
    BY <2>2 DEF OrderIsBuilt
  <2>5. Meant(orders[k].order) = ShownAs(review.lines)
    BY <2>3, <2>4, ReviewShowsOrder DEF OnlineInv, ReviewFits
  <2>6. orders[k].order.kind = "transfer" /\ orders[k].order.amount >= 100 => review.exit = 2
    BY <2>3, <2>4, LargeIsHigh DEF OnlineInv, ReviewFits
  <2>7. orders[k] \in ToSet(orders)
    BY DEF ToSet
  <2> QED
    BY <2>1, <2>5, <2>6, <2>7 DEF OnlineInv, ReviewFits
<1> QED
  BY <1>1, OnlineInvariant, PTL
=============================================================================
