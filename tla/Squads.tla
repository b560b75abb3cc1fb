------------------------------- MODULE Squads -------------------------------
(***************************************************************************)
(* The Squads builders (crate afterimage-squads, the squads commands and   *)
(* WasmSquads): instructions for one on-chain multisig are built offline,  *)
(* by several members, from an index each of them read or was told, are    *)
(* signed and land later in any order.  The browser builds the data of     *)
(* multisig_create_v2 with code of its own.                                *)
(*                                                                         *)
(* The Squads program is external: it decodes the layout and uses the      *)
(* accounts that multisig.rs, vault_tx.rs and config_tx.rs write down, and *)
(* takes transactions at the next unused index only.  Its time lock only    *)
(* delays an execution, which any interleaving here may do.                *)
(***************************************************************************)
EXTENDS Naturals, FiniteSets, SequencesExt

CONSTANTS Configs,    \* configurations a group may be created from
          Contents,   \* messages and actions that may be proposed
          KeyLen,     \* bytes of a public key
          MaxIndex,   \* bound: transaction indices
          MaxBuilt    \* bound: instructions built

INITIATE == 1
VOTE == 2
EXECUTE == 4
ALL == 7
Bit(permissions, flag) == (permissions \div flag) % 2 = 1

VARIABLES source,    \* the configuration, the front end, and the vault it shows
          account,   \* the multisig account the program decoded, or NoAccount
          index,     \* its last transaction index
          txs,       \* transaction accounts, by address
          proposals, \* proposal accounts, by address
          built,     \* instructions built, with what their builder saw
          executed   \* what was executed: its index, content and approvers

squadsVars == <<source, account, index, txs, proposals, built, executed>>

NoAccount == [threshold |-> 0, members |-> <<>>]
NoSource == [config |-> NoAccount, by |-> "none", vault |-> <<>>]
\* A content is a vault message or one configuration action.
NoContent == [kind |-> "none", action |-> "none", threshold |-> 0, member |-> 0]
ASSUME ContentsAreContents == MaxIndex \in Nat /\ NoContent \notin Contents
KeysOf(config) == {config.members[i].key : i \in DOMAIN config.members}
People == UNION {KeysOf(c) : c \in Configs}

-----------------------------------------------------------------------------
\* Program addresses are named by their seeds; "M" is the multisig's own.
derive_transaction_pda(i) == <<"vault_transaction", "M", i>>
config_transaction_pda(i) == <<"config_transaction", "M", i>>

\* Mutant: the index is missing from the seeds.
XProposalPda(i) == <<"proposal", "M", 1>>

derive_proposal_pda(i) == <<"proposal", "M", i>>

\* The default vault, as each front end derives it.
derive_vault_pda == <<"vault", "M", 0>>
WebVaultPda == <<"multisig", "M", "vault", 0>>

-----------------------------------------------------------------------------
\* An integer of w bytes, low byte first; what does not fit is lost.
LE(v, w) == [i \in 1..w |-> (v \div 256^(i - 1)) % 256]
KeyBytes(k) == [i \in 1..KeyLen |-> k]
CountedMembers(members, width) ==
  LE(Len(members), 4) \o FlattenSeq([i \in DOMAIN members |->
     KeyBytes(members[i].key) \o LE(members[i].permissions, width)])

\* What create_multisig_ix refuses.  Members that cannot vote count.
Valid(c) == /\ Len(c.members) > 0
            /\ c.threshold > 0 /\ c.threshold <= Len(c.members)
            /\ \A i, j \in DOMAIN c.members : i /= j => c.members[i].key /= c.members[j].key

\* The arguments after the discriminator: no config authority, threshold,
\* members, time lock, no rent collector, no memo.
NativeData(c) == <<0>> \o LE(c.threshold, 2) \o CountedMembers(c.members, 1)
                   \o LE(c.time_lock, 4) \o <<0, 0>>

\* multisig_create_data: permissions take four bytes, and nothing is refused.
WebData(c) == <<0>> \o LE(c.threshold, 2) \o CountedMembers(c.members, 4)
                \o LE(c.time_lock, 4) \o <<0, 0>>

\* The program reads the layout of MultisigCreateArgsV2 and ignores the rest.
Byte(data, i) == IF i \in DOMAIN data THEN data[i] ELSE 0
Decode(data) ==
  LET count == Byte(data, 4) + 256 * Byte(data, 5)
      at(i) == 7 + (i - 1) * (KeyLen + 1)
  IN [threshold |-> Byte(data, 2) + 256 * Byte(data, 3),
      members |-> [i \in 1..count |->
         [key |-> [b \in 1..KeyLen |-> Byte(data, at(i) + b)],
          permissions |-> Byte(data, at(i) + KeyLen + 1)]]]

-----------------------------------------------------------------------------
Holder(k, flag) == \E i \in DOMAIN account.members :
                     /\ account.members[i].key = KeyBytes(k)
                     /\ Bit(account.members[i].permissions, flag)
Voters == {k \in People : Holder(k, VOTE)}
Exists == account /= NoAccount

SquadsInit == /\ source = NoSource
              /\ account = NoAccount
              /\ index = 0
              /\ txs = <<>>
              /\ proposals = <<>>
              /\ built = {}
              /\ executed = {}

\* squads create, or the page; the transaction lands and the program decodes.
Create(c, by) ==
  /\ ~Exists
  /\ by = "native" => Valid(c)
  /\ source' = [config |-> c, by |-> by,
                 vault |-> IF by = "native" THEN derive_vault_pda ELSE WebVaultPda]
  /\ account' = Decode(IF by = "native" THEN NativeData(c) ELSE WebData(c))
  /\ UNCHANGED <<index, txs, proposals, built, executed>>

\* An instruction: its name, who signs, the accounts after the multisig, the
\* content it carries, and what the chain held at the index when an approval
\* was built.
Build(ixs) == /\ Exists
              /\ Cardinality(built \union ixs) <= MaxBuilt
              /\ built' = built \union ixs
              /\ UNCHANGED <<source, account, index, txs, proposals, executed>>

VaultCreateIx(m, i, c) == [name |-> "vault_transaction_create", member |-> m, at |-> i,
  accounts |-> <<derive_transaction_pda(i)>>, content |-> c, saw |-> NoContent]
ConfigCreateIx(m, i, c) == [name |-> "config_transaction_create", member |-> m, at |-> i,
  accounts |-> <<config_transaction_pda(i)>>, content |-> c, saw |-> NoContent]
ProposalCreateIx(m, i) == [name |-> "proposal_create", member |-> m, at |-> i,
  accounts |-> <<derive_proposal_pda(i)>>, content |-> NoContent, saw |-> NoContent]
VoteIx(name, m, i, c) == [name |-> name, member |-> m, at |-> i,
  accounts |-> <<derive_proposal_pda(i)>>, content |-> NoContent, saw |-> c]
ExecuteIx(m, i, kind) == [
  name |-> IF kind = "vault_transaction" THEN "vault_transaction_execute" ELSE "config_transaction_execute",
  member |-> m, at |-> i,
  accounts |-> <<derive_proposal_pda(i),
    IF kind = "vault_transaction" THEN derive_transaction_pda(i) ELSE config_transaction_pda(i)>>,
  content |-> NoContent, saw |-> NoContent]

\* The content at an index of the chain, whichever kind it is.
ContentAt(i) == IF derive_transaction_pda(i) \in DOMAIN txs THEN txs[derive_transaction_pda(i)]
                ELSE IF config_transaction_pda(i) \in DOMAIN txs THEN txs[config_transaction_pda(i)]
                ELSE NoContent

\* squads propose: both instructions, or none when the index is zero.
Propose(m, i, c) == /\ i > 0 /\ c.kind = "vault"
                    /\ Build({VaultCreateIx(m, i, c), ProposalCreateIx(m, i)})

\* squads add-member, remove-member, change-threshold: the configuration
\* transaction without the proposal it has to be paired with.
ProposeConfig(m, i, c) == i > 0 /\ c.kind = "config" /\ Build({ConfigCreateIx(m, i, c)})
PairProposal(m, i) == i > 0 /\ Build({ProposalCreateIx(m, i)})

\* squads approve and the adapter: any index above zero is taken, offline, and
\* the payload names it and nothing more.  There may be nothing at it yet.
Approve(m, i) == i > 0 /\ Build({VoteIx("proposal_approve", m, i, ContentAt(i))})
Reject(m, i) == i > 0 /\ Build({VoteIx("proposal_reject", m, i, NoContent)})
Execute(m, i, kind) == i > 0 /\ Build({ExecuteIx(m, i, kind)})

-----------------------------------------------------------------------------
\* The program, instruction by instruction.
Put(f, a, v) == [x \in DOMAIN f \union {a} |-> IF x = a THEN v ELSE f[x]]
NewProposal == [status |-> "active", approved |-> {}, rejected |-> {}]

LandCreate(ix) ==
  /\ ix.name \in {"vault_transaction_create", "config_transaction_create"}
  /\ Holder(ix.member, INITIATE)
  /\ ix.at = index + 1
  /\ ix.accounts[1] \notin DOMAIN txs
  /\ txs' = Put(txs, ix.accounts[1], ix.content)
  /\ index' = ix.at
  /\ UNCHANGED <<account, proposals, executed>>

LandProposal(ix) ==
  /\ ix.name = "proposal_create"
  /\ Holder(ix.member, INITIATE)
  /\ ix.at <= index
  /\ ix.accounts[1] \notin DOMAIN proposals
  /\ proposals' = Put(proposals, ix.accounts[1], NewProposal)
  /\ UNCHANGED <<account, index, txs, executed>>

LandVote(ix) ==
  /\ ix.name \in {"proposal_approve", "proposal_reject"}
  /\ Holder(ix.member, VOTE)
  /\ ix.accounts[1] \in DOMAIN proposals
  /\ LET p == proposals[ix.accounts[1]]
         yes == ix.name = "proposal_approve"
         approved == IF yes THEN p.approved \union {ix.member} ELSE p.approved \ {ix.member}
         rejected == IF yes THEN p.rejected \ {ix.member} ELSE p.rejected \union {ix.member}
         status == IF Cardinality(approved) >= account.threshold THEN "approved"
                   ELSE IF Cardinality(Voters \ rejected) < account.threshold THEN "rejected"
                   ELSE "active"
     IN /\ p.status = "active"
        /\ proposals' = Put(proposals, ix.accounts[1],
             [status |-> status, approved |-> approved, rejected |-> rejected])
  /\ UNCHANGED <<account, index, txs, executed>>

\* A configuration action, applied when its proposal is executed.
Configured(c) ==
  CASE c.action = "change_threshold" -> [account EXCEPT !.threshold = c.threshold]
    [] c.action = "add_member" -> [account EXCEPT !.members =
         Append(@, [key |-> KeyBytes(c.member), permissions |-> ALL])]
    [] c.action = "remove_member" -> [account EXCEPT !.members =
         SelectSeq(@, LAMBDA m : m.key /= KeyBytes(c.member))]
    [] OTHER -> account

LandExecute(ix) ==
  /\ ix.name \in {"vault_transaction_execute", "config_transaction_execute"}
  /\ Holder(ix.member, EXECUTE)
  /\ ix.accounts[1] \in DOMAIN proposals /\ ix.accounts[2] \in DOMAIN txs
  /\ proposals[ix.accounts[1]].status = "approved"
  /\ proposals' = [proposals EXCEPT ![ix.accounts[1]].status = "executed"]
  /\ executed' = executed \union {[at |-> ix.at, content |-> txs[ix.accounts[2]],
                                   approved |-> proposals[ix.accounts[1]].approved]}
  /\ account' = Configured(txs[ix.accounts[2]])
  /\ UNCHANGED <<index, txs>>

Land(ix) == /\ LandCreate(ix) \/ LandProposal(ix) \/ LandVote(ix) \/ LandExecute(ix)
            /\ UNCHANGED <<source, built>>

SquadsNext == \/ \E c \in Configs, by \in {"native", "web"} : Create(c, by)
              \/ \E m \in People, i \in 0..MaxIndex :
                   \/ \E c \in Contents : Propose(m, i, c) \/ ProposeConfig(m, i, c)
                   \/ PairProposal(m, i) \/ Approve(m, i) \/ Reject(m, i)
                   \/ \E kind \in {"vault_transaction", "config_transaction"} : Execute(m, i, kind)
              \/ \E ix \in built : Land(ix)
SquadsSpec == SquadsInit /\ [][SquadsNext]_squadsVars

-----------------------------------------------------------------------------
\* Whoever counts as an approver of what a group executes has built an approval
\* of that very index, and found there what is executed, or nothing yet: an
\* approval that lands late, among proposals racing for the index, never counts
\* for another transaction than the one its builder could look up.  One built
\* before there is any counts for whichever comes.
ExecutesWhatWasApproved ==
  \A e \in executed : \A m \in e.approved : \E ix \in built :
    /\ ix.name = "proposal_approve" /\ ix.member = m /\ ix.at = e.at
    /\ ix.saw \in {e.content, NoContent}

\* The page's data is said to be that of the same instruction as the command
\* line's: the group it creates is the one configured, and the vault shown with
\* it is the one that `squads pda` prints for the same group.
WebCreatesAsConfigured ==
  source.by = "web" /\ executed = {} =>
    /\ source.vault = derive_vault_pda
    /\ account = [threshold |-> source.config.threshold,
               members |-> [i \in DOMAIN source.config.members |->
                 [key |-> KeyBytes(source.config.members[i].key),
                  permissions |-> source.config.members[i].permissions]]]
=============================================================================
