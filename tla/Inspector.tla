------------------------------ MODULE Inspector ------------------------------
(***************************************************************************)
(* The transaction inspector (inspector.rs) and the transaction builder    *)
(* (wallet.rs): what the builder puts in an instruction, and what the      *)
(* inspector, which finds accounts by their places, makes of it.           *)
(*                                                                         *)
(* An instruction has a program, a tag, the length of its data, an amount  *)
(* and a list of accounts.  Lamports are counted in SOL.                   *)
(***************************************************************************)
EXTENDS Naturals, Sequences

CONSTANT MaxAmount    \* stands for u64::MAX

LARGE_TRANSFER_THRESHOLD == 10
HIGH_TRANSFER == 100
LARGE_TOKEN_APPROVAL_THRESHOLD == MaxAmount \div 2

None == "(?)"
\* An account by its place, from zero.
acct(ix, n) == IF n + 1 \in DOMAIN ix.accounts THEN ix.accounts[n + 1] ELSE None

-----------------------------------------------------------------------------
\* How a kind of instruction is read: its name, the bytes it needs, and the
\* places of the accounts that are shown.  Place 99 is shown as missing.
R(name, bytes, from, to, mint) ==
  [name |-> name, bytes |-> bytes, from |-> from, to |-> to, mint |-> mint]

SystemReads ==
  [tag \in {0, 1, 2} |-> CASE tag = 2 -> R("transfer", 12, 0, 1, 99)
                           [] tag = 0 -> R("create_account", 20, 0, 1, 99)
                           [] tag = 1 -> R("assign", 4, 0, 99, 99)]

\* Mutant: the destination of TransferChecked is that of Transfer.
XTokenReads ==
  [tag \in {3, 12} |-> CASE tag = 3  -> R("token_transfer", 9, 0, 1, 99)
                         [] tag = 12 -> R("token_transfer", 9, 0, 1, 1)]

TokenReads ==
  [tag \in {3, 4, 6, 7, 8, 9, 12, 13, 14, 15} |->
     CASE tag = 3  -> R("token_transfer", 9, 0, 1, 99) [] tag = 12 -> R("token_transfer", 9, 0, 2, 1)
       [] tag = 4  -> R("token_approve", 9, 0, 1, 99)  [] tag = 13 -> R("token_approve", 9, 0, 2, 1)
       [] tag = 7  -> R("token_mint_to", 9, 99, 1, 0)  [] tag = 14 -> R("token_mint_to", 9, 99, 0, 1)
       [] tag \in {8, 15} -> R("token_burn", 9, 0, 99, 1)
       [] tag = 9  -> R("token_close", 1, 0, 1, 99)
       [] tag = 6  -> R("token_set_authority", 1, 0, 99, 99)]

StakeReads ==
  [tag \in {2, 4, 5} |-> CASE tag = 2 -> R("stake_delegate", 4, 0, 1, 99)
                           [] tag = 4 -> R("stake_withdraw", 4, 0, 1, 99)
                           [] tag = 5 -> R("stake_deactivate", 4, 0, 99, 99)]

ComputeReads == [tag \in {2, 3} |-> R(IF tag = 2 THEN "set_limit" ELSE "set_price", 1, 99, 99, 99)]

\* These programs are read whatever the tag is.
ReadsAny ==
  [program \in {"ata", "loader", "memo"} |->
     CASE program = "ata"    -> R("ata_create", 0, 0, 2, 3)
       [] program = "loader" -> R("program_upgrade", 0, 2, 1, 99)
       [] program = "memo"   -> R("memo", 0, 99, 99, 99)]

ReadsByTag ==
  [program \in {"system", "token", "token_2022", "stake", "compute_budget"} |->
     CASE program = "system" -> SystemReads
       [] program \in {"token", "token_2022"} -> TokenReads
       [] program = "stake" -> StakeReads
       [] program = "compute_budget" -> ComputeReads]

\* The summary's line for an instruction.
Unknown == [name |-> "unknown", from |-> None, to |-> None, mint |-> None, amount |-> 0]
Line(ix, r) == IF ix.len < r.bytes THEN Unknown
               ELSE [name |-> r.name, from |-> acct(ix, r.from), to |-> acct(ix, r.to),
                     mint |-> acct(ix, r.mint), amount |-> ix.amount]
Info(ix) == IF ix.program \in DOMAIN ReadsAny THEN Line(ix, ReadsAny[ix.program])
            ELSE IF ix.program \in DOMAIN ReadsByTag /\ ix.tag \in DOMAIN ReadsByTag[ix.program]
                 THEN Line(ix, ReadsByTag[ix.program][ix.tag])
            ELSE Unknown

\* The levels of the flags an instruction raises.  What is not read of a known
\* program raises none.
Risks(ix) ==
  LET name == Info(ix).name IN
  {level \in {"HIGH", "MEDIUM", "LOW"} :
     \/ level = "HIGH" /\ \/ name = "program_upgrade"
                          \/ name = "transfer" /\ ix.amount >= HIGH_TRANSFER
                          \/ name = "token_approve" /\ ix.amount >= LARGE_TOKEN_APPROVAL_THRESHOLD
     \/ level = "MEDIUM" /\ \/ name = "transfer" /\ ix.amount \in LARGE_TRANSFER_THRESHOLD..HIGH_TRANSFER - 1
                            \/ name = "token_close"
     \/ level = "LOW" /\ ix.program \notin DOMAIN ReadsAny \union DOMAIN ReadsByTag}

\* inspect_tx: the flags of a transaction, and its lines.
inspect_tx(tx) ==
  [lines |-> [i \in DOMAIN tx.ixs |-> Info(tx.ixs[i])],
   risks |-> UNION {Risks(tx.ixs[i]) : i \in DOMAIN tx.ixs}
             \union (IF tx.signers >= 5 THEN {"LOW"} ELSE {})]
has_high_risk(summary) == "HIGH" \in summary.risks

-----------------------------------------------------------------------------
\* The builder's instructions.  The payer pays, sends and signs.
ata_for(owner, mint) == <<"ata", owner, mint>>
Transfer(payer, to, lamports) ==
  [program |-> "system", tag |-> 2, len |-> 12, amount |-> lamports, accounts |-> <<payer, to>>]
token_transfer(payer, source, dest, mint, amount) ==
  [program |-> "token", tag |-> 12, len |-> 10, amount |-> amount, accounts |-> <<source, mint, dest, payer>>]
stake_withdraw(payer, stake, to, lamports) ==
  [program |-> "stake", tag |-> 4, len |-> 12, amount |-> lamports,
   accounts |-> <<stake, to, "clock", "stake_history", payer>>]
memo == [program |-> "memo", tag |-> 0, len |-> 8, amount |-> 0, accounts |-> <<>>]

\* build: the instructions in order under a blockhash, named by its height.
BuildTx(ixs, hash) == [ixs |-> ixs, hash |-> hash, signers |-> 1]
=============================================================================
