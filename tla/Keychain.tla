------------------------------ MODULE Keychain ------------------------------
(***************************************************************************)
(* The keys of the command line (keystore.rs and cmd_key of main.rs):      *)
(* commands of several processes over the keychain of the system, one      *)
(* entry a label.  The keychain is external: each call to it is atomic and *)
(* may fail, and a process may be killed between two of them.              *)
(*                                                                         *)
(* The label index that `key list` reads is left out: add_to_key_index has *)
(* no caller, so the file is never made and remove_from_key_index returns. *)
(***************************************************************************)
EXTENDS Naturals, FiniteSets

CONSTANTS Procs,        \* processes
          Labels,
          KeyFiles,     \* keys in files that can be imported
          MaxCommands,  \* bound: commands
          Nothing

\* A key is not the absence of one.
ASSUME KeysAreKeys == /\ MaxCommands \in Nat
                      /\ Nothing \notin KeyFiles \union {<<"generated", n>> : n \in 1..MaxCommands}

VARIABLES chain,    \* label -> key or Nothing
          proc,     \* the commands being run
          commands, \* commands begun
          printed,  \* [label, key] of every key that a command has printed and
                    \* no later command was told to replace or delete
          saved,    \* [label, printed, key] of the files of generate --output
          met       \* labels in whose entry two commands have met

chainVars == <<chain, proc, commands, printed, saved, met>>

Exit == [pc |-> "exit", label |-> Nothing, key |-> Nothing, output |-> FALSE]

ChainInit == /\ chain = [l \in Labels |-> Nothing]
             /\ proc = [p \in Procs |-> Exit]
             /\ commands = 0 /\ printed = {} /\ saved = {} /\ met = {}

-----------------------------------------------------------------------------
\* p is about to change or show a label's entry: does another process hold it?
Meets(p, label) ==
  met' = IF \E q \in Procs \ {p} : /\ proc[q].label = label
                                   /\ proc[q].pc \in {"erase", "store", "export", "delete"}
         THEN met \union {label} ELSE met

Go(p, c) == proc' = [proc EXCEPT ![p] = c]
BeginCommand(p, c) == /\ proc[p].pc = "exit" /\ commands < MaxCommands
                      /\ commands' = commands + 1
                      /\ Go(p, c)
                      /\ UNCHANGED <<chain, saved>>
Looks(p, c) == BeginCommand(p, c) /\ UNCHANGED <<printed, met>>
Replaces(p, c) == /\ BeginCommand(p, c)
                  /\ printed' = {r \in printed : r.label /= c.label}
                  /\ Meets(p, c.label)

\* generate draws a key after its check; --overwrite deletes first.
Generate(p, label, overwrite, output) ==
  LET c(pc) == [pc |-> pc, label |-> label, key |-> <<"generated", commands + 1>>, output |-> output]
  IN IF overwrite THEN Replaces(p, c("erase")) ELSE Looks(p, c("exists"))
Import(p, label, key, overwrite) ==
  LET c(pc) == [pc |-> pc, label |-> label, key |-> key, output |-> FALSE]
  IN IF overwrite THEN Replaces(p, c("store")) ELSE Looks(p, c("exists"))
Delete(p, label) == Replaces(p, [Exit EXCEPT !.pc = "delete", !.label = label])

\* Mutant: only generate looks whether the label is taken.
XTaken(c) == chain[c.label] /= Nothing /\ c.key \notin KeyFiles
Taken(c) == chain[c.label] /= Nothing

Exists(p) == /\ proc[p].pc = "exists"
             /\ IF Taken(proc[p]) THEN Go(p, Exit) /\ UNCHANGED met
                ELSE Go(p, [proc[p] EXCEPT !.pc = "store"]) /\ Meets(p, proc[p].label)
             /\ UNCHANGED <<chain, commands, printed, saved>>

\* The deletion before an overwriting generate, whose result is not looked at,
\* and the one that was asked for, which fails when there is nothing.
Erase(p) == /\ proc[p].pc \in {"erase", "delete"}
            /\ chain' = [chain EXCEPT ![proc[p].label] = Nothing]
            /\ Go(p, IF proc[p].pc = "erase" THEN [proc[p] EXCEPT !.pc = "exists"] ELSE Exit)
            /\ UNCHANGED <<commands, printed, saved, met>>

\* The key is stored, and its public key printed.
Store(p) == /\ proc[p].pc = "store"
            /\ chain' = [chain EXCEPT ![proc[p].label] = proc[p].key]
            /\ printed' = printed \union {[label |-> proc[p].label, key |-> proc[p].key]}
            /\ Go(p, IF proc[p].output THEN [proc[p] EXCEPT !.pc = "export"] ELSE Exit)
            /\ UNCHANGED <<commands, saved, met>>

\* export_to_file loads what the label holds now.
Export(p) == /\ proc[p].pc = "export"
             /\ saved' = IF chain[proc[p].label] = Nothing THEN saved
                         ELSE saved \union {[label |-> proc[p].label, printed |-> proc[p].key,
                                             key |-> chain[proc[p].label]]}
             /\ Go(p, Exit)
             /\ UNCHANGED <<chain, commands, printed, met>>

\* key show prints the public key of what the label holds.
Show(p, label) == /\ proc[p].pc = "exit" /\ chain[label] /= Nothing
                  /\ printed' = printed \union {[label |-> label, key |-> chain[label]]}
                  /\ Meets(p, label)
                  /\ UNCHANGED <<chain, proc, commands, saved>>

\* The keychain fails, or the process is killed.
Killed(p) == /\ proc[p].pc /= "exit"
             /\ Go(p, Exit)
             /\ UNCHANGED <<chain, commands, printed, saved, met>>

ChainNext ==
  \E p \in Procs : \/ \E label \in Labels, overwrite \in BOOLEAN :
                        \/ \E output \in BOOLEAN : Generate(p, label, overwrite, output)
                        \/ \E key \in KeyFiles : Import(p, label, key, overwrite)
                   \/ \E label \in Labels : Delete(p, label) \/ Show(p, label)
                   \/ Exists(p) \/ Erase(p) \/ Store(p) \/ Export(p) \/ Killed(p)
ChainSpec == ChainInit /\ [][ChainNext]_chainVars

-----------------------------------------------------------------------------
\* A key whose public key was printed stays under its label, and the file that
\* was saved with it holds that key, until a command is told to replace or to
\* delete it: the check before the store loses a key only to a second command
\* that passes it, writes or shows, before the first has stored.
PrintedKeyKept == /\ \A r \in printed : r.label \notin met => chain[r.label] = r.key
                  /\ \A f \in saved : f.label \notin met => f.key = f.printed
=============================================================================
