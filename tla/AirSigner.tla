----------------------------- MODULE AirSigner -----------------------------
(***************************************************************************)
(* The air-gapped signer (afterimage-solana signer.rs, run by cmd_sign of  *)
(* the CLI): processes that sign one request each and share the file of    *)
(* nonces already signed.  The file is read before signing, and read again *)
(* and rewritten whole after it; fs::write empties it before it writes.    *)
(* load_seen_nonces has no error: a file that is missing or broken, and an *)
(* intact one whose reading fails, count as no nonce at all.               *)
(***************************************************************************)
EXTENDS Integers, FiniteSets

CONSTANTS
  Processes,    \* those that may run airsign sign
  Requests,     \* the requests put before the signer, as often as anyone likes
  Nonces,
  Nonce,        \* the nonce of a request
  Ours,         \* the requests addressed to the loaded key
  Signable,     \* those whose transaction decodes and lists the key
  MaxFaults     \* bound: power cuts, failed writes and failed reads

ASSUME RequestsAssumption ==
  /\ Nonce \in [Requests -> Nonces]
  /\ Ours \subseteq Requests
  /\ Signable \subseteq Requests
ASSUME BoundsAssumption == MaxFaults \in Nat

VARIABLES
  store,        \* the nonces a reader of the file sees
  pc,           \* where each process is in sign_request
  req,          \* the request it was given
  list,         \* the nonces persist_nonce is about to write
  refused,      \* the nonces for which ReplayDetected was returned
  faults,       \* power cuts, failed writes and failed reads so far
  issued,       \* history: how often a nonce was signed and recorded
  answers,      \* history: the nonces whose response was written
  lost,         \* history: those whose response was made and never written
  signed,       \* history: the nonces of the requests signed and not rejected
  overlapped,   \* history: two processes were in the critical section at once
  spoiled       \* history: how often the nonces on file were lost to a reader:
                \* a fault between emptying and writing, or a failed read

vars == <<store, pc, req, list, refused, faults,
          issued, answers, lost, signed, overlapped, spoiled>>

-----------------------------------------------------------------------------
\* From the check of a nonce to the end of the write that records it.
Critical == {"sign", "load", "empty", "write"}
InCritical(p) == pc[p] \in Critical

\* Process p goes on to step l; the history notes whether it is alone.
Goto(p, l) ==
  /\ pc' = [pc EXCEPT ![p] = l]
  /\ overlapped' = (overlapped \/ (l \in Critical /\ \E q \in Processes \ {p} : InCritical(q)))

NonceOf(p) == Nonce[req[p]]

\* load_seen_nonces returns S: the nonces on file, or, a read of them having
\* failed, none.
Reads(S) ==
  \/ S = store /\ UNCHANGED <<faults, spoiled>>
  \/ /\ S = {} /\ store # {}
     /\ faults < MaxFaults
     /\ faults' = faults + 1
     /\ spoiled' = spoiled + 1

-----------------------------------------------------------------------------
Init ==
  /\ store = {}
  /\ pc = [p \in Processes |-> "idle"]
  /\ req \in [Processes -> Requests]
  /\ list = [p \in Processes |-> {}]
  /\ refused = {}
  /\ faults = 0
  /\ issued = [n \in Nonces |-> 0]
  /\ answers = {} /\ lost = {} /\ signed = {}
  /\ overlapped = FALSE
  /\ spoiled = 0

\* cmd_sign is given a request, old or new.
Start(p, r) ==
  /\ pc[p] = "idle"
  /\ req' = [req EXCEPT ![p] = r]
  /\ Goto(p, "confirm")
  /\ UNCHANGED <<store, list, refused, faults, issued, answers, lost, signed, spoiled>>

\* The request is for another key, or the user does not type yes.
Decline(p) ==
  /\ pc[p] = "confirm"
  /\ Goto(p, "idle")
  /\ UNCHANGED <<store, req, list, refused, faults, issued, answers, lost, signed, spoiled>>

Confirm(p) ==
  /\ pc[p] = "confirm"
  /\ req[p] \in Ours
  /\ Goto(p, "check")
  /\ UNCHANGED <<store, req, list, refused, faults, issued, answers, lost, signed, spoiled>>

\* The replay check: load_seen_nonces, and ReplayDetected.
Refuse(p) ==
  /\ pc[p] = "check"
  /\ NonceOf(p) \in store
  /\ refused' = refused \cup {NonceOf(p)}
  /\ Goto(p, "idle")
  /\ UNCHANGED <<store, req, list, faults, issued, answers, lost, signed, spoiled>>

\* Mutant: the nonce is recorded when it is checked, before signing.
XAdmitAndRecord(p) ==
  /\ pc[p] = "check"
  /\ NonceOf(p) \notin store
  /\ store' = store \cup {NonceOf(p)}
  /\ Goto(p, "sign")
  /\ UNCHANGED <<req, list, refused, faults, issued, answers, lost, signed, spoiled>>

Admit(p) ==
  /\ pc[p] = "check"
  /\ \E seen \in SUBSET Nonces : Reads(seen) /\ NonceOf(p) \notin seen
  /\ Goto(p, "sign")
  /\ UNCHANGED <<store, req, list, refused, issued, answers, lost, signed>>

Sign(p) ==
  /\ pc[p] = "sign"
  /\ IF req[p] \in Signable
       THEN signed' = signed \cup {NonceOf(p)} /\ Goto(p, "load")
       ELSE UNCHANGED signed /\ Goto(p, "idle")
  /\ UNCHANGED <<store, req, list, refused, faults, issued, answers, lost, spoiled>>

\* Mutant: the new list starts from nothing, not from the file.
XLoadNothing(p) ==
  /\ pc[p] = "load"
  /\ list' = [list EXCEPT ![p] = {NonceOf(p)}]
  /\ Goto(p, "empty")
  /\ UNCHANGED <<store, req, refused, faults, issued, answers, lost, signed, spoiled>>

\* persist_nonce: read the file again, and add the nonce.
LoadAgain(p) ==
  /\ pc[p] = "load"
  /\ \E seen \in SUBSET Nonces :
       Reads(seen) /\ list' = [list EXCEPT ![p] = seen \cup {NonceOf(p)}]
  /\ Goto(p, "empty")
  /\ UNCHANGED <<store, req, refused, issued, answers, lost, signed>>

\* fs::write opens the file, which empties it, and writes the list.
Empty(p) ==
  /\ pc[p] = "empty"
  /\ store' = {}
  /\ Goto(p, "write")
  /\ UNCHANGED <<req, list, refused, faults, issued, answers, lost, signed, spoiled>>

\* The list is written, and sign_request returns its response.  (The count
\* stops at two more than the faults allowed, which only overlaps reach.)
Write(p) ==
  /\ pc[p] = "write"
  /\ store' = list[p]
  /\ issued' = [issued EXCEPT ![NonceOf(p)] = IF @ < MaxFaults + 2 THEN @ + 1 ELSE @]
  /\ Goto(p, "respond")
  /\ UNCHANGED <<req, list, refused, faults, answers, lost, signed, spoiled>>

\* cmd_sign writes the response to its output file.
Respond(p) ==
  /\ pc[p] = "respond"
  /\ answers' = answers \cup {NonceOf(p)}
  /\ Goto(p, "idle")
  /\ UNCHANGED <<store, req, list, refused, faults, issued, lost, signed, spoiled>>

\* The power is cut, or a write fails (a full disk) and sign_request or
\* cmd_sign returns the error: the process ends where it is, and no response
\* leaves it.
Fault(p) ==
  /\ pc[p] # "idle"
  /\ faults < MaxFaults
  /\ faults' = faults + 1
  /\ spoiled' = IF pc[p] = "write" THEN spoiled + 1 ELSE spoiled
  /\ lost' = IF pc[p] = "respond" THEN lost \cup {NonceOf(p)} ELSE lost
  /\ Goto(p, "idle")
  /\ UNCHANGED <<store, req, list, refused, issued, answers, signed>>

Step(p) ==
  \/ Decline(p) \/ Confirm(p) \/ Refuse(p) \/ Admit(p) \/ Sign(p)
  \/ LoadAgain(p) \/ Empty(p) \/ Write(p) \/ Respond(p)

Next ==
  \E p \in Processes : Step(p) \/ Fault(p) \/ \E r \in Requests : Start(p, r)

Spec == Init /\ [][Next]_vars

-----------------------------------------------------------------------------
Steps == {"idle", "confirm", "check", "sign", "load", "empty", "write", "respond"}

TypeOK ==
  /\ store \in SUBSET Nonces
  /\ pc \in [Processes -> Steps]
  /\ req \in [Processes -> Requests]
  /\ list \in [Processes -> SUBSET Nonces]
  /\ refused \in SUBSET Nonces
  /\ faults \in 0 .. MaxFaults
  /\ issued \in [Nonces -> 0 .. MaxFaults + 2]
  /\ answers \in SUBSET Nonces
  /\ lost \in SUBSET Nonces
  /\ signed \in SUBSET Nonces
  /\ overlapped \in BOOLEAN
  /\ spoiled \in 0 .. MaxFaults

\* What the nonce file is worth to processes that take turns: sign_request
\* returns a response to a nonce once, and once more at most for every time
\* the nonces on file were lost to a reader (the power cut between emptying and
\* writing, or a read that failed and was taken for an empty list); and a
\* nonce answered since the last such loss is in the file, or in the list
\* about to be written to it.  A cut or a failed write anywhere else is
\* harmless, and so are the two reads of one run lying apart.
SerialUseIsSafe ==
  ~overlapped =>
    \A n \in Nonces :
      /\ issued[n] <= spoiled + 1
      /\ issued[n] > spoiled =>
           n \in store \/ \E p \in Processes : pc[p] = "write" /\ n \in list[p]

\* Whatever overlaps or fails, a refusal means that the response to that nonce
\* has been written, is about to be, or was made by a process that ended before
\* it could write it: the nonce is on record only once there is a response.
RefusedWasAnswered ==
  \A n \in refused :
    n \in answers \cup lost \/ \E p \in Processes : pc[p] = "respond" /\ NonceOf(p) = n

\* Whatever happens to the file, ReplayDetected is returned only for a nonce
\* the key has signed: no fresh request is ever taken for a replay.
NoFalseRefusal == refused \subseteq signed /\ store \subseteq signed

=============================================================================
