----------------------------- MODULE MultiSign -----------------------------
(***************************************************************************)
(* M-of-N signing sessions (afterimage-solana multisigner.rs): an online   *)
(* machine makes a request, the air-gapped signer whose turn it is answers *)
(* it, and the answer becomes the next request, either by the CLI's        *)
(* multisign next (advance_round_from) or in the web page's                *)
(* WasmMultiSignOrchestrator.                                              *)
(*                                                                         *)
(* Requests and responses are files and QR codes carried by hand: once     *)
(* made, they may be used late, twice, out of order, in the wrong session  *)
(* or never.  So they are two growing sets.  A signature is the pair of    *)
(* its signer and the transaction signed.                                  *)
(***************************************************************************)
EXTENDS Integers, Sequences, FiniteSets

CONSTANTS
  Sessions,     \* sessions that may be created, named by their random nonces
  OnPage,       \* those run by the orchestrator of the web page
  Txs,          \* the transactions
  Signers,      \* the public keys
  Tx,           \* the transaction of a session
  SignerList,   \* its ordered list of signers
  Threshold,    \* its M
  Keys          \* the account keys of a transaction that it has a signature for

ASSUME SessionsAssumption ==
  /\ OnPage \subseteq Sessions
  /\ Tx \in [Sessions -> Txs]
  /\ SignerList \in [Sessions -> Seq(Signers)]
  /\ Threshold \in [Sessions -> Nat]
  /\ Keys \in [Txs -> SUBSET Signers]

VARIABLES
  created,      \* the sessions created so far
  requests,     \* every MultiSignRequest made so far
  responses,    \* every MultiSignResponse made so far
  round,        \* the orchestrator's round, per session on the page
  collected     \* the orchestrator's partial_sigs, per session on the page

multiVars == <<created, requests, responses, round, collected>>

-----------------------------------------------------------------------------
Signatures == [signer : Signers, tx : Txs]

\* A request carries the nonce of one session, and the transaction, signers
\* and threshold of a session "of".
Request(n, s, r, sigs) == [nonce |-> n, of |-> s, round |-> r, sigs |-> sigs]


\* Mutant: nobody is ever found to have signed before.
XSignedByNone(p, sigs) == FALSE

SignedBy(p, sigs) == \E i \in DOMAIN sigs : sigs[i].signer = p
AllOver(t, sigs) == \A i \in DOMAIN sigs : sigs[i].tx = t
CurrentSigner(s, r) == SignerList[s][r]
ThresholdInRange(s) == Threshold[s] \in 1 .. Len(SignerList[s])

-----------------------------------------------------------------------------
MultiInit ==
  /\ created = {}
  /\ requests = {}
  /\ responses = {}
  /\ round = [s \in OnPage |-> 1]
  /\ collected = [s \in OnPage |-> <<>>]

\* build_multisig_session, written to a file by multisign init.
BuildSession(s) ==
  /\ s \notin created \cup OnPage
  /\ ThresholdInRange(s)
  /\ created' = created \cup {s}
  /\ requests' = requests \cup {Request(s, s, 1, <<>>)}
  /\ UNCHANGED <<responses, round, collected>>

\* WasmMultiSignOrchestrator::new, which lets a threshold of zero through.
NewOrchestrator(s) ==
  /\ s \in OnPage \ created
  /\ SignerList[s] # <<>> /\ Threshold[s] <= Len(SignerList[s])
  /\ created' = created \cup {s}
  /\ UNCHANGED <<requests, responses, round, collected>>

\* get_request_json: the page shows the request of the current round.
GetRequest(s) ==
  /\ s \in OnPage \cap created
  /\ requests' = requests \cup {Request(s, s, round[s], collected[s])}
  /\ UNCHANGED <<created, responses, round, collected>>

\* Mutant: the signatures before are not verified.
XSignUnverified(q) ==
  LET s    == q.of
      p    == CurrentSigner(s, q.round)
      sigs == Append(q.sigs, [signer |-> p, tx |-> Tx[s]])
  IN  /\ q \in requests
      /\ ThresholdInRange(s)
      /\ q.round \in DOMAIN SignerList[s]
      /\ ~SignedBy(p, q.sigs)
      /\ p \in Keys[Tx[s]]
      /\ responses' = responses \cup
           {[nonce |-> q.nonce, of |-> s, round |-> q.round, signer |-> p,
             sigs |-> sigs, complete |-> Len(sigs) >= Threshold[s]]}
      /\ UNCHANGED <<created, requests, round, collected>>

\* sign_multi_request, on the machine of the signer whose turn it is.
SignRequest(q) ==
  LET s    == q.of
      p    == CurrentSigner(s, q.round)
      sigs == Append(q.sigs, [signer |-> p, tx |-> Tx[s]])
  IN  /\ q \in requests
      /\ ThresholdInRange(s)
      /\ q.round \in DOMAIN SignerList[s]
      /\ ~SignedBy(p, q.sigs)
      /\ AllOver(Tx[s], q.sigs)
      /\ p \in Keys[Tx[s]]
      /\ responses' = responses \cup
           {[nonce |-> q.nonce, of |-> s, round |-> q.round, signer |-> p,
             sigs |-> sigs, complete |-> Len(sigs) >= Threshold[s]]}
      /\ UNCHANGED <<created, requests, round, collected>>

\* advance_round_from, by multisign next: the user names the response and the
\* file of the original request, which may be another session's.
AdvanceRound(r, s) ==
  /\ r \in responses
  /\ s \in created
  /\ ~r.complete
  /\ requests' = requests \cup {Request(r.nonce, s, r.round + 1, r.sigs)}
  /\ UNCHANGED <<created, responses, round, collected>>

\* Mutants: of a response only the nonce is checked, and the round stands still.
XIngestByNonce(r, s) ==
  /\ r \in responses
  /\ s \in OnPage \cap created
  /\ r.nonce = s
  /\ ~SignedBy(r.signer, collected[s])
  /\ collected' = [collected EXCEPT
                     ![s] = Append(@, [signer |-> r.signer, tx |-> Tx[r.of]])]
  /\ round' = [round EXCEPT ![s] = @ + 1]
  /\ UNCHANGED <<created, requests, responses>>

XIngestSameRound(r, s) ==
  /\ r \in responses
  /\ s \in OnPage \cap created
  /\ r.nonce = s
  /\ r.round = round[s]
  /\ r.round \in DOMAIN SignerList[s]
  /\ r.signer = CurrentSigner(s, round[s])
  /\ ~SignedBy(r.signer, collected[s])
  /\ collected' = [collected EXCEPT
                     ![s] = Append(@, [signer |-> r.signer, tx |-> Tx[r.of]])]
  /\ UNCHANGED <<created, requests, responses, round>>

\* ingest_response_json: nonce, round, signer and duplicate are checked, the
\* signature is not.
IngestResponse(r, s) ==
  /\ r \in responses
  /\ s \in OnPage \cap created
  /\ r.nonce = s
  /\ r.round = round[s]
  /\ r.round \in DOMAIN SignerList[s]
  /\ r.signer = CurrentSigner(s, round[s])
  /\ ~SignedBy(r.signer, collected[s])
  /\ collected' = [collected EXCEPT
                     ![s] = Append(@, [signer |-> r.signer, tx |-> Tx[r.of]])]
  /\ round' = [round EXCEPT ![s] = @ + 1]
  /\ UNCHANGED <<created, requests, responses>>

MultiNext ==
  \/ \E s \in Sessions : BuildSession(s) \/ NewOrchestrator(s) \/ GetRequest(s)
  \/ \E q \in requests : SignRequest(q)
  \/ \E r \in responses, s \in Sessions : AdvanceRound(r, s)
  \/ \E r \in responses, s \in Sessions : IngestResponse(r, s)

MultiSpec == MultiInit /\ [][MultiNext]_multiVars

\* The people cooperate: what has been made and not yet been acted on is, in
\* the end, carried to the machine that can, with the right original request.
\* What they may do wrong besides is not restrained.
Fairness ==
  /\ \A s \in Sessions : WF_multiVars(GetRequest(s))
  /\ WF_multiVars(\E q \in requests : SignRequest(q))
  /\ \A s \in Sessions : WF_multiVars(\E r \in responses : r.nonce = s /\ AdvanceRound(r, s))
  /\ \A s \in Sessions : WF_multiVars(\E r \in responses : IngestResponse(r, s))
FairMultiSpec == MultiSpec /\ Fairness

-----------------------------------------------------------------------------
MultiTypeOK ==
  /\ created \in SUBSET Sessions
  /\ requests \subseteq
       [nonce : Sessions, of : Sessions, round : Nat \ {0}, sigs : Seq(Signatures)]
  /\ responses \subseteq
       [nonce : Sessions, of : Sessions, round : Nat \ {0}, signer : Signers,
        sigs : Seq(Signatures) \ {<<>>}, complete : BOOLEAN]
  /\ round \in [OnPage -> Nat \ {0}]
  /\ collected \in [OnPage -> Seq(Signatures)]

\* No nonce is ever compared on the air-gapped side, and multisign next takes
\* whatever original request it is given; all the same no response, and so no
\* signed transaction, carries signatures over two transactions, or over
\* another transaction than that of the session whose nonce it bears.
OneTransaction ==
  \A r \in responses : Tx[r.of] = Tx[r.nonce] /\ AllOver(Tx[r.nonce], r.sigs)

\* A response marked complete has the signatures of at least threshold
\* different signers, each over the transaction it carries and each by one of
\* its account keys (the others are left out of the signed transaction).
Applied(r) ==
  { p \in Keys[Tx[r.of]] :
      \E i \in DOMAIN r.sigs : r.sigs[i] = [signer |-> p, tx |-> Tx[r.of]] }
CompleteIsQuorum ==
  \A r \in responses : r.complete => Cardinality(Applied(r)) >= Threshold[r.of]

\* The orchestrator verifies no signature, yet what it has collected is one
\* signature over its session's transaction from each of the first signers of
\* its list, in order, and none twice.
OrchestratorSound ==
  \A s \in OnPage :
    /\ round[s] = Len(collected[s]) + 1
    /\ \A i \in DOMAIN collected[s] :
         /\ collected[s][i] = [signer |-> SignerList[s][i], tx |-> Tx[s]]
         /\ \A j \in DOMAIN collected[s] :
              collected[s][i].signer = collected[s][j].signer => i = j

\* A session can finish when the first M signers of its list are different
\* account keys: nobody can stand in for one of them, and a list that names
\* one of them twice is stuck.
Able(s) ==
  /\ ThresholdInRange(s)
  /\ \A i, j \in 1 .. Threshold[s] :
       /\ SignerList[s][i] \in Keys[Tx[s]]
       /\ SignerList[s][i] = SignerList[s][j] => i = j

Finished(s) ==
  IF s \in OnPage
    THEN Len(collected[s]) >= Threshold[s]
    ELSE \E r \in responses : r.nonce = s /\ r.of = s /\ r.complete

\* Whatever stale, repeated and misplaced messages there are, every session
\* that can finish does.
AbleFinish == \A s \in Sessions : s \in created /\ Able(s) ~> Finished(s)

=============================================================================
