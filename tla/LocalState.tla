----------------------------- MODULE LocalState -----------------------------
(***************************************************************************)
(* What a signer keeps for itself: the file of nonces signed, the phone's  *)
(* keys, the command line's keys and the phone's fountain decoder.  They    *)
(* share no state, so a run uses one of them and no interleaving is lost.  *)
(***************************************************************************)
EXTENDS AirSigner, PhoneKeys, Keychain, MobileCoder

VARIABLE use
localVars == <<use, vars, keyVars, chainVars, coderVars>>

LocalInit == /\ use \in {"nonces", "phone", "keychain", "coder"}
             /\ Init /\ KeyInit /\ ChainInit /\ CoderInit
             \* The first requests of processes that do not run are immaterial.
             /\ use = "nonces" \/ req = [p \in Processes |-> CHOOSE r \in Requests : TRUE]

LocalNext ==
  /\ UNCHANGED use
  /\ \/ use = "nonces" /\ Next /\ UNCHANGED <<keyVars, chainVars, coderVars>>
     \/ use = "phone" /\ KeyNext /\ UNCHANGED <<vars, chainVars, coderVars>>
     \/ use = "keychain" /\ ChainNext /\ UNCHANGED <<vars, keyVars, coderVars>>
     \/ use = "coder" /\ CoderNext /\ UNCHANGED <<vars, keyVars, chainVars>>

LocalSpec == LocalInit /\ [][LocalNext]_localVars
=============================================================================
