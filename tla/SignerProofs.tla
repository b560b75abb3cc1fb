----------------------------- MODULE SignerProofs -----------------------------
(***************************************************************************)
(* Proofs about the air-gapped signers: AirSigner, for any number of       *)
(* processes, requests and faults, and MultiSign, for any number of        *)
(* sessions, signers and rounds, any signer lists and thresholds, and any  *)
(* use of the messages made.                                               *)
(***************************************************************************)
EXTENDS AirSigner, MultiSign, FiniteSetTheorems, TLAPS

-----------------------------------------------------------------------------
(***************************************************************************)
(* AirSigner.                                                              *)
(***************************************************************************)

\* One step per operation, and what it leaves alone.
LEMMA Cases ==
  ASSUME [Next]_vars
  PROVE  \/ \E p \in Processes :
              \/ \E r \in Requests : Start(p, r)
              \/ Decline(p) \/ Confirm(p) \/ Refuse(p) \/ Admit(p) \/ Sign(p)
              \/ LoadAgain(p) \/ Empty(p) \/ Write(p) \/ Respond(p) \/ Fault(p)
         \/ UNCHANGED vars
  BY DEF Next, Step

LEMMA GotoType ==
  ASSUME TypeOK, NEW p \in Processes, NEW l \in Steps, Goto(p, l)
  PROVE  pc' \in [Processes -> Steps] /\ overlapped' \in BOOLEAN
  BY DEF TypeOK, Goto

\* Nothing is spoiled but by a fault, so the one count bounds the other.
SpoiledByFaults == spoiled <= faults

\* The types, with the bound of the one count by the other.
THEOREM TypeCorrect == Spec => [](TypeOK /\ SpoiledByFaults)
<1>1. Init => TypeOK /\ SpoiledByFaults
  <2> SUFFICES ASSUME Init PROVE TypeOK /\ SpoiledByFaults
    OBVIOUS
  <2>1. pc \in [Processes -> Steps]
    BY DEF Init, Steps
  <2>2. list \in [Processes -> SUBSET Nonces]
    BY DEF Init
  <2>3. issued \in [Nonces -> 0 .. MaxFaults + 2]
    BY BoundsAssumption DEF Init
  <2>4. faults \in 0 .. MaxFaults /\ spoiled \in 0 .. MaxFaults
    BY BoundsAssumption DEF Init
  <2>5. SpoiledByFaults
    BY DEF Init, SpoiledByFaults
  <2> QED
    BY <2>1, <2>2, <2>3, <2>4, <2>5 DEF Init, TypeOK
<1>2. TypeOK /\ SpoiledByFaults /\ [Next]_vars => (TypeOK /\ SpoiledByFaults)'
  <2> SUFFICES ASSUME TypeOK, SpoiledByFaults, [Next]_vars
               PROVE  TypeOK' /\ SpoiledByFaults'
    OBVIOUS
  <2> USE DEF TypeOK, SpoiledByFaults
  <2>0. \A l \in {"idle", "confirm", "check", "sign", "load", "empty", "write", "respond"} :
          l \in Steps
    BY DEF Steps
  <2>n. \A p \in Processes : NonceOf(p) \in Nonces
    BY RequestsAssumption DEF NonceOf
  <2>r. ASSUME NEW S, Reads(S)
        PROVE  /\ S \in SUBSET Nonces
               /\ faults' \in 0 .. MaxFaults /\ spoiled' \in 0 .. MaxFaults
               /\ spoiled' <= faults'
    <3>1. CASE S = store /\ UNCHANGED <<faults, spoiled>>
      BY <3>1
    <3>2. CASE S = {} /\ faults < MaxFaults /\ faults' = faults + 1 /\ spoiled' = spoiled + 1
      BY <3>2, BoundsAssumption
    <3> QED
      BY <2>r, <3>1, <3>2 DEF Reads
  <2>1. ASSUME NEW p \in Processes, NEW r \in Requests, Start(p, r)
        PROVE  TypeOK' /\ SpoiledByFaults'
    BY <2>0, <2>1, GotoType DEF Start
  <2>2. ASSUME NEW p \in Processes, Decline(p) PROVE TypeOK' /\ SpoiledByFaults'
    BY <2>0, <2>2, GotoType DEF Decline
  <2>3. ASSUME NEW p \in Processes, Confirm(p) PROVE TypeOK' /\ SpoiledByFaults'
    BY <2>0, <2>3, GotoType DEF Confirm
  <2>4. ASSUME NEW p \in Processes, Refuse(p) PROVE TypeOK' /\ SpoiledByFaults'
    BY <2>0, <2>n, <2>4, GotoType DEF Refuse
  <2>5. ASSUME NEW p \in Processes, Admit(p) PROVE TypeOK' /\ SpoiledByFaults'
    <3>1. PICK seen \in SUBSET Nonces : Reads(seen)
      BY <2>5 DEF Admit
    <3>2. faults' \in 0 .. MaxFaults /\ spoiled' \in 0 .. MaxFaults /\ spoiled' <= faults'
      BY <3>1, <2>r
    <3> QED
      BY <2>0, <2>5, <3>2, GotoType DEF Admit
  <2>6. ASSUME NEW p \in Processes, Sign(p) PROVE TypeOK' /\ SpoiledByFaults'
    BY <2>0, <2>n, <2>6, GotoType DEF Sign
  <2>7. ASSUME NEW p \in Processes, LoadAgain(p) PROVE TypeOK' /\ SpoiledByFaults'
    <3>1. PICK seen \in SUBSET Nonces :
            Reads(seen) /\ list' = [list EXCEPT ![p] = seen \cup {NonceOf(p)}]
      BY <2>7 DEF LoadAgain
    <3>2. faults' \in 0 .. MaxFaults /\ spoiled' \in 0 .. MaxFaults /\ spoiled' <= faults'
      BY <3>1, <2>r
    <3>3. seen \cup {NonceOf(p)} \in SUBSET Nonces
      BY <2>n
    <3>4. list' \in [Processes -> SUBSET Nonces]
      BY <3>1, <3>3
    <3> QED
      BY <2>0, <2>7, <3>2, <3>4, GotoType DEF LoadAgain
  <2>8. ASSUME NEW p \in Processes, Empty(p) PROVE TypeOK' /\ SpoiledByFaults'
    BY <2>0, <2>8, GotoType DEF Empty
  <2>9. ASSUME NEW p \in Processes, Write(p) PROVE TypeOK' /\ SpoiledByFaults'
    <3> DEFINE more == IF issued[NonceOf(p)] < MaxFaults + 2
                         THEN issued[NonceOf(p)] + 1 ELSE issued[NonceOf(p)]
    <3>1. more \in 0 .. MaxFaults + 2
      BY <2>n, BoundsAssumption
    <3>2. issued' = [issued EXCEPT ![NonceOf(p)] = more]
      BY <2>9 DEF Write
    <3> HIDE DEF more
    <3>3. issued' \in [Nonces -> 0 .. MaxFaults + 2]
      BY <3>1, <3>2
    <3> QED
      BY <2>0, <2>9, <3>3, GotoType DEF Write
  <2>10. ASSUME NEW p \in Processes, Respond(p) PROVE TypeOK' /\ SpoiledByFaults'
    BY <2>0, <2>n, <2>10, GotoType DEF Respond
  <2>11. ASSUME NEW p \in Processes, Fault(p) PROVE TypeOK' /\ SpoiledByFaults'
    <3>1. faults' \in 0 .. MaxFaults /\ spoiled' \in 0 .. MaxFaults /\ spoiled' <= faults'
      BY <2>11, BoundsAssumption DEF Fault
    <3>2. lost' \in SUBSET Nonces
      BY <2>11, <2>n DEF Fault
    <3> QED
      BY <2>0, <2>11, <3>1, <3>2, GotoType DEF Fault
  <2>12. CASE UNCHANGED vars
    BY <2>12 DEF vars
  <2> QED
    BY <2>1, <2>2, <2>3, <2>4, <2>5, <2>6, <2>7, <2>8, <2>9, <2>10, <2>11, <2>12, Cases
<1> QED
  BY <1>1, <1>2, PTL DEF Spec

-----------------------------------------------------------------------------
(***************************************************************************)
(* ReplayDetected is returned only for nonces the key has signed: what is  *)
(* in the file, in the lists about to be written and in the refusals has   *)
(* all been signed, whatever the interleaving and the faults.              *)
(***************************************************************************)
AllSigned ==
  /\ store \subseteq signed
  /\ refused \subseteq signed
  /\ \A p \in Processes : pc[p] = "load" => NonceOf(p) \in signed
  /\ \A p \in Processes : pc[p] \in {"empty", "write"} => list[p] \subseteq signed

\* No fresh request is ever taken for a replay.
THEOREM FreshNeverRefused == Spec => []NoFalseRefusal
<1>1. Init => AllSigned
  BY DEF Init, AllSigned
<1>2. TypeOK /\ AllSigned /\ [Next]_vars => AllSigned'
  <2> SUFFICES ASSUME TypeOK, AllSigned, [Next]_vars PROVE AllSigned'
    OBVIOUS
  <2> USE DEF TypeOK, AllSigned, Goto, NonceOf
  <2>1. ASSUME NEW p \in Processes, NEW r \in Requests, Start(p, r) PROVE AllSigned'
    BY <2>1 DEF Start
  <2>2. ASSUME NEW p \in Processes, Decline(p) \/ Confirm(p) \/ Admit(p) \/ Fault(p) \/ Respond(p)
        PROVE  AllSigned'
    BY <2>2 DEF Decline, Confirm, Admit, Fault, Respond
  <2>3. ASSUME NEW p \in Processes, Refuse(p) PROVE AllSigned'
    BY <2>3 DEF Refuse
  <2>4. ASSUME NEW p \in Processes, Sign(p) PROVE AllSigned'
    BY <2>4 DEF Sign
  <2>5. ASSUME NEW p \in Processes, LoadAgain(p) PROVE AllSigned'
    BY <2>5 DEF LoadAgain, Reads
  <2>6. ASSUME NEW p \in Processes, Empty(p) PROVE AllSigned'
    BY <2>6 DEF Empty
  <2>7. ASSUME NEW p \in Processes, Write(p) PROVE AllSigned'
    BY <2>7 DEF Write
  <2>8. CASE UNCHANGED vars
    BY <2>8 DEF vars
  <2> QED
    BY <2>1, <2>2, <2>3, <2>4, <2>5, <2>6, <2>7, <2>8, Cases
<1>3. AllSigned => NoFalseRefusal
  BY DEF AllSigned, NoFalseRefusal
<1> QED
  BY <1>1, <1>2, <1>3, TypeCorrect, PTL DEF Spec

-----------------------------------------------------------------------------
(***************************************************************************)
(* The store at work.  While the processes take turns, only one is between *)
(* check and write; a nonce issued more often than the file was spoiled is *)
(* in the file or in the list its only writer is about to write; the list  *)
(* keeps all such nonces, and adds the writer's own; and a nonce being     *)
(* signed was issued no more often than the file was spoiled.              *)
(***************************************************************************)
Recorded(n) == n \in store \/ \E p \in Processes : pc[p] = "write" /\ n \in list[p]

TakingTurns == \A p, q \in Processes : InCritical(p) /\ InCritical(q) => p = q

IssuedRecorded == \A n \in Nonces : issued[n] > spoiled => Recorded(n)

ListsWhole ==
  \A p \in Processes : pc[p] \in {"empty", "write"} =>
    /\ NonceOf(p) \in list[p]
    /\ \A n \in store : issued[n] > spoiled => n \in list[p]

SigningFresh == \A p \in Processes : InCritical(p) => issued[NonceOf(p)] <= spoiled

OncePerLoss == \A n \in Nonces : issued[n] <= spoiled + 1

StoreInv ==
  ~overlapped =>
    TakingTurns /\ IssuedRecorded /\ ListsWhole /\ SigningFresh /\ OncePerLoss

\* Taking turns, sign_request answers a nonce once and once more at most for
\* every time the nonces on file were lost to a reader, and one answered since
\* the last loss is on record.
THEOREM SerialUse == Spec => []SerialUseIsSafe
<1> USE DEF StoreInv, TakingTurns, IssuedRecorded, ListsWhole, SigningFresh,
            OncePerLoss, Recorded, InCritical, Critical, NonceOf
<1>1. Init => StoreInv
  BY DEF Init
<1>2. TypeOK /\ StoreInv /\ [Next]_vars => StoreInv'
  <2> SUFFICES ASSUME TypeOK, StoreInv, [Next]_vars, ~overlapped'
               PROVE  (TakingTurns /\ IssuedRecorded /\ ListsWhole /\ SigningFresh /\ OncePerLoss)'
    OBVIOUS
  <2>0. RequestsAssumption!1
    BY RequestsAssumption
  <2>b. MaxFaults \in Nat /\ spoiled \in Nat /\ \A n \in Nonces : issued[n] \in Nat
    BY BoundsAssumption DEF TypeOK
  <2> USE <2>0 DEF TypeOK, Goto
  <2>1. ASSUME NEW p \in Processes, NEW r \in Requests, Start(p, r)
        PROVE  (TakingTurns /\ IssuedRecorded /\ ListsWhole /\ SigningFresh /\ OncePerLoss)'
    BY <2>1 DEF Start
  <2>2. ASSUME NEW p \in Processes, Decline(p) \/ Confirm(p) \/ Refuse(p)
        PROVE  (TakingTurns /\ IssuedRecorded /\ ListsWhole /\ SigningFresh /\ OncePerLoss)'
    <3>1. CASE Decline(p)
      BY <3>1 DEF Decline
    <3>2. CASE Confirm(p)
      BY <3>2 DEF Confirm
    <3>3. CASE Refuse(p)
      BY <3>3 DEF Refuse
    <3> QED
      BY <2>2, <3>1, <3>2, <3>3
  <2>3. ASSUME NEW p \in Processes, Admit(p)
        PROVE  (TakingTurns /\ IssuedRecorded /\ ListsWhole /\ SigningFresh /\ OncePerLoss)'
    <3>1. pc[p] = "check" /\ pc' = [pc EXCEPT ![p] = "sign"]
          /\ UNCHANGED <<store, req, list, issued>> /\ ~overlapped
      BY <2>3 DEF Admit
    <3>2. \A q \in Processes \ {p} : ~InCritical(q)
      BY <2>3 DEF Admit
    <3>3. TakingTurns' /\ ListsWhole'
      BY <3>1, <3>2
    <3>4. CASE NonceOf(p) \notin store /\ spoiled' = spoiled
      <4>1. ~Recorded(NonceOf(p))
        BY <3>1, <3>2, <3>4
      <4>2. issued[NonceOf(p)] <= spoiled
        BY <4>1, <2>b, <3>1
      <4>3. IssuedRecorded' /\ OncePerLoss'
        BY <3>1, <3>4, <2>b
      <4>4. SigningFresh'
        BY <3>1, <3>2, <3>4, <4>2
      <4> QED
        BY <3>3, <4>3, <4>4
    <3>5. CASE spoiled' = spoiled + 1
      <4>1. \A n \in Nonces : issued[n] <= spoiled'
        BY <3>1, <3>5
      <4>2. IssuedRecorded' /\ OncePerLoss' /\ SigningFresh'
        BY <4>1, <3>1, <3>5, <2>b
      <4> QED
        BY <3>3, <4>2
    <3> QED
      BY <2>3, <3>4, <3>5 DEF Admit, Reads
  <2>4. ASSUME NEW p \in Processes, Sign(p)
        PROVE  (TakingTurns /\ IssuedRecorded /\ ListsWhole /\ SigningFresh /\ OncePerLoss)'
    BY <2>4 DEF Sign
  <2>5. ASSUME NEW p \in Processes, LoadAgain(p)
        PROVE  (TakingTurns /\ IssuedRecorded /\ ListsWhole /\ SigningFresh /\ OncePerLoss)'
    <3>1. pc[p] = "load" /\ pc' = [pc EXCEPT ![p] = "empty"]
          /\ UNCHANGED <<store, req, issued>> /\ ~overlapped
      BY <2>5 DEF LoadAgain
    <3>2. \A q \in Processes \ {p} : ~InCritical(q)
      BY <2>5 DEF LoadAgain
    <3>3. PICK seen \in SUBSET Nonces :
            Reads(seen) /\ list' = [list EXCEPT ![p] = seen \cup {NonceOf(p)}]
      BY <2>5 DEF LoadAgain
    <3>4. \A q \in Processes : pc'[q] \in {"empty", "write"} => q = p
      BY <3>1, <3>2
    <3>5. NonceOf(p) \in list'[p] /\ seen \subseteq list'[p]
      BY <3>3
    <3>6. TakingTurns'
      BY <3>1, <3>2
    <3>7. CASE seen = store /\ spoiled' = spoiled
      <4>1. ListsWhole'
        BY <3>1, <3>4, <3>5, <3>7
      <4>2. IssuedRecorded'
        BY <3>1, <3>2, <3>7
      <4> QED
        BY <3>1, <3>2, <3>6, <3>7, <4>1, <4>2
    <3>8. CASE spoiled' = spoiled + 1
      <4>1. \A n \in Nonces : issued'[n] <= spoiled'
        BY <3>1, <3>8
      <4>2. ListsWhole'
        BY <4>1, <3>1, <3>4, <3>5, <3>8, <2>b
      <4>3. IssuedRecorded' /\ OncePerLoss' /\ SigningFresh'
        BY <4>1, <3>1, <3>8, <2>b
      <4> QED
        BY <3>6, <4>2, <4>3
    <3> QED
      BY <3>3, <3>7, <3>8 DEF Reads
  <2>6. ASSUME NEW p \in Processes, Empty(p)
        PROVE  (TakingTurns /\ IssuedRecorded /\ ListsWhole /\ SigningFresh /\ OncePerLoss)'
    BY <2>6 DEF Empty
  <2>7. ASSUME NEW p \in Processes, Write(p)
        PROVE  (TakingTurns /\ IssuedRecorded /\ ListsWhole /\ SigningFresh /\ OncePerLoss)'
    <3>1. pc[p] = "write" /\ pc' = [pc EXCEPT ![p] = "respond"] /\ store' = list[p]
          /\ UNCHANGED <<req, list, spoiled>> /\ ~overlapped
      BY <2>7 DEF Write
    <3>2. \A q \in Processes \ {p} : ~InCritical(q)
      BY <3>1
    <3>3. issued[NonceOf(p)] <= spoiled /\ NonceOf(p) \in list[p] /\ NonceOf(p) \in Nonces
      BY <3>1
    <3>4. \A n \in Nonces : issued'[n] <= issued[n] + (IF n = NonceOf(p) THEN 1 ELSE 0)
      BY <2>7, <2>b DEF Write
    <3>5. \A n \in Nonces : issued'[n] \in Nat /\ (n # NonceOf(p) => issued'[n] = issued[n])
      BY <2>7, <2>b DEF Write
    <3>6. TakingTurns' /\ ListsWhole' /\ SigningFresh'
      BY <3>1, <3>2
    <3>7. OncePerLoss'
      BY <3>1, <3>3, <3>4, <3>5, <2>b
    <3>8. \A n \in Nonces : n # NonceOf(p) /\ issued[n] > spoiled => n \in list[p]
      BY <3>1, <3>2
    <3>9. IssuedRecorded'
      BY <3>1, <3>3, <3>5, <3>8
    <3> QED
      BY <3>6, <3>7, <3>9
  <2>8. ASSUME NEW p \in Processes, Respond(p)
        PROVE  (TakingTurns /\ IssuedRecorded /\ ListsWhole /\ SigningFresh /\ OncePerLoss)'
    BY <2>8 DEF Respond
  <2>9. ASSUME NEW p \in Processes, Fault(p)
        PROVE  (TakingTurns /\ IssuedRecorded /\ ListsWhole /\ SigningFresh /\ OncePerLoss)'
    <3>1. pc' = [pc EXCEPT ![p] = "idle"] /\ UNCHANGED <<store, req, list, issued>> /\ ~overlapped
      BY <2>9 DEF Fault
    <3>2. CASE pc[p] = "write"
      <4>1. spoiled' = spoiled + 1
        BY <3>2, <2>9 DEF Fault
      <4>2. \A n \in Nonces : issued[n] <= spoiled'
        BY <3>1, <4>1
      <4>3. TakingTurns' /\ ListsWhole'
        <5>1. TakingTurns'
          BY <3>1
        <5>2. \A n \in Nonces : ~(issued'[n] > spoiled')
          BY <3>1, <4>1, <4>2, <2>b
        <5>3. ListsWhole'
          BY <3>1, <5>2
        <5> QED
          BY <5>1, <5>3
      <4>4. IssuedRecorded' /\ SigningFresh' /\ OncePerLoss'
        BY <3>1, <4>1, <4>2, <2>b
      <4> QED
        BY <4>3, <4>4
    <3>3. CASE pc[p] # "write"
      <4>1. spoiled' = spoiled
        BY <3>3, <2>9 DEF Fault
      <4> QED
        BY <3>1, <3>3, <4>1
    <3> QED
      BY <3>2, <3>3
  <2>10. CASE UNCHANGED vars
    BY <2>10 DEF vars
  <2> QED
    BY <2>1, <2>2, <2>3, <2>4, <2>5, <2>6, <2>7, <2>8, <2>9, <2>10, Cases
<1>3. StoreInv => SerialUseIsSafe
  BY DEF SerialUseIsSafe
<1> QED
  BY <1>1, <1>2, <1>3, TypeCorrect, PTL DEF Spec

-----------------------------------------------------------------------------
(***************************************************************************)
(* What a refusal means: every nonce in the file, refused, or listed by a  *)
(* writer other than for itself has a response, written, about to be, or   *)
(* lost with the process that had it.                                      *)
(***************************************************************************)
Responded(n) ==
  n \in answers \cup lost \/ \E p \in Processes : pc[p] = "respond" /\ NonceOf(p) = n

RefusalInv ==
  /\ \A n \in store : Responded(n)
  /\ \A n \in refused : Responded(n)
  /\ \A p \in Processes : pc[p] \in {"empty", "write"} =>
       \A n \in list[p] : Responded(n) \/ n = NonceOf(p)

\* A response made stays made, whatever happens.
LEMMA RespondedStays ==
  ASSUME TypeOK, [Next]_vars, NEW n \in Nonces, Responded(n)
  PROVE  Responded(n)'
<1> USE DEF TypeOK, Responded, Goto, NonceOf
<1>1. ASSUME NEW p \in Processes, NEW r \in Requests, Start(p, r) PROVE Responded(n)'
  BY <1>1 DEF Start
<1>2. ASSUME NEW p \in Processes, Decline(p) \/ Confirm(p) \/ Refuse(p) \/ Admit(p) PROVE Responded(n)'
  BY <1>2 DEF Decline, Confirm, Refuse, Admit
<1>3. ASSUME NEW p \in Processes, Sign(p) PROVE Responded(n)'
  BY <1>3 DEF Sign
<1>4. ASSUME NEW p \in Processes, LoadAgain(p) \/ Empty(p) \/ Write(p) PROVE Responded(n)'
  BY <1>4 DEF LoadAgain, Empty, Write
<1>5. ASSUME NEW p \in Processes, Respond(p) PROVE Responded(n)'
  BY <1>5 DEF Respond
<1>6. ASSUME NEW p \in Processes, Fault(p) PROVE Responded(n)'
  BY <1>6 DEF Fault
<1>7. CASE UNCHANGED vars
  BY <1>7 DEF vars
<1> QED
  BY <1>1, <1>2, <1>3, <1>4, <1>5, <1>6, <1>7, Cases

\* A refusal means that the response was made: it is written, about to be, or
\* lost with its process; whatever overlaps and fails.
THEOREM RefusalsAreAnswered == Spec => []RefusedWasAnswered
<1>1. Init => RefusalInv
  BY DEF Init, RefusalInv
<1>2. TypeOK /\ RefusalInv /\ [Next]_vars => RefusalInv'
  <2> SUFFICES ASSUME TypeOK, RefusalInv, [Next]_vars
               PROVE  /\ \A n \in store' : Responded(n)'
                      /\ \A n \in refused' : Responded(n)'
                      /\ \A p \in Processes : pc'[p] \in {"empty", "write"} =>
                           \A n \in list'[p] : Responded(n)' \/ n = NonceOf(p)'
    BY DEF RefusalInv
  <2>1. \A n \in store : n \in Nonces /\ Responded(n)
    BY DEF RefusalInv, TypeOK
  <2>2. \A n \in refused : n \in Nonces /\ Responded(n)
    BY DEF RefusalInv, TypeOK
  <2>3. \A p \in Processes : pc[p] \in {"empty", "write"} =>
          \A n \in list[p] : n \in Nonces /\ (Responded(n) \/ n = NonceOf(p))
    BY DEF RefusalInv, TypeOK
  <2>4. \A n \in Nonces : Responded(n) => Responded(n)'
    BY RespondedStays
  <2> HIDE DEF Responded
  <2>5. ASSUME NEW p \in Processes, Write(p)
        PROVE  \A n \in store' : Responded(n)'
    <3>1. pc[p] = "write" /\ store' = list[p] /\ pc'[p] = "respond" /\ NonceOf(p)' = NonceOf(p)
      BY <2>5 DEF Write, Goto, TypeOK, NonceOf
    <3>2. Responded(NonceOf(p))'
      BY <3>1 DEF Responded
    <3> QED
      BY <3>1, <3>2, <2>3, <2>4
  <2>6. \A n \in store' : Responded(n)'
    <3>1. ASSUME ~\E p \in Processes : Write(p) PROVE store' \subseteq store
      BY <3>1, Cases DEF vars, Start, Decline, Confirm, Refuse, Admit, Sign,
                         LoadAgain, Empty, Respond, Fault
    <3> QED
      BY <3>1, <2>1, <2>4, <2>5
  <2>7. \A n \in refused' : Responded(n)'
    <3>1. ASSUME NEW p \in Processes, Refuse(p)
          PROVE  refused' \subseteq refused \cup store
      BY <3>1 DEF Refuse
    <3>2. ASSUME ~\E p \in Processes : Refuse(p) PROVE refused' \subseteq refused
      BY <3>2, Cases DEF vars, Start, Decline, Confirm, Admit, Sign,
                         LoadAgain, Empty, Write, Respond, Fault
    <3> QED
      BY <3>1, <3>2, <2>1, <2>2, <2>4
  <2>8. \A p \in Processes : pc'[p] \in {"empty", "write"} =>
          \A n \in list'[p] : Responded(n)' \/ n = NonceOf(p)'
    <3> SUFFICES ASSUME NEW p \in Processes, pc'[p] \in {"empty", "write"}, NEW n \in list'[p]
                 PROVE  Responded(n)' \/ n = NonceOf(p)'
      OBVIOUS
    <3>1. ASSUME LoadAgain(p) PROVE Responded(n)' \/ n = NonceOf(p)'
      <4>0. PICK seen \in SUBSET Nonces :
              Reads(seen) /\ list' = [list EXCEPT ![p] = seen \cup {NonceOf(p)}]
        BY <3>1 DEF LoadAgain
      <4>1. n \in store \cup {NonceOf(p)} /\ NonceOf(p)' = NonceOf(p)
        BY <4>0, <3>1 DEF LoadAgain, Reads, TypeOK, NonceOf
      <4> QED
        BY <4>1, <2>1, <2>4
    <3>2. ASSUME ~LoadAgain(p)
          PROVE  pc[p] \in {"empty", "write"} /\ list'[p] = list[p] /\ req'[p] = req[p]
      BY <3>2, Cases DEF vars, TypeOK, Goto, Start, Decline, Confirm, Refuse, Admit, Sign,
                         LoadAgain, Empty, Write, Respond, Fault
    <3> QED
      BY <3>1, <3>2, <2>3, <2>4 DEF NonceOf
  <2> QED
    BY <2>6, <2>7, <2>8
<1>3. RefusalInv => RefusedWasAnswered
  BY DEF RefusalInv, RefusedWasAnswered, Responded
<1> QED
  BY <1>1, <1>2, <1>3, TypeCorrect, PTL DEF Spec

-----------------------------------------------------------------------------
(***************************************************************************)
(* MultiSign.                                                              *)
(***************************************************************************)

(***************************************************************************)
(* Signatures over transaction t by different account keys of t: what      *)
(* every request, response and orchestrator carries.                       *)
(***************************************************************************)
Chain(t, sigs) ==
  \A i \in DOMAIN sigs :
    /\ sigs[i].tx = t
    /\ sigs[i].signer \in Keys[t]
    /\ \A j \in DOMAIN sigs : sigs[i].signer = sigs[j].signer => i = j

LEMMA ChainGrows ==
  ASSUME NEW t \in Txs, NEW sigs \in Seq(Signatures), Chain(t, sigs),
         NEW p \in Keys[t], ~SignedBy(p, sigs)
  PROVE  /\ Append(sigs, [signer |-> p, tx |-> t]) \in Seq(Signatures) \ {<<>>}
         /\ Len(Append(sigs, [signer |-> p, tx |-> t])) = Len(sigs) + 1
         /\ Chain(t, Append(sigs, [signer |-> p, tx |-> t]))
<1> DEFINE new == [signer |-> p, tx |-> t]
           more == Append(sigs, new)
<1>1. new \in Signatures
  BY SessionsAssumption DEF Signatures
<1>2. /\ more \in Seq(Signatures) /\ Len(more) = Len(sigs) + 1 /\ Len(sigs) \in Nat
      /\ \A i \in 1 .. Len(sigs) : more[i] = sigs[i]
      /\ more[Len(sigs) + 1] = new
      /\ DOMAIN more = 1 .. Len(sigs) + 1 /\ DOMAIN sigs = 1 .. Len(sigs)
  BY <1>1
<1>3. new.signer = p /\ new.tx = t
  OBVIOUS
<1> HIDE DEF new, more
<1>4. Chain(t, more)
  BY <1>2, <1>3 DEF Chain, SignedBy
<1>5. more # <<>>
  BY <1>2
<1> QED
  BY <1>2, <1>4, <1>5 DEF more, new

\* A chain of n signatures has n different signers.
LEMMA ChainQuorum ==
  ASSUME NEW t \in Txs, NEW sigs \in Seq(Signatures), Chain(t, sigs)
  PROVE  Cardinality({ p \in Keys[t] :
                         \E i \in DOMAIN sigs : sigs[i] = [signer |-> p, tx |-> t] })
           = Len(sigs)
<1> DEFINE S == { p \in Keys[t] :
                    \E i \in DOMAIN sigs : sigs[i] = [signer |-> p, tx |-> t] }
           f == [i \in 1 .. Len(sigs) |-> sigs[i].signer]
<1>1. DOMAIN sigs = 1 .. Len(sigs) /\ Len(sigs) \in Nat
  OBVIOUS
<1>2. ASSUME NEW i \in 1 .. Len(sigs)
      PROVE  f[i] \in S /\ sigs[i] = [signer |-> f[i], tx |-> t]
  <2>1. sigs[i] \in Signatures /\ sigs[i].tx = t /\ sigs[i].signer \in Keys[t]
    BY <1>1 DEF Chain
  <2>2. sigs[i] = [signer |-> sigs[i].signer, tx |-> t]
    BY <2>1 DEF Signatures
  <2> QED
    BY <1>1, <2>1, <2>2
<1>3. f \in [1 .. Len(sigs) -> S]
  BY <1>2
<1>4. ASSUME NEW i \in 1 .. Len(sigs), NEW j \in 1 .. Len(sigs), f[i] = f[j] PROVE i = j
  BY <1>1, <1>4 DEF Chain
<1>5. ASSUME NEW p \in S PROVE \E i \in 1 .. Len(sigs) : f[i] = p
  <2>1. PICK i \in 1 .. Len(sigs) : sigs[i] = [signer |-> p, tx |-> t]
    BY <1>1
  <2>2. f[i] = p
    BY <2>1
  <2> QED
    BY <2>2
<1> HIDE DEF f, S
<1>6. f \in Bijection(1 .. Len(sigs), S)
  BY <1>3, <1>4, <1>5 DEF Bijection, Injection, Surjection, IsInjective
<1>7. IsFiniteSet(1 .. Len(sigs)) /\ Cardinality(1 .. Len(sigs)) = Len(sigs)
  BY <1>1, FS_Interval
<1>8. Cardinality(S) = Len(sigs)
  BY <1>6, <1>7, FS_Bijection DEF ExistsBijection
<1> QED
  BY <1>8 DEF S

-----------------------------------------------------------------------------
\* A request is made for a round of its own nonce's session; a round after the
\* first has the chain of the rounds before it.
RequestOK(q) ==
  /\ q.round = Len(q.sigs) + 1
  /\ Chain(Tx[q.nonce], q.sigs)
  /\ q.sigs = <<>> => q.of = q.nonce

\* The signatures checked tie a response to the transaction of its nonce.
ResponseOK(r) ==
  /\ r.round = Len(r.sigs)
  /\ Chain(Tx[r.nonce], r.sigs)
  /\ Tx[r.of] = Tx[r.nonce]
  /\ r.signer \in Keys[Tx[r.of]]
  /\ r.complete <=> Len(r.sigs) >= Threshold[r.of]

CollectedOK(s) ==
  /\ round[s] = Len(collected[s]) + 1
  /\ Chain(Tx[s], collected[s])
  /\ \A i \in DOMAIN collected[s] : collected[s][i].signer = SignerList[s][i]

IInv ==
  /\ MultiTypeOK
  /\ \A q \in requests : RequestOK(q)
  /\ \A r \in responses : ResponseOK(r)
  /\ \A s \in OnPage : CollectedOK(s)

RequestType ==
  [nonce : Sessions, of : Sessions, round : Nat \ {0}, sigs : Seq(Signatures)]
ResponseType ==
  [nonce : Sessions, of : Sessions, round : Nat \ {0}, signer : Signers,
   sigs : Seq(Signatures) \ {<<>>}, complete : BOOLEAN]

\* A request added, and nothing else changed but the sessions created.
LEMMA AddRequest ==
  ASSUME IInv, created' \in SUBSET Sessions, UNCHANGED <<responses, round, collected>>,
         NEW q \in RequestType, RequestOK(q), requests' = requests \cup {q}
  PROVE  IInv'
  BY DEF IInv, MultiTypeOK, RequestType, CollectedOK

LEMMA EmptyChain == ASSUME NEW t PROVE Chain(t, <<>>)
  BY DEF Chain

\* The first request of a session.
LEMMA FirstRequest ==
  ASSUME NEW s \in Sessions
  PROVE  Request(s, s, 1, <<>>) \in RequestType /\ RequestOK(Request(s, s, 1, <<>>))
  BY EmptyChain DEF Request, RequestType, RequestOK

\* A response is made.
LEMMA SignStep ==
  ASSUME IInv, NEW q, SignRequest(q)
  PROVE  IInv'
<1> DEFINE s == q.of
           p == CurrentSigner(s, q.round)
           sigs == Append(q.sigs, [signer |-> p, tx |-> Tx[s]])
           r == [nonce |-> q.nonce, of |-> s, round |-> q.round, signer |-> p,
                 sigs |-> sigs, complete |-> Len(sigs) >= Threshold[s]]
<1>1. q \in requests /\ q \in RequestType /\ RequestOK(q)
  BY DEF SignRequest, IInv, MultiTypeOK, RequestType
<1>2. s \in Sessions /\ q.nonce \in Sessions /\ Tx[s] \in Txs /\ Tx[q.nonce] \in Txs
      /\ q.sigs \in Seq(Signatures) /\ q.round \in Nat \ {0}
  BY <1>1, SessionsAssumption DEF RequestType
<1>3. p \in Keys[Tx[s]] /\ ~SignedBy(p, q.sigs) /\ AllOver(Tx[s], q.sigs)
      /\ responses' = responses \cup {r} /\ UNCHANGED <<created, requests, round, collected>>
  BY DEF SignRequest
<1>4. p \in Signers
  BY <1>2, <1>3, SessionsAssumption
<1>5. Tx[s] = Tx[q.nonce]
  <2>1. CASE q.sigs = <<>>
    BY <1>1, <2>1 DEF RequestOK
  <2>2. CASE q.sigs # <<>>
    <3>1. 1 \in DOMAIN q.sigs
      BY <1>2, <2>2
    <3> QED
      BY <1>1, <1>3, <3>1 DEF RequestOK, Chain, AllOver
  <2> QED
    BY <2>1, <2>2
<1>6. sigs \in Seq(Signatures) \ {<<>>} /\ Len(sigs) = Len(q.sigs) + 1 /\ Chain(Tx[s], sigs)
  <2>1. Chain(Tx[s], q.sigs)
    BY <1>1, <1>5 DEF RequestOK
  <2> HIDE DEF p, s
  <2> QED
    BY <1>2, <1>3, <2>1, ChainGrows
<1> HIDE DEF p, s, sigs
<1>7. r \in ResponseType
  BY <1>2, <1>4, <1>6 DEF ResponseType
<1>8. ResponseOK(r)
  BY <1>1, <1>3, <1>5, <1>6 DEF ResponseOK, RequestOK
<1> HIDE DEF r
<1> QED
  BY <1>3, <1>7, <1>8 DEF IInv, MultiTypeOK, ResponseType, CollectedOK

\* The orchestrator takes a response.
LEMMA IngestStep ==
  ASSUME IInv, NEW r, NEW s, IngestResponse(r, s)
  PROVE  IInv'
<1> DEFINE new == [signer |-> r.signer, tx |-> Tx[r.of]]
           more == Append(collected[s], new)
<1>1. r \in ResponseType /\ ResponseOK(r) /\ r.nonce = s /\ s \in OnPage /\ s \in Sessions
  BY SessionsAssumption DEF IngestResponse, IInv, MultiTypeOK, ResponseType
<1>2. round[s] \in Nat \ {0} /\ collected[s] \in Seq(Signatures) /\ CollectedOK(s)
  BY <1>1 DEF IInv, MultiTypeOK
<1>3. Tx[s] \in Txs /\ Tx[r.of] = Tx[s] /\ r.signer \in Keys[Tx[s]]
      /\ ~SignedBy(r.signer, collected[s]) /\ r.signer = SignerList[s][round[s]]
  BY <1>1, SessionsAssumption DEF ResponseOK, IngestResponse, CurrentSigner
<1>4. more \in Seq(Signatures) /\ Len(more) = Len(collected[s]) + 1 /\ Chain(Tx[s], more)
  BY <1>2, <1>3, ChainGrows DEF CollectedOK
<1>5. \A i \in DOMAIN more : more[i].signer = SignerList[s][i]
  <2>1. new.signer = SignerList[s][Len(collected[s]) + 1]
    BY <1>2, <1>3 DEF CollectedOK
  <2>2. new \in Signatures
    BY <1>3, SessionsAssumption DEF Signatures
  <2> HIDE DEF new
  <2>3. /\ DOMAIN more = 1 .. Len(collected[s]) + 1 /\ DOMAIN collected[s] = 1 .. Len(collected[s])
        /\ Len(collected[s]) \in Nat
        /\ \A i \in 1 .. Len(collected[s]) : more[i] = collected[s][i]
        /\ more[Len(collected[s]) + 1] = new
    BY <1>2, <2>2
  <2> HIDE DEF more
  <2> QED
    BY <1>2, <2>1, <2>3 DEF CollectedOK
<1> HIDE DEF new, more
<1>6. /\ collected' = [collected EXCEPT ![s] = more]
      /\ round' = [round EXCEPT ![s] = @ + 1]
      /\ UNCHANGED <<created, requests, responses>>
  BY DEF IngestResponse, more, new
<1>7. round'[s] = round[s] + 1 /\ collected'[s] = more
      /\ \A u \in OnPage \ {s} : round'[u] = round[u] /\ collected'[u] = collected[u]
  BY <1>1, <1>6 DEF IInv, MultiTypeOK
<1>8. CollectedOK(s)'
  BY <1>2, <1>4, <1>5, <1>7 DEF CollectedOK
<1>9. MultiTypeOK'
  <2>1. round[s] + 1 \in Nat \ {0}
    BY <1>2
  <2>2. round' \in [OnPage -> Nat \ {0}]
    BY <1>6, <2>1 DEF IInv, MultiTypeOK
  <2>3. collected' \in [OnPage -> Seq(Signatures)]
    BY <1>4, <1>6 DEF IInv, MultiTypeOK
  <2> QED
    BY <1>6, <2>2, <2>3 DEF IInv, MultiTypeOK
<1> QED
  BY <1>6, <1>7, <1>8, <1>9 DEF IInv, CollectedOK

\* The inductive invariant holds of every state.
THEOREM Invariance == MultiSpec => []IInv
<1>1. MultiInit => IInv
  <2> SUFFICES ASSUME MultiInit PROVE IInv
    OBVIOUS
  <2>1. MultiTypeOK
    BY DEF MultiInit, MultiTypeOK
  <2>2. \A s \in OnPage : CollectedOK(s)
    BY EmptyChain DEF MultiInit, CollectedOK
  <2> QED
    BY <2>1, <2>2 DEF MultiInit, IInv
<1>2. IInv /\ [MultiNext]_multiVars => IInv'
  <2> SUFFICES ASSUME IInv, [MultiNext]_multiVars PROVE IInv'
    OBVIOUS
  <2>1. ASSUME NEW s \in Sessions, BuildSession(s) PROVE IInv'
    <3>1. created' \in SUBSET Sessions
      BY <2>1 DEF BuildSession, IInv, MultiTypeOK
    <3> QED
      BY <2>1, <3>1, FirstRequest, AddRequest DEF BuildSession
  <2>2. ASSUME NEW s \in Sessions, NewOrchestrator(s) PROVE IInv'
    BY <2>2 DEF NewOrchestrator, IInv, MultiTypeOK, CollectedOK
  <2>3. ASSUME NEW s \in Sessions, GetRequest(s) PROVE IInv'
    <3>1. s \in OnPage /\ CollectedOK(s) /\ round[s] \in Nat \ {0}
          /\ collected[s] \in Seq(Signatures)
      BY <2>3 DEF GetRequest, IInv, MultiTypeOK
    <3>2. Request(s, s, round[s], collected[s]) \in RequestType
      BY <3>1 DEF Request, RequestType
    <3>3. RequestOK(Request(s, s, round[s], collected[s]))
      BY <3>1 DEF Request, RequestOK, CollectedOK
    <3>4. created' \in SUBSET Sessions
      BY <2>3 DEF GetRequest, IInv, MultiTypeOK
    <3> QED
      BY <2>3, <3>2, <3>3, <3>4, AddRequest DEF GetRequest
  <2>4. ASSUME NEW q \in requests, SignRequest(q) PROVE IInv'
    BY <2>4, SignStep
  <2>5. ASSUME NEW r \in responses, NEW s \in Sessions, AdvanceRound(r, s) PROVE IInv'
    <3>1. r \in ResponseType /\ ResponseOK(r)
      BY DEF IInv, MultiTypeOK, ResponseType
    <3>2. Request(r.nonce, s, r.round + 1, r.sigs) \in RequestType
      BY <3>1 DEF Request, RequestType, ResponseType
    <3>3. RequestOK(Request(r.nonce, s, r.round + 1, r.sigs))
      BY <3>1 DEF Request, RequestOK, ResponseOK, ResponseType
    <3>4. created' \in SUBSET Sessions
      BY <2>5 DEF AdvanceRound, IInv, MultiTypeOK
    <3> QED
      BY <2>5, <3>2, <3>3, <3>4, AddRequest DEF AdvanceRound
  <2>6. ASSUME NEW r \in responses, NEW s \in Sessions, IngestResponse(r, s) PROVE IInv'
    BY <2>6, IngestStep
  <2>7. CASE UNCHANGED multiVars
    BY <2>7 DEF multiVars, IInv, MultiTypeOK, CollectedOK
  <2> QED
    BY <2>1, <2>2, <2>3, <2>4, <2>5, <2>6, <2>7 DEF MultiNext
<1> QED
  BY <1>1, <1>2, PTL DEF MultiSpec

\* The types.
THEOREM MultiTypeCorrect == MultiSpec => []MultiTypeOK
  BY Invariance, PTL DEF IInv

\* No response mixes transactions, though no nonce is ever compared.
THEOREM Unmixed == MultiSpec => []OneTransaction
<1>1. IInv => OneTransaction
  BY DEF IInv, ResponseOK, Chain, OneTransaction, AllOver
<1> QED
  BY <1>1, Invariance, PTL

\* A complete response has its quorum of different signers.
THEOREM Quorate == MultiSpec => []CompleteIsQuorum
<1>1. IInv => CompleteIsQuorum
  <2> SUFFICES ASSUME IInv, NEW r \in responses, r.complete
               PROVE  Cardinality(Applied(r)) >= Threshold[r.of]
    BY DEF CompleteIsQuorum
  <2>1. r \in ResponseType /\ ResponseOK(r)
    BY DEF IInv, MultiTypeOK, ResponseType
  <2>2. Tx[r.of] \in Txs /\ r.sigs \in Seq(Signatures) /\ Chain(Tx[r.of], r.sigs)
    BY <2>1, SessionsAssumption DEF ResponseType, ResponseOK
  <2>3. Cardinality(Applied(r)) = Len(r.sigs)
    BY <2>2, ChainQuorum DEF Applied
  <2> QED
    BY <2>1, <2>3 DEF ResponseOK
<1> QED
  BY <1>1, Invariance, PTL

\* What the orchestrator collects is sound, though it verifies no signature.
THEOREM Collects == MultiSpec => []OrchestratorSound
<1>1. IInv => OrchestratorSound
  <2> SUFFICES ASSUME IInv, NEW s \in OnPage, NEW i \in DOMAIN collected[s]
               PROVE  collected[s][i] = [signer |-> SignerList[s][i], tx |-> Tx[s]]
    BY DEF OrchestratorSound, IInv, CollectedOK, Chain
  <2>1. collected[s] \in Seq(Signatures) /\ CollectedOK(s)
    BY DEF IInv, MultiTypeOK
  <2>2. collected[s][i] \in Signatures
    BY <2>1
  <2>3. collected[s][i].tx = Tx[s] /\ collected[s][i].signer = SignerList[s][i]
    BY <2>1 DEF CollectedOK, Chain
  <2> QED
    BY <2>2, <2>3 DEF Signatures
<1> QED
  BY <1>1, Invariance, PTL
=============================================================================
