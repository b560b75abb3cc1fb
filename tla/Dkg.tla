-------------------------------- MODULE Dkg --------------------------------
(***************************************************************************)
(* Key setup of the FROST threshold signers (crates afterimage-dkg and     *)
(* afterimage-frost, and the WASM objects the pages drive).  A group key   *)
(* comes either from a dealer or from the three calls of distributed key   *)
(* generation, whose packages are carried by hand through a coordinator    *)
(* that keeps one slot per participant and round.  Nothing in a package    *)
(* names a session, a device may run round one again, and an earlier       *)
(* output may reach the coordinator late: all three are behaviours here.   *)
(*                                                                         *)
(* A secret polynomial is the number of the round-one call that drew it.   *)
(* A group key is the polynomial each participant put into it.             *)
(***************************************************************************)
EXTENDS Naturals, FiniteSets

CONSTANTS P,            \* the participants
          T,            \* the signing threshold
          MaxAttempts,  \* bound: round-one calls of one device
          MaxRestarts,  \* bound: repeated round-one calls in all
          MaxLate       \* bound: superseded outputs that still arrive

\* What validate_config and generate_setup demand before anything is drawn.
ValidConfig(n, t) == n >= 2 /\ t >= 2 /\ t <= n

ASSUME ThresholdAssumption == /\ IsFiniteSet(P)
                              /\ T \in Nat
                              /\ ValidConfig(Cardinality(P), T)
ASSUME BoundAssumption == MaxAttempts \in Nat /\ MaxRestarts \in Nat /\ MaxLate \in Nat

VARIABLES attempt,  \* attempt[p]: round-one calls of p; the last is round1_output
          mine,     \* mine[p]: polynomial held by round2_output, 0 when there is none
          sent,     \* sent[p]: polynomials whose round-two packages p has given out
          slots1,   \* the coordinator's round-one slots, 0 when empty
          slots2,   \* the coordinator's round-two slots, 0 when empty
          key,      \* key[p]: the key package p holds, NoKey before finish
          late      \* superseded outputs delivered so far

dkgVars == <<attempt, mine, sent, slots1, slots2, key, late>>

Attempts == 0..MaxAttempts
NoKey == [held |-> FALSE, group |-> [q \in P |-> 0]]
KeyFor(group) == [held |-> TRUE, group |-> group]
DealerGroup == [q \in P |-> 0]
Keys == [held : BOOLEAN, group : [P -> Attempts]]

DkgTypeOK == /\ attempt \in [P -> Attempts]
             /\ mine \in [P -> Attempts]
             /\ sent \in [P -> SUBSET (1..MaxAttempts)]
             /\ slots1 \in [P -> Attempts]
             /\ slots2 \in [P -> Attempts]
             /\ key \in [P -> Keys]
             /\ late \in 0..MaxLate

DkgInit == /\ attempt = [p \in P |-> 0]
           /\ mine = [p \in P |-> 0]
           /\ sent = [p \in P |-> {}]
           /\ slots1 = [p \in P |-> 0]
           /\ slots2 = [p \in P |-> 0]
           /\ key = [p \in P |-> NoKey]
           /\ late = 0

-----------------------------------------------------------------------------
\* The dealer draws one polynomial and hands every participant its package.
GenerateSetup ==
  /\ ValidConfig(Cardinality(P), T)
  /\ \A p \in P : attempt[p] = 0 /\ ~key[p].held
  /\ key' = [p \in P |-> KeyFor(DealerGroup)]
  /\ UNCHANGED <<attempt, mine, sent, slots1, slots2, late>>

\* Restarts so far: the devices that drew a second polynomial.
Restarted == {p \in P : attempt[p] > 1}

\* dkg_round1: a polynomial the device never drew before.
Fresh(p) == attempt[p] + 1

\* round1 of the device: the new output replaces the one it held.  Nothing
\* forbids a second call, and the round-two output of the first one stays.
Round1(p) ==
  /\ ValidConfig(Cardinality(P), T)
  /\ ~(\E q \in P : key[q] = KeyFor(DealerGroup))
  /\ attempt[p] < MaxAttempts
  /\ attempt[p] > 0 => Cardinality(Restarted \ {p}) < MaxRestarts
  /\ attempt' = [attempt EXCEPT ![p] = Fresh(p)]
  /\ UNCHANGED <<mine, sent, slots1, slots2, key, late>>

\* A round-one output reaches its slot; an older one may arrive after a newer.
Deliver1(p, a) ==
  /\ a \in 1..attempt[p]
  /\ slots1[p] /= a
  /\ a < attempt[p] => late < MaxLate
  /\ slots1' = [slots1 EXCEPT ![p] = a]
  /\ late' = IF a < attempt[p] THEN late + 1 ELSE late
  /\ UNCHANGED <<attempt, mine, sent, slots2, key>>

\* Mutant: the rounds go on although a slot is empty.
XAllReceived(slots) == \E q \in P : slots[q] > 0

\* all_round1_received and all_round2_received: no slot is empty.
AllReceived(slots) == \A q \in P : slots[q] > 0

\* dkg_round2: the packages are evaluations of the device's own polynomial;
\* what the others sent in round one is only verified.
PackagesOf(p) == attempt[p]

\* Mutant: a device that has its round-two output keeps it.
XRound2(p) ==
  /\ attempt[p] > 0
  /\ mine[p] = 0
  /\ AllReceived(slots1)
  /\ mine' = [mine EXCEPT ![p] = PackagesOf(p)]
  /\ sent' = [sent EXCEPT ![p] = @ \union {PackagesOf(p)}]
  /\ UNCHANGED <<attempt, slots1, slots2, key, late>>

\* round2 of the device, which replaces its round-two output.
Round2(p) ==
  /\ attempt[p] > 0
  /\ AllReceived(slots1)
  /\ mine' = [mine EXCEPT ![p] = PackagesOf(p)]
  /\ sent' = [sent EXCEPT ![p] = @ \union {PackagesOf(p)}]
  /\ UNCHANGED <<attempt, slots1, slots2, key, late>>

\* A round-two output reaches its slot, from which packages_for_participant
\* reads the entry of each recipient.
Deliver2(p, a) ==
  /\ a \in sent[p]
  /\ slots2[p] /= a
  /\ a < mine[p] => late < MaxLate
  /\ slots2' = [slots2 EXCEPT ![p] = a]
  /\ late' = IF a < mine[p] THEN late + 1 ELSE late
  /\ UNCHANGED <<attempt, mine, sent, slots1, key>>

\* part3 of the FROST library refuses a share that does not lie on the
\* polynomial its sender committed to in round one.
SharesVerify(p) == \A q \in P \ {p} : slots2[q] = slots1[q]

\* The group key a device computes: its own polynomial from the round-two
\* secret, everyone else's from the round-one slots.
GroupOf(p) == [q \in P |-> IF q = p THEN mine[p] ELSE slots1[q]]

\* finish of the device; it reads the slots as they are now, which need not
\* be what round two read, and may be called again.
Finish(p) ==
  /\ attempt[p] > 0
  /\ mine[p] > 0
  /\ AllReceived(slots1)
  /\ AllReceived(slots2)
  /\ SharesVerify(p)
  /\ key' = [key EXCEPT ![p] = KeyFor(GroupOf(p))]
  /\ UNCHANGED <<attempt, mine, sent, slots1, slots2, late>>

DkgNext == \/ GenerateSetup
           \/ \E p \in P : \/ Round1(p)
                           \/ Round2(p)
                           \/ Finish(p)
                           \/ \E a \in 1..MaxAttempts : Deliver1(p, a) \/ Deliver2(p, a)

\* People carry every current output on and make the next call they can.
\* A repeated round one and a superseded output are never required.
DkgFairness == \A p \in P : /\ WF_dkgVars(attempt[p] = 0 /\ Round1(p))
                            /\ WF_dkgVars(Deliver1(p, attempt[p]))
                            /\ WF_dkgVars(Round2(p))
                            /\ WF_dkgVars(Deliver2(p, mine[p]))
                            /\ WF_dkgVars(Finish(p))

-----------------------------------------------------------------------------
\* "identical across all participants" (participant.rs), as far as it holds:
\* two finished devices can only disagree about the contribution of a device
\* that ran round one again.
KeysAgreeUnlessRestarted ==
  \A p, q \in P : key[p].held /\ key[q].held =>
    \A r \in P : key[p].group[r] /= key[q].group[r] => attempt[r] > 1

\* Under those hands a ceremony always ends: a device that restarts, or an
\* output that arrives late, never leaves a participant without a key.
EveryoneFinishes == <>(\A p \in P : key[p].held)
=============================================================================
