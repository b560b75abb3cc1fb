---------------------------- MODULE FrostProofs ----------------------------
(***************************************************************************)
(* Threshold signing for every group, threshold and set of messages, and   *)
(* whatever packages and shares people carry late, twice or to the wrong   *)
(* place.                                                                  *)
(***************************************************************************)
EXTENDS Frost, FiniteSetTheorems, TLAPS

-----------------------------------------------------------------------------
\* The setup keeps its types.
LEMMA DkgStepType ==
  ASSUME DkgTypeOK, DkgNext
  PROVE  DkgTypeOK'
<1> USE BoundAssumption DEF DkgTypeOK, Attempts
<1>1. CASE GenerateSetup
  BY <1>1 DEF GenerateSetup, KeyFor, DealerGroup, Keys
<1>2. ASSUME NEW p \in P, Round1(p) PROVE DkgTypeOK'
  BY <1>2 DEF Round1, Fresh
<1>3. ASSUME NEW p \in P, Round2(p) PROVE DkgTypeOK'
  <2>1. attempt[p] \in 1..MaxAttempts
    BY <1>3 DEF Round2
  <2> QED
    BY <1>3, <2>1 DEF Round2, PackagesOf
<1>4. ASSUME NEW p \in P, Finish(p) PROVE DkgTypeOK'
  <2>1. KeyFor(GroupOf(p)) \in Keys
    BY DEF KeyFor, GroupOf, Keys
  <2> QED
    BY <1>4, <2>1 DEF Finish
<1>5. ASSUME NEW p \in P, NEW a \in 1..MaxAttempts, Deliver1(p, a) PROVE DkgTypeOK'
  BY <1>5 DEF Deliver1
<1>6. ASSUME NEW p \in P, NEW a \in 1..MaxAttempts, Deliver2(p, a) PROVE DkgTypeOK'
  <2>1. a < mine[p] => late < MaxLate
    BY <1>6 DEF Deliver2
  <2>2. late' \in 0..MaxLate
    BY <1>6, <2>1 DEF Deliver2
  <2> QED
    BY <1>6, <2>2 DEF Deliver2
<1> QED
  BY <1>1, <1>2, <1>3, <1>4, <1>5, <1>6 DEF DkgNext

\* An entry replaces what its participant had handed in before.
LEMMA InsertOnce ==
  ASSUME NEW map, OnePerParticipant(map), NEW entry
  PROVE  OnePerParticipant(Insert(map, entry))
  BY DEF OnePerParticipant, Insert

\* Signing keeps its types.
LEMMA FrostStepType ==
  ASSUME DkgTypeOK, FrostTypeOK, FrostNext
  PROVE  FrostTypeOK'
<1> USE FrostBoundAssumption DEF FrostTypeOK
<1>1. ASSUME NEW p \in P, NewAggregator(p) PROVE FrostTypeOK'
  BY <1>1 DEF NewAggregator, DkgTypeOK
<1>2. ASSUME NEW p \in P, Commit(p) PROVE FrostTypeOK'
  BY <1>2 DEF Commit, FreshNonces
<1>3. ASSUME NEW p \in P, NEW m \in Nonces, AddCommitment(p, m) PROVE FrostTypeOK'
  <2>1. /\ commitments' = Insert(commitments, [id |-> p, nonce |-> m])
        /\ UNCHANGED <<nonce, pub, shares, packages, issued, results>>
    BY <1>3 DEF AddCommitment
  <2>2. [id |-> p, nonce |-> m] \in Commitment
    BY DEF Commitment
  <2>3. commitments' \subseteq Commitment
    BY <2>1, <2>2 DEF Insert
  <2>4. OnePerParticipant(commitments')
    BY <2>1, InsertOnce
  <2>5. OnePerParticipant(shares')
    BY <2>1
  <2> QED
    BY <2>1, <2>3, <2>4, <2>5
<1>4. ASSUME NEW p \in P, NEW pkg \in Built, Sign(p, pkg) PROVE FrostTypeOK'
  <2>1. pkg \in Package
    BY DEF Built
  <2>2. [id |-> p, nonce |-> nonce[p]] \in Commitment
    BY <1>4, <2>1 DEF Sign, SignAccepts, Package
  <2>3. nonce[p] \in Nonces
    BY <2>2 DEF Commitment
  <2>4. key[p].group \in [P -> Attempts]
    BY DEF DkgTypeOK, Keys
  <2>5. ShareOf(p, pkg) \in Share
    BY <2>1, <2>3, <2>4 DEF ShareOf, Share
  <2> QED
    BY <1>4, <2>5 DEF Sign
<1>5. ASSUME NEW m \in Messages, BuildPackage(m) PROVE FrostTypeOK'
  <2>1. PackageOf(commitments, m) \in Package
    BY DEF PackageOf, Package
  <2> QED
    BY <1>5, <2>1 DEF BuildPackage
<1>6. ASSUME NEW s \in issued, AddShare(s) PROVE FrostTypeOK'
  <2>1. /\ shares' = Insert(shares, s)
        /\ UNCHANGED <<nonce, pub, commitments, packages, issued, results>>
    BY <1>6 DEF AddShare
  <2>2. shares' \subseteq Share
    BY <2>1 DEF Insert
  <2>3. OnePerParticipant(shares')
    BY <2>1, InsertOnce
  <2>4. OnePerParticipant(commitments')
    BY <2>1
  <2> QED
    BY <2>1, <2>2, <2>3, <2>4
<1>7. ASSUME NEW pkg \in Built, Aggregate(pkg) PROVE FrostTypeOK'
  <2>1. pkg \in Package
    BY DEF Built
  <2>2. ResultOf(pkg).msg \in Messages /\ ResultOf(pkg).group \in [P -> Attempts]
    BY <2>1 DEF ResultOf, Package, Keys
  <2> QED
    BY <1>7, <2>2 DEF Aggregate
<1>8. CASE Reset
  BY <1>8 DEF Reset, OnePerParticipant
<1> QED
  BY <1>1, <1>2, <1>3, <1>4, <1>5, <1>6, <1>7, <1>8 DEF FrostNext

LEMMA InitType == Init => TypeOK
<1> SUFFICES ASSUME Init PROVE TypeOK
  OBVIOUS
<1>1. DkgTypeOK
  BY BoundAssumption DEF Init, DkgInit, DkgTypeOK, Attempts, NoKey, Keys
<1>2. FrostTypeOK
  BY BoundAssumption, FrostBoundAssumption
     DEF Init, FrostInit, FrostTypeOK, OnePerParticipant, Attempts, NoKey, Keys
<1> QED
  BY <1>1, <1>2 DEF TypeOK

LEMMA StepType == TypeOK /\ [Next]_frostAndDkgVars => TypeOK'
<1> SUFFICES ASSUME TypeOK, [Next]_frostAndDkgVars PROVE TypeOK'
  OBVIOUS
<1> USE DEF TypeOK
<1>1. UNCHANGED dkgVars => DkgTypeOK'
  BY DEF dkgVars, DkgTypeOK
<1>2. UNCHANGED frostVars => FrostTypeOK'
  BY DEF frostVars, FrostTypeOK
<1>3. CASE DkgNext /\ UNCHANGED frostVars
  BY <1>2, <1>3, DkgStepType
<1>4. CASE FrostNext /\ UNCHANGED dkgVars
  BY <1>1, <1>4, FrostStepType
<1> QED
  BY <1>1, <1>2, <1>3, <1>4 DEF Next, frostAndDkgVars

\* Every device's polynomials, every slot of the coordinator and every entry
\* of the aggregator's maps stay what the code says they are.
THEOREM TypeCorrect == Spec => []TypeOK
  BY InitType, StepType, PTL DEF Spec

-----------------------------------------------------------------------------
\* What keys agree by: nothing in the rounds is newer than the device that
\* drew it, and a key names polynomials that were drawn, or is the dealer's.
Drawn ==
  /\ \A p \in P : slots1[p] <= attempt[p] /\ mine[p] <= attempt[p]
  /\ \A p \in P : key[p].held =>
       \/ \A q \in P : key[p].group[q] \in 1..attempt[q]
       \/ \A q \in P : key[p].group[q] = 0 /\ attempt[q] = 0

LEMMA DrawnAgree == TypeOK /\ Drawn => KeysAgreeUnlessRestarted
<1> SUFFICES ASSUME TypeOK, Drawn, NEW p \in P, NEW q \in P, key[p].held, key[q].held,
                    NEW r \in P, attempt[r] <= 1
             PROVE  key[p].group[r] = key[q].group[r]
  BY BoundAssumption DEF KeysAgreeUnlessRestarted, TypeOK, DkgTypeOK, Attempts
<1>1. \/ key[p].group[r] \in 1..attempt[r]
      \/ key[p].group[r] = 0 /\ attempt[r] = 0
  BY DEF Drawn
<1>2. \/ key[q].group[r] \in 1..attempt[r]
      \/ key[q].group[r] = 0 /\ attempt[r] = 0
  BY DEF Drawn
<1>3. attempt[r] \in Nat
  BY BoundAssumption DEF TypeOK, DkgTypeOK, Attempts
<1> QED
  BY <1>1, <1>2, <1>3

LEMMA DrawnStep ==
  ASSUME DkgTypeOK, Drawn, DkgNext
  PROVE  Drawn'
<1> USE BoundAssumption DEF DkgTypeOK, Attempts
<1>1. CASE GenerateSetup
  BY <1>1 DEF GenerateSetup, KeyFor, DealerGroup, Drawn
<1>2. ASSUME NEW p \in P, Round1(p) PROVE Drawn'
  <2>1. /\ attempt' = [attempt EXCEPT ![p] = attempt[p] + 1]
        /\ UNCHANGED <<mine, sent, slots1, slots2, key, late>>
    BY <1>2 DEF Round1, Fresh
  <2>2. \A q \in P : attempt[q] <= attempt'[q] /\ attempt'[q] \in Nat /\ attempt[q] \in Nat
    BY <2>1
  <2>3. \A q \in P : slots1'[q] <= attempt'[q] /\ mine'[q] <= attempt'[q]
    BY <2>1, <2>2 DEF Drawn
  <2>4. ASSUME NEW q \in P, key[q].held PROVE \A r \in P : key[q].group[r] \in 1..attempt[r]
    <3>1. ASSUME \A r \in P : key[q].group[r] = 0 PROVE FALSE
      <4>1. key[q] \in Keys
        OBVIOUS
      <4>2. key[q].group = DealerGroup
        BY <3>1, <4>1 DEF Keys, DealerGroup
      <4>3. key[q] = KeyFor(DealerGroup)
        BY <2>4, <4>1, <4>2 DEF Keys, KeyFor
      <4> QED
        BY <1>2, <4>3 DEF Round1
    <3> QED
      BY <2>4, <3>1 DEF Drawn
  <2>5. \A q \in P : key'[q].held => \A r \in P : key'[q].group[r] \in 1..attempt'[r]
    BY <2>1, <2>2, <2>4
  <2> QED
    BY <2>3, <2>5 DEF Drawn
<1>3. ASSUME NEW p \in P, Round2(p) PROVE Drawn'
  BY <1>3 DEF Round2, PackagesOf, Drawn
<1>4. ASSUME NEW p \in P, Finish(p) PROVE Drawn'
  <2>1. /\ key' = [key EXCEPT ![p] = KeyFor(GroupOf(p))]
        /\ UNCHANGED <<attempt, mine, sent, slots1, slots2, late>>
        /\ mine[p] > 0
        /\ \A q \in P : slots1[q] > 0
    BY <1>4 DEF Finish, AllReceived
  <2>2. \A q \in P : GroupOf(p)[q] \in 1..attempt[q]
    BY <2>1 DEF Drawn, GroupOf
  <2>3. \A q \in P : key'[p].group[q] \in 1..attempt'[q]
    BY <2>1, <2>2 DEF KeyFor
  <2>4. \A q \in P \ {p} : key'[q] = key[q]
    BY <2>1
  <2> QED
    BY <2>1, <2>3, <2>4 DEF Drawn
<1>5. ASSUME NEW p \in P, NEW a \in 1..MaxAttempts, Deliver1(p, a) PROVE Drawn'
  BY <1>5 DEF Deliver1, Drawn
<1>6. ASSUME NEW p \in P, NEW a \in 1..MaxAttempts, Deliver2(p, a) PROVE Drawn'
  BY <1>6 DEF Deliver2, Drawn
<1> QED
  BY <1>1, <1>2, <1>3, <1>4, <1>5, <1>6 DEF DkgNext

\* Two devices that have finished hold the same group key, but for what a
\* device that ran round one again put into it.
THEOREM KeysAgree == Spec => []KeysAgreeUnlessRestarted
<1>1. Init => Drawn
  BY DEF Init, DkgInit, Drawn, NoKey
<1>2. TypeOK /\ Drawn /\ [Next]_frostAndDkgVars => Drawn'
  <2> SUFFICES ASSUME TypeOK, Drawn, [Next]_frostAndDkgVars PROVE Drawn'
    OBVIOUS
  <2>1. CASE DkgNext
    BY <2>1, DrawnStep DEF TypeOK
  <2>2. CASE UNCHANGED dkgVars
    BY <2>2 DEF dkgVars, Drawn
  <2> QED
    BY <2>1, <2>2 DEF Next, frostAndDkgVars
<1>3. TypeOK /\ Drawn => KeysAgreeUnlessRestarted
  BY DrawnAgree
<1> QED
  BY <1>1, <1>2, <1>3, TypeCorrect, PTL DEF Spec

-----------------------------------------------------------------------------
\* A map with one entry per participant has as many entries as participants.
LEMMA OneEntryEach ==
  ASSUME NEW map, OnePerParticipant(map), IdsOf(map) \subseteq P
  PROVE  Cardinality(IdsOf(map)) = Cardinality(map)
<1> DEFINE f == [i \in IdsOf(map) |-> CHOOSE e \in map : e.id = i]
<1>1. \A i \in IdsOf(map) : f[i] \in map /\ f[i].id = i
  BY DEF IdsOf
<1>2. f \in [IdsOf(map) -> map]
  BY <1>1
<1>3. IsInjective(f)
  BY <1>1 DEF IsInjective
<1>4. \A e \in map : f[e.id] = e
  <2> SUFFICES ASSUME NEW e \in map PROVE f[e.id] = e
    OBVIOUS
  <2>1. e.id \in IdsOf(map)
    BY DEF IdsOf
  <2> QED
    BY <1>1, <2>1 DEF OnePerParticipant
<1> HIDE DEF f
<1>5. f \in Surjection(IdsOf(map), map)
  <2>1. \A e \in map : e.id \in IdsOf(map)
    BY DEF IdsOf
  <2>2. \A e \in map : \E i \in IdsOf(map) : f[i] = e
    BY <1>4, <2>1
  <2> QED
    BY <1>2, <2>2 DEF Surjection
<1>6. f \in Bijection(IdsOf(map), map)
  BY <1>2, <1>3, <1>5 DEF Bijection, Injection
<1>7. ExistsBijection(IdsOf(map), map)
  BY <1>6 DEF ExistsBijection
<1>8. IsFiniteSet(IdsOf(map))
  BY ThresholdAssumption, FS_Subset
<1> QED
  BY <1>7, <1>8, FS_Bijection

\* The aggregator's shares are shares some device returned.
SharesIssued == shares \subseteq issued

SignedInv == SharesIssued /\ QuorumSigned

\* More shares never make an earlier signature mean less.
LEMMA SignedMonotone ==
  ASSUME QuorumSigned, results' = results, issued \subseteq issued'
  PROVE  QuorumSigned'
  BY DEF QuorumSigned

LEMMA AggregateSigned ==
  ASSUME TypeOK, SignedInv, NEW pkg, Aggregate(pkg)
  PROVE  QuorumSigned'
<1>1. /\ results' = results \union {ResultOf(pkg)}
      /\ UNCHANGED <<nonce, pub, commitments, shares, packages, issued>>
      /\ Cardinality(shares) >= T
      /\ \A s \in shares : s.pkg = pkg /\ s.group = pub.group
  BY DEF Aggregate, AggregateAccepts
<1> DEFINE S == IdsOf(shares)
<1>2. S \subseteq P
  BY DEF IdsOf, TypeOK, FrostTypeOK, Share
<1>3. Cardinality(S) >= T
  BY <1>1, <1>2, OneEntryEach DEF TypeOK, FrostTypeOK
<1>4. \A p \in S : \E s \in issued : /\ s.id = p
                                     /\ s.pkg.msg = pkg.msg
                                     /\ s.group = pub.group
  BY <1>1 DEF SignedInv, SharesIssued, IdsOf
<1> HIDE DEF S
<1>5. \E Q \in SUBSET P :
        /\ Cardinality(Q) >= T
        /\ \A p \in Q : \E s \in issued : /\ s.id = p
                                           /\ s.pkg.msg = ResultOf(pkg).msg
                                           /\ s.group = ResultOf(pkg).group
  BY <1>2, <1>3, <1>4 DEF ResultOf
<1> QED
  BY <1>1, <1>5 DEF SignedInv, QuorumSigned

LEMMA SignedStep ==
  ASSUME TypeOK, SignedInv, [Next]_frostAndDkgVars
  PROVE  SignedInv'
<1> USE DEF SignedInv, SharesIssued
<1>1. CASE UNCHANGED frostVars
  BY <1>1 DEF frostVars, QuorumSigned
<1>2. ASSUME NEW p \in P, NewAggregator(p) PROVE SignedInv'
  BY <1>2, SignedMonotone DEF NewAggregator
<1>3. ASSUME NEW p \in P, Commit(p) PROVE SignedInv'
  BY <1>3, SignedMonotone DEF Commit
<1>4. ASSUME NEW p \in P, NEW m \in Nonces, AddCommitment(p, m) PROVE SignedInv'
  BY <1>4, SignedMonotone DEF AddCommitment
<1>5. ASSUME NEW p \in P, NEW pkg \in Built, Sign(p, pkg) PROVE SignedInv'
  BY <1>5, SignedMonotone DEF Sign
<1>6. ASSUME NEW m \in Messages, BuildPackage(m) PROVE SignedInv'
  BY <1>6, SignedMonotone DEF BuildPackage
<1>7. ASSUME NEW s \in issued, AddShare(s) PROVE SignedInv'
  BY <1>7, SignedMonotone DEF AddShare, Insert
<1>8. ASSUME NEW pkg \in Built, Aggregate(pkg) PROVE SignedInv'
  BY <1>8, AggregateSigned DEF Aggregate
<1>9. CASE Reset
  BY <1>9, SignedMonotone DEF Reset
<1> QED
  BY <1>1, <1>2, <1>3, <1>4, <1>5, <1>6, <1>7, <1>8, <1>9
     DEF Next, FrostNext, frostAndDkgVars

\* No signature comes out of the aggregator unless T devices that hold the
\* key it names signed the message it names.
THEOREM Quorate == Spec => []QuorumSigned
<1>1. Init => SignedInv
  BY DEF Init, FrostInit, SignedInv, SharesIssued, QuorumSigned
<1>2. TypeOK /\ SignedInv /\ [Next]_frostAndDkgVars => SignedInv'
  BY SignedStep
<1>3. SignedInv => QuorumSigned
  BY DEF SignedInv
<1> QED
  BY <1>1, <1>2, <1>3, TypeCorrect, PTL DEF Spec
=============================================================================
