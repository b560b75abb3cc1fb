------------------------------- MODULE Frost -------------------------------
(***************************************************************************)
(* Threshold signing (crate afterimage-frost and its WASM objects) with    *)
(* the keys that Dkg sets up.  A device commits in round one and signs a   *)
(* package in round two; the aggregator pushes what it is handed on two    *)
(* vectors and collects them in maps by participant number, so that all    *)
(* that is kept here is the last entry of each participant.  Packages and shares    *)
(* travel by hand: any of them may arrive late, and a commitment may be    *)
(* handed in again.                                                        *)
(*                                                                         *)
(* Nonces are the number of the round1_commit call that drew them.         *)
(***************************************************************************)
EXTENDS Dkg, Sequences

CONSTANTS Messages,     \* the transaction messages
          MaxNonces,    \* bound: round1_commit calls of one device; one device
                        \* makes more than one
          MaxPackages   \* bound: signing packages built

ASSUME FrostBoundAssumption == MaxNonces \in Nat /\ MaxPackages \in Nat

VARIABLES nonce,        \* nonce[p]: the nonces p holds, 0 before round one
          pub,          \* the public key package of the aggregator, NoKey before it is made
          commitments,  \* the last commitment of each participant handed in
          shares,       \* the last share of each participant handed in
          packages,     \* the signing packages built, in order
          issued,       \* every share a device returned
          results       \* every signature aggregated

frostVars == <<nonce, pub, commitments, shares, packages, issued, results>>
frostAndDkgVars == <<dkgVars, frostVars>>

Nonces == 1..MaxNonces
Commitment == [id : P, nonce : Nonces]
\* A signing package: the commitment map, as a set of at most one per
\* participant, and the message.
Package == [comm : SUBSET Commitment, msg : Messages]
\* A signature share stands for what it was computed from.
Share == [id : P, nonce : Nonces, pkg : Package, group : [P -> Attempts]]

\* The maps have one entry per participant.
OnePerParticipant(map) == \A e, f \in map : e.id = f.id => e = f

FrostTypeOK == /\ nonce \in [P -> 0..MaxNonces]
               /\ pub \in Keys
               /\ commitments \subseteq Commitment
               /\ shares \subseteq Share
               /\ packages \in Seq(Package)
               /\ OnePerParticipant(commitments) /\ OnePerParticipant(shares)
               /\ issued \subseteq Share
               /\ \A r \in results : r.msg \in Messages /\ r.group \in [P -> Attempts]

FrostInit == /\ nonce = [p \in P |-> 0]
             /\ pub = NoKey
             /\ commitments = {}
             /\ shares = {}
             /\ packages = <<>>
             /\ issued = {}
             /\ results = {}

-----------------------------------------------------------------------------
\* An entry pushed on a vector that is later collected in a BTreeMap: it
\* replaces what the participant had handed in before.
Insert(map, entry) == {e \in map : e.id /= entry.id} \union {entry}
IdsOf(map) == {e.id : e \in map}

\* An aggregator is made from the public package of some finished device.
NewAggregator(p) ==
  /\ key[p].held
  /\ ~pub.held
  /\ pub' = key[p]
  /\ UNCHANGED <<nonce, commitments, shares, packages, issued, results>>

\* round1_commit: nonces the device never drew before.
FreshNonces(p) == nonce[p] + 1

\* round1 of the device: the caller keeps the new nonces in place of the old.
Commit(p) ==
  /\ key[p].held
  /\ nonce[p] < MaxNonces
  /\ nonce[p] > 0 => \A q \in P \ {p} : nonce[q] <= 1
  /\ nonce' = [nonce EXCEPT ![p] = FreshNonces(p)]
  /\ UNCHANGED <<pub, commitments, shares, packages, issued, results>>

\* add_commitment: nothing checks the number, the round or a repetition.
AddCommitment(p, n) ==
  /\ pub.held
  /\ n \in 1..nonce[p]
  /\ commitments' = Insert(commitments, [id |-> p, nonce |-> n])
  /\ UNCHANGED <<nonce, pub, shares, packages, issued, results>>

\* build_signing_package: whatever has been collected, enough or not.
PackageOf(map, m) == [comm |-> map, msg |-> m]

BuildPackage(m) ==
  /\ pub.held
  /\ Len(packages) < MaxPackages
  /\ packages' = Append(packages, PackageOf(commitments, m))
  /\ UNCHANGED <<nonce, pub, commitments, shares, issued, results>>

\* round2::sign of the FROST library: enough commitments, the signer's own
\* among them and equal to the one of the nonces it was given.
SignAccepts(p, pkg) == /\ Cardinality(pkg.comm) >= T
                       /\ [id |-> p, nonce |-> nonce[p]] \in pkg.comm

\* round2_sign: the nonces are read, not consumed.
ShareOf(p, pkg) == [id |-> p, nonce |-> nonce[p], pkg |-> pkg, group |-> key[p].group]

Sign(p, pkg) ==
  /\ key[p].held
  /\ SignAccepts(p, pkg)
  /\ issued' = issued \union {ShareOf(p, pkg)}
  /\ UNCHANGED <<nonce, pub, commitments, shares, packages, results>>

\* add_share: nothing says which package the share was made for.
AddShare(s) ==
  /\ pub.held
  /\ shares' = Insert(shares, s)
  /\ UNCHANGED <<nonce, pub, commitments, packages, issued, results>>

\* aggregate of the FROST library: as many shares as commitments, by the same
\* participants, each valid for its commitment, the package and the key.
AggregateAccepts(pkg, map) ==
  /\ Cardinality(map) >= T
  /\ IdsOf(map) = IdsOf(pkg.comm)
  /\ \A s \in map : /\ s.pkg = pkg
                    /\ s.group = pub.group
                    /\ [id |-> s.id, nonce |-> s.nonce] \in pkg.comm

\* Mutant: the result names the message of the package built last.
XResultOf(pkg) == [msg |-> packages[Len(packages)].msg, group |-> pub.group]

\* FrostResult: the message is read from the package that was aggregated.
ResultOf(pkg) == [msg |-> pkg.msg, group |-> pub.group]

Aggregate(pkg) ==
  /\ pub.held
  /\ AggregateAccepts(pkg, shares)
  /\ results' = results \union {ResultOf(pkg)}
  /\ UNCHANGED <<nonce, pub, commitments, shares, packages, issued>>

\* reset: both vectors are emptied, the key setup stays.
Reset ==
  /\ pub.held
  /\ commitments' = {}
  /\ shares' = {}
  /\ UNCHANGED <<nonce, pub, packages, issued, results>>

\* Bound: the first signature is asked for when every device has a key and
\* every output of the ceremony has reached its slot; signing reads only the
\* keys.
Ready == /\ \A p \in P : key[p].held
         /\ mine = attempt /\ slots1 = attempt /\ slots2 = attempt

Built == {packages[i] : i \in DOMAIN packages}
FrostNext == \/ \E p \in P : \/ NewAggregator(p)
                             \/ Commit(p)
                             \/ \E n \in Nonces : AddCommitment(p, n)
                             \/ \E pkg \in Built : Sign(p, pkg)
             \/ \E m \in Messages : BuildPackage(m)
             \/ \E s \in issued : AddShare(s)
             \/ \E pkg \in Built : Aggregate(pkg)
             \/ Reset

Init == DkgInit /\ FrostInit
Next == \/ nonce = [p \in P |-> 0] /\ DkgNext /\ UNCHANGED frostVars
        \/ Ready /\ FrostNext /\ UNCHANGED dkgVars
Spec == Init /\ [][Next]_frostAndDkgVars /\ DkgFairness

-----------------------------------------------------------------------------
TypeOK == DkgTypeOK /\ FrostTypeOK

\* A signature the aggregator returns means what it says: at least T devices
\* holding the key it names signed the message it names, whatever was handed
\* in late, twice or for another package.
QuorumSigned ==
  \A r \in results : \E S \in SUBSET P :
    /\ Cardinality(S) >= T
    /\ \A p \in S : \E s \in issued : /\ s.id = p
                                       /\ s.pkg.msg = r.msg
                                       /\ s.group = r.group
=============================================================================
