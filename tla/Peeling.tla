------------------------------ MODULE Peeling ------------------------------
(***************************************************************************)
(* What the fountain decoder of afterimage-core promises, without its      *)
(* worklists: from the droplets received it recovers exactly the source    *)
(* blocks that peeling can reach, and it answers only when no droplet has  *)
(* a single unknown block left.                                            *)
(***************************************************************************)
EXTENDS Integers

CONSTANTS
  Blocks,       \* the source blocks of the file
  Seeds,        \* the droplet seeds
  Neighbours    \* RobustSoliton::neighbours: the blocks XORed into each droplet

VARIABLES
  received,     \* the seeds of the droplets received so far
  recovered,    \* the blocks known
  busy          \* a droplet is being worked in

peelVars == <<received, recovered, busy>>

-----------------------------------------------------------------------------
\* Block b is the only unknown block of some droplet of R.
Peelable(b, R, D) == \E s \in R : Neighbours[s] \ D = {b}

\* No droplet of R has exactly one block outside D.
Stuck(R, D) == \A b \in Blocks : ~Peelable(b, R, D)

\* The least set of blocks on which peeling the droplets R gets stuck.
PeelClosure(R) ==
  { b \in Blocks : \A D \in SUBSET Blocks : Stuck(R, D) => b \in D }

-----------------------------------------------------------------------------
PeelInit == received = {} /\ recovered = {} /\ busy = FALSE

Receive(s) ==
  /\ ~busy
  /\ s \notin received
  /\ received' = received \cup {s}
  /\ \/ \E b \in Blocks :
          /\ Neighbours[s] \ recovered = {b}
          /\ recovered' = recovered \cup {b}
          /\ busy' = TRUE
     \/ /\ \A b \in Blocks : Neighbours[s] \ recovered # {b}
        /\ UNCHANGED <<recovered, busy>>

Recover(b) ==
  /\ busy
  /\ b \notin recovered
  /\ Peelable(b, received, recovered)
  /\ recovered' = recovered \cup {b}
  /\ UNCHANGED <<received, busy>>

Settle ==
  /\ busy
  /\ Stuck(received, recovered)
  /\ busy' = FALSE
  /\ UNCHANGED <<received, recovered>>

PeelNext ==
  \/ \E s \in Seeds : Receive(s)
  \/ \E b \in Blocks : Recover(b)
  \/ Settle

PeelSpec == PeelInit /\ [][PeelNext]_peelVars
=============================================================================
