----------------------------- MODULE MCEvacuate -----------------------------
(***************************************************************************)
(* Instances of Evacuate for TLC.                                          *)
(***************************************************************************)
EXTENDS Evacuate, TLC

CONSTANTS d1, d2, d3, h1, h2, h3

TwoHosts == {h1, h2}

TwoDestinations == <<h1, h2>>

\* Hosts of different sizes: with the loads of other domains their capacities
\* range from below zero to more than one.
TwoCpus == (h1 :> 2) @@ (h2 :> 3)

ThreeHosts == {h1, h2, h3}

ThreeDestinations == <<h1, h2, h3>>

ThreeCpus == (h1 :> 1) @@ (h2 :> 2) @@ (h3 :> 3)

ThreeDomains == {d1, d2, d3}

\* The tasks of an evacuation differ only in the domain they move.
DomainSymmetry == Permutations(Domains)

=============================================================================
