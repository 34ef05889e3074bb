------------------------------ MODULE MCSession ------------------------------
(* Instances of Session for TLC. *)
EXTENDS Session

CONSTANTS o1, o2

\* Bundles whose one-time pre-keys ran out, and one that has one.
BundlesMixed == {[opk |-> None, kem |-> FALSE], [opk |-> o1, kem |-> TRUE]}

\* The classic bundle of the README's example.
BundlesClassic == {[opk |-> None, kem |-> FALSE]}
=============================================================================
