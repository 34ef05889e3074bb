--------------------------- MODULE MCExampleHosts ---------------------------
(* Instances of ExampleHosts for TLC. *)
EXTENDS ExampleHosts

CONSTANT o1

\* A bundle whose one-time pre-keys ran out, and one with every pre-key.
BundlesOfBoth == {[opk |-> None, kem |-> FALSE], [opk |-> o1, kem |-> TRUE]}
=============================================================================
