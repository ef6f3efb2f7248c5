------------------------------ MODULE MCBridge ------------------------------
EXTENDS Bridge, TLC

\* Every connection comes from the one address.
MCIpOf == [c \in Conns |-> CHOOSE i \in Ips : TRUE]
Symmetry == Permutations(Conns)
=============================================================================
