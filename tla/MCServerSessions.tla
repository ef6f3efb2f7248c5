------------------------- MODULE MCServerSessions -------------------------
(* Instances of ServerSessions for TLC.  Connections, uuids, fingerprints are *)
(* interchangeable: nothing in the module tells one from another.             *)
EXTENDS ServerSessions, TLC

Symmetry ==
    Permutations(Conns) \cup Permutations(Fingerprints)
        \cup Permutations(UserIds) \cup Permutations(SessionIds)
=============================================================================
