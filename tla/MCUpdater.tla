----------------------------- MODULE MCUpdater -----------------------------
EXTENDS Updater, TLC

CONSTANTS v1, rc, server, client

Num(n) == [num |-> n, pre |-> FALSE]

\* 1.0.0 and 1.1.0-rc.1.
MCTag ==
    [v \in Versions |->
        CASE v = v1 -> <<Num(1), Num(0), Num(0)>>
          [] v = rc -> <<Num(1), Num(1), [num |-> 0, pre |-> TRUE], Num(1)>>]

Symm == Permutations(Updaters)
=============================================================================
