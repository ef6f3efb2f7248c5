----------------------------- MODULE MCRecords -----------------------------
EXTENDS Records, TLC

\* Nothing tells two keys, tools, clients or codes apart.
Alike == Permutations(Ids) \cup Permutations(Tools) \cup Permutations(Clients) \cup Permutations(Codes)
=============================================================================
