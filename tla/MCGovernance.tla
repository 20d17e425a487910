---------------------------- MODULE MCGovernance ----------------------------
\* Two participants, and a third account that joins and leaves.
EXTENDS Governance, TLC

CONSTANTS a1, a2, a3, k1

Params(ids, next_id, threshold) ==
    [participants |-> ids, next_id |-> next_id, threshold |-> threshold]

Pair      == Params(a1 :> 0 @@ a2 :> 1, 2, 2)
Trio      == Params(a1 :> 0 @@ a2 :> 1 @@ a3 :> 2, 3, 2)
OtherPair == Params(a1 :> 0 @@ a3 :> 2, 3, 2)

PairAndTrio == {Pair, OtherPair, Trio}
OneKey      == {<<[domain_id |-> 0, key |-> k1]>>}
=============================================================================
