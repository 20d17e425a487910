----------------------------- MODULE MCContract -----------------------------
(* Constants of the model-checking instances of Contract.                  *)
EXTENDS ContractRefinement, TLC

CONSTANTS a1, a2, a3, a4, k1, k2

Params(ids, next_id, threshold) ==
    [participants |-> ids, next_id |-> next_id, threshold |-> threshold]

\* Two participants.
PairParams    == Params(a1 :> 0 @@ a2 :> 1, 2, 2)
NoDomain      == <<>>
OneDomain     == <<0>>
TwoDomains    == <<0, 1>>
NoDomains     == {}
SameParams    == {PairParams}
AddTwo        == {<<1, 2>>}
AddOne        == {<<1>>}
AddZero       == {<<0>>}

\* a3 joins the pair, leaves again, and its id is free for a4; or a4 takes the
\* place of a2, with an id of its own.
a3Joins  == Params(a1 :> 0 @@ a2 :> 1 @@ a3 :> 2, 3, 2)
a4Joins  == Params(a1 :> 0 @@ a2 :> 1 @@ a4 :> 2, 3, 2)
a4ForA2  == Params(a1 :> 0 @@ a3 :> 2 @@ a4 :> 3, 4, 2)
JoinOrLeave   == {a3Joins, PairParams}
JoinLeaveSwap == JoinOrLeave \cup {a4ForA2}

\* Three participants, one of them may lose its attestation.  The last four
\* proposals must be refused: too few stay, a threshold below 60%, a newcomer
\* with the id of an account that leaves, a skipped id.
TrioParams    == a3Joins
TrioProposals ==
    {PairParams, a4Joins,
     Params(a1 :> 0 @@ a4 :> 3, 4, 2),
     Params(a1 :> 0 @@ a2 :> 1 @@ a3 :> 2 @@ a4 :> 3, 4, 2),
     Params(a1 :> 0 @@ a3 :> 2 @@ a4 :> 1, 3, 2),
     Params(a1 :> 0 @@ a2 :> 1 @@ a4 :> 4, 5, 2)}

\* Accounts attest for themselves; a4 may also do so under the key of a3.
OwnKeys       == {<<a, a>> : a \in Accounts}
Newcomers     == {<<a3, a3>>, <<a4, a4>>}
KeyOfOther    == Newcomers \cup {<<a4, a3>>}

KeySymmetry == Permutations({k1, k2})
=============================================================================
