------------------------------ MODULE AssetIds ------------------------------
(***************************************************************************)
(* What the ids of assets promise: "The ID shall be globally unique across *)
(* all participants and across time" (crates/node/src/primitives.rs).  The *)
(* node does not remember the ids it reserved; `reserved` does, next to    *)
(* the actions of Assets, which it leaves as they are.                     *)
(***************************************************************************)
EXTENDS Assets

VARIABLE reserved       \* the ranges of ids that were reserved, in order

reservedVars == <<assetVars, reserved>>

ReservedInit == AssetsInit /\ reserved = <<>>

ReservedNext ==
    /\ AssetsNext
    /\ reserved' = IF issued' \subseteq issued THEN reserved ELSE Append(reserved, issued' \ issued)

ReservedSpec == ReservedInit /\ [][ReservedNext]_reservedVars

\* No id is reserved twice, given that restarts of the binary take a second and
\* that a node picks its ids with pick_new_after or generate: the comment at
\* UniqueId assumes nothing else.  A job that is rerun within the second begins
\* a new store, which knows only the ids in the database, and ids of assets
\* that were under way, used or discarded are reserved again.
UniqueIds == \A i, j \in DOMAIN reserved : i # j => reserved[i] \cap reserved[j] = {}
=============================================================================
