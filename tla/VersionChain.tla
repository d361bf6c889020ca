---------------------------- MODULE VersionChain ---------------------------
(***************************************************************************)
(* What a versioned table promises its readers: the versions of a meeting  *)
(* are 1, 2, 3 and so on, each published once, and the current one is the  *)
(* newest.  VersionedRows implements this specification.                   *)
(***************************************************************************)
EXTENDS Naturals

VARIABLES
    versions,   \* the version numbers published
    current     \* those of the rows marked is_current

vars == <<versions, current>>

Init == versions = {} /\ current = {}

Publish ==
    \E v \in versions' :
        /\ v \notin versions
        /\ versions' = versions \cup {v}
        /\ versions' = 1..v
        /\ current' = {v}

Spec == Init /\ [][Publish]_vars
=============================================================================
