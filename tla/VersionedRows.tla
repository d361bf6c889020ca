---------------------------- MODULE VersionedRows --------------------------
(***************************************************************************)
(* How new versions of a row are written: AIAnalysis (StoreAIResultsStage) *)
(* and MeetingFile (create_upload) take the largest version of the meeting *)
(* plus one, clear is_current on the rows there are, and create the new    *)
(* row as current, in one transaction and without a lock.                  *)
(*                                                                         *)
(* Each statement of a READ COMMITTED transaction sees what has been       *)
(* committed when it starts, so the three statements are three steps and   *)
(* what they write appears with the last.  Only the unique constraint on   *)
(* (meeting, version) stands between two writers: the second to create a   *)
(* version is refused and its transaction rolled back.                     *)
(***************************************************************************)
EXTENDS Naturals

CONSTANT Writers    \* transactions; each writes at most one row

VARIABLES
    pc,         \* per writer: where its transaction stands
    next,       \* per writer: next_version
    flipped,    \* per writer: the rows whose is_current it clears
    version,    \* per writer: the version of the row it committed, 0 for none
    current     \* the writers whose row is current

rowVars == <<pc, next, flipped, version, current>>

Rows     == {w \in Writers : version[w] > 0}
Versions == {version[w] : w \in Rows}

RowsTypeOK ==
    /\ pc \in [Writers -> {"idle", "update", "create", "done", "refused"}]
    /\ next \in [Writers -> Nat]
    /\ flipped \in [Writers -> SUBSET Writers]
    /\ version \in [Writers -> Nat]
    /\ current \subseteq Writers

RowsInit ==
    /\ pc = [w \in Writers |-> "idle"]
    /\ next = [w \in Writers |-> 0]
    /\ flipped = [w \in Writers |-> {}]
    /\ version = [w \in Writers |-> 0]
    /\ current = {}

\* aggregate(Max("version")) or 0, plus one.
ReadMax(w) ==
    /\ pc[w] = "idle"
    /\ \E m \in Versions \cup {0} :
        /\ \A v \in Versions : v <= m
        /\ next' = [next EXCEPT ![w] = m + 1]
    /\ pc' = [pc EXCEPT ![w] = "update"]
    /\ UNCHANGED <<flipped, version, current>>

\* update(is_current=False) on the rows the statement can see.
ClearCurrent(w) ==
    /\ pc[w] = "update"
    /\ flipped' = [flipped EXCEPT ![w] = Rows]
    /\ pc' = [pc EXCEPT ![w] = "create"]
    /\ UNCHANGED <<next, version, current>>

\* Mutant: no unique constraint.
CreateUnconstrained(w) ==
    /\ pc[w] = "create"
    /\ version' = [version EXCEPT ![w] = next[w]]
    /\ current' = (current \ flipped[w]) \cup {w}
    /\ pc' = [pc EXCEPT ![w] = "done"]
    /\ UNCHANGED <<next, flipped>>

\* create(version=next_version, is_current=True) and the commit.
Create(w) ==
    /\ pc[w] = "create"
    /\ next[w] \notin Versions
    /\ version' = [version EXCEPT ![w] = next[w]]
    /\ current' = (current \ flipped[w]) \cup {w}
    /\ pc' = [pc EXCEPT ![w] = "done"]
    /\ UNCHANGED <<next, flipped>>

\* IntegrityError: the transaction is rolled back and the stage fails.
Refused(w) ==
    /\ pc[w] = "create"
    /\ next[w] \in Versions
    /\ pc' = [pc EXCEPT ![w] = "refused"]
    /\ UNCHANGED <<next, flipped, version, current>>

\* Anything else that rolls the transaction back.
Abort(w) ==
    /\ pc[w] \in {"update", "create"}
    /\ pc' = [pc EXCEPT ![w] = "refused"]
    /\ UNCHANGED <<next, flipped, version, current>>

Step(w) == ReadMax(w) \/ ClearCurrent(w) \/ Create(w) \/ Refused(w) \/ Abort(w)

RowsNext == \E w \in Writers : Step(w)

RowsSpec == RowsInit /\ [][RowsNext]_rowVars

-----------------------------------------------------------------------------

\* At most one row of a meeting is current, and it is the newest, although no
\* writer holds a lock from its first read to its commit.
CurrentIsNewest ==
    \A w \in current, v \in Rows :
        /\ version[v] <= version[w]
        /\ v \in current => v = w

\* The table is a chain of versions: numbers without gaps or duplicates, the
\* last one current.
Chain == INSTANCE VersionChain
    WITH versions <- Versions, current <- {version[w] : w \in current}
ImplementsChain == Chain!Spec
=============================================================================
