--------------------------- MODULE VersionsProofs ---------------------------
(***************************************************************************)
(* Proofs about versions that concurrent writers add: VersionedRows (the   *)
(* version of a minutes or an analysis) and KnowledgeIndex (the chains and *)
(* the numbered versions of the knowledge index), for any writers and any  *)
(* number of overlapping calls.                                            *)
(*                                                                         *)
(* VersionedRows.  The versions below the one a writer has chosen are      *)
(* taken (Grounded), so if the constraint lets it create that version, it  *)
(* is the next of the chain; then every row there is has a smaller version *)
(* and was there when the writer cleared is_current (Covered), because a   *)
(* row committed after that would have been given this version or a later  *)
(* one.                                                                    *)
(*                                                                         *)
(* KnowledgeIndex.  IndexInv carries the audit and the counts.  A call     *)
(* works from local variables that may be stale by the time it writes, so  *)
(* what matters is how stale they can be: its plan names versions the      *)
(* chains have (they only grow), and its number is at most one above the   *)
(* newest.  The two uniqueness constraints turn that into exactness: a     *)
(* write that conflicts with nothing replaces the last version of a chain  *)
(* under a new number.  The count is right, or somebody is about to        *)
(* refresh it.                                                             *)
(*                                                                         *)
(* TravelInv carries time travel: while no two calls have overlapped,      *)
(* everything in the index is older than the call in progress and its plan *)
(* is still what differs from what it saw.                                 *)
(***************************************************************************)
EXTENDS VersionedRows, KnowledgeIndex, SequenceTheorems, FiniteSetTheorems, TLAPS

\* A writer without a row has not created one.
RowsAreDone == \A w \in Writers : pc[w] # "done" => version[w] = 0

\* Versions have no gaps and no duplicates.
NoGaps == \A w \in Rows : \A k \in Nat : 1 <= k /\ k <= version[w]
                                            => k \in Versions
\* No two rows have one version.
NoDuplicates == \A v, w \in Rows : version[v] = version[w] => v = w

\* All versions below the one chosen are taken.
Grounded ==
    \A w \in Writers : pc[w] \in {"update", "create"} =>
        /\ next[w] >= 1
        /\ \A k \in Nat : 1 <= k /\ k < next[w] => k \in Versions

\* A writer about to create has cleared every row below its version.
Covered ==
    \A w \in Writers : pc[w] = "create" =>
        \A v \in Rows : version[v] < next[w] => v \in flipped[w]

\* What is current is the newest row.
Newest == \A w \in current : w \in Rows /\ \A v \in Rows : version[v] <= version[w]

\* The inductive invariant of VersionedRows.
Inv == RowsTypeOK /\ RowsAreDone /\ NoGaps /\ NoDuplicates /\ Grounded /\ Covered
           /\ Newest

\* There is no row at first.
LEMMA InvInit == RowsInit => Inv
BY DEF RowsInit, Inv, RowsTypeOK, RowsAreDone, NoGaps, NoDuplicates, Grounded, Covered,
       Newest, Rows, Versions

\* A version the constraint lets through is above every version there is, and
\* the row that has it becomes the only current one.
LEMMA CreateIsNext ==
    ASSUME Inv, NEW w \in Writers, Create(w)
    PROVE  /\ version[w] = 0
           /\ next[w] \in Nat \ {0}
           /\ \A v \in Rows : version[v] < next[w]
           /\ version' = [version EXCEPT ![w] = next[w]]
           /\ Rows' = Rows \cup {w}
           /\ Versions' = Versions \cup {next[w]}
           /\ current' = {w}
<1>1. version[w] = 0
    BY DEF Inv, RowsAreDone, Create
<1>2. next[w] \in Nat \ {0}
    BY DEF Inv, RowsTypeOK, Grounded, Create
<1>3. ASSUME NEW v \in Rows PROVE version[v] < next[w]
    <2>1. version[v] \in Nat
        BY DEF Inv, RowsTypeOK, Rows
    <2>2. next[w] <= version[v] => next[w] \in Versions
        BY <1>2 DEF Inv, NoGaps
    <2> QED
        BY <1>2, <2>1, <2>2 DEF Create
<1>4. version' = [version EXCEPT ![w] = next[w]]
    BY DEF Create
<1>5. Rows' = Rows \cup {w}
    BY <1>2, <1>4 DEF Inv, RowsTypeOK, Rows
<1>6. Versions' = Versions \cup {next[w]}
    <2>1. \A v \in Rows : version'[v] = version[v]
        BY <1>1, <1>4 DEF Rows, Inv, RowsTypeOK
    <2>2. version'[w] = next[w]
        BY <1>4 DEF Inv, RowsTypeOK
    <2> QED
        BY <1>5, <2>1, <2>2 DEF Versions
<1>7. current' = {w}
    BY <1>3 DEF Inv, Covered, Newest, Create
<1> QED
    BY <1>1, <1>2, <1>3, <1>4, <1>5, <1>6, <1>7

\* Every statement keeps it.
LEMMA InvNext == Inv /\ [RowsNext]_rowVars => Inv'
<1> SUFFICES ASSUME Inv, [RowsNext]_rowVars PROVE Inv'
    OBVIOUS
<1>1. ASSUME NEW w \in Writers, ReadMax(w) PROVE Inv'
    <2>1. PICK m \in Versions \cup {0} :
              /\ \A v \in Versions : v <= m
              /\ next' = [next EXCEPT ![w] = m + 1]
        BY <1>1 DEF ReadMax
    <2>2. m \in Nat /\ \A k \in Nat : 1 <= k /\ k < m + 1 => k \in Versions
        <3>1. CASE m = 0
            BY <3>1
        <3>2. ASSUME NEW v \in Rows, m = version[v]
              PROVE  m \in Nat /\ \A k \in Nat : 1 <= k /\ k <= m => k \in Versions
            <4>1. version[v] \in Nat
                BY DEF Inv, RowsTypeOK, Rows
            <4> QED
                BY <3>2, <4>1 DEF Inv, NoGaps
        <3>3. m \in Versions => \E v \in Rows : m = version[v]
            BY DEF Versions
        <3>4. CASE m \in Versions
            BY <3>2, <3>3, <3>4
        <3> QED
            BY <3>1, <3>4
    <2>3. Rows' = Rows /\ Versions' = Versions
        BY <1>1 DEF ReadMax, Rows, Versions
    <2>4. RowsTypeOK'
        BY <1>1, <2>1, <2>2 DEF Inv, RowsTypeOK, ReadMax
    <2>5. Grounded'
        BY <1>1, <2>1, <2>2, <2>3 DEF Inv, RowsTypeOK, Grounded, ReadMax
    <2>6. Covered'
        BY <1>1, <2>1, <2>2, <2>3 DEF Inv, RowsTypeOK, Covered, ReadMax
    <2>7. RowsAreDone' /\ NoGaps' /\ NoDuplicates' /\ Newest'
        BY <1>1, <2>3 DEF Inv, RowsTypeOK, RowsAreDone, NoGaps, NoDuplicates,
                          Newest, ReadMax
    <2> QED
        BY <2>4, <2>5, <2>6, <2>7 DEF Inv
<1>2. ASSUME NEW w \in Writers, ClearCurrent(w) PROVE Inv'
    <2>1. Rows' = Rows /\ Versions' = Versions
        BY <1>2 DEF ClearCurrent, Rows, Versions
    <2>2. RowsTypeOK'
        BY <1>2 DEF Inv, RowsTypeOK, ClearCurrent, Rows
    <2>3. Grounded' /\ Covered'
        BY <1>2, <2>1 DEF Inv, RowsTypeOK, Grounded, Covered, ClearCurrent
    <2>4. RowsAreDone' /\ NoGaps' /\ NoDuplicates' /\ Newest'
        BY <1>2, <2>1 DEF Inv, RowsTypeOK, RowsAreDone, NoGaps, NoDuplicates,
                          Newest, ClearCurrent
    <2> QED
        BY <2>2, <2>3, <2>4 DEF Inv
<1>3. ASSUME NEW w \in Writers, Create(w) PROVE Inv'
    <2> USE <1>3
    <2>1. /\ version[w] = 0
          /\ next[w] \in Nat \ {0}
          /\ \A v \in Rows : version[v] < next[w]
          /\ version' = [version EXCEPT ![w] = next[w]]
          /\ Rows' = Rows \cup {w}
          /\ Versions' = Versions \cup {next[w]}
          /\ current' = {w}
        BY CreateIsNext
    <2>2. /\ w \notin Rows
          /\ version'[w] = next[w]
          /\ \A v \in Rows : version'[v] = version[v] /\ version[v] \in Nat
        BY <2>1 DEF Inv, RowsTypeOK, Rows
    <2>3. RowsTypeOK'
        BY <2>1 DEF Inv, RowsTypeOK, Create
    <2>4. RowsAreDone'
        BY <2>1 DEF Inv, RowsTypeOK, RowsAreDone, Create
    <2>5. NoGaps'
        <3> SUFFICES ASSUME NEW v \in Rows', NEW k \in Nat,
                            1 <= k, k <= version'[v]
                     PROVE  k \in Versions'
            BY DEF NoGaps
        <3>1. CASE v = w
            BY <2>1, <2>2, <3>1 DEF Inv, Grounded, Create
        <3>2. CASE v # w
            BY <2>1, <2>2, <3>2 DEF Inv, NoGaps
        <3> QED
            BY <3>1, <3>2
    <2>6. NoDuplicates'
        BY <2>1, <2>2 DEF Inv, NoDuplicates
    <2>7. Grounded'
        BY <2>1 DEF Inv, RowsTypeOK, Grounded, Create
    <2>8. Covered'
        <3> SUFFICES ASSUME NEW u \in Writers, pc'[u] = "create",
                            NEW v \in Rows', version'[v] < next'[u]
                     PROVE  v \in flipped'[u]
            BY DEF Covered
        <3>1. pc[u] = "create" /\ next'[u] = next[u] /\ flipped'[u] = flipped[u]
            BY DEF Create, Inv, RowsTypeOK
        <3>2. v # w
            BY <2>1, <2>2, <3>1 DEF Inv, RowsTypeOK, Grounded, Create
        <3> QED
            BY <2>1, <2>2, <3>1, <3>2 DEF Inv, Covered
    <2>9. Newest'
        BY <2>1, <2>2 DEF Newest
    <2> QED
        BY <2>3, <2>4, <2>5, <2>6, <2>7, <2>8, <2>9 DEF Inv
<1>4. ASSUME NEW w \in Writers, Refused(w) \/ Abort(w) PROVE Inv'
    <2>1. Rows' = Rows /\ Versions' = Versions
        BY <1>4 DEF Refused, Abort, Rows, Versions
    <2>2. RowsTypeOK' /\ RowsAreDone'
        BY <1>4 DEF Inv, RowsTypeOK, RowsAreDone, Refused, Abort
    <2>3. NoGaps' /\ NoDuplicates' /\ Newest'
        BY <1>4, <2>1 DEF Inv, NoGaps, NoDuplicates, Newest, Refused, Abort
    <2>4. Grounded' /\ Covered'
        BY <1>4, <2>1 DEF Inv, RowsTypeOK, Grounded, Covered, Refused, Abort
    <2> QED
        BY <2>2, <2>3, <2>4 DEF Inv
<1>5. CASE UNCHANGED rowVars
    BY <1>5 DEF rowVars, Inv, RowsTypeOK, RowsAreDone, NoGaps, NoDuplicates, Grounded,
                Covered, Newest, Rows, Versions
<1> QED
    BY <1>1, <1>2, <1>3, <1>4, <1>5 DEF RowsNext, Step

\* It holds throughout.
LEMMA InvAlways == RowsSpec => []Inv
BY InvInit, InvNext, PTL DEF RowsSpec

\* No two rows of a meeting are current and none is newer than the current
\* one, however many transactions write versions at once.
THEOREM OneCurrentRow == RowsSpec => []CurrentIsNewest
<1>1. Inv => CurrentIsNewest
    <2> SUFFICES ASSUME Inv, NEW w \in current, NEW v \in Rows
                 PROVE  version[v] <= version[w] /\ (v \in current => v = w)
        BY DEF CurrentIsNewest
    <2>1. w \in Rows /\ version[v] \in Nat /\ version[w] \in Nat
        BY DEF Inv, RowsTypeOK, Newest, Rows
    <2>2. version[v] <= version[w]
        BY DEF Inv, Newest
    <2>3. v \in current => version[w] <= version[v]
        BY <2>1 DEF Inv, Newest
    <2> QED
        BY <2>1, <2>2, <2>3 DEF Inv, NoDuplicates
<1> QED
    BY <1>1, InvAlways, PTL

\* Every reachable state has the types RowsTypeOK states.
THEOREM RowsTypeCorrect == RowsSpec => []RowsTypeOK
BY InvAlways, PTL DEF Inv

\* Every transaction that commits publishes the next version of the chain.
THEOREM VersionsFormAChain == RowsSpec => ImplementsChain
<1>1. RowsInit => Chain!Init
    BY DEF RowsInit, Chain!Init, Rows, Versions
<1>2. Inv /\ [RowsNext]_rowVars => [Chain!Publish]_Chain!vars
    <2> SUFFICES ASSUME Inv, [RowsNext]_rowVars PROVE [Chain!Publish]_Chain!vars
        OBVIOUS
    <2>1. ASSUME NEW w \in Writers, Create(w) PROVE Chain!Publish
        <3>1. /\ version[w] = 0
              /\ next[w] \in Nat \ {0}
              /\ \A v \in Rows : version[v] < next[w]
              /\ version' = [version EXCEPT ![w] = next[w]]
              /\ Rows' = Rows \cup {w}
              /\ Versions' = Versions \cup {next[w]}
              /\ current' = {w}
            BY <2>1, CreateIsNext
        <3>2. next[w] \notin Versions
            BY <2>1 DEF Create
        <3>3. Versions \cup {next[w]} = 1..next[w]
            <4>1. \A v \in Versions : v \in 1..next[w]
                BY <3>1 DEF Inv, RowsTypeOK, Rows, Versions
            <4>2. \A k \in 1..next[w] : k \in Versions \cup {next[w]}
                BY <2>1, <3>1 DEF Inv, Grounded, Create
            <4> QED
                BY <3>1, <4>1, <4>2
        <3>4. {version'[v] : v \in current'} = {next[w]}
            BY <3>1 DEF Inv, RowsTypeOK
        <3> QED
            BY <3>1, <3>2, <3>3, <3>4 DEF Chain!Publish
    <2>2. ASSUME NEW w \in Writers,
                 ReadMax(w) \/ ClearCurrent(w) \/ Refused(w) \/ Abort(w)
          PROVE  UNCHANGED Chain!vars
        BY <2>2 DEF ReadMax, ClearCurrent, Refused, Abort, Chain!vars, Rows,
                    Versions
    <2>3. CASE UNCHANGED rowVars
        BY <2>3 DEF rowVars, Chain!vars, Rows, Versions
    <2> QED
        BY <2>1, <2>2, <2>3 DEF RowsNext, Step
<1> QED
    BY <1>1, <1>2, InvAlways, PTL DEF RowsSpec, ImplementsChain, Chain!Spec

-----------------------------------------------------------------------------
(* The knowledge index.                                                    *)

USE IndexAssumption

\* What the meeting says of an entity, if it has it.
Maybe == Texts \cup {Absent}

\* What a call has planned: at most one thing for an entity, of a version that
\* its chain has.
PlanOK(c) ==
    /\ \A p \in c.plan : /\ p.entity \in Entities /\ c.seen[p.entity] # Absent
                         /\ p.prev \in 0..Len(chain[p.entity])
    /\ \A p \in c.archived : /\ p.entity \in Entities /\ c.seen[p.entity] = Absent
                             /\ p.prev \in 1..Len(chain[p.entity])
    /\ \A p, q \in c.plan : p.entity = q.entity => p.prev = q.prev
    /\ \A p, q \in c.archived : p.entity = q.entity => p.prev = q.prev

\* The local variables of a call.
CallOK(c) ==
    /\ c.pc \in {"idle", "collected", "planned", "writing", "committed"}
    /\ c.pc \in {"collected", "planned", "writing"} =>
          c.seen \in [Entities -> Maybe] /\ c.now \in 1..instant
    /\ c.pc \in {"planned", "writing"} => PlanOK(c)
    /\ c.pc = "writing" => c.number \in 1..Len(kvs) + 1 /\ c.count \in Nat
    /\ c.pc = "committed" => c.number \in 1..Len(kvs)

\* The calls that may be under way.
CallsOK == DOMAIN indexing = Indexings /\ \A r \in Indexings : CallOK(indexing[r])

\* The types the proofs need.
RowsOK ==
    /\ source \in [Entities -> Maybe]
    /\ chain \in [Entities -> Seq(Row)]
    /\ kvs \in Seq(Nat)
    /\ instant \in Nat

\* No event is about a version or a knowledge version that does not exist.
EventsOK ==
    \A ev \in events : /\ ev.entity \in Entities
                       /\ ev.version \in 1..Len(chain[ev.entity])
                       /\ ev.kv \in 1..Len(kvs)

\* Somebody is going to refresh the newest count, or it is right.
Counted ==
    kvs # <<>> => \/ kvs[Len(kvs)] = CurrentCount(chain)
                  \/ \E r \in Indexings :
                        indexing[r].pc = "committed" /\ indexing[r].number = Len(kvs)

\* The inductive invariant of the audit and the counts.
IndexInv == RowsOK /\ CallsOK /\ EventsOK /\ Counted /\ IndexAudit

-----------------------------------------------------------------------------
\* A count of current rows is a number: the meeting has finitely many entities.
LEMMA CountIsNat == \A ch : CurrentCount(ch) \in Nat
<1> TAKE ch
<1> DEFINE S == {e \in Entities : \E v \in DOMAIN ch[e] : ch[e][v].current}
<1>1. S \in SUBSET Entities
    OBVIOUS
<1>2. IsFiniteSet(S)
    BY <1>1, FS_Subset
<1>3. Cardinality(S) \in Nat
    <2> HIDE DEF S
    <2> QED
        BY <1>2, FS_CardinalityType
<1> QED
    BY <1>3 DEF CurrentCount

\* current_by_key finds a version of the chain that is current, or there is none.
LEMMA CurrentVersionIs ==
    ASSUME RowsOK, IndexAudit, NEW e \in Entities
    PROVE  /\ CurrentVersion(e) \in 0..Len(chain[e])
           /\ CurrentVersion(e) # 0 => chain[e][CurrentVersion(e)].current
           /\ CurrentVersion(e) = 0 => \A v \in 1..Len(chain[e]) : ~ chain[e][v].current
<1>1. DOMAIN chain[e] = 1..Len(chain[e]) /\ Len(chain[e]) \in Nat
    BY DEF RowsOK
<1>2. CASE \E v \in DOMAIN chain[e] : chain[e][v].current
    <2> DEFINE w == CHOOSE v \in DOMAIN chain[e] : chain[e][v].current
    <2>1. w \in DOMAIN chain[e] /\ chain[e][w].current
        BY <1>2
    <2>2. CurrentVersion(e) = w
        BY <1>2 DEF CurrentVersion
    <2> HIDE DEF w
    <2> QED
        BY <1>1, <2>1, <2>2
<1>3. CASE ~ \E v \in DOMAIN chain[e] : chain[e][v].current
    <2>1. CurrentVersion(e) = 0
        BY <1>3 DEF CurrentVersion
    <2> QED
        BY <1>1, <1>3, <2>1
<1> QED
    BY <1>2, <1>3

\* A row that has been closed.
Ended(row, now) == [row EXCEPT !.current = FALSE, !.to = now]

\* Closing a version touches no other, and only its end.
LEMMA CloseIs ==
    ASSUME NEW rows \in Seq(Row), NEW v \in 0..Len(rows), NEW now \in Nat
    PROVE  /\ Close(rows, v, now) \in Seq(Row)
           /\ Len(Close(rows, v, now)) = Len(rows)
           /\ \A j \in 1..Len(rows) :
                Close(rows, v, now)[j] = IF j = v THEN Ended(rows[j], now) ELSE rows[j]
<1>1. CASE v = 0
    <2>1. Close(rows, v, now) = rows /\ \A j \in 1..Len(rows) : j # v
        BY <1>1 DEF Close
    <2> QED
        BY <2>1
<1>2. CASE v # 0
    <2>1. v \in 1..Len(rows) /\ rows[v] \in Row
        BY <1>2, ElementOfSeq
    <2> DEFINE x == [rows[v] EXCEPT !.current = FALSE, !.to = now]
    <2>2. x \in Row
        BY <2>1 DEF Row
    <2>3. Close(rows, v, now) = [rows EXCEPT ![v] = x]
        BY <1>2 DEF Close
    <2>4. /\ [rows EXCEPT ![v] = x] \in Seq(Row)
          /\ Len([rows EXCEPT ![v] = x]) = Len(rows)
          /\ \A j \in 1..Len(rows) : [rows EXCEPT ![v] = x][j] = IF j = v THEN x ELSE rows[j]
        <3> HIDE DEF x
        <3> QED
            BY <2>1, <2>2, ExceptSeq
    <2> QED
        BY <2>3, <2>4 DEF Ended
<1> QED
    BY <1>1, <1>2

\* What a write that conflicts with nothing does to the chain of an entity.
NewRow(c, e) ==
    [text |-> c.seen[e], kv |-> c.number, from |-> c.now, to |-> Open, current |-> TRUE]
\* A write that appends a version to the chain of e.
Planned(c, e) ==
    /\ \E p \in c.plan : p.entity = e /\ p.prev = Len(chain[e])
    /\ \A p \in c.plan : p.entity = e => p.prev = Len(chain[e])
    /\ \A p \in c.archived : p.entity # e
    /\ Written(c)[e] \in Seq(Row)
    /\ Len(Written(c)[e]) = Len(chain[e]) + 1
    /\ \A v \in 1..Len(chain[e]) :
          Written(c)[e][v] = IF v = Len(chain[e]) THEN Ended(chain[e][v], c.now) ELSE chain[e][v]
    /\ Written(c)[e][Len(chain[e]) + 1] = NewRow(c, e)

\* A write that ends the current version of e.
Retired(c, e) ==
    /\ \A p \in c.plan : p.entity # e
    /\ \E p \in c.archived :
        /\ p.entity = e /\ p.prev \in 1..Len(chain[e])
        /\ \A q \in c.archived : q.entity = e => q.prev = p.prev
        /\ Written(c)[e] \in Seq(Row)
        /\ Len(Written(c)[e]) = Len(chain[e])
        /\ \A v \in 1..Len(chain[e]) :
              Written(c)[e][v] = IF v = p.prev THEN Ended(chain[e][v], c.now) ELSE chain[e][v]

\* A write that has nothing to do with e.
Untouched(c, e) ==
    /\ \A p \in c.plan \cup c.archived : p.entity # e
    /\ Written(c)[e] = chain[e]

\* An entity of a write that conflicts with nothing has a version appended, its
\* current version ended, or nothing done to it.
LEMMA WrittenIs ==
    ASSUME RowsOK, NEW c, CallOK(c), c.pc = "writing", ~ Conflict(c), NEW e \in Entities
    PROVE  Planned(c, e) \/ Retired(c, e) \/ Untouched(c, e)
<1>0. /\ chain[e] \in Seq(Row) /\ Len(chain[e]) \in Nat /\ DOMAIN chain[e] = 1..Len(chain[e])
      /\ PlanOK(c) /\ c.seen \in [Entities -> Maybe] /\ c.now \in 1..instant
      /\ c.number \in 1..Len(kvs) + 1 /\ Len(kvs) \in Nat /\ instant \in Nat
    BY DEF RowsOK, CallOK
<1>1. CASE \E p \in c.plan : p.entity = e
    <2> DEFINE p == CHOOSE p \in c.plan : p.entity = e
    <2>1. p \in c.plan /\ p.entity = e
        BY <1>1
    <2>2. Written(c)[e] = Append(Close(chain[e], p.prev, c.now), NewRow(c, e))
        BY <1>1 DEF Written, NewRow
    <2> HIDE DEF p
    <2>3. p.prev \in 0..Len(chain[e]) /\ c.seen[e] \in Texts
        BY <1>0, <2>1 DEF PlanOK, Maybe
    <2>4. p.prev + 1 \notin DOMAIN chain[e]
        BY <2>1 DEF Conflict
    <2>5. p.prev = Len(chain[e])
        BY <1>0, <2>3, <2>4
    <2>6. \A q \in c.plan : q.entity = e => q.prev = Len(chain[e])
        BY <1>0, <2>1, <2>5 DEF PlanOK
    <2>7. \A q \in c.archived : q.entity # e
        BY <1>0, <2>1 DEF PlanOK
    <2>8. NewRow(c, e) \in Row
        BY <1>0, <2>3 DEF NewRow, Row, Open
    <2> DEFINE rows == Close(chain[e], p.prev, c.now)
    <2>9. /\ rows \in Seq(Row) /\ Len(rows) = Len(chain[e])
          /\ \A v \in 1..Len(chain[e]) :
                rows[v] = IF v = Len(chain[e]) THEN Ended(chain[e][v], c.now) ELSE chain[e][v]
        <3>1. c.now \in Nat
            BY <1>0
        <3>2. /\ rows \in Seq(Row) /\ Len(rows) = Len(chain[e])
              /\ \A v \in 1..Len(chain[e]) :
                    rows[v] = IF v = p.prev THEN Ended(chain[e][v], c.now) ELSE chain[e][v]
            BY <1>0, <2>3, <3>1, CloseIs
        <3> HIDE DEF rows
        <3> QED
            BY <2>5, <3>2
    <2> HIDE DEF rows
    <2>10. /\ Append(rows, NewRow(c, e)) \in Seq(Row)
           /\ Len(Append(rows, NewRow(c, e))) = Len(rows) + 1
           /\ \A i \in 1..Len(rows) : Append(rows, NewRow(c, e))[i] = rows[i]
           /\ Append(rows, NewRow(c, e))[Len(rows) + 1] = NewRow(c, e)
        BY <2>8, <2>9, AppendProperties
    <2>11. Written(c)[e] = Append(rows, NewRow(c, e))
        BY <2>2 DEF rows
    <2> QED
        BY <2>1, <2>5, <2>6, <2>7, <2>9, <2>10, <2>11 DEF Planned
<1>2. CASE /\ \A p \in c.plan : p.entity # e
           /\ \E p \in c.archived : p.entity = e
    <2> DEFINE p == CHOOSE p \in c.archived : p.entity = e
    <2>1. p \in c.archived /\ p.entity = e
        BY <1>2
    <2>2. Written(c)[e] = Close(chain[e], p.prev, c.now)
        BY <1>2 DEF Written
    <2> HIDE DEF p
    <2>3. p.prev \in 1..Len(chain[e]) /\ p.prev \in 0..Len(chain[e]) /\ c.now \in Nat
        BY <1>0, <2>1 DEF PlanOK
    <2>4. \A q \in c.archived : q.entity = e => q.prev = p.prev
        BY <1>0, <2>1 DEF PlanOK
    <2>5. /\ Written(c)[e] \in Seq(Row) /\ Len(Written(c)[e]) = Len(chain[e])
          /\ \A v \in 1..Len(chain[e]) :
                Written(c)[e][v] = IF v = p.prev THEN Ended(chain[e][v], c.now) ELSE chain[e][v]
        <3> DEFINE rows == Close(chain[e], p.prev, c.now)
        <3>1. /\ rows \in Seq(Row) /\ Len(rows) = Len(chain[e])
              /\ \A v \in 1..Len(chain[e]) :
                    rows[v] = IF v = p.prev THEN Ended(chain[e][v], c.now) ELSE chain[e][v]
            BY <1>0, <2>3, CloseIs
        <3>2. Written(c)[e] = rows
            BY <2>2
        <3> HIDE DEF rows
        <3> QED
            BY <3>1, <3>2
    <2> QED
        BY <1>2, <2>1, <2>3, <2>4, <2>5 DEF Retired
<1>3. CASE /\ \A p \in c.plan : p.entity # e
           /\ \A p \in c.archived : p.entity # e
    BY <1>3 DEF Untouched, Written
<1> QED
    BY <1>1, <1>2, <1>3

-----------------------------------------------------------------------------
\* Nothing is taken away from the index.
IndexGrows ==
    /\ instant' \in Nat /\ instant <= instant'
    /\ Len(kvs') \in Nat /\ Len(kvs) <= Len(kvs')
    /\ \A e \in Entities : Len(chain'[e]) \in Nat /\ Len(chain[e]) <= Len(chain'[e])

\* What a call has read and planned stays meaningful while the index grows.
LEMMA CallStays ==
    ASSUME RowsOK, IndexGrows, NEW r \in Indexings, CallOK(indexing[r]),
           indexing'[r] = indexing[r]
    PROVE  CallOK(indexing[r])'
<1>0. /\ instant \in Nat /\ Len(kvs) \in Nat
      /\ \A e \in Entities : Len(chain[e]) \in Nat
    BY DEF RowsOK
<1> DEFINE c == indexing[r]
<1>1. c.pc \in {"planned", "writing"} => PlanOK(c)'
    <2> SUFFICES ASSUME PlanOK(c) PROVE PlanOK(c)'
        BY DEF CallOK
    <2>1. \A p \in c.plan : /\ p.entity \in Entities /\ c.seen[p.entity] # Absent
                            /\ p.prev \in 0..Len(chain'[p.entity])
        BY <1>0 DEF PlanOK, IndexGrows
    <2>2. \A p \in c.archived : /\ p.entity \in Entities /\ c.seen[p.entity] = Absent
                                /\ p.prev \in 1..Len(chain'[p.entity])
        BY <1>0 DEF PlanOK, IndexGrows
    <2> QED
        BY <2>1, <2>2 DEF PlanOK
<1>2. c.pc \in {"collected", "planned", "writing"} =>
          c.seen \in [Entities -> Maybe] /\ c.now \in 1..instant'
    BY <1>0 DEF CallOK, IndexGrows
<1>3. /\ c.pc = "writing" => c.number \in 1..Len(kvs') + 1 /\ c.count \in Nat
      /\ c.pc = "committed" => c.number \in 1..Len(kvs')
    BY <1>0 DEF CallOK, IndexGrows
<1>4. c.pc \in {"idle", "collected", "planned", "writing", "committed"} /\ c' = c
    BY DEF CallOK
<1> HIDE DEF c
<1>5. CallOK(c)'
    BY <1>1, <1>2, <1>3, <1>4 DEF CallOK, Maybe
<1> QED
    BY <1>5 DEF c

\* An empty index.
LEMMA IndexInvInit == IndexInit => IndexInv
<1> SUFFICES ASSUME IndexInit PROVE IndexInv
    OBVIOUS
<1>1. RowsOK
    BY DEF IndexInit, RowsOK, Maybe
<1>2. CallsOK
    BY DEF IndexInit, CallsOK, CallOK, Idle
<1>3. EventsOK /\ Counted
    BY DEF IndexInit, EventsOK, Counted
<1>4. \A e \in Entities : chain[e] = <<>> /\ DOMAIN chain[e] = {}
    BY DEF IndexInit
<1>5. IndexAudit
    BY <1>4 DEF IndexAudit
<1> QED
    BY <1>1, <1>2, <1>3, <1>5 DEF IndexInv

\* What a call does before it writes is in its local variables.
LEMMA LocalStepKeeps ==
    ASSUME IndexInv, NEW r \in Indexings, NEW x,
           indexing[r].pc # "committed", indexing' = [indexing EXCEPT ![r] = x],
           CallOK(indexing[r])', instant' \in Nat, instant <= instant',
           UNCHANGED <<source, chain, kvs, events>>
    PROVE  IndexInv'
<1>0. IndexGrows
    BY DEF IndexInv, RowsOK, IndexGrows
<1>1. RowsOK'
    BY DEF IndexInv, RowsOK
<1>2. CallsOK'
    <2>1. DOMAIN indexing' = Indexings
        BY DEF IndexInv, CallsOK
    <2>2. ASSUME NEW q \in Indexings PROVE CallOK(indexing[q])'
        <3>1. CASE q = r
            BY <3>1
        <3>2. CASE q # r
            <4>1. indexing'[q] = indexing[q] /\ CallOK(indexing[q]) /\ RowsOK
                BY <3>2 DEF IndexInv, CallsOK
            <4> QED
                BY <1>0, <4>1, CallStays
        <3> QED
            BY <3>1, <3>2
    <2> QED
        BY <2>1, <2>2 DEF CallsOK
<1>3. EventsOK'
    BY DEF IndexInv, EventsOK
<1>4. Counted'
    <2>1. \A q \in Indexings : indexing[q].pc = "committed" => indexing'[q] = indexing[q]
        BY DEF IndexInv, CallsOK
    <2>2. CurrentCount(chain)' = CurrentCount(chain)
        BY DEF CurrentCount
    <2> QED
        BY <2>1, <2>2 DEF IndexInv, Counted
<1>5. IndexAudit'
    BY DEF IndexInv, IndexAudit, Births, Ends
<1> QED
    BY <1>1, <1>2, <1>3, <1>4, <1>5 DEF IndexInv

\* Reading the meeting.
LEMMA CollectKeeps ==
    ASSUME IndexInv, NEW r \in Indexings, Collect(r)
    PROVE  IndexInv'
<1>1. instant \in Nat /\ source \in [Entities -> Maybe] /\ DOMAIN indexing = Indexings
    BY DEF IndexInv, RowsOK, CallsOK
<1> DEFINE x == [pc |-> "collected", seen |-> source, now |-> instant + 1]
<1>2. /\ indexing[r].pc = "idle" /\ instant' = instant + 1
      /\ indexing' = [indexing EXCEPT ![r] = x]
      /\ UNCHANGED <<source, chain, kvs, events>>
    BY DEF Collect
<1>3. CallOK(indexing[r])'
    <2>1. indexing'[r] = x
        BY <1>1, <1>2
    <2>2. x.seen \in [Entities -> Maybe] /\ x.now \in 1..instant'
        BY <1>1, <1>2
    <2> QED
        BY <2>1, <2>2 DEF CallOK, Maybe
<1>4. instant' \in Nat /\ instant <= instant'
    BY <1>1, <1>2
<1> HIDE DEF x
<1> QED
    BY <1>2, <1>3, <1>4, LocalStepKeeps

\* A plan names an entity once, with the version it has.
LEMMA PlansAreOK ==
    ASSUME IndexInv, NEW seen \in [Entities -> Maybe], NEW c,
           c.seen = seen, c.plan = Plan(seen), c.archived = Archived(seen)
    PROVE  PlanOK(c)
<1>1. \A e \in Entities : /\ CurrentVersion(e) \in 0..Len(chain[e])
                          /\ Len(chain[e]) \in Nat
    BY CurrentVersionIs DEF IndexInv, RowsOK
<1>2. \A p \in Plan(seen) :
        p.entity \in Entities /\ seen[p.entity] # Absent /\ p.prev = CurrentVersion(p.entity)
    BY DEF Plan
<1>3. \A p \in Archived(seen) :
        /\ p.entity \in Entities /\ seen[p.entity] = Absent /\ p.prev = CurrentVersion(p.entity)
        /\ p.prev # 0
    BY DEF Archived
<1>4. \A p \in Archived(seen) : p.prev \in 1..Len(chain[p.entity])
    BY <1>1, <1>3
<1> QED
    BY <1>1, <1>2, <1>3, <1>4 DEF PlanOK

\* Planning what differs.
LEMMA DiffKeeps ==
    ASSUME IndexInv, NEW r \in Indexings, Diff(r)
    PROVE  IndexInv'
<1> DEFINE c == indexing[r]
           x == [pc |-> "planned", seen |-> c.seen, now |-> c.now,
                 plan |-> Plan(c.seen), archived |-> Archived(c.seen)]
<1>1. /\ DOMAIN indexing = Indexings /\ instant \in Nat
      /\ c.pc = "collected" /\ c.seen \in [Entities -> Maybe] /\ c.now \in 1..instant
    BY DEF IndexInv, RowsOK, CallsOK, CallOK, Diff
<1>2. /\ indexing' = [indexing EXCEPT ![r] = Idle] \/ indexing' = [indexing EXCEPT ![r] = x]
      /\ UNCHANGED <<source, chain, kvs, events, instant>>
    BY DEF Diff
<1>3. instant' \in Nat /\ instant <= instant'
    BY <1>1, <1>2
<1>4. CASE indexing' = [indexing EXCEPT ![r] = Idle]
    <2>1. CallOK(indexing[r])'
        BY <1>1, <1>4 DEF CallOK, Idle
    <2> QED
        BY <1>1, <1>2, <1>3, <1>4, <2>1, LocalStepKeeps
<1>5. CASE indexing' = [indexing EXCEPT ![r] = x]
    <2>1. indexing'[r] = x
        BY <1>1, <1>5
    <2>2. PlanOK(x)
        BY <1>1, PlansAreOK
    <2>3. x.pc = "planned" /\ x.seen \in [Entities -> Maybe] /\ x.now \in 1..instant
        BY <1>1
    <2> HIDE DEF x, c
    <2>4. PlanOK(indexing[r])'
        BY <1>2, <2>1, <2>2 DEF PlanOK
    <2>5. CallOK(indexing[r])'
        BY <1>2, <2>1, <2>3, <2>4 DEF CallOK, Maybe
    <2>6. indexing[r].pc # "committed"
        BY <1>1 DEF c
    <2> QED
        BY <1>2, <1>3, <1>5, <2>5, <2>6, LocalStepKeeps
<1> QED
    BY <1>2, <1>4, <1>5

\* The embedding provider raises.
LEMMA EmbedFailsKeeps ==
    ASSUME IndexInv, NEW r \in Indexings, EmbedFails(r)
    PROVE  IndexInv'
<1>1. /\ indexing[r].pc = "planned" /\ indexing' = [indexing EXCEPT ![r] = Idle]
      /\ DOMAIN indexing = Indexings
      /\ UNCHANGED <<source, chain, kvs, events, instant>>
    BY DEF EmbedFails, IndexInv, CallsOK
<1>2. CallOK(indexing[r])'
    BY <1>1 DEF CallOK, Idle
<1>3. instant' \in Nat /\ instant <= instant'
    BY <1>1 DEF IndexInv, RowsOK
<1> QED
    BY <1>1, <1>2, <1>3, LocalStepKeeps

\* Drawing the next number.
LEMMA BumpKeeps ==
    ASSUME IndexInv, NEW r \in Indexings, Bump(r)
    PROVE  IndexInv'
<1> DEFINE c == indexing[r]
           x == [pc |-> "writing", seen |-> c.seen, now |-> c.now, plan |-> c.plan,
                 archived |-> c.archived, number |-> Len(kvs) + 1, count |-> CurrentCount(chain)]
<1>1. /\ DOMAIN indexing = Indexings /\ instant \in Nat /\ Len(kvs) \in Nat
      /\ c.pc = "planned" /\ c.seen \in [Entities -> Maybe] /\ c.now \in 1..instant
      /\ PlanOK(c)
    BY DEF IndexInv, RowsOK, CallsOK, CallOK, Bump
<1>2. /\ indexing' = [indexing EXCEPT ![r] = x]
      /\ UNCHANGED <<source, chain, kvs, events, instant>>
    BY DEF Bump
<1>3. instant' \in Nat /\ instant <= instant'
    BY <1>1, <1>2
<1>4. indexing'[r] = x /\ indexing[r].pc # "committed"
    BY <1>1, <1>2
<1>5. /\ x.pc = "writing" /\ x.seen \in [Entities -> Maybe] /\ x.now \in 1..instant
      /\ x.number \in 1..Len(kvs) + 1 /\ x.count \in Nat
    BY <1>1, CountIsNat
<1>6. PlanOK(x)
    BY <1>1 DEF PlanOK
<1> HIDE DEF x, c
<1>7. PlanOK(indexing[r])'
    BY <1>2, <1>4, <1>6 DEF PlanOK
<1>8. CallOK(indexing[r])'
    BY <1>2, <1>4, <1>5, <1>7 DEF CallOK, Maybe
<1> QED
    BY <1>2, <1>3, <1>4, <1>8, LocalStepKeeps

\* The events of a write: a birth for what it creates, an end for what it closes.
BirthType(prev) == IF prev = 0 THEN "created" ELSE "updated"

\* What a write emits, event by event.
LEMMA EmittedIs ==
    ASSUME NEW c
    PROVE  /\ \A ev \in Emitted(c) :
                \/ \E p \in c.plan : ev = EventOf(p.entity, p.prev + 1, c.number, BirthType(p.prev))
                \/ \E p \in c.plan :
                      p.prev # 0 /\ ev = EventOf(p.entity, p.prev, c.number, "superseded")
                \/ \E p \in c.archived : ev = EventOf(p.entity, p.prev, c.number, "archived")
           /\ \A p \in c.plan :
                /\ EventOf(p.entity, p.prev + 1, c.number, BirthType(p.prev)) \in Emitted(c)
                /\ p.prev # 0 => EventOf(p.entity, p.prev, c.number, "superseded") \in Emitted(c)
           /\ \A p \in c.archived : EventOf(p.entity, p.prev, c.number, "archived") \in Emitted(c)
BY DEF Emitted, BirthType

\* The fields of an event.
LEMMA EventFields ==
    \A e, v, kv, t : /\ EventOf(e, v, kv, t).entity = e /\ EventOf(e, v, kv, t).version = v
                     /\ EventOf(e, v, kv, t).kv = kv /\ EventOf(e, v, kv, t).type = t
BY DEF EventOf

\* What an event of a new version is called.
BirthTypes == {"created", "updated"}
\* What an event at the end of one is called.
EndTypes == {"superseded", "archived"}

\* The event of a new version is a birth.
LEMMA BirthTypeIs == \A n : BirthType(n) \in BirthTypes
BY DEF BirthType, BirthTypes

\* What the new events say of an entity that was written, archived or let be.
LEMMA EventsOfPlanned ==
    ASSUME NEW c, NEW e \in Entities, Planned(c, e), Len(chain[e]) \in Nat, NEW ev \in Emitted(c),
           ev.entity = e
    PROVE  /\ ev.type \in BirthTypes =>
                ev = EventOf(e, Len(chain[e]) + 1, c.number, BirthType(Len(chain[e])))
           /\ ev.type \in EndTypes => ev.version = Len(chain[e])
<1>1. CASE \E p \in c.plan : ev = EventOf(p.entity, p.prev + 1, c.number, BirthType(p.prev))
    <2>1. PICK p \in c.plan : ev = EventOf(p.entity, p.prev + 1, c.number, BirthType(p.prev))
        BY <1>1
    <2>2. p.entity = e /\ p.prev = Len(chain[e]) /\ ev.type \in BirthTypes
        BY <2>1, EventFields, BirthTypeIs DEF Planned
    <2> QED
        BY <2>1, <2>2 DEF BirthTypes, EndTypes
<1>2. CASE \E p \in c.plan : p.prev # 0 /\ ev = EventOf(p.entity, p.prev, c.number, "superseded")
    BY <1>2, EventFields DEF Planned, BirthTypes
<1>3. CASE \E p \in c.archived : ev = EventOf(p.entity, p.prev, c.number, "archived")
    BY <1>3, EventFields DEF Planned
<1> QED
    BY <1>1, <1>2, <1>3, EmittedIs

\* The one event of an archived entity.
LEMMA EventsOfRetired ==
    ASSUME NEW c, NEW e \in Entities, NEW ev \in Emitted(c), ev.entity = e,
           \A p \in c.plan : p.entity # e
    PROVE  /\ ev.type \notin BirthTypes
           /\ \E p \in c.archived : p.entity = e /\ ev = EventOf(e, p.prev, c.number, "archived")
BY EmittedIs, EventFields DEF BirthTypes

\* A write that conflicts with nothing leaves the chains and the events in step.
LEMMA WriteAudit ==
    ASSUME IndexInv, NEW c, CallOK(c), c.pc = "writing", ~ Conflict(c),
           chain' = Written(c), kvs' = Append(kvs, c.count), events' = events \cup Emitted(c)
    PROVE  IndexAudit'
<1> SUFFICES ASSUME NEW e \in Entities, NEW v \in DOMAIN chain'[e]
             PROVE  /\ chain'[e][v].kv \in 1..Len(kvs')
                    /\ v > 1 => chain'[e][v - 1].kv < chain'[e][v].kv
                    /\ Births(e, v)' =
                          {EventOf(e, v, chain'[e][v].kv, IF v = 1 THEN "created" ELSE "updated")}
                    /\ chain'[e][v].current <=> Ends(e, v)' = {}
                    /\ chain'[e][v].current => v = Len(chain'[e])
    BY DEF IndexAudit
<1> DEFINE n == Len(chain[e])
<1>1. /\ n \in Nat /\ DOMAIN chain[e] = 1..n /\ chain[e] \in Seq(Row)
      /\ Len(kvs) \in Nat /\ c.count \in Nat /\ kvs \in Seq(Nat)
    BY DEF IndexInv, RowsOK, CallOK
<1>2. c.number = Len(kvs) + 1 /\ Len(kvs') = Len(kvs) + 1
    BY <1>1 DEF CallOK, Conflict
<1>3. ASSUME NEW w \in 1..n
      PROVE  /\ chain[e][w].kv \in 1..Len(kvs)
             /\ w > 1 => chain[e][w - 1].kv < chain[e][w].kv
             /\ Births(e, w) = {EventOf(e, w, chain[e][w].kv, IF w = 1 THEN "created" ELSE "updated")}
             /\ chain[e][w].current <=> Ends(e, w) = {}
             /\ chain[e][w].current => w = n
    BY <1>1 DEF IndexInv, IndexAudit
<1>4. \A ev \in events : ev.entity = e => ev.version \in 1..n
    BY DEF IndexInv, EventsOK
<1>5. \A w : /\ Births(e, w)' = Births(e, w) \cup
                   {ev \in Emitted(c) : ev.entity = e /\ ev.version = w /\ ev.type \in BirthTypes}
             /\ Ends(e, w)' = Ends(e, w) \cup
                   {ev \in Emitted(c) : ev.entity = e /\ ev.version = w /\ ev.type \in EndTypes}
    BY DEF Births, Ends, BirthTypes, EndTypes
<1>6. CASE Planned(c, e)
    <2>1. /\ Len(chain'[e]) = n + 1 /\ DOMAIN chain'[e] = 1..n + 1
          /\ \A w \in 1..n : chain'[e][w] = IF w = n THEN Ended(chain[e][w], c.now) ELSE chain[e][w]
          /\ chain'[e][n + 1] = NewRow(c, e)
        BY <1>1, <1>6 DEF Planned
    <2>2. \A ev \in Emitted(c) : ev.entity = e =>
             /\ ev.type \in BirthTypes => ev = EventOf(e, n + 1, c.number, BirthType(n))
             /\ ev.type \in EndTypes => ev.version = n
        BY <1>1, <1>6, EventsOfPlanned
    <2>3. EventOf(e, n + 1, c.number, BirthType(n)) \in Emitted(c)
        BY <1>6, EmittedIs DEF Planned
    <2>4. n # 0 => EventOf(e, n, c.number, "superseded") \in Emitted(c)
        BY <1>6, EmittedIs DEF Planned
    <2> HIDE DEF n
    <2>5. ASSUME NEW w \in 1..n
          PROVE  chain'[e][w].kv = chain[e][w].kv /\ (chain'[e][w].current <=> FALSE)
        <3>1. CASE w = n
            <4>1. chain[e][w] \in Row
                BY <1>1, ElementOfSeq DEF n
            <4> QED
                BY <2>1, <3>1, <4>1 DEF Ended, Row
        <3>2. CASE w # n
            BY <1>3, <2>1, <3>2, <1>1, ElementOfSeq DEF Row
        <3> QED
            BY <3>1, <3>2
    <2>6. ASSUME NEW w \in 1..n
          PROVE  Births(e, w)' = Births(e, w) /\ Ends(e, w)' # {}
        <3>1. \A ev \in Emitted(c) : ~ (ev.entity = e /\ ev.version = w /\ ev.type \in BirthTypes)
            BY <1>1, <2>2, EventFields
        <3>2. Births(e, w)' = Births(e, w)
            BY <1>5, <3>1
        <3>3. CASE w = n
            <4>1. EventOf(e, n, c.number, "superseded") \in Ends(e, w)'
                BY <1>1, <1>5, <2>4, <3>3, EventFields DEF EndTypes
            <4> QED
                BY <3>2, <4>1
        <3>4. CASE w # n
            <4>1. Ends(e, w) # {}
                BY <1>3, <3>4
            <4>2. Ends(e, w) \subseteq Ends(e, w)'
                BY <1>5
            <4> QED
                BY <3>2, <4>1, <4>2
        <3> QED
            BY <3>3, <3>4
    <2>7. CASE v \in 1..n
        <3>1. v - 1 # 0 => v - 1 \in 1..n
            BY <1>1, <2>7
        <3>2. v > 1 => chain'[e][v - 1].kv < chain'[e][v].kv
            BY <1>1, <1>3, <2>5, <2>7, <3>1
        <3>3. chain'[e][v].kv \in 1..Len(kvs')
            <4>1. chain'[e][v].kv \in 1..Len(kvs)
                BY <1>3, <2>5, <2>7
            <4> QED
                BY <1>1, <1>2, <4>1
        <3>4. Births(e, v)' = {EventOf(e, v, chain'[e][v].kv, IF v = 1 THEN "created" ELSE "updated")}
            BY <1>3, <2>5, <2>6, <2>7
        <3> QED
            BY <2>5, <2>6, <2>7, <3>2, <3>3, <3>4
    <2>8. CASE v = n + 1
        <3>1. /\ chain'[e][v].kv = Len(kvs') /\ chain'[e][v].kv = c.number
              /\ chain'[e][v].current = TRUE
            BY <1>2, <2>1, <2>8 DEF NewRow
        <3>2. v > 1 => chain'[e][v - 1].kv < chain'[e][v].kv
            <4>1. v > 1 => n \in 1..n /\ v - 1 = n
                BY <1>1, <2>8
            <4>2. v > 1 => chain'[e][v - 1].kv \in 1..Len(kvs)
                BY <1>3, <2>5, <4>1
            <4> QED
                BY <1>1, <1>2, <3>1, <4>2
        <3>3. BirthType(n) = IF v = 1 THEN "created" ELSE "updated"
            BY <1>1, <2>8 DEF BirthType
        <3>4. Births(e, v) = {} /\ Ends(e, v) = {}
            BY <1>1, <1>4, <2>8 DEF Births, Ends, n
        <3>5. EventOf(e, v, c.number, BirthType(n)).type \in BirthTypes
            BY EventFields, BirthTypeIs
        <3>6. Births(e, v)' = {EventOf(e, v, c.number, BirthType(n))}
            BY <1>5, <2>2, <2>3, <2>8, <3>4, <3>5, EventFields
        <3>7. Ends(e, v)' = {}
            <4>1. n # n + 1
                BY <1>1
            <4> QED
                BY <1>5, <2>2, <2>8, <3>4, <4>1
        <3>8. chain'[e][v].kv \in 1..Len(kvs')
            BY <1>1, <1>2, <3>1
        <3> QED
            BY <2>1, <2>8, <3>1, <3>2, <3>3, <3>6, <3>7, <3>8
    <2> QED
        BY <1>1, <2>1, <2>7, <2>8
<1>7. CASE Retired(c, e)
    <2>1. PICK p \in c.archived :
            /\ p.entity = e /\ p.prev \in 1..n
            /\ \A q \in c.archived : q.entity = e => q.prev = p.prev
            /\ Len(chain'[e]) = n
            /\ \A w \in 1..n : chain'[e][w] = IF w = p.prev THEN Ended(chain[e][w], c.now) ELSE chain[e][w]
            /\ chain'[e] \in Seq(Row)
        BY <1>7 DEF Retired
    <2>2. v \in 1..n
        BY <1>1, <2>1
    <2>3. \A ev \in Emitted(c) : ev.entity = e =>
             ev.type \notin BirthTypes /\ ev = EventOf(e, p.prev, c.number, "archived")
        BY <1>7, <2>1, EventsOfRetired DEF Retired
    <2>4. EventOf(e, p.prev, c.number, "archived") \in Emitted(c)
        BY <2>1, EmittedIs
    <2> HIDE DEF n
    <2>5. ASSUME NEW w \in 1..n
          PROVE  /\ chain'[e][w].kv = chain[e][w].kv
                 /\ (chain'[e][w].current <=> chain[e][w].current /\ w # p.prev)
        <3>1. CASE w = p.prev
            <4>1. chain[e][w] \in Row
                BY <1>1, ElementOfSeq DEF n
            <4> QED
                BY <2>1, <3>1, <4>1 DEF Ended, Row
        <3>2. CASE w # p.prev
            BY <2>1, <3>2
        <3> QED
            BY <3>1, <3>2
    <2>6. Births(e, v)' = Births(e, v)
        BY <1>5, <2>3
    <2>7. Ends(e, v)' = {} <=> Ends(e, v) = {} /\ v # p.prev
        <3>1. CASE v = p.prev
            <4>1. EventOf(e, p.prev, c.number, "archived") \in Ends(e, v)'
                BY <1>5, <2>4, <3>1, EventFields DEF EndTypes
            <4> QED
                BY <3>1, <4>1
        <3>2. CASE v # p.prev
            BY <1>5, <2>3, <3>2, EventFields
        <3> QED
            BY <3>1, <3>2
    <2>8. v > 1 => chain'[e][v - 1].kv < chain'[e][v].kv
        <3>1. v > 1 => v - 1 \in 1..n
            BY <1>1, <2>2
        <3> QED
            BY <1>3, <2>2, <2>5, <3>1
    <2>9. chain'[e][v].kv \in 1..Len(kvs')
        <3>1. chain'[e][v].kv \in 1..Len(kvs)
            BY <1>3, <2>2, <2>5
        <3> QED
            BY <1>1, <1>2, <3>1
    <2> QED
        BY <1>3, <2>1, <2>2, <2>5, <2>6, <2>7, <2>8, <2>9
<1>8. CASE Untouched(c, e)
    <2>1. chain'[e] = chain[e] /\ v \in 1..n
        BY <1>1, <1>8 DEF Untouched
    <2>2. \A ev \in Emitted(c) : ev.entity # e
        BY <1>8, EmittedIs, EventFields DEF Untouched
    <2>3. Births(e, v)' = Births(e, v) /\ Ends(e, v)' = Ends(e, v)
        BY <1>5, <2>2
    <2>4. chain[e][v].kv \in 1..Len(kvs')
        BY <1>1, <1>2, <1>3, <2>1
    <2> QED
        BY <1>3, <2>1, <2>3, <2>4
<1> QED
    BY <1>6, <1>7, <1>8, WrittenIs DEF IndexInv

\* The write, whether it conflicts or not.
LEMMA WriteKeeps ==
    ASSUME IndexInv, NEW r \in Indexings, Write(r)
    PROVE  IndexInv'
<1> DEFINE c == indexing[r]
<1>1. /\ DOMAIN indexing = Indexings /\ instant \in Nat /\ kvs \in Seq(Nat) /\ Len(kvs) \in Nat
      /\ c.pc = "writing" /\ CallOK(c) /\ RowsOK /\ c.count \in Nat
      /\ UNCHANGED <<source, instant>>
    BY DEF IndexInv, RowsOK, CallsOK, CallOK, Write
<1>2. CASE Conflict(c)
    <2>1. indexing' = [indexing EXCEPT ![r] = Idle] /\ UNCHANGED <<chain, kvs, events>>
        BY <1>2 DEF Write
    <2>2. CallOK(indexing[r])'
        BY <1>1, <2>1 DEF CallOK, Idle
    <2>3. instant' \in Nat /\ instant <= instant'
        BY <1>1
    <2> QED
        BY <1>1, <2>1, <2>2, <2>3, LocalStepKeeps
<1>3. CASE ~ Conflict(c)
    <2>1. /\ chain' = Written(c) /\ kvs' = Append(kvs, c.count) /\ events' = events \cup Emitted(c)
          /\ indexing' = [indexing EXCEPT ![r] = [pc |-> "committed", number |-> c.number]]
        BY <1>3 DEF Write
    <2> HIDE DEF c
    <2>2. c.number = Len(kvs) + 1
        BY <1>1, <1>3 DEF CallOK, Conflict
    <2>3. kvs' \in Seq(Nat) /\ Len(kvs') = Len(kvs) + 1 /\ Len(kvs') \in Nat
        BY <1>1, <2>1, AppendProperties
    <2>4. ASSUME NEW e \in Entities
          PROVE  /\ chain'[e] \in Seq(Row) /\ Len(chain'[e]) \in Nat /\ Len(chain[e]) \in Nat
                 /\ Len(chain[e]) <= Len(chain'[e])
        <3>1. Planned(c, e) \/ Retired(c, e) \/ Untouched(c, e)
            BY <1>1, <1>3, WrittenIs
        <3>2. chain[e] \in Seq(Row) /\ Len(chain[e]) \in Nat
            BY <1>1 DEF RowsOK
        <3>3. /\ chain'[e] \in Seq(Row)
              /\ Len(chain'[e]) = Len(chain[e]) \/ Len(chain'[e]) = Len(chain[e]) + 1
            BY <2>1, <3>1, <3>2 DEF Planned, Retired, Untouched
        <3> QED
            BY <3>2, <3>3
    <2>5. IndexGrows
        BY <1>1, <2>3, <2>4 DEF IndexGrows
    <2>6. RowsOK'
        <3>1. chain' = [e \in Entities |-> chain'[e]]
            BY <2>1 DEF Written
        <3>2. chain' \in [Entities -> Seq(Row)]
            BY <2>4, <3>1
        <3> QED
            BY <1>1, <2>3, <3>2 DEF RowsOK
    <2>7. CallsOK'
        <3>1. DOMAIN indexing' = Indexings
            BY <1>1, <2>1
        <3>2. ASSUME NEW q \in Indexings PROVE CallOK(indexing[q])'
            <4>1. CASE q = r
                <5>1. indexing'[q] = [pc |-> "committed", number |-> c.number]
                    BY <1>1, <2>1, <4>1
                <5>2. c.number \in 1..Len(kvs')
                    BY <1>1, <2>2, <2>3
                <5> QED
                    BY <5>1, <5>2 DEF CallOK
            <4>2. CASE q # r
                <5>1. indexing'[q] = indexing[q] /\ CallOK(indexing[q])
                    BY <1>1, <2>1, <4>2 DEF IndexInv, CallsOK
                <5> QED
                    BY <1>1, <2>5, <5>1, CallStays
            <4> QED
                BY <4>1, <4>2
        <3> QED
            BY <3>1, <3>2 DEF CallsOK
    <2>8. EventsOK'
        <3> SUFFICES ASSUME NEW ev \in events'
                     PROVE  /\ ev.entity \in Entities
                            /\ ev.version \in 1..Len(chain'[ev.entity])
                            /\ ev.kv \in 1..Len(kvs')
            BY DEF EventsOK
        <3>1. CASE ev \in events
            <4>1. ev.entity \in Entities /\ ev.version \in 1..Len(chain[ev.entity]) /\ ev.kv \in 1..Len(kvs)
                BY <3>1 DEF IndexInv, EventsOK
            <4>2. ev.kv \in 1..Len(kvs')
                BY <1>1, <2>3, <4>1
            <4>3. /\ Len(chain'[ev.entity]) \in Nat /\ Len(chain[ev.entity]) \in Nat
                  /\ Len(chain[ev.entity]) <= Len(chain'[ev.entity])
                BY <2>4, <4>1
            <4>4. ev.version \in 1..Len(chain'[ev.entity])
                BY <4>1, <4>3
            <4> QED
                BY <4>1, <4>2, <4>4
        <3>2. CASE ev \in Emitted(c)
            <4>1. /\ \E p \in c.plan \cup c.archived : ev.entity = p.entity
                  /\ ev.kv = c.number
                BY <3>2, EmittedIs, EventFields
            <4>2. ev.entity \in Entities
                BY <1>1, <4>1 DEF CallOK, PlanOK
            <4> DEFINE e == ev.entity
            <4>3. Planned(c, e) \/ Retired(c, e) \/ Untouched(c, e)
                BY <1>1, <1>3, <4>2, WrittenIs
            <4>4. ev.version \in 1..Len(chain'[e])
                <5>1. CASE Planned(c, e)
                    <6>1. ev.type \in BirthTypes \/ ev.type \in EndTypes
                        BY <3>2, EmittedIs, EventFields, BirthTypeIs DEF EndTypes
                    <6>2. \/ ev.version = Len(chain[e]) + 1
                          \/ ev.version = Len(chain[e])
                        BY <2>4, <3>2, <4>2, <5>1, <6>1, EventsOfPlanned, EventFields
                    <6>3. ev.version # 0
                        <7>1. \A p \in c.plan : p.prev \in Nat
                            BY <1>1, <2>4 DEF CallOK, PlanOK
                        <7>2. \A p \in c.archived : p.prev # 0
                            BY <1>1, <2>4 DEF CallOK, PlanOK
                        <7> QED
                            BY <3>2, <7>1, <7>2, EmittedIs, EventFields
                    <6>4. Len(chain'[e]) = Len(chain[e]) + 1
                        BY <2>1, <5>1 DEF Planned
                    <6> QED
                        BY <2>4, <4>2, <6>2, <6>3, <6>4
                <5>2. CASE Retired(c, e)
                    <6>1. PICK p \in c.archived : p.entity = e /\ ev = EventOf(e, p.prev, c.number, "archived")
                        BY <3>2, <4>2, <5>2, EventsOfRetired DEF Retired
                    <6>2. p.prev \in 1..Len(chain[e]) /\ Len(chain'[e]) = Len(chain[e])
                        BY <1>1, <2>1, <5>2, <6>1 DEF CallOK, PlanOK, Retired
                    <6> QED
                        BY <6>1, <6>2, EventFields
                <5>3. CASE Untouched(c, e)
                    BY <4>1, <5>3 DEF Untouched
                <5> QED
                    BY <4>3, <5>1, <5>2, <5>3
            <4> QED
                BY <1>1, <2>2, <2>3, <4>1, <4>2, <4>4
        <3> QED
            BY <2>1, <3>1, <3>2
    <2>9. Counted'
        <3>1. indexing'[r].pc = "committed" /\ indexing'[r].number = Len(kvs')
            BY <1>1, <2>1, <2>2, <2>3
        <3> QED
            BY <3>1 DEF Counted
    <2>10. IndexAudit'
        BY <1>1, <1>3, <2>1, WriteAudit
    <2> QED
        BY <2>6, <2>7, <2>8, <2>9, <2>10 DEF IndexInv
<1> QED
    BY <1>2, <1>3

\* refresh_counts changes one count and nothing else.
LEMMA RefreshCountsKeeps ==
    ASSUME IndexInv, NEW r \in Indexings, RefreshCounts(r)
    PROVE  IndexInv'
<1> DEFINE n == indexing[r].number
<1>1. /\ DOMAIN indexing = Indexings /\ instant \in Nat /\ kvs \in Seq(Nat) /\ Len(kvs) \in Nat
      /\ indexing[r].pc = "committed" /\ n \in 1..Len(kvs) /\ RowsOK
      /\ kvs' = [kvs EXCEPT ![n] = CurrentCount(chain)]
      /\ indexing' = [indexing EXCEPT ![r] = Idle]
      /\ UNCHANGED <<source, chain, events, instant>>
    BY DEF IndexInv, RowsOK, CallsOK, CallOK, RefreshCounts
<1> HIDE DEF n
<1>2. /\ kvs' \in Seq(Nat) /\ Len(kvs') = Len(kvs)
      /\ \A j \in 1..Len(kvs) : kvs'[j] = IF j = n THEN CurrentCount(chain) ELSE kvs[j]
    BY <1>1, CountIsNat, ExceptSeq
<1>3. RowsOK'
    BY <1>1, <1>2 DEF RowsOK
<1>4. IndexGrows
    BY <1>1, <1>2 DEF RowsOK, IndexGrows
<1>5. CallsOK'
    <2>1. DOMAIN indexing' = Indexings
        BY <1>1
    <2>2. ASSUME NEW q \in Indexings PROVE CallOK(indexing[q])'
        <3>1. CASE q = r
            BY <1>1, <3>1 DEF CallOK, Idle
        <3>2. CASE q # r
            <4>1. indexing'[q] = indexing[q] /\ CallOK(indexing[q])
                BY <1>1, <3>2 DEF IndexInv, CallsOK
            <4> QED
                BY <1>1, <1>4, <4>1, CallStays
        <3> QED
            BY <3>1, <3>2
    <2> QED
        BY <2>1, <2>2 DEF CallsOK
<1>6. EventsOK'
    BY <1>1, <1>2 DEF IndexInv, EventsOK
<1>7. Counted'
    <2>0. Len(kvs) \in 1..Len(kvs) /\ kvs # <<>> /\ CurrentCount(chain)' = CurrentCount(chain)
        BY <1>1 DEF CurrentCount
    <2>1. CASE n = Len(kvs)
        BY <1>2, <2>0, <2>1 DEF Counted
    <2>2. CASE n # Len(kvs)
        <3>1. kvs'[Len(kvs')] = kvs[Len(kvs)]
            BY <1>2, <2>0, <2>2
        <3>2. \A q \in Indexings :
                indexing[q].pc = "committed" /\ indexing[q].number = Len(kvs) => indexing'[q] = indexing[q]
            BY <1>1, <2>2 DEF n
        <3> QED
            BY <1>2, <2>0, <3>1, <3>2 DEF IndexInv, Counted
    <2> QED
        BY <2>1, <2>2
<1>8. IndexAudit'
    <2>1. \A e, v : Births(e, v)' = Births(e, v) /\ Ends(e, v)' = Ends(e, v)
        BY <1>1 DEF Births, Ends
    <2>2. IndexAudit
        BY DEF IndexInv
    <2> HIDE DEF IndexInv
    <2> QED
        BY <1>1, <1>2, <2>1, <2>2 DEF IndexAudit
<1> QED
    BY <1>3, <1>5, <1>6, <1>7, <1>8 DEF IndexInv

\* Every step.
LEMMA IndexInvNext == IndexInv /\ [IndexNext]_indexVars => IndexInv'
<1> SUFFICES ASSUME IndexInv, [IndexNext]_indexVars PROVE IndexInv'
    OBVIOUS
<1>1. ASSUME UNCHANGED <<chain, kvs, events, indexing, instant>>, source' \in [Entities -> Maybe]
      PROVE  IndexInv'
    <2>1. RowsOK' /\ EventsOK'
        BY <1>1 DEF IndexInv, RowsOK, EventsOK
    <2>2. CallsOK'
        BY <1>1 DEF IndexInv, CallsOK, CallOK, PlanOK
    <2>3. Counted' /\ IndexAudit'
        BY <1>1 DEF IndexInv, Counted, CurrentCount, IndexAudit, Births, Ends
    <2> QED
        BY <2>1, <2>2, <2>3 DEF IndexInv
<1>2. CASE UNCHANGED indexVars
    BY <1>1, <1>2 DEF indexVars, IndexInv, RowsOK
<1>3. ASSUME NEW e \in Entities, Edit(e) PROVE IndexInv'
    <2>1. source' \in [Entities -> Maybe]
        BY <1>3 DEF Edit, IndexInv, RowsOK, Maybe
    <2> QED
        BY <1>1, <1>3, <2>1 DEF Edit
<1> QED
    BY <1>2, <1>3, CollectKeeps, DiffKeeps, EmbedFailsKeeps, BumpKeeps, WriteKeeps,
       RefreshCountsKeeps DEF IndexNext, IndexStep

\* The invariant holds of every reachable state.
LEMMA IndexInvAlways == IndexSpec => []IndexInv
BY IndexInvInit, IndexInvNext, PTL DEF IndexSpec

\* The chains and the audit stream tell the same story, whatever calls overlap,
\* conflict or fail to embed.
THEOREM AuditIsTrue == IndexSpec => []IndexAudit
BY IndexInvAlways, PTL DEF IndexInv

\* Once nobody is about to refresh it, the count of the newest knowledge version
\* is what is current.
THEOREM CountsAreRight == IndexSpec => []CountsSettle
<1>1. IndexInv => CountsSettle
    BY DEF IndexInv, Counted, CountsSettle
<1> QED
    BY IndexInvAlways, <1>1, PTL

\* What IndexInv does not say of the types.
TypesToo == edits \in Nat /\ overlapped \in BOOLEAN /\ events \subseteq KnowledgeEvent

\* A write emits well-formed events, for what it plans are versions of the chains.
LEMMA EmittedTyped ==
    ASSUME RowsOK, NEW c, CallOK(c), c.pc = "writing"
    PROVE  Emitted(c) \subseteq KnowledgeEvent
<1>1. c.number \in Nat /\ \A e \in Entities : Len(chain[e]) \in Nat
    BY DEF RowsOK, CallOK
<1>2. \A p \in c.plan \cup c.archived : p.entity \in Entities /\ p.prev \in Nat
    BY <1>1 DEF CallOK, PlanOK
<1>3. \A e \in Entities, n \in Nat :
        \A t \in BirthTypes \cup EndTypes : EventOf(e, n, c.number, t) \in KnowledgeEvent
    BY <1>1 DEF EventOf, KnowledgeEvent, BirthTypes, EndTypes
<1>4. "superseded" \in EndTypes /\ "archived" \in EndTypes
    BY DEF EndTypes
<1>5. \A p \in c.plan : EventOf(p.entity, p.prev + 1, c.number, BirthType(p.prev)) \in KnowledgeEvent
    <2> TAKE p \in c.plan
    <2>1. p.entity \in Entities /\ p.prev + 1 \in Nat
        BY <1>2
    <2> QED
        BY <1>3, <2>1, BirthTypeIs
<1>6. \A p \in c.plan : EventOf(p.entity, p.prev, c.number, "superseded") \in KnowledgeEvent
    BY <1>2, <1>3, <1>4
<1>7. \A p \in c.archived : EventOf(p.entity, p.prev, c.number, "archived") \in KnowledgeEvent
    BY <1>2, <1>3, <1>4
<1> QED
    BY <1>5, <1>6, <1>7, EmittedIs

\* Every step keeps them.
LEMMA TypesTooNext == IndexInv /\ TypesToo /\ [IndexNext]_indexVars => TypesToo'
<1> SUFFICES ASSUME IndexInv, TypesToo, [IndexNext]_indexVars PROVE TypesToo'
    OBVIOUS
<1>1. ASSUME NEW r \in Indexings, Write(r) PROVE TypesToo'
    <2>1. RowsOK /\ CallOK(indexing[r]) /\ indexing[r].pc = "writing"
        BY <1>1 DEF Write, IndexInv, CallsOK
    <2>2. Emitted(indexing[r]) \subseteq KnowledgeEvent
        BY <2>1, EmittedTyped
    <2>3. events' = events \/ events' = events \cup Emitted(indexing[r])
        BY <1>1 DEF Write
    <2>4. UNCHANGED <<edits, overlapped>>
        BY <1>1 DEF Write
    <2> QED
        BY <2>2, <2>3, <2>4 DEF TypesToo
<1>2. ASSUME NEW r \in Indexings,
             Collect(r) \/ Diff(r) \/ EmbedFails(r) \/ Bump(r) \/ RefreshCounts(r)
      PROVE  TypesToo'
    BY <1>2 DEF Collect, Diff, EmbedFails, Bump, RefreshCounts, TypesToo
<1>3. ASSUME NEW e \in Entities, Edit(e) PROVE TypesToo'
    BY <1>3 DEF Edit, TypesToo
<1>4. CASE UNCHANGED indexVars
    BY <1>4 DEF indexVars, TypesToo
<1> QED
    BY <1>1, <1>2, <1>3, <1>4 DEF IndexNext, IndexStep

\* Every reachable state has the types IndexTypeOK states.
THEOREM IndexTypeCorrect == IndexSpec => []IndexTypeOK
<1>1. IndexInit => TypesToo
    <2>1. IndexInit => edits \in Nat /\ events \subseteq KnowledgeEvent
        BY DEF IndexInit
    <2>2. IndexInit => overlapped \in BOOLEAN
        BY ZenonT(30) DEF IndexInit
    <2> QED
        BY <2>1, <2>2 DEF TypesToo
<1>2. IndexInv /\ TypesToo => IndexTypeOK
    BY DEF IndexInv, RowsOK, Maybe, CallsOK, CallOK, TypesToo, IndexTypeOK
<1> QED
    BY <1>1, <1>2, IndexInvAlways, TypesTooNext, PTL DEF IndexSpec

-----------------------------------------------------------------------------
\* A call that has read the meeting and may still write.
Reading(c) == c.pc \in {"collected", "planned", "writing"}

\* What a call that overlaps no other relies on: everything in the index is older
\* than it, and its plan is still what differs.
CallAlone(c) ==
    /\ c.now = instant
    /\ c.pc # "collected" => c.plan = Plan(c.seen) /\ c.archived = Archived(c.seen)
    /\ \A e \in Entities : \A v \in DOMAIN chain[e] :
          chain[e][v].from < instant /\ chain[e][v].to < instant
    /\ \A w \in views : w.at < instant

\* The validity windows are of the past, and the open ones are the current ones.
Windows ==
    \A e \in Entities : \A v \in DOMAIN chain[e] :
       /\ chain[e][v].from \in 1..instant /\ chain[e][v].to \in 0..instant
       /\ chain[e][v].current <=> chain[e][v].to = Open

\* The index answers the instant of a view with what was seen of e.
Answers(e, at, text) ==
    \/ text = Absent /\ AsOf(e, at) = {}
    \/ /\ text # Absent
       /\ \E v \in DOMAIN chain[e] : AsOf(e, at) = {v} /\ chain[e][v].text = text

\* What an indexing saw is what the index answers about its instant.
ViewsAnswered ==
    \A w \in views : /\ w.at \in 1..instant
                     /\ \A e \in Entities : Answers(e, w.at, w.seen[e])

\* One call at a time.
OneCall ==
    \A q, r \in Indexings :
       indexing[q].pc # "idle" /\ indexing[r].pc # "idle" => q = r

\* The inductive invariant of TimeTravel, with IndexInv.
TravelInv ==
    ~ overlapped =>
       /\ OneCall
       /\ \A r \in Indexings : Reading(indexing[r]) => CallAlone(indexing[r])
       /\ Windows
       /\ ViewsAnswered

\* The strengthened answers are what time travel asks for.
LEMMA TravelIsTime == RowsOK /\ TravelInv => TimeTravel
<1> SUFFICES ASSUME RowsOK, TravelInv, ~ overlapped, NEW w \in views, NEW e \in Entities
             PROVE  /\ {chain[e][v].text : v \in AsOf(e, w.at)} = {w.seen[e]} \ {Absent}
                    /\ Cardinality(AsOf(e, w.at)) <= 1
    BY DEF TimeTravel
<1>1. Answers(e, w.at, w.seen[e])
    BY DEF TravelInv, ViewsAnswered
<1>2. CASE w.seen[e] = Absent /\ AsOf(e, w.at) = {}
    <2>1. Cardinality(AsOf(e, w.at)) = 0
        BY <1>2, FS_EmptySet
    <2> QED
        BY <1>2, <2>1
<1>3. CASE /\ w.seen[e] # Absent
           /\ \E v \in DOMAIN chain[e] : AsOf(e, w.at) = {v} /\ chain[e][v].text = w.seen[e]
    <2>1. PICK v \in DOMAIN chain[e] : AsOf(e, w.at) = {v} /\ chain[e][v].text = w.seen[e]
        BY <1>3
    <2>2. Cardinality(AsOf(e, w.at)) = 1
        BY <2>1, FS_Singleton
    <2>3. {chain[e][k].text : k \in AsOf(e, w.at)} = {w.seen[e]}
        BY <2>1
    <2> QED
        BY <1>3, <2>2, <2>3
<1> QED
    BY <1>1, <1>2, <1>3 DEF Answers

\* Nothing has been asked of an empty index.
LEMMA TravelInvInit == IndexInit => TravelInv
<1> SUFFICES ASSUME IndexInit PROVE TravelInv
    OBVIOUS
<1>1. \A e \in Entities : DOMAIN chain[e] = {}
    BY DEF IndexInit
<1> QED
    BY <1>1 DEF IndexInit, TravelInv, OneCall, Reading, Idle, Windows, ViewsAnswered

\* What differs is planned, and what is planned differs.
LEMMA PlanIs ==
    ASSUME NEW seen, NEW e \in Entities
    PROVE  /\ seen[e] = Absent /\ CurrentVersion(e) # 0 =>
                \E p \in Archived(seen) : p.entity = e
           /\ seen[e] # Absent /\ (CurrentVersion(e) = 0 \/ chain[e][CurrentVersion(e)].text # seen[e]) =>
                \E p \in Plan(seen) : p.entity = e
           /\ \A p \in Plan(seen) \cup Archived(seen) : p.entity = e => p.prev = CurrentVersion(e)
<1> DEFINE p == [entity |-> e, prev |-> CurrentVersion(e)]
<1>0. p.entity = e
    OBVIOUS
<1>1. seen[e] = Absent /\ CurrentVersion(e) # 0 => p \in Archived(seen)
    BY DEF Archived
<1>2. seen[e] # Absent /\ (CurrentVersion(e) = 0 \/ chain[e][CurrentVersion(e)].text # seen[e]) =>
         p \in Plan(seen)
    BY DEF Plan
<1>3. ASSUME NEW q \in Plan(seen) \cup Archived(seen), q.entity = e
      PROVE  q.prev = CurrentVersion(e)
    BY <1>3 DEF Plan, Archived
<1> QED
    BY <1>0, <1>1, <1>2, <1>3

\* An entity the call has nothing to write for: the index already answers its
\* instant with what it saw.
LEMMA UnplannedAnswers ==
    ASSUME RowsOK, IndexAudit, Windows, NEW c, Reading(c), CallOK(c),
           c.now = instant,
           \A e \in Entities : \A v \in DOMAIN chain[e] : chain[e][v].to < instant,
           NEW e \in Entities,
           \A p \in Plan(c.seen) \cup Archived(c.seen) : p.entity # e
    PROVE  Answers(e, c.now, c.seen[e])
<1>0. /\ DOMAIN chain[e] = 1..Len(chain[e]) /\ Len(chain[e]) \in Nat /\ instant \in Nat
      /\ c.seen \in [Entities -> Maybe]
    BY DEF RowsOK, CallOK, Reading
<1>1. ASSUME NEW v \in DOMAIN chain[e]
      PROVE  v \in AsOf(e, c.now) <=> chain[e][v].current
    <2>1. /\ chain[e][v].from \in 1..instant /\ chain[e][v].to \in 0..instant
          /\ chain[e][v].to < instant
          /\ chain[e][v].current <=> chain[e][v].to = Open
        BY DEF Windows
    <2> QED
        BY <1>0, <2>1 DEF AsOf
<1>2. AsOf(e, c.now) \subseteq DOMAIN chain[e]
    BY DEF AsOf
<1>3. CASE c.seen[e] = Absent
    <2>1. CurrentVersion(e) = 0
        BY <1>3, PlanIs
    <2>2. \A v \in DOMAIN chain[e] : ~ chain[e][v].current
        BY <1>0, <2>1, CurrentVersionIs
    <2>3. AsOf(e, c.now) = {}
        BY <1>1, <1>2, <2>2
    <2> QED
        BY <1>3, <2>3 DEF Answers
<1>4. CASE c.seen[e] # Absent
    <2> DEFINE k == CurrentVersion(e)
    <2>1. k # 0 /\ chain[e][k].text = c.seen[e]
        BY <1>4, PlanIs
    <2>2. k \in DOMAIN chain[e] /\ chain[e][k].current
        <3>1. k \in 0..Len(chain[e]) /\ chain[e][k].current
            BY <2>1, CurrentVersionIs
        <3> HIDE DEF k
        <3> QED
            BY <1>0, <2>1, <3>1
    <2>3. \A v \in DOMAIN chain[e] : chain[e][v].current => v = Len(chain[e])
        BY DEF IndexAudit
    <2> HIDE DEF k
    <2>4. AsOf(e, c.now) = {k}
        BY <1>1, <1>2, <2>2, <2>3
    <2> QED
        BY <1>4, <2>1, <2>2, <2>4 DEF Answers
<1> QED
    BY <1>3, <1>4

\* A step that changes no row and adds no view keeps the answers.
LEMMA LocalStepTravels ==
    ASSUME IndexInv, TravelInv, NEW r \in Indexings, NEW x,
           ~ overlapped, ~ overlapped',
           indexing[r].pc # "idle", indexing' = [indexing EXCEPT ![r] = x],
           UNCHANGED <<chain, views, instant>>,
           Reading(x) => CallAlone(x)
    PROVE  TravelInv'
<1>0. DOMAIN indexing = Indexings
    BY DEF IndexInv, CallsOK
<1>1. \A q \in Indexings : q # r => indexing'[q] = indexing[q] /\ indexing[q].pc = "idle"
    BY <1>0 DEF TravelInv, OneCall
<1>2. indexing'[r] = x
    BY <1>0
<1>3. OneCall'
    BY <1>1 DEF OneCall
<1>4. ASSUME NEW q \in Indexings, Reading(indexing'[q]) PROVE CallAlone(indexing[q])'
    <2>1. q = r
        BY <1>1, <1>4 DEF Reading
    <2>2. CallAlone(x)
        BY <1>2, <1>4, <2>1
    <2>3. \A s : Plan(s)' = Plan(s) /\ Archived(s)' = Archived(s)
        BY DEF Plan, Archived, CurrentVersion
    <2> QED
        BY <1>2, <2>1, <2>2, <2>3 DEF CallAlone
<1>5. Windows'
    BY DEF TravelInv, Windows
<1>6. ViewsAnswered'
    <2>1. \A e \in Entities : \A at, t : Answers(e, at, t)' <=> Answers(e, at, t)
        BY DEF Answers, AsOf
    <2> QED
        BY <2>1 DEF TravelInv, ViewsAnswered
<1> QED
    BY <1>3, <1>4, <1>5, <1>6 DEF TravelInv, Reading

\* The instant of a new call is later than everything.
LEMMA CollectTravels ==
    ASSUME IndexInv, TravelInv, NEW r \in Indexings, Collect(r)
    PROVE  TravelInv'
<1> SUFFICES ASSUME ~ overlapped' PROVE TravelInv'
    BY DEF TravelInv
<1>0. /\ DOMAIN indexing = Indexings /\ instant \in Nat /\ instant' = instant + 1
      /\ UNCHANGED <<chain, views>>
      /\ ~ overlapped /\ \A q \in Indexings : indexing[q].pc = "idle"
    BY DEF IndexInv, CallsOK, RowsOK, Collect, Calls
<1> DEFINE x == [pc |-> "collected", seen |-> source, now |-> instant + 1]
<1>1. indexing'[r] = x /\ \A q \in Indexings : q # r => indexing'[q] = indexing[q]
    BY <1>0 DEF Collect
<1>2. OneCall'
    BY <1>0, <1>1 DEF OneCall
<1>3. \A e \in Entities : \A v \in DOMAIN chain'[e] :
         /\ chain'[e][v].from \in 1..instant /\ chain'[e][v].to \in 0..instant
         /\ chain'[e][v].current <=> chain'[e][v].to = Open
    BY <1>0 DEF TravelInv, Windows
<1>4. Windows'
    BY <1>0, <1>3 DEF Windows, Open
<1>5. \A w \in views' : /\ w.at \in 1..instant
                        /\ \A e \in Entities : Answers(e, w.at, w.seen[e])'
    <2>1. \A e \in Entities : \A at, t : Answers(e, at, t)' <=> Answers(e, at, t)
        BY <1>0 DEF Answers, AsOf
    <2> QED
        BY <1>0, <2>1 DEF TravelInv, ViewsAnswered
<1>6. ViewsAnswered'
    BY <1>0, <1>5 DEF ViewsAnswered
<1>7. ASSUME NEW q \in Indexings, Reading(indexing[q])' PROVE CallAlone(indexing[q])'
    <2>1. q = r
        BY <1>0, <1>1, <1>7 DEF Reading
    <2>2. indexing'[q].now = instant' /\ indexing'[q].pc = "collected"
        BY <1>0, <1>1, <2>1
    <2>3. \A e \in Entities : \A v \in DOMAIN chain'[e] :
             chain'[e][v].from < instant' /\ chain'[e][v].to < instant'
        BY <1>0, <1>3
    <2>4. \A w \in views' : w.at < instant'
        BY <1>0, <1>5
    <2> QED
        BY <2>2, <2>3, <2>4 DEF CallAlone
<1> QED
    BY <1>2, <1>4, <1>6, <1>7 DEF TravelInv

\* A call that finds nothing to write has its answer already.
LEMMA DiffTravels ==
    ASSUME IndexInv, TravelInv, NEW r \in Indexings, Diff(r)
    PROVE  TravelInv'
<1> SUFFICES ASSUME ~ overlapped' PROVE TravelInv'
    BY DEF TravelInv
<1> DEFINE c == indexing[r]
           x == [pc |-> "planned", seen |-> c.seen, now |-> c.now,
                 plan |-> Plan(c.seen), archived |-> Archived(c.seen)]
<1>0. /\ c.pc = "collected" /\ ~ overlapped /\ UNCHANGED <<chain, instant>>
      /\ DOMAIN indexing = Indexings /\ Reading(c) /\ CallOK(c) /\ CallAlone(c)
      /\ RowsOK /\ IndexAudit /\ Windows /\ OneCall /\ ViewsAnswered
    BY DEF Diff, TravelInv, IndexInv, CallsOK, Reading
<1>1. CASE Plan(c.seen) = {} /\ Archived(c.seen) = {}
    <2>1. /\ indexing' = [indexing EXCEPT ![r] = Idle]
          /\ views' = views \cup {[at |-> c.now, seen |-> c.seen]}
        BY <1>1 DEF Diff
    <2>2. \A e \in Entities : Answers(e, c.now, c.seen[e])
        <3> HIDE DEF c
        <3> QED
            BY <1>0, <1>1, UnplannedAnswers DEF CallAlone
    <2>3. c.now \in 1..instant
        BY <1>0 DEF CallOK
    <2>4. \A e \in Entities : \A at, t : Answers(e, at, t)' <=> Answers(e, at, t)
        BY <1>0 DEF Answers, AsOf
    <2>5. ViewsAnswered'
        <3> SUFFICES ASSUME NEW w \in views'
                     PROVE  w.at \in 1..instant /\ \A e \in Entities : Answers(e, w.at, w.seen[e])
            BY <1>0, <2>4 DEF ViewsAnswered
        <3>1. CASE w \in views
            BY <1>0, <3>1 DEF ViewsAnswered
        <3>2. CASE w = [at |-> c.now, seen |-> c.seen]
            <4>1. w.at = c.now /\ w.seen = c.seen
                BY <3>2
            <4> HIDE DEF c
            <4> QED
                BY <2>2, <2>3, <4>1
        <3> QED
            BY <2>1, <3>1, <3>2
    <2>6. \A q \in Indexings : indexing'[q].pc = "idle"
        BY <1>0, <2>1 DEF OneCall, Idle
    <2>7. Windows'
        BY <1>0 DEF Windows
    <2> QED
        BY <2>5, <2>6, <2>7 DEF TravelInv, OneCall, Reading
<1>2. CASE ~ (Plan(c.seen) = {} /\ Archived(c.seen) = {})
    <2>1. indexing' = [indexing EXCEPT ![r] = x] /\ views' = views
        BY <1>2 DEF Diff
    <2>2. CallAlone(x)
        BY <1>0 DEF CallAlone
    <2>3. indexing[r].pc # "idle"
        BY <1>0
    <2> HIDE DEF x, c
    <2> QED
        BY <1>0, <2>1, <2>2, <2>3, LocalStepTravels
<1> QED
    BY <1>1, <1>2

\* The steps that touch no row.
LEMMA QuietStepTravels ==
    ASSUME IndexInv, TravelInv, NEW r \in Indexings,
           EmbedFails(r) \/ Bump(r) \/ RefreshCounts(r)
    PROVE  TravelInv'
<1> SUFFICES ASSUME ~ overlapped' PROVE TravelInv'
    BY DEF TravelInv
<1>0. ~ overlapped /\ indexing[r].pc # "idle" /\ UNCHANGED <<chain, views, instant>>
    BY DEF EmbedFails, Bump, RefreshCounts
<1>1. CASE EmbedFails(r) \/ RefreshCounts(r)
    <2>1. indexing' = [indexing EXCEPT ![r] = Idle] /\ ~ Reading(Idle)
        BY <1>1 DEF EmbedFails, RefreshCounts, Reading, Idle
    <2> QED
        BY <1>0, <2>1, LocalStepTravels
<1>2. CASE Bump(r)
    <2> DEFINE c == indexing[r]
               x == [pc |-> "writing", seen |-> c.seen, now |-> c.now, plan |-> c.plan,
                     archived |-> c.archived, number |-> Len(kvs) + 1, count |-> CurrentCount(chain)]
    <2>1. indexing' = [indexing EXCEPT ![r] = x] /\ c.pc = "planned"
        BY <1>2 DEF Bump
    <2>2. CallAlone(c)
        BY <1>0, <2>1 DEF TravelInv, Reading
    <2>3. CallAlone(x)
        BY <2>1, <2>2 DEF CallAlone
    <2> HIDE DEF x
    <2> QED
        BY <1>0, <2>1, <2>3, LocalStepTravels
<1> QED
    BY <1>1, <1>2

\* Whether a row was valid at an instant; a row that has ended, at its end or
\* before, is valid then no more and before as it was.
Within(row, at) == row.from <= at /\ (row.to = Open \/ row.to > at)
\* aged is row, or row ended now.
Aged(row, aged, now) ==
    /\ aged.from = row.from /\ aged.text = row.text /\ aged.current = FALSE
    /\ aged.to \in 1..now
    /\ aged.to = row.to \/ (row.to = 0 /\ aged.to = now)

\* A current row ages by being ended, another one by being left alone.
LEMMA AgedIsEnded ==
    ASSUME NEW row \in Row, NEW now \in Nat, now # 0, row.current <=> row.to = 0,
           row.to \in 0..now
    PROVE  /\ row.current => Aged(row, Ended(row, now), now)
           /\ ~ row.current => Aged(row, row, now)
<1>1. /\ Ended(row, now).from = row.from /\ Ended(row, now).text = row.text
      /\ Ended(row, now).current = FALSE /\ Ended(row, now).to = now
    BY DEF Ended, Row
<1>2. row.current \in BOOLEAN
    BY DEF Row
<1> QED
    BY <1>1, <1>2 DEF Aged

\* Ageing changes no answer about an earlier instant.
LEMMA AgedWithin ==
    ASSUME NEW row, NEW aged, NEW now \in Nat, Aged(row, aged, now), NEW at \in Nat
    PROVE  /\ at < now => (Within(aged, at) <=> Within(row, at))
           /\ ~ Within(aged, now)
BY DEF Aged, Within, Open

\* What a write leaves of the answers: those given before stay, and the call's own
\* instant is answered with what it saw.
LEMMA WrittenAnswers ==
    ASSUME RowsOK, IndexAudit, Windows, NEW c, c.pc = "writing", CallOK(c), CallAlone(c),
           ~ Conflict(c), chain' = Written(c), instant' = instant, NEW e \in Entities
    PROVE  /\ \A v \in DOMAIN chain'[e] :
                 /\ chain'[e][v].from \in 1..instant /\ chain'[e][v].to \in 0..instant
                 /\ chain'[e][v].current <=> chain'[e][v].to = Open
           /\ \A at \in 1..instant : \A t : at < instant /\ Answers(e, at, t) => Answers(e, at, t)'
           /\ Answers(e, instant, c.seen[e])'
<1> DEFINE n == Len(chain[e])
<1>0. /\ chain[e] \in Seq(Row) /\ DOMAIN chain[e] = 1..n /\ n \in Nat /\ instant \in Nat
      /\ c.now = instant /\ c.now \in 1..instant /\ PlanOK(c) /\ c.seen \in [Entities -> Maybe]
      /\ c.plan = Plan(c.seen) /\ c.archived = Archived(c.seen) /\ Reading(c)
    BY DEF RowsOK, CallOK, CallAlone, Reading
<1>1. ASSUME NEW v \in 1..n
      PROVE  /\ chain[e][v].from \in 1..instant /\ chain[e][v].from < instant
             /\ chain[e][v].to \in 0..instant
             /\ chain[e][v].current <=> chain[e][v].to = 0
             /\ chain[e][v].current => v = n
             /\ chain[e][v] \in Row
    BY <1>0, ElementOfSeq DEF Windows, CallAlone, IndexAudit, Open
<1>2. ASSUME NEW v \in 1..n
      PROVE  /\ chain[e][v].current => Aged(chain[e][v], Ended(chain[e][v], instant), instant)
             /\ ~ chain[e][v].current => Aged(chain[e][v], chain[e][v], instant)
    <2>1. instant # 0
        BY <1>0
    <2> QED
        BY <1>0, <1>1, <2>1, AgedIsEnded
<1>3. /\ CurrentVersion(e) \in 0..n
      /\ CurrentVersion(e) # 0 => chain[e][CurrentVersion(e)].current
      /\ CurrentVersion(e) = 0 => \A v \in 1..n : ~ chain[e][v].current
    BY CurrentVersionIs
<1>4. \A at : /\ AsOf(e, at) = {v \in DOMAIN chain[e] : Within(chain[e][v], at)}
              /\ AsOf(e, at)' = {v \in DOMAIN chain'[e] : Within(chain'[e][v], at)}
    BY DEF AsOf, Within, Open
\* What follows once every row of the entity has ended, now or before.
<1>5. ASSUME \A v \in 1..n : v \in DOMAIN chain'[e] /\ Aged(chain[e][v], chain'[e][v], instant),
             \A v \in DOMAIN chain'[e] : v \notin 1..n => chain'[e][v] = NewRow(c, e)
      PROVE  /\ \A v \in DOMAIN chain'[e] :
                   /\ chain'[e][v].from \in 1..instant /\ chain'[e][v].to \in 0..instant
                   /\ chain'[e][v].current <=> chain'[e][v].to = Open
             /\ \A at \in 1..instant : \A t : at < instant /\ Answers(e, at, t) => Answers(e, at, t)'
             /\ AsOf(e, instant)' = {v \in DOMAIN chain'[e] : v \notin 1..n}
    <2> HIDE DEF n
    <2>1. /\ NewRow(c, e).from = instant /\ NewRow(c, e).to = 0 /\ NewRow(c, e).current = TRUE
          /\ instant \in 1..instant
        BY <1>0 DEF NewRow, Open
    <2>2. ASSUME NEW v \in DOMAIN chain'[e]
          PROVE  /\ chain'[e][v].from \in 1..instant /\ chain'[e][v].to \in 0..instant
                 /\ chain'[e][v].current <=> chain'[e][v].to = Open
        <3>1. CASE v \in 1..n
            <4>1. Aged(chain[e][v], chain'[e][v], instant) /\ chain[e][v].from \in 1..instant
                BY <1>1, <1>5, <3>1
            <4> QED
                BY <1>0, <4>1 DEF Aged, Open
        <3>2. CASE v \notin 1..n
            <4>1. chain'[e][v] = NewRow(c, e)
                BY <1>5, <3>2
            <4> QED
                BY <1>0, <2>1, <4>1 DEF Open
        <3> QED
            BY <3>1, <3>2
    <2>3. ASSUME NEW at \in 1..instant, NEW t, at < instant, Answers(e, at, t)
          PROVE  Answers(e, at, t)'
        <3>0. at \in Nat
            OBVIOUS
        <3>1. \A v \in 1..n : Within(chain'[e][v], at) <=> Within(chain[e][v], at)
            BY <1>0, <1>5, <2>3, <3>0, AgedWithin
        <3>2. \A v \in DOMAIN chain'[e] : v \notin 1..n => ~ Within(chain'[e][v], at)
            <4>1. ~ Within(NewRow(c, e), at)
                BY <1>0, <2>1, <2>3 DEF Within
            <4> QED
                BY <1>5, <4>1
        <3>3. AsOf(e, at)' = AsOf(e, at)
            BY <1>0, <1>4, <1>5, <3>1, <3>2
        <3>4. \A v \in DOMAIN chain[e] : v \in DOMAIN chain'[e] /\ chain'[e][v].text = chain[e][v].text
            BY <1>0, <1>5 DEF Aged
        <3> QED
            BY <2>3, <3>3, <3>4 DEF Answers
    <2>4. AsOf(e, instant)' = {v \in DOMAIN chain'[e] : v \notin 1..n}
        <3>1. \A v \in 1..n : ~ Within(chain'[e][v], instant)
            BY <1>0, <1>5, AgedWithin
        <3>2. \A v \in DOMAIN chain'[e] : v \notin 1..n => Within(chain'[e][v], instant)
            <4>1. Within(NewRow(c, e), instant)
                BY <1>0, <2>1 DEF Within, Open
            <4> QED
                BY <1>5, <4>1
        <3> QED
            BY <1>4, <3>1, <3>2
    <2> QED
        BY <2>2, <2>3, <2>4
<1>6. CASE Planned(c, e)
    <2>1. /\ DOMAIN chain'[e] = 1..n + 1
          /\ \A v \in 1..n : chain'[e][v] = IF v = n THEN Ended(chain[e][v], c.now) ELSE chain[e][v]
          /\ chain'[e][n + 1] = NewRow(c, e)
        BY <1>0, <1>6 DEF Planned
    <2>2. PICK p \in Plan(c.seen) : p.entity = e /\ p.prev = n
        BY <1>0, <1>6 DEF Planned
    <2>3. CurrentVersion(e) = n /\ c.seen[e] # Absent
        BY <1>0, <2>2, PlanIs DEF PlanOK
    <2> HIDE DEF n
    <2>4. \A v \in 1..n : v \in DOMAIN chain'[e] /\ Aged(chain[e][v], chain'[e][v], instant)
        <3> SUFFICES ASSUME NEW v \in 1..n PROVE Aged(chain[e][v], chain'[e][v], instant)
            BY <1>0, <2>1
        <3>1. CASE v = n
            <4>1. chain[e][v].current
                BY <1>0, <1>3, <2>3, <3>1
            <4> QED
                BY <1>0, <1>2, <2>1, <3>1, <4>1
        <3>2. CASE v # n
            <4>1. ~ chain[e][v].current /\ chain'[e][v] = chain[e][v]
                BY <1>1, <2>1, <3>2
            <4> QED
                BY <1>2, <4>1
        <3> QED
            BY <3>1, <3>2
    <2>5. \A v \in DOMAIN chain'[e] : v \notin 1..n <=> v = n + 1
        BY <1>0, <2>1
    <2>6. AsOf(e, instant)' = {n + 1} /\ n + 1 \in DOMAIN chain'[e]
        <3>1. AsOf(e, instant)' = {v \in DOMAIN chain'[e] : v \notin 1..n}
            BY <1>5, <2>1, <2>4, <2>5
        <3> QED
            BY <1>0, <2>1, <2>5, <3>1
    <2>7. chain'[e][n + 1].text = c.seen[e]
        BY <2>1 DEF NewRow
    <2>8. Answers(e, instant, c.seen[e])'
        BY <2>3, <2>6, <2>7 DEF Answers
    <2> QED
        BY <1>5, <2>1, <2>4, <2>5, <2>8
<1>7. CASE Retired(c, e)
    <2>1. PICK p \in Archived(c.seen) :
            /\ p.entity = e /\ p.prev \in 1..n
            /\ DOMAIN chain'[e] = 1..n
            /\ \A v \in 1..n : chain'[e][v] = IF v = p.prev THEN Ended(chain[e][v], c.now) ELSE chain[e][v]
        BY <1>0, <1>7 DEF Retired
    <2>2. p.prev = CurrentVersion(e) /\ c.seen[e] = Absent
        BY <1>0, <2>1, PlanIs DEF PlanOK
    <2> HIDE DEF n
    <2>3. p.prev = n /\ chain[e][n].current
        <3>1. p.prev # 0
            BY <1>0, <2>1
        <3>2. chain[e][p.prev].current
            BY <1>3, <2>2, <3>1
        <3> QED
            BY <1>1, <2>1, <3>2
    <2>4. \A v \in 1..n : v \in DOMAIN chain'[e] /\ Aged(chain[e][v], chain'[e][v], instant)
        <3> SUFFICES ASSUME NEW v \in 1..n PROVE Aged(chain[e][v], chain'[e][v], instant)
            BY <2>1
        <3>1. CASE v = n
            BY <1>0, <1>2, <2>1, <2>3, <3>1
        <3>2. CASE v # n
            <4>1. ~ chain[e][v].current /\ chain'[e][v] = chain[e][v]
                BY <1>1, <2>1, <2>3, <3>2
            <4> QED
                BY <1>2, <4>1
        <3> QED
            BY <3>1, <3>2
    <2>5. AsOf(e, instant)' = {}
        <3>1. AsOf(e, instant)' = {v \in DOMAIN chain'[e] : v \notin 1..n}
            BY <1>5, <2>1, <2>4
        <3> QED
            BY <2>1, <3>1
    <2>6. Answers(e, instant, c.seen[e])'
        BY <2>2, <2>5 DEF Answers
    <2> QED
        BY <1>5, <2>1, <2>4, <2>6
<1>8. CASE Untouched(c, e)
    <2>1. chain'[e] = chain[e]
        BY <1>8 DEF Untouched
    <2>2. \A at, t : Answers(e, at, t)' <=> Answers(e, at, t)
        BY <2>1 DEF Answers, AsOf
    <2>3. Answers(e, c.now, c.seen[e])
        <3>1. \A p \in Plan(c.seen) \cup Archived(c.seen) : p.entity # e
            BY <1>0, <1>8 DEF Untouched
        <3>2. \A f \in Entities : \A v \in DOMAIN chain[f] : chain[f][v].to < instant
            BY DEF CallAlone
        <3> QED
            BY <1>0, <3>1, <3>2, UnplannedAnswers
    <2>4. \A v \in DOMAIN chain'[e] :
             /\ chain'[e][v].from \in 1..instant /\ chain'[e][v].to \in 0..instant
             /\ chain'[e][v].current <=> chain'[e][v].to = Open
        BY <2>1 DEF Windows
    <2>5. Answers(e, instant, c.seen[e])'
        <3>1. Answers(e, instant, c.seen[e])
            BY <1>0, <2>3
        <3> QED
            BY <2>2, <3>1
    <2> HIDE DEF n
    <2> QED
        BY <2>2, <2>4, <2>5
<1> QED
    BY <1>6, <1>7, <1>8, WrittenIs

\* The write, whether it conflicts or not.
LEMMA WriteTravels ==
    ASSUME IndexInv, TravelInv, NEW r \in Indexings, Write(r)
    PROVE  TravelInv'
<1> SUFFICES ASSUME ~ overlapped' PROVE TravelInv'
    BY DEF TravelInv
<1>c. PICK c : c = indexing[r]
    OBVIOUS
<1>0. /\ c.pc = "writing" /\ ~ overlapped /\ instant' = instant /\ instant \in Nat
      /\ DOMAIN indexing = Indexings /\ Reading(c) /\ CallOK(c) /\ CallAlone(c)
      /\ RowsOK /\ IndexAudit /\ Windows /\ OneCall /\ ViewsAnswered
    BY <1>c DEF Write, TravelInv, IndexInv, CallsOK, RowsOK, Reading
<1>1. CASE Conflict(c)
    <2>1. /\ indexing' = [indexing EXCEPT ![r] = Idle] /\ UNCHANGED <<chain, views, instant>>
          /\ ~ Reading(Idle) /\ indexing[r].pc # "idle"
        BY <1>0, <1>1, <1>c DEF Write, Reading, Idle
    <2> QED
        BY <1>0, <2>1, LocalStepTravels
<1>2. CASE ~ Conflict(c)
    <2>1. /\ chain' = Written(c)
          /\ indexing' = [indexing EXCEPT ![r] = [pc |-> "committed", number |-> c.number]]
          /\ views' = views \cup {[at |-> c.now, seen |-> c.seen]}
        BY <1>2, <1>c DEF Write
    <2>2. \A q \in Indexings : ~ Reading(indexing'[q]) /\ (q # r => indexing'[q].pc = "idle")
        <3>1. \A q \in Indexings : q # r => indexing[q].pc = "idle" /\ indexing'[q] = indexing[q]
            BY <1>0, <1>c, <2>1 DEF OneCall
        <3>2. indexing'[r].pc = "committed"
            BY <1>0, <2>1
        <3> QED
            BY <3>1, <3>2 DEF Reading
    <2>3. ASSUME NEW e \in Entities
          PROVE
             /\ \A v \in DOMAIN chain'[e] :
                   /\ chain'[e][v].from \in 1..instant /\ chain'[e][v].to \in 0..instant
                   /\ chain'[e][v].current <=> chain'[e][v].to = Open
             /\ \A at \in 1..instant : \A t : at < instant /\ Answers(e, at, t) => Answers(e, at, t)'
             /\ Answers(e, instant, c.seen[e])'
        BY <1>0, <1>2, <2>1, WrittenAnswers
    <2>4. Windows'
        BY <1>0, <2>3 DEF Windows, Open
    <2>5. ViewsAnswered'
        <3> SUFFICES ASSUME NEW w \in views'
                     PROVE  w.at \in 1..instant /\ \A e \in Entities : Answers(e, w.at, w.seen[e])'
            BY <1>0 DEF ViewsAnswered
        <3>1. CASE w \in views
            <4>1. w.at \in 1..instant /\ w.at < instant /\ \A e \in Entities : Answers(e, w.at, w.seen[e])
                BY <1>0, <3>1 DEF ViewsAnswered, CallAlone
            <4>2. \A e \in Entities : Answers(e, w.at, w.seen[e])'
                BY <2>3, <4>1
            <4> QED
                BY <4>1, <4>2
        <3>2. CASE w = [at |-> c.now, seen |-> c.seen]
            <4>1. w.at = instant /\ w.seen = c.seen /\ instant \in 1..instant
                BY <1>0, <3>2 DEF CallAlone, CallOK
            <4>2. \A e \in Entities : Answers(e, instant, c.seen[e])'
                BY <2>3
            <4>3. \A e \in Entities : Answers(e, w.at, w.seen[e])'
                BY <1>0, <4>1, <4>2
            <4> QED
                BY <4>1, <4>3
        <3> QED
            BY <2>1, <3>1, <3>2
    <2>6. OneCall'
        BY <2>2 DEF OneCall
    <2> QED
        BY <2>2, <2>4, <2>5, <2>6 DEF TravelInv
<1> QED
    BY <1>1, <1>2

\* Every step.
LEMMA TravelInvNext == IndexInv /\ TravelInv /\ [IndexNext]_indexVars => TravelInv'
<1> SUFFICES ASSUME IndexInv, TravelInv, [IndexNext]_indexVars PROVE TravelInv'
    OBVIOUS
<1>1. ASSUME UNCHANGED <<chain, indexing, instant, views, overlapped>> PROVE TravelInv'
    <2>1. /\ \A e \in Entities : \A at, t : Answers(e, at, t)' <=> Answers(e, at, t)
          /\ \A s : Plan(s)' = Plan(s) /\ Archived(s)' = Archived(s)
        BY <1>1 DEF Answers, AsOf, Plan, Archived, CurrentVersion
    <2>2. overlapped' = overlapped /\ (OneCall' <=> OneCall) /\ (Windows' <=> Windows)
        BY <1>1 DEF OneCall, Windows
    <2>3. ViewsAnswered => ViewsAnswered'
        BY <1>1, <2>1 DEF ViewsAnswered
    <2>4. \A r \in Indexings : CallAlone(indexing[r]) => CallAlone(indexing[r])'
        BY <1>1, <2>1 DEF CallAlone
    <2>5. \A r \in Indexings : Reading(indexing[r])' <=> Reading(indexing[r])
        BY <1>1 DEF Reading
    <2> QED
        BY <2>2, <2>3, <2>4, <2>5 DEF TravelInv
<1>2. CASE UNCHANGED indexVars
    BY <1>1, <1>2 DEF indexVars
<1>3. ASSUME NEW e \in Entities, Edit(e) PROVE TravelInv'
    BY <1>1, <1>3 DEF Edit
<1> QED
    BY <1>2, <1>3, CollectTravels, DiffTravels, QuietStepTravels, WriteTravels DEF IndexNext, IndexStep

\* Time travel: as long as no two calls overlapped, the index answers the instant
\* of an indexing, for ever after, with the meeting that indexing read.
THEOREM TimeTravelHolds == IndexSpec => []TimeTravel
<1>1. IndexInit => IndexInv /\ TravelInv
    BY IndexInvInit, TravelInvInit
<1>2. IndexInv /\ TravelInv /\ [IndexNext]_indexVars => (IndexInv /\ TravelInv)'
    BY IndexInvNext, TravelInvNext
<1>3. IndexInv /\ TravelInv => TimeTravel
    BY TravelIsTime DEF IndexInv
<1> QED
    BY <1>1, <1>2, <1>3, PTL DEF IndexSpec
=============================================================================
