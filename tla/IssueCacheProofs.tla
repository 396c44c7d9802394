------------------------- MODULE IssueCacheProofs -------------------------
(***************************************************************************)
(* The issue queries of a client, for any issues, edits and queries and any *)
(* number of lost connections and failed fetches: once everything is at     *)
(* rest, tables show the database and no refused edit stays on the screen.  *)
(***************************************************************************)
EXTENDS IssueCache, SequenceTheorems, TLAPS

-----------------------------------------------------------------------------
(* Types.                                                                   *)

(* A query of key k, with an answer exactly while one waits to be taken.    *)
WellFormed(k, q) == q \in Query(k) /\ (q.stage = "read" <=> q.answer # None)

(* The type invariant, with the domains that it leaves open.                *)
Typed ==
    /\ IssueCacheTypeOK
    /\ DOMAIN query = Key /\ DOMAIN snapshot = Mine
    /\ \A e \in Mine : snapshot[e] \in [Key -> {snapshot[e][k] : k \in Key}]
    /\ \A e \in Mine, k \in Key : snapshot[e][k] \in Data(k) \cup {None}

LEMMA DataIsNone ==
    ASSUME NEW k \in Key, NEW d \in Data(k)
    PROVE  d # None
BY IssueCacheAssumption DEF Data, Value

(* What the query client does to a query keeps it well formed.              *)
LEMMA QuerySteps ==
    ASSUME NEW k \in Key, NEW q, WellFormed(k, q)
    PROVE  /\ WellFormed(k, StartFetch(q)) /\ WellFormed(k, Invalidate(q))
           /\ WellFormed(k, Cancel(q)) /\ WellFormed(k, Refreshed(q, k))
           /\ \A d \in Data(k) : WellFormed(k, SetData(q, d))
           /\ \A i \in Issue, v \in Value : WellFormed(k, Patched(q, k, i, v))
<1>1. WellFormed(k, StartFetch(q))
  BY DEF WellFormed, StartFetch, Query
<1>2. WellFormed(k, Invalidate(q))
  BY DEF WellFormed, Invalidate, StartFetch, Query
<1>3. WellFormed(k, Cancel(q))
  BY DEF WellFormed, Cancel, Query, Nothing
<1>4. ASSUME NEW d \in Data(k) PROVE WellFormed(k, SetData(q, d))
  BY DEF WellFormed, SetData, Query
<1>5. ASSUME NEW i \in Issue, NEW v \in Value PROVE WellFormed(k, Patched(q, k, i, v))
  <2>1. CASE i \in Covers[k] /\ q.data # None
    <3>1. q.data \in Data(k)
      BY <2>1 DEF WellFormed, Query
    <3>2. [q.data EXCEPT ![i] = v] \in Data(k)
      BY <3>1 DEF Data
    <3>. QED  BY <2>1, <3>2, <1>4 DEF Patched
  <2>2. CASE ~(i \in Covers[k] /\ q.data # None)
    BY <2>2 DEF Patched
  <2>. QED  BY <2>1, <2>2
<1>. QED  BY <1>1, <1>2, <1>3, <1>4, <1>5 DEF Refreshed

LEMMA WireTypes ==
    ASSUME wire \in Seq(Edit)
    PROVE  /\ \A n \in 1..Len(wire) : wire[n] \in Edit
           /\ \A e \in Edit : Append(wire, e) \in Seq(Edit)
           /\ wire # <<>> => Head(wire) \in Edit /\ Tail(wire) \in Seq(Edit)
BY ElementOfSeq, HeadTailProperties, AppendProperties

LEMMA InitTyped == Init => Typed
<1>. SUFFICES ASSUME Init PROVE Typed
  OBVIOUS
<1>1. \A k \in Key : query[k] \in Query(k) /\ ~(query[k].stage = "read") /\ query[k].answer = None
  BY DEF Init, EmptyQuery, Nothing, Query
<1>2. wire \in Seq(Edit) /\ drops \in 0..MaxDrops /\ failures \in 0..MaxFailures
  BY IssueCacheAssumption, EmptySeq DEF Init, IssueCacheAssumption
<1>3. IssueCacheTypeOK
  BY <1>1, <1>2 DEF Init, IssueCacheTypeOK, Value
<1>. QED  BY <1>3 DEF Init, Typed

(* Every query is well formed: a step leaves it, or does one of the above.   *)
LEMMA WellFormedAlways == Typed => \A k \in Key : WellFormed(k, query[k])
BY DEF Typed, IssueCacheTypeOK, WellFormed

LEMMA KeyTyped ==
    ASSUME Typed, NEW k \in Key, KeyStep(k)
    PROVE  Typed'
<1>1. \A j \in Key \ {k} : query'[j] = query[j]
  BY DEF Typed, KeyStep, Watch, Unwatch, Refetch, FetchRead, FetchDone, FetchFails
<1>2. DOMAIN query' = Key
  BY DEF Typed, KeyStep, Watch, Unwatch, Refetch, FetchRead, FetchDone, FetchFails
<1>3. WellFormed(k, query[k]) /\ \A j \in Key : WellFormed(j, query[j])
  BY WellFormedAlways
<1>4. WellFormed(k, query'[k])
  <2>1. CASE Watch(k)
    <3>1. WellFormed(k, [query[k] EXCEPT !.watched = TRUE])
      BY <1>3 DEF WellFormed, Query
    <3>. QED  BY <2>1, <3>1, QuerySteps DEF Watch, Typed
  <2>2. CASE Unwatch(k)
    <3>1. query'[k] = [query[k] EXCEPT !.watched = FALSE]
      BY <2>2 DEF Unwatch, Typed
    <3>. QED  BY <3>1, <1>3 DEF WellFormed, Query
  <2>6. CASE Refetch(k)
    <3>1. query'[k] = StartFetch(query[k])
      BY <2>6 DEF Refetch, Typed
    <3>. QED  BY <1>3, <3>1, QuerySteps
  <2>3. CASE FetchRead(k)
    <3>1. [i \in Covers[k] |-> server[i]] \in Data(k)
      BY IssueCacheAssumption DEF Typed, IssueCacheTypeOK, Data, IssueCacheAssumption
    <3>. QED  BY <2>3, <1>3, <3>1, DataIsNone DEF FetchRead, Typed, WellFormed, Query
  <2>4. CASE FetchDone(k)
    <3>1. query[k].answer \in Data(k)
      BY <2>4, <1>3 DEF FetchDone, WellFormed, Query
    <3>2. WellFormed(k, SetData(query[k], query[k].answer))
      BY <1>3, <3>1, QuerySteps
    <3>. QED  BY <2>4, <3>2 DEF FetchDone, Typed, WellFormed, Query, Nothing
  <2>5. CASE FetchFails(k)
    <3>1. query'[k] = [query[k] EXCEPT !.stage = "idle", !.answer = None,
                                       !.kept = Nothing, !.invalid = TRUE, !.failed = TRUE]
      BY <2>5 DEF FetchFails, Typed
    <3>2. query[k] \in Query(k) /\ Nothing \in [data: Data(k) \cup {None}, invalid: BOOLEAN, failed: BOOLEAN]
      BY <1>3 DEF WellFormed, Nothing
    <3>3. query'[k] \in Query(k)
      BY <3>1, <3>2 DEF Query
    <3>. QED  BY <3>1, <3>2, <3>3 DEF WellFormed, Query
  <2>. QED  BY <2>1, <2>2, <2>3, <2>4, <2>5, <2>6 DEF KeyStep
<1>5. \A j \in Key : WellFormed(j, query'[j])
  BY <1>1, <1>3, <1>4
<1>6. UNCHANGED <<database, publishing, wire, link, own, snapshot, overlapped, drops>>
  BY DEF KeyStep, Watch, Unwatch, Refetch, FetchRead, FetchDone, FetchFails, edits, bounds
<1>7. missed' \subseteq Key /\ failures' \in 0..MaxFailures
  BY IssueCacheAssumption DEF KeyStep, Watch, Unwatch, Refetch, FetchRead, FetchDone, FetchFails,
    Typed, IssueCacheTypeOK, bounds, IssueCacheAssumption
<1>. QED  BY <1>2, <1>5, <1>6, <1>7 DEF Typed, IssueCacheTypeOK, WellFormed, database, link

LEMMA CommitTyped ==
    ASSUME Typed, NEW e \in Edit, Commit(e)
    PROVE  /\ server' \in [Issue -> Value] /\ made' \subseteq Edit
           /\ publishing' \subseteq made'
BY IssueCacheAssumption DEF Commit, Typed, IssueCacheTypeOK, Value, IssueCacheAssumption

LEMMA EventTyped ==
    ASSUME Typed,
           \/ \E e \in Edit : OtherEdit(e) \/ Publish(e)
           \/ Receive \/ Hear \/ Register \/ Drop
    PROVE  Typed'
<1>1. CASE \E e \in Edit : OtherEdit(e)
  BY <1>1, CommitTyped DEF OtherEdit, Typed, IssueCacheTypeOK, link, cache, edits, bounds
<1>2. CASE \E e \in Edit : Publish(e)
  BY <1>2, WireTypes DEF Publish, Typed, IssueCacheTypeOK, database, link, edits, bounds
<1>3. CASE Receive
  <2>1. Head(wire) \in Edit /\ wire' \in Seq(Edit) /\ IssueOf[Head(wire)] \in Issue
    BY <1>3, WireTypes, IssueCacheAssumption
    DEF Receive, Typed, IssueCacheTypeOK, IssueCacheAssumption
  <2>2. ASSUME NEW k \in Key PROVE WellFormed(k, query'[k])
    <3>1. WellFormed(k, Patched(query[k], k, IssueOf[Head(wire)], Head(wire)))
      BY <2>1, WellFormedAlways, QuerySteps DEF Value
    <3>. QED  BY <1>3, <3>1, QuerySteps DEF Receive
  <2>. QED
    BY <1>3, <2>1, <2>2 DEF Receive, Typed, IssueCacheTypeOK, WellFormed, database, link, edits, bounds
<1>4. CASE Hear
  <2>1. \A k \in Key : WellFormed(k, query'[k])
    BY <1>4, WellFormedAlways, QuerySteps DEF Hear, cache
  <2>. QED
    BY <1>4, <2>1 DEF Hear, Typed, IssueCacheTypeOK, WellFormed, database, cache, edits, bounds
<1>5. CASE Register
  BY <1>5 DEF Register, Typed, IssueCacheTypeOK, database, cache, edits, bounds
<1>6. CASE Drop
  <2>1. wire' \in Seq(Edit)
    BY <1>6, EmptySeq DEF Drop
  <2>2. drops' \in 0..MaxDrops
    BY <1>6, IssueCacheAssumption DEF Drop, Typed, IssueCacheTypeOK, IssueCacheAssumption
  <2>3. missed' \subseteq Key
    BY <1>6 DEF Drop, Typed, IssueCacheTypeOK
  <2>4. UNCHANGED <<server, made, publishing, before, query, own, snapshot, overlapped, failures>>
        /\ heard' \in BOOLEAN /\ registered' \in BOOLEAN
    BY <1>6 DEF Drop, database, edits
  <2>. QED  BY <2>1, <2>2, <2>3, <2>4 DEF Typed, IssueCacheTypeOK
<1>. QED  BY <1>1, <1>2, <1>3, <1>4, <1>5, <1>6

(* Values of own that an edit can take.                                     *)
LEMMA OwnTyped ==
    ASSUME Typed, NEW e \in Mine, OwnStep(e)
    PROVE  Typed'
<1>1. /\ e \in Edit /\ IssueOf[e] \in Issue /\ e \in Value
      /\ \A k \in Key : WellFormed(k, query[k])
  BY IssueCacheAssumption, WellFormedAlways DEF IssueCacheAssumption, Value
<1>2. CASE Mutate(e)
  <2> DEFINE settled(k) == IF k \in CancelledKey THEN Cancel(query[k]) ELSE query[k]
  <2>1. \A k \in Key : WellFormed(k, settled(k))
    BY <1>1, QuerySteps
  <2>2. \A k \in Key : query'[k] = Patched(settled(k), k, IssueOf[e], e)
    BY <1>2 DEF Mutate
  <2>3. \A k \in Key : WellFormed(k, query'[k])
    BY <1>1, <2>1, <2>2, QuerySteps
  <2>4. \A k \in Key : settled(k).data \in Data(k) \cup {None}
    BY <2>1 DEF WellFormed, Query
  <2>5. /\ DOMAIN snapshot' = Mine
        /\ \A f \in Mine : snapshot'[f] \in [Key -> {snapshot'[f][k] : k \in Key}]
        /\ \A f \in Mine, k \in Key : snapshot'[f][k] \in Data(k) \cup {None}
    BY <1>2, <2>4 DEF Mutate, Typed
  <2>. QED
    BY <1>2, <2>3, <2>5 DEF Mutate, Typed, IssueCacheTypeOK, WellFormed, database, link, bounds
<1>3. CASE ServerApplies(e)
  BY <1>1, <1>3, CommitTyped DEF ServerApplies, Typed, IssueCacheTypeOK, link, cache, bounds
<1>4. CASE ServerRefuses(e)
  BY <1>4 DEF ServerRefuses, Typed, IssueCacheTypeOK, database, link, cache, bounds
<1>5. CASE MutationSucceeds(e)
  <2>1. ASSUME NEW k \in Key PROVE WellFormed(k, query'[k])
    <3>1. WellFormed(k, Patched(query[k], k, IssueOf[e], e))
      BY <1>1, QuerySteps
    <3>. QED  BY <1>5, <3>1, QuerySteps DEF MutationSucceeds
  <2>. QED
    BY <1>5, <2>1 DEF MutationSucceeds, Typed, IssueCacheTypeOK, WellFormed, database, link, bounds
<1>6. CASE MutationFails(e)
  <2>1. ASSUME NEW k \in Key PROVE WellFormed(k, query'[k])
    <3>1. WellFormed(k, IF snapshot[e][k] # None THEN SetData(query[k], snapshot[e][k]) ELSE query[k])
      BY <1>1, QuerySteps DEF Typed
    <3>. QED  BY <1>6, <3>1, QuerySteps DEF MutationFails
  <2>. QED
    BY <1>6, <2>1 DEF MutationFails, Typed, IssueCacheTypeOK, WellFormed, database, link, bounds
<1>. QED  BY <1>2, <1>3, <1>4, <1>5, <1>6 DEF OwnStep

LEMMA NextTyped == Typed /\ [Next]_vars => Typed'
<1>. SUFFICES ASSUME Typed, [Next]_vars PROVE Typed'
  OBVIOUS
<1>1. CASE UNCHANGED vars
  BY <1>1 DEF vars, link, cache, edits, bounds, Typed, IssueCacheTypeOK
<1>. QED  BY <1>1, KeyTyped, EventTyped, OwnTyped DEF Next

LEMMA TypedAlways == Spec => []Typed
BY InitTyped, NextTyped, PTL DEF Spec

(* Every variable of the queries, the socket and the database keeps its     *)
(* type, and a fetch holds an answer exactly while it has one to apply.     *)
THEOREM IssueCacheTypeCorrect == Spec => []IssueCacheTypeOK
<1>1. Typed => IssueCacheTypeOK
  BY DEF Typed
<1>. QED  BY <1>1, TypedAlways, PTL

-----------------------------------------------------------------------------
(* Tables.                                                                  *)

(* An event of the issue is still on its way.                               *)
Coming(i) == \/ \E e \in publishing : IssueOf[e] = i
             \/ \E n \in 1..Len(wire) : IssueOf[wire[n]] = i

(* Data of a query that only events still on their way can change.          *)
UpToDate(k, d) == \A i \in Covers[k] : d[i] = server[i] \/ Coming(i)

(* What a table's fetch was answered is up to date, and so is a table at    *)
(* rest, or something will fetch it again: an edit when it settles, or the  *)
(* next view of an invalid one; or it shows its error.                      *)
TableCurrent(k) ==
    k \in RefetchedKey \ missed =>
        /\ query[k].stage = "read" => UpToDate(k, query[k].answer)
        /\ query[k].stage = "idle" /\ query[k].data # None =>
             \/ \E e \in Mine : InFlight(e)
             \/ query[k].invalid /\ ~query[k].watched
             \/ query[k].failed
             \/ UpToDate(k, query[k].data)

TablesCurrent == \A k \in Key : TableCurrent(k)

(* An invalidated query is fetched again, now or when it is viewed, but for *)
(* one whose answer is on its way and is not asked for again.               *)
LEMMA InvalidatedIsCurrent ==
    ASSUME NEW k \in Key, NEW q, query'[k] = Invalidate(q), WellFormed(k, q),
           k \in RefetchedKey \ missed' /\ q.stage = "read" /\ (q.data = None \/ ~q.watched)
             => UpToDate(k, q.answer)'
    PROVE  TableCurrent(k)'
<1>1. CASE q.watched /\ (q.stage = "idle" \/ q.data # None)
  <2>1. query'[k].stage = "asked"
    BY <1>1 DEF Invalidate, StartFetch, WellFormed, Query
  <2>. QED  BY <2>1 DEF TableCurrent
<1>2. CASE ~(q.watched /\ (q.stage = "idle" \/ q.data # None))
  <2>1. query'[k] = [q EXCEPT !.invalid = TRUE]
    BY <1>2 DEF Invalidate
  <2>2. /\ query'[k].stage = q.stage /\ query'[k].answer = q.answer
        /\ query'[k].watched = q.watched /\ query'[k].invalid
    BY <2>1 DEF WellFormed, Query
  <2>3. query'[k].stage = "idle" => ~query'[k].watched
    BY <1>2, <2>2
  <2>4. k \in RefetchedKey \ missed' /\ query'[k].stage = "read" => UpToDate(k, query[k].answer)'
    BY <1>2, <2>2 DEF UpToDate
  <2>. QED  BY <2>2, <2>3, <2>4 DEF TableCurrent
<1>. QED  BY <1>1, <1>2

(* Neither the database nor what is on its way changes for the issues of k. *)
LEMMA UpToDateStays ==
    ASSUME NEW k, NEW d, UpToDate(k, d),
           \A i \in Covers[k] : \/ server'[i] = server[i] /\ (Coming(i) => Coming(i)')
                                \/ Coming(i)'
    PROVE  UpToDate(k, d)'
BY DEF UpToDate

LEMMA UnchangedIsCurrent ==
    ASSUME NEW k \in Key, TableCurrent(k), query'[k] = query[k],
           k \in missed => k \in missed',
           (\E e \in Mine : InFlight(e)) => \E e \in Mine : InFlight(e)',
           k \in RefetchedKey \ missed' /\ query[k].stage # "asked"
             /\ (query[k].stage = "idle" => query[k].data # None) =>
               \A i \in Covers[k] : \/ server'[i] = server[i] /\ (Coming(i) => Coming(i)')
                                    \/ Coming(i)'
    PROVE  TableCurrent(k)'
<1>. SUFFICES ASSUME k \in RefetchedKey \ missed' PROVE TableCurrent(k)'
  BY DEF TableCurrent
<1>1. CASE query[k].stage = "read"
  <2>1. UpToDate(k, query[k].answer)
    BY <1>1 DEF TableCurrent
  <2>2. UpToDate(k, query[k].answer)'
    <3> DEFINE d == query[k].answer
    <3>1. \A i \in Covers[k] : d[i] = server'[i] \/ Coming(i)'
      BY <1>1, <2>1 DEF UpToDate
    <3>. QED  BY <3>1 DEF UpToDate
  <2>. QED  BY <1>1, <2>2 DEF TableCurrent
<1>2. CASE query[k].stage = "idle" /\ query[k].data # None
  <2>1. UpToDate(k, query[k].data) => UpToDate(k, query[k].data)'
    <3> SUFFICES ASSUME UpToDate(k, query[k].data) PROVE UpToDate(k, query[k].data)'
      OBVIOUS
    <3> DEFINE d == query[k].data
    <3>1. \A i \in Covers[k] : d[i] = server'[i] \/ Coming(i)'
      BY <1>2 DEF UpToDate
    <3>. QED  BY <3>1 DEF UpToDate
  <2>. QED  BY <1>2, <2>1 DEF TableCurrent
<1>. QED  BY <1>1, <1>2 DEF TableCurrent

(* Steps that leave alone what is on its way and which edits are in flight. *)
LEMMA SameComing ==
    ASSUME UNCHANGED <<publishing, wire>>
    PROVE  \A i : Coming(i) => Coming(i)'
BY DEF Coming

LEMMA KeyKeepsTables ==
    ASSUME Typed, TablesCurrent, NEW k \in Key, KeyStep(k)
    PROVE  TablesCurrent'
<1>1. UNCHANGED <<server, publishing, wire, own>>
  BY DEF KeyStep, Watch, Unwatch, Refetch, FetchRead, FetchDone, FetchFails, database, edits
<1>2. /\ \A i : Coming(i) => Coming(i)'
      /\ (\E e \in Mine : InFlight(e)) => \E e \in Mine : InFlight(e)'
  BY <1>1, SameComing DEF InFlight
<1>3. \A j \in Key \ {k} : query'[j] = query[j] /\ (j \in missed => j \in missed')
  BY DEF KeyStep, Watch, Unwatch, Refetch, FetchRead, FetchDone, FetchFails, Typed
<1>4. \A j \in Key \ {k} : TableCurrent(j)'
  BY <1>1, <1>2, <1>3, UnchangedIsCurrent DEF TablesCurrent
<1>5. TableCurrent(k) /\ WellFormed(k, query[k])
  BY WellFormedAlways DEF TablesCurrent
<1>6. \A d : UpToDate(k, d) => UpToDate(k, d)'
  BY <1>1, <1>2, UpToDateStays
<1>7. ASSUME Watch(k) PROVE TableCurrent(k)'
  <2>1. PICK q : q = [query[k] EXCEPT !.watched = TRUE]
    OBVIOUS
  <2>2. /\ q.stage = query[k].stage /\ q.data = query[k].data /\ q.watched
        /\ q.invalid = query[k].invalid /\ q.answer = query[k].answer
        /\ q.failed = query[k].failed
    BY <1>5, <2>1 DEF WellFormed, Query
  <2>3. /\ query'[k] = IF FetchedOnMount(k) THEN StartFetch(q) ELSE q
        /\ missed' = missed
    BY <1>7, <2>1 DEF Watch, Typed
  <2>4. CASE FetchedOnMount(k)
    <3>1. query'[k].stage = "asked"
      BY <1>5, <2>1, <2>3, <2>4 DEF StartFetch, WellFormed, Query
    <3>. QED  BY <3>1 DEF TableCurrent
  <2>5. CASE ~FetchedOnMount(k)
    <3>1. query'[k] = q
      BY <2>3, <2>5
    <3>2. UpToDate(k, query[k].answer) => UpToDate(k, query[k].answer)'
      BY <1>6, <2>2, <3>1 DEF UpToDate
    <3>3. UpToDate(k, query[k].data) => UpToDate(k, query[k].data)'
      BY <1>6, <2>2, <3>1 DEF UpToDate
    <3>. QED  BY <1>2, <1>5, <2>2, <2>3, <2>5, <3>1, <3>2, <3>3 DEF TableCurrent, FetchedOnMount
  <2>. QED  BY <2>4, <2>5
<1>8. ASSUME Unwatch(k) PROVE TableCurrent(k)'
  <2>1. query'[k] = [query[k] EXCEPT !.watched = FALSE] /\ query[k].watched /\ missed' = missed
    BY <1>8 DEF Unwatch, Typed
  <2>2. /\ query'[k].stage = query[k].stage /\ query'[k].data = query[k].data
        /\ query'[k].answer = query[k].answer /\ query'[k].failed = query[k].failed
    BY <1>5, <2>1 DEF WellFormed, Query
  <2>3. UpToDate(k, query[k].answer) => UpToDate(k, query[k].answer)'
    BY <1>6, <2>2 DEF UpToDate
  <2>4. UpToDate(k, query[k].data) => UpToDate(k, query[k].data)'
    BY <1>6, <2>2 DEF UpToDate
  <2>. QED  BY <1>2, <1>5, <2>1, <2>2, <2>3, <2>4 DEF TableCurrent
<1>9. ASSUME FetchRead(k) PROVE TableCurrent(k)'
  <2>1. query'[k].stage = "read" /\ query'[k].answer = [i \in Covers[k] |-> server[i]]
    BY <1>5, <1>9 DEF FetchRead, Typed, WellFormed, Query
  <2>2. UpToDate(k, query[k].answer)'
    BY <1>1, <2>1 DEF UpToDate
  <2>. QED  BY <2>1, <2>2 DEF TableCurrent
<1>10. ASSUME FetchDone(k) PROVE TableCurrent(k)'
  <2>1. /\ query[k].stage = "read" /\ query'[k].data = query[k].answer
        /\ query'[k].stage = "idle" /\ missed' = missed
    BY <1>5, <1>10 DEF FetchDone, Typed, SetData, WellFormed, Query
  <2>2. k \in RefetchedKey \ missed => UpToDate(k, query[k].answer)
    BY <1>5, <2>1 DEF TableCurrent
  <2>3. k \in RefetchedKey \ missed => UpToDate(k, query[k].data)'
    BY <1>6, <2>1, <2>2 DEF UpToDate
  <2>. QED  BY <2>1, <2>3 DEF TableCurrent
<1>11. ASSUME FetchFails(k) PROVE TableCurrent(k)'
  <2>1. query'[k].stage = "idle" /\ query'[k].failed
    BY <1>5, <1>11 DEF FetchFails, Typed, WellFormed, Query
  <2>. QED  BY <2>1 DEF TableCurrent
<1>12. ASSUME Refetch(k) PROVE TableCurrent(k)'
  <2>1. query'[k].stage = "asked"
    BY <1>5, <1>12 DEF Refetch, StartFetch, Typed, WellFormed, Query
  <2>. QED  BY <2>1 DEF TableCurrent
<1>13. TableCurrent(k)'
  BY <1>7, <1>8, <1>9, <1>10, <1>11, <1>12 DEF KeyStep
<1>. QED  BY <1>4, <1>13 DEF TablesCurrent

(* A committed edit is on its way as long as its event is.                  *)
LEMMA CommitComes ==
    ASSUME Typed, NEW e \in Edit, Commit(e), UNCHANGED wire
    PROVE  \A i \in Issue : \/ server'[i] = server[i] /\ (Coming(i) => Coming(i)')
                            \/ Coming(i)'
<1>1. ASSUME NEW i \in Issue, i # IssueOf[e] PROVE server'[i] = server[i]
  BY <1>1 DEF Commit, Typed, IssueCacheTypeOK
<1>2. Coming(IssueOf[e])' /\ \A i : Coming(i) => Coming(i)'
  BY DEF Commit, Coming
<1>. QED  BY <1>1, <1>2

LEMMA CommitKeepsTables ==
    ASSUME Typed, TablesCurrent, NEW e \in Edit, OtherEdit(e) \/ (e \in Mine /\ ServerApplies(e))
    PROVE  TablesCurrent'
<1>1. Commit(e) /\ UNCHANGED <<wire, query, missed>>
  BY DEF OtherEdit, ServerApplies, cache
<1>2. (\E f \in Mine : InFlight(f)) => \E f \in Mine : InFlight(f)'
  BY DEF OtherEdit, ServerApplies, InFlight, edits, Typed, IssueCacheTypeOK
<1>3. \A k \in Key : Covers[k] \subseteq Issue
  BY IssueCacheAssumption DEF IssueCacheAssumption
<1>. QED  BY <1>1, <1>2, <1>3, CommitComes, UnchangedIsCurrent DEF TablesCurrent

(* What an event leaves undone is in missed.                                *)
LEMMA PublishKeepsTables ==
    ASSUME Typed, TablesCurrent, NEW e \in Edit, Publish(e)
    PROVE  TablesCurrent'
<1>1. UNCHANGED <<server, query, own>> /\ publishing' = publishing \ {e} /\ wire \in Seq(Edit)
  BY DEF Publish, database, edits, Typed, IssueCacheTypeOK
<1>2. (\E f \in Mine : InFlight(f)) => \E f \in Mine : InFlight(f)'
  BY <1>1 DEF InFlight
<1>3. \A i : Coming(i) /\ i # IssueOf[e] => Coming(i)'
  <2>1. /\ \A n \in 1..Len(wire) : n \in 1..Len(wire') /\ wire'[n] = wire[n]
    BY <1>1, AppendProperties, LenProperties DEF Publish
  <2>. QED  BY <1>1, <2>1 DEF Coming
<1>4. CASE registered
  <2>1. wire' = Append(wire, e) /\ missed' = missed
    BY <1>4 DEF Publish
  <2>2. Len(wire') \in 1..Len(wire') /\ wire'[Len(wire')] = e
    BY <1>1, <2>1, AppendProperties, LenProperties
  <2>3. \A i : Coming(i) => Coming(i)'
    BY <1>3, <2>2 DEF Coming
  <2>. QED  BY <1>1, <1>2, <2>1, <2>3, UnchangedIsCurrent DEF TablesCurrent
<1>5. CASE ~registered
  <2>1. missed' = missed \cup {k \in Key : Holds(k, IssueOf[e]) \/ Deaf(k)}
    BY <1>5 DEF Publish
  <2>2. ASSUME NEW k \in Key, k \notin missed', query[k].stage # "asked",
               query[k].stage = "idle" => query[k].data # None
        PROVE  IssueOf[e] \notin Covers[k]
    BY <2>1, <2>2 DEF Holds, Deaf, Typed, IssueCacheTypeOK, Query
  <2>. QED  BY <1>1, <1>2, <1>3, <2>1, <2>2, UnchangedIsCurrent DEF TablesCurrent
<1>. QED  BY <1>4, <1>5

LEMMA DropKeepsTables ==
    ASSUME Typed, TablesCurrent, Drop
    PROVE  TablesCurrent'
<1>1. /\ UNCHANGED <<server, query, own, publishing>>
      /\ missed' = missed \cup
           {k \in Key : \E n \in 1..Len(wire) : Holds(k, IssueOf[wire[n]]) \/ Deaf(k)}
  BY DEF Drop, database, edits
<1>2. (\E f \in Mine : InFlight(f)) => \E f \in Mine : InFlight(f)'
  BY <1>1 DEF InFlight
<1>3. ASSUME NEW k \in Key, k \notin missed', query[k].stage # "asked",
             query[k].stage = "idle" => query[k].data # None,
             NEW i \in Covers[k], Coming(i)
      PROVE  Coming(i)'
  <2>1. CASE \E e \in publishing : IssueOf[e] = i
    BY <1>1, <2>1 DEF Coming
  <2>2. CASE \E n \in 1..Len(wire) : IssueOf[wire[n]] = i
    <3>1. ~Holds(k, i) /\ ~Deaf(k)
      BY <1>1, <1>3, <2>2
    <3>. QED  BY <1>3, <3>1 DEF Holds, Deaf, Typed, IssueCacheTypeOK, Query
  <2>. QED  BY <1>3, <2>1, <2>2 DEF Coming
<1>. QED  BY <1>1, <1>2, <1>3, UnchangedIsCurrent DEF TablesCurrent

(* A patch changes what a query shows, not its fetch.                       *)
LEMMA PatchKeepsFetch ==
    ASSUME NEW k \in Key, NEW q, WellFormed(k, q), NEW i, NEW v
    PROVE  /\ Patched(q, k, i, v).stage = q.stage /\ Patched(q, k, i, v).answer = q.answer
           /\ Patched(q, k, i, v).watched = q.watched
BY DEF Patched, SetData, WellFormed, Query

LEMMA PatchShows ==
    ASSUME NEW k \in Key, NEW q, WellFormed(k, q), NEW i \in Issue, NEW v \in Value
    PROVE  Patched(q, k, i, v).data = None <=> q.data = None
<1>1. CASE i \in Covers[k] /\ q.data # None
  <2>1. Patched(q, k, i, v).data = [q.data EXCEPT ![i] = v] /\ q.data \in Data(k)
    BY <1>1 DEF Patched, SetData, WellFormed, Query
  <2>2. [q.data EXCEPT ![i] = v] \in Data(k)
    BY <2>1 DEF Data
  <2>. QED  BY <1>1, <2>1, <2>2, DataIsNone
<1>2. CASE ~(i \in Covers[k] /\ q.data # None)
  BY <1>2 DEF Patched
<1>. QED  BY <1>1, <1>2

LEMMA ReceiveKeepsTables ==
    ASSUME Typed, TablesCurrent, Receive
    PROVE  TablesCurrent'
<1>1. PICK e : e = Head(wire)
  OBVIOUS
<1>2. /\ UNCHANGED <<server, publishing>> /\ wire # <<>> /\ wire' = Tail(wire)
      /\ query' = [k \in Key |-> Refreshed(Patched(query[k], k, IssueOf[e], e), k)]
      /\ missed' = missed \cup {k \in Key : Deaf(k) /\ IssueOf[e] \in Covers[k]}
  BY <1>1 DEF Receive, database
<1>3. e \in Edit /\ e \in Value /\ IssueOf[e] \in Issue /\ wire \in Seq(Edit)
  BY <1>1, <1>2, WireTypes, IssueCacheAssumption
  DEF Typed, IssueCacheTypeOK, IssueCacheAssumption, Value
<1>4. \A i : Coming(i) /\ i # IssueOf[e] => Coming(i)'
  <2>1. ASSUME NEW n \in 1..Len(wire), wire[n] # e
        PROVE  n - 1 \in 1..Len(wire') /\ wire'[n - 1] = wire[n]
    <3>1. wire[1] = e
      BY <1>1, <1>2, <1>3
    <3>2. Len(wire') = Len(wire) - 1 /\ \A m \in 1..Len(wire') : wire'[m] = wire[m + 1]
      BY <1>2, <1>3, HeadTailProperties
    <3>3. n # 1 /\ n \in Nat /\ Len(wire) \in Nat
      BY <1>3, <2>1, <3>1, LenProperties
    <3>4. n - 1 \in 1..Len(wire')
      BY <2>1, <3>2, <3>3
    <3>. QED  BY <3>2, <3>3, <3>4
  <2>. QED  BY <1>2, <2>1 DEF Coming
<1>5. ASSUME NEW k \in Key PROVE TableCurrent(k)'
  <2>1. WellFormed(k, query[k]) /\ TableCurrent(k)
    BY WellFormedAlways DEF TablesCurrent
  <2>2. PICK q : q = Patched(query[k], k, IssueOf[e], e)
    OBVIOUS
  <2>3. /\ WellFormed(k, q) /\ q.stage = query[k].stage /\ q.answer = query[k].answer
        /\ q.watched = query[k].watched /\ (q.data = None <=> query[k].data = None)
    BY <1>3, <2>1, <2>2, QuerySteps, PatchKeepsFetch, PatchShows
  <2>4. CASE k \in RefetchedKey
    <3>1. query'[k] = Invalidate(q)
      BY <1>2, <2>2, <2>4 DEF Refreshed
    <3>2. ASSUME k \in RefetchedKey \ missed', q.stage = "read", q.data = None \/ ~q.watched
          PROVE  UpToDate(k, q.answer)'
      <4>1. IssueOf[e] \notin Covers[k] /\ k \notin missed
        BY <1>2, <2>3, <3>2 DEF Deaf
      <4>2. UpToDate(k, q.answer)
        BY <2>1, <2>3, <3>2, <4>1 DEF TableCurrent
      <4>. QED  BY <1>2, <1>4, <4>1, <4>2, UpToDateStays
    <3>. QED  BY <2>3, <3>1, <3>2, InvalidatedIsCurrent
  <2>5. CASE k \notin RefetchedKey
    BY <2>5 DEF TableCurrent
  <2>. QED  BY <2>4, <2>5
<1>. QED  BY <1>5 DEF TablesCurrent

(* An edit that starts will fetch the tables when it settles.               *)
LEMMA MutateKeepsTables ==
    ASSUME Typed, TablesCurrent, NEW e \in Mine, Mutate(e)
    PROVE  TablesCurrent'
<1>1. UNCHANGED <<server, publishing, wire, missed>> /\ \E f \in Mine : InFlight(f)'
  BY DEF Mutate, database, InFlight, Typed, IssueCacheTypeOK
<1>2. ASSUME NEW k \in Key PROVE TableCurrent(k)'
  <2>1. WellFormed(k, query[k]) /\ TableCurrent(k)
    BY WellFormedAlways DEF TablesCurrent
  <2>2. PICK q : q = IF k \in CancelledKey THEN Cancel(query[k]) ELSE query[k]
    OBVIOUS
  <2>3. WellFormed(k, q) /\ query'[k] = Patched(q, k, IssueOf[e], e)
    BY <2>1, <2>2, QuerySteps DEF Mutate
  <2>4. query'[k].stage = q.stage /\ query'[k].answer = q.answer
    BY <2>3, PatchKeepsFetch
  <2>5. q.stage = "read" => q = query[k]
    BY <2>1, <2>2 DEF Cancel, WellFormed, Query
  <2>6. CASE k \in RefetchedKey \ missed /\ q.stage = "read"
    <3>1. UpToDate(k, q.answer)'
      BY <1>1, <2>1, <2>5, <2>6, SameComing, UpToDateStays DEF TableCurrent
    <3>2. UpToDate(k, query[k].answer)'
      BY <2>4, <3>1 DEF UpToDate
    <3>. QED  BY <2>4, <2>6, <3>2 DEF TableCurrent
  <2>7. CASE ~(k \in RefetchedKey \ missed /\ q.stage = "read")
    BY <1>1, <2>4, <2>7 DEF TableCurrent
  <2>. QED  BY <2>6, <2>7
<1>. QED  BY <1>2 DEF TablesCurrent

(* An edit that settles does.                                               *)
LEMMA SettleKeepsTables ==
    ASSUME Typed, TablesCurrent, NEW e \in Mine, MutationSucceeds(e) \/ MutationFails(e)
    PROVE  TablesCurrent'
<1>1. UNCHANGED <<server, publishing, wire, missed>>
  BY DEF MutationSucceeds, MutationFails, database
<1>2. e \in Value /\ IssueOf[e] \in Issue
  BY IssueCacheAssumption DEF IssueCacheAssumption, Value
<1>3. ASSUME NEW k \in Key PROVE TableCurrent(k)'
  <2>1. WellFormed(k, query[k]) /\ TableCurrent(k)
    BY WellFormedAlways DEF TablesCurrent
  <2>2. PICK q : /\ query'[k] = Refreshed(q, k) /\ WellFormed(k, q)
                 /\ q.stage = query[k].stage /\ q.answer = query[k].answer
    <3>1. CASE MutationSucceeds(e)
      BY <1>2, <2>1, <3>1, QuerySteps, PatchKeepsFetch DEF MutationSucceeds
    <3>2. CASE MutationFails(e)
      <4>1. CASE snapshot[e][k] # None
        <5>1. snapshot[e][k] \in Data(k)
          BY <4>1 DEF Typed
        <5>2. /\ query'[k] = Refreshed(SetData(query[k], snapshot[e][k]), k)
              /\ WellFormed(k, SetData(query[k], snapshot[e][k]))
          BY <2>1, <3>2, <4>1, <5>1, QuerySteps DEF MutationFails
        <5>3. /\ SetData(query[k], snapshot[e][k]).stage = query[k].stage
              /\ SetData(query[k], snapshot[e][k]).answer = query[k].answer
          BY <2>1 DEF SetData, WellFormed, Query
        <5>. QED  BY <5>2, <5>3
      <4>2. CASE snapshot[e][k] = None
        BY <2>1, <3>2, <4>2 DEF MutationFails
      <4>. QED  BY <4>1, <4>2
    <3>. QED  BY <3>1, <3>2
  <2>3. CASE k \in RefetchedKey
    <3>1. ASSUME k \in RefetchedKey \ missed', q.stage = "read" PROVE UpToDate(k, q.answer)'
      BY <1>1, <2>1, <2>2, <3>1, SameComing, UpToDateStays DEF TableCurrent
    <3>. QED  BY <2>2, <2>3, <3>1, InvalidatedIsCurrent DEF Refreshed
  <2>4. CASE k \notin RefetchedKey
    BY <2>4 DEF TableCurrent
  <2>. QED  BY <2>3, <2>4
<1>. QED  BY <1>3 DEF TablesCurrent

(* A reconnect has everything fetched again that can be.                    *)
LEMMA HearKeepsTables ==
    ASSUME Typed, TablesCurrent, Hear
    PROVE  TablesCurrent'
<1>1. UNCHANGED <<server, publishing, wire, own>>
  BY DEF Hear, database, edits
<1>2. CASE before
  <2>1. query' = [k \in Key |-> Invalidate(query[k])] /\ missed' = {k \in missed : Deaf(k)}
    BY <1>2 DEF Hear
  <2>2. ASSUME NEW k \in Key PROVE TableCurrent(k)'
    <3>1. WellFormed(k, query[k]) /\ TableCurrent(k)
      BY WellFormedAlways DEF TablesCurrent
    <3>2. ASSUME k \in RefetchedKey \ missed', query[k].stage = "read",
                 query[k].data = None \/ ~query[k].watched
          PROVE  UpToDate(k, query[k].answer) /\ \A i : Coming(i) => Coming(i)'
      BY <1>1, <2>1, <3>1, <3>2, SameComing DEF Deaf, TableCurrent
    <3>3. PICK q : q = query[k]
      OBVIOUS
    <3>4. ASSUME k \in RefetchedKey \ missed', q.stage = "read", q.data = None \/ ~q.watched
          PROVE  UpToDate(k, q.answer)'
      BY <1>1, <3>2, <3>3, <3>4, UpToDateStays
    <3>. QED  BY <2>1, <3>1, <3>3, <3>4, InvalidatedIsCurrent
  <2>. QED  BY <2>2 DEF TablesCurrent
<1>3. CASE ~before
  <2>1. UNCHANGED <<query, missed>>
    BY <1>3 DEF Hear, cache
  <2>. QED
    BY <1>1, <2>1, SameComing, UnchangedIsCurrent DEF InFlight, TablesCurrent
<1>. QED  BY <1>2, <1>3

LEMMA NextTables == Typed /\ TablesCurrent /\ [Next]_vars => TablesCurrent'
<1>. SUFFICES ASSUME Typed, TablesCurrent, [Next]_vars PROVE TablesCurrent'
  OBVIOUS
<1>1. ASSUME UNCHANGED <<server, publishing, wire, query, missed>>,
             (\E f \in Mine : InFlight(f)) => \E f \in Mine : InFlight(f)'
      PROVE  TablesCurrent'
  BY <1>1, SameComing, UnchangedIsCurrent DEF TablesCurrent
<1>2. CASE \E e \in Mine : ServerRefuses(e)
  <2>1. (\E f \in Mine : InFlight(f)) => \E f \in Mine : InFlight(f)'
    BY <1>2 DEF ServerRefuses, InFlight, Typed, IssueCacheTypeOK
  <2>. QED  BY <1>1, <1>2, <2>1 DEF ServerRefuses, database, cache
<1>3. CASE Register
  BY <1>1, <1>3 DEF Register, database, cache, edits, InFlight
<1>4. CASE UNCHANGED vars
  BY <1>1, <1>4 DEF vars, cache, edits, InFlight
<1>5. Mine \subseteq Edit
  BY IssueCacheAssumption DEF IssueCacheAssumption
<1>6. ASSUME NEW k \in Key, KeyStep(k) PROVE TablesCurrent'
  BY <1>6, KeyKeepsTables
<1>7. ASSUME NEW e \in Edit, OtherEdit(e) \/ Publish(e) PROVE TablesCurrent'
  <2>1. CASE OtherEdit(e)
    BY <2>1, CommitKeepsTables
  <2>2. CASE Publish(e)
    BY <2>2, PublishKeepsTables
  <2>. QED  BY <1>7, <2>1, <2>2
<1>8. ASSUME NEW e \in Mine, OwnStep(e) PROVE TablesCurrent'
  BY <1>2, <1>5, <1>8, CommitKeepsTables, MutateKeepsTables, SettleKeepsTables DEF OwnStep
<1>9. CASE Receive \/ Hear \/ Drop
  BY <1>9, ReceiveKeepsTables, HearKeepsTables, DropKeepsTables
<1>. QED  BY <1>3, <1>4, <1>6, <1>7, <1>8, <1>9 DEF Next

LEMMA TablesStayCurrent == Spec => [](Typed /\ TablesCurrent)
<1>1. Init => TablesCurrent
  BY DEF Init, EmptyQuery, TablesCurrent, TableCurrent
<1>. QED  BY <1>1, InitTyped, NextTyped, NextTables, PTL DEF Spec

(* At rest nothing is on its way and no edit will fetch a table again: a    *)
(* table on the screen is what the database has or shows its error, in      *)
(* whatever order events, answers, failures, rollbacks and reconnects came  *)
(* (use-realtime-sync.ts, queries.ts issueTableRowPageOptions,              *)
(* cache-coordinator.ts applyIssueChange, mutations.ts useUpdateIssue).     *)
THEOREM TablesComeToRest == Spec => []TablesSettle
<1>1. Typed /\ TablesCurrent => TablesSettle
  <2>. SUFFICES ASSUME Typed, TablesCurrent, Quiet,
                       NEW k \in Sound, Shown(k), NEW i \in Covers[k]
                PROVE  query[k].data[i] = server[i]
    BY DEF TablesSettle
  <2>1. k \in Key /\ k \in RefetchedKey \ missed /\ ~query[k].failed
    BY IssueCacheAssumption DEF IssueCacheAssumption, Sound
  <2>2. UpToDate(k, query[k].data)
    BY <2>1 DEF TablesCurrent, TableCurrent, Quiet, Shown
  <2>3. ~Coming(i)
    BY EmptySeq DEF Quiet, Coming
  <2>. QED  BY <2>2, <2>3 DEF UpToDate
<1>. QED  BY <1>1, TablesStayCurrent, PTL

-----------------------------------------------------------------------------
(* Refused edits.                                                           *)

(* What the database once held.                                             *)
Accepted == made \cup {Created}

(* The database, events and answers hold nothing else.                      *)
OnlyAccepted ==
    /\ \A i \in Issue : server[i] \in Accepted
    /\ \A n \in 1..Len(wire) : wire[n] \in Accepted
    /\ \A e \in Mine : e \in made <=> own[e] \in {"applied", "failed", "done"}
    /\ \A k \in Key : query[k].stage = "read" =>
         \A i \in Covers[k] : query[k].answer[i] \in Accepted

(* Without overlaps an issue has one edit in flight.                        *)
Alone ==
    ~overlapped =>
        \A e, f \in Mine : InFlight(e) /\ InFlight(f) /\ IssueOf[e] = IssueOf[f] => e = f

(* What onMutate keeps are queries that hold the issue.                     *)
SnapshotsFit ==
    \A e \in Mine, k \in Key : snapshot[e][k] # None => IssueOf[e] \in Covers[k]

(* A page shows what was accepted, or an edit in flight whose rollback puts *)
(* back what was.                                                           *)
PageRecovers(k) ==
    \A i \in Covers[k] :
        /\ query[k].data # None /\ query[k].data[i] \notin Accepted =>
             \E e \in Mine : query[k].data[i] = e /\ InFlight(e) /\ snapshot[e][k] # None
        /\ \A e \in Mine : InFlight(e) /\ snapshot[e][k] # None => snapshot[e][k][i] \in Accepted

PagesRecover == ~overlapped => \A k \in Page : PageRecovers(k)

EditInv == OnlyAccepted /\ Alone /\ SnapshotsFit /\ PagesRecover

LEMMA KeyKeepsEdits ==
    ASSUME Typed, EditInv, NEW k \in Key, KeyStep(k)
    PROVE  EditInv'
<1>1. UNCHANGED <<server, made, wire, own, snapshot, overlapped>>
  BY DEF KeyStep, Watch, Unwatch, Refetch, FetchRead, FetchDone, FetchFails, database, edits
<1>2. \A j \in Key \ {k} : query'[j] = query[j]
  BY DEF KeyStep, Watch, Unwatch, Refetch, FetchRead, FetchDone, FetchFails, Typed
<1>3. WellFormed(k, query[k])
  BY WellFormedAlways
<1>4. /\ \/ query'[k].stage # "read"
         \/ \A i \in Covers[k] : query'[k].answer[i] = server[i]
         \/ query[k].stage = "read" /\ query'[k].answer = query[k].answer
      /\ \/ query'[k].data = query[k].data
         \/ query[k].stage = "read" /\ query'[k].data = query[k].answer
  <2>1. ASSUME Watch(k)
        PROVE  /\ \/ query'[k].stage = "asked"
                  \/ query'[k].stage = query[k].stage /\ query'[k].answer = query[k].answer
               /\ query'[k].data = query[k].data
    <3>1. PICK q : q = [query[k] EXCEPT !.watched = TRUE]
      OBVIOUS
    <3>2. q.stage = query[k].stage /\ q.data = query[k].data /\ q.answer = query[k].answer
      BY <1>3, <3>1 DEF WellFormed, Query
    <3>3. query'[k] = StartFetch(q) \/ query'[k] = q
      BY <2>1, <3>1 DEF Watch, Typed
    <3>4. StartFetch(q).stage = "asked" /\ StartFetch(q).data = q.data
      BY <1>3, <3>1 DEF StartFetch, WellFormed, Query
    <3>. QED  BY <3>2, <3>3, <3>4
  <2>2. ASSUME Unwatch(k)
        PROVE  /\ query'[k].stage = query[k].stage /\ query'[k].answer = query[k].answer
               /\ query'[k].data = query[k].data
    <3>1. query'[k] = [query[k] EXCEPT !.watched = FALSE]
      BY <2>2 DEF Unwatch, Typed
    <3>. QED  BY <1>3, <3>1 DEF WellFormed, Query
  <2>3. ASSUME FetchRead(k)
        PROVE  /\ query'[k].answer = [i \in Covers[k] |-> server[i]]
               /\ query'[k].data = query[k].data
    BY <1>3, <2>3 DEF FetchRead, Typed, WellFormed, Query
  <2>4. CASE FetchDone(k)
    BY <1>3, <2>4 DEF FetchDone, SetData, Typed, WellFormed, Query
  <2>5. ASSUME FetchFails(k)
        PROVE  query'[k].stage = "idle" /\ query'[k].data = query[k].data
    BY <1>3, <2>5 DEF FetchFails, Typed, WellFormed, Query
  <2>6. CASE FetchRead(k)
    <3>1. \A i \in Covers[k] : query'[k].answer[i] = server[i]
      BY <2>3, <2>6
    <3>. QED  BY <2>3, <2>6, <3>1
  <2>7. ASSUME Refetch(k)
        PROVE  query'[k].stage = "asked" /\ query'[k].data = query[k].data
    <3>1. query'[k] = StartFetch(query[k])
      BY <2>7 DEF Refetch, Typed
    <3>. QED  BY <1>3, <3>1 DEF StartFetch, WellFormed, Query
  <2>. QED  BY <2>1, <2>2, <2>4, <2>5, <2>6, <2>7 DEF KeyStep
<1>5. Covers[k] \subseteq Issue
  BY IssueCacheAssumption DEF IssueCacheAssumption
<1>6. OnlyAccepted'
  BY <1>1, <1>2, <1>4, <1>5 DEF EditInv, OnlyAccepted, Accepted
<1>7. Alone' /\ SnapshotsFit'
  BY <1>1 DEF EditInv, Alone, SnapshotsFit, InFlight
<1>8. ASSUME ~overlapped, NEW j \in Page PROVE PageRecovers(j)'
  <2>1. PageRecovers(j) /\ j \in Key
    BY <1>8 DEF EditInv, PagesRecover, Page
  <2>2. \A i \in Covers[j] : query'[j].data # None /\ query'[j].data[i] \notin Accepted =>
            query'[j].data = query[j].data
    BY <1>2, <1>4, <2>1 DEF EditInv, OnlyAccepted
  <2>. QED  BY <1>1, <2>1, <2>2 DEF PageRecovers, InFlight, Accepted
<1>. QED  BY <1>1, <1>6, <1>7, <1>8 DEF EditInv, PagesRecover

(* A step that makes edits accepted and shows accepted values alone.        *)
LEMMA AcceptedKeepsPage ==
    ASSUME NEW k \in Page, PageRecovers(k), made \subseteq made', UNCHANGED snapshot,
           \A e \in Mine : InFlight(e)' => InFlight(e),
           \A e \in Mine : InFlight(e) => InFlight(e)' \/ e \in made',
           \A i \in Covers[k] : \/ query'[k].data = None
                                \/ query'[k].data[i] \in Accepted'
                                \/ query[k].data # None /\ query'[k].data[i] = query[k].data[i]
    PROVE  PageRecovers(k)'
BY DEF PageRecovers, Accepted

LEMMA CommitKeepsEdits ==
    ASSUME Typed, EditInv, NEW e \in Edit, OtherEdit(e) \/ (e \in Mine /\ ServerApplies(e))
    PROVE  EditInv'
<1>1. Commit(e) /\ UNCHANGED <<wire, query, missed, snapshot, overlapped>>
  BY DEF OtherEdit, ServerApplies, cache, edits
<1>2. made' = made \cup {e} /\ server' = [server EXCEPT ![IssueOf[e]] = e]
  BY <1>1 DEF Commit
<1>3. \A f \in Mine : InFlight(f) <=> InFlight(f)'
  BY DEF OtherEdit, ServerApplies, InFlight, edits, Typed, IssueCacheTypeOK
<1>4. \A f \in Mine : f \in made' <=> own'[f] \in {"applied", "failed", "done"}
  BY <1>2 DEF OtherEdit, ServerApplies, edits, Typed, IssueCacheTypeOK, EditInv, OnlyAccepted
<1>5. OnlyAccepted'
  BY <1>1, <1>2, <1>4 DEF EditInv, OnlyAccepted, Accepted, Typed, IssueCacheTypeOK
<1>6. Alone' /\ SnapshotsFit'
  BY <1>1, <1>3 DEF EditInv, Alone, SnapshotsFit
<1>7. PagesRecover'
  BY <1>1, <1>2, <1>3, AcceptedKeepsPage DEF EditInv, PagesRecover
<1>. QED  BY <1>5, <1>6, <1>7 DEF EditInv

(* Invalidation shows nothing new, and leaves an answer or forgets it.       *)
LEMMA RefreshShows ==
    ASSUME NEW k \in Key, NEW q, WellFormed(k, q)
    PROVE  /\ Invalidate(q).data = q.data /\ Refreshed(q, k).data = q.data
           /\ Invalidate(q).stage = "read" => q.stage = "read" /\ Invalidate(q).answer = q.answer
           /\ Refreshed(q, k).stage = "read" => q.stage = "read" /\ Refreshed(q, k).answer = q.answer
<1>1. /\ Invalidate(q).data = q.data
      /\ Invalidate(q).stage = "read" => q.stage = "read" /\ Invalidate(q).answer = q.answer
  BY DEF Invalidate, StartFetch, WellFormed, Query
<1>. QED  BY <1>1 DEF Refreshed

(* Steps that leave the database, and answers that are on their way.        *)
LEMMA SameAccepted ==
    ASSUME OnlyAccepted, UNCHANGED <<server, made>>,
           \A n \in 1..Len(wire') : wire'[n] \in Accepted,
           \A e \in Mine : (own'[e] \in {"applied", "failed", "done"}
                           <=> own[e] \in {"applied", "failed", "done"}),
           \A k \in Key : query'[k].stage = "read" =>
               query[k].stage = "read" /\ query'[k].answer = query[k].answer
    PROVE  OnlyAccepted'
BY DEF OnlyAccepted, Accepted

LEMMA SocketKeepsEdits ==
    ASSUME Typed, EditInv, Hear \/ Register \/ Drop \/ \E e \in Edit : Publish(e)
    PROVE  EditInv'
<1>1. UNCHANGED <<server, made, own, snapshot, overlapped>>
  BY DEF Hear, Register, Drop, Publish, database, edits
<1>2. \A n \in 1..Len(wire') : wire'[n] \in Accepted
  <2>1. CASE wire' = <<>>
    BY <2>1, EmptySeq
  <2>2. ASSUME NEW e \in publishing, wire' = Append(wire, e)
        PROVE  \A n \in 1..Len(wire') : wire'[n] \in Accepted
    <3>1. e \in Accepted /\ e \in Edit /\ wire \in Seq(Edit)
      BY <2>2 DEF Typed, IssueCacheTypeOK, Accepted
    <3>2. \A n \in 1..Len(wire) : wire[n] \in Accepted
      BY DEF EditInv, OnlyAccepted
    <3>. QED  BY <2>2, <3>1, <3>2, AppendProperties, LenProperties
  <2>3. CASE wire' = wire
    BY <2>3 DEF EditInv, OnlyAccepted
  <2>. QED  BY <2>1, <2>2, <2>3 DEF Hear, Register, Drop, Publish
<1>3. \A k \in Key :
        /\ query'[k].data = query[k].data
        /\ query'[k].stage = "read" =>
              query[k].stage = "read" /\ query'[k].answer = query[k].answer
  <2>1. CASE query' = query
    BY <2>1
  <2>2. CASE query' = [k \in Key |-> Invalidate(query[k])]
    BY <2>2, RefreshShows, WellFormedAlways
  <2>. QED  BY <2>1, <2>2 DEF Hear, Register, Drop, Publish, cache
<1>4. OnlyAccepted'
  BY <1>1, <1>2, <1>3, SameAccepted DEF EditInv
<1>5. Alone' /\ SnapshotsFit' /\ PagesRecover'
  BY <1>1, <1>3 DEF EditInv, Alone, SnapshotsFit, PagesRecover, PageRecovers, InFlight, Accepted, Page
<1>. QED  BY <1>4, <1>5 DEF EditInv

(* What a patch shows of the issues a query holds.                          *)
LEMMA PatchValues ==
    ASSUME NEW k \in Key, NEW q, WellFormed(k, q), NEW i \in Issue, NEW v \in Value,
           NEW j \in Covers[k], q.data # None
    PROVE  Patched(q, k, i, v).data[j] = IF j = i THEN v ELSE q.data[j]
<1>1. q.data \in Data(k) /\ DOMAIN q.data = Covers[k]
  BY DEF WellFormed, Query, Data
<1>2. CASE i \in Covers[k]
  <2>1. Patched(q, k, i, v).data = [q.data EXCEPT ![i] = v]
    BY <1>2 DEF Patched, SetData, WellFormed, Query
  <2>. QED  BY <1>1, <2>1
<1>3. CASE i \notin Covers[k]
  BY <1>3 DEF Patched
<1>. QED  BY <1>2, <1>3

LEMMA ReceiveKeepsEdits ==
    ASSUME Typed, EditInv, Receive
    PROVE  EditInv'
<1>1. PICK e : e = Head(wire)
  OBVIOUS
<1>2. /\ UNCHANGED <<server, made, own, snapshot, overlapped>> /\ wire # <<>> /\ wire' = Tail(wire)
      /\ query' = [k \in Key |-> Refreshed(Patched(query[k], k, IssueOf[e], e), k)]
  BY <1>1 DEF Receive, database, edits
<1>3. e \in Edit /\ e \in Value /\ IssueOf[e] \in Issue /\ wire \in Seq(Edit)
  BY <1>1, <1>2, WireTypes, IssueCacheAssumption
  DEF Typed, IssueCacheTypeOK, IssueCacheAssumption, Value
<1>4. e \in Accepted /\ \A n \in 1..Len(wire') : wire'[n] \in Accepted
  <2>1. \A n \in 1..Len(wire) : wire[n] \in Accepted
    BY DEF EditInv, OnlyAccepted
  <2>2. 1 \in 1..Len(wire) /\ wire[1] = e
    BY <1>1, <1>2, <1>3, EmptySeq
  <2>3. Len(wire') = Len(wire) - 1 /\ \A m \in 1..Len(wire') : wire'[m] = wire[m + 1]
    BY <1>2, <1>3, HeadTailProperties
  <2>4. \A m \in 1..Len(wire') : m + 1 \in 1..Len(wire)
    BY <1>3, <2>3, LenProperties
  <2>. QED  BY <2>1, <2>2, <2>3, <2>4
<1>5. ASSUME NEW k \in Key
      PROVE  /\ query'[k].stage = "read" =>
                   query[k].stage = "read" /\ query'[k].answer = query[k].answer
             /\ query'[k].data = Patched(query[k], k, IssueOf[e], e).data
  <2>1. WellFormed(k, query[k]) /\ WellFormed(k, Patched(query[k], k, IssueOf[e], e))
    BY <1>3, WellFormedAlways, QuerySteps
  <2>. QED  BY <1>2, <2>1, RefreshShows, PatchKeepsFetch
<1>6. OnlyAccepted'
  BY <1>2, <1>4, <1>5, SameAccepted DEF EditInv
<1>7. Alone' /\ SnapshotsFit'
  BY <1>2 DEF EditInv, Alone, SnapshotsFit, InFlight
<1>8. ASSUME ~overlapped, NEW k \in Page PROVE PageRecovers(k)'
  <2>1. PageRecovers(k) /\ k \in Key /\ WellFormed(k, query[k])
    BY <1>8, WellFormedAlways DEF EditInv, PagesRecover, Page
  <2>2. ASSUME NEW i \in Covers[k], query'[k].data # None
        PROVE  query'[k].data[i] \in Accepted \/ (query[k].data # None /\ query'[k].data[i] = query[k].data[i])
    BY <1>3, <1>4, <1>5, <2>1, <2>2, PatchShows, PatchValues
  <2>. QED  BY <1>2, <1>8, <2>1, <2>2, AcceptedKeepsPage DEF InFlight, Accepted
<1>. QED  BY <1>2, <1>6, <1>7, <1>8 DEF EditInv, PagesRecover

(* What onMutate keeps of a page was accepted: another edit of the issue    *)
(* would overlap.                                                           *)
LEMMA MutateKeepsEdits ==
    ASSUME Typed, EditInv, NEW e \in Mine, Mutate(e)
    PROVE  EditInv'
<1>1. e \in Value /\ e \in Edit /\ IssueOf[e] \in Issue /\ own[e] = "none" /\ ~InFlight(e)
  BY IssueCacheAssumption DEF IssueCacheAssumption, Value, Mutate, InFlight
<1>2. /\ UNCHANGED <<server, made, wire>>
      /\ own' = [own EXCEPT ![e] = "sent"]
      /\ overlapped' = (overlapped \/ \E f \in Mine : InFlight(f) /\ IssueOf[f] = IssueOf[e])
  BY DEF Mutate, database
<1>3. InFlight(e)' /\ \A f \in Mine \ {e} : InFlight(f)' <=> InFlight(f)
  BY <1>2 DEF InFlight, Typed, IssueCacheTypeOK
<1>4. ASSUME NEW k \in Key
      PROVE  \E q : /\ WellFormed(k, q) /\ query'[k] = Patched(q, k, IssueOf[e], e)
                    /\ q.stage = "read" => q = query[k]
                    /\ k \notin CancelledKey => q = query[k]
                    /\ snapshot'[e][k] = IF IssueOf[e] \in Covers[k] THEN q.data ELSE None
  <2>1. WellFormed(k, query[k])
    BY WellFormedAlways
  <2>2. PICK q : q = IF k \in CancelledKey THEN Cancel(query[k]) ELSE query[k]
    OBVIOUS
  <2>3. WellFormed(k, q) /\ query'[k] = Patched(q, k, IssueOf[e], e)
    BY <2>1, <2>2, QuerySteps DEF Mutate
  <2>4. snapshot'[e][k] = IF IssueOf[e] \in Covers[k] THEN q.data ELSE None
    BY <2>2 DEF Mutate, Typed
  <2>5. q.stage = "read" => q = query[k]
    BY <2>1, <2>2 DEF Cancel, WellFormed, Query
  <2>. QED  BY <2>2, <2>3, <2>4, <2>5
<1>5. \A f \in Mine \ {e} : snapshot'[f] = snapshot[f]
  BY DEF Mutate, Typed
<1>6. ASSUME NEW k \in Key, query'[k].stage = "read"
      PROVE  query[k].stage = "read" /\ query'[k].answer = query[k].answer
  BY <1>4, <1>6, PatchKeepsFetch
<1>7. OnlyAccepted'
  BY <1>1, <1>2, <1>6, SameAccepted DEF EditInv, OnlyAccepted, Typed, IssueCacheTypeOK
<1>8. Alone'
  BY <1>2, <1>3 DEF EditInv, Alone
<1>9. SnapshotsFit'
  BY <1>4, <1>5 DEF EditInv, SnapshotsFit
<1>10. ASSUME ~overlapped', NEW k \in Page PROVE PageRecovers(k)'
  <2>1. PageRecovers(k) /\ k \in Key /\ WellFormed(k, query[k]) /\ k \notin CancelledKey
        /\ \A i, j \in Covers[k] : i = j
    BY <1>2, <1>10, WellFormedAlways DEF EditInv, PagesRecover, Page
  <2>2. /\ query'[k] = Patched(query[k], k, IssueOf[e], e)
        /\ snapshot'[e][k] = IF IssueOf[e] \in Covers[k] THEN query[k].data ELSE None
    BY <1>4, <2>1
  <2>3. query'[k].data = None <=> query[k].data = None
    BY <1>1, <2>1, <2>2, PatchShows
  <2>4. Accepted' = Accepted
    BY <1>2 DEF Accepted
  <2>5. CASE IssueOf[e] \in Covers[k]
    <3>1. \A i \in Covers[k] : i = IssueOf[e]
      BY <2>1, <2>5
    <3>2. \A i \in Covers[k] : query[k].data # None => query'[k].data[i] = e
      BY <1>1, <2>1, <2>2, <3>1, PatchValues
    <3>3. \A i \in Covers[k] : query[k].data # None => query[k].data[i] \in Accepted
      BY <1>2, <1>10, <2>1, <3>1 DEF PageRecovers, EditInv, SnapshotsFit
    <3>. QED
      BY <1>3, <1>5, <2>1, <2>2, <2>3, <2>4, <2>5, <3>2, <3>3 DEF PageRecovers
  <2>6. CASE IssueOf[e] \notin Covers[k]
    <3>1. query'[k] = query[k] /\ snapshot'[e][k] = None
      BY <2>2, <2>6 DEF Patched
    <3>. QED  BY <1>1, <1>3, <1>5, <2>1, <2>4, <3>1 DEF PageRecovers
  <2>. QED  BY <2>5, <2>6
<1>11. PagesRecover'
  BY <1>10 DEF PagesRecover
<1>. QED  BY <1>7, <1>8, <1>9, <1>11 DEF EditInv

LEMMA SettleKeepsEdits ==
    ASSUME Typed, EditInv, NEW e \in Mine,
           ServerRefuses(e) \/ MutationSucceeds(e) \/ MutationFails(e)
    PROVE  EditInv'
<1>1. e \in Value /\ IssueOf[e] \in Issue
  BY IssueCacheAssumption DEF IssueCacheAssumption, Value
<1>2. UNCHANGED <<server, made, wire, snapshot, overlapped>>
  BY DEF ServerRefuses, MutationSucceeds, MutationFails, database
<1>3. /\ \A f \in Mine \ {e} : own'[f] = own[f]
      /\ own'[e] \in {"applied", "failed", "done"} <=> own[e] \in {"applied", "failed", "done"}
      /\ \A f \in Mine : InFlight(f)' => InFlight(f)
  BY DEF ServerRefuses, MutationSucceeds, MutationFails, InFlight, Typed, IssueCacheTypeOK
<1>4. Alone' /\ SnapshotsFit'
  BY <1>2, <1>3 DEF EditInv, Alone, SnapshotsFit
<1>5. ASSUME \A k \in Key : \E q : /\ WellFormed(k, q) /\ query'[k] = Refreshed(q, k)
                                  /\ q.stage = query[k].stage /\ q.answer = query[k].answer
      PROVE  OnlyAccepted'
  <2>1. ASSUME NEW k \in Key, query'[k].stage = "read"
        PROVE  query[k].stage = "read" /\ query'[k].answer = query[k].answer
    BY <1>5, <2>1, RefreshShows
  <2>. QED  BY <1>2, <1>3, <2>1, SameAccepted DEF EditInv, OnlyAccepted, Accepted
<1>6. ASSUME ServerRefuses(e) PROVE EditInv'
  <2>1. UNCHANGED query /\ InFlight(e)' /\ InFlight(e)
    BY <1>6 DEF ServerRefuses, cache, InFlight, Typed, IssueCacheTypeOK
  <2>2. \A f \in Mine : InFlight(f)' <=> InFlight(f)
    BY <1>3, <2>1 DEF InFlight
  <2>3. OnlyAccepted'
    BY <1>2, <1>3, <2>1, SameAccepted DEF EditInv, OnlyAccepted, Accepted
  <2>4. PagesRecover'
    BY <1>2, <2>1, <2>2, AcceptedKeepsPage DEF EditInv, PagesRecover
  <2>. QED  BY <1>4, <2>3, <2>4 DEF EditInv
<1>7. ASSUME MutationSucceeds(e) PROVE EditInv'
  <2>1. ASSUME NEW k \in Key
        PROVE  /\ WellFormed(k, query[k]) /\ WellFormed(k, Patched(query[k], k, IssueOf[e], e))
               /\ query'[k] = Refreshed(Patched(query[k], k, IssueOf[e], e), k)
               /\ Patched(query[k], k, IssueOf[e], e).stage = query[k].stage
               /\ Patched(query[k], k, IssueOf[e], e).answer = query[k].answer
    <3>1. WellFormed(k, query[k])
      BY WellFormedAlways
    <3>2. query'[k] = Refreshed(Patched(query[k], k, IssueOf[e], e), k)
      BY <1>7 DEF MutationSucceeds
    <3>3. WellFormed(k, Patched(query[k], k, IssueOf[e], e))
      BY <1>1, <3>1, QuerySteps
    <3>. QED  BY <1>1, <3>1, <3>2, <3>3, PatchKeepsFetch
  <2>2. OnlyAccepted'
    BY <1>5, <2>1
  <2>3. e \in made /\ \A f \in Mine : InFlight(f) => InFlight(f)' \/ f \in made
    BY <1>3, <1>7 DEF MutationSucceeds, EditInv, OnlyAccepted, InFlight
  <2>4. ASSUME ~overlapped, NEW k \in Page PROVE PageRecovers(k)'
    <3>1. PageRecovers(k) /\ k \in Key
      BY <2>4 DEF EditInv, PagesRecover, Page
    <3>2. query'[k].data = Patched(query[k], k, IssueOf[e], e).data
      BY <2>1, <3>1, RefreshShows
    <3>3. ASSUME NEW i \in Covers[k], query'[k].data # None
          PROVE  query'[k].data[i] \in Accepted \/ (query[k].data # None /\ query'[k].data[i] = query[k].data[i])
      BY <1>1, <2>1, <2>3, <3>1, <3>2, <3>3, PatchShows, PatchValues DEF Accepted
    <3>. QED  BY <1>2, <1>3, <2>3, <2>4, <3>1, <3>3, AcceptedKeepsPage DEF Accepted
  <2>. QED  BY <1>2, <1>4, <2>2, <2>4 DEF EditInv, PagesRecover
<1>8. ASSUME MutationFails(e) PROVE EditInv'
  <2> DEFINE back(k) == IF snapshot[e][k] # None THEN SetData(query[k], snapshot[e][k]) ELSE query[k]
  <2>1. ASSUME NEW k \in Key
        PROVE  /\ WellFormed(k, back(k)) /\ query'[k] = Refreshed(back(k), k)
               /\ back(k).stage = query[k].stage /\ back(k).answer = query[k].answer
               /\ back(k).data = IF snapshot[e][k] # None THEN snapshot[e][k] ELSE query[k].data
    <3>1. WellFormed(k, query[k]) /\ snapshot[e][k] \in Data(k) \cup {None}
      BY WellFormedAlways DEF Typed
    <3>2. query'[k] = Refreshed(back(k), k)
      BY <1>8 DEF MutationFails
    <3>3. WellFormed(k, back(k))
      BY <3>1, QuerySteps
    <3>4. /\ back(k).stage = query[k].stage /\ back(k).answer = query[k].answer
          /\ back(k).data = IF snapshot[e][k] # None THEN snapshot[e][k] ELSE query[k].data
      BY <3>1 DEF SetData, WellFormed, Query
    <3>. QED  BY <3>2, <3>3, <3>4
  <2>2. OnlyAccepted'
    BY <1>5, <2>1
  <2>3. InFlight(e) /\ \A f \in Mine \ {e} : InFlight(f) => InFlight(f)'
    BY <1>3, <1>8 DEF MutationFails, InFlight
  <2>4. ASSUME ~overlapped, NEW k \in Page PROVE PageRecovers(k)'
    <3>1. PageRecovers(k) /\ k \in Key
      BY <2>4 DEF EditInv, PagesRecover, Page
    <3>2. query'[k].data = IF snapshot[e][k] # None THEN snapshot[e][k] ELSE query[k].data
      BY <2>1, <3>1, RefreshShows
    <3>3. Accepted' = Accepted
      BY <1>2 DEF Accepted
    <3>. QED  BY <1>2, <1>3, <2>3, <3>1, <3>2, <3>3 DEF PageRecovers
  <2>. QED  BY <1>2, <1>4, <2>2, <2>4 DEF EditInv, PagesRecover
<1>. QED  BY <1>6, <1>7, <1>8

LEMMA NextEdits == Typed /\ EditInv /\ [Next]_vars => EditInv'
<1>. SUFFICES ASSUME Typed, EditInv, [Next]_vars PROVE EditInv'
  OBVIOUS
<1>1. Mine \subseteq Edit
  BY IssueCacheAssumption DEF IssueCacheAssumption
<1>2. ASSUME NEW k \in Key, KeyStep(k) PROVE EditInv'
  BY <1>2, KeyKeepsEdits
<1>3. ASSUME NEW e \in Edit, OtherEdit(e) \/ Publish(e) PROVE EditInv'
  BY <1>3, CommitKeepsEdits, SocketKeepsEdits
<1>4. ASSUME NEW e \in Mine, OwnStep(e) PROVE EditInv'
  BY <1>1, <1>4, CommitKeepsEdits, MutateKeepsEdits, SettleKeepsEdits DEF OwnStep
<1>5. CASE Receive \/ Hear \/ Register \/ Drop
  BY <1>5, ReceiveKeepsEdits, SocketKeepsEdits
<1>6. CASE UNCHANGED vars
  BY <1>6 DEF vars, cache, edits, EditInv, OnlyAccepted, Accepted, Alone, SnapshotsFit,
    PagesRecover, PageRecovers, InFlight
<1>. QED  BY <1>2, <1>3, <1>4, <1>5, <1>6 DEF Next

LEMMA InitEdits == Init => EditInv
<1>. SUFFICES ASSUME Init PROVE EditInv
  OBVIOUS
<1>1. /\ \A i \in Issue : server[i] = Created
      /\ \A k \in Key : query[k].data = None /\ query[k].stage = "idle"
      /\ \A e \in Mine : own[e] = "none" /\ \A k \in Key : snapshot[e][k] = None
      /\ made = {} /\ wire = <<>>
  BY DEF Init, EmptyQuery
<1>. QED
  BY <1>1, EmptySeq DEF EditInv, OnlyAccepted, Accepted, Alone, SnapshotsFit, PagesRecover,
    PageRecovers, InFlight, Page

LEMMA EditsRecover == Spec => [](Typed /\ EditInv)
BY InitTyped, NextTyped, InitEdits, NextEdits, PTL DEF Spec

(* A refused edit leaves no trace on a table that comes to rest without an  *)
(* error, nor on an                                                         *)
(* issue's own page unless edits of the issue overlapped: its rollback puts *)
(* back what was accepted (mutations.ts useUpdateIssue, cache-coordinator.ts*)
(* rollbackIssueChange).                                                    *)
THEOREM RefusalsLeaveNoTrace == Spec => []RefusedEditsVanish
<1>1. Typed /\ TablesCurrent /\ EditInv => RefusedEditsVanish
  <2>. SUFFICES ASSUME Typed, TablesCurrent, EditInv, Quiet, ~overlapped,
                       NEW k \in Sound \cup Page, Shown(k),
                       NEW e \in Mine, own[e] = "undone", NEW i \in Covers[k]
                PROVE  query[k].data[i] # e
    BY DEF RefusedEditsVanish
  <2>1. e \notin Accepted
    BY IssueCacheAssumption DEF EditInv, OnlyAccepted, Accepted, IssueCacheAssumption
  <2>2. k \in Key /\ i \in Issue
    BY IssueCacheAssumption DEF IssueCacheAssumption, Page, Sound
  <2>3. CASE k \in Sound
    <3>1. UpToDate(k, query[k].data) /\ ~Coming(i)
      BY <2>2, <2>3, EmptySeq DEF Sound, TablesCurrent, TableCurrent, Quiet, Shown, Coming
    <3>. QED  BY <2>1, <2>2, <3>1 DEF UpToDate, EditInv, OnlyAccepted
  <2>4. CASE k \in Page
    BY <2>1, <2>4 DEF EditInv, PagesRecover, PageRecovers, Quiet, Shown
  <2>. QED  BY <2>3, <2>4
<1>. QED  BY <1>1, TablesStayCurrent, EditsRecover, PTL
=============================================================================
