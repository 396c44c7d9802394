----------------------------- MODULE IssueCache -----------------------------
(***************************************************************************)
(* The issue queries one client application holds, kept up to date by        *)
(* patches and refetches instead of by age (staleTime is infinite): events   *)
(* from the server, the user's own optimistic edits, and the invalidation    *)
(* that follows a reconnect.                                                 *)
(*                                                                         *)
(* An edit replaces the value of its issue; the value is the edit's name.    *)
(* Keys differ in which issues they hold, whether they are a table, which an *)
(* event or a settled edit also invalidates and whose failed fetches only    *)
(* the user repeats, and whether an optimistic edit cancels their fetch.     *)
(* How the connection comes and goes is module WSClient's concern.           *)
(***************************************************************************)
EXTENDS Naturals, Sequences

CONSTANTS
    Issue,
    Edit,
    IssueOf,       \* the issue an edit is about
    Mine,          \* edits of this client's user; the others are made elsewhere
    Key,           \* queries
    Covers,        \* the issues a query holds
    RefetchedKey,  \* invalidated by every event and settled edit (tableAll)
    CancelledKey,  \* cancelled by an optimistic edit (list, myAll, flatAll, tableAll)
    Created,       \* the value every issue starts with
    None,
    MaxDrops,      \* bound: how often the connection is lost
    MaxFailures    \* bound: fetches that fail

ASSUME IssueCacheAssumption ==
    /\ IssueOf \in [Edit -> Issue] /\ Mine \subseteq Edit
    /\ Covers \in [Key -> SUBSET Issue]
    /\ RefetchedKey \subseteq Key
    /\ Created \notin Edit /\ None \notin Edit \cup {Created}
    /\ \A k \in Key : None \notin [Covers[k] -> Edit \cup {Created}]
    /\ MaxDrops \in Nat /\ MaxFailures \in Nat

VARIABLES
    server,        \* the value of every issue in the database
    made,          \* edits the database has seen
    publishing,    \* edits that are committed and whose event is still to be sent
    wire,          \* events on their way over the socket
    heard,         \* the client has its auth_ack: its reconnect callbacks ran
    registered,    \* the hub has the socket in the workspace's room
    before,        \* hasConnectedBefore
    query,         \* the query cache
    own,           \* what became of each edit of the user
    snapshot,      \* what onMutate kept for a rollback, by edit and key
    missed,        \* history: keys an event passed by since the server was asked
    overlapped,    \* history: two own edits of one issue were in flight together
    drops, failures

link == <<heard, registered, before>>
database == <<server, made>>
cache == <<query, missed>>
edits == <<own, snapshot, overlapped>>
bounds == <<drops, failures>>
vars == <<server, made, publishing, wire, link, cache, edits, bounds>>

Value == Edit \cup {Created}
Data(k) == [Covers[k] -> Value]

(* A query of the query client: what it shows, whether that is marked stale, *)
(* whether its status is error, the fetch under way (the server's answer     *)
(* once it is read), and what the cache held when the fetch began.           *)
Query(k) == [data: Data(k) \cup {None}, invalid: BOOLEAN, failed: BOOLEAN, watched: BOOLEAN,
             stage: {"idle", "asked", "read"}, answer: Data(k) \cup {None},
             kept: [data: Data(k) \cup {None}, invalid: BOOLEAN, failed: BOOLEAN]]

Nothing == [data |-> None, invalid |-> FALSE, failed |-> FALSE]

EmptyQuery == [data |-> None, invalid |-> FALSE, failed |-> FALSE, watched |-> FALSE,
               stage |-> "idle", answer |-> None, kept |-> Nothing]

IssueCacheTypeOK ==
    /\ server \in [Issue -> Value]
    /\ made \subseteq Edit /\ publishing \subseteq made /\ wire \in Seq(Edit)
    /\ heard \in BOOLEAN /\ registered \in BOOLEAN /\ before \in BOOLEAN
    /\ \A k \in Key : query[k] \in Query(k)
    /\ own \in [Mine -> {"none", "sent", "applied", "failed", "refused", "done", "undone"}]
    /\ missed \subseteq Key /\ overlapped \in BOOLEAN
    /\ drops \in 0..MaxDrops /\ failures \in 0..MaxFailures
    /\ \A k \in Key : (query[k].stage = "read") <=> query[k].answer # None

Init ==
    /\ server = [i \in Issue |-> Created]
    /\ made = {} /\ publishing = {} /\ wire = <<>>
    /\ heard = FALSE /\ registered = FALSE /\ before = FALSE
    /\ query = [k \in Key |-> EmptyQuery]
    /\ own = [e \in Mine |-> "none"]
    /\ snapshot = [e \in Mine |-> [k \in Key |-> None]]
    /\ missed = {} /\ overlapped = FALSE
    /\ drops = 0 /\ failures = 0

-----------------------------------------------------------------------------
(* The query client, as the code uses it.                                    *)

(* A first load is pending again; a refetch leaves an error standing.        *)
StartFetch(q) ==
    [q EXCEPT !.stage = "asked", !.answer = None,
              !.failed = (q.failed /\ q.data # None),
              !.kept = [data |-> q.data, invalid |-> q.invalid, failed |-> q.failed]]

(* setQueryData: the value counts as fresh, and as a success.                *)
SetData(q, d) == [q EXCEPT !.data = d, !.invalid = FALSE, !.failed = FALSE]

(* MUTANT: invalidation leaves every fetch under way alone.                  *)
InvalidateIdle(q) ==
    LET stale == [q EXCEPT !.invalid = TRUE]
    IN IF q.watched /\ q.stage = "idle" THEN StartFetch(stale) ELSE stale

(* invalidateQueries.  A watched query is fetched again, and a refetch under *)
(* way starts anew; a first load under way is left to finish.                *)
Invalidate(q) ==
    LET stale == [q EXCEPT !.invalid = TRUE]
    IN IF q.watched /\ (q.stage = "idle" \/ q.data # None)
         THEN StartFetch(stale) ELSE stale

(* MUTANT: the answer of the cancelled fetch is kept.                        *)
CancelKeepingAnswer(q) ==
    IF q.stage = "idle" THEN q
    ELSE [q EXCEPT !.stage = "idle", !.kept = Nothing,
                   !.data = q.kept.data, !.invalid = q.kept.invalid, !.failed = q.kept.failed]

(* cancelQueries: the query is what it was when its fetch began.             *)
Cancel(q) ==
    IF q.stage = "idle" THEN q
    ELSE [q EXCEPT !.stage = "idle", !.answer = None, !.kept = Nothing,
                   !.data = q.kept.data, !.invalid = q.kept.invalid, !.failed = q.kept.failed]

(* Opening a view fetches what is not there or stale, but not a table whose  *)
(* status is error (retryOnMount, refetchOnMount).                           *)
FetchedOnMount(k) ==
    /\ query[k].stage = "idle" /\ (query[k].data = None \/ query[k].invalid)
    /\ k \in RefetchedKey => ~query[k].failed

Watch(k) ==
    LET q == [query[k] EXCEPT !.watched = TRUE]
    IN /\ ~query[k].watched
       /\ query' = [query EXCEPT ![k] = IF FetchedOnMount(k) THEN StartFetch(q) ELSE q]
       /\ UNCHANGED <<database, publishing, wire, link, missed, edits, bounds>>

(* The user asks a table in error status for another try.                    *)
Refetch(k) ==
    /\ k \in RefetchedKey /\ query[k].watched /\ query[k].failed
    /\ query' = [query EXCEPT ![k] = StartFetch(@)]
    /\ UNCHANGED <<database, publishing, wire, link, missed, edits, bounds>>

Unwatch(k) ==
    /\ query[k].watched
    /\ query' = [query EXCEPT ![k].watched = FALSE]
    /\ UNCHANGED <<database, publishing, wire, link, missed, edits, bounds>>

(* The server answers a fetch with what it has.                              *)
FetchRead(k) ==
    /\ query[k].stage = "asked"
    /\ query' = [query EXCEPT ![k].stage = "read",
                              ![k].answer = [i \in Covers[k] |-> server[i]]]
    /\ missed' = missed \ {k}
    /\ UNCHANGED <<database, publishing, wire, link, edits, bounds>>

FetchDone(k) ==
    /\ query[k].stage = "read"
    /\ query' = [query EXCEPT ![k] =
         [SetData(@, query[k].answer) EXCEPT !.stage = "idle", !.answer = None, !.kept = Nothing]]
    /\ UNCHANGED <<database, publishing, wire, link, missed, edits, bounds>>

(* The fetch failed: for a table at once (retry: false), for the others      *)
(* with its one retry.                                                       *)
FetchFails(k) ==
    /\ query[k].stage # "idle" /\ failures < MaxFailures
    /\ failures' = failures + 1
    /\ query' = [query EXCEPT ![k].stage = "idle", ![k].answer = None, ![k].kept = Nothing,
                              ![k].invalid = TRUE, ![k].failed = TRUE]
    /\ UNCHANGED <<database, publishing, wire, link, missed, edits, drops>>

-----------------------------------------------------------------------------
(* applyIssueChange: wherever the issue is cached its value is replaced.     *)
Holds(k, i) == i \in Covers[k] /\ query[k].data # None

Patched(q, k, i, v) ==
    IF i \in Covers[k] /\ q.data # None THEN SetData(q, [q.data EXCEPT ![i] = v]) ELSE q

(* MUTANT: the table is only patched.                                        *)
RefreshedNever(q, k) == q

(* invalidateIssueDerivatives and the table invalidation beside it.          *)
Refreshed(q, k) == IF k \in RefetchedKey THEN Invalidate(q) ELSE q

(* Invalidation does not restart a first load, or a fetch that nobody watches *)
(* any more: once answered, it cannot be told of what came after.            *)
Deaf(k) == query[k].stage = "read" /\ (query[k].data = None \/ ~query[k].watched)

(***************************************************************************)
(* Edits made elsewhere, and events.                                         *)
(***************************************************************************)
Commit(e) ==
    /\ made' = made \cup {e}
    /\ server' = [server EXCEPT ![IssueOf[e]] = e]
    /\ publishing' = publishing \cup {e}

OtherEdit(e) ==
    /\ e \notin Mine \cup made
    /\ Commit(e)
    /\ UNCHANGED <<wire, link, cache, edits, bounds>>

(* Requests publish after their commit, in any order.  An event that finds   *)
(* no registered socket is gone.                                             *)
Publish(e) ==
    /\ e \in publishing
    /\ publishing' = publishing \ {e}
    /\ IF registered
         THEN wire' = Append(wire, e) /\ UNCHANGED missed
         ELSE /\ missed' = missed \cup {k \in Key : Holds(k, IssueOf[e]) \/ Deaf(k)}
              /\ UNCHANGED wire
    /\ UNCHANGED <<database, link, query, edits, bounds>>

(* onIssueUpdated.                                                           *)
Receive ==
    /\ wire # <<>> /\ heard
    /\ LET e == Head(wire)
       IN /\ query' = [k \in Key |-> Refreshed(Patched(query[k], k, IssueOf[e], e), k)]
          /\ missed' = missed \cup {k \in Key : Deaf(k) /\ IssueOf[e] \in Covers[k]}
    /\ wire' = Tail(wire)
    /\ UNCHANGED <<database, publishing, link, edits, bounds>>

-----------------------------------------------------------------------------
(* useUpdateIssue.                                                           *)

InFlight(e) == own[e] \in {"sent", "applied", "failed", "refused"}

(* onMutate: cancel, remember, patch.                                        *)
Mutate(e) ==
    LET settled == [k \in Key |-> IF k \in CancelledKey THEN Cancel(query[k]) ELSE query[k]]
    IN /\ own[e] = "none"
       /\ \E k \in Key : Holds(k, IssueOf[e])
       /\ own' = [own EXCEPT ![e] = "sent"]
       /\ snapshot' = [snapshot EXCEPT ![e] =
            [k \in Key |-> IF IssueOf[e] \in Covers[k] THEN settled[k].data ELSE None]]
       /\ query' = [k \in Key |-> Patched(settled[k], k, IssueOf[e], e)]
       /\ overlapped' = (overlapped \/ \E f \in Mine : InFlight(f) /\ IssueOf[f] = IssueOf[e])
       /\ UNCHANGED <<database, publishing, wire, link, missed, bounds>>

(* The request reaches the server; its answer may be lost.                   *)
ServerApplies(e) ==
    /\ own[e] = "sent"
    /\ Commit(e)
    /\ \E outcome \in {"applied", "failed"} : own' = [own EXCEPT ![e] = outcome]
    /\ UNCHANGED <<wire, link, cache, snapshot, overlapped, bounds>>

ServerRefuses(e) ==
    /\ own[e] = "sent"
    /\ own' = [own EXCEPT ![e] = "refused"]
    /\ UNCHANGED <<database, publishing, wire, link, cache, snapshot, overlapped, bounds>>

(* onSuccess patches in the row the server returned, onSettled invalidates.  *)
MutationSucceeds(e) ==
    /\ own[e] = "applied"
    /\ own' = [own EXCEPT ![e] = "done"]
    /\ query' = [k \in Key |-> Refreshed(Patched(query[k], k, IssueOf[e], e), k)]
    /\ UNCHANGED <<database, publishing, wire, link, missed, snapshot, overlapped, bounds>>

(* MUTANT: the rollback is left to the refetches.                            *)
MutationFailsQuietly(e) ==
    /\ own[e] \in {"failed", "refused"}
    /\ own' = [own EXCEPT ![e] = IF own[e] = "failed" THEN "done" ELSE "undone"]
    /\ query' = [k \in Key |-> Refreshed(query[k], k)]
    /\ UNCHANGED <<database, publishing, wire, link, missed, snapshot, overlapped, bounds>>

(* onError puts back what onMutate saw, onSettled invalidates.               *)
MutationFails(e) ==
    /\ own[e] \in {"failed", "refused"}
    /\ own' = [own EXCEPT ![e] = IF own[e] = "failed" THEN "done" ELSE "undone"]
    /\ query' = [k \in Key |-> Refreshed(
         IF snapshot[e][k] # None THEN SetData(query[k], snapshot[e][k]) ELSE query[k], k)]
    /\ UNCHANGED <<database, publishing, wire, link, missed, snapshot, overlapped, bounds>>

-----------------------------------------------------------------------------
(* The connection.                                                           *)

(* MUTANT: nobody listens for reconnects.                                    *)
HearOnly ==
    /\ ~heard /\ heard' = TRUE /\ before' = TRUE
    /\ IF before
         THEN /\ UNCHANGED query
              /\ missed' = {k \in missed : Deaf(k)}
         ELSE UNCHANGED cache
    /\ UNCHANGED <<database, publishing, wire, registered, edits, bounds>>

(* HandleWebSocket writes auth_ack before it registers the socket.  On every *)
(* ack but the first the reconnect callbacks invalidate all queries.         *)
Hear ==
    /\ ~heard /\ heard' = TRUE /\ before' = TRUE
    /\ IF before
         THEN /\ query' = [k \in Key |-> Invalidate(query[k])]
              /\ missed' = {k \in missed : Deaf(k)}
         ELSE UNCHANGED cache
    /\ UNCHANGED <<database, publishing, wire, registered, edits, bounds>>

Register ==
    /\ ~registered /\ registered' = TRUE
    /\ UNCHANGED <<database, publishing, wire, heard, before, cache, edits, bounds>>

Drop ==
    /\ heard \/ registered
    /\ drops < MaxDrops
    /\ heard' = FALSE /\ registered' = FALSE /\ wire' = <<>>
    /\ missed' = missed \cup
         {k \in Key : \E n \in 1..Len(wire) : Holds(k, IssueOf[wire[n]]) \/ Deaf(k)}
    /\ drops' = drops + 1
    /\ UNCHANGED <<database, publishing, before, query, edits, failures>>

-----------------------------------------------------------------------------
KeyStep(k) ==
    Watch(k) \/ Unwatch(k) \/ Refetch(k) \/ FetchRead(k) \/ FetchDone(k) \/ FetchFails(k)

OwnStep(e) ==
    Mutate(e) \/ ServerApplies(e) \/ ServerRefuses(e) \/ MutationSucceeds(e) \/ MutationFails(e)

Next ==
    \/ \E k \in Key : KeyStep(k)
    \/ \E e \in Edit : OtherEdit(e) \/ Publish(e)
    \/ \E e \in Mine : OwnStep(e)
    \/ Receive \/ Hear \/ Register \/ Drop

Spec == Init /\ [][Next]_vars

-----------------------------------------------------------------------------
(* Nothing is under way.                                                     *)
Quiet ==
    /\ publishing = {} /\ wire = <<>> /\ heard /\ registered
    /\ \A e \in Mine : ~InFlight(e)
    /\ \A k \in Key : query[k].stage = "idle"

Shown(k) == query[k].watched /\ query[k].data # None

(* Tables that no event passed by and that do not stand in error status; the *)
(* screen shows the error of one that does, with a button to try again.      *)
Sound == {k \in RefetchedKey \ missed : ~query[k].failed}

(* Once everything has come to rest, a table on the screen shows what the    *)
(* database has, whatever order events, refetches, answers, rollbacks and    *)
(* reconnects came in, or its error (issueTableRowPageOptions).  Excepted    *)
(* are an event that came between the answer and the end of a first load, or *)
(* of a fetch whose view was closed, and one that the hub sent before it had *)
(* registered the socket.  The next reconnect mends those, and a table in     *)
(* error status that somebody views.                                         *)
TablesSettle ==
    Quiet => \A k \in Sound : Shown(k) => \A i \in Covers[k] : query[k].data[i] = server[i]

(* The query of one issue's own page (issueKeys.detail).                     *)
Page == {k \in Key \ CancelledKey : \A i, j \in Covers[k] : i = j}

(* And no value that the server refused stays on the screen, be it a table's *)
(* or an issue's own page, if the user did not edit an issue twice at once;  *)
(* a table that shows its error is excepted again.                           *)
RefusedEditsVanish ==
    Quiet /\ ~overlapped =>
        \A k \in Sound \cup Page :
            Shown(k) => \A e \in Mine : own[e] = "undone" => \A i \in Covers[k] : query[k].data[i] # e
=============================================================================
