------------------------ MODULE EmptyClaimCacheProofs ------------------------
(***************************************************************************)
(* Proofs about EmptyClaimCache: for any rows, runtimes and requests, no     *)
(* announced row is hidden until Redis loses its data, and whatever it loses *)
(* the requests keep their shape.                                            *)
(***************************************************************************)
EXTENDS EmptyClaimCache, TLAPS

(* A version somebody read or stored is not ahead of the runtime's, and      *)
(* while it is the runtime's, no announced row waits there.                  *)
Sound(v, r) ==
    /\ v <= version[r]
    /\ v = version[r] => \A t \in Task : Announced(t) => RuntimeOf[t] # r

VerdictSound == ~lost => \A r \in Runtime : verdict[r] # None => Sound(verdict[r], r)

ReadSound ==
    ~lost => \A h \in Handler : \A r \in Runtime :
        request[h].observed[r] # None => request[h].observed[r] <= version[r]

MarkSound ==
    ~lost => \A h \in Handler : \A r \in request[h].empty : Sound(request[h].observed[r], r)

CacheInv == CacheTypeOK /\ VerdictSound /\ ReadSound /\ MarkSound

-----------------------------------------------------------------------------
LEMMA InitCache == Init => CacheInv
<1> SUFFICES ASSUME Init PROVE CacheInv
  OBVIOUS
<1> USE CacheAssumption DEF Init, Unread, IdleRequest
<1>1. CacheTypeOK
  BY DEF CacheTypeOK, Request
<1>2. VerdictSound /\ ReadSound /\ MarkSound
  BY DEF VerdictSound, ReadSound, MarkSound
<1> QED
  BY <1>1, <1>2 DEF CacheInv

(* Versions stand still and no row becomes announced: soundness survives.    *)
LEMMA SoundStays ==
    ASSUME NEW v, NEW r \in Runtime, Sound(v, r), version'[r] = version[r],
           \A t \in Task : Announced(t)' => Announced(t)
    PROVE  Sound(v, r)'
BY DEF Sound

(* A bump makes every version that was read before fall behind.              *)
LEMMA SoundAfterBump ==
    ASSUME NEW v \in Nat, NEW r \in Runtime, v <= version[r], version[r] \in Nat,
           version'[r] = version[r] + 1
    PROVE  Sound(v, r)'
<1>1. v <= version'[r] /\ v # version'[r]
  OBVIOUS
<1> QED
  BY <1>1 DEF Sound

-----------------------------------------------------------------------------
(* Rows and keys change, requests stand still.                               *)

LEMMA RowsKeepCache ==
    ASSUME CacheInv, NEW t \in Task, QueueRow(t) \/ BumpFails(t) \/ TakeRow(t)
    PROVE  CacheInv'
<1>1. UNCHANGED <<version, verdict, request, lost>> /\ \A u \in Task : Announced(u)' => Announced(u)
  BY DEF QueueRow, BumpFails, TakeRow, redisVars, Announced
<1>2. CacheTypeOK'
  BY <1>1 DEF CacheInv, CacheTypeOK, QueueRow, BumpFails, TakeRow
<1>3. ASSUME NEW v, NEW r \in Runtime, Sound(v, r) PROVE Sound(v, r)'
  BY <1>1, <1>3, SoundStays
<1>4. VerdictSound' /\ ReadSound'
  BY <1>1, <1>3 DEF CacheInv, VerdictSound, ReadSound
<1>5. MarkSound'
  BY <1>1, <1>3 DEF CacheInv, CacheTypeOK, Request, MarkSound
<1> QED
  BY <1>2, <1>4, <1>5 DEF CacheInv

LEMMA BumpsKeepCache ==
    ASSUME CacheInv, NEW r \in Runtime, Incremented(r), UNCHANGED <<verdict, request, lost>>,
           queued' = queued, unannounced' = unannounced, bumping' \subseteq bumping,
           \A t \in bumping : t \notin bumping' => RuntimeOf[t] = r
    PROVE  CacheInv'
<1> USE DEF CacheInv
<1>1. /\ version' \in [Runtime -> Nat] /\ version'[r] = version[r] + 1
      /\ \A s \in Runtime : s # r => version'[s] = version[s]
  BY DEF CacheTypeOK, Incremented
<1>2. CacheTypeOK'
  BY <1>1 DEF CacheTypeOK
<1>3. ASSUME NEW v \in Nat, NEW s \in Runtime, Sound(v, s) PROVE Sound(v, s)'
  <2>1. CASE s = r
    BY <1>1, <1>3, <2>1, SoundAfterBump DEF Sound, CacheTypeOK
  <2>2. CASE s # r
    BY <1>1, <1>3, <2>2, CacheAssumption DEF Sound, Announced
  <2> QED
    BY <2>1, <2>2
<1>4. VerdictSound'
  BY <1>3 DEF VerdictSound, CacheTypeOK
<1>5. ReadSound'
  <2> SUFFICES ASSUME ~lost, NEW h \in Handler, NEW s \in Runtime, request[h].observed[s] # None
               PROVE  request[h].observed[s] <= version'[s]
    BY DEF ReadSound
  <2>1. request[h].observed[s] \in Nat /\ request[h].observed[s] <= version[s]
    BY DEF ReadSound, CacheTypeOK, Request
  <2>2. version[s] \in Nat /\ version'[s] \in {version[s], version[s] + 1}
    BY <1>1 DEF CacheTypeOK
  <2> QED
    BY <2>1, <2>2
<1>6. MarkSound'
  BY <1>3 DEF MarkSound, CacheTypeOK, Request
<1> QED
  BY <1>2, <1>4, <1>5, <1>6

LEMMA ExpiriesKeepCache ==
    ASSUME CacheInv, NEW r \in Runtime, VerdictExpires(r) \/ VersionExpires(r)
    PROVE  CacheInv'
<1> USE DEF CacheInv
<1>1. UNCHANGED <<rowVars, request, lost>> /\ \A t \in Task : Announced(t)' => Announced(t)
  BY DEF VerdictExpires, VersionExpires, rowVars, Announced
<1>2. CASE VerdictExpires(r)
  <2>1. CacheTypeOK'
    BY <1>1, <1>2 DEF CacheTypeOK, VerdictExpires, rowVars
  <2>2. version' = version /\ \A s \in Runtime : verdict'[s] # None => verdict'[s] = verdict[s]
    BY <1>2 DEF VerdictExpires, CacheTypeOK
  <2>3. ASSUME NEW v, NEW s \in Runtime, Sound(v, s) PROVE Sound(v, s)'
    BY <1>1, <2>2, <2>3, SoundStays
  <2>4. VerdictSound' /\ ReadSound'
    BY <1>1, <2>2, <2>3 DEF VerdictSound, ReadSound
  <2>5. MarkSound'
    BY <1>1, <2>3 DEF MarkSound, CacheTypeOK, Request
  <2> QED
    BY <2>1, <2>4, <2>5
<1>3. CASE VersionExpires(r)
  <2>1. CacheTypeOK'
    BY <1>1, <1>3 DEF CacheTypeOK, VersionExpires, rowVars
  <2>2. /\ verdict' = verdict /\ verdict[r] = None
        /\ \A h \in Handler : request[h].observed[r] = None
        /\ \A s \in Runtime : s # r => version'[s] = version[s]
    BY <1>3 DEF VersionExpires, CacheTypeOK
  <2>3. ASSUME NEW v, NEW s \in Runtime, s # r, Sound(v, s) PROVE Sound(v, s)'
    BY <1>1, <2>2, <2>3, SoundStays
  <2>4. VerdictSound' /\ ReadSound'
    BY <1>1, <2>2, <2>3 DEF VerdictSound, ReadSound
  <2>5. MarkSound'
    BY <1>1, <2>2, <2>3 DEF MarkSound, CacheTypeOK, Request
  <2> QED
    BY <2>1, <2>4, <2>5
<1> QED
  BY <1>2, <1>3

-----------------------------------------------------------------------------
(* Requests move.                                                            *)

(* A request that reads nothing new and marks nothing it had not found empty.*)
LEMMA QuietRequest ==
    ASSUME CacheInv, NEW h \in Handler, NEW q \in Request,
           request' = [request EXCEPT ![h] = q], UNCHANGED <<rowVars, redisVars>>,
           \A r \in q.empty : q.observed[r] # None,
           ~lost => \A r \in Runtime : q.observed[r] # None => q.observed[r] <= version[r],
           ~lost => \A r \in q.empty : Sound(q.observed[r], r),
           q.pc = "asking" \/ q.asking # None => q.empty = {}
    PROVE  CacheInv'
<1> USE DEF CacheInv
<1>1. /\ UNCHANGED <<queued, bumping, unannounced, version, verdict, lost>>
      /\ \A t \in Task : Announced(t)' => Announced(t)
  BY DEF rowVars, redisVars, Announced
<1>2. \A g \in Handler : request'[g] = IF g = h THEN q ELSE request[g]
  BY DEF CacheTypeOK
<1>3. CacheTypeOK'
  BY <1>1, <1>2 DEF CacheTypeOK
<1>4. ASSUME NEW v, NEW s \in Runtime, Sound(v, s) PROVE Sound(v, s)'
  BY <1>1, <1>4, SoundStays
<1>5. VerdictSound' /\ ReadSound'
  BY <1>1, <1>2, <1>4 DEF VerdictSound, ReadSound
<1>6. MarkSound'
  <2> SUFFICES ASSUME ~lost, NEW g \in Handler, NEW r \in request'[g].empty
               PROVE  Sound(request[g].observed[r], r)'
    BY <1>1 DEF MarkSound
  <2>1. r \in Runtime /\ Sound(request'[g].observed[r], r)
    BY <1>2 DEF MarkSound, CacheTypeOK, Request
  <2> QED
    BY <1>4, <2>1
<1> QED
  BY <1>3, <1>5, <1>6

LEMMA RequestsKeepCache ==
    ASSUME CacheInv, NEW h \in Handler, RequestStep(h)
    PROVE  CacheInv'
<1> USE DEF CacheInv
<1> DEFINE old == request[h]
<1>1. /\ old \in Request
      /\ \A r \in old.empty : old.observed[r] # None
      /\ ~lost => \A r \in Runtime : old.observed[r] # None => old.observed[r] <= version[r]
      /\ ~lost => \A r \in old.empty : Sound(old.observed[r], r)
      /\ old.pc = "asking" \/ old.asking # None => old.empty = {}
  BY DEF CacheTypeOK, ReadSound, MarkSound
<1>2. /\ IdleRequest \in Request /\ IdleRequest.asking = None /\ IdleRequest.pc = "idle"
      /\ \A r \in Runtime : IdleRequest.observed[r] = None
  BY CacheAssumption DEF IdleRequest, Request, Unread
<1>3. CASE \E rs \in Batch : Begin(h, rs)
  <2> PICK rs \in Batch : Begin(h, rs)
    BY <1>3
  <2> DEFINE q == [IdleRequest EXCEPT !.pc = "asking", !.todo = rs]
  <2>1. rs \subseteq Runtime
    BY CacheAssumption
  <2>2. q \in Request /\ q.observed = IdleRequest.observed /\ q.empty = {}
    BY <1>2, <2>1 DEF Request, IdleRequest
  <2>3. request' = [request EXCEPT ![h] = q] /\ UNCHANGED <<rowVars, redisVars>>
    BY DEF Begin
  <2>4. \A r \in Runtime : q.observed[r] # None => q.observed[r] <= version[r]
    BY <1>2, <2>2
  <2>5. q.empty = {} /\ q \in Request
    BY <2>2
  <2> HIDE DEF q
  <2> QED
    BY <2>3, <2>4, <2>5, QuietRequest
<1>4. ASSUME NEW r \in Runtime, CheckHit(h, r) PROVE CacheInv'
  <2> DEFINE q == [old EXCEPT !.todo = @ \ {r}]
  <2>1. /\ q \in Request /\ q.observed = old.observed /\ q.empty = old.empty
        /\ q.pc = old.pc /\ q.asking = old.asking
    BY <1>1 DEF Request
  <2>2. request' = [request EXCEPT ![h] = q] /\ UNCHANGED <<rowVars, redisVars>>
    BY <1>4 DEF CheckHit
  <2>3. /\ \A s \in q.empty : q.observed[s] # None
        /\ ~lost => \A s \in Runtime : q.observed[s] # None => q.observed[s] <= version[s]
        /\ ~lost => \A s \in q.empty : Sound(q.observed[s], s)
        /\ q.pc = "asking" \/ q.asking # None => q.empty = {}
    BY <1>1, <2>1, <2>2
  <2> HIDE DEF q
  <2> QED
    BY <2>1, <2>2, <2>3, QuietRequest
<1>5. ASSUME NEW r \in Runtime, CheckMiss(h, r) PROVE CacheInv'
  <2> DEFINE q == [old EXCEPT !.todo = @ \ {r}, !.asking = r]
  <2>1. q \in Request /\ q.observed = old.observed /\ q.empty = old.empty
    BY <1>1 DEF Request
  <2>2. request' = [request EXCEPT ![h] = q] /\ UNCHANGED <<rowVars, redisVars>> /\ q.empty = {}
    BY <1>1, <1>5, <2>1 DEF CheckMiss, Asking
  <2>3. /\ \A s \in q.empty : q.observed[s] # None
        /\ ~lost => \A s \in Runtime : q.observed[s] # None => q.observed[s] <= version[s]
        /\ ~lost => \A s \in q.empty : Sound(q.observed[s], s)
        /\ q.pc = "asking" \/ q.asking # None => q.empty = {}
    BY <1>1, <2>1, <2>2
  <2> HIDE DEF q
  <2> QED
    BY <2>1, <2>2, <2>3, QuietRequest
<1>6. CASE ReadVersion(h)
  <2> DEFINE s == old.asking
  <2>1. s \in Runtime /\ version[s] \in Nat
    BY <1>1, <1>6 DEF ReadVersion, Request, CacheTypeOK
  <2> PICK v \in {version[s], 0} :
        request' = [request EXCEPT ![h] = [@ EXCEPT !.asking = None, !.observed[s] = v]]
    BY <1>6 DEF ReadVersion
  <2> DEFINE q == [old EXCEPT !.asking = None, !.observed[s] = v]
  <2>2. v \in Nat /\ v <= version[s]
    BY <2>1
  <2>3. q \in Request /\ q.empty = old.empty
    BY <1>1, <2>1, <2>2 DEF Request
  <2>4. \A r \in Runtime : q.observed[r] = IF r = s THEN v ELSE old.observed[r]
    BY <1>1, <2>1 DEF Request
  <2>5. request' = [request EXCEPT ![h] = q] /\ UNCHANGED <<rowVars, redisVars>>
    BY <1>6 DEF ReadVersion
  <2>6. old.empty = {}
    BY <1>1, <1>6 DEF ReadVersion
  <2>7. /\ ~lost => \A r \in Runtime : q.observed[r] # None => q.observed[r] <= version[r]
        /\ q.empty = {}
    BY <1>1, <2>2, <2>3, <2>4, <2>6
  <2> HIDE DEF q
  <2> QED
    BY <2>3, <2>5, <2>7, QuietRequest
<1>7. CASE ListRows(h)
  <2> DEFINE none == {r \in Observed(h) : QueuedAt(r) = {}}
             q == [old EXCEPT !.pc = "marking", !.empty = none,
                              !.found = UNION {QueuedAt(r) : r \in Observed(h)}]
  <2>1. none \subseteq Runtime /\ UNION {QueuedAt(r) : r \in Observed(h)} \subseteq Task
    BY DEF Observed, QueuedAt, CacheTypeOK
  <2>2. /\ q \in Request /\ q.observed = old.observed /\ q.empty = none
        /\ q.pc = "marking" /\ q.asking = None
    BY <1>1, <1>7, <2>1 DEF Request, ListRows
  <2>3. ASSUME NEW r \in none
        PROVE  old.observed[r] # None /\ (~lost => Sound(old.observed[r], r))
    BY <1>1 DEF Observed, QueuedAt, Sound, Announced
  <2>4. request' = [request EXCEPT ![h] = q] /\ UNCHANGED <<rowVars, redisVars>>
    BY <1>7 DEF ListRows
  <2> QED
    BY <1>1, <2>2, <2>3, <2>4, QuietRequest
<1>8. ASSUME NEW r \in Runtime, MarkEmpty(h, r) PROVE CacheInv'
  <2> DEFINE q == [old EXCEPT !.empty = @ \ {r}]
  <2>1. /\ r \in old.empty /\ request' = [request EXCEPT ![h] = q]
        /\ UNCHANGED <<queued, bumping, unannounced, version, lost>>
        /\ \A t \in Task : Announced(t)' => Announced(t)
    BY <1>8 DEF MarkEmpty, rowVars, Announced
  <2>2. /\ q \in Request /\ q.observed = old.observed /\ q.empty \subseteq old.empty
        /\ q.pc = old.pc /\ q.asking = old.asking
    BY <1>1 DEF Request
  <2>3. \A g \in Handler : request'[g] = IF g = h THEN q ELSE request[g]
    BY <2>1 DEF CacheTypeOK
  <2>4. /\ verdict' \in [Runtime -> Nat \cup {None}]
        /\ \A s \in Runtime : verdict'[s] = verdict[s] \/ (s = r /\ verdict'[s] = old.observed[s])
    <3>1. verdict \in [Runtime -> Nat \cup {None}] /\ old.observed[r] \in Nat \cup {None}
      BY <1>1 DEF Request, CacheTypeOK
    <3>2. verdict' = [verdict EXCEPT ![r] = old.observed[r]] \/ verdict' = verdict
      BY <1>8 DEF MarkEmpty
    <3> QED
      BY <3>1, <3>2
  <2>5. CacheTypeOK'
    BY <1>1, <2>1, <2>2, <2>3, <2>4 DEF CacheTypeOK
  <2>6. ASSUME NEW v, NEW s \in Runtime, Sound(v, s) PROVE Sound(v, s)'
    BY <2>1, <2>6, SoundStays
  <2>7. VerdictSound'
    BY <1>1, <2>1, <2>4, <2>6 DEF VerdictSound
  <2>8. ReadSound'
    BY <2>1, <2>2, <2>3 DEF ReadSound
  <2>9. MarkSound'
    <3> SUFFICES ASSUME ~lost, NEW g \in Handler, NEW s \in request'[g].empty
                 PROVE  Sound(request[g].observed[s], s)'
      BY <2>1 DEF MarkSound
    <3>1. s \in Runtime /\ Sound(request'[g].observed[s], s)
      BY <2>2, <2>3 DEF MarkSound, CacheTypeOK, Request
    <3> QED
      BY <2>6, <3>1
  <2> QED
    BY <2>5, <2>7, <2>8, <2>9
<1>9. CASE Finish(h) \/ Abort(h)
  <2>1. request' = [request EXCEPT ![h] = IdleRequest] /\ UNCHANGED <<rowVars, redisVars>>
    BY <1>9 DEF Finish, Abort
  <2>2. IdleRequest.empty = {}
    BY DEF IdleRequest
  <2> QED
    BY <1>2, <2>1, <2>2, QuietRequest
<1> QED
  BY <1>3, <1>4, <1>5, <1>6, <1>7, <1>8, <1>9 DEF RequestStep

-----------------------------------------------------------------------------
(* Every step, with or without a change, keeps the invariant: one case per   *)
(* disjunct of Next.                                                         *)
LEMMA NextCache == CacheInv /\ [Next]_vars => CacheInv'
<1> SUFFICES ASSUME CacheInv, [Next]_vars PROVE CacheInv'
  OBVIOUS
<1>1. ASSUME NEW t \in Task, RowStep(t) PROVE CacheInv'
  <2>1. CASE Bump(t)
    <3>1. /\ RuntimeOf[t] \in Runtime /\ Incremented(RuntimeOf[t])
          /\ UNCHANGED <<verdict, request, lost>> /\ queued' = queued
          /\ unannounced' = unannounced /\ bumping' \subseteq bumping
          /\ \A u \in bumping : u \notin bumping' => u = t
      BY <2>1, CacheAssumption DEF Bump
    <3> QED
      BY <3>1, BumpsKeepCache
  <2> QED
    BY <1>1, <2>1, RowsKeepCache DEF RowStep
<1>2. ASSUME NEW h \in Handler, RequestStep(h) PROVE CacheInv'
  BY <1>2, RequestsKeepCache
<1>3. ASSUME NEW r \in Runtime, RuntimeStep(r) PROVE CacheInv'
  <2>1. CASE BumpFinished(r)
    <3>1. /\ Incremented(r) /\ UNCHANGED <<verdict, request, lost>> /\ queued' = queued
          /\ unannounced' = unannounced /\ bumping' = bumping
      BY <2>1 DEF BumpFinished, rowVars
    <3> QED
      BY <3>1, BumpsKeepCache
  <2> QED
    BY <1>3, <2>1, ExpiriesKeepCache DEF RuntimeStep
<1>4. CASE RedisLosesData
  <2>1. CacheTypeOK' /\ lost' = TRUE
    BY <1>4 DEF RedisLosesData, rowVars, CacheInv, CacheTypeOK, Unread
  <2>. QED  BY <2>1 DEF CacheInv, VerdictSound, ReadSound, MarkSound
<1>5. CASE UNCHANGED vars
  BY <1>5 DEF vars, CacheInv, CacheTypeOK, VerdictSound, ReadSound, MarkSound, Sound, Announced
<1> QED
  BY <1>1, <1>2, <1>3, <1>4, <1>5 DEF Next

LEMMA CacheInvariant == Spec => []CacheInv
BY InitCache, NextCache, PTL DEF Spec

(* Every variable keeps its type, and requests mark only what they read.     *)
THEOREM CacheTypeCorrect == Spec => []CacheTypeOK
BY CacheInvariant, PTL DEF CacheInv

(* Until Redis loses its data no announced row is hidden by a verdict, for   *)
(* any number of requests, rows and runtimes.                                *)
THEOREM CacheSafe == Spec => []VisibleUntilLoss
<1>1. CacheInv => VisibleUntilLoss
  <2> SUFFICES ASSUME CacheInv, ~lost, NEW t \in Task, Announced(t), IsEmpty(RuntimeOf[t])
               PROVE  FALSE
    BY DEF VisibleUntilLoss
  <2>1. RuntimeOf[t] \in Runtime /\ verdict[RuntimeOf[t]] # None
    BY CacheAssumption DEF CacheInv, CacheTypeOK, IsEmpty
  <2> QED
    BY <2>1 DEF CacheInv, VerdictSound, Sound, IsEmpty
<1> QED
  BY <1>1, CacheInvariant, PTL
=============================================================================
