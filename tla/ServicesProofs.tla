--------------------------- MODULE ServicesProofs ---------------------------
(***************************************************************************)
(* Proofs about the statistics, the shows, the way of a request to its     *)
(* handler, the waiting room and the order numbers, for every number of    *)
(* callers, users, sessions and processes, every limit and every clock.    *)
(***************************************************************************)
EXTENDS WaitingRoom, Access, OrderNumbers, Stats, Shows,
        FiniteSetTheorems, SequenceTheorems, TLAPS

-----------------------------------------------------------------------------
(* Shows.                                                                  *)

\* With any number of administrators at work on the show, it leaves the
\* published statuses only by a write that relied on an outdated test.
THEOREM ShowStays == ShowSpec => []PublishedShowStays
<1>1. ShowInit => PublishedShowStays
  BY DEF ShowInit, PublishedShowStays
<1>2. PublishedShowStays /\ [ShowNext]_showVars => PublishedShowStays'
  <2> SUFFICES ASSUME PublishedShowStays, [ShowNext]_showVars PROVE PublishedShowStays'
    OBVIOUS
  <2>1. CASE CreateShow \/ UNCHANGED showVars
    BY <2>1 DEF CreateShow, showVars, PublishedShowStays
  <2>2. ASSUME NEW s \in ShowCalls,
               BeginChange(s) \/ BeginPublish(s) \/ BeginUnpublish(s) \/ FailShow(s)
        PROVE  PublishedShowStays'
    <3>1. UNCHANGED <<showStatus, removed, published, showStale>>
      BY <2>2 DEF BeginChange, BeginPublish, BeginUnpublish, BeginShow, FailShow
    <3>2. QED
      BY <3>1 DEF PublishedShowStays
  <2>3. ASSUME NEW s \in ShowCalls, SaveShow(s) \/ DeleteShow(s) PROVE PublishedShowStays'
    BY <2>3 DEF SaveShow, DeleteShow, EndShow, MayChange, Found, PublishedShowStays
  <2>4. ASSUME NEW s \in ShowCalls, PublishShow(s) \/ UnpublishShow(s)
        PROVE  PublishedShowStays'
    <3>1. PICK to \in {"on_sale", "off_sale"} : UpdateShowStatus(s, to)
      BY <2>4 DEF PublishShow, UnpublishShow
    <3>2. showStale' \/ ~ removed
      BY <3>1 DEF UpdateShowStatus, EndShow, MayMove, Found
    <3>3. QED
      BY <3>1, <3>2 DEF UpdateShowStatus, PublishedShowStays
  <2>5. QED
    BY <2>1, <2>2, <2>3, <2>4 DEF ShowNext
<1>3. QED
  BY <1>1, <1>2, PTL DEF ShowSpec

-----------------------------------------------------------------------------
(* Statistics.                                                             *)

\* Figures v may be under the key k.
Recent(k, v) == v >= since[k] \/ (v = Zeros /\ zeroed[k])

\* What is cached and what the sessions have read is recent; the record of a key
\* is not ahead of the tickets, and a busy session has a key.
StatsInv ==
    /\ \A k \in Keys : since[k] <= table
    /\ \A k \in Keys : statsCache[k] # Nothing => Recent(k, statsCache[k])
    /\ \A s \in StatsCalls, k \in Keys : HasRead(s, k) => Recent(k, ask[s].from)
    /\ \A s \in StatsCalls : ask[s].step # "idle" => ask[s].key \in Keys

LEMMA StatsStart == StatsInit => StatsTypeOK /\ StatsInv
BY DEF StatsInit, StatsTypeOK, StatsInv, Idle, Nothing, Zeros, HasRead, Keys

\* A session's call has a key, a step and figures.
Asks == [key : Keys \cup {"none"}, step : {"idle", "first", "rest", "fill"}, from : Nat]

\* The steps keep the types and add nothing to what may be cached but what a
\* session has read, and to what a session has read but zeros and the present.
StatsMoves ==
    /\ table' \in {table, table + 1}
    /\ ask' \in [StatsCalls -> Asks]
    /\ statsCache' \in [Keys -> Nat \cup {Nothing}]
    /\ statsFaults' \in Nat
    /\ \A s \in StatsCalls : ask'[s].step # "idle" => ask'[s].key \in Keys
    /\ \A k \in Keys : \/ statsCache'[k] \in {statsCache[k], Nothing}
                       \/ \E s \in StatsCalls : HasRead(s, k) /\ statsCache'[k] = ask[s].from
    /\ \A s \in StatsCalls, k \in Keys :
          HasRead(s, k)' => \/ HasRead(s, k) /\ ask'[s].from = ask[s].from
                           \/ ask'[s].from \in {table, Zeros}

LEMMA StatsStep ==
    ASSUME StatsTypeOK, StatsInv, StatsNext
    PROVE  StatsMoves
<1>t. /\ table \in Nat \ {0} /\ statsCache \in [Keys -> Nat \cup {Nothing}]
      /\ ask \in [StatsCalls -> Asks] /\ statsFaults \in Nat
  BY DEF StatsTypeOK, Asks
<1>f. ASSUME NoStatsFault \/ StatsFault PROVE statsFaults' \in Nat
  BY <1>t, <1>f DEF NoStatsFault, StatsFault
<1>1. ASSUME NEW s \in StatsCalls, NEW k \in Keys, MissCache(s, k) PROVE StatsMoves
  <2>1. /\ UNCHANGED <<table, statsCache>> /\ statsFaults' \in Nat
        /\ ask' = [ask EXCEPT ![s].key = k, ![s].step = "first"]
    BY <1>1, <1>f DEF MissCache
  <2>2. /\ ask'[s].key = k /\ ask'[s].step = "first" /\ ask'[s] \in Asks
        /\ \A u \in StatsCalls : u # s => ask'[u] = ask[u]
    BY <1>t, <2>1 DEF Asks
  <2>3. ask' \in [StatsCalls -> Asks]
    BY <1>t, <2>1, <2>2
  <2>4. QED
    BY <1>t, <2>1, <2>2, <2>3 DEF StatsMoves, StatsInv, HasRead
<1>2. ASSUME NEW s \in StatsCalls, FirstStatement(s) \/ OtherStatements(s) PROVE StatsMoves
  <2>1. PICK next \in {"rest", "fill"}, v \in {table, Zeros, ask[s].from} :
            /\ UNCHANGED <<table, statsCache>> /\ statsFaults' \in Nat
            /\ ask' = [ask EXCEPT ![s].step = next, ![s].from = v]
            /\ ask[s].step \in {"first", "rest"}
            /\ v \in {table, Zeros} \/ ask[s].step = "rest"
    BY <1>2, <1>f DEF FirstStatement, OtherStatements, Count
  <2>n. v \in Nat /\ ask[s] \in Asks
    BY <1>t, <2>1 DEF Asks, Zeros
  <2>2. /\ ask'[s].key = ask[s].key /\ ask'[s].step = next /\ ask'[s].from = v
        /\ ask'[s] \in Asks
        /\ \A u \in StatsCalls : u # s => ask'[u] = ask[u]
    BY <1>t, <2>1, <2>n DEF Asks
  <2>3. ask' \in [StatsCalls -> Asks]
    BY <1>t, <2>1, <2>2
  <2>4. QED
    BY <1>t, <2>1, <2>2, <2>3 DEF StatsMoves, StatsInv, HasRead
<1>3. ASSUME NEW s \in StatsCalls, FillStats(s) PROVE StatsMoves
  <2> DEFINE k == ask[s].key
             v == ask[s].from
  <2>1. /\ ask[s].step = "fill" /\ UNCHANGED table /\ statsFaults' \in Nat
        /\ ask' = [ask EXCEPT ![s] = Idle]
        /\ statsCache' = [statsCache EXCEPT ![k] = v] \/ UNCHANGED statsCache
    BY <1>3, <1>f DEF FillStats, CacheKey
  <2>2. k \in Keys /\ v \in Nat /\ HasRead(s, k)
    BY <1>t, <2>1 DEF StatsInv, HasRead, Asks
  <2>3. Idle \in Asks /\ Idle.step = "idle"
    BY DEF Idle, Asks, Zeros
  <2>4. /\ ask'[s] = Idle /\ ask' \in [StatsCalls -> Asks]
        /\ \A u \in StatsCalls : u # s => ask'[u] = ask[u]
    BY <1>t, <2>1, <2>3
  <2>5. /\ statsCache' \in [Keys -> Nat \cup {Nothing}]
        /\ \A l \in Keys : statsCache'[l] = statsCache[l] \/ (l = k /\ statsCache'[l] = v)
    BY <1>t, <2>1, <2>2
  <2>6. QED
    BY <1>t, <2>1, <2>2, <2>3, <2>4, <2>5 DEF StatsMoves, StatsInv, HasRead
<1>4. CASE TableChanges
  BY <1>t, <1>4 DEF TableChanges, StatsMoves, StatsInv, HasRead
<1>5. ASSUME NEW k \in Keys, StatsExpires(k) PROVE StatsMoves
  BY <1>t, <1>5 DEF StatsExpires, StatsMoves, StatsInv, HasRead
<1>6. QED
  BY <1>1, <1>2, <1>3, <1>4, <1>5 DEF StatsNext

\* Figures v may be under the key k after the step.
RecentNext(k, v) == v >= since'[k] \/ (v = Zeros /\ zeroed'[k])

\* Every step keeps the invariant: the record of a key moves only when nothing is
\* cached under it and no session has read what is.
LEMMA StatsKept ==
    StatsTypeOK /\ StatsInv /\ [StatsNext]_statsVars => StatsTypeOK' /\ StatsInv'
<1> SUFFICES ASSUME StatsTypeOK, StatsInv, StatsNext PROVE StatsTypeOK' /\ StatsInv'
  BY DEF statsVars, StatsTypeOK, StatsInv, HasRead, Recent
<1>1. StatsMoves
  BY StatsStep
<1>2. /\ since' = [k \in Keys |-> IF Fresh(k)' THEN table' ELSE since[k]]
      /\ zeroed' = [k \in Keys |->
            /\ ~ Fresh(k)'
            /\ zeroed[k] \/ \E s \in StatsCalls : HasRead(s, k)' /\ ask'[s].from = Zeros]
  BY DEF StatsNext, Record
<1>3. /\ table \in Nat \ {0} /\ table' \in Nat \ {0} /\ table <= table'
      /\ since \in [Keys -> Nat]
  BY <1>1 DEF StatsTypeOK, StatsMoves
<1>4. since' \in [Keys -> Nat] /\ zeroed' \in [Keys -> BOOLEAN]
  BY <1>2, <1>3
<1>5. StatsTypeOK'
  BY <1>1, <1>3, <1>4 DEF StatsTypeOK, StatsMoves, Asks
<1>6. ASSUME NEW k \in Keys, statsCache'[k] # Nothing PROVE RecentNext(k, statsCache'[k])
  <2>1. ~ Fresh(k)' /\ since'[k] = since[k] /\ (zeroed[k] => zeroed'[k])
    BY <1>2, <1>6 DEF Fresh
  <2>2. Recent(k, statsCache'[k])
    BY <1>1, <1>6 DEF StatsMoves, StatsInv
  <2>3. QED
    BY <2>1, <2>2 DEF Recent, RecentNext
<1>7. ASSUME NEW s \in StatsCalls, NEW k \in Keys, HasRead(s, k)' PROVE RecentNext(k, ask'[s].from)
  <2>1. ~ Fresh(k)' /\ since'[k] = since[k] /\ (zeroed[k] => zeroed'[k])
        /\ (ask'[s].from = Zeros => zeroed'[k])
    BY <1>2, <1>7 DEF Fresh, Computed, HasRead
  <2>2. \/ Recent(k, ask'[s].from)
        \/ ask'[s].from \in {table, Zeros}
    BY <1>1, <1>7 DEF StatsMoves, StatsInv
  <2>3. since[k] <= table
    BY DEF StatsInv
  <2>4. QED
    BY <1>3, <2>1, <2>2, <2>3 DEF Recent, RecentNext
<1>8. \A k \in Keys : since'[k] <= table'
  BY <1>2, <1>3 DEF StatsInv
<1>9. QED
  BY <1>1, <1>5, <1>6, <1>7, <1>8 DEF StatsInv, StatsMoves, HasRead, Recent, RecentNext

\* For any number of calls at a time, of changes and of failures, of statements
\* and of Redis alike: no statistics are shown from before their key was last
\* absent with nobody computing them, but the zeros of a statement that failed.
THEOREM StatsRecovery == StatsSpec => []StatsRecover
<1>1. StatsInv => StatsRecover
  BY DEF StatsInv, StatsRecover, Recent
<1>2. QED
  BY <1>1, StatsStart, StatsKept, PTL DEF StatsSpec

-----------------------------------------------------------------------------
(* The cached roles.                                                       *)

\* The fields of a request.
Fields == {"by", "route", "flaws", "step", "at", "seen", "served", "lucky", "target", "status"}

\* A request is a record with the fields of NoRequest, and sessions have one.
AccessShape ==
    /\ version \in [Accounts -> Nat]
    /\ DOMAIN cached = Accounts
    /\ DOMAIN excuse = Accounts
    /\ DOMAIN req = Sessions
    /\ \A s \in Sessions : DOMAIN req[s] = Fields

\* A request for u is at the clearing.
Clearing(u) == \E s \in Sessions : req[s].step = "clear" /\ req[s].target = u

LEMMA ShapeInit == AccessInit => AccessShape
BY DEF AccessInit, AccessShape, NoRequest, Fields

\* Steps change fields of requests, and add none.
LEMMA FieldsStay ==
    ASSUME DOMAIN req = Sessions, \A t \in Sessions : DOMAIN req[t] = Fields,
           NEW s \in Sessions, Arrive(s) \/ SessionStep(s)
    PROVE  DOMAIN req' = Sessions /\ \A t \in Sessions : DOMAIN req'[t] = Fields
<1>1. CASE Arrive(s)
  BY <1>1 DEF Arrive, NoRequest, Fields
<1>2. CASE Depart(s)
  BY <1>2 DEF Depart, NoRequest, Fields
<1>3. CASE Pass(s)
  BY <1>3 DEF Pass
<1>4. ASSUME NEW status, AbortWith(s, status)
      PROVE  DOMAIN req' = Sessions /\ \A t \in Sessions : DOMAIN req'[t] = Fields
  BY <1>4 DEF AbortWith
<1>5. ASSUME NEW next, GoTo(s, next)
      PROVE  DOMAIN req' = Sessions /\ \A t \in Sessions : DOMAIN req'[t] = Fields
  BY <1>5 DEF GoTo
<1>6. ASSUME NEW k, NEW kind, NEW limit, Limit(s, kind, k, limit)
      PROVE  DOMAIN req' = Sessions /\ \A t \in Sessions : DOMAIN req'[t] = Fields
  <2>1. CASE PassByLuck(s)
    BY <2>1 DEF PassByLuck
  <2>2. QED
    BY <1>3, <1>4, <1>6, <2>1 DEF Limit
<1>7. CASE CheckToken(s)
  <2>1. CASE req' = [req EXCEPT ![s].step = "cache", ![s].lucky = TRUE]
    BY <2>1
  <2>2. QED
    BY <1>4, <1>5, <1>7, <2>1 DEF CheckToken
<1>8. CASE ReadCache(s)
  <2>1. ASSUME NEW c, PassWith(s, c)
        PROVE  DOMAIN req' = Sessions /\ \A t \in Sessions : DOMAIN req'[t] = Fields
    BY <2>1 DEF PassWith
  <2>2. QED
    BY <1>5, <1>8, <2>1 DEF ReadCache
<1>9. CASE LoadUser(s)
  <2>1. ASSUME NEW c, req' = [req EXCEPT ![s].step = "fill", ![s].seen = c]
        PROVE  DOMAIN req' = Sessions /\ \A t \in Sessions : DOMAIN req'[t] = Fields
    BY <2>1
  <2>2. CASE req' = [req EXCEPT ![s].step = "answered", ![s].status = 401, ![s].lucky = TRUE]
    BY <2>2
  <2>3. QED
    BY <1>9, <2>1, <2>2 DEF LoadUser
<1>10. CASE FillCache(s)
  BY <1>3, <1>10 DEF FillCache
<1>11. CASE CheckRole(s)
  BY <1>3, <1>4, <1>11 DEF CheckRole
<1>12. CASE Handle(s)
  <2>1. CASE req' = [req EXCEPT ![s].step = "write", ![s].served = TRUE]
    BY <2>1
  <2>2. ASSUME NEW status,
               req' = [req EXCEPT ![s].step = "answered", ![s].served = TRUE,
                                  ![s].status = status]
        PROVE  DOMAIN req' = Sessions /\ \A t \in Sessions : DOMAIN req'[t] = Fields
    BY <2>2
  <2>3. QED
    BY <1>4, <1>12, <2>1, <2>2 DEF Handle
<1>13. CASE WriteRole(s)
  BY <1>4, <1>5, <1>13 DEF WriteRole
<1>14. CASE ClearCache(s)
  BY <1>4, <1>14 DEF ClearCache
<1>15. QED
  BY <1>1, <1>2, <1>6, <1>7, <1>8, <1>9, <1>10, <1>11, <1>12, <1>13, <1>14
     DEF SessionStep, RateLimit, SeckillRateLimit

LEMMA ShapeNext == AccessShape /\ [AccessNext]_accessVars => AccessShape'
<1> SUFFICES ASSUME AccessShape, [AccessNext]_accessVars PROVE AccessShape'
  OBVIOUS
<1> USE DEF AccessShape
<1>1. ASSUME NEW s \in Sessions, Arrive(s) \/ SessionStep(s) PROVE AccessShape'
  <2>1. DOMAIN req' = Sessions /\ \A t \in Sessions : DOMAIN req'[t] = Fields
    BY <1>1, FieldsStay
  <2>2. CASE UNCHANGED <<version, cached, excuse>>
    BY <2>1, <2>2
  <2>3. CASE FillCache(s)
    BY <2>1, <2>3 DEF FillCache
  <2>4. CASE WriteRole(s)
    BY <2>1, <2>4 DEF WriteRole
  <2>5. CASE ClearCache(s)
    BY <2>1, <2>5 DEF ClearCache
  <2>6. CASE CheckToken(s) \/ ReadCache(s) \/ LoadUser(s) \/ CheckRole(s) \/ Handle(s)
    BY <2>2, <2>6 DEF CheckToken, ReadCache, LoadUser, CheckRole, Handle
  <2>7. CASE Arrive(s) \/ Depart(s) \/ RateLimit(s) \/ SeckillRateLimit(s)
    BY <2>2, <2>7 DEF Arrive, Depart, RateLimit, SeckillRateLimit, Limit
  <2>8. QED
    BY <1>1, <2>3, <2>4, <2>5, <2>6, <2>7 DEF SessionStep
<1>2. CASE \E k \in Limited : WindowEnds(k)
  BY <1>2 DEF WindowEnds
<1>3. CASE \E u \in Accounts : CacheExpires(u)
  BY <1>3 DEF CacheExpires
<1>4. CASE UNCHANGED accessVars
  BY <1>4 DEF accessVars
<1>5. QED
  BY <1>1, <1>2, <1>3, <1>4 DEF AccessNext

\* Nothing about the roles changes, and no request leaves the clearing.
LEMMA RolesStay ==
    ASSUME StaleNeedsRace, UNCHANGED <<version, cached, excuse>>,
           \A s \in Sessions : req[s].step = "clear" => req'[s] = req[s]
    PROVE  StaleNeedsRace'
BY DEF StaleNeedsRace, OutOfDate

\* A session at its middlewares or its handler leaves the others alone.
LEMMA RequestsApart ==
    ASSUME DOMAIN req = Sessions, NEW s \in Sessions,
           CheckToken(s) \/ ReadCache(s) \/ LoadUser(s) \/ CheckRole(s) \/ Handle(s)
    PROVE  \A t \in Sessions : t # s => req'[t] = req[t]
<1>1. CASE CheckToken(s)
  BY <1>1 DEF CheckToken, AbortWith, GoTo
<1>2. CASE ReadCache(s)
  BY <1>2 DEF ReadCache, PassWith, GoTo
<1>3. CASE LoadUser(s)
  BY <1>3 DEF LoadUser
<1>4. CASE CheckRole(s)
  BY <1>4 DEF CheckRole, Pass, AbortWith
<1>5. CASE Handle(s)
  BY <1>5 DEF Handle, AbortWith
<1>6. QED
  BY <1>1, <1>2, <1>3, <1>4, <1>5

LEMMA StaleNext ==
    AccessShape /\ StaleNeedsRace /\ [AccessNext]_accessVars => StaleNeedsRace'
<1> SUFFICES ASSUME AccessShape, StaleNeedsRace, [AccessNext]_accessVars
             PROVE  StaleNeedsRace'
  OBVIOUS
<1>s. /\ DOMAIN req = Sessions /\ DOMAIN cached = Accounts
      /\ version \in [Accounts -> Nat] /\ DOMAIN excuse = Accounts
      /\ \A s \in Sessions : {"step", "target", "seen", "at", "by"} \subseteq DOMAIN req[s]
  BY DEF AccessShape, Fields
<1>1. ASSUME NEW s \in Sessions, Arrive(s) \/ Depart(s) PROVE StaleNeedsRace'
  BY <1>1, <1>s, RolesStay DEF Arrive, Depart
<1>2. ASSUME NEW s \in Sessions, RateLimit(s) \/ SeckillRateLimit(s) PROVE StaleNeedsRace'
  BY <1>2, <1>s, RolesStay DEF RateLimit, SeckillRateLimit, Limit, Pass, AbortWith, PassByLuck
<1>3. ASSUME NEW s \in Sessions,
             CheckToken(s) \/ ReadCache(s) \/ LoadUser(s) \/ CheckRole(s) \/ Handle(s)
      PROVE  StaleNeedsRace'
  <2>1. UNCHANGED <<version, cached, excuse>>
    BY <1>3 DEF CheckToken, ReadCache, LoadUser, CheckRole, Handle
  <2>2. req[s].step # "clear"
    BY <1>3 DEF CheckToken, ReadCache, LoadUser, CheckRole, Handle
  <2>3. \A t \in Sessions : t # s => req'[t] = req[t]
    BY <1>3, <1>s, RequestsApart
  <2>4. QED
    BY <2>1, <2>2, <2>3, RolesStay
<1>4. ASSUME NEW s \in Sessions, FillCache(s) PROVE StaleNeedsRace'
  <2>1. \A t \in Sessions : req[t].step = "clear" => req'[t] = req[t]
    BY <1>4, <1>s DEF FillCache, Pass
  <2>2. CASE UNCHANGED <<cached, excuse>>
    BY <1>4, <2>1, <2>2, RolesStay DEF FillCache
  <2>3. CASE ~ UNCHANGED <<cached, excuse>>
    <3> DEFINE u == req[s].by
    <3>1. /\ cached' = [cached EXCEPT ![u] = req[s].seen]
          /\ excuse' = [excuse EXCEPT ![u] =
                           IF req[s].seen.version = version[u] THEN {} ELSE {"overtaken"}]
          /\ version' = version
      BY <1>4, <2>3 DEF FillCache
    <3>2. SUFFICES ASSUME NEW x \in Accounts, OutOfDate(x)', excuse'[x] = {}
                   PROVE  Clearing(x)'
      BY DEF StaleNeedsRace, Clearing
    <3>3. CASE x = u
      BY <1>s, <3>1, <3>2, <3>3 DEF OutOfDate
    <3>4. CASE x # u
      BY <1>s, <2>1, <3>1, <3>2, <3>4 DEF OutOfDate, StaleNeedsRace, Clearing
    <3>5. QED
      BY <3>3, <3>4
  <2>4. QED
    BY <2>2, <2>3
<1>5. ASSUME NEW s \in Sessions, WriteRole(s) PROVE StaleNeedsRace'
  <2>1. \A t \in Sessions : req[t].step = "clear" => req'[t] = req[t]
    BY <1>5, <1>s DEF WriteRole, AbortWith, GoTo
  <2>2. CASE UNCHANGED version
    BY <1>5, <2>1, <2>2, RolesStay DEF WriteRole
  <2>3. CASE version' # version
    <3>1. /\ version' = [version EXCEPT ![req[s].target] = @ + 1]
          /\ req' = [req EXCEPT ![s].step = "clear"]
          /\ UNCHANGED <<cached, excuse>>
      BY <1>5, <2>3 DEF WriteRole, GoTo
    <3>2. req'[s].step = "clear" /\ req'[s].target = req[s].target
      BY <1>s, <3>1
    <3>3. ASSUME NEW x \in Accounts, x # req[s].target, OutOfDate(x)'
          PROVE  Clearing(x)' \/ excuse'[x] # {}
      BY <1>s, <2>1, <3>1, <3>3 DEF OutOfDate, StaleNeedsRace, Clearing
    <3>4. SUFFICES ASSUME NEW x \in Accounts, OutOfDate(x)'
                   PROVE  Clearing(x)' \/ excuse'[x] # {}
      BY DEF StaleNeedsRace, Clearing
    <3>5. CASE x = req[s].target
      BY <3>2, <3>5 DEF Clearing
    <3>6. CASE x # req[s].target
      BY <3>3, <3>4, <3>6
    <3>7. QED
      BY <3>5, <3>6
  <2>4. QED
    BY <2>2, <2>3
<1>6. ASSUME NEW s \in Sessions, ClearCache(s) PROVE StaleNeedsRace'
  <2>1. /\ \A t \in Sessions : t # s => req'[t] = req[t]
        /\ version' = version
    BY <1>6, <1>s DEF ClearCache, AbortWith
  <2>2. SUFFICES ASSUME NEW x \in Accounts, OutOfDate(x)', excuse'[x] = {}
                 PROVE  Clearing(x)'
    BY DEF StaleNeedsRace, Clearing
  <2>3. x # req[s].target /\ OutOfDate(x) /\ excuse[x] = {}
    BY <1>6, <1>s, <2>1, <2>2 DEF ClearCache, OutOfDate
  <2>4. QED
    BY <2>1, <2>3 DEF StaleNeedsRace, Clearing
<1>7. CASE \E k \in Limited : WindowEnds(k)
  BY <1>7, RolesStay DEF WindowEnds
<1>8. ASSUME NEW v \in Accounts, CacheExpires(v) PROVE StaleNeedsRace'
  BY <1>8, <1>s DEF CacheExpires, StaleNeedsRace, OutOfDate
<1>9. CASE UNCHANGED accessVars
  BY <1>9, RolesStay DEF accessVars
<1>10. QED
  BY <1>1, <1>2, <1>3, <1>4, <1>5, <1>6, <1>7, <1>8, <1>9 DEF AccessNext, SessionStep

\* For any number of accounts, sessions and failures, a changed role is judged
\* by an outdated copy only between the write and its clearing, after a
\* clearing that failed, or when an older read was put into the cache later.
THEOREM StaleRoles == AccessSpec => []StaleNeedsRace
<1>1. AccessInit => StaleNeedsRace
  BY DEF AccessInit, StaleNeedsRace, OutOfDate
<1>2. AccessShape /\ StaleNeedsRace /\ [AccessNext]_accessVars => StaleNeedsRace'
  BY StaleNext
<1> QED
  BY <1>1, <1>2, ShapeInit, ShapeNext, PTL DEF AccessSpec

-----------------------------------------------------------------------------
(* The way of a request to its handler.                                    *)

\* The handlers that are routed without a token.
OpenHandlers == {"HealthCheck", "Register", "Login"}

\* The tests of a handler are those its group names, none of them asks for a
\* user where no token is, and none of its answers is that of a limit.
Regular(h, x) ==
    /\ x.ok # 429 /\ 429 \notin x.errors
    /\ \A i \in DOMAIN x.tests :
          /\ x.tests[i] \in {"id", "body", "time", "user"}
          /\ h \in OpenHandlers => x.tests[i] # "user"

LEMMA HandlersAreRegular ==
    \A g \in HandlerGroups : \A h \in DOMAIN g : Regular(h, g[h])
<1> USE DEF Regular, OpenHandlers, Handler
<1>1. \A h \in DOMAIN EventAdminHandlers : Regular(h, EventAdminHandlers[h])
  BY DEF EventAdminHandlers
<1>2. \A h \in DOMAIN EventHandlers : Regular(h, EventHandlers[h])
  BY DEF EventHandlers
<1>3. \A h \in DOMAIN StockHandlers : Regular(h, StockHandlers[h])
  BY DEF StockHandlers
<1>4. \A h \in DOMAIN ShowEditHandlers : Regular(h, ShowEditHandlers[h])
  BY DEF ShowEditHandlers
<1>5. \A h \in DOMAIN ShowHandlers : Regular(h, ShowHandlers[h])
  BY DEF ShowHandlers
<1>6. \A h \in DOMAIN TicketHandlers : Regular(h, TicketHandlers[h])
  BY DEF TicketHandlers
<1>7. \A h \in DOMAIN UseHandlers : Regular(h, UseHandlers[h])
  BY DEF UseHandlers
<1>8. \A h \in DOMAIN MarketplaceHandlers : Regular(h, MarketplaceHandlers[h])
  BY DEF MarketplaceHandlers
<1>9. \A h \in DOMAIN MyMarketplaceHandlers : Regular(h, MyMarketplaceHandlers[h])
  BY DEF MyMarketplaceHandlers
<1>10. \A h \in DOMAIN TransferHandlers : Regular(h, TransferHandlers[h])
  BY DEF TransferHandlers
<1>11. \A h \in DOMAIN PromoCodeHandlers : Regular(h, PromoCodeHandlers[h])
  BY DEF PromoCodeHandlers
<1>12. \A h \in DOMAIN StatsHandlers : Regular(h, StatsHandlers[h])
  BY DEF StatsHandlers
<1>13. \A h \in DOMAIN QueueHandlers : Regular(h, QueueHandlers[h])
  BY DEF QueueHandlers
<1>14. \A h \in DOMAIN WaitlistHandlers : Regular(h, WaitlistHandlers[h])
  BY DEF WaitlistHandlers
<1>15. \A h \in DOMAIN AuthHandlers : Regular(h, AuthHandlers[h])
  BY DEF AuthHandlers
<1>16. \A h \in DOMAIN HealthHandlers : Regular(h, HealthHandlers[h])
  BY DEF HealthHandlers
<1> HIDE DEF Regular
<1>17. QED
  BY <1>1, <1>2, <1>3, <1>4, <1>5, <1>6, <1>7, <1>8, <1>9, <1>10, <1>11, <1>12,
     <1>13, <1>14, <1>15, <1>16 DEF HandlerGroups

LEMMA HandlerIsRegular ==
    ASSUME NEW h \in DOMAIN Handlers PROVE Regular(h, Handlers[h])
<1>1. PICK g \in HandlerGroups : h \in DOMAIN g
  BY DEF Handlers
<1> DEFINE c == CHOOSE x \in HandlerGroups : h \in DOMAIN x
<1>2. c \in HandlerGroups /\ h \in DOMAIN c
  BY <1>1
<1>3. Handlers[h] = c[h]
  BY DEF Handlers
<1>4. QED
  BY <1>2, <1>3, HandlersAreRegular

\* The names behind the chains that ask for a token.
MemberNames ==
    {"GetProfile", "ListShows", "GetShow", "JoinWaitlist", "GetWaitlistPosition",
     "LeaveWaitlist"}
    \cup EventRoutes \cup QueueRoutes \cup PromoRoutes \cup OwnTickets
    \cup TicketRequests \cup TransferRoutes \cup MarketplaceRoutes
AdminNames == AdminRoutesShared \cup {"UpdateUserRole"}

\* Each process puts a handler behind the chain of its kind.
Routed(r) ==
    \/ r.chain \in {Open, Public} /\ r.handler \in OpenHandlers
    \/ r.chain = Member /\ r.handler \in MemberNames
    \/ r.chain = Buyer /\ r.handler = "PurchaseTicket"
    \/ r.chain = Admin /\ r.handler \in AdminNames

LEMMA EachIsRouted == \A r \in Routes : Routed(r)
<1>1. \A r \in ApiRoutes : Routed(r)
  BY DEF ApiRoutes, Routed, Behind, AuthRoutes, OpenHandlers, MemberNames, AdminNames
<1>2. \A r \in SeckillRoutes : Routed(r)
  BY DEF SeckillRoutes, Routed, Behind, AuthRoutes, OpenHandlers, MemberNames
<1>3. \A r \in OrderRoutes : Routed(r)
  BY DEF OrderRoutes, Routed, Behind, AuthRoutes, OpenHandlers, MemberNames
<1>4. \A r \in AdminRoutes : Routed(r)
  BY DEF AdminRoutes, Routed, Behind, OpenHandlers, AdminNames
<1>5. QED
  BY <1>1, <1>2, <1>3, <1>4 DEF Routes

LEMMA NamesApart ==
    /\ OpenHandlers \cap (MemberNames \cup {"PurchaseTicket"} \cup AdminNames) = {}
    /\ MemberNames \cap ({"PurchaseTicket"} \cup AdminNames) = {}
    /\ "PurchaseTicket" \notin AdminNames
BY DEF OpenHandlers, MemberNames, AdminNames, EventRoutes, QueueRoutes, PromoRoutes,
       OwnTickets, TicketRequests, TransferRoutes, MarketplaceRoutes, AdminRoutesShared

\* A handler has one chain in all processes, but for those of /api/auth.
LEMMA TheRoutesAgree == RoutesAgree
BY EachIsRouted, NamesApart DEF RoutesAgree, Routed

LEMMA EachIsHandled == \A r \in Routes : r.handler \in DOMAIN Handlers
<1>1. OpenHandlers \cup {"PurchaseTicket", "UpdateUserRole"} \subseteq DOMAIN Handlers
  BY DEF Handlers, HandlerGroups, OpenHandlers, AuthHandlers, HealthHandlers, TicketHandlers
<1>2. MemberNames \subseteq DOMAIN Handlers
  <2>1. MemberNames \subseteq
           DOMAIN AuthHandlers \cup DOMAIN ShowHandlers \cup DOMAIN WaitlistHandlers
           \cup DOMAIN EventHandlers \cup DOMAIN StockHandlers \cup DOMAIN QueueHandlers
           \cup DOMAIN PromoCodeHandlers \cup DOMAIN TicketHandlers
           \cup DOMAIN UseHandlers \cup DOMAIN TransferHandlers
           \cup DOMAIN MarketplaceHandlers \cup DOMAIN MyMarketplaceHandlers
    BY DEF MemberNames, EventRoutes, QueueRoutes, PromoRoutes, OwnTickets, TicketRequests,
           TransferRoutes, MarketplaceRoutes, AuthHandlers, ShowHandlers,
           WaitlistHandlers, EventHandlers, StockHandlers, QueueHandlers,
           PromoCodeHandlers, TicketHandlers, UseHandlers, TransferHandlers,
           MarketplaceHandlers, MyMarketplaceHandlers
  <2>2. QED
    BY <2>1 DEF Handlers, HandlerGroups
<1>3. AdminRoutesShared \subseteq DOMAIN Handlers
  <2>1. AdminRoutesShared \subseteq
           DOMAIN EventAdminHandlers \cup DOMAIN EventHandlers \cup DOMAIN StockHandlers
           \cup DOMAIN ShowEditHandlers \cup DOMAIN ShowHandlers
           \cup DOMAIN PromoCodeHandlers \cup DOMAIN StatsHandlers
           \cup DOMAIN TransferHandlers
    BY DEF AdminRoutesShared, EventAdminHandlers, EventHandlers, StockHandlers,
           ShowEditHandlers, ShowHandlers, PromoCodeHandlers, StatsHandlers,
           TransferHandlers
  <2>2. QED
    BY <2>1 DEF Handlers, HandlerGroups
<1>4. QED
  BY <1>1, <1>2, <1>3, EachIsRouted DEF Routed, AdminNames

\* The chains that ask for a token, and the positions of their middlewares.
Tokened == {Member, Buyer, Admin}
Chains == {Open, Public} \cup Tokened

LEMMA ChainShape ==
    ASSUME NEW c \in Chains
    PROVE  /\ Len(c) \in Nat /\ DOMAIN c = 1 .. Len(c)
           /\ \A i \in DOMAIN c :
                 /\ c[i] \in {"ip", "jwt", "user", "role"}
                 /\ c[i] = "ip" => i = 1 /\ c = Public
                 /\ c[i] = "jwt" => i = 1 /\ c \in Tokened
                 /\ c[i] = "user" => i = 2 /\ c = Buyer
                 /\ c[i] = "role" => i = 2 /\ c = Admin
           /\ c \in Tokened <=> \E i \in DOMAIN c : c[i] = "jwt"
           /\ c = Public => Len(c) = 1
           /\ c \in Tokened => Len(c) >= 1 /\ c[1] = "jwt"
           /\ c \in Tokened => c \notin {Open, Public}
           /\ c = Admin => Len(c) = 2 /\ c[2] = "role"
BY DEF Chains, Tokened, Open, Public, Member, Buyer, Admin

LEMMA RouteShape ==
    ASSUME NEW r \in Routes
    PROVE  /\ r.chain \in Chains
           /\ r.handler \in DOMAIN Handlers
           /\ r.chain \notin Tokened => r.handler \in OpenHandlers
           /\ "jwt" \in Judges(r) <=> r.chain \in Tokened
           /\ \A x \in FlawsFor(r) \ {"token", "revoked"} :
                 \E i \in DOMAIN Handlers[r.handler].tests :
                    Handlers[r.handler].tests[i] = x /\ x # "user"
           /\ r.chain \notin Tokened => FlawsFor(r) \cap {"token", "revoked"} = {}
<1>1. Routed(r) /\ r.handler \in DOMAIN Handlers
  BY EachIsRouted, EachIsHandled
<1>2. r.chain \in Chains /\ (r.chain \notin Tokened => r.handler \in OpenHandlers)
  BY <1>1 DEF Routed, Chains, Tokened
<1> DEFINE tests == Handlers[r.handler].tests
<1>3. \A i \in DOMAIN tests : tests[i] \in {"id", "body", "time", "user"}
  BY <1>1, HandlerIsRegular DEF Regular
<1>4. \A x : x \in Judges(r) <=> \/ \E i \in DOMAIN r.chain : r.chain[i] = x
                                 \/ \E i \in DOMAIN tests : tests[i] = x
  BY DEF Judges
<1> HIDE DEF tests
<1>5. "jwt" \in Judges(r) <=> r.chain \in Tokened
  BY <1>2, <1>3, <1>4, ChainShape
<1>6. ASSUME NEW x \in {"id", "body", "time"}, x \in Judges(r)
      PROVE  \E i \in DOMAIN tests : tests[i] = x /\ x # "user"
  BY <1>2, <1>4, <1>6, ChainShape
<1>7. \A x \in FlawsFor(r) \ {"token", "revoked"} : x \in {"id", "body", "time"} /\ x \in Judges(r)
  BY DEF FlawsFor
<1>8. \A x \in FlawsFor(r) \ {"token", "revoked"} :
         \E i \in DOMAIN tests : tests[i] = x /\ x # "user"
  BY <1>6, <1>7
<1>9. r.chain \notin Tokened => FlawsFor(r) \cap {"token", "revoked"} = {}
  BY <1>5 DEF FlawsFor
<1>10. QED
  BY <1>1, <1>2, <1>5, <1>8, <1>9 DEF tests

NoTokenFlaw(r) == r.flaws \cap {"token", "revoked"} = {}
IsAdmin(r) == r.route.chain = Admin => r.seen.role = "admin"

\* What a request r that met no failure has been found to be, at each step.
Passed(r) ==
    /\ r.step = "chain" /\ r.at >= 2 => NoTokenFlaw(r)
    /\ r.step \in {"cache", "load", "fill"} => NoTokenFlaw(r)
    /\ r.step = "chain" /\ r.at >= 3 => IsAdmin(r)
    /\ r.step \in {"write", "clear"} => r.served /\ r.flaws = {} /\ IsAdmin(r)
    /\ r.step = "answered" =>
          (r.served <=> r.flaws = {} /\ r.status # 429 /\ IsAdmin(r))

Judged(r) ==
    /\ r.route \in Routes
    /\ r.flaws \subseteq FlawsFor(r.route)
    /\ r.at \in Nat \ {0}
    /\ r.step \in {"idle", "chain", "cache", "load", "fill", "write", "clear", "answered"}
    /\ r.step \in {"cache", "load", "fill"} => r.at = 1 /\ r.route.chain \in Tokened
    /\ r.step \in {"idle", "chain", "cache", "load", "fill"} => ~ r.served
    /\ ~ r.lucky => Passed(r)

\* Every request is judged, and the routes of the sessions are routes.
JudgedInv ==
    /\ routesOf \in [Sessions -> SUBSET Routes]
    /\ \A s \in Sessions : Judged(req[s])

LEMMA HealthIsRouted == [chain |-> << >>, handler |-> "HealthCheck"] \in Routes
BY DEF Routes, ApiRoutes, Behind, Open

LEMMA NoRequestIsJudged == Judged(NoRequest)
BY HealthIsRouted DEF Judged, Passed, NoRequest

\* Where the chain of a request stands.
LEMMA UpcomingAt ==
    ASSUME NEW s \in Sessions, Judged(req[s])
    PROVE  /\ Upcoming(s) = "ip" => req[s].at = 1 /\ req[s].route.chain = Public
           /\ Upcoming(s) = "jwt" => req[s].at = 1 /\ req[s].route.chain \in Tokened
           /\ Upcoming(s) = "user" => req[s].at = 2 /\ req[s].route.chain = Buyer
           /\ Upcoming(s) = "role" => req[s].at = 2 /\ req[s].route.chain = Admin
           /\ Upcoming(s) = "handler" =>
                 /\ req[s].route.chain = Public => req[s].at >= 2
                 /\ req[s].route.chain \in Tokened => req[s].at >= 2
                 /\ req[s].route.chain = Admin => req[s].at >= 3
<1> DEFINE c == req[s].route.chain
           n == req[s].at
<1>1. c \in Chains /\ n \in Nat \ {0}
  BY RouteShape DEF Judged
<1>2. Upcoming(s) = IF n > Len(c) THEN "handler" ELSE c[n]
  BY DEF Upcoming
<1> HIDE DEF c, n
<1>3. CASE n > Len(c)
  <2>1. /\ c = Public => Len(c) = 1
        /\ c \in Tokened => Len(c) >= 1
        /\ c = Admin => Len(c) = 2
        /\ Len(c) \in Nat
    BY <1>1, ChainShape
  <2>2. Upcoming(s) = "handler"
    BY <1>2, <1>3
  <2>3. /\ c = Public => n >= 2
        /\ c \in Tokened => n >= 2
        /\ c = Admin => n >= 3
    BY <1>1, <1>3, <2>1
  <2>4. QED
    BY <2>2, <2>3 DEF c, n
<1>4. CASE ~ (n > Len(c))
  <2>1. n \in DOMAIN c
    BY <1>1, <1>4, ChainShape
  <2>2. Upcoming(s) = c[n]
    BY <1>2, <1>4
  <2>3. c[n] \in {"ip", "jwt", "user", "role"}
        /\ (c[n] = "ip" => n = 1 /\ c = Public)
        /\ (c[n] = "jwt" => n = 1 /\ c \in Tokened)
        /\ (c[n] = "user" => n = 2 /\ c = Buyer)
        /\ (c[n] = "role" => n = 2 /\ c = Admin)
    BY <1>1, <2>1, ChainShape
  <2>4. QED
    BY <2>2, <2>3 DEF c, n
<1>5. QED
  BY <1>3, <1>4 DEF c, n

\* A step of one session judges the request of that session.
LEMMA OneIsJudged ==
    ASSUME JudgedInv, UNCHANGED routesOf, NEW s \in Sessions, Judged(req'[s]),
           \A t \in Sessions : t # s => req'[t] = req[t]
    PROVE  JudgedInv'
BY DEF JudgedInv

LEMMA PassedOn ==
    ASSUME AccessShape, NEW s \in Sessions, Judged(req[s]), NEW c,
           req[s].step \in {"chain", "cache", "fill"},
           \/ Pass(s) /\ c = req[s].seen
           \/ PassWith(s, c),
           ~ req[s].lucky => NoTokenFlaw(req[s]) \/ req[s].route.chain = Public,
           ~ req[s].lucky /\ req[s].at >= 2 /\ req[s].route.chain = Admin => c.role = "admin"
    PROVE  Judged(req'[s]) /\ \A t \in Sessions : t # s => req'[t] = req[t]
<1> DEFINE r == req[s]
           q == req'[s]
<1>1. DOMAIN req = Sessions /\ DOMAIN r = Fields
  BY DEF AccessShape
<1>2. \/ q = [r EXCEPT !.step = "chain", !.at = @ + 1] /\ c = r.seen
      \/ q = [r EXCEPT !.step = "chain", !.at = @ + 1, !.seen = c]
  BY <1>1 DEF Pass, PassWith
<1>3. /\ q.step = "chain" /\ q.at = r.at + 1 /\ q.seen = c
      /\ q.route = r.route /\ q.flaws = r.flaws /\ q.served = r.served
      /\ q.lucky = r.lucky
  BY <1>1, <1>2 DEF Fields
<1>4. \A t \in Sessions : t # s => req'[t] = req[t]
  BY <1>1 DEF Pass, PassWith
<1>5. ~ r.lucky => NoTokenFlaw(r)
  <2>1. CASE r.route.chain = Public
    BY <2>1, RouteShape, ChainShape DEF Judged, NoTokenFlaw, Chains
  <2>2. QED
    BY <2>1
<1>6. r.at \in Nat \ {0}
  BY DEF Judged
<1> HIDE DEF q
<1>7. ~ q.lucky => Passed(q)
  BY <1>3, <1>5, <1>6 DEF Passed, NoTokenFlaw, IsAdmin
<1>8. Judged(q)
  BY <1>3, <1>6, <1>7 DEF Judged
<1>9. QED
  BY <1>4, <1>8 DEF q

LEMMA AbortedIsJudged ==
    ASSUME AccessShape, NEW s \in Sessions, Judged(req[s]), NEW code, AbortWith(s, code),
           ~ req[s].lucky =>
              (req[s].served <=> req[s].flaws = {} /\ code # 429 /\ IsAdmin(req[s]))
    PROVE  Judged(req'[s]) /\ \A t \in Sessions : t # s => req'[t] = req[t]
<1> DEFINE r == req[s]
           q == req'[s]
<1>1. DOMAIN req = Sessions /\ DOMAIN r = Fields
  BY DEF AccessShape
<1>2. /\ q = [r EXCEPT !.step = "answered", !.status = code]
      /\ \A t \in Sessions : t # s => req'[t] = req[t]
  BY <1>1 DEF AbortWith
<1>3. /\ q.step = "answered" /\ q.status = code
      /\ q.at = r.at /\ q.seen = r.seen /\ q.route = r.route /\ q.flaws = r.flaws
      /\ q.served = r.served /\ q.lucky = r.lucky
  BY <1>1, <1>2 DEF Fields
<1> HIDE DEF q
<1>4. ~ q.lucky => Passed(q)
  BY <1>3 DEF Passed, IsAdmin
<1>5. Judged(q)
  BY <1>3, <1>4 DEF Judged
<1>6. QED
  BY <1>2, <1>5 DEF q

LEMMA GoneIsJudged ==
    ASSUME AccessShape, NEW s \in Sessions, Judged(req[s]), NEW next, GoTo(s, next),
           \/ /\ next \in {"cache", "load"}
              /\ req[s].step \in {"chain", "cache"} /\ req[s].at = 1
              /\ req[s].route.chain \in Tokened
              /\ ~ req[s].lucky => NoTokenFlaw(req[s])
           \/ next = "clear" /\ req[s].step = "write"
    PROVE  Judged(req'[s]) /\ \A t \in Sessions : t # s => req'[t] = req[t]
<1> DEFINE r == req[s]
           q == req'[s]
<1>1. DOMAIN req = Sessions /\ DOMAIN r = Fields
  BY DEF AccessShape
<1>2. /\ q = [r EXCEPT !.step = next]
      /\ \A t \in Sessions : t # s => req'[t] = req[t]
  BY <1>1 DEF GoTo
<1>3. /\ q.step = next
      /\ q.at = r.at /\ q.seen = r.seen /\ q.route = r.route /\ q.flaws = r.flaws
      /\ q.served = r.served /\ q.lucky = r.lucky
  BY <1>1, <1>2 DEF Fields
<1> HIDE DEF q
<1>4. ~ q.lucky => Passed(q)
  BY <1>3 DEF Passed, IsAdmin, NoTokenFlaw, Judged
<1>5. Judged(q)
  BY <1>3, <1>4 DEF Judged
<1>6. QED
  BY <1>2, <1>5 DEF q

\* A request that a failure let pass, or ended, is excepted.
LEMMA LuckyIsJudged ==
    ASSUME AccessShape, NEW s \in Sessions, Judged(req[s]),
           \/ PassByLuck(s) /\ req[s].step = "chain"
           \/ /\ req' = [req EXCEPT ![s].step = "cache", ![s].lucky = TRUE]
              /\ req[s].step = "chain" /\ req[s].at = 1 /\ req[s].route.chain \in Tokened
           \/ req' = [req EXCEPT ![s].step = "answered", ![s].status = 401, ![s].lucky = TRUE]
    PROVE  Judged(req'[s]) /\ \A t \in Sessions : t # s => req'[t] = req[t]
<1> DEFINE r == req[s]
<1>1. DOMAIN req = Sessions /\ DOMAIN r = Fields
  BY DEF AccessShape
<1>2. CASE PassByLuck(s) /\ r.step = "chain"
  <2>1. /\ req'[s].lucky = TRUE /\ req'[s].step = "chain" /\ req'[s].at = r.at + 1
        /\ req'[s].route = r.route /\ req'[s].flaws = r.flaws /\ req'[s].served = r.served
        /\ \A t \in Sessions : t # s => req'[t] = req[t]
    BY <1>1, <1>2 DEF PassByLuck, Fields
  <2>2. QED
    BY <1>2, <2>1 DEF Judged
<1>3. CASE /\ req' = [req EXCEPT ![s].step = "cache", ![s].lucky = TRUE]
           /\ r.step = "chain" /\ r.at = 1 /\ r.route.chain \in Tokened
  <2>1. /\ req'[s].lucky = TRUE /\ req'[s].step = "cache" /\ req'[s].at = 1
        /\ req'[s].route = r.route /\ req'[s].flaws = r.flaws /\ req'[s].served = r.served
        /\ \A t \in Sessions : t # s => req'[t] = req[t]
    BY <1>1, <1>3 DEF Fields
  <2>2. QED
    BY <1>3, <2>1 DEF Judged
<1>4. CASE req' = [req EXCEPT ![s].step = "answered", ![s].status = 401, ![s].lucky = TRUE]
  <2>1. /\ req'[s].lucky = TRUE /\ req'[s].step = "answered" /\ req'[s].at = r.at
        /\ req'[s].route = r.route /\ req'[s].flaws = r.flaws /\ req'[s].served = r.served
        /\ \A t \in Sessions : t # s => req'[t] = req[t]
    BY <1>1, <1>4 DEF Fields
  <2>2. QED
    BY <1>4, <2>1 DEF Judged
<1>5. QED
  BY <1>2, <1>3, <1>4

LEMMA ArrivalIsJudged ==
    ASSUME AccessShape, JudgedInv, NEW s \in Sessions, Arrive(s)
    PROVE  Judged(req'[s]) /\ \A t \in Sessions : t # s => req'[t] = req[t]
<1>1. DOMAIN req = Sessions
  BY DEF AccessShape
<1>2. PICK u \in Accounts, route \in routesOf[s], target \in Accounts \ {Root} :
         \E f \in {{}} \cup {{x} : x \in FlawsFor(route)} :
            req' = [req EXCEPT ![s] =
               [NoRequest EXCEPT !.by = u, !.route = route, !.flaws = f, !.target = target,
                                 !.step = "chain"]]
  BY DEF Arrive
<1>3. PICK f \in {{}} \cup {{x} : x \in FlawsFor(route)} :
            req' = [req EXCEPT ![s] =
               [NoRequest EXCEPT !.by = u, !.route = route, !.flaws = f, !.target = target,
                                 !.step = "chain"]]
  BY <1>2
<1>4. route \in Routes /\ f \subseteq FlawsFor(route)
  BY DEF JudgedInv
<1>5. /\ req'[s].route = route /\ req'[s].flaws = f /\ req'[s].step = "chain"
      /\ req'[s].at = 1 /\ req'[s].served = FALSE
      /\ \A t \in Sessions : t # s => req'[t] = req[t]
  BY <1>1, <1>3 DEF NoRequest
<1>6. QED
  BY <1>4, <1>5 DEF Judged, Passed

\* A handler calls its service exactly for the requests without a flaw.
LEMMA HandledIsJudged ==
    ASSUME AccessShape, NEW s \in Sessions, Judged(req[s]), Handle(s)
    PROVE  Judged(req'[s]) /\ \A t \in Sessions : t # s => req'[t] = req[t]
<1> DEFINE r == req[s]
           q == req'[s]
           h == Handlers[r.route.handler]
           failed == {i \in DOMAIN h.tests : Fails(s, h.tests[i])}
           first == CHOOSE i \in failed : \A j \in failed : i <= j
<1>1. DOMAIN req = Sessions /\ DOMAIN r = Fields
  BY DEF AccessShape
<1>2. r.step = "chain" /\ Upcoming(s) = "handler"
  BY DEF Handle
<1>3. r.route \in Routes /\ r.flaws \subseteq FlawsFor(r.route) /\ ~ r.served
  BY <1>2 DEF Judged
<1>4. Regular(r.route.handler, h)
  BY <1>3, RouteShape, HandlerIsRegular
<1>5. ~ r.lucky => NoTokenFlaw(r) /\ IsAdmin(r)
  <2>1. r.route.chain \notin Tokened => NoTokenFlaw(r)
    BY <1>3, RouteShape DEF NoTokenFlaw
  <2>2. ~ r.lucky /\ r.route.chain \in Tokened => NoTokenFlaw(r)
    BY <1>2, UpcomingAt DEF Judged, Passed
  <2>3. ~ r.lucky => IsAdmin(r)
    BY <1>2, UpcomingAt DEF Judged, Passed, IsAdmin
  <2>4. QED
    BY <2>1, <2>2, <2>3
<1>6. failed = {} /\ NoTokenFlaw(r) => r.flaws = {}
  <2> SUFFICES ASSUME failed = {}, NoTokenFlaw(r), NEW x \in r.flaws PROVE FALSE
    OBVIOUS
  <2>1. x \in FlawsFor(r.route) \ {"token", "revoked"}
    BY <1>3 DEF NoTokenFlaw
  <2>2. PICK i \in DOMAIN h.tests : h.tests[i] = x /\ x # "user"
    BY <1>3, <2>1, RouteShape
  <2>3. Fails(s, h.tests[i])
    BY <2>2 DEF Fails
  <2>4. QED
    BY <2>3
<1>7. failed # {} => r.flaws # {}
  <2> SUFFICES ASSUME NEW i \in failed PROVE r.flaws # {}
    OBVIOUS
  <2>1. i \in DOMAIN h.tests /\ Fails(s, h.tests[i])
    OBVIOUS
  <2>2. h.tests[i] # "user"
    BY <1>3, <1>4, <2>1, RouteShape DEF Fails, HasUser, Regular
  <2>3. QED
    BY <2>1, <2>2 DEF Fails
<1>8. CASE failed # {}
  <2>1. AbortWith(s, IF h.tests[first] = "user" THEN 401 ELSE 400)
    BY <1>8 DEF Handle
  <2>2. QED
    BY <1>3, <1>7, <1>8, <2>1, AbortedIsJudged
<1> HIDE DEF failed, first, q
<1>9. CASE failed = {} /\ r.route.handler = "UpdateUserRole"
  <2>1. req' = [req EXCEPT ![s].step = "write", ![s].served = TRUE]
    BY <1>9 DEF Handle, failed
  <2>2. /\ q.step = "write" /\ q.served = TRUE
        /\ q.at = r.at /\ q.seen = r.seen /\ q.route = r.route /\ q.flaws = r.flaws
        /\ q.lucky = r.lucky
        /\ \A t \in Sessions : t # s => req'[t] = req[t]
    BY <1>1, <2>1 DEF Fields, q
  <2>3. ~ q.lucky => Passed(q)
    BY <1>5, <1>6, <1>9, <2>2 DEF Passed, IsAdmin
  <2>4. QED
    BY <2>2, <2>3 DEF Judged, q
<1>10. CASE failed = {} /\ r.route.handler # "UpdateUserRole"
  <2>1. PICK status \in {h.ok} \cup h.errors :
                req' = [req EXCEPT ![s].step = "answered", ![s].served = TRUE,
                                   ![s].status = status]
    BY <1>10 DEF Handle, failed
  <2>2. /\ q.step = "answered" /\ q.served = TRUE /\ q.status = status
        /\ q.at = r.at /\ q.seen = r.seen /\ q.route = r.route /\ q.flaws = r.flaws
        /\ q.lucky = r.lucky
        /\ \A t \in Sessions : t # s => req'[t] = req[t]
    BY <1>1, <2>1 DEF Fields, q
  <2>3. status # 429
    BY <1>4 DEF Regular
  <2>4. ~ q.lucky => Passed(q)
    BY <1>5, <1>6, <1>10, <2>2, <2>3 DEF Passed, IsAdmin
  <2>5. QED
    BY <2>2, <2>4 DEF Judged, q
<1>11. QED
  BY <1>8, <1>9, <1>10

\* The user is loaded, or the database fails.
LEMMA LoadedIsJudged ==
    ASSUME AccessShape, NEW s \in Sessions, Judged(req[s]), LoadUser(s)
    PROVE  Judged(req'[s]) /\ \A t \in Sessions : t # s => req'[t] = req[t]
<1> DEFINE r == req[s]
<1>1. DOMAIN req = Sessions /\ DOMAIN r = Fields /\ r.step = "load"
  BY DEF AccessShape, LoadUser
<1>2. ASSUME NEW c, req' = [req EXCEPT ![s].step = "fill", ![s].seen = c]
      PROVE  Judged(req'[s]) /\ \A t \in Sessions : t # s => req'[t] = req[t]
  <2>1. /\ req'[s].lucky = r.lucky /\ req'[s].step = "fill" /\ req'[s].at = r.at
        /\ req'[s].route = r.route /\ req'[s].flaws = r.flaws /\ req'[s].served = r.served
        /\ \A t \in Sessions : t # s => req'[t] = req[t]
    BY <1>1, <1>2 DEF Fields
  <2>2. QED
    BY <1>1, <2>1 DEF Judged, Passed, NoTokenFlaw
<1>3. QED
  BY <1>2, LuckyIsJudged DEF LoadUser

LEMMA JudgedNext == AccessShape /\ JudgedInv /\ [AccessNext]_accessVars => JudgedInv'
<1> SUFFICES ASSUME AccessShape, JudgedInv, [AccessNext]_accessVars PROVE JudgedInv'
  OBVIOUS
<1>1. ASSUME NEW s \in Sessions, Arrive(s) \/ SessionStep(s) PROVE JudgedInv'
  <2> DEFINE Good == Judged(req'[s]) /\ \A t \in Sessions : t # s => req'[t] = req[t]
             r == req[s]
  <2>1. Judged(req[s])
    BY DEF JudgedInv
  <2>2. UNCHANGED routesOf
    BY <1>1 DEF SessionStep, Arrive, Depart, RateLimit, SeckillRateLimit, Limit, CheckToken,
                ReadCache, LoadUser, FillCache, CheckRole, Handle, WriteRole, ClearCache
  <2> SUFFICES Good
    BY <2>2, OneIsJudged
  <2>3. CASE Arrive(s)
    BY <2>3, ArrivalIsJudged
  <2>4. CASE Depart(s)
    BY <2>4, NoRequestIsJudged DEF Depart, AccessShape
  <2>5. CASE RateLimit(s)
    <3>1. r.step = "chain" /\ Upcoming(s) = "ip" /\ r.route.chain = Public
      BY <2>1, <2>5, UpcomingAt DEF RateLimit, Limit
    <3>2. Public # Admin
      BY ChainShape DEF Chains, Tokened
    <3>3. CASE Pass(s)
      BY <2>1, <3>1, <3>2, <3>3, PassedOn
    <3>4. CASE AbortWith(s, 429)
      BY <2>1, <3>1, <3>4, AbortedIsJudged DEF Judged
    <3>5. CASE PassByLuck(s)
      BY <2>1, <3>1, <3>5, LuckyIsJudged
    <3>6. QED
      BY <2>5, <3>3, <3>4, <3>5 DEF RateLimit, Limit
  <2>6. CASE SeckillRateLimit(s)
    <3>1. r.step = "chain" /\ Upcoming(s) = "user" /\ r.route.chain = Buyer /\ r.at = 2
      BY <2>1, <2>6, UpcomingAt DEF SeckillRateLimit, Limit
    <3>2. Buyer # Admin
      BY DEF Buyer, Admin
    <3>3. CASE Pass(s)
      BY <2>1, <3>1, <3>2, <3>3, PassedOn DEF Judged, Passed
    <3>4. CASE AbortWith(s, 429)
      BY <2>1, <3>1, <3>4, AbortedIsJudged DEF Judged
    <3>5. CASE PassByLuck(s)
      BY <2>1, <3>1, <3>5, LuckyIsJudged
    <3>6. QED
      BY <2>6, <3>3, <3>4, <3>5 DEF SeckillRateLimit, Limit
  <2>7. CASE CheckToken(s)
    <3>1. r.step = "chain" /\ r.at = 1 /\ r.route.chain \in Tokened /\ ~ r.served
      BY <2>1, <2>7, UpcomingAt DEF CheckToken, Judged
    <3>2. CASE ~ NoTokenFlaw(r) /\ AbortWith(s, 401)
      BY <2>1, <3>1, <3>2, AbortedIsJudged DEF NoTokenFlaw
    <3>3. CASE NoTokenFlaw(r) /\ GoTo(s, "cache")
      BY <2>1, <3>1, <3>3, GoneIsJudged
    <3>4. CASE req' = [req EXCEPT ![s].step = "cache", ![s].lucky = TRUE]
      BY <2>1, <3>1, <3>4, LuckyIsJudged
    <3>5. QED
      BY <2>7, <3>2, <3>3, <3>4 DEF CheckToken, NoTokenFlaw
  <2>8. CASE ReadCache(s)
    <3>1. /\ r.step = "cache" /\ r.at = 1 /\ r.route.chain \in Tokened
          /\ ~ r.lucky => NoTokenFlaw(r)
      BY <2>1, <2>8 DEF ReadCache, Judged, Passed
    <3>2. ASSUME NEW c, PassWith(s, c) PROVE Good
      BY <2>1, <3>1, <3>2, PassedOn
    <3>3. CASE GoTo(s, "load")
      BY <2>1, <3>1, <3>3, GoneIsJudged
    <3>4. QED
      BY <2>8, <3>2, <3>3 DEF ReadCache
  <2>9. CASE LoadUser(s)
    BY <2>1, <2>9, LoadedIsJudged
  <2>10. CASE FillCache(s)
    <3>1. /\ r.step = "fill" /\ r.at = 1
          /\ ~ r.lucky => NoTokenFlaw(r)
      BY <2>1, <2>10 DEF FillCache, Judged, Passed
    <3>2. Pass(s)
      BY <2>10 DEF FillCache
    <3>3. QED
      BY <2>1, <3>1, <3>2, PassedOn
  <2>11. CASE CheckRole(s)
    <3>1. /\ r.step = "chain" /\ r.route.chain = Admin /\ r.at = 2 /\ ~ r.served
          /\ ~ r.lucky => NoTokenFlaw(r)
      BY <2>1, <2>11, UpcomingAt DEF CheckRole, Judged, Passed
    <3>2. CASE r.seen.role = "admin" /\ Pass(s)
      BY <2>1, <3>1, <3>2, PassedOn
    <3>3. CASE r.seen.role # "admin" /\ AbortWith(s, 403)
      BY <2>1, <3>1, <3>3, AbortedIsJudged DEF IsAdmin
    <3>4. QED
      BY <2>11, <3>2, <3>3 DEF CheckRole
  <2>12. CASE Handle(s)
    BY <2>1, <2>12, HandledIsJudged
  <2>13. CASE WriteRole(s)
    <3>1. r.step = "write" /\ (~ r.lucky => r.served /\ r.flaws = {} /\ IsAdmin(r))
      BY <2>1, <2>13 DEF WriteRole, Judged, Passed
    <3>2. CASE AbortWith(s, 400)
      BY <2>1, <3>1, <3>2, AbortedIsJudged
    <3>3. CASE GoTo(s, "clear")
      BY <2>1, <3>1, <3>3, GoneIsJudged
    <3>4. QED
      BY <2>13, <3>2, <3>3 DEF WriteRole
  <2>14. CASE ClearCache(s)
    <3>1. r.step = "clear" /\ (~ r.lucky => r.served /\ r.flaws = {} /\ IsAdmin(r))
      BY <2>1, <2>14 DEF ClearCache, Judged, Passed
    <3>2. AbortWith(s, 200)
      BY <2>14 DEF ClearCache
    <3>3. QED
      BY <2>1, <3>1, <3>2, AbortedIsJudged
  <2>15. QED
    BY <1>1, <2>3, <2>4, <2>5, <2>6, <2>7, <2>8, <2>9, <2>10, <2>11, <2>12, <2>13, <2>14
       DEF SessionStep
<1>2. CASE \E k \in Limited : WindowEnds(k)
  BY <1>2 DEF WindowEnds, JudgedInv
<1>3. CASE \E u \in Accounts : CacheExpires(u)
  BY <1>3 DEF CacheExpires, JudgedInv
<1>4. CASE UNCHANGED accessVars
  BY <1>4 DEF accessVars, JudgedInv
<1>5. QED
  BY <1>1, <1>2, <1>3, <1>4 DEF AccessNext

\* Whatever the handlers test, for any number of sessions, users and failures:
\* of the requests that met no failure, exactly those without a flaw, within
\* the limits and, where the route asks for it, of an administrator reach
\* their service; and no process routes a handler with less protection.
THEOREM JudgedRequests == AccessSpec => []RequestsAreJudged
<1>1. AccessInit => JudgedInv
  BY AccessAssumption, NoRequestIsJudged DEF AccessInit, JudgedInv
<1>2. JudgedInv => RequestsAreJudged
  BY TheRoutesAgree DEF JudgedInv, Judged, Passed, IsAdmin, RequestsAreJudged
<1>3. QED
  BY <1>1, <1>2, ShapeInit, ShapeNext, JudgedNext, PTL DEF AccessSpec

-----------------------------------------------------------------------------
(* The waiting room.                                                       *)

Absent(u) == \A i \in DOMAIN list : list[i] # u
Once(u) ==
    \E i \in DOMAIN list : list[i] = u /\ \A j \in DOMAIN list : list[j] = u => j = i

\* Where the list and the key of u stand between the two steps of a call of s.
Halfway(u, s) ==
    /\ callStep[s] = "push" => Absent(u) /\ mark[u] = "none"
    /\ callStep[s] = "remember" => Once(u) /\ mark[u] = "none"
    /\ callStep[s] \in {"taken", "forget"} => Absent(u)

\* The queue of a user that nothing disturbed: a join is the only call about it,
\* takes and leaves find it off the list, and between calls the list and the key
\* agree.
InStep(u) ==
    /\ Joining(u) => \A s, t \in RoomCalls : whom[s] = u /\ whom[t] = u => s = t
    /\ \A s \in RoomCalls : whom[s] = u => Halfway(u, s)
    /\ ~ Busy(u) =>
          \/ Absent(u) /\ mark[u] = "none"
          \/ Once(u) /\ mark[u] = "waiting"

\* A session is about a user exactly while a call is under way.
CallsInv == \A s \in RoomCalls : whom[s] = Nobody <=> callStep[s] = "idle"

RoomInv == room = "queue" => \A u \in RoomUsers \ disturbed : InStep(u)

\* What the operations on the list do to the places of a user.
LEMMA PushKeeps ==
    ASSUME NEW l \in Seq(RoomUsers), NEW u \in RoomUsers
    PROVE  /\ Append(l, u) \in Seq(RoomUsers)
           /\ DOMAIN Append(l, u) = 1 .. Len(l) + 1 /\ DOMAIN l = 1 .. Len(l)
           /\ Len(l) \in Nat
           /\ \A i \in DOMAIN l : Append(l, u)[i] = l[i]
           /\ Append(l, u)[Len(l) + 1] = u
BY AppendProperties

\* A push for u puts her at the end of the list and moves nobody.
LEMMA PushPlaces ==
    ASSUME list \in Seq(RoomUsers), NEW u \in RoomUsers, list' = Append(list, u)
    PROVE  /\ Absent(u) => Once(u)'
           /\ \A v : v # u => (Absent(v) => Absent(v)') /\ (Once(v) => Once(v)')
<1>1. PICK n \in Nat : /\ DOMAIN list = 1 .. n /\ DOMAIN list' = 1 .. n + 1
                       /\ \A i \in 1 .. n : list'[i] = list[i]
                       /\ list'[n + 1] = u
  BY PushKeeps
<1>2. \A i \in 1 .. n + 1 : i \in 1 .. n \/ i = n + 1
  OBVIOUS
<1>3. 1 .. n \subseteq 1 .. n + 1 /\ n + 1 \in 1 .. n + 1
  OBVIOUS
<1>4. ASSUME Absent(u) PROVE Once(u)'
  BY <1>1, <1>2, <1>3, <1>4 DEF Absent, Once
<1>5. ASSUME NEW v, v # u, Absent(v) PROVE Absent(v)'
  BY <1>1, <1>2, <1>5 DEF Absent
<1>6. ASSUME NEW v, v # u, Once(v) PROVE Once(v)'
  <2>1. PICK i \in 1 .. n : list[i] = v /\ \A j \in 1 .. n : list[j] = v => j = i
    BY <1>1, <1>6 DEF Once
  <2>2. i \in DOMAIN list' /\ list'[i] = v /\ \A j \in DOMAIN list' : list'[j] = v => j = i
    BY <1>1, <1>2, <1>3, <1>6, <2>1
  <2>3. QED
    BY <2>2 DEF Once
<1>7. QED
  BY <1>4, <1>5, <1>6

LEMMA TakeKeeps ==
    ASSUME NEW l \in Seq(RoomUsers), l # << >>
    PROVE  /\ Tail(l) \in Seq(RoomUsers) /\ Head(l) \in RoomUsers
           /\ DOMAIN Tail(l) = 1 .. Len(l) - 1 /\ DOMAIN l = 1 .. Len(l)
           /\ Len(l) \in Nat \ {0} /\ Head(l) = l[1]
           /\ \A i \in DOMAIN Tail(l) : Tail(l)[i] = l[i + 1]
BY HeadTailProperties

\* The places that an LREM leaves.
LEMMA LRemPlaces ==
    ASSUME list \in Seq(RoomUsers), NEW u \in RoomUsers, LRem(u)
    PROVE  /\ list' \in Seq(RoomUsers)
           /\ Absent(u)'
           /\ \A v \in RoomUsers \ {u} :
                 /\ Absent(v) => Absent(v)'
                 /\ Once(v) => Once(v)'
<1>a. PICK n \in 0 .. Len(list) : \E place \in [1 .. n -> DOMAIN list] :
         /\ \A i, j \in 1 .. n : i < j => place[i] < place[j]
         /\ ToSet(place) = {i \in DOMAIN list : list[i] # u}
         /\ list' = [i \in 1 .. n |-> list[place[i]]]
  BY DEF LRem
<1>1. PICK place \in [1 .. n -> DOMAIN list] :
         /\ \A i, j \in 1 .. n : i < j => place[i] < place[j]
         /\ ToSet(place) = {i \in DOMAIN list : list[i] # u}
         /\ list' = [i \in 1 .. n |-> list[place[i]]]
  BY <1>a
<1>2. n \in Nat /\ DOMAIN place = 1 .. n /\ DOMAIN list \subseteq Int
  OBVIOUS
<1>3. \A i \in 1 .. n : place[i] \in DOMAIN list /\ list[place[i]] # u
  BY <1>1, <1>2 DEF ToSet
<1>4. \A i \in 1 .. n : list[place[i]] \in RoomUsers
  BY <1>3
<1>5. list' \in Seq(RoomUsers) /\ DOMAIN list' = 1 .. n
  BY <1>1, <1>2, <1>4
<1>6. \A i \in 1 .. n : list'[i] = list[place[i]]
  BY <1>1
<1>7. Absent(u)'
  BY <1>3, <1>5, <1>6 DEF Absent
<1>8. ASSUME NEW v \in RoomUsers \ {u}, Absent(v) PROVE Absent(v)'
  BY <1>3, <1>5, <1>6, <1>8 DEF Absent
<1>9. ASSUME NEW v \in RoomUsers \ {u}, Once(v) PROVE Once(v)'
  <2>1. PICK i \in DOMAIN list : list[i] = v /\ \A j \in DOMAIN list : list[j] = v => j = i
    BY <1>9 DEF Once
  <2>2. PICK k \in 1 .. n : place[k] = i
    BY <1>1, <1>2, <2>1 DEF ToSet
  <2>3. list'[k] = v
    BY <1>6, <2>1, <2>2
  <2>4. ASSUME NEW j \in 1 .. n, list'[j] = v PROVE j = k
    <3>1. place[j] = place[k]
      BY <1>3, <1>6, <2>1, <2>2, <2>4
    <3>2. place[j] \in Int /\ place[k] \in Int /\ j \in Int /\ k \in Int
      BY <1>2, <1>3
    <3>3. QED
      BY <1>1, <3>1, <3>2
  <2>5. QED
    BY <1>5, <2>3, <2>4 DEF Once
<1>10. QED
  BY <1>5, <1>7, <1>8, <1>9

LEMMA RoomTyping == RoomTypeOK /\ CallsInv /\ [RoomNext]_roomVars => RoomTypeOK' /\ CallsInv'
<1> SUFFICES ASSUME RoomTypeOK, CallsInv, [RoomNext]_roomVars
             PROVE  RoomTypeOK' /\ CallsInv'
  OBVIOUS
<1> USE DEF RoomTypeOK, CallsInv, TurnTo, EndCall, Disturb, Calm
<1>1. \A s \in RoomCalls : callStep[s] # "idle" => whom[s] \in RoomUsers
  OBVIOUS
<1>2. ASSUME NEW s \in RoomCalls, NEW u \in RoomUsers, JoinTest(s, u) \/ JoinTestFails(s, u)
      PROVE  RoomTypeOK' /\ CallsInv'
  BY <1>2, RoomAssumption DEF JoinTest, JoinTestFails
<1>3. ASSUME NEW s \in RoomCalls, NEW u \in RoomUsers, LeaveList(s, u)
      PROVE  RoomTypeOK' /\ CallsInv'
  <2>1. list' \in Seq(RoomUsers)
    BY <1>3, LRemPlaces DEF LeaveList
  <2>2. CASE TurnTo(s, u, "forget")
    BY <1>3, <2>1, <2>2, RoomAssumption DEF LeaveList
  <2>3. CASE /\ whom' = [whom EXCEPT ![s] = u]
             /\ callStep' = [callStep EXCEPT ![s] = "forget"]
             /\ Disturb({u}) /\ UNCHANGED room
    BY <1>3, <2>1, <2>3, RoomAssumption DEF LeaveList
  <2>4. QED
    BY <1>3, <2>2, <2>3 DEF LeaveList
<1>4. ASSUME NEW s \in RoomCalls, JoinPush(s) PROVE RoomTypeOK' /\ CallsInv'
  <2>1. whom[s] \in RoomUsers
    BY <1>1, <1>4 DEF JoinPush
  <2>2. list' \in Seq(RoomUsers)
    <3>1. Append(list, whom[s]) \in Seq(RoomUsers)
      BY <2>1, PushKeeps
    <3>2. QED
      BY <1>4, <3>1 DEF JoinPush
  <2>3. QED
    BY <1>4, <2>1, <2>2, RoomAssumption DEF JoinPush
<1>5. ASSUME NEW s \in RoomCalls, JoinRemember(s) \/ SettleNext(s) \/ LeaveForget(s)
      PROVE  RoomTypeOK' /\ CallsInv'
  <2>1. whom[s] \in RoomUsers
    BY <1>1, <1>5 DEF JoinRemember, SettleNext, LeaveForget
  <2>2. UNCHANGED list /\ mark' \in [RoomUsers -> {"none", "waiting", "notified"}]
    BY <1>5, <2>1 DEF JoinRemember, SettleNext, LeaveForget
  <2>3. disturbed' \subseteq RoomUsers /\ roomFaults' \in Nat
    BY <1>5, <2>1 DEF JoinRemember, SettleNext, LeaveForget
  <2>4. QED
    BY <1>5, <2>2, <2>3 DEF JoinRemember, SettleNext, LeaveForget
<1>6. ASSUME NEW s \in RoomCalls, TakeNext(s) PROVE RoomTypeOK' /\ CallsInv'
  <2>1. Head(list) \in RoomUsers /\ list' \in Seq(RoomUsers)
    BY <1>6, TakeKeeps DEF TakeNext
  <2>2. QED
    BY <1>6, <2>1, RoomAssumption DEF TakeNext
<1>7. ASSUME NEW u \in RoomUsers, KeyExpires(u) PROVE RoomTypeOK' /\ CallsInv'
  BY <1>7 DEF KeyExpires
<1>8. CASE ClearQueue
  BY <1>8 DEF ClearQueue, ToSet
<1>9. CASE UNCHANGED roomVars
  BY <1>9 DEF roomVars
<1>10. QED
  BY <1>2, <1>3, <1>4, <1>5, <1>6, <1>7, <1>8, <1>9 DEF RoomNext

\* A step that leaves the places, the key and the calls of v alone.
LEMMA OthersInStep ==
    ASSUME NEW v \in RoomUsers, InStep(v), mark'[v] = mark[v],
           Absent(v) => Absent(v)', Once(v) => Once(v)',
           \A t \in RoomCalls : whom'[t] = v <=> whom[t] = v,
           \A t \in RoomCalls : whom[t] = v => callStep'[t] = callStep[t]
    PROVE  InStep(v)'
BY DEF InStep, Halfway, Busy, Joining

\* While calls about a user are under way and no join is, the user is off the list.
LEMMA OffTheList ==
    ASSUME RoomTypeOK, CallsInv, NEW v \in RoomUsers, InStep(v), ~ Joining(v),
           NEW t \in RoomCalls, whom[t] = v
    PROVE  callStep[t] \in {"taken", "forget"} /\ Absent(v)
<1>1. callStep[t] \in {"taken", "forget"}
  BY RoomAssumption DEF RoomTypeOK, CallsInv, Joining
<1>2. QED
  BY <1>1 DEF InStep, Halfway

\* The room is one for all of a behaviour, and a disturbed user stays one.
LEMMA RoomStays ==
    ASSUME [RoomNext]_roomVars PROVE room' = room /\ disturbed \subseteq disturbed'
BY DEF RoomNext, roomVars, JoinTest, JoinTestFails, LeaveList, JoinPush, JoinRemember,
       TakeNext, SettleNext, LeaveForget, KeyExpires, ClearQueue, TurnTo, Disturb, Calm

\* Of the queue, a user on whom no call was disturbed stays in step.
LEMMA QueueStep ==
    ASSUME RoomTypeOK, CallsInv, room = "queue", [RoomNext]_roomVars,
           NEW v \in RoomUsers \ disturbed', InStep(v)
    PROVE  InStep(v)'
<1> USE DEF RoomTypeOK
<1>1. ASSUME NEW s \in RoomCalls, NEW u \in RoomUsers, JoinTest(s, u) PROVE InStep(v)'
  <2>1. /\ callStep[s] = "idle" /\ whom[s] = Nobody /\ mark[u] = "none"
        /\ whom' = [whom EXCEPT ![s] = u] /\ callStep' = [callStep EXCEPT ![s] = "push"]
        /\ UNCHANGED <<list, mark>>
    BY <1>1 DEF JoinTest, MayJoin, TurnTo, CallsInv
  <2>2. CASE u = v
    <3>1. ~ Busy(v)
      BY <1>1, <2>2 DEF JoinTest, TurnTo
    <3>2. Absent(v) /\ mark[v] = "none"
      BY <2>1, <2>2, <3>1 DEF InStep
    <3>3. \A t \in RoomCalls : whom'[t] = v <=> t = s
      BY <2>1, <2>2, <3>1 DEF Busy
    <3>4. QED
      BY <2>1, <2>2, <3>2, <3>3 DEF InStep, Halfway, Busy, Absent
  <2>3. CASE u # v
    BY <2>1, <2>3, RoomAssumption, OthersInStep DEF Absent, Once
  <2>4. QED
    BY <2>2, <2>3
<1>2. ASSUME NEW s \in RoomCalls, NEW u \in RoomUsers, JoinTestFails(s, u) PROVE InStep(v)'
  <2>1. /\ callStep[s] = "idle" /\ whom[s] = Nobody /\ u # v
        /\ whom' = [whom EXCEPT ![s] = u] /\ callStep' = [callStep EXCEPT ![s] = "push"]
        /\ UNCHANGED <<list, mark>>
    BY <1>2 DEF JoinTestFails, Disturb, CallsInv
  <2>2. QED
    BY <2>1, RoomAssumption, OthersInStep DEF Absent, Once
<1>3. ASSUME NEW s \in RoomCalls, NEW u \in RoomUsers, LeaveList(s, u) PROVE InStep(v)'
  <2>1. /\ callStep[s] = "idle" /\ whom[s] = Nobody
        /\ whom' = [whom EXCEPT ![s] = u] /\ callStep' = [callStep EXCEPT ![s] = "forget"]
        /\ mark' = mark
    BY <1>3 DEF LeaveList, TurnTo, CallsInv
  <2>2. CASE u = v
    <3>1. LRem(u) /\ ~ Joining(v)
      BY <1>3, <2>2 DEF LeaveList, TurnTo, Disturb
    <3>2. Absent(v)'
      BY <2>2, <3>1, LRemPlaces
    <3>3. whom'[s] = v /\ callStep'[s] = "forget"
      BY <2>1, <2>2
    <3>4. ASSUME NEW t \in RoomCalls, whom'[t] = v PROVE callStep'[t] \in {"taken", "forget"}
      BY <2>1, <3>1, <3>3, <3>4, OffTheList
    <3>5. QED
      BY <3>2, <3>3, <3>4 DEF InStep, Halfway, Busy, Joining
  <2>3. CASE u # v
    <3>1. list' = list \/ LRem(u)
      BY <1>3 DEF LeaveList
    <3>2. (Absent(v) => Absent(v)') /\ (Once(v) => Once(v)')
      <4>1. CASE list' = list
        BY <4>1 DEF Absent, Once
      <4>2. CASE LRem(u)
        BY <2>3, <4>2, LRemPlaces
      <4>3. QED
        BY <3>1, <4>1, <4>2
    <3>3. QED
      BY <2>1, <2>3, <3>2, RoomAssumption, OthersInStep
  <2>4. QED
    BY <2>2, <2>3
<1>4. ASSUME NEW s \in RoomCalls, JoinPush(s) PROVE InStep(v)'
  <2>1. whom[s] \in RoomUsers /\ callStep[s] = "push" /\ mark' = mark
    BY <1>4 DEF JoinPush, CallsInv
  <2>2. CASE whom[s] = v
    <3>1. list' = Append(list, v) /\ callStep' = [callStep EXCEPT ![s] = "remember"] /\ whom' = whom
      BY <1>4, <2>2 DEF JoinPush, Disturb
    <3>2. Absent(v) /\ mark[v] = "none" /\ \A t \in RoomCalls : whom[t] = v => t = s
      BY <2>1, <2>2 DEF InStep, Halfway, Joining
    <3>3. Once(v)'
      BY <3>1, <3>2, PushPlaces
    <3>4. QED
      BY <2>1, <2>2, <3>1, <3>2, <3>3 DEF InStep, Halfway, Busy
  <2>3. CASE whom[s] # v
    <3>1. \A t \in RoomCalls : (whom'[t] = v <=> whom[t] = v)
                                /\ (whom[t] = v => callStep'[t] = callStep[t])
      BY <1>4, <2>1, <2>3, RoomAssumption DEF JoinPush, EndCall
    <3>2. list' = list \/ list' = Append(list, whom[s])
      BY <1>4 DEF JoinPush
    <3>3. (Absent(v) => Absent(v)') /\ (Once(v) => Once(v)')
      <4>1. CASE list' = list
        BY <4>1 DEF Absent, Once
      <4>2. CASE list' = Append(list, whom[s])
        BY <2>1, <2>3, <4>2, PushPlaces
      <4>3. QED
        BY <3>2, <4>1, <4>2
    <3>4. QED
      BY <2>1, <3>1, <3>3, OthersInStep
  <2>4. QED
    BY <2>2, <2>3
<1>5. ASSUME NEW s \in RoomCalls, JoinRemember(s) \/ SettleNext(s) \/ LeaveForget(s)
      PROVE  InStep(v)'
  <2>1. /\ whom[s] \in RoomUsers /\ list' = list
        /\ whom' = [whom EXCEPT ![s] = Nobody] /\ callStep' = [callStep EXCEPT ![s] = "idle"]
    BY <1>5 DEF JoinRemember, SettleNext, LeaveForget, EndCall, CallsInv
  <2>2. CASE whom[s] = v
    <3>1. CASE JoinRemember(s)
      <4>1. callStep[s] = "remember" /\ mark'[v] = "waiting"
        BY <2>2, <3>1 DEF JoinRemember, Disturb
      <4>2. Once(v) /\ \A t \in RoomCalls : whom[t] = v => t = s
        BY <2>2, <4>1 DEF InStep, Halfway, Joining
      <4>3. ~ Busy(v)' /\ Once(v)'
        BY <2>1, <2>2, <4>2, RoomAssumption DEF Busy, Once
      <4>4. QED
        BY <4>1, <4>3 DEF InStep, Busy, Joining
    <3>2. CASE SettleNext(s) \/ LeaveForget(s)
      <4>1. callStep[s] \in {"taken", "forget"} /\ mark'[v] = "none"
        BY <2>2, <3>2 DEF SettleNext, LeaveForget, Disturb
      <4>2. Absent(v) /\ ~ Joining(v)
        BY <2>2, <4>1 DEF InStep, Halfway, Joining
      <4>3. Absent(v)'
        BY <2>1, <4>2 DEF Absent
      <4>4. ASSUME NEW t \in RoomCalls, whom'[t] = v PROVE callStep'[t] \in {"taken", "forget"}
        <5>1. t # s /\ whom[t] = v
          BY <2>1, <4>4, RoomAssumption
        <5>2. QED
          BY <2>1, <4>2, <5>1, OffTheList
      <4>5. QED
        BY <4>1, <4>3, <4>4 DEF InStep, Halfway, Busy, Joining
    <3>3. QED
      BY <1>5, <3>1, <3>2
  <2>3. CASE whom[s] # v
    <3>1. mark'[v] = mark[v]
      BY <1>5, <2>1, <2>3 DEF JoinRemember, SettleNext, LeaveForget
    <3>2. QED
      BY <2>1, <2>3, <3>1, RoomAssumption, OthersInStep DEF Absent, Once
  <2>4. QED
    BY <2>2, <2>3
<1>6. ASSUME NEW s \in RoomCalls, TakeNext(s) PROVE InStep(v)'
  <2> DEFINE u == Head(list)
  <2>1. /\ callStep[s] = "idle" /\ whom[s] = Nobody /\ list # << >> /\ list' = Tail(list)
        /\ whom' = [whom EXCEPT ![s] = u] /\ callStep' = [callStep EXCEPT ![s] = "taken"]
        /\ mark' = mark
    BY <1>6 DEF TakeNext, TurnTo, CallsInv
  <2>2. /\ DOMAIN list' = 1 .. Len(list) - 1 /\ DOMAIN list = 1 .. Len(list)
        /\ Len(list) \in Nat \ {0} /\ u = list[1]
        /\ \A i \in DOMAIN list' : list'[i] = list[i + 1]
    BY <2>1, TakeKeeps
  <2> HIDE DEF u
  <2>3. CASE u = v
    <3>1. ~ Joining(v)
      BY <1>6, <2>3 DEF TakeNext, TurnTo, u
    <3>2. 1 \in DOMAIN list /\ list[1] = v
      BY <2>2, <2>3
    <3>3. ~ Busy(v)
      BY <3>1, <3>2, OffTheList DEF Busy, Absent
    <3>4. Once(v) /\ mark[v] = "waiting"
      BY <3>2, <3>3 DEF InStep, Absent
    <3>5. \A i \in DOMAIN list' : i \in Nat \ {0} /\ i + 1 \in DOMAIN list /\ i + 1 # 1
      BY <2>2
    <3>6. Absent(v)'
      BY <2>2, <3>2, <3>4, <3>5 DEF Absent, Once
    <3>7. \A t \in RoomCalls : whom'[t] = v <=> t = s
      BY <2>1, <2>3, <3>3 DEF Busy
    <3>8. QED
      BY <2>1, <2>3, <3>6, <3>7 DEF InStep, Halfway, Busy
  <2>4. CASE u # v
    <3>1. Absent(v) => Absent(v)'
      BY <2>2 DEF Absent
    <3>2. Once(v) => Once(v)'
      <4> SUFFICES ASSUME NEW i \in DOMAIN list, list[i] = v,
                          \A j \in DOMAIN list : list[j] = v => j = i
                   PROVE  Once(v)'
        BY DEF Once
      <4>1. i \in Int /\ i # 1 /\ i - 1 \in DOMAIN list' /\ list'[i - 1] = v
        BY <2>2, <2>4
      <4>2. \A j \in DOMAIN list' : list'[j] = v => j = i - 1
        BY <2>2
      <4>3. QED
        BY <4>1, <4>2 DEF Once
    <3>3. QED
      BY <2>1, <2>4, <3>1, <3>2, RoomAssumption, OthersInStep
  <2>5. QED
    BY <2>3, <2>4
<1>7. ASSUME NEW u \in RoomUsers, KeyExpires(u) PROVE InStep(v)'
  <2>1. /\ u # v /\ mark' = [mark EXCEPT ![u] = "none"] /\ UNCHANGED <<list, callStep, whom>>
    BY <1>7 DEF KeyExpires, Disturb
  <2>2. QED
    BY <2>1, OthersInStep DEF Absent, Once
<1>8. CASE ClearQueue
  <2>1. /\ v \notin ToSet(list) /\ list' = << >> /\ UNCHANGED <<mark, callStep, whom>>
    BY <1>8 DEF ClearQueue, Disturb
  <2>2. Absent(v) /\ Absent(v)' /\ ~ Once(v)
    BY <2>1 DEF Absent, Once, ToSet
  <2>3. QED
    BY <2>1, <2>2, OthersInStep
<1>9. CASE UNCHANGED roomVars
  BY <1>9, OthersInStep DEF roomVars, Absent, Once
<1>10. QED
  BY <1>1, <1>2, <1>3, <1>4, <1>5, <1>6, <1>7, <1>8, <1>9 DEF RoomNext

LEMMA RoomStep ==
    RoomTypeOK /\ CallsInv /\ RoomInv /\ [RoomNext]_roomVars => RoomInv'
BY RoomStays, QueueStep DEF RoomInv

\* How often a user of the queue is listed, and what the user is told.
LEMMA PositionTold ==
    ASSUME RoomTypeOK, NEW u \in RoomUsers
    PROVE  /\ Absent(u) => Times(u) = 0 /\ GetPosition(u) = 0
           /\ Once(u) => Times(u) = 1
           /\ Once(u) /\ mark[u] # "none" => GetPosition(u) > 0
           /\ GetPosition(u) > 0 => mark[u] # "none"
<1>1. DOMAIN list = 1 .. Len(list) /\ Len(list) \in Nat
  BY DEF RoomTypeOK
<1>2. ASSUME Absent(u) PROVE Times(u) = 0 /\ GetPosition(u) = 0
  <2>1. {i \in DOMAIN list : list[i] = u} = {}
    BY <1>2 DEF Absent
  <2>2. ~ Contains(list, u)
    BY <1>1, <1>2 DEF Contains, Absent
  <2>3. QED
    BY <2>1, <2>2, FS_EmptySet DEF Times, GetPosition
<1>3. ASSUME Once(u)
      PROVE  Times(u) = 1 /\ (mark[u] # "none" => GetPosition(u) > 0)
  <2>1. PICK i \in DOMAIN list : list[i] = u /\ \A j \in DOMAIN list : list[j] = u => j = i
    BY <1>3 DEF Once
  <2>2. {k \in DOMAIN list : list[k] = u} = {i}
    BY <2>1
  <2>3. Times(u) = 1
    BY <2>2, FS_Singleton DEF Times
  <2>4. i \in DOMAIN list /\ list[i] = u /\ \A j \in 1 .. i - 1 : list[j] # u
    BY <1>1, <2>1
  <2>5. Contains(list, u)
    BY <1>1, <2>1 DEF Contains
  <2>6. ASSUME mark[u] # "none" PROVE GetPosition(u) > 0
    <3> DEFINE at == CHOOSE k \in DOMAIN list : list[k] = u /\ \A j \in 1 .. k - 1 : list[j] # u
    <3>1. at \in DOMAIN list
      BY <2>4
    <3>2. GetPosition(u) = at
      BY <2>5, <2>6 DEF GetPosition
    <3> HIDE DEF at
    <3>3. QED
      BY <1>1, <3>1, <3>2
  <2>7. QED
    BY <2>3, <2>6
<1>4. GetPosition(u) > 0 => mark[u] # "none"
  BY DEF GetPosition
<1>5. QED
  BY <1>2, <1>3, <1>4

\* For any number of users and of calls at the same time, and any number of
\* failures: a user of the queue whose joins overlapped nothing and on whom no
\* command failed is listed at most once, and between calls the key says whether.
THEOREM RoomAgrees == RoomSpec => []RoomInStep
<1>1. RoomInit => RoomTypeOK /\ CallsInv /\ RoomInv
  BY RoomAssumption DEF RoomInit, RoomTypeOK, CallsInv, RoomInv, InStep, Halfway, Busy, Joining,
     Absent
<1>2. RoomTypeOK /\ CallsInv /\ RoomInv => RoomInStep
  <2> SUFFICES ASSUME RoomTypeOK, CallsInv, RoomInv, room = "queue",
                      NEW u \in RoomUsers \ disturbed
               PROVE  /\ Times(u) <= 1
                      /\ ~ Busy(u) => /\ MayJoin(u) <=> Times(u) = 0
                                     /\ GetPosition(u) > 0 <=> Times(u) = 1
    BY DEF RoomInStep
  <2>1. InStep(u)
    BY DEF RoomInv
  <2>2. CASE Busy(u)
    <3>1. PICK s \in RoomCalls : whom[s] = u
      BY <2>2 DEF Busy
    <3>2. Absent(u) \/ Once(u)
      <4>1. callStep[s] \in {"push", "remember", "taken", "forget"}
        BY <3>1, RoomAssumption DEF CallsInv, RoomTypeOK
      <4>2. QED
        BY <2>1, <3>1, <4>1 DEF InStep, Halfway
    <3>3. QED
      BY <2>2, <3>2, PositionTold
  <2>3. CASE ~ Busy(u)
    <3>1. \/ Absent(u) /\ mark[u] = "none"
          \/ Once(u) /\ mark[u] = "waiting"
      BY <2>1, <2>3 DEF InStep
    <3>2. QED
      BY <2>3, <3>1, PositionTold DEF MayJoin
  <2>4. QED
    BY <2>2, <2>3
<1>3. QED
  BY <1>1, <1>2, RoomTyping, RoomStep, PTL DEF RoomSpec

-----------------------------------------------------------------------------
(* Order numbers: the time and the sequence of a generator only grow, and  *)
(* a process that restarted after its clock had passed what it issued      *)
(* starts above it.                                                        *)

USE ProcessAssumption

\* The parts of an order number.
Kind(x) == x.number[1]
Time(x) == x.number[2]
Place(x) == x.number[3]
Machine(x) == x.number[4]

Issue == [by : Processes, life : {0, 1},
          number : {"sonyflake", "fallback"} \X Nat \X (Nat \cup Randoms) \X Nat]

NumbersTypeOK ==
    /\ clock \in Nat \ {0}
    /\ elapsed \in [Processes -> Nat]
    /\ sequence \in [Processes -> 0 .. SequenceSize - 1]
    /\ life \in [Processes -> {0, 1}]
    /\ hasty \in [Processes -> BOOLEAN]
    /\ issued \in Seq(Issue)

\* What a number tells of its process: an earlier one of the same generator is
\* not above the generator; one of a former generator is below the clock and
\* the generator, unless the process restarted too early.
Known(x) ==
    /\ x.life <= life[x.by]
    /\ Kind(x) = "fallback" => ~ HasMachineId(x.by)
    /\ Kind(x) = "sonyflake" =>
          /\ HasMachineId(x.by)
          /\ Machine(x) = MachineId(x.by)
          /\ Place(x) \in Nat
          /\ x.life = life[x.by] =>
                \/ Time(x) < elapsed[x.by]
                \/ Time(x) = elapsed[x.by] /\ Place(x) <= sequence[x.by]
          /\ x.life # life[x.by] /\ ~ hasty[x.by] =>
                /\ Time(x) < clock
                /\ elapsed[x.by] > 0 => Time(x) < elapsed[x.by]

\* Equal numbers are of one machine identifier, of a hasty restart, or fallbacks.
DifferByMachine ==
    \A i, j \in DOMAIN issued :
        i < j /\ issued[i].number = issued[j].number =>
            LET x == issued[i]
                y == issued[j] IN
            \/ x.by # y.by /\ HasMachineId(x.by) /\ HasMachineId(y.by)
                 /\ MachineId(x.by) = MachineId(y.by)
            \/ x.by = y.by /\ x.life # y.life /\ hasty[x.by]
            \/ ~ HasMachineId(x.by) /\ ~ HasMachineId(y.by)

\* The numbers issued so far.
Given == {issued[i] : i \in DOMAIN issued}

NumbersInv ==
    /\ \A p \in Processes : elapsed[p] > 0 => HasMachineId(p)
    /\ \A x \in Given : Known(x)
    /\ DifferByMachine

LEMMA NumbersStart == NumbersInit => NumbersTypeOK /\ NumbersInv
<1> SUFFICES ASSUME NumbersInit PROVE NumbersTypeOK /\ NumbersInv
  OBVIOUS
<1>1. issued = << >> /\ DOMAIN issued = {}
  BY DEF NumbersInit
<1>2. issued \in Seq(Issue)
  BY <1>1
<1>3. NumbersTypeOK
  BY <1>2 DEF NumbersInit, NumbersTypeOK
<1>4. NumbersInv
  BY <1>1 DEF NumbersInit, NumbersInv, DifferByMachine, Given
<1>5. QED
  BY <1>3, <1>4

\* The machine identifier of a process that has one.
LEMMA MachineIdType ==
    ASSUME NEW p \in Processes, HasMachineId(p) PROVE MachineId(p) \in Nat
<1>1. \A n \in Nat : n % 65536 \in Nat
  OBVIOUS
<1>2. CASE MachineIdEnv[p] # Unset
  BY <1>2 DEF MachineId
<1>3. CASE MachineIdEnv[p] = Unset /\ PodOrdinal[p] # Unset
  BY <1>1, <1>3 DEF MachineId
<1>4. CASE MachineIdEnv[p] = Unset /\ PodOrdinal[p] = Unset
  <2>1. IpBytes[p] \in [1 .. 2 -> 0 .. 255]
    BY <1>4 DEF HasMachineId
  <2>2. IpBytes[p][1] \in Nat /\ IpBytes[p][2] \in Nat
    BY <2>1
  <2>3. QED
    BY <1>4, <2>2 DEF MachineId
<1>5. QED
  BY <1>2, <1>3, <1>4

\* A new identifier is above the last one of its generator, and the first one
\* has the time of the clock.
LEMMA NextIsAbove ==
    ASSUME NumbersTypeOK, NEW p \in Processes
    PROVE  /\ NextElapsed(p) \in Nat \ {0} /\ NextSequence(p) \in 0 .. SequenceSize - 1
           /\ \/ NextElapsed(p) > elapsed[p]
              \/ NextElapsed(p) = elapsed[p] /\ NextSequence(p) > sequence[p]
           /\ NextElapsed(p) >= elapsed[p]
           /\ elapsed[p] = 0 => NextElapsed(p) = clock
<1>1. /\ elapsed[p] \in Nat /\ clock \in Nat \ {0} /\ sequence[p] \in 0 .. SequenceSize - 1
      /\ SequenceSize \in Nat \ {0}
  BY DEF NumbersTypeOK
<1>2. CASE elapsed[p] < clock
  BY <1>1, <1>2 DEF NextElapsed, NextSequence
<1>3. CASE ~ (elapsed[p] < clock) /\ sequence[p] = SequenceSize - 1
  <2>1. (sequence[p] + 1) % SequenceSize \in 0 .. SequenceSize - 1
    BY <1>1
  <2>2. QED
    BY <1>1, <1>3, <2>1 DEF NextElapsed, NextSequence
<1>4. CASE ~ (elapsed[p] < clock) /\ sequence[p] # SequenceSize - 1
  <2>1. \A m \in Nat, n \in Nat \ {0} : m < n => m % n = m
    OBVIOUS
  <2>2. sequence[p] + 1 \in Nat /\ sequence[p] + 1 < SequenceSize
    BY <1>1, <1>4
  <2>3. (sequence[p] + 1) % SequenceSize = sequence[p] + 1
    BY <1>1, <2>1, <2>2
  <2>4. QED
    BY <1>1, <1>4, <2>2, <2>3 DEF NextElapsed, NextSequence
<1>5. QED
  BY <1>2, <1>3, <1>4

\* The numbers issued so far stay known when a generator draws.
LEMMA DrawKeeps ==
    ASSUME NumbersTypeOK, NEW p \in Processes, DrawIdentifier(p),
           UNCHANGED <<clock, life, hasty>>,
           NEW x \in Issue, Known(x)
    PROVE  Known(x)'
<1>1. /\ elapsed'[p] = NextElapsed(p) /\ sequence'[p] = NextSequence(p)
      /\ \A q \in Processes : q # p => elapsed'[q] = elapsed[q] /\ sequence'[q] = sequence[q]
  BY DEF DrawIdentifier, NumbersTypeOK
<1>2. x.by \in Processes /\ Time(x) \in Nat
  BY DEF Issue, Time
<1>3. CASE x.by # p
  BY <1>1, <1>2, <1>3 DEF Known, Kind, Machine, Place, Time
<1>4. CASE x.by = p
  <2>1. elapsed[p] \in Nat /\ clock \in Nat /\ sequence[p] \in Nat
    BY DEF NumbersTypeOK
  <2>2. ASSUME Kind(x) = "sonyflake", x.life = life[p]
        PROVE  \/ Time(x) < elapsed'[p]
               \/ Time(x) = elapsed'[p] /\ Place(x) <= sequence'[p]
    BY <1>1, <1>2, <1>4, <2>1, <2>2, NextIsAbove DEF Known
  <2>3. ASSUME Kind(x) = "sonyflake", x.life # life[p], ~ hasty[p]
        PROVE  Time(x) < clock /\ Time(x) < elapsed'[p]
    BY <1>1, <1>2, <1>4, <2>1, <2>3, NextIsAbove DEF Known
  <2>4. QED
    BY <1>4, <2>2, <2>3 DEF Known, Kind, Machine, Place, Time
<1>5. QED
  BY <1>3, <1>4

\* A generator that draws keeps the types.
LEMMA DrawTypes ==
    ASSUME NumbersTypeOK, NEW p \in Processes, DrawIdentifier(p),
           UNCHANGED <<clock, life, hasty>>, issued' \in Seq(Issue)
    PROVE  NumbersTypeOK'
BY NextIsAbove DEF NumbersTypeOK, DrawIdentifier

\* When a number is added that is known and that differs from the former ones,
\* but for the exceptions, all are known and differ.
LEMMA IssueKeeps ==
    ASSUME NumbersTypeOK, DifferByMachine, NEW y \in Issue, issued' = Append(issued, y),
           \A x \in Given : Known(x)',
           Known(y)',
           UNCHANGED hasty,
           \A x \in Given : x.number = y.number =>
              \/ /\ x.by # y.by /\ HasMachineId(x.by) /\ HasMachineId(y.by)
                 /\ MachineId(x.by) = MachineId(y.by)
              \/ x.by = y.by /\ x.life # y.life /\ hasty[x.by]
              \/ ~ HasMachineId(x.by) /\ ~ HasMachineId(y.by)
    PROVE  /\ issued' \in Seq(Issue)
           /\ \A x \in Given' : Known(x)'
           /\ DifferByMachine'
<1>1. issued \in Seq(Issue) /\ Len(issued) \in Nat /\ DOMAIN issued = 1 .. Len(issued)
  BY DEF NumbersTypeOK
<1>2. /\ issued' \in Seq(Issue) /\ DOMAIN issued' = 1 .. Len(issued) + 1
      /\ \A i \in 1 .. Len(issued) : issued'[i] = issued[i]
      /\ issued'[Len(issued) + 1] = y
  BY <1>1
<1>3. \A i \in DOMAIN issued' : i \in 1 .. Len(issued) \/ i = Len(issued) + 1
  BY <1>1, <1>2
<1>4. Given' \subseteq Given \cup {y}
  BY <1>1, <1>2, <1>3 DEF Given
<1>5. ASSUME NEW i \in DOMAIN issued', NEW j \in DOMAIN issued', i < j,
             NEW x, x = issued'[i], NEW z, z = issued'[j], x.number = z.number
      PROVE  \/ x.by # z.by /\ HasMachineId(x.by) /\ HasMachineId(z.by)
                  /\ MachineId(x.by) = MachineId(z.by)
             \/ x.by = z.by /\ x.life # z.life /\ hasty[x.by]
             \/ ~ HasMachineId(x.by) /\ ~ HasMachineId(z.by)
  <2>1. i \in 1 .. Len(issued)
    BY <1>1, <1>2, <1>5
  <2>2. CASE j \in 1 .. Len(issued)
    <3>1. x = issued[i] /\ z = issued[j] /\ i \in DOMAIN issued /\ j \in DOMAIN issued
      BY <1>1, <1>2, <1>5, <2>1, <2>2
    <3>2. QED
      BY <1>5, <3>1 DEF DifferByMachine
  <2>3. CASE j = Len(issued) + 1
    <3>1. x = issued[i] /\ i \in DOMAIN issued /\ z = y
      BY <1>1, <1>2, <1>5, <2>1, <2>3
    <3>2. x \in Given
      BY <3>1 DEF Given
    <3>3. QED
      BY <1>5, <3>1, <3>2
  <2>4. QED
    BY <1>3, <2>2, <2>3
<1>6. DifferByMachine'
  <2>1. ASSUME NEW i \in DOMAIN issued', NEW j \in DOMAIN issued', i < j,
               issued'[i].number = issued'[j].number
        PROVE  \/ /\ issued'[i].by # issued'[j].by
                  /\ HasMachineId(issued'[i].by) /\ HasMachineId(issued'[j].by)
                  /\ MachineId(issued'[i].by) = MachineId(issued'[j].by)
               \/ /\ issued'[i].by = issued'[j].by
                  /\ issued'[i].life # issued'[j].life /\ hasty'[issued'[i].by]
               \/ ~ HasMachineId(issued'[i].by) /\ ~ HasMachineId(issued'[j].by)
    <3> DEFINE x == issued'[i]
               z == issued'[j]
    <3>1. x.number = z.number
      BY <2>1
    <3> HIDE DEF x, z
    <3>2. \/ x.by # z.by /\ HasMachineId(x.by) /\ HasMachineId(z.by)
                /\ MachineId(x.by) = MachineId(z.by)
          \/ x.by = z.by /\ x.life # z.life /\ hasty[x.by]
          \/ ~ HasMachineId(x.by) /\ ~ HasMachineId(z.by)
      BY <1>5, <2>1, <3>1 DEF x, z
    <3>3. QED
      BY <3>2 DEF x, z
  <2>2. QED
    BY <2>1 DEF DifferByMachine
<1>7. QED
  BY <1>2, <1>4, <1>6

LEMMA NumbersStep ==
    NumbersTypeOK /\ NumbersInv /\ [NumbersNext]_numberVars => NumbersTypeOK' /\ NumbersInv'
<1> SUFFICES ASSUME NumbersTypeOK, NumbersInv, [NumbersNext]_numberVars
             PROVE  NumbersTypeOK' /\ NumbersInv'
  OBVIOUS
<1>t. /\ clock \in Nat \ {0} /\ elapsed \in [Processes -> Nat]
      /\ sequence \in [Processes -> 0 .. SequenceSize - 1]
      /\ life \in [Processes -> {0, 1}] /\ hasty \in [Processes -> BOOLEAN]
      /\ issued \in Seq(Issue) /\ SequenceSize \in Nat \ {0}
  BY DEF NumbersTypeOK
<1>i. \A x \in Given : /\ x \in Issue /\ Known(x)
                       /\ x.by \in Processes /\ x.life \in {0, 1} /\ Time(x) \in Nat
  <2>1. \A x \in Given : x \in Issue
    BY <1>t DEF Given
  <2>2. QED
    BY <2>1 DEF NumbersInv, Issue, Time
<1>1. ASSUME NEW p \in Processes, InitWithMachineID(p) PROVE NumbersTypeOK' /\ NumbersInv'
  <2>1. DrawIdentifier(p) /\ UNCHANGED <<clock, life, hasty, issued>> /\ HasMachineId(p)
    BY <1>1 DEF InitWithMachineID
  <2>2. NumbersTypeOK'
    BY <1>t, <2>1, DrawTypes
  <2>3. \A x \in Given : Known(x)'
    BY <1>i, <2>1, DrawKeeps
  <2>4. \A q \in Processes : elapsed'[q] > 0 => HasMachineId(q)
    BY <1>t, <2>1 DEF DrawIdentifier, NumbersInv
  <2>5. Given' = Given
    BY <2>1 DEF Given
  <2>6. DifferByMachine'
    BY <2>1 DEF NumbersInv, DifferByMachine
  <2>7. QED
    BY <2>2, <2>3, <2>4, <2>5, <2>6 DEF NumbersInv, HasMachineId
<1>2. ASSUME NEW p \in Processes, OrderNo(p) PROVE NumbersTypeOK' /\ NumbersInv'
  <2>0. PICK y : y = [by |-> p, life |-> life[p],
                number |-> <<"sonyflake", NextElapsed(p), NextSequence(p), MachineId(p)>>]
    OBVIOUS
  <2>1. DrawIdentifier(p) /\ UNCHANGED <<clock, life, hasty>> /\ elapsed[p] > 0
        /\ issued' = Append(issued, y)
    BY <1>2, <2>0 DEF OrderNo, Initialized
  <2>2. HasMachineId(p) /\ MachineId(p) \in Nat
    BY <2>1, MachineIdType DEF NumbersInv
  <2>3. /\ NextElapsed(p) \in Nat /\ NextSequence(p) \in Nat
        /\ elapsed'[p] = NextElapsed(p) /\ sequence'[p] = NextSequence(p)
    BY <1>t, <2>1, NextIsAbove DEF DrawIdentifier
  <2>4. y \in Issue /\ y.by = p /\ y.life = life[p] /\ Kind(y) = "sonyflake"
        /\ Time(y) = NextElapsed(p) /\ Place(y) = NextSequence(p) /\ Machine(y) = MachineId(p)
    BY <1>t, <2>0, <2>2, <2>3 DEF Issue, Kind, Time, Place, Machine
  <2>5. \A x \in Given : Known(x)'
    BY <1>i, <2>1, DrawKeeps
  <2>6. Known(y)'
    <3>1. life'[p] = life[p] /\ life[p] \in {0, 1}
      BY <1>t, <2>1
    <3>2. Time(y) = elapsed'[p] /\ Place(y) = sequence'[p] /\ Place(y) <= sequence'[p]
      BY <2>3, <2>4
    <3>3. /\ y.life <= life'[y.by] /\ Kind(y) # "fallback" /\ HasMachineId(y.by)
          /\ Machine(y) = MachineId(y.by) /\ Place(y) \in Nat /\ y.life = life'[y.by]
      BY <2>2, <2>3, <2>4, <3>1
    <3>4. QED
      BY <2>4, <3>2, <3>3 DEF Known, Kind, Time, Place, Machine
  <2>7. ASSUME NEW x \in Given, x.number = y.number
        PROVE  \/ /\ x.by # y.by /\ HasMachineId(x.by) /\ HasMachineId(y.by)
                  /\ MachineId(x.by) = MachineId(y.by)
               \/ x.by = y.by /\ x.life # y.life /\ hasty[x.by]
               \/ ~ HasMachineId(x.by) /\ ~ HasMachineId(y.by)
    <3>1. /\ Kind(x) = "sonyflake" /\ Time(x) = NextElapsed(p)
          /\ Place(x) = NextSequence(p) /\ Machine(x) = MachineId(p)
      BY <2>4, <2>7 DEF Kind, Time, Place, Machine
    <3>2. Known(x)
      BY <1>i
    <3>3. CASE x.by # p
      BY <2>2, <2>4, <3>1, <3>2, <3>3 DEF Known
    <3>4. CASE x.by = p
      <4>0. elapsed[p] \in Nat /\ sequence[p] \in Nat
        BY <1>t
      <4>1. x.life # life[p]
        BY <2>3, <3>1, <3>2, <3>4, <4>0, NextIsAbove DEF Known
      <4>2. hasty[p]
        BY <2>1, <2>3, <3>1, <3>2, <3>4, <4>0, <4>1, NextIsAbove DEF Known
      <4>3. QED
        BY <2>4, <3>4, <4>1, <4>2
    <3>5. QED
      BY <3>3, <3>4
  <2>8. /\ issued' \in Seq(Issue) /\ DifferByMachine'
        /\ \A x \in Given' : Known(x)'
    BY <2>1, <2>4, <2>5, <2>6, <2>7, IssueKeeps DEF NumbersInv
  <2>9. NumbersTypeOK'
    BY <2>1, <2>8, DrawTypes
  <2>10. \A q \in Processes : elapsed'[q] > 0 => HasMachineId(q)
    BY <1>t, <2>1, <2>2 DEF DrawIdentifier, NumbersInv
  <2>11. QED
    BY <2>8, <2>9, <2>10 DEF NumbersInv, HasMachineId
<1>3. ASSUME NEW p \in Processes, FallbackOrderNo(p) PROVE NumbersTypeOK' /\ NumbersInv'
  <2>1. /\ UNCHANGED <<clock, elapsed, sequence, life, hasty>> /\ ~ HasMachineId(p)
    BY <1>3 DEF FallbackOrderNo
  <2>2. PICK y : /\ y \in Issue /\ y.by = p /\ y.life = life[p] /\ Kind(y) = "fallback"
                 /\ issued' = Append(issued, y)
    <3>1. PICK x \in Randoms : issued' = Append(issued,
             [by |-> p, life |-> life[p], number |-> <<"fallback", clock \div 100, x, 0>>])
      BY <1>3 DEF FallbackOrderNo
    <3>2. clock \div 100 \in Nat
      BY <1>t
    <3>3. [by |-> p, life |-> life[p], number |-> <<"fallback", clock \div 100, x, 0>>]
            \in Issue
      BY <1>t, <3>2 DEF Issue
    <3>4. QED
      BY <3>1, <3>3 DEF Kind
  <2>3. \A x \in Given : Known(x)'
    BY <1>i, <2>1 DEF Known, Kind, Time, Place, Machine
  <2>4. Known(y)'
    <3>1. life'[p] = life[p] /\ life[p] \in {0, 1}
      BY <1>t, <2>1
    <3>2. y.life <= life'[y.by] /\ Kind(y) = "fallback" /\ ~ HasMachineId(y.by)
      BY <2>1, <2>2, <3>1
    <3>3. Kind(y) # "sonyflake"
      BY <3>2
    <3>4. QED
      BY <3>2, <3>3 DEF Known, Kind
  <2>5. \A x \in Given : x.number = y.number =>
            ~ HasMachineId(x.by) /\ ~ HasMachineId(y.by)
    BY <1>i, <2>1, <2>2 DEF Known, Kind
  <2>6. /\ issued' \in Seq(Issue) /\ DifferByMachine'
        /\ \A x \in Given' : Known(x)'
    BY <2>1, <2>2, <2>3, <2>4, <2>5, IssueKeeps DEF NumbersInv
  <2>7. QED
    BY <1>t, <2>1, <2>6 DEF NumbersInv, NumbersTypeOK, HasMachineId
<1>4. CASE Tick \/ UNCHANGED numberVars
  <2>1. clock' \in Nat \ {0} /\ clock' >= clock
        /\ UNCHANGED <<elapsed, sequence, life, hasty, issued>>
    BY <1>t, <1>4 DEF Tick, numberVars
  <2>2. \A x \in Given : Known(x)'
    BY <1>t, <1>i, <2>1 DEF Known, Kind, Time, Place, Machine
  <2>3. Given' = Given
    BY <2>1 DEF Given
  <2>4. QED
    BY <2>1, <2>2, <2>3 DEF NumbersTypeOK, NumbersInv, DifferByMachine, HasMachineId
<1>5. CASE ClockStepsBack
  <2>1. /\ clock' \in Nat \ {0} /\ UNCHANGED <<elapsed, sequence, life, issued>>
        /\ hasty' = [p \in Processes |-> hasty[p] \/ life[p] > 0]
    BY <1>t, <1>5 DEF ClockStepsBack
  <2>2. \A p \in Processes : /\ hasty[p] => hasty'[p]
                             /\ ~ hasty'[p] => life[p] = 0
    <3>1. \A p \in Processes : hasty'[p] = (hasty[p] \/ life[p] > 0)
      BY <2>1
    <3>2. \A p \in Processes : life[p] = 0 \/ life[p] > 0
      BY <1>t
    <3>3. QED
      BY <3>1, <3>2, Zenon
  <2>3. \A x \in Given : Known(x)'
    BY <1>t, <1>i, <2>1, <2>2 DEF Known, Kind, Time, Place, Machine
  <2>4. DifferByMachine'
    <3>1. \A i \in DOMAIN issued : issued[i].by \in Processes
      BY <1>i DEF Given
    <3>2. QED
      BY <2>1, <2>2, <3>1 DEF NumbersInv, DifferByMachine, HasMachineId, MachineId
  <2>5. hasty' \in [Processes -> BOOLEAN]
    BY <1>t, <2>1
  <2>6. Given' = Given
    BY <2>1 DEF Given
  <2>7. QED
    BY <2>1, <2>3, <2>4, <2>5, <2>6 DEF NumbersTypeOK, NumbersInv, HasMachineId
<1>6. ASSUME NEW p \in Processes, Restart(p) PROVE NumbersTypeOK' /\ NumbersInv'
  <2>1. /\ life[p] = 0 /\ life' = [life EXCEPT ![p] = 1]
        /\ hasty' = [hasty EXCEPT ![p] = clock <= elapsed[p]]
        /\ elapsed' = [elapsed EXCEPT ![p] = 0]
        /\ sequence' = [sequence EXCEPT ![p] = SequenceSize - 1]
        /\ UNCHANGED <<clock, issued>>
    BY <1>6 DEF Restart
  <2>2. NumbersTypeOK'
    BY <1>t, <2>1 DEF NumbersTypeOK
  <2>3. /\ life'[p] = 1 /\ elapsed'[p] = 0 /\ (~ hasty'[p] => elapsed[p] < clock)
        /\ \A q \in Processes : q # p =>
              UNCHANGED <<life[q], hasty[q], elapsed[q], sequence[q]>>
    <3>1. hasty'[p] = (clock <= elapsed[p])
      BY <1>t, <2>1
    <3>2. clock <= elapsed[p] \/ elapsed[p] < clock
      BY <1>t
    <3>3. ~ hasty'[p] => elapsed[p] < clock
      BY <3>1, <3>2, Zenon
    <3>4. life'[p] = 1 /\ elapsed'[p] = 0
      BY <1>t, <2>1
    <3>5. \A q \in Processes : q # p => UNCHANGED <<life[q], elapsed[q], sequence[q]>>
      BY <1>t, <2>1
    <3>6. \A q \in Processes : q # p => UNCHANGED hasty[q]
      BY <1>t, <2>1
    <3>7. QED
      BY <3>3, <3>4, <3>5, <3>6
  <2>4. ASSUME NEW x \in Given PROVE Known(x)'
    <3>1. CASE x.by # p
      BY <1>i, <2>1, <2>3, <3>1 DEF Known, Kind, Time, Place, Machine
    <3>2. CASE x.by = p
      <4>1. x.life = 0
        BY <1>i, <2>1, <3>2 DEF Known
      <4>2. Kind(x) = "sonyflake" /\ ~ hasty'[p] => Time(x) < clock
        <5>1. /\ elapsed[p] \in Nat /\ clock \in Nat /\ Time(x) \in Nat
              /\ Known(x) /\ x.life = life[x.by]
          BY <1>t, <1>i, <2>1, <3>2, <4>1
        <5>2. Kind(x) = "sonyflake" => Time(x) <= elapsed[p]
          BY <3>2, <5>1 DEF Known
        <5>3. QED
          BY <2>3, <5>1, <5>2
      <4>3. QED
        BY <1>i, <2>1, <2>3, <3>2, <4>1, <4>2 DEF Known, Kind, Time, Place, Machine
    <3>3. QED
      BY <3>1, <3>2
  <2>5. \A x, y \in Given : x.by = y.by /\ x.life # y.life => x.by # p
    BY <1>i, <2>1 DEF Known
  <2>6. Given' = Given
    BY <2>1 DEF Given
  <2>7. DifferByMachine'
    <3>1. \A i \in DOMAIN issued : issued[i] \in Given /\ issued[i].by \in Processes
      BY <1>i DEF Given
    <3>2. \A x, y \in Given : x.by = y.by /\ x.life # y.life => hasty'[x.by] = hasty[x.by]
      BY <1>i, <2>3, <2>5
    <3>3. QED
      BY <2>1, <3>1, <3>2 DEF NumbersInv, DifferByMachine, HasMachineId, MachineId
  <2>8. \A q \in Processes : elapsed'[q] > 0 => HasMachineId(q)
    BY <2>3 DEF NumbersInv
  <2>9. QED
    BY <2>2, <2>4, <2>6, <2>7, <2>8 DEF NumbersInv, HasMachineId
<1>7. QED
  BY <1>1, <1>2, <1>3, <1>4, <1>5, <1>6 DEF NumbersNext

\* What tells two processes apart tells their machine identifiers apart.
LEMMA ApartByMachine ==
    ASSUME NEW p \in Processes, NEW q \in Processes, HasMachineId(p), HasMachineId(q),
           MachineId(p) = MachineId(q)
    PROVE  ~ ToldApart(p, q)
<1> SUFFICES ASSUME ToldApart(p, q) PROVE FALSE
  OBVIOUS
<1>1. CASE MachineIdEnv[p] # Unset /\ MachineIdEnv[q] # Unset /\ MachineIdEnv[p] # MachineIdEnv[q]
  BY <1>1 DEF MachineId
<1>2. CASE /\ MachineIdEnv[p] = Unset /\ MachineIdEnv[q] = Unset
           /\ PodOrdinal[p] # Unset /\ PodOrdinal[q] # Unset /\ PodOrdinal[p] # PodOrdinal[q]
           /\ PodOrdinal[p] < 65536 /\ PodOrdinal[q] < 65536
  <2>1. \A n \in Nat : n < 65536 => n % 65536 = n
    OBVIOUS
  <2>2. PodOrdinal[p] \in Nat /\ PodOrdinal[q] \in Nat
    BY <1>2
  <2>3. QED
    BY <1>2, <2>1, <2>2 DEF MachineId
<1>3. CASE /\ MachineIdEnv[p] = Unset /\ MachineIdEnv[q] = Unset
           /\ PodOrdinal[p] = Unset /\ PodOrdinal[q] = Unset
           /\ IpBytes[p] # Unset /\ IpBytes[q] # Unset /\ IpBytes[p] # IpBytes[q]
  <2>1. IpBytes[p] \in [1 .. 2 -> 0 .. 255] /\ IpBytes[q] \in [1 .. 2 -> 0 .. 255]
    BY <1>3
  <2>2. IpBytes[p][1] * 256 + IpBytes[p][2] = IpBytes[q][1] * 256 + IpBytes[q][2]
    BY <1>3 DEF MachineId
  <2>3. /\ IpBytes[p][1] \in 0 .. 255 /\ IpBytes[p][2] \in 0 .. 255
        /\ IpBytes[q][1] \in 0 .. 255 /\ IpBytes[q][2] \in 0 .. 255
    BY <2>1
  <2>4. IpBytes[p][1] = IpBytes[q][1] /\ IpBytes[p][2] = IpBytes[q][2]
    <3>1. \A a, b, c, d \in Int :
             /\ 0 <= a /\ a <= 255 /\ 0 <= b /\ b <= 255
             /\ 0 <= c /\ c <= 255 /\ 0 <= d /\ d <= 255
             /\ a * 256 + b = c * 256 + d
             => a = c /\ b = d
      OBVIOUS
    <3>2. PICK a, b, c, d \in 0 .. 255 : /\ a = IpBytes[p][1] /\ b = IpBytes[p][2]
                                         /\ c = IpBytes[q][1] /\ d = IpBytes[q][2]
      BY <2>3
    <3>3. a * 256 + b = c * 256 + d
      BY <2>2, <3>2
    <3>4. a = c /\ b = d
      BY <3>1, <3>3
    <3>5. QED
      BY <3>2, <3>4
  <2>5. \A i \in 1 .. 2 : IpBytes[p][i] = IpBytes[q][i]
    BY <2>4
  <2>6. QED
    BY <1>3, <2>1, <2>5
<1>4. QED
  BY <1>1, <1>2, <1>3 DEF ToldApart, Unsets, Differ

\* For any processes, with any settings: what tells two of them apart, a running
\* clock and a full sequence keep their numbers apart; equal ones have one of the
\* three reasons.
THEOREM NumbersAreUnique == NumbersSpec => []NumbersDiffer
<1>1. NumbersTypeOK /\ NumbersInv => NumbersDiffer
  <2> SUFFICES ASSUME NumbersTypeOK, NumbersInv PROVE NumbersDiffer
    OBVIOUS
  <2>1. \A i \in DOMAIN issued : issued[i].by \in Processes
    <3>1. \A i \in DOMAIN issued : issued[i] \in Issue
      BY DEF NumbersTypeOK
    <3>2. QED
      BY <3>1 DEF Issue
  <2>2. DifferByMachine
    BY DEF NumbersInv
  <2>3. \A p, q \in Processes :
           HasMachineId(p) /\ HasMachineId(q) /\ MachineId(p) = MachineId(q) => ~ ToldApart(p, q)
    BY ApartByMachine
  <2> HIDE DEF ToldApart, HasMachineId, MachineId
  <2>4. QED
    BY <2>1, <2>2, <2>3 DEF DifferByMachine, NumbersDiffer
<1>2. QED
  BY <1>1, NumbersStart, NumbersStep, PTL DEF NumbersSpec

=============================================================================
