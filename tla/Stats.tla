------------------------------- MODULE Stats --------------------------------
(***************************************************************************)
(* The administrators' statistics (internal/service/stats_service.go): the *)
(* dashboard, the sales trend and the ticket types, each computed from the *)
(* tickets by statements of its own, and kept in Redis until it expires.   *)
(* Nothing keeps two calls from computing the same at a time.              *)
(* InvalidateStatsCache, which would delete two of the keys, is not        *)
(* called.  A version of the tickets stands for what is computed from      *)
(* them.  The errors of the statements are ignored: the figures of one     *)
(* that fails are zero, and are cached and shown like any others.  The     *)
(* days of a trend are no part of its key, which the version leaves out.   *)
(***************************************************************************)
EXTENDS Integers

CONSTANTS
    StatsCalls,         \* the sessions
    MaxTableChanges,    \* bound on the changes of the tickets
    MaxStatsFaults      \* bound on failed statements and failed commands of Redis

ASSUME StatsAssumption == MaxTableChanges \in Nat /\ MaxStatsFaults \in Nat

VARIABLES
    table,          \* the version of the tickets
    statsCache,     \* the version a key was computed from, or Nothing
    ask,            \* the call of a session, or Idle
    statsFaults,
    since,          \* history: the version when a key was last absent with
                    \* nobody computing what is under it
    zeroed          \* history: a statement for the key failed since then

statsVars == <<table, statsCache, ask, statsFaults, since, zeroed>>

Keys == {"dashboard", "sales_trend", "ticket_types"}
Nothing == -1
Zeros == 0              \* what a failed statement counts
Idle == [key |-> "none", step |-> "idle", from |-> Zeros]

StatsTypeOK ==
    /\ table \in Nat \ {0}
    /\ statsCache \in [Keys -> Nat \cup {Nothing}]
    /\ ask \in [StatsCalls -> [key : Keys \cup {"none"},
                               step : {"idle", "first", "rest", "fill"}, from : Nat]]
    /\ statsFaults \in Nat
    /\ since \in [Keys -> Nat]
    /\ zeroed \in [Keys -> BOOLEAN]

StatsInit ==
    /\ table = 1
    /\ statsCache = [k \in Keys |-> Nothing]
    /\ ask = [s \in StatsCalls |-> Idle]
    /\ statsFaults = 0
    /\ since = [k \in Keys |-> table]
    /\ zeroed = [k \in Keys |-> FALSE]

StatsFault ==
    /\ statsFaults < MaxStatsFaults
    /\ statsFaults' = statsFaults + 1

NoStatsFault == UNCHANGED statsFaults

\* Some session computes the statistics k.
Computed(k) == \E s \in StatsCalls : ask[s].key = k

\* Session s has figures for k, which it has not cached yet.
HasRead(s, k) == ask[s].key = k /\ ask[s].step \in {"rest", "fill"}

\* A call that the cache answers leaves no trace; one that finds nothing, or
\* no Redis, goes on to the database.
MissCache(s, k) ==
    /\ ask[s] = Idle
    /\ \/ statsCache[k] = Nothing /\ NoStatsFault
       \/ statsCache[k] # Nothing /\ StatsFault
    /\ ask' = [ask EXCEPT ![s].key = k, ![s].step = "first"]
    /\ UNCHANGED <<table, statsCache>>

\* The figures of s are from version v, or zeros: it goes on to step next.
Count(s, v, next) == ask' = [ask EXCEPT ![s].step = next, ![s].from = v]

\* The first statement fixes what the result is at most as new as, or fails ...
FirstStatement(s) ==
    LET next == IF ask[s].key = "dashboard" THEN "rest" ELSE "fill" IN
    /\ ask[s].step = "first"
    /\ \/ Count(s, table, next) /\ NoStatsFault
       \/ Count(s, Zeros, next) /\ StatsFault
    /\ UNCHANGED <<table, statsCache>>

\* ... and the dashboard has others, between which the tickets may change, and
\* of which one may fail.
OtherStatements(s) ==
    /\ ask[s].step = "rest"
    /\ \/ Count(s, ask[s].from, "fill") /\ NoStatsFault
       \/ Count(s, Zeros, "fill") /\ StatsFault
    /\ UNCHANGED <<table, statsCache>>

\* Mutant: all statistics are kept under the key of the dashboard.
CacheKeyShared(k) == "dashboard"

\* stats:dashboard, stats:sales_trend and the date, and stats:ticket_types.
CacheKey(k) == k

\* The result is cached, an error ignored, and answered.
FillStats(s) ==
    /\ ask[s].step = "fill"
    /\ \/ /\ statsCache' = [statsCache EXCEPT ![CacheKey(ask[s].key)] = ask[s].from]
          /\ NoStatsFault
       \/ StatsFault /\ UNCHANGED statsCache
    /\ ask' = [ask EXCEPT ![s] = Idle]
    /\ UNCHANGED table

\* Another part of the system changes the tickets.
TableChanges ==
    /\ table <= MaxTableChanges
    /\ table' = table + 1
    /\ UNCHANGED <<statsCache, ask, statsFaults>>

\* A key expires: the dashboard after 30 seconds, the others after 60.
StatsExpires(k) ==
    /\ statsCache[k] # Nothing
    /\ statsCache' = [statsCache EXCEPT ![k] = Nothing]
    /\ UNCHANGED <<table, ask, statsFaults>>

\* Nothing is cached under k, and nobody is about to.
Fresh(k) == statsCache[k] = Nothing /\ ~ Computed(k)

\* What the history variables record of a step.
Record ==
    /\ since' = [k \in Keys |-> IF Fresh(k)' THEN table' ELSE since[k]]
    /\ zeroed' = [k \in Keys |->
          /\ ~ Fresh(k)'
          /\ zeroed[k] \/ \E s \in StatsCalls : HasRead(s, k)' /\ ask'[s].from = Zeros]

StatsNext ==
    /\ \/ \E s \in StatsCalls :
             \/ \E k \in Keys : MissCache(s, k)
             \/ FirstStatement(s) \/ OtherStatements(s) \/ FillStats(s)
       \/ \E k \in Keys : StatsExpires(k)
       \/ TableChanges
    /\ Record

StatsSpec == StatsInit /\ [][StatsNext]_statsVars

-----------------------------------------------------------------------------
\* However many calls compute the same statistics at a time, in whatever order
\* they store them, and whatever fails, an administrator is never shown figures
\* from before the key was last absent with nobody computing them: what a slow
\* call has stored lasts until the key expires, and never comes back.  Zeros are
\* shown only when a statement for this key has failed since then.
StatsRecover ==
    \A k \in Keys :
        \/ statsCache[k] = Nothing
        \/ statsCache[k] = Zeros /\ zeroed[k]
        \/ statsCache[k] >= since[k]

=============================================================================
