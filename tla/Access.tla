------------------------------- MODULE Access -------------------------------
(***************************************************************************)
(* The way of a request through the middlewares to its handler             *)
(* (internal/middleware, internal/handler), with the cache of users that   *)
(* JWTAuthWithBlacklist keeps in Redis and the change of a role that       *)
(* clears it (internal/service/auth_service.go).  A session handles one    *)
(* request after the other; each access to Redis or to the database is an  *)
(* action of its own.  RevokeToken is called by nothing: which tokens are  *)
(* on the blacklist is chosen with the request.                            *)
(***************************************************************************)
EXTENDS HttpRoutes, Naturals, FiniteSets

CONSTANTS
    Accounts,           \* users
    Root,               \* an account that stays an administrator
    Sessions,
    RouteChoices,       \* which routes the sessions of a behaviour use
    PublicLimit,        \* requests per window on the public interfaces
    BuyerLimit,         \* purchases of a user per window
    MaxRoleChanges,     \* bound on the changes of roles
    MaxAccessFaults     \* bound on the failed commands and statements

ASSUME AccessAssumption ==
    /\ Root \in Accounts
    /\ RouteChoices \subseteq [Sessions -> SUBSET Routes]
    /\ PublicLimit \in Nat /\ BuyerLimit \in Nat
    /\ MaxRoleChanges \in Nat /\ MaxAccessFaults \in Nat

VARIABLES
    routesOf,       \* the routes the requests of a session are for
    role,           \* users.role
    version,        \* the number of changes of it
    cached,         \* auth:user:<id>: its role and version, or NotCached
    excuse,         \* why a cached role may be out of date
    hits,           \* ratelimit:<ip> and seckill:ratelimit:user:<id>
    req,            \* the request of a session
    accessFaults

accessVars == <<routesOf, role, version, cached, excuse, hits, req, accessFaults>>

Roles == {"user", "admin"}
NotCached == [role |-> "", version |-> 0]
Limited == {"ip"} \cup Accounts

\* A request of session s that is not there: its last step was answered.
NoRequest == [by |-> Root, route |-> [chain |-> << >>, handler |-> "HealthCheck"],
              flaws |-> {}, step |-> "idle", at |-> 1, seen |-> NotCached,
              served |-> FALSE, lucky |-> FALSE, target |-> Root, status |-> 0]

AccessInit ==
    /\ routesOf \in RouteChoices
    /\ role \in {f \in [Accounts -> Roles] : f[Root] = "admin"}
    /\ version = [u \in Accounts |-> 0]
    /\ cached = [u \in Accounts |-> NotCached]
    /\ excuse = [u \in Accounts |-> {}]
    /\ hits = [k \in Limited |-> 0]
    /\ req = [s \in Sessions |-> NoRequest]
    /\ accessFaults = 0

AccessFault ==
    /\ accessFaults < MaxAccessFaults
    /\ accessFaults' = accessFaults + 1

Sound == UNCHANGED accessFaults

\* The middlewares and the handler's tests a request for route r meets.
Judges(r) ==
    {r.chain[i] : i \in DOMAIN r.chain}
    \cup {Handlers[r.handler].tests[i] : i \in DOMAIN Handlers[r.handler].tests}

\* The flaws a request for route r can have.
FlawsFor(r) ==
    (Judges(r) \cap {"id", "body", "time"})
    \cup (IF "jwt" \in Judges(r) THEN {"token", "revoked"} ELSE {})

\* A request arrives: a token of account u, for route r, with at most one flaw.
Arrive(s) ==
    /\ req[s].step = "idle"
    /\ \E u \in Accounts, r \in routesOf[s], t \in Accounts \ {Root} :
         \E f \in {{}} \cup {{x} : x \in FlawsFor(r)} :
            req' = [req EXCEPT ![s] =
               [NoRequest EXCEPT !.by = u, !.route = r, !.flaws = f, !.target = t,
                                 !.step = "chain"]]
    /\ Sound
    /\ UNCHANGED <<routesOf, role, version, cached, excuse, hits>>

\* The answer leaves, and the session is free.
Depart(s) ==
    /\ req[s].step = "answered"
    /\ req' = [req EXCEPT ![s] = NoRequest]
    /\ Sound
    /\ UNCHANGED <<routesOf, role, version, cached, excuse, hits>>

\* What comes next in the chain of s; "handler" after the last middleware.
Upcoming(s) ==
    IF req[s].at > Len(req[s].route.chain) THEN "handler"
    ELSE req[s].route.chain[req[s].at]

Pass(s) == req' = [req EXCEPT ![s].step = "chain", ![s].at = @ + 1]
PassWith(s, c) ==
    req' = [req EXCEPT ![s].step = "chain", ![s].at = @ + 1, ![s].seen = c]
PassByLuck(s) == req' = [req EXCEPT ![s].at = @ + 1, ![s].lucky = TRUE]
AbortWith(s, status) ==
    req' = [req EXCEPT ![s].step = "answered", ![s].status = status]
GoTo(s, step) == req' = [req EXCEPT ![s].step = step]

-----------------------------------------------------------------------------
(* The limits: one script that counts the request unless the limit is      *)
(* reached.  When Redis fails the request passes.                          *)
Limit(s, kind, k, limit) ==
    /\ req[s].step = "chain" /\ Upcoming(s) = kind
    /\ \/ /\ hits[k] < limit
          /\ hits' = [hits EXCEPT ![k] = @ + 1]
          /\ Pass(s) /\ Sound
       \/ /\ hits[k] >= limit
          /\ AbortWith(s, 429) /\ Sound /\ UNCHANGED hits
       \/ AccessFault /\ PassByLuck(s) /\ UNCHANGED hits
    /\ UNCHANGED <<routesOf, role, version, cached, excuse>>

RateLimit(s) == Limit(s, "ip", "ip", PublicLimit)
SeckillRateLimit(s) == Limit(s, "user", req[s].by, BuyerLimit)

\* The key of a counter expires.
WindowEnds(k) ==
    /\ hits[k] > 0
    /\ hits' = [hits EXCEPT ![k] = 0]
    /\ Sound
    /\ UNCHANGED <<routesOf, role, version, cached, excuse, req>>

-----------------------------------------------------------------------------
(* JWTAuthWithBlacklist and RoleAuth.                                      *)

\* The header, the blacklist and the signature; when Redis fails the token
\* counts as not revoked.
CheckToken(s) ==
    /\ req[s].step = "chain" /\ Upcoming(s) = "jwt"
    /\ \/ req[s].flaws \cap {"token", "revoked"} # {} /\ AbortWith(s, 401) /\ Sound
       \/ req[s].flaws \cap {"token", "revoked"} = {} /\ GoTo(s, "cache") /\ Sound
       \/ /\ req[s].flaws = {"revoked"} /\ AccessFault
          /\ req' = [req EXCEPT ![s].step = "cache", ![s].lucky = TRUE]
    /\ UNCHANGED <<routesOf, role, version, cached, excuse, hits>>

\* The cached user is used when there is one and Redis answers.
ReadCache(s) ==
    LET c == cached[req[s].by] IN
    /\ req[s].step = "cache"
    /\ \/ c # NotCached /\ PassWith(s, c) /\ Sound
       \/ c = NotCached /\ GoTo(s, "load") /\ Sound
       \/ c # NotCached /\ GoTo(s, "load") /\ AccessFault
    /\ UNCHANGED <<routesOf, role, version, cached, excuse, hits>>

\* Otherwise the user is read from the database ...
LoadUser(s) ==
    LET u == req[s].by IN
    /\ req[s].step = "load"
    /\ \/ /\ req' = [req EXCEPT ![s].step = "fill",
                                ![s].seen = [role |-> role[u], version |-> version[u]]]
          /\ Sound
       \/ /\ req' = [req EXCEPT ![s].step = "answered", ![s].status = 401, ![s].lucky = TRUE]
          /\ AccessFault
    /\ UNCHANGED <<routesOf, role, version, cached, excuse, hits>>

\* ... and put into the cache, for five minutes.
FillCache(s) ==
    LET u == req[s].by IN
    /\ req[s].step = "fill"
    /\ \/ /\ cached' = [cached EXCEPT ![u] = req[s].seen]
          /\ excuse' = [excuse EXCEPT ![u] =
                           IF req[s].seen.version = version[u] THEN {} ELSE {"overtaken"}]
          /\ Sound
       \/ AccessFault /\ UNCHANGED <<cached, excuse>>
    /\ Pass(s)
    /\ UNCHANGED <<routesOf, role, version, hits>>

\* Mutant: the answer is written, and the chain goes on.
CheckRoleGoesOn(s) ==
    /\ req[s].step = "chain" /\ Upcoming(s) = "role"
    /\ Pass(s)
    /\ Sound
    /\ UNCHANGED <<routesOf, role, version, cached, excuse, hits>>

\* RoleAuth looks at the user the former middleware has found.
CheckRole(s) ==
    /\ req[s].step = "chain" /\ Upcoming(s) = "role"
    /\ IF req[s].seen.role = "admin" THEN Pass(s) ELSE AbortWith(s, 403)
    /\ Sound
    /\ UNCHANGED <<routesOf, role, version, cached, excuse, hits>>

CacheExpires(u) ==
    /\ cached[u] # NotCached
    /\ cached' = [cached EXCEPT ![u] = NotCached]
    /\ excuse' = [excuse EXCEPT ![u] = {}]
    /\ Sound
    /\ UNCHANGED <<routesOf, role, version, hits, req>>

-----------------------------------------------------------------------------
(* The handlers.                                                           *)

\* getUser finds the user only behind JWTAuthWithBlacklist.
HasUser(s) == "jwt" \in Judges(req[s].route)

Fails(s, test) == IF test = "user" THEN ~ HasUser(s) ELSE test \in req[s].flaws

\* The handler's tests, and then its service, for all services but one.
Handle(s) ==
    LET h == Handlers[req[s].route.handler]
        failed == {i \in DOMAIN h.tests : Fails(s, h.tests[i])}
        first == CHOOSE i \in failed : \A j \in failed : i <= j IN
    /\ req[s].step = "chain" /\ Upcoming(s) = "handler"
    /\ IF failed # {}
       THEN AbortWith(s, IF h.tests[first] = "user" THEN 401 ELSE 400)
       ELSE IF req[s].route.handler = "UpdateUserRole"
       THEN req' = [req EXCEPT ![s].step = "write", ![s].served = TRUE]
       ELSE \E status \in {h.ok} \cup h.errors :
                req' = [req EXCEPT ![s].step = "answered", ![s].served = TRUE,
                                   ![s].status = status]
    /\ Sound
    /\ UNCHANGED <<routesOf, role, version, cached, excuse, hits>>

\* UpdateUserRole refuses an unknown role, or writes the new one ...
WriteRole(s) ==
    LET u == req[s].target IN
    /\ req[s].step = "write"
    /\ \/ AbortWith(s, 400) /\ UNCHANGED <<role, version>>
       \/ /\ version[u] < MaxRoleChanges
          /\ \E new \in Roles : role' = [role EXCEPT ![u] = new]
          /\ version' = [version EXCEPT ![u] = @ + 1]
          /\ GoTo(s, "clear")
    /\ Sound
    /\ UNCHANGED <<routesOf, cached, excuse, hits>>

\* Mutant: the key that is cleared is that of the administrator.
ClearCacheOfCaller(s) ==
    /\ req[s].step = "clear"
    /\ cached' = [cached EXCEPT ![req[s].by] = NotCached]
    /\ excuse' = [excuse EXCEPT ![req[s].by] = {}]
    /\ AbortWith(s, 200)
    /\ Sound
    /\ UNCHANGED <<routesOf, role, version, hits>>

\* ... and then clears the cached user, an error ignored.
ClearCache(s) ==
    LET u == req[s].target IN
    /\ req[s].step = "clear"
    /\ \/ /\ cached' = [cached EXCEPT ![u] = NotCached]
          /\ excuse' = [excuse EXCEPT ![u] = {}]
          /\ Sound
       \/ /\ excuse' = [excuse EXCEPT ![u] = @ \cup {"not cleared"}]
          /\ AccessFault /\ UNCHANGED cached
    /\ AbortWith(s, 200)
    /\ UNCHANGED <<routesOf, role, version, hits>>

SessionStep(s) ==
    \/ RateLimit(s) \/ SeckillRateLimit(s)
    \/ CheckToken(s) \/ ReadCache(s) \/ LoadUser(s) \/ FillCache(s) \/ CheckRole(s)
    \/ Handle(s) \/ WriteRole(s) \/ ClearCache(s) \/ Depart(s)

AccessNext ==
    \/ \E s \in Sessions : Arrive(s) \/ SessionStep(s)
    \/ \E k \in Limited : WindowEnds(k)
    \/ \E u \in Accounts : CacheExpires(u)

AccessSpec == AccessInit /\ [][AccessNext]_accessVars

-----------------------------------------------------------------------------
(* Properties.                                                             *)

AccessTypeOK ==
    /\ routesOf \in RouteChoices
    /\ role \in [Accounts -> Roles]
    /\ version \in [Accounts -> Nat]
    /\ cached \in [Accounts -> [role : Roles \cup {""}, version : Nat]]
    /\ excuse \in [Accounts -> SUBSET {"overtaken", "not cleared"}]
    /\ hits \in [Limited -> Nat]
    /\ DOMAIN req = Sessions
    /\ accessFaults \in Nat

OutOfDate(u) == cached[u] # NotCached /\ cached[u].version < version[u]

\* Requests are judged by a role that is out of date only while the change is
\* between its write and its clearing, when the clearing failed, or when a
\* request that had read the old role filled the cache after the clearing:
\* whatever else runs, a changed role is not served from the cache.
StaleNeedsRace ==
    \A u \in Accounts :
        OutOfDate(u) =>
            \/ \E s \in Sessions : req[s].step = "clear" /\ req[s].target = u
            \/ excuse[u] # {}

\* No handler is routed with less protection in one process than in another,
\* but for /api/auth.
RoutesAgree ==
    \A a, b \in Routes : a.handler = b.handler =>
        a.chain = b.chain \/ {a.chain, b.chain} = {Open, Public}

\* Whatever process it comes to, an answered request has reached its service
\* exactly when it had to: it had no flaw, it was not over a limit, and the
\* role it was judged by was the one the route asks for.  Only a failure of
\* Redis or of the database makes an exception.  And it does not matter which
\* process it came to.
RequestsAreJudged ==
    /\ \A s \in Sessions :
          req[s].step = "answered" /\ ~ req[s].lucky =>
              (req[s].served
                  <=> /\ req[s].flaws = {}
                      /\ req[s].status # 429
                      /\ req[s].route.chain = Admin => req[s].seen.role = "admin")
    /\ RoutesAgree

=============================================================================
