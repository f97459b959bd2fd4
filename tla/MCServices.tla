----------------------------- MODULE MCServices -----------------------------
(***************************************************************************)
(* The services around the sale, none of which reads what another keeps in *)
(* these modules: the market of tickets, the waiting room, the way of a    *)
(* request, order numbers, statistics and shows.  A behaviour is about one *)
(* of them.                                                                *)
(***************************************************************************)
EXTENDS MCTicketOwnership, WaitingRoom, Access, OrderNumbers, Stats, Shows

CONSTANTS Parts, root, walker, editor, reader, pod, host, twin, bare, none,
          l1, l2, x1, x2

VARIABLE part       \* the service a behaviour is about

RoutesOf(chain, handler) == {r \in Routes : r.chain = chain /\ r.handler = handler}

\* One session walks through the routes, or an administrator changes roles
\* while another session asks for the statistics.
MCWalk == walker :> Routes @@ editor :> {} @@ reader :> {}
MCRace == walker :> {} @@ editor :> RoutesOf(Admin, "UpdateUserRole")
                       @@ reader :> RoutesOf(Admin, "GetDashboardStats")
MCRouteChoices == {MCWalk, MCRace}

\* Four processes: one has the ordinal 65543, which becomes 7, two have addresses
\* that end in 7, of which one is the identifier 7 again, and one has nothing.
MCMachineIdEnv == [p \in Processes |-> none]
MCPodOrdinal == [p \in Processes |-> IF p = pod THEN 65543 ELSE none]
MCIpBytes == [p \in Processes |->
    IF p = bare THEN none ELSE IF p = twin THEN <<1, 7>> ELSE <<0, 7>>]

ServicesInit ==
    /\ part \in Parts
    /\ Init /\ RoomInit /\ AccessInit /\ NumbersInit /\ StatsInit /\ ShowInit
    /\ part # "room" => room = "queue"
    /\ routesOf = MCWalk => role[ann] = "user"
    /\ part # "access" => routesOf = MCWalk

ServicesNext ==
    /\ UNCHANGED part
    /\ \/ /\ part = "market" /\ Next
          /\ UNCHANGED <<roomVars, accessVars, numberVars, statsVars, showVars>>
       \/ /\ part = "room" /\ RoomNext
          /\ UNCHANGED <<vars, accessVars, numberVars, statsVars, showVars>>
       \/ /\ part = "access" /\ AccessNext
          /\ UNCHANGED <<vars, roomVars, numberVars, statsVars, showVars>>
       \/ /\ part = "numbers" /\ NumbersNext
          /\ UNCHANGED <<vars, roomVars, accessVars, statsVars, showVars>>
       \/ /\ part = "stats" /\ StatsNext
          /\ UNCHANGED <<vars, roomVars, accessVars, numberVars, showVars>>
       \/ /\ part = "show" /\ ShowNext
          /\ UNCHANGED <<vars, roomVars, accessVars, numberVars, statsVars>>

\* The rows of a table are alike, and a new one is the next.  What two listings
\* and a request may become is explored, and two requests without a listing.
RowsInOrder ==
    LET listed(l) == listing[l].status # "none"
        requested(x) == transfer[x].status # "none" IN
    /\ listed(l2) => listed(l1)
    /\ requested(x2) => requested(x1) /\ ~ listed(l1)

servicesVars == <<part, vars, roomVars, accessVars, numberVars, statsVars, showVars>>

ServicesSpec == ServicesInit /\ [][ServicesNext]_servicesVars

=============================================================================
