---------------------------- MODULE WaitingRoom ----------------------------
(***************************************************************************)
(* The waiting room and the wait list of one event (internal/queue): a     *)
(* list of users in Redis and one key per user.  Both are changed by       *)
(* separate commands, between which other calls run, so a call is a        *)
(* session of several actions.  Room says which of the two a behaviour is  *)
(* about; they differ in what the key is set to:                           *)
(*                                                                         *)
(*   - the queue sets it when the user joins (for 30 minutes) and deletes  *)
(*     it when the user is taken from the list;                            *)
(*   - the wait list means to set it too, but the client cannot encode the *)
(*     entry it is given and the error is ignored; it sets the key to      *)
(*     "notified" (for a day) when the user is taken from the list.        *)
(*                                                                         *)
(* JoinQueue and LeaveQueue are called by the HTTP handlers.  Nothing in   *)
(* the program calls ProcessNext, NotifyNext or ClearQueue: they are       *)
(* operations the package offers.                                          *)
(***************************************************************************)
EXTENDS Naturals, FiniteSets, Sequences, SequencesExt

CONSTANTS
    RoomUsers,
    RoomCalls,          \* the sessions: calls that can run at the same time
    Nobody,
    MaxListed,          \* bound on the length of the list
    MaxRoomFaults       \* bound on failed commands, expiries and clears

ASSUME RoomAssumption ==
    /\ Nobody \notin RoomUsers
    /\ MaxListed \in Nat /\ MaxRoomFaults \in Nat

VARIABLES
    room,           \* "queue" or "waitlist"
    list,           \* queue:event:E or waitlist:event:E
    mark,           \* the key of a user: "none", "waiting" or "notified"
    callStep,       \* the next step of a session
    whom,           \* the user it is about
    disturbed,      \* history: the users whose join overlapped another
                    \* operation on them, or on whom a command failed, or
                    \* whose key expired or list was cleared meanwhile
    roomFaults

roomVars == <<room, list, mark, callStep, whom, disturbed, roomFaults>>

RoomTypeOK ==
    /\ room \in {"queue", "waitlist"}
    /\ list \in Seq(RoomUsers)
    /\ mark \in [RoomUsers -> {"none", "waiting", "notified"}]
    /\ callStep \in [RoomCalls -> {"idle", "push", "remember", "taken", "forget"}]
    /\ whom \in [RoomCalls -> RoomUsers \cup {Nobody}]
    /\ disturbed \subseteq RoomUsers
    /\ roomFaults \in Nat

RoomInit ==
    /\ room \in {"queue", "waitlist"}
    /\ list = << >>
    /\ mark = [u \in RoomUsers |-> "none"]
    /\ callStep = [s \in RoomCalls |-> "idle"]
    /\ whom = [s \in RoomCalls |-> Nobody]
    /\ disturbed = {}
    /\ roomFaults = 0

Busy(u) == \E s \in RoomCalls : whom[s] = u

\* A join of u is under way.
Joining(u) == \E s \in RoomCalls : whom[s] = u /\ callStep[s] \in {"push", "remember"}

\* Session s turns to user u; it disturbs u when one of two that overlap joins.
TurnTo(s, u, next) ==
    /\ whom' = [whom EXCEPT ![s] = u]
    /\ callStep' = [callStep EXCEPT ![s] = next]
    /\ disturbed' = IF Joining(u) \/ (next = "push" /\ Busy(u))
                    THEN disturbed \cup {u} ELSE disturbed
    /\ UNCHANGED <<room, roomFaults>>

EndCall(s) ==
    /\ whom' = [whom EXCEPT ![s] = Nobody]
    /\ callStep' = [callStep EXCEPT ![s] = "idle"]

\* Something goes wrong for the users us.
Disturb(us) ==
    /\ roomFaults < MaxRoomFaults
    /\ roomFaults' = roomFaults + 1
    /\ disturbed' = disturbed \cup us

Calm == UNCHANGED <<disturbed, roomFaults>>

-----------------------------------------------------------------------------
\* Mutant: the key of the user is not looked at.
MayJoinAgain(u) == TRUE

\* The key of the user is not there.  The wait list also asks for the length
\* of a hash that nothing fills, and never finds stock.
MayJoin(u) == mark[u] = "none"

\* A join of u passes its test, or is refused without effect.
JoinTest(s, u) ==
    /\ callStep[s] = "idle"
    /\ MayJoin(u)
    /\ Len(list) < MaxListed
    /\ TurnTo(s, u, "push")
    /\ UNCHANGED <<list, mark>>

\* GET fails, which the code takes for the absence of the key.
JoinTestFails(s, u) ==
    /\ callStep[s] = "idle"
    /\ Len(list) < MaxListed
    /\ whom' = [whom EXCEPT ![s] = u]
    /\ callStep' = [callStep EXCEPT ![s] = "push"]
    /\ Disturb({u})
    /\ UNCHANGED <<room, list, mark>>

\* RPUSH puts the user at the end of the list; its error ends the call.
JoinPush(s) ==
    /\ callStep[s] = "push"
    /\ \/ /\ list' = Append(list, whom[s])
          /\ callStep' = [callStep EXCEPT ![s] = "remember"]
          /\ Calm /\ UNCHANGED whom
       \/ /\ EndCall(s) /\ Disturb({whom[s]}) /\ UNCHANGED list
    /\ UNCHANGED <<room, mark>>

\* SET of the key.  The queue stores the time; the wait list's entry cannot be
\* encoded.  Errors are ignored.
JoinRemember(s) ==
    /\ callStep[s] = "remember"
    /\ \/ /\ mark' = IF room = "queue" THEN [mark EXCEPT ![whom[s]] = "waiting"] ELSE mark
          /\ Calm
       \/ UNCHANGED mark /\ Disturb({whom[s]})
    /\ EndCall(s)
    /\ UNCHANGED <<room, list>>

\* ProcessNext and NotifyNext take the first user of the list ...
TakeNext(s) ==
    /\ callStep[s] = "idle"
    /\ list # << >>
    /\ TurnTo(s, Head(list), "taken")
    /\ list' = Tail(list)
    /\ UNCHANGED mark

\* ... and delete the key of the user, or say that the user was notified; an
\* error is ignored.
SettleNext(s) ==
    /\ callStep[s] = "taken"
    /\ \/ /\ mark' = [mark EXCEPT ![whom[s]] = IF room = "queue" THEN "none" ELSE "notified"]
          /\ Calm
       \/ UNCHANGED mark /\ Disturb({whom[s]})
    /\ EndCall(s)
    /\ UNCHANGED <<room, list>>

\* LREM with a count of 0: of the list there stay, in their order, the places
\* that are not u's.
LRem(u) ==
    \E n \in 0 .. Len(list) : \E place \in [1 .. n -> DOMAIN list] :
        /\ \A i, j \in 1 .. n : i < j => place[i] < place[j]
        /\ ToSet(place) = {i \in DOMAIN list : list[i] # u}
        /\ list' = [i \in 1 .. n |-> list[place[i]]]

\* A leave removes the user from the list, wherever and however often ...
LeaveList(s, u) ==
    /\ callStep[s] = "idle"
    /\ \/ LRem(u) /\ TurnTo(s, u, "forget")
       \/ /\ whom' = [whom EXCEPT ![s] = u]
          /\ callStep' = [callStep EXCEPT ![s] = "forget"]
          /\ Disturb({u}) /\ UNCHANGED <<room, list>>
    /\ UNCHANGED mark

\* ... and deletes the key; errors are ignored.
LeaveForget(s) ==
    /\ callStep[s] = "forget"
    /\ \/ mark' = [mark EXCEPT ![whom[s]] = "none"] /\ Calm
       \/ UNCHANGED mark /\ Disturb({whom[s]})
    /\ EndCall(s)
    /\ UNCHANGED <<room, list>>

\* ClearQueue deletes the list and no key.
ClearQueue ==
    /\ room = "queue" /\ list # << >>
    /\ list' = << >>
    /\ Disturb(ToSet(list))
    /\ UNCHANGED <<room, mark, callStep, whom>>

\* The key of a user reaches its expiry.
KeyExpires(u) ==
    /\ mark[u] # "none"
    /\ mark' = [mark EXCEPT ![u] = "none"]
    /\ Disturb({u})
    /\ UNCHANGED <<room, list, callStep, whom>>

RoomNext ==
    \/ \E s \in RoomCalls :
          \/ \E u \in RoomUsers : JoinTest(s, u) \/ JoinTestFails(s, u) \/ LeaveList(s, u)
          \/ JoinPush(s) \/ JoinRemember(s) \/ TakeNext(s) \/ SettleNext(s) \/ LeaveForget(s)
    \/ \E u \in RoomUsers : KeyExpires(u)
    \/ ClearQueue

RoomSpec == RoomInit /\ [][RoomNext]_roomVars

-----------------------------------------------------------------------------
Times(u) == Cardinality({i \in DOMAIN list : list[i] = u})

\* What GetPosition and GetWaitlistPosition answer; 0 for "not in the list".
GetPosition(u) ==
    IF mark[u] = "none" \/ ~ Contains(list, u) THEN 0
    ELSE CHOOSE i \in DOMAIN list : list[i] = u /\ \A j \in 1 .. i - 1 : list[j] # u

\* The key and the list of the queue are changed apart, yet they agree on every
\* user whose joins overlapped nothing and on whom no command failed, however the
\* operations on the others interleave and also when such a user is taken from the
\* list and leaves it at the same time, or leaves it twice at a time: the user is
\* never listed twice, and between operations is refused a second place, and told
\* a position, exactly when listed.
RoomInStep ==
    room = "queue" =>
        \A u \in RoomUsers \ disturbed :
            /\ Times(u) <= 1
            /\ ~ Busy(u) => /\ MayJoin(u) <=> Times(u) = 0
                           /\ GetPosition(u) > 0 <=> Times(u) = 1

=============================================================================
