------------------------------- MODULE Shows -------------------------------
(***************************************************************************)
(* One show of an event (internal/service/show_service.go): a call reads   *)
(* the row, tests its status and writes later.  A show is never ended, and *)
(* its publication writes nothing to Redis, so its tickets are sold out    *)
(* for every purchase; DeductStock and RollbackStock are not called.       *)
(***************************************************************************)
EXTENDS EventStatus

CONSTANT ShowCalls      \* the sessions

VARIABLES
    showStatus,     \* the status of the row, "none" before it is created
    removed,        \* the row is marked as deleted
    showCall,       \* the operation a session has read the row for
    published,      \* the show has been on sale
    showStale       \* a write relied on a test that no longer held

showVars == <<showStatus, removed, showCall, published, showStale>>

ShowStatuses == {"draft", "on_sale", "off_sale", "ended"}

ShowTypeOK ==
    /\ showStatus \in ShowStatuses \cup {"none"}
    /\ removed \in BOOLEAN
    /\ showCall \in [ShowCalls -> {"idle", "edit", "delete", "publish", "unpublish"}]
    /\ published \in BOOLEAN
    /\ showStale \in BOOLEAN

ShowInit ==
    /\ showStatus = "none"
    /\ removed = FALSE
    /\ showCall = [s \in ShowCalls |-> "idle"]
    /\ published = FALSE
    /\ showStale = FALSE

\* The event is there, and the show begins as a draft.
CreateShow ==
    /\ showStatus = "none"
    /\ showStatus' = "draft"
    /\ UNCHANGED <<removed, showCall, published, showStale>>

Found == showStatus # "none" /\ ~ removed

\* Mutant: shows are edited and deleted whatever their status.
MayChangeAlways == Found

\* UpdateShow and DeleteShow: a draft only.
MayChange == Found /\ showStatus = "draft"

\* PublishShow and UnpublishShow: what the table allows.
MayMove(to) == Found /\ IsValidEventTransition(showStatus, to)

BeginShow(s, op) ==
    /\ showCall[s] = "idle"
    /\ showCall' = [showCall EXCEPT ![s] = op]
    /\ UNCHANGED <<showStatus, removed, published, showStale>>

BeginChange(s) == MayChange /\ \E op \in {"edit", "delete"} : BeginShow(s, op)
BeginPublish(s) == MayMove("on_sale") /\ BeginShow(s, "publish")
BeginUnpublish(s) == MayMove("off_sale") /\ BeginShow(s, "unpublish")

EndShow(s, condition) ==
    /\ showCall' = [showCall EXCEPT ![s] = "idle"]
    /\ showStale' = (showStale \/ ~ condition)

\* UpdateShow saves the whole row it has read, a draft; a row that has been
\* deleted by now is inserted again.
SaveShow(s) ==
    /\ showCall[s] = "edit"
    /\ EndShow(s, MayChange)
    /\ showStatus' = "draft"
    /\ removed' = FALSE
    /\ UNCHANGED published

DeleteShow(s) ==
    /\ showCall[s] = "delete"
    /\ EndShow(s, MayChange)
    /\ removed' = TRUE
    /\ UNCHANGED <<showStatus, published>>

\* UpdateStatus leaves a deleted row alone.
UpdateShowStatus(s, to) ==
    /\ EndShow(s, MayMove(to))
    /\ showStatus' = IF removed THEN showStatus ELSE to
    /\ published' = (published \/ (to = "on_sale" /\ ~ removed))
    /\ UNCHANGED removed

PublishShow(s) == showCall[s] = "publish" /\ UpdateShowStatus(s, "on_sale")
UnpublishShow(s) == showCall[s] = "unpublish" /\ UpdateShowStatus(s, "off_sale")

\* The write fails, or the process stops.
FailShow(s) ==
    /\ showCall[s] # "idle"
    /\ showCall' = [showCall EXCEPT ![s] = "idle"]
    /\ UNCHANGED <<showStatus, removed, published, showStale>>

ShowNext ==
    \/ CreateShow
    \/ \E s \in ShowCalls :
          \/ BeginChange(s) \/ BeginPublish(s) \/ BeginUnpublish(s)
          \/ SaveShow(s) \/ DeleteShow(s) \/ PublishShow(s) \/ UnpublishShow(s)
          \/ FailShow(s)

ShowSpec == ShowInit /\ [][ShowNext]_showVars

-----------------------------------------------------------------------------
\* A show that has been on sale is neither a draft again nor deleted, unless a
\* write relied on a test that no longer held: an edit of the draft read before
\* the publication, or of the row read before the deletion.
PublishedShowStays ==
    ~ showStale /\ published => ~ removed /\ showStatus \in {"on_sale", "off_sale"}

=============================================================================
