---------------------------- MODULE EventStatus ----------------------------
(***************************************************************************)
(* The table of transitions of events and shows                            *)
(* (internal/pkg/constants/event_status.go).                               *)
(***************************************************************************)

eventAllowedTransitions ==
    [ draft    |-> {"on_sale"},
      on_sale  |-> {"off_sale", "ended"},
      off_sale |-> {"on_sale", "ended"},
      ended    |-> {} ]

IsValidEventTransition(from, to) == to \in eventAllowedTransitions[from]

=============================================================================
