------------------------------ MODULE Lifecycle ------------------------------
(***************************************************************************)
(* The statuses of an appointment and the table of legal moves between     *)
(* them (src/src/domain/scheduling/entities.py).  Pure data: no state.     *)
(***************************************************************************)

Status ==
  { "draft", "requested", "pending", "awaiting_confirmation", "confirmed",
    "arrived", "checked_in", "in_progress", "completed", "cancelled",
    "no_show", "rescheduled", "waitlisted" }

\* Statuses that hand the time back to the calendar.
Releasing == { "cancelled", "no_show", "rescheduled" }

\* Statuses nothing may follow.  "completed" is terminal and keeps its slot.
Terminal == { "completed", "cancelled", "no_show", "rescheduled" }

Occupies(status) == status \notin Releasing

\* The transition table: which statuses each status may become.
Transitions ==
  [ s \in Status |->
      CASE s = "draft" -> { "requested", "pending", "confirmed", "cancelled" }
        [] s = "requested" ->
             { "pending", "awaiting_confirmation", "confirmed", "cancelled",
               "waitlisted" }
        [] s = "pending" ->
             { "awaiting_confirmation", "confirmed", "cancelled", "waitlisted" }
        [] s = "awaiting_confirmation" ->
             { "confirmed", "cancelled", "no_show", "rescheduled", "waitlisted" }
        [] s = "confirmed" ->
             { "arrived", "checked_in", "in_progress", "completed",
               "cancelled", "no_show", "rescheduled" }
        [] s = "arrived" ->
             { "checked_in", "in_progress", "completed", "cancelled", "no_show" }
        [] s = "checked_in" ->
             { "in_progress", "completed", "cancelled", "no_show" }
        [] s = "in_progress" -> { "completed", "cancelled" }
        [] s = "waitlisted" -> { "requested", "pending", "confirmed", "cancelled" }
        [] s \in Terminal -> {} ]

\* transition_to: the move a request asks for is legal from this status.
CanTransition(from, to) == to \in Transitions[from]

==============================================================================
