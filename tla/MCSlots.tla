------------------------------- MODULE MCSlots -------------------------------
(***************************************************************************)
(* Small instances of Slots for TLC.  A day has six minutes and a week two *)
(* days; the clocks of the branch go forward by one during the first day.  *)
(***************************************************************************)
EXTENDS Slots, TLC

CONSTANTS branch, doctor, nurse, visitor

Zones ==
  [ o \in { branch, doctor, nurse, visitor } |->
      IF o = visitor THEN [ before |-> 4, after |-> 4, change |-> 0 ]
      ELSE [ before |-> 0, after |-> 1, change |-> 2 ] ]

Hours(o, day, a, b) ==
  [ owner |-> o, weekday |-> day, start_time |-> a, end_time |-> b, from |-> None, until |-> None ]

\* Two halves of a day that touch, one of them in force only until the middle of it; a
\* second day, from its midnight; hours of the doctor and of a visitor from another zone;
\* a rule of the nurse that begins within a day.
Rules ==
  { [ Hours(branch, 0, 0, 4) EXCEPT !.until = 3 ], Hours(branch, 0, 4, 5),
    [ Hours(branch, 1, 1, 5) EXCEPT !.from = 5 ],
    Hours(doctor, 0, 1, 5), Hours(visitor, 0, 2, 5),
    [ Hours(nurse, 1, 1, 4) EXCEPT !.from = 7 ] }

Blocks == { [ owner |-> branch, start |-> 3, end |-> 4 ],
            [ owner |-> doctor, start |-> 8, end |-> 9 ] }

Checkup ==
  [ duration |-> 1, before |-> 0, after |-> 0, notice |-> 1, horizon |-> 9,
    candidates |-> << << doctor, nurse >> >> ]

Surgery ==
  [ duration |-> 1, before |-> 2, after |-> 0, notice |-> 0, horizon |-> 12,
    candidates |-> << << doctor >> >> ]

Consult ==
  [ duration |-> 2, before |-> 0, after |-> 0, notice |-> 0, horizon |-> 12,
    candidates |-> << << nurse, doctor >>, << visitor, nurse >> >> ]

Services == { Checkup, Surgery, Consult }

Ask(service, a, b, step, limit, preferred) ==
  [ service |-> service, range |-> [ start |-> a, end |-> b ], step |-> step,
    limit |-> limit, preferred |-> preferred ]

Requests ==
  { Ask(Checkup, 0, 12, 1, 99, None), Ask(Checkup, 1, 12, 2, 99, nurse),
    Ask(Surgery, 0, 12, 1, 99, None), Ask(Consult, 0, 12, 1, 2, None) }

\* What the theorems about Slots assume of the clocks holds here.
ASSUME ClocksAssumption == PlainHours /\ SteadyDays

===============================================================================
