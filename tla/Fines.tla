------------------------------- MODULE Fines -------------------------------
(***************************************************************************)
(* The late fine of a loan, lending/service.py _compute_fine.  Times are   *)
(* counted in ticks, TicksPerDay to a day (86400 in the code, which counts *)
(* seconds); a fine is FineCentsPerDay for every day that was started.     *)
(***************************************************************************)
EXTENDS Integers

CONSTANTS TicksPerDay,      \* length of a day in clock ticks
          FineCentsPerDay   \* settings.fine_cents_per_day

ASSUME FineAssumption == /\ TicksPerDay \in Nat \ {0}
                         /\ FineCentsPerDay \in Nat

\* Mutant: whole days plus one.
CeilDays_FloorPlusOne(ticks) == (ticks \div TicksPerDay) + 1

\* math.ceil of a positive number of ticks, in days.
CeilDays(ticks) == (ticks + TicksPerDay - 1) \div TicksPerDay

ComputeFine(due, returned) ==
  IF returned <= due THEN 0
                     ELSE CeilDays(returned - due) * FineCentsPerDay
=============================================================================
