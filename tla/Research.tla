------------------------------ MODULE Research ------------------------------
(***************************************************************************)
(* The research agent's scheduled work, for any constants: its rounds      *)
(* (ResearchRound) and the daily refresh of the trading calendar that      *)
(* decides whether a slot is due (TradingCalendar).  A round sees of the   *)
(* calendar only that the day trades, which ResearchRound leaves open:     *)
(* they stand side by side here.                                           *)
(***************************************************************************)
EXTENDS ResearchRound

CONSTANTS
  Markets, Pages, Minimum, DaySlots, YearDays, Backoff,  \* of TradingCalendar
  MaxTime, MaxPageFaults

(* A page gives finitely many holidays, a day has slots after the first,   *)
(* and there is a delay for every failure (the last one for those beyond). *)
ASSUME CalendarAssumption ==
  /\ \A m \in Markets : \A p \in Pages[m] : IsFiniteSet(p)
  /\ Minimum \in Nat /\ DaySlots \in Nat \ {0, 1} /\ YearDays \in Nat \ {0}
  /\ Backoff \in Seq(Nat \ {0}) /\ Backoff # <<>>
  /\ MaxTime \in Nat \ {0}

VARIABLES
  time, holidays, disk, errors, live, fellBack, last, next, failures, pageFaults, since, tried
calendarVars ==
  <<time, holidays, disk, errors, live, fellBack, last, next, failures, pageFaults, since, tried>>

Calendar == INSTANCE TradingCalendar WITH MaxFaults <- MaxPageFaults, faults <- pageFaults

(* A holiday that is known for the year in progress or the coming one      *)
(* stays known, whatever pages, faults and restarts follow.                *)
HolidaysKept == Calendar!HolidaysKept

(* While it reports "ok" the calendar has a full set of holidays, and no   *)
(* day goes by without an attempt to refresh at or after 00:10.            *)
CalendarHolds == Calendar!CalendarHolds
=============================================================================
