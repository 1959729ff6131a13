--------------------------- MODULE TradingCalendar ---------------------------
(***************************************************************************)
(* The official holidays that decide whether a research slot is due        *)
(* (research/calendars.py) and the daily refresh with its back-off         *)
(* (ResearchScheduler._safe_refresh and _should_refresh).                  *)
(*                                                                         *)
(* Time is counted in slots, DaySlots to a day of which the first is the   *)
(* time before 00:10, and YearDays days to a year: two days and a back-off *)
(* of one or two slots show every order of a daily refresh, retries and a  *)
(* new year.  What a page of an exchange says is a set of holidays for the *)
(* current year and one for the next: pages lose days that are over, are   *)
(* cut short, move a holiday, or cannot be read at all.                    *)
(***************************************************************************)
EXTENDS Naturals, Sequences, FiniteSets, FiniteSetsExt, Functions

CONSTANTS
  Markets,   \* MARKET_URLS
  Pages,     \* by market: the sets of holidays that its page may give for a year
  Minimum,   \* _MIN_HOLIDAYS_PER_YEAR
  DaySlots, YearDays,
  Backoff,   \* _REFRESH_BACKOFF_MINUTES, in slots
  MaxTime,   \* bound: the last slot
  MaxFaults  \* bound: pages that cannot be read, saves that fail, restarts

VARIABLES
  time,      \* the current slot
  holidays,  \* _holidays: by market and year, {} for a year not known
  disk,      \* the cache file
  errors,    \* _errors: the markets ("cache" for the file) with an error
  live,      \* _live: the last refresh was complete
  fellBack,  \* _fallback_used
  last,      \* _last_refresh_at: slot of the last complete refresh, 0 for none
  next,      \* _next_refresh_at: slot of the next attempt, 0 for none
  failures,  \* _refresh_failures
  faults,
  since,     \* history: the slot of the last start
  tried      \* history: the slot of the last attempt since then, 0 for none

book == <<holidays, disk, errors, live, fellBack>>
plan == <<last, next, failures>>
vars == <<time, book, plan, faults, since, tried>>

DayOf(t) == t \div DaySlots
YearOf(t) == DayOf(t) \div YearDays
Years == 0..(YearOf(MaxTime) + 1)
DailyAt(t) == DayOf(t) * DaySlots + 1     \* 00:10

Empty == [m \in Markets |-> [y \in Years |-> {}]]
Unreadable == [failed |-> TRUE]
Fetched == [m \in Markets |-> {Unreadable} \cup [current : Pages[m], coming : Pages[m]]]

Init ==
  /\ time = 1 /\ since = 1 /\ tried = 0 /\ faults = 0
  /\ holidays = Empty /\ disk = Empty
  /\ errors = {} /\ live = FALSE /\ fellBack = FALSE
  /\ last = 0 /\ next = 0 /\ failures = 0

-----------------------------------------------------------------------------
(* _reconcile_years.  The year in progress takes a first page that is long *)
(* enough, then only supersets: a page that has lost days leaves the cache *)
(* as it is, one that contradicts it is an error too.                      *)
Current(page, cached) ==
  IF page = {} THEN cached
  ELSE IF cached = {} THEN (IF Cardinality(page) < Minimum THEN cached ELSE page)
  ELSE IF cached \subseteq page THEN page
  ELSE cached

CurrentOk(page, cached) ==
  /\ page # {}
  /\ IF cached = {} THEN Cardinality(page) >= Minimum
     ELSE cached \subseteq page \/ page \subseteq cached

(* The coming year takes a page that is long enough and has every day that *)
(* is known already.                                                       *)
ComingOkShort(page, cached) == Cardinality(page) >= Minimum \* mutant: days may go
ComingOk(page, cached) == Cardinality(page) >= Minimum /\ cached \subseteq page
Coming(page, cached) == IF ComingOk(page, cached) THEN page ELSE cached

Reconciled(known, page, y) ==
  [known EXCEPT ![y] = Current(page.current, @), ![y + 1] = Coming(page.coming, @)]
Covered(known, page, y) ==
  CurrentOk(page.current, known[y]) /\ ComingOk(page.coming, known[y + 1])

(* refresh(): what every market has sent is reconciled by itself, the      *)
(* result is saved if any page could be read, and taken back if the save   *)
(* fails.                                                                  *)
Settle(pages, saveFails) ==
  LET y == YearOf(time')
      read == {m \in Markets : pages[m] # Unreadable}
      succeeded == {m \in read : Covered(holidays[m], pages[m], y)}
      merged == [m \in Markets |-> IF m \in read THEN Reconciled(holidays[m], pages[m], y)
                                   ELSE holidays[m]]
      saved == read # {} /\ ~saveFails
  IN /\ IF saved THEN holidays' = merged /\ disk' = merged
        ELSE UNCHANGED <<holidays, disk>>
     /\ errors' = (Markets \ succeeded) \cup (IF saveFails THEN {"cache"} ELSE {})
     /\ live' = (saved /\ succeeded = Markets)
     /\ fellBack' = (fellBack /\ ~live')

(* _safe_refresh: the plan for the next attempt.                           *)
Delay == Backoff[Min({failures + 1, Len(Backoff)})]

Plan ==
  IF live' THEN last' = time' /\ next' = 0 /\ failures' = 0
  ELSE /\ UNCHANGED last
       /\ failures' = Min({failures + 1, Len(Backoff)})
       /\ next' = IF time' < DailyAt(time') THEN DailyAt(time') ELSE time' + Delay

Refresh ==
  /\ tried' = time'
  /\ \E pages \in [Markets -> UNION Range(Fetched)], saveFails \in BOOLEAN :
       LET unread == {m \in Markets : pages[m] = Unreadable}
       IN /\ \A m \in Markets : pages[m] \in Fetched[m]
          /\ saveFails => unread # Markets
          /\ faults' = faults + Cardinality(unread) + (IF saveFails THEN 1 ELSE 0)
          /\ faults' <= MaxFaults
          /\ Settle(pages, saveFails)
  /\ Plan

(* _should_refresh                                                         *)
RefreshedEarly(t) == last # 0 /\ DayOf(last) = DayOf(t) \* mutant: before 00:10 counts
RefreshedToday(t) == last # 0 /\ DayOf(last) = DayOf(t) /\ last >= DailyAt(t)
ShouldRefresh(t) == t >= DailyAt(t) /\ ~RefreshedToday(t) /\ (next = 0 \/ t >= next)

(* is_trading_day for a weekday, asked for the slots of the day: a year    *)
(* that is not known is trusted to trade, and that is remembered.          *)
Unknown(m, y) == holidays[m][y] = {}

-----------------------------------------------------------------------------
(* run_forever: every minute, the refresh if it is due, and then the tick. *)
Minute ==
  /\ time < MaxTime /\ time' = time + 1
  /\ IF ShouldRefresh(time')
     THEN Refresh
     ELSE UNCHANGED <<book, plan, faults, tried>>
  /\ UNCHANGED since

Tick ==
  /\ \E m \in Markets : Unknown(m, YearOf(time)) /\ fellBack' = TRUE
  /\ UNCHANGED <<time, holidays, disk, errors, live, plan, faults, since, tried>>

(* The process starts again: the cache is read, and refreshed at once.     *)
Restart ==
  /\ faults < MaxFaults /\ time' = time
  /\ holidays' = disk /\ errors' = {} /\ live' = FALSE /\ fellBack' = FALSE
  /\ last' = 0 /\ next' = 0 /\ failures' = 0
  /\ faults' = faults + 1 /\ since' = time /\ tried' = 0
  /\ UNCHANGED disk

FirstRefresh ==
  /\ tried = 0 /\ time' = time
  /\ Refresh
  /\ UNCHANGED since

Next ==
  \/ tried # 0 /\ Minute
  \/ tried # 0 /\ Tick
  \/ Restart
  \/ FirstRefresh

Spec == Init /\ [][Next]_vars

-----------------------------------------------------------------------------
(* Properties.                                                             *)

(* A holiday that is known for the year in progress or the coming one      *)
(* stays known, whatever pages, failing sources, failing saves and         *)
(* restarts follow (what _reconcile_years and the roll-back are for).      *)
HolidaysKept ==
  [][\A m \in Markets, y \in {YearOf(time), YearOf(time) + 1} \cap Years :
       holidays[m][y] \subseteq holidays'[m][y]]_vars

(* No day goes by without an attempt at or after 00:10, whatever back-off  *)
(* the day before has left.                                                *)
TriedDaily ==
  /\ tried # 0
  /\ since < DailyAt(time)
  /\ time >= DailyAt(time) + Max({Backoff[i] : i \in DOMAIN Backoff}) - 1
  => tried >= DailyAt(time)

(* While the calendar reports "ok", every market has a full set of         *)
(* holidays for the year in progress: also across a new year that no       *)
(* refresh has seen yet.                                                   *)
StateOk == live /\ ~fellBack /\ errors = {}
OkMeansCovered ==
  StateOk => \A m \in Markets : Cardinality(holidays[m][YearOf(time)]) >= Minimum

(* What the scheduler relies on every day.                                 *)
CalendarHolds == OkMeansCovered /\ TriedDaily
=============================================================================
