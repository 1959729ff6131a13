# llm_transaction in TLA+

llm_transaction is an autonomous futures trading agent. A language model decides
in rounds; its tools place, amend and close orders through a gateway, which is a
simulated exchange (`paper` mode) or Gate.io (`testnet`, `live`). Two more agents
work on the side: the research agent writes reports with causal links, and the
review agent judges past reports and revises the texts the others work with. An
HTTP server lets an operator start and stop the agent, close positions, edit
texts and configuration, reset the simulated account and set the risk lock
(`kill_switch`). Everything runs in one asyncio event loop, plus one executor
thread for the network gateway.

Paths below are relative to `src/src`, the Python package of the repository.

## 1. Inventory

| Component | State it keeps | Operations | Talks to |
|---|---|---|---|
| Wake-up scheduler (`scheduler/wakeup.py`) | `_running`, `_in_round`, event, pending wake-up, loop and timer tasks | `start`, `stop`, `wake_now`, `set_next_wake`, timer, round begin and end | decision loop (callback), alerts and HTTP routes (callers) |
| Decision loop (`agent/loop.py`, `context.py`, `audit/`) | the provider, the count of failures, `_risk_locked`; audit and decision rows | one round: context, turns, tool calls, audit, lock, drain | scheduler, tools, storage |
| Opening orders (`agent/tool_order_entry.py`, `tool_leverage.py`, `tool_amend.py`, `tool_order_reduction.py`) | contract locks, `close_epochs`, `reset_epoch` | risk checks, leverage change, confirmation, placement, rollback, amendment | gateway, risk engine, risk lock |
| Protection (`agent/tool_tpsl.py`, `tool_tpsl_risk.py`) | trigger orders at the exchange | assess, create the new group, remember, cancel the old one, roll back | gateway, risk rule |
| Manual close and fill recording (`agent/manual_close.py`, `fill_persist.py`) | the lock, `_pending` | drain, retry, close | paper account, trades table |
| Matching engine (`paper/engine.py`) | book, listing, protection, snapshots | place, amend, cancel, `on_price`, reset | paper account, ticker fan-out |
| Paper account (`paper/account.py`, `liquidation.py`, `funding*.py`) | balance, positions, fills, watermarks | fill, leverage, liquidation, funding, reset | engine, funding patrol |
| Serial executor (`gateway/async_io.py`) | priority queue, draining task, futures | `run_gateway_io` | every caller of the network gateway |
| Fill synchronisation (`agent/fill_sync.py`, `memory/fills_repo.py`, `market/private_feed.py`) | triggered orders, used records, tasks | pushes, catch-up, safety net, profit backfill | private WebSocket, REST, trades table |
| Market data (`market/feed.py`, `candles.py`, `triggers.py`) | connection, bars, alerts | pushes, backfill, watchdog, `check` | decision context, alerts |
| Research agent (`research/agent.py`, `scheduler.py`, `calendars.py`) | reservation, slots, remaining links; report, links, audit rows; holidays | daily slots, manual rounds, completion after a failure or a cancellation, refresh of the calendar | providers, storage |
| Review agent (`review/agent.py`, `scheduler.py`, `drafts.py`) | drafts, base versions, report | rounds, one transaction for the report, then the drafts | version stores, storage |
| Version stores (`review/strategy.py`, `review/indicator_config.py`, `research/prompt_store.py`) | a file and a table of versions each | save, draft, apply, roll back, hot edit, reconcile | operator, review agent |
| Review of conclusions (`review/tool_research*.py`, `memory/research_review_repo.py`, `review/bundle.py`) | cursor, lease, scan log, authorisations | list, read, submit, save | review agent, operator |
| Configuration (`config.py`, `config_io.py`, `server/routes_config.py`, `routes_credentials.py`) | `config.yaml`, `.env`, the shared `Settings`, providers | forms, credentials, keys, hot reload | all |
| Database (`memory/db.py`, `migrate_v3.py`) | SQLite, one connection | opening, migration | all |
| Network gateway, risk engine, assembly, providers | none of their own that matters here | conversion, rules over one request, construction | |
| Notification, front end | none | external calls, rendering | |

What is hard in this system:

* **Interleaving at every `await`.** What a tool has read may be stale when it
  writes; locks, epochs and fingerprints guard it, and they do not all guard the
  same things. The operator's close, reset, edits and forms come from other tasks.
* **Requests with an unknown outcome.** A network call may raise although it was
  or will be executed: opening an order, changing the leverage, replacing a stop,
  and their cancellation must fail closed.
* **Cancellation.** A shutdown cancels research and review rounds wherever they
  are suspended; whether the statement under way was committed has to be found
  out from the database.
* **Two channels for one fact.** Fills reach the trades table by push and by
  catch-up, and the meaning of a fill by a third channel, in any order; bars come
  by push and by REST.
* **Bookkeeping in two places.** Positions, protection, book and listing;
  balance, margin and realized amounts; buffer, retry queue and table; file and
  table of versions; configuration in memory and on disk.
* **Crashes** between the statements of a migration, of a report and its links,
  of a file and its row.
* **Liveness.** Wake-ups during a round, a stop during a round, a withdrawn job,
  stale bars, conclusions that are never looked at.

What makes each part correct is stated as the properties of section 4; the list of
hazards, each at its line, is in `PROJECT.json`.

## 2. Modules

| Module | Models | Abstraction |
|---|---|---|
| `Wakeup` | the whole of `scheduler/wakeup.py` | one action per stretch between suspensions; an interval is "llm" or "default" |
| `DecisionLoop` | a round of `agent/loop.py`, its trail, the risk lock, alerts | answers and tool calls are counted, not told apart; any write may raise |
| `Agent` | scheduler and loop together (`bootstrap.build_app`) | conjunction of their actions |
| `TradeWrite` | the opening of exposure on one contract, amendments, and what may come between | one action per gateway job; exposure is counted in contracts |
| `Protection` | `update_tpsl` on a network gateway | one contract, prices on a grid, one action per call |
| `GatewayIO` | `gateway/async_io.py` with asyncio's ready queue and the executor thread | jobs are pairs (caller, number); results are not told apart |
| `PaperEngine` | `paper/engine.py`: orders, listing, protection, positions | no money; `on_price` is a sequence of steps nothing interrupts |
| `PaperAccount` | `paper/account.py`, liquidation, funding, `set_leverage` | integer amounts, division rounded down; any size at any price |
| `FillPersist` | `agent/fill_persist.py`, `agent/manual_close.py`, the fill buffer | fills are numbers; buffers are sets |
| `FillSync` | `agent/fill_sync.py`, `memory/fills_repo.py`, dispatch of the private feed | one contract; a trade is an order and a second |
| `MarketFeed` | the websocket supervisor, the cache of bars, the watchdog | a bar is its time and whether it is closed; one interval |
| `VersionRegister` | what the version stores promise together | abstract: a compare-and-set register |
| `VersionStore` | the three version stores over file and table | a text is a member of a small set and its own md5 |
| `ReviewRound` | `review/agent.py`, `scheduler.py`, `drafts.py` over the stores | what the model says is which drafts it submits |
| `CaseReview` | how conclusions are found, reviewed and authorised | a conclusion is its place in the order of dues |
| `ResearchRound` | `research/agent.py` under `research/scheduler.py` | a report is valid or not; a link is what it replaces |
| `TradingCalendar` | `research/calendars.py` and the daily refresh | days are numbered, a page is two sets of holidays |
| `RuntimeConfig` | configuration, keys, providers, hot reload | five fields stand for the kinds of fields there are |
| `Migration` | opening and migrating a database | tables and columns by name, two links as rows |
| `Positions` | `PaperAccount`, `TradeWrite` and `Protection` side by side | no state in common; the constants of each are free |
| `SimulatedExchange` | `FillPersist` and `PaperEngine` side by side | as above |
| `Served` | `GatewayIO` and `MarketFeed` side by side | as above |
| `Documents` | `ReviewRound`, `RuntimeConfig` and `Migration` side by side | as above |
| `Research` | `ResearchRound` and `TradingCalendar` side by side | as above |
| `*_proofs` | theorems about `Agent`, `CaseReview`, `FillSync`, and the five modules above | |
| `MC*` | instances for TLC | |

How state and actions correspond to the code is written beside the variables of
each module, and in the `map` of `PROJECT.json`, definition by definition. Some
points a reader should know:

* **Wakeup.** A `_run` task and a `_timer_loop` task are elements of small pools.
  `OverlappingStart` says whether `start()` may be called while a `stop()` has not
  returned; the routes do not prevent it.
* **DecisionLoop and Agent.** Each action is the code from one await to the next.
  A round that the scheduler begins is the call of `run_once`; it ends when that
  returns or raises, which is not assumed but follows from the bounds on turns and
  attempts. `broken` remembers that a write to the database raised in the round:
  what the code promises it promises for the other rounds. `kill` is
  `settings.risk.kill_switch`, which every check reads, and `latched` is
  `_risk_locked`: the agent sets both in `_engage_lock`, which does nothing once it
  is latched; the operator moves `kill` only.
* **TradeWrite.** With `Remote` (network gateway) the jobs of all tasks interleave,
  a request may raise although it was executed or will be, and reads may fail.
  Without it the gateway runs inline, and a task is interleaved only where it
  awaits something else. Calls of one round follow one another; two rounds that
  overlap (run `wakeup_overlap`), and the operator's routes, make them race. The
  module has one contract, but the risk lock is one for all: at any time the agent
  may engage it for something else, another contract, a failing round or an abandoned
  write (`LockedElsewhere`), and the operator may move it. A `set_leverage` that has
  raised may be committed at any later time (`late`, `LateCommit`), also after the
  three readings that declare it not applied (`adrift`).
* **Protection.** Between any two calls the exchange goes on: orders fill, stops
  fire, positions close and open. What a trigger order does is modelled as the code
  expects it: it closes the whole position, and none outlives its position.
* **PaperEngine and PaperAccount** split `place_order`: the engine decides what is
  filled, the account what it costs. In the engine "insufficient balance" and
  "liquidable" are choices, allowed whenever a balance exists for which they hold.
* **FillSync.** A statement takes effect when it is handed to the database: there
  is one connection, which serves in turn. A query for profit records returns some
  subset of the records of closing trades; a failure is the empty one. A push of a
  triggered order comes once; a push may be lost (gate_ws reconnects silently).
  INSERT and its commit are one step. Any statement may raise, with or without effect;
  nothing catches that, so it ends the task, and when the task is the safety net it
  stays dead until the program is started again. A restart empties what is in memory
  (the triggered orders, the records that were used, the tasks) and keeps the rows.
* **GatewayIO** keeps the order of asyncio's callbacks, because the code depends on
  it (`sleep(0)` at line 144 lets an answered caller queue its next urgent call).
* **VersionStore.** Applying writes the file and then marks the row; a failure, a
  cancellation or a crash may come between, and `reconcile` at the next start lets
  the table decide. The three classes differ in who may save directly, in what may
  be rolled back to and in which drafts need a base: the model has these
  differences as conditions on the channel.
* **ReviewRound, ResearchRound.** A cancellation leaves the statement under way
  done or not done (`landed`); in `ResearchRound` also half done, because the two
  statements that save a link are committed together by whoever commits next on
  the shared connection; and another task may roll the first of the two back before
  the second is made. `told` is the closing event that the browser gets.
* **CaseReview.** The tool that reads a conclusion serves any of them, offered or not;
  what may be reviewed is decided when the review is submitted.
* **RuntimeConfig.** A route handler has no await between reading and writing, so
  each is one action; what interleaves are forms, which are loaded by a GET and
  saved as a whole later.
* **Migration.** What matters is what SQLite commits when: a DDL statement outside
  a transaction is durable at once, a DML statement opens a transaction that takes
  all that follows with it, a SAVEPOINT makes one of its own.
* **MarketFeed.** Time is counted in bars. A watchdog pass is a list of keys; the
  REST call reads at one moment and its result is put in place at a later one. An
  entry of a message that cannot be parsed is skipped, and its close with it.

The modules meet in what each leaves open to its environment: the scheduler's
rounds call the tools; `TradeWrite` takes from `GatewayIO` that jobs are serial and
that abandoned writes are reported (`OrphanWrite` of `DecisionLoop` is the other end
of that report); `FillPersist` receives fills as `PaperEngine` and `PaperAccount`
make them; `FillSync` takes the place of `FillPersist` with a real exchange; a
research round sees of `TradingCalendar` that the day trades, or not.

## 3. Runs and bounds

A run may hold several components that share no state: a variable `part`, chosen at
the start, says which one a behaviour is of, and the others stay as they are. This
explores exactly the behaviours of each, one after the other, and keeps together
what is about one subject.

| Run | Question | Instance |
|---|---|---|
| `agent` | do rounds, wake-ups, stops, the trail and the lock behave, when start and stop are serialized? | 2 loop tasks, 1 timer, 2 stops at a time, 2 turns of 1 call, 2 attempts, 2 failures to the lock, 1 alert |
| `simulated` | is every fill recorded; do book, listing, protection and position agree? | recording: 2 fills, 1 drain, 1 manual close, resets, ambiguous commits; engine: 2 contracts, 3 orders, 3 quotes, 2 prices, sizes -2 and 1 |
| `positions` | books of the account; replacement of a stop; opening orders | account: 2 contracts, 3 fills, 2 prices, sizes -2 to 1, 2 leverages, fee 10 %, 1 reset; stop: size 2, 2 levels, 4 trigger orders, 2 faults for a long position, 3 and 1 for both directions; orders: 2 openings and 1 amendment, limit 2, with 1 manual close; 2 openings with a leverage that others change and an operator who sets and releases the lock; or (simulated gateway) with 1 reset and an operator who sets the lock; the agent's lock from elsewhere in all three |
| `sync` | attribution and profit | 1 own closing order, stop and target, 2 trades, 2 seconds, 1 restart, sets of size 1, any number of database errors |
| `served` | is everyone served in the end? | executor: a close in two urgent steps, an order, a timed read; bars: 2 keys, one of them always rejected, 3 new bars, 4 kept, 1 fault; safety net: 3 trades, 2 seconds, page of 2, 1 restart, any number of database errors |
| `documents` | are texts, configuration and database whole? | 1 round, 2 stores, 2 texts, 3 versions, 1 edit, 1 fault; 2 credentials, 1 form, 4 changes, 1 fault; every earlier schema, 2 links |
| `research` | rounds, links and calendar | 1 slot, 2 rounds, 3 links, 1 fault; 2 exchanges, 9 slots of time (3 days, a new year), back-off 1 and 2, 2 faults |
| `cases` | is every conclusion looked at, and once? | 3 conclusions without a dispute, and 2 of which one is disputed, with 2 authorisations; 2 listings a round, budget 2, 1 change of market data, 1 fault |
| `wakeup_overlap` | are rounds single when a start overlaps a stop? (violated) | 2 loop tasks, 3 timers, 1 stop |
| `trade_latch` | can the lock be engaged after it was released? (violated) | 2 openings |
| `sync_first` | is an own order known when its fill is handled? (violated) | 1 order, 1 trade |
| `stale` | is the lock released by its own route only? (violated) | 1 form, 2 changes |

Why the bounds are enough for what is asked: the races are between two actors and
a third that interferes, so two openings with an amendment and a close, a push, a
catch-up and a trigger, or a round, an operator and a fault show them; a loop pool
of two lets rounds overlap. Positions need two sizes of opposite sign to be reduced,
closed and reversed; two contracts show what leaks from one to another; two prices
on each side of an entry make profit, loss and liquidation. A page of two with three
trades makes the page matter, a watermark needs a second more than the overlap, a
scan budget of two with three conclusions makes the cursor matter. One slot is
enough for a second claim of it, because a restart ticks again in the same minute.
Two keys, one rejected, are what an isolation of keys is about, and a bar that is
stale needs Multiplier + 1 new ones. Three versions are a current one, a draft and
one that overtakes it. Rates are coarse (fee 10 %, maintenance 5 %) so that small
integers round both ways. The proofs of section 5 free every safety property from its bounds.

`CHECK_DEADLOCK FALSE` stands only where the bounded behaviour may end: calls
answered, changes and faults used up, the database open, or a pool used up.
`agent` and `simulated` are checked for deadlock.

Every property of a passing run has a mutant in `PROJECT.json`: a definition
changed as a plausible bug would change it, for which TLC finds the property
violated. The mutant operators stand beside the definitions they replace.

## 4. Properties and fairness

* `Agent`: `AtMostOneRound`; `WakeUpsKept` (no accepted wake-up is dropped, and
  between rounds a timer or an event is there); `StopCompletes`, `WakeServed`;
  `TrailWhole` (a round without a database fault ends with a decision, every answer
  and every tool call on record; one with a fault never claims to have ended well
  without them); `FailuresLock` (after repeated failure `kill_switch` is on, until the
  operator has released a lock that the agent had engaged).
* `FillPersist`: `NoFillLost`, `RecordedOnce`, `UserCloseUnlessRetried`,
  `OwnFailureWarned`.
* `PaperEngine`: `BookHolds` (protection belongs to the position that is there, no
  position goes without a stop, what is listed is what may be filled);
  `ScansSettle` (no finished order is filled again, a tick leaves nothing crossed).
* `PaperAccount`: `StepBalances`, `RejectedIsWhole`, `LossesEnd` (a loss is at most
  the margin, a tick leaves no liquidable position, the price shown is the edge).
* `TradeWrite`: `ExposureBounded`; `NoStaleWrite` (no task that was overtaken by a
  manual close or a reset writes); `LeverageHolds` (an order is placed at the
  leverage it was sized for, and a call leaves the old leverage, a position that
  explains the new one, or the lock); `NoEntryUnderLock` (on a network gateway for a
  lock that a transaction of the contract has engaged, until it is released; on the
  simulated one for every lock).
* `Protection`: `NeverBare`, `ToldTrue`, `WidenedWithinLimit`.
* `GatewayIO`: `AbandonedIsKnown`; `CallsServed` (an urgent call is next, and every
  call is answered).
* `FillSync`: `AttributionKept`; `PnlBookedOnce` (one backfill for a row over all
  restarts, and no record used twice by one process); `RecordedUnlessOvertaken` (while
  the safety net lives).
* `MarketFeed`: `TornOnlyByLoss` (bars have no hole unless a close was lost,
  not readable, or handled while REST was read); `StaleHealed`.
* `ReviewRound`: `NoLostUpdate`, a refinement (below); `RoundsSettled` (nothing of a
  round takes effect without its report, success and failure are never both on
  record, and "applied" in the closing event is so).
* `ResearchRound`: `RoundsSettled` (a slot is fired once, one verdict, every link of
  a successful round saved, once unless it was cancelled); `ChainsHold`
  (revisions do not fork, and what counts as replaced has its successor).
* `TradingCalendar`: `HolidaysKept`, `CalendarHolds`.
* `CaseReview`: `AuthorisedOnce`, `NoneStarved`.
* `RuntimeConfig`: `ConfigHolds` (what the credential routes have set is kept; what
  is saved is in effect or reported as needing a restart).
* `Migration`: `LinksWhole`, `OpensCurrent`.

Where a property excepts something (`broken`, `reopened`, `adrift`, `foreign`,
`lapsed`, a dead safety net, `faults = 0`, `blind`, `cut`, `lost`, `orphans`, `torn`,
`Overtaken`), the code really does the excepted thing; section 6 says which of these
a reader may not expect.

**Refinement.** `VersionRegister` says what the stores promise together: each
channel has a current version; the agent proposes on the version it has read, the
operator overrides at any time, and a proposal is accepted only if the version it is
on is still the current one (or there was none). `NoLostUpdate` is
`Register!Spec` with the current version and the agent's rows of the tables in
place of the register's variables: `ReviewRound`, with its files, locks, failures,
cancellations, crashes and the reconciliation at the next start, implements it, and
every other step is a stutter.

**Fairness** is weak, per task: asyncio runs a task that can go on, and the executor
thread runs its job. Beyond that:

* `Agent`: a timer that is not cancelled expires; a model's call ends, with an
  answer or an error (it has a timeout). That a round ends is a consequence.
* `FillSync` (in `served`): the task that catches up, which `run_safety_net` calls
  every five minutes while it lives, and strong fairness of a fetch that succeeds: it
  may fail again and again, not always. Nothing is assumed of pushes, nor of the
  database: an error may end the safety net at any time.
* `MarketFeed`: the watchdog wakes, and its REST calls end; REST may fail a bounded
  number of times for one key and always for another. Nothing is assumed of the
  connection.
* `CaseReview`: rounds come again (the daily schedule) and are saved, unless they
  fail; a round that could list does so again and again, and strong fairness of a
  model that reads and reviews some of what it is shown: without it the code
  promises nothing.

The other runs have no liveness properties and assume nothing.

## 5. What is proved

TLAPS proves for every value of the constants, under the named assumptions of each
module:

* **`Positions_proofs`, the account.** The invariant is `TypeOK` with `FlatIsEmpty`
  (no position: no margin, entry price 0). It is needed because a full close releases
  *all* the margin: with margin left on an empty position the books would not
  balance. The arithmetic (shares of a margin, rounding) is isolated in lemmas on
  naturals. `FillCases` shows that every fill is one of two effects with named
  amounts; `BooksBalance`, `AllOrNothing`, `NoCredit` and `LossIsLimited` follow
  from those. `LossesHaveAnEnd` adds the liquidation: `EdgeIsThere` compares two
  products of size and price, once the four products in it have names, and needs no
  more than a maintenance rate below 100 %.
* **`Positions_proofs`, the write transaction.** `ExposureKept`,
  `StaleNeverSent`, `LeverageKept` and `LockStops`. What a transaction has read is
  older than what it writes, but to the safe side: only it opens exposure under
  the contract's lock, so its readings cover the position there is (`HalfCovers`,
  `SeenCovers`); a close or a reset that overtakes it shows in the generations
  (`InterruptionShows`); while a change of leverage is still to come, its task is on
  the way to its verdict, or the risk lock was engaged for it, or it was declared not
  applied all the same (`LateIsKnown`), so that but for the last case and a release of
  the lock the leverage an order was sized for is the one it is placed at (`Sized`).
  Nothing is assumed of the operator, nor of what other contracts do to the lock: who
  has passed its last check holds the lock of the contract, and so does a transaction
  that engages the risk lock, which is why `LockStops` holds for those locks; where the
  jobs run inline nothing comes between the check and the order at all.
* **`Positions_proofs`, the replacement of a stop.** `NoNakedWindow`,
  `AnswersAreTrue` and `LossStaysLimited`. Until the new group stands as a whole, one of
  the stops that were there when the call began still stands, or one that came from
  elsewhere (`StopStands`, `GroupStands`).
* **`SimulatedExchange_proofs`, the recording of fills.** `IInv` adds to the
  properties who may hold the lock (`LockInv`), that the fills in hands, buffer and
  retry queue are disjoint (`HandInv`), that only made fills move (`MadeInv`), and
  what a manual close holds (`CloseInv`, `WarnInv`): without disjointness a fill
  could be dropped while its copy is written. There is one lemma per property and
  step.
* **`SimulatedExchange_proofs`, the engine.** `BooksFit` and `TicksSettle`. A tick
  scans a copy of the book, and what it fills may take other orders of the copy away:
  a due order is still ahead in the copy or no longer in the book (`Ahead`), so that
  at the end nothing due is left (`Matched`, `Stopped`). A position has its stop
  because an order that may open exposure rests together with its own, and a
  reduce-only one does not rest without a position (`Justified`).
* **`Served_proofs`.** `WritesAccounted`: a write whose caller has given up is an
  orphan exactly when the exchange is or has been asked. `IInv` says that a job is
  in the queue at most once and only while its probe is pending (`Queued`), that
  future jobs are untouched (`Fresh`), and what a caller that gave up has left
  behind (`GivenUp`). `BarsStayWhole`: the messages under way follow each other
  without a gap (`InOrder`), the next one continues the last bar that has closed or
  is not newer than the one that forms (`Continues`), and what REST has read keeps
  this as long as no close is handled or lost meanwhile (`ReadWhole`). It is assumed
  that the cache keeps at least one bar.
* **`FillSync_proofs`.** `AttributionHolds` and `BookedOnceHolds`. The invariant says
  in whose hands a row is: the task that inserted it with a source that closes owes
  it a backfill (`OwedOnce`), or the `_reattribute` of its order has yet to update it
  or has just done so (`FixedOnce`), one of them at most; a row without a source was
  never scheduled (`Unscheduled`), and the record of a booked row is consumed
  or was used by an earlier process (`Books`). Without it nothing would exclude that
  both schedule the same row. It is assumed that numbers of trades, names of orders and
  `None` differ.
* **`Agent_proofs`.** `RoundsDoNotOverlap`, `NoWakeUpIsLost`, `TrailsAreWhole`,
  `FailuresEngageTheLock` and `AgentImplementsLoop` are about the composition, and
  neither half could prove its own: `run_once` has no guard against a second call,
  so that the trail is whole needs the scheduler to call it once at a time, and that
  rounds do not overlap needs the scheduler to wait until it has returned. `AInv`
  therefore has an invariant of the scheduler (no loop task is alive but
  the one `_loop_task` refers to, and a `stop()` that has not returned keeps it so:
  `OneLoop`, `Stopping`), one of the round (its counters by place, what is decided and
  kept; that the latch has the lock of the configuration behind it, or the operator has
  released it: `Locks`), and `Coupled`: a round is under way in the loop only while the scheduler is
  in one. All five assume `OverlappingStart = FALSE`, that is, that no
  `start()` arrives while a `stop()` waits; the run `wakeup_overlap` shows what
  happens otherwise.
* **`Documents_proofs`, the version stores.** `StoresImplementRegister` is the
  refinement of section 4 for every value of the constants, and
  `NothingBeforeItsReport` the part `ReportedFirst` of `RoundsSettled`. A step changes
  a table in one of four ways: rows are discarded or attached, a row is added, a row
  is marked; each has a lemma that says what the register sees of it. The step that
  has to be justified is the agent's mark, because what was tested (`~Stale`) was
  tested before the file was written: `Held` says that while the agent holds a
  store's lock nobody has overtaken the draft, or a later version is current and the
  mark is invisible. That in turn needs that one draft at a time is applied
  (`OneApplying`), that the operator's pending writes are of rows of his own
  (`Requested`), that the drafts of a round are the agent's (`Own`) and are written on
  an earlier version (`Rowed`, `Stamped`), and that until the report is committed none
  of them is applied (`Early`, `Unapplied`, `Backed`). It is assumed that `None` is no
  text, base, mark or event.
* **`Documents_proofs`, the verdict.** `RoundsAreSettled` is the rest of
  `RoundsSettled`: a report is not there yet, or it is found by the task that goes on
  with the round, so that failure is not recorded beside it; no row becomes a draft
  again, and the list of drafts is worked through before "applied" is told.
* **`Documents_proofs`, the configuration.** `ConfigurationStays`. The credentials
  that a form saves come from the file, whatever the form holds (`Settled`,
  `RoutesKept`), and what is saved is in effect or its restart announced
  (`InEffect`, `Spoken`). That the file stays one a restart can begin with is part of
  the invariant.
* **`Documents_proofs`, the database.** `LinksStayWhole` and `CurrentOnceOpen`. What
  is committed has the rows in their old form or mapped once, with the column that
  tells the two apart (`LinksThere`, `ColumnsThere`, `TablesThere`), and outside a
  transaction the file is what the connection sees; so a start that is cut short
  anywhere leaves a file of which the same is true.
* **`Research_proofs`, the rounds.** `ResearchSettled` and `ChainsStayWhole`. The
  scheduler's loop has the slot or the round has it (`OnePlace`), and a slot that was
  fired is claimed (`Slots`). What is left of the list of links is its tail, what is
  before it is saved or lost, and a link that waits replaces a row nobody has
  replaced, but perhaps a copy of itself that a cancellation has left.
* **`Research_proofs`, the calendar.** `CalendarKnown` and `HolidaysStay`. A complete
  refresh has read two years and holds until 00:10 of the next day, hence over a new
  year (`Complete`); after an incomplete one no attempt is due and not planned
  (`Planned`). It is assumed that pages are finite, that a day has two slots or more
  and that there is some delay.
* **`CaseReview_proofs`.** `CasesAuthorised`. A draft is checked when it is submitted
  and saved later; it still holds then, because the transaction that saves it is the
  only one that adds reviews or uses authorisations, and it ends the round
  (`DraftsFit`). That the drafts of a round are saved one after another, in any
  order, each once, is the lemma `DraftsInTurn`.

So every invariant and every action property of the passing runs is proved, for all
values of the constants that the named assumptions of the modules allow; only what is
proved of `Agent` needs one more (`OverlappingStart = FALSE`), as said above.
Only model-checked are the temporal properties that need
fairness, which is out of the prover's reach: `StopCompletes`, `WakeServed`,
`CallsServed`, `StaleHealed`, `RecordedUnlessOvertaken` and `NoneStarved`; and the
properties that the four runs of section 6 refute.

## 6. Disagreements between the code and what it says

Shown by runs:

* `wakeup_overlap`: a start while a stop still awaits the round begins a second
  loop; two rounds run at once.
* `trade_latch`: after the operator has released the lock it cannot be engaged
  again (`_risk_locked` is never cleared, and `_engage_lock` begins by looking at it,
  `agent/loop.py:511`). It is the same for repeated failure: `FailuresLock` and
  `LeverageHolds` except it by `reopened`.
* `sync_first`: a fill may be handled before the row of its own order is written;
  it stays without a source, gets no profit, and the day's loss leaves it out.
* `stale`: saving a form that was loaded before the lock was engaged releases it.

Seen while modelling, without a run of their own:

* A resting reduce-only order larger than what is left of the position reverses it
  (`paper/engine.py:595` compares directions only), and the new position has no
  stop. `BookHolds` excepts this case by the history variable `overshot`.
* The key `liquidation:{fill_seq}` repeats after a reset or restart; the insert of
  the new fill then raises for ever (it stays in the retry queue, so `NoFillLost`
  holds).
* A position that is closed and opened again is charged funding for a boundary
  before it was opened (`paper/funding_patrol.py:47`).
* `run_safety_net` promises to find the trades of a short interruption; a later
  push more than 60 s newer moves the watermark past them. This is the
  `Overtaken` of `RecordedUnlessOvertaken`.
* `run_safety_net` catches nothing (`agent/fill_sync.py:248-250`): an error of the
  database in `latest_exchange_ts` or `_persist` ends the task, nothing starts it again,
  and no lost trade is found any more. This is the dead `Starter` of
  `RecordedUnlessOvertaken`. An error in `_reattribute` leaves the rows it had yet to
  update without a source, though their order is remembered: `lapsed`.
* The records whose profit has been used are in memory only (`agent/fill_sync.py:162`),
  the profit of the rows is not: after a restart a record may be given to a second row
  near it in time, and one loss counts twice. `PnlBookedOnce` claims nothing of records
  across a restart.
* `_confirm_not_applied_delayed` says that a state which is stable over three readings
  "可安全宣告未生效" (may safely be declared not applied, `agent/tool_leverage.py:490`);
  a request that is still under way may be committed after the third, with the lock
  open, and the next order is placed at a leverage it was not sized for. `LeverageHolds`
  excepts it by `adrift`.
* The locks are per contract and `kill_switch` is one for all: a lock that another
  contract's transaction, a failing round, an abandoned write or the operator sets
  between the last check of an entry and its order does not stop that order on a network
  gateway (`agent/tool_leverage.py:310` looks at the generations only). `NoEntryUnderLock`
  is therefore about locks of the same contract there. An amendment
  takes no contract lock (`agent/tool_amend.py`) and is sent after its check whatever has
  engaged the risk lock meanwhile; the property is not about amendments.
* The shutdown closes the database without waiting for drains that ticks have
  scheduled (`bootstrap.py:712-765`).
* A failing round whose decision row cannot be written skips the lock that its
  count calls for (`agent/loop.py:403-414`): `FailuresLock` excepts it by `broken`.
* `set_provider` promises to take effect from the next round (`agent/loop.py:225`);
  the loop reads `_provider` for each turn (`:327`), so the turns of one round may go
  to two providers, with the messages of the first in the dialect of the first, and
  the audit row names the first only.
* A price alert is removed before its callback (`market/triggers.py:157`): fired
  while the scheduler is stopped, it wakes nobody and is gone.
* After `update_tpsl` has read the position for the last time, a fill may still
  change it; the check compares size and side and not the entry. `WidenedWithinLimit`
  excepts both by `moved`.
* `apply_drafts` counts a draft whose base has been overtaken as settled
  (`review/drafts.py:118`): the closing event says "applied" for a round of which
  nothing was. `SettledAsTold` asks only that no draft still waits.
* A link and the mark on the one it replaces are two statements and one commit; a
  failure in between leaves the insertion to whoever commits next on the shared
  connection (`memory/research_repo.py:378`), and a roll-back by another task
  (`memory/research_review_repo.py:580`) takes statements of others with it: between the
  two it leaves a link that counts as replaced and has no successor, and the round does
  not hear of it. These are the `orphans` of `ChainsHold`.
* The scan of candidates takes a last page that it has not read to its end for the
  tail (`review/tool_research.py:411`) and starts from the beginning again.
  `NoneStarved` holds all the same, because what was reviewed does not come back.
* A page that has lost days of the current year keeps the cache and is no error
  (`research/calendars.py:196`), while `docs/ARCHITECTURE.md:241` has every shrunken
  result degrade the calendar.
* A close of a bar that is handled while the backfill's REST call is under way is
  written over, and a disconnection shorter than the staleness threshold leaves a
  hole that no watchdog pass sees, since it looks at the newest bar only
  (`market/candles.py:307`, `:326`). So does a close that cannot be parsed
  (`market/feed.py:270-273`). These are the `torn` of `TornOnlyByLoss`.
* The column `is_close` is added durably, the flags of old rows in a transaction
  that lasts until the end of `open()` (`memory/db.py:505`): if the start is cut
  short in between, the next one finds the column and never sets the flags.
* `config.yaml`, `.env` and the watchlist are written in place
  (`config_io.py:90`, `:170`, `:196`), not to a new file that then replaces the old: a
  crash or a full disk in the middle leaves a part, and the next start refuses it or
  reads defaults. In `RuntimeConfig` a write happens or does not, so `ConfigHolds` says nothing of this.
* A first start that is cut short between the creation of `research_reports` and
  that of `research_asset_views` leaves a file that every later start refuses
  (`memory/db.py:402-406`): `OpensCurrent` speaks of the databases that do open.

## 7. Not modelled, and the plan

Not modelled, because there is nothing for a model to find in them or because they
are data: conversion of messages and numbers (`gateway/gate_rest.py`,
`agent/providers/`), the arithmetic of indicators and statistics, prompts and
wording, rendering, HTTP status codes, notification, the front end, the sources of
the research tools, queries for display. The broadcast to browsers
(`server/ws.py`), open interest, plans and judgments keep little state, each of it
written in one place.

Candidates for later work:

1. One connection that all tasks share (`memory/repo.py` and the repositories):
   commit and roll-back of one task around the statements of another, composed with
   `ResearchRound` and `CaseReview`, which now have the effect as a choice.
2. Start-up and shutdown (`bootstrap.py`) as the composition of the modules' own
   stops, with what is still pending when the database is closed.
3. Plans and the price alerts they place (`agent/tool_plans.py`).

Theorems next: what the modules take from one another, as implementation of
abstract specifications like `VersionRegister`: a contract's exposure for
`TradeWrite` and `Protection`, a ledger of fills for `FillPersist` and `FillSync`.
