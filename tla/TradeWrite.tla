----------------------------- MODULE TradeWrite -----------------------------
(***************************************************************************)
(* The write transaction that opens exposure on one contract               *)
(* (agent/tool_order_entry.py and agent/tool_leverage.py), with what may   *)
(* interleave with it: order amendments, which do not take the contract's  *)
(* lock, manual closes, which jump the queue, reductions, fills, stops,    *)
(* resets of the simulated account, changes of the leverage by others, and *)
(* the risk lock (`kill'), which is one for all contracts: the agent also  *)
(* engages it for what happens elsewhere, and the operator moves it.       *)
(*                                                                         *)
(* One action per gateway job.  With Remote the jobs of all tasks          *)
(* interleave, a request may raise although it was or will be executed,    *)
(* and a read may fail.  Without it the gateway is the simulated one:      *)
(* its jobs run inline, and a task is interleaved with others only where   *)
(* it awaits something else (Inline).                                      *)
(*                                                                         *)
(* Exposure is counted in contracts of one size.  A position has the       *)
(* leverage of its contract; a leverage state is one of Levels.            *)
(***************************************************************************)
EXTENDS Integers

CONSTANTS
  Entries, Amenders,  \* calls of place_order (opening) and of amend_order
  Levels,             \* leverage states (leverage, margin mode)
  Limit,              \* exposure the risk rules allow on the contract
  MaxCloses,          \* bound: manual closes, clear rejections not counted
  MaxResets,          \* bound: resets of the simulated account
  Remote,             \* the gateway is a network service
  External,           \* others may change the leverage (bound: once)
  OperatorMoves,      \* what POST /kill_switch may be called with
  None

Tasks == Entries \cup Amenders

VARIABLES
  pos, resting, \* the position, and what the unfilled opening order adds
  ver,          \* version of that order: what its fingerprint tells apart
  lev,          \* leverage state of the contract at the exchange
  late,         \* tasks whose set_leverage has raised and may still be committed
  epoch, reset, \* close_epochs[contract] and reset_epoch[0]
  kill, locked, \* risk.kill_switch and AgentLoop._risk_locked
  shut,         \* history: kill was last set for an order or a state of this contract
  reopened,     \* history: the operator released the lock after the agent had engaged it
  holder,       \* task inside leverage_locks[contract]
  pc, round,    \* of a task: its next job, and which of the three readings
  want,         \* leverage of an entry's request
  half, seen,   \* the reading in progress, and the one the request rests on
  epoch0, reset0, modified, tries, \* of a task: as in the code
  interrupted,  \* history: a manual close or a reset happened since the call
  stale,        \* history: a task that was interrupted has written
  foreign,      \* history: others have changed the leverage
  adrift        \* history: a set_leverage in `late' was declared not applied

market == <<pos, resting, ver, lev, late>>
guards == <<epoch, reset, kill, locked, shut, reopened>>
locals == <<half, seen, epoch0, reset0, modified, tries, want>>
history == <<interrupted, stale, foreign, adrift>>
vars == <<market, guards, holder, pc, round, locals, history>>

Phases == {"call", "wait", "pos", "orders", "check", "apply", "confirm",
           "reconcile", "delay", "place", "cas", "undo", "verify", "amend", "done"}
Reading == [pos : Nat, lev : Levels \cup {None}, rest : Nat, ver : Nat]
Blank == [pos |-> 0, lev |-> None, rest |-> 0, ver |-> 0]

TypeOK ==
  /\ pos \in Nat /\ resting \in {0, 1} /\ ver \in Nat
  /\ lev \in Levels /\ late \subseteq Entries
  /\ epoch \in Nat /\ reset \in Nat /\ kill \in BOOLEAN /\ locked \in BOOLEAN
  /\ shut \in BOOLEAN /\ reopened \in BOOLEAN /\ adrift \in BOOLEAN
  /\ holder \in Entries \cup {None}
  /\ pc \in [Tasks -> Phases] /\ round \in [Tasks -> 1..3]
  /\ want \in [Entries -> Levels] /\ half \in [Tasks -> Reading] /\ seen \in [Tasks -> Reading]
  /\ epoch0 \in [Tasks -> Nat] /\ reset0 \in [Tasks -> Nat]
  /\ modified \in [Tasks -> BOOLEAN] /\ tries \in [Tasks -> 0..3]
  /\ interrupted \in [Tasks -> BOOLEAN] /\ stale \in BOOLEAN /\ foreign \in BOOLEAN

Init ==
  /\ pos \in {0, 1} /\ resting = 0 /\ ver = 0 /\ lev \in Levels /\ late = {}
  /\ epoch = 0 /\ reset = 0 /\ kill = FALSE /\ locked = FALSE /\ holder = None
  /\ shut = FALSE /\ reopened = FALSE /\ adrift = FALSE
  /\ pc = [t \in Tasks |-> "call"] /\ round = [t \in Tasks |-> 1]
  /\ want \in [Entries -> Levels]
  /\ half = [t \in Tasks |-> Blank] /\ seen = [t \in Tasks |-> Blank]
  /\ epoch0 = [t \in Tasks |-> 0] /\ reset0 = [t \in Tasks |-> 0]
  /\ modified = [t \in Tasks |-> FALSE] /\ tries = [t \in Tasks |-> 0]
  /\ interrupted = [t \in Tasks |-> FALSE] /\ stale = FALSE /\ foreign = FALSE

-----------------------------------------------------------------------------
Exposure == pos + resting
Running(t) == pc[t] \notin {"call", "done"}

(* A task whose next job follows without a suspension: nothing else runs.  *)
Inline(t) ==
  /\ ~Remote
  /\ \/ pc[t] = "orders"
     \/ t \in Amenders /\ pc[t] \in {"pos", "amend"}
     \/ round[t] = 3 /\ pc[t] \notin {"delay", "done"}
Free(t) == \A u \in Tasks \ {t} : ~Inline(u)
Quiet == \A u \in Tasks : ~Inline(u)

Goto(t, phase) == pc' = [pc EXCEPT ![t] = phase]
Leave(t) == holder' = IF holder = t THEN None ELSE holder
End(t) == Goto(t, "done") /\ Leave(t)

(* _engage_lock: does nothing when the agent has locked before.            *)
Engage ==
  /\ locked' = TRUE
  /\ kill' = IF locked THEN kill ELSE TRUE
  /\ shut' = kill'
  /\ UNCHANGED <<epoch, reset, reopened>>

(* _prev_leverage_state: a contract without a position has no state.       *)
LevShown == IF pos = 0 THEN None ELSE lev

(* A write of t that reaches the exchange.                                 *)
Writes(t) == stale' = (stale \/ interrupted[t])

-----------------------------------------------------------------------------
(* place_order and amend_order note the generations before anything else.  *)
Call(t) ==
  /\ pc[t] = "call" /\ Free(t)
  /\ epoch0' = [epoch0 EXCEPT ![t] = epoch]
  /\ reset0' = [reset0 EXCEPT ![t] = reset]
  /\ Goto(t, IF t \in Entries THEN "wait" ELSE "orders")
  /\ UNCHANGED <<market, guards, holder, round, half, seen, modified, tries, want, history>>

MayEnter(t) == holder = None

Enter(t) ==
  /\ pc[t] = "wait" /\ Free(t) /\ MayEnter(t)
  /\ holder' = t /\ Goto(t, "pos")
  /\ UNCHANGED <<market, guards, round, locals, history>>

ReadPositions(t) ==
  /\ pc[t] = "pos" /\ Free(t)
  /\ half' = [half EXCEPT ![t].pos = pos, ![t].lev = LevShown]
  /\ Goto(t, IF t \in Entries THEN "orders" ELSE "check")
  /\ UNCHANGED <<market, guards, holder, round, seen, epoch0, reset0, modified, tries, want, history>>

ReadRaises(t) ==
  /\ Remote /\ pc[t] \in {"pos", "orders"}
  /\ End(t) /\ UNCHANGED <<market, guards, round, locals, history>>

(* The amender ends when the order is gone; an entry when an opening order *)
(* is pending, or at last when the final reading is not the prepared one.  *)
ReadOrders(t) ==
  /\ pc[t] = "orders" /\ Free(t)
  /\ half' = [half EXCEPT ![t].rest = resting, ![t].ver = ver]
  /\ IF t \in Amenders
       THEN IF resting = 0 THEN End(t) ELSE Goto(t, "pos") /\ UNCHANGED holder
       ELSE IF round[t] = 3
         THEN IF half'[t] = seen[t] THEN Goto(t, "apply") /\ UNCHANGED holder ELSE End(t)
         ELSE IF resting > 0 THEN End(t) ELSE Goto(t, "check") /\ UNCHANGED holder
  /\ UNCHANGED <<market, guards, round, seen, epoch0, reset0, modified, tries, want, history>>

(* The risk rules: no opening under the risk lock, and none that takes the *)
(* position and the pending orders over the limit.                         *)
AllowedUnlocked(t) == \* mutant: the rule of the risk lock is missing
  half[t].pos + 1 <= Limit
AllowedPast(t) == \* mutant: off by one
  ~kill /\ half[t].pos + half[t].rest <= Limit
Allowed(t) ==
  /\ ~kill
  /\ half[t].pos + (IF t \in Amenders THEN half[t].rest - 1 ELSE half[t].rest) + 1 <= Limit

(* _prepare_exposure twice, with equal snapshots.                          *)
Prepared(t) ==
  /\ t \in Entries
  /\ \/ round[t] = 1 /\ seen' = [seen EXCEPT ![t] = half[t]]
     \/ round[t] = 2 /\ half[t] = seen[t] /\ UNCHANGED seen
  /\ Goto(t, "pos") /\ round' = [round EXCEPT ![t] = @ + 1]
  /\ UNCHANGED holder

AmendChecked(t) ==
  /\ t \in Amenders
  /\ seen' = [seen EXCEPT ![t] = half[t]]
  /\ Goto(t, "amend") /\ UNCHANGED <<holder, round>>

Denied(t) ==
  /\ ~Allowed(t) \/ (t \in Entries /\ round[t] = 2 /\ half[t] # seen[t])
  /\ End(t) /\ UNCHANGED <<seen, round>>

Check(t) ==
  /\ pc[t] = "check" /\ Free(t)
  /\ (Allowed(t) /\ (Prepared(t) \/ AmendChecked(t))) \/ Denied(t)
  /\ UNCHANGED <<market, guards, half, epoch0, reset0, modified, tries, want, history>>

-----------------------------------------------------------------------------
(* _apply_leverage_and_place: nothing to set when the state is the one     *)
(* asked for.  A set_leverage that raises may have been executed, or may   *)
(* still be.                                                               *)
ApplyLeverage(t) ==
  /\ pc[t] = "apply" /\ Free(t)
  /\ \/ seen[t].lev = want[t] /\ Goto(t, "place") /\ UNCHANGED <<lev, late>>
     \/ seen[t].lev # want[t]
        /\ \/ lev' = want[t] /\ Goto(t, "confirm") /\ UNCHANGED late
           \/ Goto(t, "reconcile") /\ UNCHANGED <<lev, late>>
           \/ Remote /\ lev' = want[t] /\ Goto(t, "reconcile") /\ UNCHANGED late
           \/ Remote /\ late' = late \cup {t} /\ Goto(t, "reconcile") /\ UNCHANGED lev
  /\ UNCHANGED <<pos, resting, ver, guards, holder, round, locals, history>>

(* _confirm_target_applied: the receipt decides when the contract is not   *)
(* listed, and also when the read has failed.                              *)
ConfirmDiffers(t) == lev # want[t]

Confirm(t) ==
  /\ pc[t] = "confirm" /\ Free(t)
  /\ \/ /\ ~ConfirmDiffers(t) \/ pos = 0 \/ Remote
        /\ Goto(t, "place") /\ modified' = [modified EXCEPT ![t] = TRUE]
        /\ UNCHANGED <<guards, holder>>
     \/ /\ ConfirmDiffers(t)
        /\ Engage /\ End(t) /\ UNCHANGED modified
  /\ UNCHANGED <<market, round, half, seen, epoch0, reset0, tries, want, history>>

(* _reconcile_leverage_unknown.                                            *)
Reconcile(t) ==
  /\ pc[t] = "reconcile" /\ Free(t)
  /\ \/ /\ LevShown = want[t]
        /\ Goto(t, "place") /\ modified' = [modified EXCEPT ![t] = TRUE]
        /\ UNCHANGED <<guards, holder>>
     \/ /\ LevShown # want[t] /\ LevShown # None /\ LevShown = seen[t].lev
        /\ Goto(t, "delay") /\ UNCHANGED <<guards, holder, modified>>
     \/ /\ Remote \/ (LevShown # want[t] /\ (LevShown = None \/ LevShown # seen[t].lev))
        /\ Engage /\ End(t) /\ UNCHANGED modified
  /\ UNCHANGED <<market, round, half, seen, epoch0, reset0, tries, want, history>>

(* _confirm_not_applied_delayed: three readings, a second apart.  What is  *)
(* still under way after the last is declared not applied all the same.    *)
SettleRetries == 3
Delay(t) ==
  \/ /\ LevShown = seen[t].lev /\ tries[t] + 1 < SettleRetries
     /\ tries' = [tries EXCEPT ![t] = @ + 1]
     /\ UNCHANGED <<pc, holder, guards, adrift>>
  \/ /\ LevShown = seen[t].lev /\ tries[t] + 1 = SettleRetries
     /\ adrift' = (adrift \/ t \in late)
     /\ End(t) /\ UNCHANGED <<tries, guards>>
  \/ /\ Remote \/ LevShown # seen[t].lev
     /\ Engage /\ End(t) /\ UNCHANGED <<tries, adrift>>

DelayedCheck(t) ==
  /\ pc[t] = "delay" /\ Free(t) /\ Delay(t)
  /\ UNCHANGED <<market, round, half, seen, epoch0, reset0, modified, want,
                 interrupted, stale, foreign>>

-----------------------------------------------------------------------------
(* _place_unless_close_intervened.                                         *)
Intervened(t) == epoch # epoch0[t] \/ reset # reset0[t]

Created ==
  \/ pos' = pos + 1 /\ UNCHANGED <<resting, ver>>
  \/ resting' = resting + 1 /\ ver' = ver + 1 /\ UNCHANGED pos

RollsBackOpen(t) == modified[t] /\ seen[t].lev = None \* mutant: inverted test
RollsBack(t) == modified[t]

(* _place_with_rollback: only a clear rejection is rolled back.            *)
Place(t) ==
  /\ pc[t] = "place" /\ Free(t)
  /\ \/ /\ Intervened(t) /\ End(t)
        /\ UNCHANGED <<pos, resting, ver, guards, stale>>
     \/ /\ ~Intervened(t)
        /\ \/ Created /\ Writes(t) /\ End(t) /\ UNCHANGED guards
           \/ Remote /\ Created /\ Writes(t) /\ Engage /\ End(t)
           \/ Remote /\ Engage /\ End(t) /\ UNCHANGED <<pos, resting, ver, stale>>
           \/ /\ IF RollsBack(t) THEN Goto(t, "cas") /\ UNCHANGED holder ELSE End(t)
              /\ UNCHANGED <<pos, resting, ver, guards, stale>>
  /\ UNCHANGED <<lev, late, round, locals, interrupted, foreign, adrift>>

(* _rollback_leverage, in three jobs.                                      *)
CompareBeforeRollback(t) ==
  /\ pc[t] = "cas" /\ Free(t)
  /\ \/ seen[t].lev = None /\ End(t) /\ UNCHANGED guards
     \/ /\ seen[t].lev # None /\ LevShown = want[t]
        /\ Goto(t, "undo") /\ UNCHANGED <<holder, guards>>
     \/ /\ seen[t].lev # None /\ (Remote \/ LevShown # want[t])
        /\ Engage /\ End(t)
  /\ UNCHANGED <<market, round, locals, history>>

Undo(t) ==
  /\ pc[t] = "undo" /\ Free(t)
  /\ \/ lev' = seen[t].lev /\ Goto(t, "verify") /\ UNCHANGED <<holder, guards>>
     \/ lev' \in (IF Remote THEN {lev, seen[t].lev} ELSE {lev}) /\ Engage /\ End(t)
  /\ UNCHANGED <<pos, resting, ver, late, round, locals, history>>

VerifyRollback(t) ==
  /\ pc[t] = "verify" /\ Free(t) /\ End(t)
  /\ \/ LevShown = seen[t].lev /\ UNCHANGED guards
     \/ (Remote \/ LevShown # seen[t].lev) /\ Engage
  /\ UNCHANGED <<market, round, locals, history>>

(* _amend_unless_close_intervened: generations, position and order are     *)
(* compared inside the job.  The amended order rests on, or is filled; a   *)
(* rejected or an unknown amendment raises, and engages nothing.           *)
AmendHolds(t) ==
  /\ ~Intervened(t) /\ pos = seen[t].pos
  /\ resting = 1 /\ ver = seen[t].ver

Amend(t) ==
  /\ pc[t] = "amend" /\ Free(t) /\ End(t)
  /\ \/ UNCHANGED <<pos, resting, ver, stale>>
     \/ /\ AmendHolds(t) /\ Writes(t)
        /\ \/ ver' = ver + 1 /\ UNCHANGED <<pos, resting>>
           \/ pos' = pos + 1 /\ resting' = 0 /\ UNCHANGED ver
  /\ UNCHANGED <<lev, late, guards, round, locals, interrupted, foreign, adrift>>

-----------------------------------------------------------------------------
Calm == UNCHANGED <<holder, pc, round, locals, history>>

FillResting ==
  /\ Quiet /\ resting = 1 /\ pos' = pos + 1 /\ resting' = 0
  /\ UNCHANGED <<ver, lev, late, guards>> /\ Calm

CancelResting ==
  /\ Quiet /\ resting = 1 /\ resting' = 0
  /\ UNCHANGED <<pos, ver, lev, late, guards>> /\ Calm

(* A stop or a target is hit, or the account is liquidated.                *)
StopHit ==
  /\ Quiet /\ pos > 0 /\ pos' = 0
  /\ UNCHANGED <<resting, ver, lev, late, guards>> /\ Calm

(* place_reduction takes the lock for its order, and no generation.        *)
Reduce ==
  /\ Quiet /\ holder = None /\ pos > 0
  /\ \/ pos' \in 0..(pos - 1) /\ UNCHANGED guards
     \/ Remote /\ pos' \in 0..pos /\ Engage
  /\ UNCHANGED <<resting, ver, lev, late>> /\ Calm

(* close_position: the order and the new generation are one job, whatever  *)
(* its outcome, unless the close was clearly rejected.                     *)
BumpOnSuccess(closed) == epoch' = IF closed THEN epoch + 1 ELSE epoch \* mutant
Bump(closed) == epoch' = epoch + 1

Interrupt == interrupted' = [t \in Tasks |-> interrupted[t] \/ Running(t)]

ManualClose ==
  /\ Quiet /\ epoch < MaxCloses
  /\ \/ pos' = 0 /\ resting' \in (IF Remote THEN {resting} ELSE {0}) /\ Bump(TRUE)
     \/ Remote /\ pos' \in {0, pos} /\ UNCHANGED resting /\ Bump(FALSE)
  /\ Interrupt
  /\ UNCHANGED <<ver, lev, late, reset, kill, locked, shut, reopened, holder, pc, round, locals,
                 stale, foreign, adrift>>

(* paper_reset: the account is replaced, then the generation rises.        *)
Reset ==
  /\ Quiet /\ ~Remote /\ reset < MaxResets
  /\ pos' = 0 /\ resting' = 0 /\ lev' \in Levels /\ reset' = reset + 1
  /\ Interrupt
  /\ UNCHANGED <<ver, late, epoch, kill, locked, shut, reopened, holder, pc, round, locals,
                 stale, foreign, adrift>>

ChangedOutside ==
  /\ Quiet /\ External /\ ~foreign /\ lev' \in Levels \ {lev} /\ foreign' = TRUE
  /\ UNCHANGED <<pos, resting, ver, late, guards, holder, pc, round, locals, interrupted, stale,
                 adrift>>

(* The service executes a request that has raised, or drops it.            *)
LateCommit ==
  /\ \E t \in late : late' = late \ {t} /\ lev' \in {want[t], lev}
  /\ UNCHANGED <<pos, resting, ver, guards>> /\ Calm

(* The agent engages the lock for something else: a write on another       *)
(* contract in an overlapping transaction, failures of its rounds, or a    *)
(* write that its caller has abandoned (async_io).                         *)
LockedElsewhere ==
  /\ Quiet /\ ~locked /\ locked' = TRUE /\ kill' = TRUE
  /\ UNCHANGED <<epoch, reset, shut, reopened, market>> /\ Calm

(* POST /kill_switch, or a saved form: the configuration only.             *)
OperatorSets ==
  /\ Quiet
  /\ \E on \in OperatorMoves :
       /\ kill # on /\ kill' = on /\ shut' = (shut /\ on)
       /\ reopened' = (reopened \/ (locked /\ ~on))
  /\ UNCHANGED <<epoch, reset, locked, market>> /\ Calm

-----------------------------------------------------------------------------
TaskStep(t) ==
  \/ Call(t) \/ ReadPositions(t) \/ ReadRaises(t) \/ ReadOrders(t) \/ Check(t)
  \/ t \in Entries
     /\ \/ Enter(t) \/ ApplyLeverage(t) \/ Confirm(t) \/ Reconcile(t)
        \/ DelayedCheck(t) \/ Place(t) \/ CompareBeforeRollback(t)
        \/ Undo(t) \/ VerifyRollback(t)
  \/ t \in Amenders /\ Amend(t)

Environment ==
  \/ FillResting \/ CancelResting \/ StopHit \/ Reduce \/ ManualClose
  \/ Reset \/ ChangedOutside \/ LateCommit \/ LockedElsewhere \/ OperatorSets

Finished == (\A t \in Tasks : pc[t] = "done") /\ UNCHANGED vars

Next == (\E t \in Tasks : TaskStep(t)) \/ Environment \/ Finished

Spec == Init /\ [][Next]_vars

-----------------------------------------------------------------------------
(* What the transaction is for: its readings are made under the lock, and  *)
(* nothing else opens exposure meanwhile, so the limit that was checked    *)
(* three jobs earlier still holds when the order is created.               *)
ExposureBounded == Exposure <= Limit

(* An opening order or an amendment that a manual close or a reset has     *)
(* overtaken since the call is not sent: the person who closed would find  *)
(* the position opened again.                                              *)
NoStaleWrite == ~stale

Grows == pos' + resting' > pos + resting

(* A transaction that has touched the leverage and creates no order leaves *)
(* the old leverage or the risk lock behind, unless a close or a reset     *)
(* aborted it, there was no position whose leverage it was, or the lock is *)
(* one that the operator has released before (EngageLocks is about that).  *)
FailClosed ==
  [][\A t \in Entries :
       /\ pc[t] \in {"confirm", "reconcile", "delay", "place", "cas", "undo", "verify"}
       /\ pc[t] = "place" => modified[t] /\ ~Intervened(t)
       /\ pc'[t] = "done" /\ ~Grows /\ seen[t].lev # None
       => kill' \/ reopened \/ lev' = seen[t].lev]_vars

(* The order whose fate is unknown is not followed by another: once a      *)
(* transaction of the contract has engaged the lock, no opening order is   *)
(* created there until the operator releases it.  On the simulated gateway *)
(* that goes for every lock.  (On the network a lock that is set elsewhere *)
(* between an entry's last check and its order does not stop that order.)  *)
NoEntryUnderLock == [][shut \/ (~Remote /\ kill) => ~Grows]_vars

(* What fails closed locks, every time: tool_leverage.py says so of every  *)
(* unknown or mismatching state.                                           *)
EngageLocks ==
  [][\A t \in Entries :
       pc[t] \in {"undo", "verify"} /\ pc'[t] = "done" /\ lev' # seen[t].lev => kill']_vars

(* An order is created only under the leverage its sizing, its margin and  *)
(* its stop were computed for, whatever a set_leverage answered, unless    *)
(* others have changed it, a request that was declared not applied was     *)
(* still under way, or the operator has released the lock that stood       *)
(* before one that had raised.                                             *)
PlacedAtLeverage ==
  [][\A t \in Entries :
       pc[t] = "place" /\ pc'[t] = "done" /\ Grows
       => foreign \/ adrift \/ reopened \/ lev = want[t]]_vars

(* What a change of the leverage leaves behind, with and without an order. *)
LeverageHolds == PlacedAtLeverage /\ FailClosed
=============================================================================
