---------------------------- MODULE DecisionLoop ----------------------------
(***************************************************************************)
(* One decision round of the trading agent (agent/loop.py) with what it    *)
(* leaves behind: the audit row, the raw answers and tool calls recorded   *)
(* under it, the decision row, the counter of consecutive failures, the    *)
(* risk lock it engages and the operator moves, and the price alerts that  *)
(* the tools place and the ticks fire.                                     *)
(*                                                                         *)
(* Each action is the code from one await to the next.  Any write to the   *)
(* database may raise ("broken" remembers that one did in this round), any *)
(* call of the model may fail, and the operator may swap the provider at   *)
(* any await.  A provider is a model value that stands for the vendor, the *)
(* model and the dialect of its messages.  The counts of a round restart   *)
(* with the next one, so nothing needs a bound but MaxTurns (max_turns)    *)
(* and MaxCalls, the most tool calls in one answer.                        *)
(***************************************************************************)
EXTENDS Naturals, FiniteSets

CONSTANTS
  Providers,    \* LLM providers an operator can configure
  MaxTurns,     \* max_turns
  MaxCalls,     \* bound: tool calls asked for in one answer
  MaxAttempts,  \* max_attempts of RetryingProvider
  MaxFailures,  \* settings.llm.max_consecutive_failures
  Lines,        \* price alerts that can be told apart: contract, side, price
  MaxAlerts,    \* MAX_ALERTS
  NoProvider    \* Python's None in place of a provider

ASSUME DecisionLoopAssumption ==
  MaxFailures \in Nat \ {0} /\ NoProvider \notin Providers

VARIABLES
  pc,        \* where run_once is suspended
  provider,  \* _provider
  asked,     \* the provider whose chat() is running or answered last
  model,     \* llm_identity in the audit row
  status,    \* the audit row: absent, open, ended well, ended with an error
  decided,   \* the decision row of the round exists
  turn,      \* answers accepted in this round
  attempt,   \* tries of the current turn that failed
  calls,     \* tool calls of the last answer still to run
  answers,   \* history: answers received, the rejected ones included
  heard,     \* answers to the current turn that were rejected
  kept,      \* answers in the audit row's llm_raw
  ran,       \* history: tool calls executed
  recorded,  \* tool calls in the audit trail
  broken,    \* history: a database write of this round raised
  failures,  \* _consecutive_failures
  latched,   \* _risk_locked
  kill,      \* settings.risk.kill_switch, which the checks of a write read
  reopened,  \* history: the operator released the lock after it was latched
  alerts     \* TriggerManager._triggers

turnVars == <<asked, model, status, decided, turn, attempt, calls, answers,
               heard, kept, ran, recorded, broken>>
lockVars == <<failures, latched, kill, reopened>>
loopVars == <<pc, provider, turnVars, lockVars, alerts>>

PCs == {"idle", "called", "context", "ask", "asked", "tools", "ran",
        "failed", "failEnd", "failLock", "good", "goodEnd", "drain", "raised"}

LoopTypeOK ==
  /\ pc \in PCs /\ provider \in Providers \cup {NoProvider}
  /\ asked \in Providers \cup {NoProvider} /\ model \in Providers \cup {NoProvider}
  /\ status \in {"none", "open", "ok", "error"}
  /\ {decided, broken, latched, kill, reopened} \subseteq BOOLEAN
  /\ turn \in 0..MaxTurns /\ attempt \in 0..(MaxAttempts - 1)
  /\ calls \in 0..MaxCalls
  /\ {answers, heard, kept} \subseteq 0..(MaxTurns * MaxAttempts)
  /\ {ran, recorded} \subseteq 0..(MaxTurns * MaxCalls)
  /\ failures \in 0..MaxFailures
  /\ alerts \subseteq Lines

LoopInit ==
  /\ pc = "idle" /\ provider \in Providers \cup {NoProvider}
  /\ asked = NoProvider /\ model = NoProvider /\ status = "none"
  /\ decided = FALSE /\ broken = FALSE /\ latched = FALSE
  /\ turn = 0 /\ attempt = 0 /\ calls = 0
  /\ answers = 0 /\ heard = 0 /\ kept = 0 /\ ran = 0 /\ recorded = 0
  /\ failures = 0 /\ alerts = {}
  /\ kill \in BOOLEAN /\ reopened = FALSE

-----------------------------------------------------------------------------
Forgotten ==
  /\ asked' = NoProvider /\ model' = NoProvider /\ status' = "none"
  /\ decided' = FALSE /\ broken' = FALSE
  /\ turn' = 0 /\ attempt' = 0 /\ calls' = 0
  /\ answers' = 0 /\ heard' = 0 /\ kept' = 0 /\ ran' = 0 /\ recorded' = 0

(* run_once is called.                                                     *)
Call ==
  /\ pc' = "called"
  /\ UNCHANGED <<provider, turnVars, lockVars, alerts>>

(* An exception of a database write that no handler of run_once catches:   *)
(* it reaches the scheduler, which logs it, and the round is over.         *)
Escapes ==
  /\ pc' = "raised" /\ broken' = TRUE

(* Without a provider the round is skipped, after a drain of the fills.    *)
SkipRound ==
  /\ pc = "called" /\ provider = NoProvider
  /\ pc' = "drain"
  /\ UNCHANGED <<provider, turnVars, lockVars, alerts>>

(* begin_round: the audit row, with the identity of the provider of now.   *)
BeginRound ==
  /\ pc = "called" /\ provider # NoProvider
  /\ \/ /\ status' = "open" /\ model' = provider
        /\ pc' = "context"
        /\ UNCHANGED broken
     \/ /\ Escapes
        /\ UNCHANGED <<status, model>>
  /\ UNCHANGED <<provider, asked, decided, turn, attempt, calls, answers, heard,
                 kept, ran, recorded, lockVars, alerts>>

(* The context is built from the gateway and the database, and recorded.   *)
BuildContext ==
  /\ pc = "context"
  /\ pc' \in {"ask", "failed"}
  /\ broken' \in (IF pc' = "failed" THEN BOOLEAN ELSE {broken})
  /\ UNCHANGED <<provider, asked, model, status, decided, turn, attempt, calls,
                 answers, heard, kept, ran, recorded, lockVars, alerts>>

-----------------------------------------------------------------------------
(* A turn begins: chat() of whatever provider the loop holds now.  The     *)
(* tries of one turn stay with that provider.                              *)
AskModel ==
  /\ pc = "ask"
  /\ asked' = provider
  /\ pc' = "asked"
  /\ UNCHANGED <<provider, model, status, decided, turn, attempt, calls, answers,
                 heard, kept, ran, recorded, broken, lockVars, alerts>>

(* A try fails, with an answer that was rejected or with none at all; it   *)
(* is repeated after a pause unless it was the last.                       *)
AttemptFails ==
  /\ pc = "asked" /\ attempt < MaxAttempts - 1
  /\ attempt' = attempt + 1
  /\ \E raw \in {0, 1} : answers' = answers + raw /\ heard' = heard + raw
  /\ UNCHANGED <<pc, provider, asked, model, status, decided, turn, calls, kept,
                 ran, recorded, broken, lockVars, alerts>>

RecordRaw == \* record_llm_raw rewrites llm_raw with every part so far
  \/ kept' = answers' /\ UNCHANGED broken
  \/ UNCHANGED kept /\ broken' = TRUE

(* The last try fails: what the tries heard goes to the audit row, and the *)
(* round fails.                                                            *)
ChatFails ==
  /\ pc = "asked" /\ attempt = MaxAttempts - 1
  /\ \E raw \in {0, 1} : answers' = answers + raw /\ heard' = heard + raw
  /\ IF heard' = 0 THEN UNCHANGED <<kept, broken>> ELSE RecordRaw
  /\ pc' = "failed"
  /\ UNCHANGED <<provider, asked, model, status, decided, turn, attempt, calls,
                 ran, recorded, lockVars, alerts>>

(* An answer is accepted and recorded; it asks for n tools, or ends it.    *)
AcceptUnrecorded(n) == \* mutant: the raw answers are recorded at the end only
  /\ answers' = answers + 1 /\ heard' = 0
  /\ turn' = turn + 1 /\ attempt' = 0 /\ calls' = n
  /\ UNCHANGED <<kept, broken>>
  /\ pc' = IF n = 0 THEN "good" ELSE "tools"

Accept(n) ==
  /\ answers' = answers + 1 /\ heard' = 0
  /\ turn' = turn + 1 /\ attempt' = 0 /\ calls' = n
  /\ RecordRaw
  /\ pc' = IF broken' # broken THEN "failed" ELSE IF n = 0 THEN "good" ELSE "tools"

ModelAnswers ==
  /\ pc = "asked"
  /\ \E n \in 0..MaxCalls : Accept(n)
  /\ UNCHANGED <<provider, asked, model, status, decided, ran, recorded, lockVars,
                 alerts>>

-----------------------------------------------------------------------------
(* ToolRegistry.execute: whatever the handler raises becomes the text of   *)
(* an outcome, so a tool call always returns.                              *)
RunTool(effect) ==
  /\ pc = "tools"
  /\ effect
  /\ ran' = ran + 1
  /\ pc' = "ran"
  /\ UNCHANGED <<provider, asked, model, status, decided, turn, attempt, calls,
                 answers, heard, kept, recorded, broken, lockVars>>

(* set_price_alert: nothing for a line that exists, or at the limit.       *)
SetPriceAlert ==
  \E a \in Lines :
    alerts' = IF a \in alerts \/ Cardinality(alerts) >= MaxAlerts
              THEN alerts ELSE alerts \cup {a}

CancelPriceAlert == \E a \in Lines : alerts' = alerts \ {a}

OtherTool == UNCHANGED alerts

(* record_tool_call: when it raises the round fails, the tool having run.  *)
RecordTool ==
  /\ pc = "ran"
  /\ calls' = calls - 1
  /\ \/ /\ recorded' = recorded + 1
        /\ pc' = IF calls' > 0 THEN "tools"
                 ELSE IF turn < MaxTurns THEN "ask" ELSE "good"
        /\ UNCHANGED broken
     \/ /\ broken' = TRUE /\ pc' = "failed"
        /\ UNCHANGED recorded
  /\ UNCHANGED <<provider, asked, model, status, decided, turn, attempt, answers,
                 heard, kept, ran, lockVars, alerts>>

-----------------------------------------------------------------------------
(* The end of a round that went well: the counter, the decision row, then  *)
(* the end of the audit row.                                               *)
Decide ==
  /\ pc = "good"
  /\ failures' = 0
  /\ \/ decided' = TRUE /\ pc' = "goodEnd" /\ UNCHANGED broken
     \/ Escapes /\ UNCHANGED decided
  /\ UNCHANGED <<provider, asked, model, status, turn, attempt, calls, answers,
                 heard, kept, ran, recorded, latched, kill, reopened, alerts>>

EndGood ==
  /\ pc = "goodEnd"
  /\ \/ status' = "ok" /\ kept' = answers /\ pc' = "drain" /\ UNCHANGED broken
     \/ Escapes /\ UNCHANGED <<status, kept>>
  /\ UNCHANGED <<provider, asked, model, decided, turn, attempt, calls, answers,
                 heard, ran, recorded, lockVars, alerts>>

(* _fail_round: the counter, the decision row, the end of the audit row    *)
(* with the error, and the lock when the failures have reached their limit.*)
Counted == IF failures < MaxFailures THEN failures + 1 ELSE failures

FailRound ==
  /\ pc = "failed"
  /\ failures' = Counted
  /\ \/ decided' = TRUE /\ pc' = "failEnd" /\ UNCHANGED broken
     \/ Escapes /\ UNCHANGED decided
  /\ UNCHANGED <<provider, asked, model, status, turn, attempt, calls, answers,
                 heard, kept, ran, recorded, latched, kill, reopened, alerts>>

EndFailed ==
  /\ pc = "failEnd"
  /\ \/ status' = "error" /\ pc' = "failLock" /\ UNCHANGED broken
     \/ Escapes /\ UNCHANGED status
  /\ UNCHANGED <<provider, asked, model, decided, turn, attempt, calls, answers,
                 heard, kept, ran, recorded, lockVars, alerts>>

TooManyFailuresLate == failures > MaxFailures \* mutant: off by one
TooManyFailures == failures >= MaxFailures

(* _engage_lock does nothing once it is latched, whatever the operator has *)
(* done to the lock since; a write to config.yaml that fails is logged.    *)
EngageLock ==
  IF latched THEN UNCHANGED <<latched, kill>> ELSE latched' = TRUE /\ kill' = TRUE

(* An alert of the lock that raises ends the round undrained.              *)
LockIfFailing ==
  /\ pc = "failLock"
  /\ IF TooManyFailures THEN EngageLock ELSE UNCHANGED <<latched, kill>>
  /\ pc' \in IF latched' # latched THEN {"drain", "raised"} ELSE {"drain"}
  /\ UNCHANGED <<provider, turnVars, failures, reopened, alerts>>

(* run_once returns after the drain of the fills (FillPersist), which logs *)
(* what it cannot save, or raises.  The rows of the round stay as they are *)
(* from here on, and the model forgets them.                               *)
ReturnFromRound ==
  /\ pc \in {"drain", "raised"} /\ pc' = "idle"
  /\ Forgotten
  /\ UNCHANGED <<provider, lockVars, alerts>>

-----------------------------------------------------------------------------
(* What other tasks do at any await.                                       *)

(* The rebuilt provider replaces the one the loop holds.                   *)
SetProvider(p) ==
  /\ p # provider
  /\ provider' = p
  /\ UNCHANGED <<pc, turnVars, lockVars, alerts>>

(* A tick crosses a line: the trigger is removed, then its callback runs.  *)
AlertFires(a) ==
  /\ a \in alerts
  /\ alerts' = alerts \ {a}
  /\ UNCHANGED <<pc, provider, turnVars, lockVars>>

(* A write to the exchange was abandoned by its caller (async_io): a task  *)
(* engages the lock.  So does a write tool whose outcome it cannot tell.   *)
OrphanWrite ==
  /\ EngageLock
  /\ UNCHANGED <<pc, provider, turnVars, failures, reopened, alerts>>

(* The operator sets or releases the lock: the switch, or a saved form.    *)
(* The latch stays.                                                        *)
OperatorMoves(on) ==
  /\ kill' = on
  /\ reopened' = (reopened \/ (latched /\ ~on))
  /\ UNCHANGED <<pc, provider, turnVars, failures, latched, alerts>>

RoundStep ==
  \/ SkipRound
  \/ BeginRound
  \/ BuildContext
  \/ AskModel
  \/ AttemptFails
  \/ ChatFails
  \/ ModelAnswers
  \/ RunTool(SetPriceAlert)
  \/ RunTool(CancelPriceAlert)
  \/ RunTool(OtherTool)
  \/ RecordTool
  \/ Decide
  \/ EndGood
  \/ FailRound
  \/ EndFailed
  \/ LockIfFailing
  \/ ReturnFromRound

LoopNext ==
  \/ pc = "idle" /\ Call
  \/ RoundStep
  \/ \E p \in Providers : SetProvider(p)
  \/ \E a \in Lines : AlertFires(a)
  \/ OrphanWrite
  \/ \E on \in BOOLEAN : OperatorMoves(on)

-----------------------------------------------------------------------------
(* Properties.                                                             *)

Over == {"drain", "raised"} \* the round has left all it will leave

(* The trail of a round can be trusted: a round that ended has its         *)
(* decision; one that ended well has every answer and every tool call in   *)
(* the trail; and a round that no database fault hit ends, with its        *)
(* failed attempts' answers kept too.                                      *)
TrailWhole ==
  /\ status \in {"ok", "error"} => decided
  /\ status = "ok" => kept = answers /\ recorded = ran
  /\ pc \in Over /\ model # NoProvider /\ ~broken =>
       status \in {"ok", "error"} /\ kept = answers /\ recorded = ran

(* After max_consecutive_failures failed rounds in a row the lock that the *)
(* checks of every write read is engaged when the round returns, unless a  *)
(* database fault cut the round short, or the operator has released the    *)
(* lock since the agent first engaged it: from then on _engage_lock, being *)
(* latched, does nothing (TradeWrite's EngageLocks is about that).         *)
FailuresLock ==
  pc \in Over /\ failures >= MaxFailures /\ ~broken => kill \/ reopened
=============================================================================
