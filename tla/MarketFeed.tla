----------------------------- MODULE MarketFeed -----------------------------
(***************************************************************************)
(* The market data of the process: the websocket feed and its supervisor   *)
(* (market/feed.py), the cache of bars that its pushes and the REST        *)
(* backfill write (market/candles.py), and the watchdog that heals a key    *)
(* whose bars have stopped.                                                *)
(*                                                                         *)
(* A key stands for a (contract, interval).  Time is counted in bars: "now"*)
(* is the bar that the exchange is forming, and a bar is its open time and *)
(* whether the value is the one it closed with.  One interval is modelled: *)
(* the keys are of one interval, or seen each in its own unit.             *)
(***************************************************************************)
EXTENDS Naturals, Sequences, FiniteSets

CONSTANTS
  Keys,        \* the cached (contract, interval) pairs
  Rejected,    \* those that REST refuses every time
  Start,       \* the bar that is forming when the process starts
  Depth,       \* REST_CANDLE_LIMIT and maxlen: how many bars are kept
  Multiplier,  \* STALE_MULTIPLIER
  MaxNow,      \* bound: the last bar
  MaxWire,     \* bound: messages under way
  MaxFaults    \* bound: REST calls that fail for another reason than Rejected

VARIABLES
  now,       \* the bar that is forming at the exchange
  bars,      \* _bars: the cached bars of a key, oldest first
  feed,      \* the supervisor: "boot", "run" (conn.run), "backoff", "stopped"
  wire,      \* messages of the connection that have not been handled
  todo,      \* the stale keys that the watchdog has not come to in this pass
  fetching,  \* what its REST call has read for a key, or Nothing
  faults,    \* how many REST calls have failed
  spoiled,   \* history: a close was handled or lost since REST was read
  torn       \* history: keys that a close was lost for, or written over

cache == <<bars, feed, wire>>
rest == <<todo, fetching, faults>>
history == <<spoiled, torn>>
vars == <<now, cache, rest, history>>

Bar(t, closed) == [t |-> t, closed |-> closed]
Nothing == [key |-> "none"]

Last(s) == s[Len(s)]
Keep(s) == IF Len(s) > Depth THEN SubSeq(s, Len(s) - Depth + 1, Len(s)) ELSE s

(* What REST returns now: the bar that is forming is not closed.           *)
History == Keep([t \in 1..now |-> Bar(t, t < now)])

Init ==
  /\ now = Start
  /\ bars = [k \in Keys |-> <<>>]
  /\ feed = "boot" /\ wire = <<>>
  /\ todo = {} /\ fetching = Nothing /\ faults = 0
  /\ spoiled = FALSE /\ torn = {}

-----------------------------------------------------------------------------
(* Startup: a key whose REST call fails is skipped, its bars then come one *)
(* by one from the pushes; the feed starts when every key has been tried.  *)
Backfill ==
  /\ feed = "boot" /\ feed' = "run"
  /\ \E failed \in SUBSET Keys :
       /\ Rejected \subseteq failed
       /\ faults' = faults + Cardinality(failed \ Rejected)
       /\ faults' <= MaxFaults
       /\ bars' = [k \in Keys |-> IF k \in failed THEN <<>> ELSE History]
  /\ UNCHANGED <<now, wire, todo, fetching, history>>

-----------------------------------------------------------------------------
(* The exchange pushes the forming bar, and each bar once more when it has *)
(* closed; the closes that no connection carries are lost.                 *)
LoseCloses == torn' = Keys /\ spoiled' = TRUE

RollOver ==
  /\ feed # "boot" /\ now < MaxNow /\ now' = now + 1
  /\ \/ /\ feed = "run" /\ Len(wire) < MaxWire
        /\ wire' = Append(wire, [k \in Keys |-> Bar(now, TRUE)])
        /\ UNCHANGED history
     \/ /\ feed # "run"
        /\ LoseCloses
        /\ UNCHANGED wire
  /\ UNCHANGED <<bars, feed, rest>>

(* A message is its readable entries: the others are skipped (the closes   *)
(* that cannot be read are skipped below, where a bar goes missing).       *)
Push ==
  /\ feed = "run" /\ Len(wire) < MaxWire
  /\ \E readable \in (SUBSET Keys) \ {{}} :
       wire' = Append(wire, [k \in readable |-> Bar(now, FALSE)])
  /\ UNCHANGED <<now, bars, feed, rest, history>>

-----------------------------------------------------------------------------
(* CandleCache.on_candle.                                                  *)
OnCandleFirst(s, bar) ==   \* mutant: the first value of a bar stays
  IF s = <<>> \/ bar.t > Last(s).t THEN Keep(Append(s, bar)) ELSE s
OnCandle(s, bar) ==
  IF s = <<>> \/ bar.t > Last(s).t THEN Keep(Append(s, bar))
  ELSE IF bar.t = Last(s).t THEN [s EXCEPT ![Len(s)] = bar]
  ELSE s

(* _handle_candle: the entries of one message; a close that cannot be read *)
(* is skipped, and lost if the bars did not have it yet.                   *)
Closes(msg) == \E k \in DOMAIN msg : msg[k].closed

HandleCandle ==
  /\ feed = "run" /\ wire # <<>>
  /\ LET msg == Head(wire)
     IN \E skipped \in SUBSET {k \in DOMAIN msg : msg[k].closed} :
          /\ bars' = [k \in Keys |-> IF k \in DOMAIN msg \ skipped
                                    THEN OnCandle(bars[k], msg[k]) ELSE bars[k]]
          /\ torn' = torn \cup {k \in skipped : OnCandle(bars[k], msg[k]) # bars[k]}
  /\ wire' = Tail(wire)
  /\ spoiled' = (spoiled \/ Closes(Head(wire)))
  /\ UNCHANGED <<now, feed, rest>>

(* The connection ends, by itself or by stop(): what was under way is lost.*)
Drop ==
  /\ wire' = <<>>
  /\ IF \E i \in DOMAIN wire : Closes(wire[i]) THEN LoseCloses ELSE UNCHANGED history
  /\ UNCHANGED <<now, bars, rest>>

ConnectionEnds == feed = "run" /\ feed' = "backoff" /\ Drop
StopFeed == feed \in {"run", "backoff"} /\ feed' = "stopped" /\ Drop

Reconnect ==
  /\ feed = "backoff" /\ feed' = "run"
  /\ UNCHANGED <<now, bars, wire, rest, history>>

-----------------------------------------------------------------------------
(* staleness > Multiplier * interval: no new bar for so many intervals     *)
(* after the close of the last one.  A key without bars is not stale.      *)
Stale(k) == bars[k] # <<>> /\ now - Last(bars[k]).t > Multiplier
StaleKeys == {k \in Keys : Stale(k)}

(* stale_watchdog: a pass over the keys that are stale when it begins.     *)
WatchdogWakes ==
  /\ feed # "boot" /\ todo = {} /\ fetching = Nothing
  /\ todo' = StaleKeys /\ todo' # {}
  /\ UNCHANGED <<now, cache, fetching, faults, history>>

(* backfill_async: the REST call is made in the worker thread.             *)
Fetch ==
  /\ fetching = Nothing
  /\ \E k \in todo \ Rejected : fetching' = [key |-> k, history |-> History]
  /\ spoiled' = FALSE
  /\ UNCHANGED <<now, cache, todo, faults, torn>>

(* The event loop takes the result over: it replaces the bars, whatever    *)
(* pushes have made of them in the meantime.                               *)
FetchLands ==
  /\ fetching # Nothing /\ fetching' = Nothing
  /\ LET k == fetching.key
     IN /\ bars' = [bars EXCEPT ![k] = fetching.history]
        /\ todo' = todo \ {k}
        /\ torn' = IF spoiled THEN torn \cup {k} ELSE torn \ {k}
  /\ UNCHANGED <<now, feed, wire, faults, spoiled>>

(* The call fails: the next key has its turn, this one the next pass.      *)
GiveUpPass(k) == todo' = {}   \* mutant: one failing key ends the pass
GiveUp(k) == todo' = todo \ {k}

FetchFails ==
  /\ fetching = Nothing
  /\ \E k \in todo :
       /\ faults' = IF k \in Rejected THEN faults ELSE faults + 1
       /\ faults' <= MaxFaults
       /\ GiveUp(k)
  /\ UNCHANGED <<now, cache, fetching, history>>

-----------------------------------------------------------------------------
Next ==
  \/ Backfill
  \/ RollOver
  \/ Push
  \/ HandleCandle
  \/ ConnectionEnds
  \/ StopFeed
  \/ Reconnect
  \/ WatchdogWakes
  \/ Fetch
  \/ FetchLands
  \/ FetchFails

Spec == Init /\ [][Next]_vars

(* The watchdog is a task of its own and every REST call ends, with bars   *)
(* or an error (its timeout); only Rejected keys fail for ever.            *)
Fairness ==
  /\ WF_vars(WatchdogWakes)
  /\ WF_vars(Fetch \/ FetchFails)
  /\ WF_vars(FetchLands)

-----------------------------------------------------------------------------
(* Properties.                                                             *)

(* No bar is missing between two, and only the last is not closed.         *)
Whole(s) ==
  \A i \in 1..(Len(s) - 1) : s[i].closed /\ s[i + 1].t = s[i].t + 1

(* The bars of a key are whole unless the close of one was lost with a     *)
(* connection, could not be read, or was handled while REST was read and   *)
(* then written over; and a heal that nothing came between makes them      *)
(* whole again.                                                            *)
TornOnlyByLoss == \A k \in Keys \ torn : Whole(bars[k])

(* A key that has gone stale is healed, whatever REST does with others     *)
(* (the watchdog's isolation of one key from the next).                    *)
StaleHealed == \A k \in Keys \ Rejected : Stale(k) ~> ~Stale(k)
=============================================================================
