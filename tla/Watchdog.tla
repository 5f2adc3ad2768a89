------------------------------ MODULE Watchdog ------------------------------
(***************************************************************************)
(* The network-stall watchdog (torrentd/netwatchdog.go and recoveryLoop in *)
(* torrentd/engine.go).  The log writer counts uTP resend failures; every  *)
(* check interval recoveryLoop drains the counter into a ring of buckets   *)
(* and rebuilds the torrent client when the ring holds a storm of errors,  *)
(* but not within the back-off of the previous rebuild.  What a rebuild    *)
(* does is module Registry; here it is an interval of time.                *)
(*                                                                         *)
(* Time passes in units.  The loop serves a tick before more time passes   *)
(* unless it is rebuilding: a ticker keeps one tick and drops the others.  *)
(***************************************************************************)
EXTENDS Integers, Functions

CONSTANTS
  Interval,    \* recoveryCheckInterval, in units of time
  Buckets,     \* recoveryWindowBuckets
  Threshold,   \* recoveryErrorThreshold
  Backoff,     \* recoveryBackoff, in units of time
  MaxErrors    \* bound: errors counted between two drains

(* In the code 10 s, 3, 30 and 60 s: the back-off outlasts the window.      *)
ASSUME WatchdogAssumption ==
  /\ Interval \in Nat \ {0} /\ Buckets \in Nat \ {0} /\ Threshold \in Nat \ {0}
  /\ Backoff \in Nat /\ Backoff > Buckets * Interval
  /\ MaxErrors \in Nat

VARIABLES
  count,    \* resendErrorMonitor.count
  window,   \* the errors drained at each of the last Buckets ticks
  idx,      \* the bucket the next tick fills
  since,    \* time since lastRebuild; Backoff stands for any longer time
  toTick,   \* time until the ticker fires
  tick,     \* a tick is in the ticker's channel
  verdict,  \* what the last tick decided
  pc,       \* recoveryLoop: "waiting", "rebuilding" or "exited"
  done,     \* e.done is closed
  stale     \* history: the buckets, and -1 for the counter, that hold errors
            \* counted before the last rebuild ended

monitor == <<count, stale>>
ticker  == <<toTick, tick>>
vars == <<count, window, idx, since, toTick, tick, verdict, pc, done, stale>>

Bucket  == 0..(Buckets - 1)
Counter == -1
Verdict == {"none", "report", "coolDown", "rebuild"}

TypeOK ==
  /\ count \in 0..MaxErrors
  /\ window \in [Bucket -> 0..MaxErrors]
  /\ idx \in Bucket
  /\ since \in 0..Backoff
  /\ toTick \in 1..Interval
  /\ tick \in BOOLEAN
  /\ verdict \in Verdict
  /\ pc \in {"waiting", "rebuilding", "exited"}
  /\ done \in BOOLEAN
  /\ stale \subseteq Bucket \cup {Counter}

Sum(w) == FoldFunction(+, 0, w)

Init ==
  /\ count = 0 /\ window = [i \in Bucket |-> 0] /\ idx = 0
  /\ since = Backoff                \* lastRebuild is the zero time
  /\ toTick = Interval /\ tick = FALSE
  /\ verdict = "none" /\ pc = "waiting" /\ done = FALSE
  /\ stale = {}

-----------------------------------------------------------------------------
(* A resend failure that names a routing problem is counted.                *)
Write ==
  /\ count < MaxErrors
  /\ count' = count + 1
  /\ UNCHANGED <<window, idx, since, ticker, verdict, pc, done, stale>>

Elapse ==
  /\ pc = "rebuilding" \/ (pc = "waiting" /\ ~tick)
  /\ since' = IF since < Backoff THEN since + 1 ELSE Backoff
  /\ toTick' = IF toTick = 1 THEN Interval ELSE toTick - 1
  /\ tick' = (tick \/ toTick = 1)
  /\ UNCHANGED <<monitor, window, idx, verdict, pc, done>>

DecisionSwapped(sum, elapsed) ==  \* mutant: the cool-down case first
  CASE sum >= Threshold             -> "coolDown"
    [] 0 < sum /\ sum < Threshold   -> "report"
    [] OTHER                        -> "none"

DecisionStrict(sum, elapsed) ==   \* mutant: off by one
  CASE sum > Threshold /\ elapsed >= Backoff -> "rebuild"
    [] sum > Threshold /\ elapsed < Backoff  -> "coolDown"
    [] OTHER                                 -> "none"

RecoveryDecision(sum, elapsed) ==
  CASE sum >= Threshold /\ elapsed >= Backoff -> "rebuild"
    [] sum >= Threshold /\ elapsed < Backoff  -> "coolDown"
    [] 0 < sum /\ sum < Threshold             -> "report"
    [] OTHER                                  -> "none"

Advance(i) == IF i = Buckets - 1 THEN 0 ELSE i + 1

(* The errors of the counter move to bucket idx, stale or not.              *)
Drained == (stale \ {Counter, idx}) \cup (IF Counter \in stale THEN {idx} ELSE {})

Tick ==
  /\ pc = "waiting" /\ tick
  /\ tick' = FALSE
  /\ count' = 0
  /\ window' = [window EXCEPT ![idx] = count]
  /\ idx' = Advance(idx)
  /\ verdict' = RecoveryDecision(Sum(window'), since)
  /\ pc' = IF verdict' = "rebuild" THEN "rebuilding" ELSE "waiting"
  /\ stale' = Drained
  /\ UNCHANGED <<since, toTick, done>>

RebuildUnstamped ==               \* mutant: lastRebuild is not set
  /\ pc = "rebuilding"
  /\ pc' = "waiting"
  /\ window' = [i \in Bucket |-> 0]
  /\ stale' = IF count > 0 THEN {Counter} ELSE {}
  /\ UNCHANGED <<count, idx, since, ticker, verdict, done>>

RebuildEnds ==
  /\ pc = "rebuilding"
  /\ pc' = "waiting"
  /\ since' = 0
  /\ window' = [i \in Bucket |-> 0]
  /\ stale' = IF count > 0 THEN {Counter} ELSE {}
  /\ UNCHANGED <<count, idx, ticker, verdict, done>>

CloseDone ==
  /\ ~done
  /\ done' = TRUE
  /\ UNCHANGED <<monitor, window, idx, since, ticker, verdict, pc>>

Exit ==
  /\ pc = "waiting" /\ done
  /\ pc' = "exited"
  /\ UNCHANGED <<monitor, window, idx, since, ticker, verdict, done>>

Exited == pc = "exited" /\ UNCHANGED vars

Next == Write \/ Elapse \/ Tick \/ RebuildEnds \/ CloseDone \/ Exit \/ Exited

Spec == Init /\ [][Next]_vars

(* Time passes, the loop is scheduled and a rebuild ends.                   *)
Fairness == WF_vars(Elapse) /\ WF_vars(Tick) /\ WF_vars(RebuildEnds) /\ WF_vars(Exit)

FairSpec == Spec /\ Fairness

-----------------------------------------------------------------------------
(* A rebuild answers a new storm: none of the errors it is decided on was   *)
(* counted before the previous rebuild ended, although the counter runs on  *)
(* during a rebuild and is not reset by it.                                 *)
RebuildEarned ==
  [][pc = "waiting" /\ pc' = "rebuilding"
       => \A i \in stale' : window'[i] = 0]_vars

(* A cool-down is not for ever: under a storm that lasts, the back-off runs *)
(* out and the client is rebuilt.                                           *)
CoolDownEnds == verdict = "coolDown" ~> verdict # "coolDown" \/ pc = "exited"

(* A storm is not missed: outside the back-off, a storm that is spread over *)
(* the counter and the buckets the next tick keeps leads to a rebuild.      *)
Storm ==
  /\ pc = "waiting" /\ since = Backoff
  /\ Sum([window EXCEPT ![idx] = count]) >= Threshold

StormRebuilds == Storm ~> pc \in {"rebuilding", "exited"}

-----------------------------------------------------------------------------
(* Why RebuildEarned holds.  Errors that are left in the counter when a     *)
(* rebuild ends reach a bucket within one interval, and are overwritten     *)
(* Buckets ticks later: both before the back-off is over.                   *)
Age(i) == IF idx > i THEN idx - i ELSE (idx - i) + Buckets

Within(limit) == IF tick THEN since <= limit ELSE since + toTick <= limit

StaleIsYoung ==
  /\ pc = "rebuilding" => stale = {}
  /\ Counter \in stale => stale = {Counter} /\ Within(Interval)
  /\ \A i \in Bucket : i \in stale =>
       /\ stale = {i}
       /\ Within((Age(i) + 1) * Interval)
       /\ tick => toTick = Interval

WInv == TypeOK /\ StaleIsYoung
=============================================================================
