--------------------------- MODULE WatchdogProofs ---------------------------
(***************************************************************************)
(* The watchdog never rebuilds the client on errors it has already         *)
(* answered, for any interval, window, threshold and any back-off longer   *)
(* than the window.                                                        *)
(***************************************************************************)
EXTENDS Watchdog, TLAPS

(* A unit of time that passes and is no longer waited for.                  *)
LEMMA OneUnit ==
  ASSUME NEW s \in Nat, NEW t \in Nat, NEW s1 \in Nat, NEW limit \in Nat,
         t >= 1, s1 <= s + 1, s + t <= limit
  PROVE  s1 + (t - 1) <= limit
  OBVIOUS

USE WatchdogAssumption

(* The age of a bucket, and multiples of the interval.                      *)
LEMMA Multiples ==
  /\ \A n \in Nat : (n + 1) * Interval = n * Interval + Interval
  /\ \A n \in Nat : n * Interval \in Nat
  /\ \A n \in 1..Buckets : Interval <= n * Interval /\ n * Interval <= Buckets * Interval
<1>1. \A n \in Nat : (n + 1) * Interval = n * Interval + Interval /\ n * Interval \in Nat
  OBVIOUS
<1>2. ASSUME NEW n \in 1..Buckets
      PROVE  Interval <= n * Interval /\ n * Interval <= Buckets * Interval
  <2>1. /\ n * Interval = (n - 1) * Interval + Interval
        /\ (n - 1) * Interval \in Nat
    BY <1>1
  <2>2. /\ Buckets * Interval = n * Interval + (Buckets - n) * Interval
        /\ (Buckets - n) * Interval \in Nat /\ n * Interval \in Nat
    OBVIOUS
  <2> QED
    BY <2>1, <2>2
<1> QED
  BY <1>1, <1>2

LEMMA TypeInit == Init => TypeOK
<1> SUFFICES ASSUME Init PROVE TypeOK
  OBVIOUS
<1>1. 0 \in Bucket /\ 0 \in 0..MaxErrors
  BY DEF Bucket
<1>2. window \in [Bucket -> 0..MaxErrors] /\ stale = {}
  BY <1>1 DEF Init
<1>3. /\ count \in 0..MaxErrors /\ since \in 0..Backoff /\ toTick \in 1..Interval
      /\ idx \in Bucket
  BY <1>1 DEF Init
<1>4. stale \subseteq Bucket \cup {Counter}
  BY <1>2
<1>5. verdict \in Verdict /\ pc \in {"waiting", "rebuilding", "exited"}
  BY DEF Init, Verdict
<1>6. tick \in BOOLEAN /\ done \in BOOLEAN
  BY DEF Init
<1> QED
  BY <1>2, <1>3, <1>4, <1>5, <1>6 DEF TypeOK

LEMMA TypeNext == TypeOK /\ [Next]_vars => TypeOK'
<1> SUFFICES ASSUME TypeOK, [Next]_vars PROVE TypeOK'
  OBVIOUS
<1> USE DEF TypeOK
<1>1. CASE Write
  BY <1>1 DEF Write, ticker
<1>2. CASE Elapse
  BY <1>2 DEF Elapse, monitor
<1>3. CASE Tick
  <2>1. verdict' \in Verdict
    BY <1>3 DEF Tick, RecoveryDecision, Verdict
  <2>2. idx' \in Bucket
    BY <1>3 DEF Tick, Advance, Bucket
  <2>4. stale' \subseteq Bucket \cup {Counter}
    BY <1>3 DEF Tick, Drained
  <2>5. window' \in [Bucket -> 0..MaxErrors] /\ count' \in 0..MaxErrors
    BY <1>3 DEF Tick
  <2>3. pc' \in {"waiting", "rebuilding", "exited"}
    BY <1>3 DEF Tick
  <2> QED
    BY <1>3, <2>1, <2>2, <2>3, <2>4, <2>5 DEF Tick
<1>4. CASE RebuildEnds
  BY <1>4 DEF RebuildEnds, ticker
<1>5. CASE CloseDone
  BY <1>5 DEF CloseDone, monitor, ticker
<1>6. CASE Exit
  BY <1>6 DEF Exit, monitor, ticker
<1>7. CASE Exited \/ UNCHANGED vars
  BY <1>7 DEF Exited, vars
<1> QED
  BY <1>1, <1>2, <1>3, <1>4, <1>5, <1>6, <1>7 DEF Next

(* Every variable keeps its type.                                           *)
THEOREM WatchdogTypeCorrect == Spec => []TypeOK
  BY TypeInit, TypeNext, PTL DEF Spec

-----------------------------------------------------------------------------
(* A tick that moves errors counted before the last rebuild ended, or finds *)
(* a bucket that holds some, is within the back-off.                        *)
LEMMA TickOfStale ==
  ASSUME TypeOK, StaleIsYoung, Tick, stale' # {}
  PROVE  /\ verdict' # "rebuild"
         /\ \E i \in Bucket :
              /\ stale' = {i}
              /\ since <= (IF Counter \in stale THEN 1 ELSE Age(i) + 1) * Interval
              /\ Counter \in stale => i = idx
              /\ Counter \notin stale => i # idx /\ toTick = Interval
<1> USE DEF TypeOK
<1>1. PICK i \in stale' : TRUE
  OBVIOUS
<1>2. CASE Counter \in stale
  <2>1. stale' = {idx} /\ since <= Interval
    BY <1>2 DEF Tick, Drained, StaleIsYoung, Within, Bucket, Counter
  <2>2. since < Backoff
    BY <2>1, Multiples
  <2>3. verdict' # "rebuild"
    BY <2>2 DEF Tick, RecoveryDecision
  <2> QED
    BY <1>2, <2>1, <2>3
<1>3. CASE Counter \notin stale
  <2>1. /\ i \in Bucket /\ i # idx /\ stale = {i} /\ stale' = {i}
        /\ since <= (Age(i) + 1) * Interval /\ toTick = Interval
    BY <1>1, <1>3 DEF Tick, Drained, StaleIsYoung, Within
  <2>2. Age(i) + 1 \in 1..Buckets
    BY <2>1 DEF Age, Bucket
  <2>3. (Age(i) + 1) * Interval <= Buckets * Interval /\ (Age(i) + 1) * Interval \in Nat
    BY <2>2, Multiples
  <2>4. since < Backoff
    BY <2>1, <2>3
  <2>5. verdict' # "rebuild"
    BY <2>4 DEF Tick, RecoveryDecision
  <2> QED
    BY <1>3, <2>1, <2>5
<1> QED
  BY <1>2, <1>3

LEMMA YoungTick ==
  ASSUME TypeOK, StaleIsYoung, Tick
  PROVE  StaleIsYoung'
<1> USE DEF TypeOK
<1>1. CASE stale' = {}
  BY <1>1 DEF StaleIsYoung
<1>2. CASE stale' # {}
  <2>1. PICK i \in Bucket :
          /\ stale' = {i}
          /\ since <= (IF Counter \in stale THEN 1 ELSE Age(i) + 1) * Interval
          /\ Counter \in stale => i = idx
          /\ Counter \notin stale => i # idx /\ toTick = Interval
    BY <1>2, TickOfStale
  <2>2. pc' = "waiting" /\ ~tick' /\ since' = since /\ toTick' = toTick /\ idx' = Advance(idx)
    BY <1>2, TickOfStale DEF Tick
  <2>3. Counter \notin stale'
    BY <2>1 DEF Bucket, Counter
  <2>4. Age(i)' = IF Counter \in stale THEN 1 ELSE Age(i) + 1
    <3>1. Age(i)' = IF Advance(idx) > i THEN Advance(idx) - i ELSE (Advance(idx) - i) + Buckets
      BY <2>2 DEF Age
    <3> QED
      BY <2>1, <3>1 DEF Age, Advance, Bucket
  <2>5. Age(i)' \in Nat
    BY <2>1, <2>4 DEF Age, Bucket
  <2>6. (Age(i)' + 1) * Interval = Age(i)' * Interval + Interval /\ Age(i)' * Interval \in Nat
    BY <2>5, Multiples
  <2>7. since <= Age(i)' * Interval
    BY <2>1, <2>4
  <2>8. since + toTick <= (Age(i)' + 1) * Interval
    BY <2>6, <2>7
  <2>9. Within((Age(i) + 1) * Interval)'
    BY <2>2, <2>8 DEF Within
  <2> QED
    BY <2>1, <2>2, <2>3, <2>9 DEF StaleIsYoung
<1> QED
  BY <1>1, <1>2

LEMMA YoungElapse ==
  ASSUME TypeOK, StaleIsYoung, Elapse
  PROVE  StaleIsYoung'
<1> USE DEF TypeOK
<1>1. /\ UNCHANGED <<stale, idx, pc>>
      /\ since' \in Nat /\ since' <= since + 1
      /\ pc = "waiting" => ~tick
  BY DEF Elapse, monitor
<1>2. ASSUME NEW limit \in Nat, since + toTick <= limit, ~tick
      PROVE  /\ IF tick' THEN since' <= limit ELSE since' + toTick' <= limit
             /\ tick' => toTick' = Interval
  <2>1. /\ tick' => toTick = 1
        /\ toTick' = IF toTick = 1 THEN Interval ELSE toTick - 1
        /\ toTick = 1 => tick'
    BY <1>2 DEF Elapse
  <2>2. toTick \in Nat /\ since \in Nat /\ toTick >= 1
    OBVIOUS
  <2>3. CASE tick'
    <3>1. toTick' = Interval /\ since' <= since + toTick
      BY <1>1, <2>1, <2>2, <2>3
    <3> QED
      BY <1>1, <1>2, <2>2, <2>3, <3>1
  <2>4. CASE ~tick'
    <3>1. toTick' = toTick - 1
      BY <2>1, <2>4
    <3>2. since' + (toTick - 1) <= limit
      BY <1>1, <1>2, <2>2, OneUnit
    <3>3. since' + toTick' <= limit
      BY <3>1, <3>2
    <3> QED
      BY <2>4, <3>3
  <2> QED
    BY <2>3, <2>4
<1>3. CASE stale = {}
  BY <1>1, <1>3 DEF StaleIsYoung
<1>4. CASE stale # {}
  <2>1. ~tick /\ pc = "waiting"
    BY <1>1, <1>4 DEF StaleIsYoung, Elapse
  <2>2. Counter \in stale => Within(Interval)'
    BY <1>2, <2>1 DEF StaleIsYoung, Within
  <2>3. ASSUME NEW i \in Bucket, i \in stale
        PROVE  Within((Age(i) + 1) * Interval)' /\ (tick' => toTick' = Interval)
    <3>1. Age(i) \in Nat /\ Age(i)' = Age(i)
      BY <1>1 DEF Age, Bucket
    <3>2. (Age(i) + 1) * Interval \in Nat
      BY <3>1, Multiples
    <3>3. Within((Age(i) + 1) * Interval)
      BY <2>3 DEF StaleIsYoung
    <3>4. Within((Age(i) + 1) * Interval)' <=> (IF tick' THEN since' <= (Age(i) + 1) * Interval
                                               ELSE since' + toTick' <= (Age(i) + 1) * Interval)
      BY <3>1 DEF Within
    <3>5. since + toTick <= (Age(i) + 1) * Interval
      BY <2>1, <3>3 DEF Within
    <3> QED
      BY <1>2, <2>1, <3>2, <3>4, <3>5
  <2> QED
    BY <1>1, <2>1, <2>2, <2>3 DEF StaleIsYoung
<1> QED
  BY <1>3, <1>4

LEMMA YoungNext == TypeOK /\ StaleIsYoung /\ [Next]_vars => StaleIsYoung'
<1> SUFFICES ASSUME TypeOK, StaleIsYoung, [Next]_vars PROVE StaleIsYoung'
  OBVIOUS
<1>1. CASE RebuildEnds
  <2>1. stale' \subseteq {Counter} /\ pc' = "waiting"
    BY <1>1 DEF RebuildEnds
  <2>2. Within(Interval)'
    BY <1>1 DEF RebuildEnds, Within, TypeOK, ticker
  <2>3. Counter \notin Bucket
    BY DEF Counter, Bucket
  <2> QED
    BY <2>1, <2>2, <2>3 DEF StaleIsYoung
<1>2. ASSUME UNCHANGED <<stale, idx, since, ticker>>, pc' = "rebuilding" => pc = "rebuilding"
      PROVE  StaleIsYoung'
  BY <1>2 DEF StaleIsYoung, Within, Age, ticker
<1>3. CASE Write \/ CloseDone \/ Exit \/ Exited \/ UNCHANGED vars
  BY <1>2, <1>3 DEF Write, CloseDone, Exit, Exited, vars, monitor, ticker
<1> QED
  BY <1>1, <1>3, YoungTick, YoungElapse DEF Next

LEMMA WInvInit == Init => WInv
  BY TypeInit DEF Init, WInv, StaleIsYoung

(* The strengthening is an invariant.                                       *)
THEOREM WatchdogInductive == Spec => []WInv
  BY WInvInit, TypeNext, YoungNext, PTL DEF Spec, WInv

(* A rebuild is decided only on errors counted after the previous one.      *)
THEOREM RebuildsEarned == Spec => RebuildEarned
<1>1. ASSUME WInv, [Next]_vars, pc = "waiting", pc' = "rebuilding"
      PROVE  stale' = {}
  <2>1. Tick
    BY <1>1 DEF Next, Write, Elapse, RebuildEnds, CloseDone, Exit, Exited, vars
  <2>2. verdict' = "rebuild"
    BY <1>1, <2>1 DEF Tick
  <2> QED
    BY <1>1, <2>1, <2>2, TickOfStale DEF WInv
<1>2. WInv /\ [Next]_vars =>
        [pc = "waiting" /\ pc' = "rebuilding" => \A i \in stale' : window'[i] = 0]_vars
  BY <1>1
<1> QED
  BY <1>2, WatchdogInductive, PTL DEF Spec, RebuildEarned
=============================================================================
