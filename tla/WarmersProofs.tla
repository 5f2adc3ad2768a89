---------------------------- MODULE WarmersProofs ----------------------------
(***************************************************************************)
(* Proofs about Selection and Warmers.  First that the recursive functions  *)
(* of Selection exist and compute what they should, for every file list;   *)
(* then the warmers, for every torrent and any number of callers, workers  *)
(* and contexts.                                                           *)
(***************************************************************************)
EXTENDS Warmers, FiniteSetTheorems, TLAPS

-----------------------------------------------------------------------------
(* Induction over numbers, as facts about sets.                             *)
LEMMA LeastNatural ==
  ASSUME NEW S, S \subseteq Nat, S # {}
  PROVE  \E m \in S : \A k \in S : m <= k
<1> DEFINE T == {0..k : k \in S}
<1>1. T \subseteq FiniteSubsetsOf(Nat) /\ T # {}
  <2>1. \A k \in S : 0..k \subseteq Nat /\ IsFiniteSet(0..k)
    BY FS_Interval
  <2> QED
    BY <2>1 DEF FiniteSubsetsOf
<1>2. PICK x \in T : \A y \in T : ~(<<y, x>> \in StrictSubsetOrdering(Nat))
  <2> HIDE DEF T
  <2> QED
    BY <1>1, FS_StrictSubsetOrderingWellFounded, WFMin
<1>3. PICK m \in S : x = 0..m
  BY <1>2
<1>4. ASSUME NEW k \in S, k < m PROVE FALSE
  <2>1. 0..k \in T /\ 0..k \subseteq Nat /\ 0..m \subseteq Nat
    OBVIOUS
  <2>2. 0..k \subseteq 0..m /\ m \in 0..m /\ m \notin 0..k
    BY <1>4
  <2>3. <<0..k, 0..m>> \in StrictSubsetOrdering(Nat)
    BY <2>1, <2>2 DEF StrictSubsetOrdering
  <2> QED
    BY <1>2, <1>3, <2>1, <2>3
<1> QED
  BY <1>4

LEMMA CountUp ==
  ASSUME NEW n \in Nat, NEW T, 0 \in T, \A k \in 0..(n - 1) : k \in T => k + 1 \in T
  PROVE  0..n \subseteq T
<1> DEFINE Out == (0..n) \ T
<1>1. SUFFICES ASSUME Out # {} PROVE FALSE
  OBVIOUS
<1>2. PICK m \in Out : \A k \in Out : m <= k
  <2>1. Out \subseteq Nat
    OBVIOUS
  <2> HIDE DEF Out
  <2> QED
    BY <1>1, <2>1, LeastNatural
<1>3. m - 1 \in 0..(n - 1) /\ m - 1 \notin Out
  BY <1>2
<1> QED
  BY <1>2, <1>3

LEMMA CountDown ==
  ASSUME NEW n \in Nat, NEW T, n \in T, \A k \in 0..(n - 1) : k + 1 \in T => k \in T
  PROVE  0..n \subseteq T
<1> DEFINE U == {k \in 0..n : n - k \in T}
<1>1. 0 \in U /\ \A k \in 0..(n - 1) : k \in U => k + 1 \in U
  <2>1. ASSUME NEW k \in 0..(n - 1), n - k \in T PROVE n - (k + 1) \in T
    <3>1. n - (k + 1) \in 0..(n - 1) /\ n - (k + 1) + 1 = n - k
      OBVIOUS
    <3> QED
      BY <2>1, <3>1
  <2> QED
    BY <2>1
<1>2. 0..n \subseteq U
  <2> HIDE DEF U
  <2> QED
    BY <1>1, CountUp
<1>3. ASSUME NEW k \in 0..n PROVE k \in T
  <2>1. n - k \in U /\ n - (n - k) = k
    BY <1>2
  <2> QED
    BY <2>1
<1> QED
  BY <1>3

(* A function may be defined by its first value and how each one gives the  *)
(* next, or by its last value and how each one gives the one before.        *)
Steps(D, S) == [D -> [S -> S]]

GoesUp(g, n, S, start, step) ==
  g \in [0..n -> S] /\ g[0] = start /\ \A k \in 1..n : g[k] = step[k][g[k - 1]]

GoesDown(g, n, S, start, step) ==
  g \in [0..n -> S] /\ g[n] = start /\ \A k \in 0..(n - 1) : g[k] = step[k][g[k + 1]]

LEMMA RecursionUp ==
  ASSUME NEW n \in Nat, NEW S, NEW start \in S, NEW step \in Steps(1..n, S)
  PROVE  \E g : GoesUp(g, n, S, start, step)
<1> USE DEF Steps, GoesUp
<1> DEFINE T == {m \in 0..n : \E g \in [0..m -> S] :
                                g[0] = start /\ \A k \in 1..m : g[k] = step[k][g[k - 1]]}
<1>1. 0 \in T
  <2> DEFINE g == [k \in 0..0 |-> start]
  <2>1. g \in [0..0 -> S] /\ g[0] = start /\ \A k \in 1..0 : g[k] = step[k][g[k - 1]]
    OBVIOUS
  <2> HIDE DEF g
  <2> QED
    BY <2>1
<1>2. ASSUME NEW m \in 0..(n - 1), m \in T PROVE m + 1 \in T
  <2>1. PICK g \in [0..m -> S] : g[0] = start /\ \A k \in 1..m : g[k] = step[k][g[k - 1]]
    BY <1>2
  <2> DEFINE h == [k \in 0..(m + 1) |-> IF k = m + 1 THEN step[m + 1][g[m]] ELSE g[k]]
  <2>2. step[m + 1][g[m]] \in S
    OBVIOUS
  <2>3. h \in [0..(m + 1) -> S] /\ h[0] = start
    BY <2>1, <2>2
  <2>4. ASSUME NEW k \in 1..(m + 1) PROVE h[k] = step[k][h[k - 1]]
    <3>1. k - 1 \in 0..m /\ h[k - 1] = g[k - 1]
      OBVIOUS
    <3>2. CASE k = m + 1
      BY <3>1, <3>2
    <3>3. CASE k # m + 1
      <4>1. k \in 1..m /\ h[k] = g[k]
        BY <3>3
      <4> QED
        BY <2>1, <3>1, <4>1
    <3> QED
      BY <3>2, <3>3
  <2> HIDE DEF h
  <2> QED
    BY <2>3, <2>4
<1>3. n \in T
  <2>1. \A k \in 0..(n - 1) : k \in T => k + 1 \in T
    BY <1>2
  <2> HIDE DEF T
  <2>2. 0..n \subseteq T
    BY <1>1, <2>1, CountUp
  <2> QED
    BY <2>2
<1> QED
  BY <1>3

LEMMA RecursionDown ==
  ASSUME NEW n \in Nat, NEW S, NEW start \in S, NEW step \in Steps(0..(n - 1), S)
  PROVE  \E g : GoesDown(g, n, S, start, step)
<1> DEFINE back == [k \in 1..n |-> step[n - k]]
<1>1. back \in Steps(1..n, S)
  BY DEF Steps
<1>2. PICK h : GoesUp(h, n, S, start, back)
  <2> HIDE DEF back
  <2> QED
    BY <1>1, RecursionUp
<1> USE DEF GoesUp
<1> DEFINE g == [k \in 0..n |-> h[n - k]]
<1>3. ASSUME NEW k \in 0..(n - 1) PROVE g[k] = step[k][g[k + 1]]
  <2>1. n - k \in 1..n /\ n - (n - k) = k /\ n - (k + 1) = (n - k) - 1 /\ k + 1 \in 0..n
    OBVIOUS
  <2>2. h[n - k] = back[n - k][h[(n - k) - 1]]
    BY <1>2, <2>1
  <2>3. back[n - k] = step[k]
    BY <2>1
  <2>4. g[k + 1] = h[(n - k) - 1] /\ g[k] = h[n - k]
    BY <2>1
  <2> QED
    BY <2>2, <2>3, <2>4
<1>4. g \in [0..n -> S] /\ g[n] = start
  BY <1>2
<1> HIDE DEF g
<1> QED
  BY <1>3, <1>4 DEF GoesDown

-----------------------------------------------------------------------------
(* The recursive functions of Selection are well defined.                   *)
LEMMA FileListForm ==
  ASSUME NEW fs \in FileList
  PROVE  /\ Len(fs) \in Nat
         /\ \A k \in 1..Len(fs) : fs[k].length \in Nat /\ fs[k].video \in BOOLEAN
         /\ \A i \in Indexes(fs) : File(fs, i).length \in Nat
<1> DEFINE entry == [video : BOOLEAN, length : Nat]
<1>1. fs \in Seq(entry)
  BY DEF FileList
<1>2. Len(fs) \in Nat /\ \A k \in 1..Len(fs) : fs[k] \in entry
  <2> HIDE DEF entry
  <2> QED
    BY <1>1
<1>3. \A k \in 1..Len(fs) : fs[k].length \in Nat /\ fs[k].video \in BOOLEAN
  BY <1>2
<1>4. \A i \in Indexes(fs) : i + 1 \in 1..Len(fs)
  BY <1>2 DEF Indexes
<1> QED
  BY <1>2, <1>3, <1>4 DEF File

LEMMA OffsetSum ==
  ASSUME NEW fs \in FileList
  PROVE  /\ Offset(fs, 0) = 0
         /\ \A i \in 0..Len(fs) : Offset(fs, i) \in Nat
         /\ \A i \in Indexes(fs) : Offset(fs, i + 1) = Offset(fs, i) + File(fs, i).length
<1> DEFINE n == Len(fs)
           sum[k \in 0..n] == IF k = 0 THEN 0 ELSE sum[k - 1] + fs[k].length
           step == [k \in 1..n |-> [x \in Nat |-> x + fs[k].length]]
<1>0. n \in Nat /\ \A k \in 1..n : fs[k].length \in Nat
  BY FileListForm
<1>1. step \in Steps(1..n, Nat)
  BY <1>0 DEF Steps
<1>2. PICK g : GoesUp(g, n, Nat, 0, step)
  <2> HIDE DEF step, n
  <2> QED
    BY <1>0, <1>1, RecursionUp
<1>3. g = [k \in 0..n |-> IF k = 0 THEN 0 ELSE g[k - 1] + fs[k].length]
  <2>1. g \in [0..n -> Nat] /\ g[0] = 0 /\ \A k \in 1..n : g[k] = step[k][g[k - 1]]
    <3> HIDE DEF step
    <3> QED
      BY <1>2 DEF GoesUp
  <2>2. ASSUME NEW k \in 1..n PROVE g[k] = g[k - 1] + fs[k].length
    <3>1. g[k - 1] \in Nat
      BY <1>0, <2>1
    <3> QED
      BY <2>1, <3>1
  <2>3. ASSUME NEW k \in 0..n PROVE g[k] = IF k = 0 THEN 0 ELSE g[k - 1] + fs[k].length
    <3>1. CASE k = 0
      BY <2>1, <3>1
    <3>2. CASE k # 0
      BY <1>0, <2>2, <3>2
    <3> QED
      BY <3>1, <3>2
  <2> QED
    BY <2>1, <2>3
<1>4. sum = [k \in 0..n |-> IF k = 0 THEN 0 ELSE sum[k - 1] + fs[k].length]
  BY <1>3
<1>5. \A i : Offset(fs, i) = sum[i]
  BY DEF Offset
<1> HIDE DEF sum
<1>6. sum[0] = 0 /\ \A k \in 1..n : sum[k] = sum[k - 1] + fs[k].length
  BY <1>0, <1>4
<1>7. 0..n \subseteq {k \in 0..n : sum[k] \in Nat}
  <2> DEFINE T == {k \in 0..n : sum[k] \in Nat}
  <2>1. 0 \in T
    BY <1>0, <1>6
  <2>2. \A k \in 0..(n - 1) : k \in T => k + 1 \in T
    BY <1>0, <1>6
  <2> HIDE DEF T
  <2>3. 0..n \subseteq T
    BY <1>0, <2>1, <2>2, CountUp
  <2> QED
    BY <2>3 DEF T
<1>8. ASSUME NEW i \in Indexes(fs) PROVE sum[i + 1] = sum[i] + File(fs, i).length
  BY <1>0, <1>6 DEF Indexes, File
<1> QED
  BY <1>5, <1>6, <1>7, <1>8

(* A loop of selectPrimaryIndex, after k turns.                             *)
LEMMA LongestRight ==
  ASSUME NEW fs \in FileList, NEW among \in SUBSET Indexes(fs)
  PROVE  IF among = {} THEN Longest(fs, among) = NoFile
         ELSE /\ Longest(fs, among) \in among
              /\ \A j \in among :
                   /\ File(fs, j).length <= File(fs, Longest(fs, among)).length
                   /\ File(fs, j).length = File(fs, Longest(fs, among)).length => Longest(fs, among) <= j
<1> DEFINE n == Len(fs)
           Best == [index : Int, length : Int]
           none == [index |-> NoFile, length |-> -1]
           Turn(k, b) == IF k - 1 \in among /\ fs[k].length > b.length
                         THEN [index |-> k - 1, length |-> fs[k].length] ELSE b
           best[k \in 0..n] == IF k = 0 THEN [index |-> NoFile, length |-> -1]
                               ELSE IF k - 1 \in among /\ fs[k].length > best[k - 1].length
                               THEN [index |-> k - 1, length |-> fs[k].length]
                               ELSE best[k - 1]
           step == [k \in 1..n |-> [b \in Best |-> Turn(k, b)]]
<1>0. n \in Nat /\ (\A k \in 1..n : fs[k].length \in Nat) /\ none \in Best
  BY FileListForm DEF NoFile
<1>1. \A k \in 1..n, b \in Best : Turn(k, b) \in Best
  BY <1>0
<1>2. step \in Steps(1..n, Best)
  <2> HIDE DEF Turn, Best
  <2> QED
    BY <1>1 DEF Steps
<1>3. PICK g : GoesUp(g, n, Best, none, step)
  <2> HIDE DEF step, n, Best, none
  <2> QED
    BY <1>0, <1>2, RecursionUp
<1>4. \A k \in 1..n : g[k] = Turn(k, g[k - 1])
  <2> HIDE DEF Turn, Best
  <2>1. ASSUME NEW k \in 1..n PROVE k - 1 \in 0..n /\ step[k] = [b \in Best |-> Turn(k, b)]
    BY <1>0
  <2> HIDE DEF step
  <2> QED
    BY <1>3, <2>1 DEF GoesUp
<1>5. g = [k \in 0..n |-> IF k = 0 THEN [index |-> NoFile, length |-> -1]
                           ELSE IF k - 1 \in among /\ fs[k].length > g[k - 1].length
                           THEN [index |-> k - 1, length |-> fs[k].length]
                           ELSE g[k - 1]]
  <2>1. g \in [0..n -> Best] /\ g[0] = none
    <3> HIDE DEF step, Best, none
    <3> QED
      BY <1>3 DEF GoesUp
  <2>2. ASSUME NEW k \in 0..n
        PROVE  g[k] = IF k = 0 THEN [index |-> NoFile, length |-> -1]
                      ELSE IF k - 1 \in among /\ fs[k].length > g[k - 1].length
                      THEN [index |-> k - 1, length |-> fs[k].length]
                      ELSE g[k - 1]
    <3>1. CASE k = 0
      BY <2>1, <3>1
    <3>2. CASE k # 0
      <4>1. k \in 1..n
        BY <1>0, <3>2
      <4> QED
        BY <1>4, <3>2, <4>1
    <3> QED
      BY <3>1, <3>2
  <2> HIDE DEF Best
  <2> QED
    BY <2>1, <2>2
<1>6. best = [k \in 0..n |-> IF k = 0 THEN [index |-> NoFile, length |-> -1]
                              ELSE IF k - 1 \in among /\ fs[k].length > best[k - 1].length
                              THEN [index |-> k - 1, length |-> fs[k].length]
                              ELSE best[k - 1]]
  BY <1>5
<1>7. Longest(fs, among) = best[n].index
  BY DEF Longest
<1> HIDE DEF best
<1>8. best[0] = none /\ \A k \in 1..n : best[k] = Turn(k, best[k - 1])
  <2>1. best[0] = none
    BY <1>0, <1>6
  <2>2. ASSUME NEW k \in 1..n PROVE best[k] = Turn(k, best[k - 1])
    <3>1. k \in 0..n /\ k # 0
      BY <1>0
    <3> QED
      BY <1>6, <3>1
  <2> QED
    BY <2>1, <2>2
<1> DEFINE Right(k) ==
             \/ best[k] = none /\ \A j \in among : j >= k
             \/ /\ best[k].index \in among /\ best[k].index < k
                /\ best[k].length = File(fs, best[k].index).length
                /\ \A j \in among :
                     j < k => /\ File(fs, j).length <= best[k].length
                              /\ File(fs, j).length = best[k].length => best[k].index <= j
<1>9. Right(0)
  BY <1>0, <1>8 DEF Indexes
<1>10. ASSUME NEW k \in 0..(n - 1), Right(k) PROVE Right(k + 1)
  <2>1. k + 1 \in 1..n /\ (k + 1) - 1 = k /\ File(fs, k).length = fs[k + 1].length /\ fs[k + 1].length \in Nat
    BY <1>0 DEF File
  <2>2. best[k + 1] = IF k \in among /\ fs[k + 1].length > best[k].length
                      THEN [index |-> k, length |-> fs[k + 1].length] ELSE best[k]
    <3>1. best[k + 1] = Turn(k + 1, best[(k + 1) - 1])
      <4> HIDE DEF Turn
      <4> QED
        BY <1>8, <2>1
    <3> QED
      BY <2>1, <3>1
  <2>3. \A j \in among : j \in Int /\ File(fs, j).length \in Nat /\ (j < k + 1 <=> j < k \/ j = k)
    BY <1>0, FileListForm DEF Indexes
  <2> HIDE DEF none
  <2>4. CASE best[k] = none /\ \A j \in among : j >= k
    <3>1. CASE k \in among
      <4>1. best[k + 1] = [index |-> k, length |-> fs[k + 1].length]
        BY <2>1, <2>2, <2>4, <3>1 DEF none
      <4> QED
        BY <2>1, <2>3, <2>4, <3>1, <4>1
    <3>2. CASE k \notin among
      BY <2>2, <2>3, <2>4, <3>2
    <3> QED
      BY <3>1, <3>2
  <2>5. CASE ~(best[k] = none /\ \A j \in among : j >= k)
    <3>1. /\ best[k].index \in among /\ best[k].index < k
          /\ best[k].length = File(fs, best[k].index).length
          /\ \A j \in among :
               j < k => /\ File(fs, j).length <= best[k].length
                        /\ File(fs, j).length = best[k].length => best[k].index <= j
      BY <1>10, <2>5
    <3>2. best[k].length \in Nat
      BY <2>3, <3>1
    <3>3. CASE k \in among /\ fs[k + 1].length > best[k].length
      <4>1. best[k + 1].index = k /\ best[k + 1].length = fs[k + 1].length
        BY <2>2, <3>3
      <4>2. \A j \in among : j < k => File(fs, j).length < best[k + 1].length
        BY <2>1, <2>3, <3>1, <3>2, <3>3, <4>1
      <4> QED
        BY <2>1, <2>3, <3>3, <4>1, <4>2
    <3>4. CASE ~(k \in among /\ fs[k + 1].length > best[k].length)
      <4>1. best[k + 1] = best[k]
        BY <2>2, <3>4
      <4>2. k \in among => File(fs, k).length <= best[k].length
        BY <2>1, <3>2, <3>4
      <4> QED
        BY <2>1, <2>3, <3>1, <3>2, <4>1, <4>2
    <3> QED
      BY <3>3, <3>4
  <2> QED
    BY <2>4, <2>5
<1>11. Right(n)
  <2> DEFINE T == {k \in 0..n : Right(k)}
  <2> HIDE DEF Right
  <2>1. 0 \in T /\ \A k \in 0..(n - 1) : k \in T => k + 1 \in T
    BY <1>0, <1>9, <1>10
  <2> HIDE DEF T
  <2>2. 0..n \subseteq T
    BY <1>0, <2>1, CountUp
  <2> QED
    BY <1>0, <2>2 DEF T
<1>12. \A j \in among : j < n /\ ~(j >= n)
  BY <1>0 DEF Indexes
<1>13. CASE best[n] = none /\ \A j \in among : j >= n
  <2>1. among = {} /\ best[n].index = NoFile
    BY <1>12, <1>13
  <2> QED
    BY <1>7, <2>1
<1>14. CASE ~(best[n] = none /\ \A j \in among : j >= n)
  <2>1. /\ best[n].index \in among
        /\ best[n].length = File(fs, best[n].index).length
        /\ \A j \in among :
             j < n => /\ File(fs, j).length <= best[n].length
                      /\ File(fs, j).length = best[n].length => best[n].index <= j
    BY <1>11, <1>14
  <2> QED
    BY <1>7, <1>12, <2>1
<1> QED
  BY <1>13, <1>14

(* On every file list selectPrimaryIndex finds the first of the longest     *)
(* videos, or of the longest files if there is no video, or none.           *)
THEOREM PrimaryFound == \A fs \in FileList : PrimaryRight(fs)
<1> SUFFICES ASSUME NEW fs \in FileList PROVE PrimaryRight(fs)
  OBVIOUS
<1> DEFINE among == IF Videos(fs) = {} THEN Indexes(fs) ELSE Videos(fs)
<1>1. Videos(fs) \in SUBSET Indexes(fs) /\ Indexes(fs) \in SUBSET Indexes(fs)
  BY DEF Videos
<1>2. \A i \in Indexes(fs) : i # NoFile
  BY FileListForm DEF Indexes, NoFile
<1>3. SelectPrimary(fs) = Longest(fs, among)
  <2>1. CASE Videos(fs) = {}
    <3>1. Longest(fs, Videos(fs)) = NoFile
      BY <1>1, <2>1, LongestRight
    <3> QED
      BY <2>1, <3>1 DEF SelectPrimary
  <2>2. CASE Videos(fs) # {}
    <3>1. Longest(fs, Videos(fs)) \in Videos(fs)
      BY <1>1, <2>2, LongestRight
    <3> QED
      BY <1>1, <1>2, <2>2, <3>1 DEF SelectPrimary
  <2> QED
    BY <2>1, <2>2
<1>4. among \in SUBSET Indexes(fs)
  BY <1>1
<1>5. \A j \in Indexes(fs) : j \in Int /\ File(fs, j).length \in Nat
  BY FileListForm DEF Indexes
<1> DEFINE longest == {i \in among : \A j \in among : File(fs, j).length <= File(fs, i).length}
<1>6. IF among = {} THEN SelectPrimary(fs) = NoFile
      ELSE SelectPrimary(fs) \in longest /\ \A j \in longest : SelectPrimary(fs) <= j
  <2> HIDE DEF among
  <2>1. CASE among = {}
    BY <1>3, <1>4, <2>1, LongestRight
  <2>2. CASE among # {}
    <3>1. /\ Longest(fs, among) \in among
          /\ \A j \in among :
               /\ File(fs, j).length <= File(fs, Longest(fs, among)).length
               /\ File(fs, j).length = File(fs, Longest(fs, among)).length => Longest(fs, among) <= j
      BY <1>4, <2>2, LongestRight
    <3>2. \A j \in longest : File(fs, j).length = File(fs, Longest(fs, among)).length
      BY <1>4, <1>5, <3>1
    <3> QED
      BY <1>3, <2>2, <3>1, <3>2
  <2> QED
    BY <2>1, <2>2
<1> QED
  BY <1>6 DEF PrimaryRight

(* nextVideoIndex.                                                          *)
LEMMA NextVideoScans ==
  ASSUME NEW fs \in FileList
  PROVE  \E scan : /\ \A k \in 0..Len(fs) :
                        \/ scan[k] = NoFile /\ \A j \in Videos(fs) : j < k
                        \/ scan[k] \in Videos(fs) /\ scan[k] >= k
                           /\ \A j \in Videos(fs) : j >= k => scan[k] <= j
                    /\ \A after : NextVideo(fs, after)
                         = LET start == IF after + 1 < 0 THEN 0 ELSE after + 1
                           IN IF start >= Len(fs) THEN NoFile ELSE scan[start]
<1> DEFINE n == Len(fs)
           scan[i \in 0..n] == IF i = n THEN NoFile
                               ELSE IF File(fs, i).video THEN i ELSE scan[i + 1]
           step == [i \in 0..(n - 1) |-> [x \in Int |-> IF File(fs, i).video THEN i ELSE x]]
<1>0. n \in Nat /\ NoFile \in Int
  BY FileListForm DEF NoFile
<1>1. step \in Steps(0..(n - 1), Int)
  BY DEF Steps
<1>2. PICK g : GoesDown(g, n, Int, NoFile, step)
  <2> HIDE DEF step, n
  <2> QED
    BY <1>0, <1>1, RecursionDown
<1>3. g = [i \in 0..n |-> IF i = n THEN NoFile
                          ELSE IF File(fs, i).video THEN i ELSE g[i + 1]]
  <2>1. g \in [0..n -> Int] /\ g[n] = NoFile /\ \A k \in 0..(n - 1) : g[k] = step[k][g[k + 1]]
    <3> HIDE DEF step
    <3> QED
      BY <1>2 DEF GoesDown
  <2>2. ASSUME NEW k \in 0..n
        PROVE  g[k] = IF k = n THEN NoFile ELSE IF File(fs, k).video THEN k ELSE g[k + 1]
    <3>1. CASE k = n
      BY <2>1, <3>1
    <3>2. CASE k # n
      <4>1. k \in 0..(n - 1) /\ g[k + 1] \in Int
        BY <1>0, <2>1, <3>2
      <4> QED
        BY <2>1, <3>2, <4>1
    <3> QED
      BY <3>1, <3>2
  <2> QED
    BY <2>1, <2>2
<1>4. scan = [i \in 0..n |-> IF i = n THEN NoFile
                             ELSE IF File(fs, i).video THEN i ELSE scan[i + 1]]
  BY <1>3
<1>5. \A after : NextVideo(fs, after)
                 = LET start == IF after + 1 < 0 THEN 0 ELSE after + 1
                   IN IF start >= Len(fs) THEN NoFile ELSE scan[start]
  BY DEF NextVideo
<1> HIDE DEF scan
<1> DEFINE Right(k) ==
             \/ scan[k] = NoFile /\ \A j \in Videos(fs) : j < k
             \/ scan[k] \in Videos(fs) /\ scan[k] >= k
                /\ \A j \in Videos(fs) : j >= k => scan[k] <= j
<1>6. Right(n)
  BY <1>0, <1>4 DEF Videos, Indexes
<1>7. ASSUME NEW k \in 0..(n - 1), Right(k + 1) PROVE Right(k)
  <2>1. scan[k] = IF File(fs, k).video THEN k ELSE scan[k + 1]
    BY <1>0, <1>4
  <2>2. k \in Videos(fs) <=> File(fs, k).video
    BY <1>0 DEF Videos, Indexes
  <2>3. \A j \in Videos(fs) : j \in Int /\ (j < k + 1 <=> j < k \/ j = k)
    BY <1>0 DEF Videos, Indexes
  <2>4. CASE File(fs, k).video
    BY <2>1, <2>2, <2>3, <2>4
  <2>5. CASE ~File(fs, k).video
    BY <1>7, <2>1, <2>2, <2>3, <2>5
  <2> QED
    BY <2>4, <2>5
<1>8. \A k \in 0..n : Right(k)
  <2> DEFINE T == {k \in 0..n : Right(k)}
  <2> HIDE DEF Right
  <2>1. n \in T /\ \A k \in 0..(n - 1) : k + 1 \in T => k \in T
    BY <1>0, <1>6, <1>7
  <2> HIDE DEF T
  <2>2. 0..n \subseteq T
    BY <1>0, <2>1, CountDown
  <2> QED
    BY <2>2 DEF T
<1> QED
  BY <1>5, <1>8

(* On every file list and from every index, negative or behind the end,     *)
(* nextVideoIndex finds the nearest video behind it, or none.               *)
THEOREM NextFound == \A fs \in FileList, after \in Int : NextRight(fs, after)
<1> SUFFICES ASSUME NEW fs \in FileList, NEW after \in Int PROVE NextRight(fs, after)
  OBVIOUS
<1> DEFINE later == {i \in Videos(fs) : i > after}
           start == IF after + 1 < 0 THEN 0 ELSE after + 1
<1>1. Len(fs) \in Nat /\ start \in Nat
  BY FileListForm
<1>2. \A j \in Videos(fs) : j \in 0..(Len(fs) - 1) /\ (j > after <=> j >= start)
  BY <1>1 DEF Videos, Indexes
<1>3. PICK scan : /\ \A k \in 0..Len(fs) :
                       \/ scan[k] = NoFile /\ \A j \in Videos(fs) : j < k
                       \/ scan[k] \in Videos(fs) /\ scan[k] >= k
                          /\ \A j \in Videos(fs) : j >= k => scan[k] <= j
                  /\ NextVideo(fs, after) = IF start >= Len(fs) THEN NoFile ELSE scan[start]
  BY NextVideoScans
<1> HIDE DEF start
<1>4. CASE start >= Len(fs)
  <2>1. later = {}
    BY <1>1, <1>2, <1>4
  <2> QED
    BY <1>3, <1>4, <2>1 DEF NextRight
<1>5. CASE ~(start >= Len(fs))
  <2>1. start \in 0..Len(fs) /\ NextVideo(fs, after) = scan[start]
    BY <1>1, <1>3, <1>5
  <2>2. CASE scan[start] = NoFile /\ \A j \in Videos(fs) : j < start
    <3>1. later = {}
      BY <1>1, <1>2, <2>2
    <3> QED
      BY <2>1, <2>2, <3>1 DEF NextRight
  <2>3. CASE scan[start] \in Videos(fs) /\ scan[start] >= start
             /\ \A j \in Videos(fs) : j >= start => scan[start] <= j
    <3>1. scan[start] \in later /\ \A j \in later : scan[start] <= j
      BY <1>1, <1>2, <2>3
    <3> QED
      BY <2>1, <3>1 DEF NextRight
  <2> QED
    BY <1>3, <2>1, <2>2, <2>3
<1> QED
  BY <1>4, <1>5

-----------------------------------------------------------------------------
(* contiguousBytesAheadCore.                                                *)
LEMMA Division ==
  ASSUME NEW a \in Nat
  PROVE  /\ a \div PieceLen \in Nat
         /\ (a \div PieceLen) * PieceLen <= a /\ a < (a \div PieceLen + 1) * PieceLen
  BY PieceAssumption

LEMMA Multiples ==
  ASSUME NEW a \in Nat, NEW b \in Nat
  PROVE  /\ a * PieceLen \in Nat
         /\ a <= b => a * PieceLen <= b * PieceLen
         /\ a < b => (a + 1) * PieceLen <= b * PieceLen
         /\ a * PieceLen < b * PieceLen => a < b
  BY PieceAssumption

LEMMA PieceOf ==
  ASSUME NEW a \in Nat, NEW q \in Nat
  PROVE  /\ a < q * PieceLen => a \div PieceLen < q
         /\ q * PieceLen <= a => q <= a \div PieceLen
         /\ (q * PieceLen) \div PieceLen = q
<1> DEFINE d == a \div PieceLen
           e == (q * PieceLen) \div PieceLen
<1>1. d \in Nat /\ d * PieceLen <= a /\ a < (d + 1) * PieceLen
  BY Division
<1>2. q * PieceLen \in Nat /\ d * PieceLen \in Nat /\ (d + 1) * PieceLen \in Nat
  BY <1>1, Multiples
<1>3. e \in Nat /\ e * PieceLen <= q * PieceLen /\ q * PieceLen < (e + 1) * PieceLen
  BY <1>2, Division
<1>4. e * PieceLen \in Nat /\ (e + 1) * PieceLen \in Nat
  BY <1>3, Multiples
<1> HIDE DEF d, e
<1>5. a < q * PieceLen => d < q
  BY <1>1, <1>2, Multiples
<1>6. q * PieceLen <= a => q <= d
  <2>1. q * PieceLen <= a => q * PieceLen < (d + 1) * PieceLen
    BY <1>1, <1>2
  <2>2. q * PieceLen < (d + 1) * PieceLen => q < d + 1
    BY <1>1, Multiples
  <2> QED
    BY <1>1, <2>1, <2>2
<1>7. e = q
  <2>1. q < e + 1
    BY <1>3, Multiples
  <2>2. ~(q < e)
    <3>1. q < e => (q + 1) * PieceLen <= e * PieceLen
      BY <1>3, Multiples
    <3>2. q * PieceLen < (q + 1) * PieceLen
      BY PieceAssumption
    <3>3. (q + 1) * PieceLen \in Nat
      BY Multiples
    <3> QED
      BY <1>2, <1>3, <1>4, <3>1, <3>2, <3>3
  <2> QED
    BY <1>3, <2>1, <2>2
<1> QED
  BY <1>5, <1>6, <1>7 DEF d, e

(* The files lie within the pieces.                                         *)
LEMMA FilesInPieces ==
  ASSUME NEW fs \in FileList, NEW i \in Indexes(fs)
  PROVE  /\ NumPieces(fs) \in Nat
         /\ Offset(fs, i) \in Nat /\ File(fs, i).length \in Nat
         /\ Offset(fs, i) + File(fs, i).length <= NumPieces(fs) * PieceLen
<1> DEFINE n == Len(fs)
           total == Offset(fs, n)
           T == {k \in 0..n : k >= i + 1 => Offset(fs, i + 1) <= Offset(fs, k)}
<1>0. n \in Nat /\ i \in 0..(n - 1) /\ i + 1 \in 0..n /\ File(fs, i).length \in Nat
  BY FileListForm DEF Indexes
<1>1. \A k \in 0..n : Offset(fs, k) \in Nat
  BY OffsetSum
<1>2. \A k \in 0..(n - 1) : Offset(fs, k) <= Offset(fs, k + 1)
  <2>1. ASSUME NEW k \in 0..(n - 1) PROVE Offset(fs, k) <= Offset(fs, k + 1)
    <3>1. k \in Indexes(fs) /\ File(fs, k).length \in Nat
      BY FileListForm DEF Indexes
    <3>2. Offset(fs, k + 1) = Offset(fs, k) + File(fs, k).length
      BY <3>1, OffsetSum
    <3>3. Offset(fs, k) \in Nat
      BY <1>0, <1>1
    <3> QED
      BY <3>1, <3>2, <3>3
  <2> QED
    BY <2>1
<1>3. 0 \in T /\ \A k \in 0..(n - 1) : k \in T => k + 1 \in T
  BY <1>0, <1>1, <1>2
<1>4. 0..n \subseteq T
  <2> HIDE DEF T
  <2> QED
    BY <1>0, <1>3, CountUp
<1>5. Offset(fs, i + 1) <= total
  BY <1>0, <1>4
<1>6. Offset(fs, i + 1) = Offset(fs, i) + File(fs, i).length
  BY OffsetSum
<1>7. total \in Nat
  BY <1>0, <1>1
<1> HIDE DEF total
<1> DEFINE N == (total + PieceLen - 1) \div PieceLen
<1>8. N \in Nat /\ total <= N * PieceLen
  <2>1. total + PieceLen - 1 \in Nat
    BY <1>7, PieceAssumption
  <2>2. N \in Nat /\ total + PieceLen - 1 < (N + 1) * PieceLen
    BY <2>1, Division
  <2> HIDE DEF N
  <2>3. (N + 1) * PieceLen = N * PieceLen + PieceLen /\ N * PieceLen \in Nat
    BY <2>2, PieceAssumption
  <2> QED
    BY <1>7, <2>2, <2>3, PieceAssumption
<1>9. NumPieces(fs) = N
  BY DEF NumPieces, total
<1>10. Offset(fs, i) \in Nat
  BY <1>0, <1>1
<1> HIDE DEF N
<1>11. N * PieceLen \in Nat
  BY <1>8, Multiples
<1> QED
  BY <1>0, <1>5, <1>6, <1>7, <1>8, <1>9, <1>10, <1>11

(* The walk from a piece ends at the first one that is missing or ends the  *)
(* file.                                                                    *)
Reached(q, p, N, got, fileEnd) ==
  /\ q \in p..N /\ \A r \in p..(q - 1) : r \in got
  /\ q = N \/ q \notin got \/ q * PieceLen >= fileEnd

LEMMA AheadWalks ==
  ASSUME NEW fs \in FileList, NEW i \in Indexes(fs), NEW from \in 0..(File(fs, i).length - 1),
         NEW got
  PROVE  LET start   == Offset(fs, i) + from
             fileEnd == Offset(fs, i) + File(fs, i).length
         IN \E q : /\ Reached(q, start \div PieceLen, NumPieces(fs), got, fileEnd)
                   /\ LET end == IF q * PieceLen > fileEnd THEN fileEnd ELSE q * PieceLen
                      IN Ahead(fs, got, i, from) = IF end <= start THEN 0 ELSE end - start
<1> DEFINE start   == Offset(fs, i) + from
           fileEnd == Offset(fs, i) + File(fs, i).length
           N == NumPieces(fs)
           walk[p \in 0..N] ==
             IF p = N \/ p \notin got THEN p * PieceLen
             ELSE IF (p + 1) * PieceLen >= fileEnd THEN (p + 1) * PieceLen
             ELSE walk[p + 1]
           step == [p \in 0..(N - 1) |-> [x \in Int |->
                      IF p \notin got THEN p * PieceLen
                      ELSE IF (p + 1) * PieceLen >= fileEnd THEN (p + 1) * PieceLen ELSE x]]
<1>0. /\ N \in Nat /\ PieceLen \in Nat \ {0} /\ start \in Nat /\ fileEnd \in Nat
      /\ start < fileEnd /\ fileEnd <= N * PieceLen
  BY FilesInPieces, PieceAssumption
<1> HIDE DEF start, fileEnd, N
<1>1. step \in Steps(0..(N - 1), Int) /\ N * PieceLen \in Int
  <2>1. \A p \in 0..N : p * PieceLen \in Int /\ (p + 1) * PieceLen \in Int
    BY <1>0
  <2> QED
    BY <1>0, <2>1 DEF Steps
<1>2. PICK g : GoesDown(g, N, Int, N * PieceLen, step)
  <2> HIDE DEF step
  <2> QED
    BY <1>0, <1>1, RecursionDown
<1>3. g = [p \in 0..N |->
             IF p = N \/ p \notin got THEN p * PieceLen
             ELSE IF (p + 1) * PieceLen >= fileEnd THEN (p + 1) * PieceLen
             ELSE g[p + 1]]
  <2>1. g \in [0..N -> Int] /\ g[N] = N * PieceLen /\ \A k \in 0..(N - 1) : g[k] = step[k][g[k + 1]]
    <3> HIDE DEF step
    <3> QED
      BY <1>2 DEF GoesDown
  <2>2. ASSUME NEW p \in 0..N
        PROVE  g[p] = IF p = N \/ p \notin got THEN p * PieceLen
                      ELSE IF (p + 1) * PieceLen >= fileEnd THEN (p + 1) * PieceLen
                      ELSE g[p + 1]
    <3>1. CASE p = N
      BY <2>1, <3>1
    <3>2. CASE p # N
      <4>1. p \in 0..(N - 1) /\ g[p + 1] \in Int
        BY <1>0, <2>1, <3>2
      <4> QED
        BY <2>1, <3>2, <4>1
    <3> QED
      BY <3>1, <3>2
  <2> QED
    BY <2>1, <2>2
<1>4. walk = [p \in 0..N |->
                IF p = N \/ p \notin got THEN p * PieceLen
                ELSE IF (p + 1) * PieceLen >= fileEnd THEN (p + 1) * PieceLen
                ELSE walk[p + 1]]
  BY <1>3
<1>5. Ahead(fs, got, i, from)
        = LET end == IF walk[start \div PieceLen] > fileEnd THEN fileEnd ELSE walk[start \div PieceLen]
          IN IF end <= start THEN 0 ELSE end - start
  BY DEF Ahead, start, fileEnd, N
<1> HIDE DEF walk
<1> DEFINE Right(p) == \E q : Reached(q, p, N, got, fileEnd) /\ walk[p] = q * PieceLen
<1>6. Right(N)
  <2>1. Reached(N, N, N, got, fileEnd) /\ walk[N] = N * PieceLen
    BY <1>0, <1>4 DEF Reached
  <2> QED
    BY <2>1
<1>7. ASSUME NEW p \in 0..(N - 1), Right(p + 1) PROVE Right(p)
  <2>1. walk[p] = IF p \notin got THEN p * PieceLen
                  ELSE IF (p + 1) * PieceLen >= fileEnd THEN (p + 1) * PieceLen
                  ELSE walk[p + 1]
    <3>1. p \in 0..N /\ p # N
      BY <1>0
    <3> QED
      BY <1>4, <3>1
  <2>2. CASE p \notin got
    <3>1. Reached(p, p, N, got, fileEnd) /\ walk[p] = p * PieceLen
      BY <1>0, <2>1, <2>2 DEF Reached
    <3> QED
      BY <3>1
  <2>3. CASE p \in got /\ (p + 1) * PieceLen >= fileEnd
    <3>1. Reached(p + 1, p, N, got, fileEnd) /\ walk[p] = (p + 1) * PieceLen
      BY <1>0, <2>1, <2>3 DEF Reached
    <3> QED
      BY <3>1
  <2>4. CASE p \in got /\ ~((p + 1) * PieceLen >= fileEnd)
    <3>1. PICK q : Reached(q, p + 1, N, got, fileEnd) /\ walk[p + 1] = q * PieceLen
      BY <1>7
    <3>2. walk[p] = q * PieceLen
      BY <2>1, <2>4, <3>1
    <3>3. q \in p..N /\ \A r \in p..(q - 1) : r = p \/ r \in (p + 1)..(q - 1)
      BY <1>0, <3>1 DEF Reached
    <3>4. Reached(q, p, N, got, fileEnd)
      BY <2>4, <3>1, <3>3 DEF Reached
    <3> QED
      BY <3>2, <3>4
  <2> QED
    BY <2>2, <2>3, <2>4
<1>8. \A p \in 0..N : Right(p)
  <2> DEFINE T == {p \in 0..N : Right(p)}
  <2> HIDE DEF Right
  <2>1. N \in T /\ \A k \in 0..(N - 1) : k + 1 \in T => k \in T
    BY <1>0, <1>6, <1>7
  <2> HIDE DEF T
  <2>2. 0..N \subseteq T
    BY <1>0, <2>1, CountDown
  <2> QED
    BY <2>2 DEF T
<1>9. start \div PieceLen \in 0..N
  <2>1. start < N * PieceLen
    BY <1>0, Multiples
  <2>2. start \div PieceLen < N /\ start \div PieceLen \in Nat
    BY <1>0, <2>1, PieceOf, Division
  <2> QED
    BY <1>0, <2>2
<1>10. PICK q : Reached(q, start \div PieceLen, N, got, fileEnd) /\ walk[start \div PieceLen] = q * PieceLen
  BY <1>8, <1>9
<1>11. LET end == IF q * PieceLen > fileEnd THEN fileEnd ELSE q * PieceLen
       IN Ahead(fs, got, i, from) = IF end <= start THEN 0 ELSE end - start
  BY <1>5, <1>10
<1> QED
  BY <1>10, <1>11 DEF start, fileEnd, N

(* Whatever the layout of files and pieces, contiguousBytesAheadCore counts *)
(* exactly the bytes that can be read before a piece is missing.            *)
THEOREM AheadFound ==
  ASSUME NEW fs \in FileList, NEW got \in SUBSET Pieces(fs),
         NEW i \in Indexes(fs), NEW from \in 0..(File(fs, i).length - 1)
  PROVE  AheadRightAt(fs, got, i, from)
<1> DEFINE at == Offset(fs, i)
           len == File(fs, i).length
           start == at + from
           fileEnd == at + len
           N == NumPieces(fs)
           p == start \div PieceLen
           n == Ahead(fs, got, i, from)
<1>1. /\ N \in Nat /\ at \in Nat /\ len \in Nat /\ from \in Nat /\ from < len
      /\ fileEnd <= N * PieceLen
  BY FilesInPieces
<1>2. PICK q : /\ Reached(q, p, N, got, fileEnd)
               /\ LET end == IF q * PieceLen > fileEnd THEN fileEnd ELSE q * PieceLen
                  IN n = IF end <= start THEN 0 ELSE end - start
  BY AheadWalks
<1> HIDE DEF N, at, len, n
<1>3. start \in Nat /\ fileEnd \in Nat /\ start < fileEnd
  BY <1>1
<1>4. p \in Nat /\ p * PieceLen <= start /\ start < (p + 1) * PieceLen
  BY <1>3, Division
<1>5. q \in Nat /\ p <= q /\ q <= N /\ q * PieceLen \in Nat
  <2>1. q \in Nat /\ p <= q /\ q <= N
    BY <1>1, <1>2, <1>4 DEF Reached
  <2> QED
    BY <2>1, Multiples
<1>6. \A r \in Nat : p <= r /\ r < q => r \in got
  BY <1>2, <1>4, <1>5 DEF Reached
<1>7. n \in 0..(len - from)
  BY <1>1, <1>2, <1>3, <1>5
<1>8. ASSUME NEW k \in from..(from + n - 1) PROVE (at + k) \div PieceLen \in got
  <2>1. at + k \in Nat /\ start <= at + k
    BY <1>1, <1>7
  <2>2. at + k < q * PieceLen
    BY <1>1, <1>2, <1>3, <1>5, <1>7
  <2>3. (at + k) \div PieceLen < q /\ (at + k) \div PieceLen \in Nat
    BY <1>5, <2>1, <2>2, PieceOf, Division
  <2>4. p <= (at + k) \div PieceLen
    <3>1. p * PieceLen \in Nat
      BY <1>4, Multiples
    <3>2. p * PieceLen <= at + k
      BY <1>3, <1>4, <2>1, <3>1
    <3> QED
      BY <1>4, <2>1, <3>2, PieceOf
  <2> QED
    BY <1>6, <2>3, <2>4
<1>9. n = len - from \/ (at + (from + n)) \div PieceLen \notin got
  <2>1. CASE q * PieceLen >= fileEnd
    BY <1>1, <1>2, <1>3, <1>5, <2>1
  <2>2. CASE ~(q * PieceLen >= fileEnd)
    <3>1. q \notin got
      <4>1. q # N
        BY <1>1, <1>3, <1>5, <2>2
      <4> QED
        BY <1>2, <2>2, <4>1 DEF Reached
    <3>2. CASE q * PieceLen <= start
      <4>1. q <= p
        BY <1>3, <1>5, <3>2, PieceOf
      <4>2. q = p /\ n = 0 /\ at + (from + n) = start
        BY <1>1, <1>2, <1>4, <1>5, <2>2, <3>2, <4>1
      <4> QED
        BY <3>1, <4>2
    <3>3. CASE ~(q * PieceLen <= start)
      <4>1. at + (from + n) = q * PieceLen
        BY <1>1, <1>2, <1>3, <1>5, <2>2, <3>3
      <4> QED
        BY <1>5, <3>1, <4>1, PieceOf
    <3> QED
      BY <3>2, <3>3
  <2> QED
    BY <2>1, <2>2
<1> QED
  BY <1>7, <1>8, <1>9 DEF AheadRightAt, at, len, n

-----------------------------------------------------------------------------
(* Records.                                                                 *)
LEMMA ContextBound == MaxContext \in Nat /\ 1 \in Context /\ 0 \in 0..MaxContext /\ MaxFiles \in Nat
  BY WarmersAssumption DEF Context

LEMMA AskingForm ==
  ASSUME NEW q \in Request, q.pc \notin {"idle", "streaming"}
  PROVE  q \in Asking
  BY DEF Request, Away, Streaming

LEMMA WorkingForm ==
  ASSUME NEW q \in Work, q.pc # "free"
  PROVE  q \in Working
  BY DEF Work, NoWork

LEMMA ReturnedForm ==
  ASSUME NEW q \in Asking
  PROVE  /\ Returned(q) \in Request
         /\ Returned(q).pc \in {"idle", "streaming", "gate"}
         /\ Returned(q) \in Asking => Returned(q).region = q.region
<1>1. Away \notin Asking /\ Streaming \notin Asking
  BY DEF Away, Streaming, Asking
<1>2. Away.pc = "idle" /\ Streaming.pc = "streaming"
  BY DEF Away, Streaming
<1>3. [q EXCEPT !.pc = "gate", !.context = 0] \in Asking
  BY ContextBound DEF Asking, NoFile
<1> QED
  BY <1>1, <1>2, <1>3 DEF Returned, Request, Asking

(* Gate ends the request or goes on with the head of the same file.         *)
LEMMA GateForm ==
  ASSUME NEW c, NEW position, Gate(c, position)
  PROVE  /\ rq[c].pc = "gate"
         /\ \/ rq' = [rq EXCEPT ![c] = Away]
            \/ rq' = [rq EXCEPT ![c] = [rq[c] EXCEPT !.pc = "latch", !.region = HeadOf(rq[c].region.file)]]
         /\ UNCHANGED <<files, have, dropped, engine, paused, context, cancelled, latched, wk, ahead>>
  BY DEF Gate, torrentVars, pauseVars

LEMMA GateEffect ==
  ASSUME TypeOK, NEW c \in Caller, NEW position, Gate(c, position)
  PROVE  /\ rq[c] \in Asking
         /\ \/ rq'[c] = Away
            \/ rq'[c].pc = "latch" /\ rq'[c].region = HeadOf(rq[c].region.file)
         /\ \A d \in Caller \ {c} : rq'[d] = rq[d]
<1>1. rq[c] \in Asking
  BY GateForm, AskingForm DEF TypeOK
<1>2. CASE rq' = [rq EXCEPT ![c] = Away]
  BY <1>1, <1>2 DEF TypeOK
<1>3. CASE rq' = [rq EXCEPT ![c] = [rq[c] EXCEPT !.pc = "latch", !.region = HeadOf(rq[c].region.file)]]
  <2>1. rq'[c] = [rq[c] EXCEPT !.pc = "latch", !.region = HeadOf(rq[c].region.file)]
    BY <1>3 DEF TypeOK
  <2> QED
    BY <1>1, <1>3, <2>1 DEF TypeOK, Asking
<1> QED
  BY <1>1, <1>2, <1>3, GateForm

(* The files there are have regions.                                        *)
LEMMA FileRegion ==
  ASSUME TypeOK, NEW i \in Indexes(files)
  PROVE  /\ TailOf(i) \in Region /\ HeadOf(i) \in Region
         /\ TailOf(i).file = i /\ HeadOf(i).file = i
<1>1. i \in 0..(MaxFiles - 1)
  BY WarmersAssumption DEF TypeOK, Indexes
<1> QED
  BY <1>1 DEF TailOf, HeadOf, Region

-----------------------------------------------------------------------------
(* Types.                                                                   *)
LEMMA TypeInit == Init => TypeOK
<1> SUFFICES ASSUME Init PROVE TypeOK
  OBVIOUS
<1>1. rq \in [Caller -> Request] /\ wk \in [Worker -> Work]
  BY DEF Init, Request, Work
<1> QED
  BY <1>1, ContextBound DEF Init, TypeOK

LEMMA TypeNext == TypeOK /\ RegionsKnown /\ [Next]_vars => TypeOK'
<1> SUFFICES ASSUME TypeOK, RegionsKnown, [Next]_vars PROVE TypeOK'
  OBVIOUS
<1>1. CASE Arrival
  BY <1>1 DEF Arrival, MetadataArrives, PieceArrives, TypeOK, pauseVars
<1>2. CASE Control
  <2>1. CASE Pause
    BY <2>1 DEF Pause, TypeOK, SetAhead, torrentVars
  <2>2. CASE Resume
    <3>1. context' \in Context
      BY <2>2, ContextBound DEF Resume, TypeOK, Context
    <3> QED
      BY <2>2, <3>1 DEF Resume, TypeOK, SetAhead, torrentVars
  <2>3. CASE Drop \/ Close \/ CloseClient
    BY <2>3 DEF Drop, Close, CloseClient, TypeOK, torrentVars, pauseVars
  <2> QED
    BY <1>2, <2>1, <2>2, <2>3 DEF Control
<1>3. CASE Ask
  <2>1. ASSUME NEW c \in Caller, NEW i, Stream(c, i) PROVE TypeOK'
    <3>1. i \in Indexes(files) /\ TailOf(i) \in Region
      BY <2>1, FileRegion DEF Stream
    <3>2. [pc |-> "latch", op |-> "stream", after |-> NoFile, region |-> TailOf(i), context |-> 0] \in Request
      BY <3>1, ContextBound DEF Request, Asking, NoFile
    <3> QED
      BY <2>1, <3>2 DEF Stream, TypeOK, NewAhead, Reader, torrentVars, pauseVars
  <2>2. ASSUME NEW c \in Caller, NEW after \in 0..(MaxFiles - 1), WarmNext(c, after) PROVE TypeOK'
    <3> DEFINE next == NextVideo(files, after)
    <3>1. TailOf(next) \in Region
      BY <2>2, FileRegion DEF WarmNext
    <3>2. [pc |-> "latch", op |-> "next", after |-> after, region |-> TailOf(next), context |-> 0] \in Request
      BY <3>1, ContextBound DEF Request, Asking, NoFile
    <3> QED
      BY <2>2, <3>2 DEF WarmNext, TypeOK, torrentVars, pauseVars
  <2> QED
    BY <1>3, <2>1, <2>2 DEF Ask, Caller
<1>4. ASSUME NEW c \in Caller, Answer(c) PROVE TypeOK'
  <2>1. rq[c] \in Asking
    BY <1>4, AskingForm DEF Answer, Latch, Spawn, Refuse, Unlatch, Gate, TypeOK
  <2>2. Returned(rq[c]) \in Request /\ rq[c].region \in Region
    BY <2>1, ReturnedForm DEF Asking
  <2>3. CASE Latch(c)
    <3>1. [rq[c] EXCEPT !.pc = "spawn", !.context = context] \in Request
      <4>1. context \in 0..MaxContext
        BY ContextBound DEF TypeOK, Context
      <4> QED
        BY <2>1, <4>1 DEF Request, Asking
    <3> QED
      BY <2>2, <2>3, <3>1 DEF Latch, TypeOK, torrentVars, pauseVars
  <2>4. CASE Spawn(c)
    <3>1. rq[c].context \in 0..MaxContext
      BY <2>1 DEF Asking
    <3>2. [pc |-> "spawned", region |-> rq[c].region, context |-> rq[c].context] \in Work
      BY <2>2, <3>1 DEF Work, Working
    <3> QED
      BY <2>2, <2>4, <3>2 DEF Spawn, TypeOK, torrentVars, pauseVars
  <2>5. CASE Refuse(c)
    <3>1. [rq[c] EXCEPT !.pc = "unlatch", !.context = 0] \in Request
      BY <2>1, ContextBound DEF Request, Asking
    <3> QED
      BY <2>5, <3>1 DEF Refuse, TypeOK, torrentVars, pauseVars
  <2>6. CASE Unlatch(c)
    BY <2>2, <2>6 DEF Unlatch, TypeOK, torrentVars, pauseVars
  <2>7. ASSUME NEW position \in Positions, Gate(c, position) PROVE TypeOK'
    <3>1. HeadOf(rq[c].region.file) \in Region
      BY <2>1, FileRegion DEF RegionsKnown
    <3>2. [rq[c] EXCEPT !.pc = "latch", !.region = HeadOf(rq[c].region.file)] \in Request
      BY <2>1, <3>1 DEF Request, Asking
    <3>3. rq' \in [Caller -> Request]
      <4>1. Away \in Request
        BY DEF Request
      <4> QED
        BY <2>7, <3>2, <4>1, GateForm DEF TypeOK
    <3> QED
      BY <2>7, <3>3 DEF Gate, TypeOK, torrentVars, pauseVars
  <2> QED
    BY <1>4, <2>3, <2>4, <2>5, <2>6, <2>7 DEF Answer
<1>5. ASSUME NEW c \in Caller, StreamEnd(c) PROVE TypeOK'
  BY <1>5 DEF StreamEnd, TypeOK, Reader, Request, torrentVars, pauseVars
<1>6. ASSUME NEW w \in Worker, Warm(w) PROVE TypeOK'
  <2>1. wk[w] \in Working
    BY <1>6, WorkingForm DEF Warm, Register, ReadAll, ReadFails, Unregister, TypeOK
  <2>2. \A p \in {"spawned", "reading", "ending"} : [wk[w] EXCEPT !.pc = p] \in Work
    BY <2>1 DEF Work, Working
  <2>3. CASE Register(w)
    BY <2>2, <2>3 DEF Register, TypeOK, NewAhead, Reader, torrentVars, pauseVars
  <2>4. CASE ReadAll(w) \/ ReadFails(w)
    BY <2>2, <2>4 DEF ReadAll, ReadFails, TypeOK, torrentVars, pauseVars
  <2>5. CASE Unregister(w)
    BY <2>5 DEF Unregister, TypeOK, Reader, Work, torrentVars, pauseVars
  <2> QED
    BY <1>6, <2>3, <2>4, <2>5 DEF Warm
<1>7. CASE UNCHANGED vars
  BY <1>7 DEF vars, TypeOK
<1> QED
  BY <1>1, <1>2, <1>3, <1>4, <1>5, <1>6, <1>7 DEF Next

-----------------------------------------------------------------------------
(* Regions are those of files there are.                                    *)
LEMMA NothingIsEmpty == Indexes(<<>>) = {}
  BY DEF Indexes

LEMMA KnownNext == TypeOK /\ RegionsKnown /\ [Next]_vars => RegionsKnown'
<1> SUFFICES ASSUME TypeOK, RegionsKnown, [Next]_vars PROVE RegionsKnown'
  OBVIOUS
<1>0. Away \notin Asking /\ Streaming \notin Asking
  BY DEF Away, Streaming, Asking
<1>1. CASE MetadataArrives
  BY <1>1, NothingIsEmpty DEF MetadataArrives, RegionsKnown, pauseVars
<1>2. CASE PieceArrives \/ Control
  BY <1>2 DEF PieceArrives, Control, Pause, Resume, Drop, Close, CloseClient, RegionsKnown,
              torrentVars, pauseVars
<1>3. ASSUME NEW c \in Player, NEW i, Stream(c, i) PROVE RegionsKnown'
  <2>1. i \in Indexes(files) /\ TailOf(i).file = i
    BY <1>3, FileRegion DEF Stream
  <2> QED
    BY <1>3, <2>1 DEF Stream, RegionsKnown, TypeOK, Caller, torrentVars, pauseVars
<1>4. ASSUME NEW c \in Asker, NEW after, WarmNext(c, after) PROVE RegionsKnown'
  <2> DEFINE next == NextVideo(files, after)
  <2>1. next \in Indexes(files) /\ TailOf(next).file = next
    BY <1>4, FileRegion DEF WarmNext
  <2> QED
    BY <1>4, <2>1 DEF WarmNext, RegionsKnown, TypeOK, Caller, torrentVars, pauseVars
<1>5. ASSUME NEW c \in Caller, Answer(c) PROVE RegionsKnown'
  <2>1. rq[c] \in Asking
    BY <1>5, AskingForm DEF Answer, Latch, Spawn, Refuse, Unlatch, Gate, TypeOK
  <2>2. rq[c].region.file \in Indexes(files)
    BY <2>1 DEF RegionsKnown
  <2>3. Returned(rq[c]) \in Asking => Returned(rq[c]).region = rq[c].region
    BY <2>1, ReturnedForm
  <2>4. CASE Latch(c)
    BY <2>2, <2>3, <2>4, <2>1 DEF Latch, RegionsKnown, TypeOK, Asking, torrentVars, pauseVars
  <2>5. CASE Spawn(c)
    BY <2>2, <2>3, <2>5 DEF Spawn, RegionsKnown, TypeOK, torrentVars, pauseVars
  <2>6. CASE Refuse(c)
    BY <2>1, <2>2, <2>6 DEF Refuse, RegionsKnown, TypeOK, Asking, torrentVars, pauseVars
  <2>7. CASE Unlatch(c)
    BY <2>2, <2>3, <2>7 DEF Unlatch, RegionsKnown, TypeOK, torrentVars, pauseVars
  <2>8. ASSUME NEW position, Gate(c, position) PROVE RegionsKnown'
    <3>1. HeadOf(rq[c].region.file).file = rq[c].region.file
      BY DEF HeadOf
    <3> QED
      <4>1. /\ rq'[c] = Away \/ rq'[c].region = HeadOf(rq[c].region.file)
            /\ \A d \in Caller \ {c} : rq'[d] = rq[d]
        BY <2>8, GateEffect
      <4>2. UNCHANGED <<files, latched, wk>>
        BY <2>8, GateForm
      <4> QED
        BY <1>0, <2>2, <3>1, <4>1, <4>2 DEF RegionsKnown, Indexes
  <2> QED
    BY <1>5, <2>4, <2>5, <2>6, <2>7, <2>8 DEF Answer
<1>6. ASSUME NEW c \in Caller, StreamEnd(c) PROVE RegionsKnown'
  BY <1>0, <1>6 DEF StreamEnd, RegionsKnown, TypeOK, torrentVars, pauseVars
<1>7. ASSUME NEW w \in Worker, Warm(w) PROVE RegionsKnown'
  <2>1. wk[w] \in Working
    BY <1>7, WorkingForm DEF Warm, Register, ReadAll, ReadFails, Unregister, TypeOK
  <2> QED
    BY <1>7, <2>1 DEF Warm, Register, ReadAll, ReadFails, Unregister, RegionsKnown, TypeOK, Working,
                      NoWork, torrentVars, pauseVars
<1>8. CASE UNCHANGED vars
  BY <1>8 DEF vars, RegionsKnown
<1> QED
  BY <1>1, <1>2, <1>3, <1>4, <1>5, <1>6, <1>7, <1>8 DEF Next, Ask, Arrival

-----------------------------------------------------------------------------
(* Owners.  A step either leaves all of them alone, or is one of these.     *)
LEMMA ReturnedOwnsNothing ==
  ASSUME TypeOK, NEW c \in Caller, rq[c].pc \in {"latch", "spawn", "unlatch"}
  PROVE  Returned(rq[c]).pc \notin {"spawn", "unlatch"}
<1>1. rq[c] \in Asking
  BY AskingForm DEF TypeOK
<1> QED
  BY <1>1, ReturnedForm

LEMMA OwnedNext == TypeOK /\ OwnedOnce /\ [Next]_vars => OwnedOnce'
<1> SUFFICES ASSUME TypeOK, OwnedOnce, [Next]_vars PROVE OwnedOnce'
  OBVIOUS
<1> USE DEF OwnedOnce, Owned, CallerOwns, WorkerOwns
<1>1. CASE Arrival \/ Control
  BY <1>1 DEF Arrival, MetadataArrives, PieceArrives, Control, Pause, Resume, Drop, Close, CloseClient,
              torrentVars, pauseVars
<1>2. CASE Ask
  BY <1>2 DEF Ask, Stream, WarmNext, TypeOK, Caller, torrentVars, pauseVars
<1>3. ASSUME NEW c \in Caller, Latch(c) PROVE OwnedOnce'
  <2>1. CASE paused \/ rq[c].region \in latched
    BY <1>3, <2>1, ReturnedOwnsNothing DEF Latch, TypeOK, torrentVars, pauseVars
  <2>2. CASE ~(paused \/ rq[c].region \in latched)
    <3>1. rq[c] \in Asking
      BY <1>3, AskingForm DEF Latch, TypeOK
    <3>2. ~Owned(rq[c].region)
      BY <2>2, <3>1 DEF Asking
    <3>3. rq' = [rq EXCEPT ![c].pc = "spawn", ![c].context = context]
          /\ latched' = latched \cup {rq[c].region} /\ wk' = wk
      BY <1>3, <2>2 DEF Latch
    <3>4. rq'[c].region = rq[c].region /\ \A d \in Caller \ {c} : rq'[d] = rq[d]
      BY <3>1, <3>3 DEF TypeOK, Asking
    <3>5. \A d \in Caller, r \in Region :
            CallerOwns(d, r)' <=> CallerOwns(d, r) \/ (d = c /\ r = rq[c].region)
      BY <1>3, <3>1, <3>3, <3>4 DEF Latch, TypeOK, Asking
    <3>6. \A w \in Worker, r \in Region : WorkerOwns(w, r)' <=> WorkerOwns(w, r)
      BY <3>3
    <3> HIDE DEF CallerOwns, WorkerOwns
    <3> QED
      BY <3>2, <3>3, <3>5, <3>6
  <2> QED
    BY <2>1, <2>2
<1>4. ASSUME NEW c \in Caller, Spawn(c) PROVE OwnedOnce'
  <2>1. PICK w \in Worker :
          /\ wk[w].pc = "free"
          /\ wk' = [wk EXCEPT ![w] = [pc |-> "spawned", region |-> rq[c].region, context |-> rq[c].context]]
    BY <1>4 DEF Spawn
  <2>2. CallerOwns(c, rq[c].region) /\ rq[c].region \in Region
    BY <1>4, AskingForm DEF Spawn, TypeOK, Asking
  <2>3. rq' = [rq EXCEPT ![c] = Returned(@)] /\ latched' = latched
    BY <1>4 DEF Spawn
  <2>4. Returned(rq[c]).pc \notin {"spawn", "unlatch"}
    BY <1>4, ReturnedOwnsNothing DEF Spawn
  <2> QED
    BY <2>1, <2>2, <2>3, <2>4 DEF TypeOK
<1>5. ASSUME NEW c \in Caller, Refuse(c) PROVE OwnedOnce'
  <2>1. rq[c] \in Asking /\ rq[c].pc = "spawn"
    BY <1>5, AskingForm DEF Refuse, TypeOK
  <2>2. rq'[c].region = rq[c].region /\ \A d \in Caller \ {c} : rq'[d] = rq[d]
    BY <1>5, <2>1 DEF Refuse, TypeOK, Asking
  <2> QED
    <3>1. \A d \in Caller, r \in Region : CallerOwns(d, r)' <=> CallerOwns(d, r)
      BY <1>5, <2>1, <2>2 DEF Refuse, TypeOK, Asking
    <3>2. \A w \in Worker, r \in Region : WorkerOwns(w, r)' <=> WorkerOwns(w, r)
      BY <1>5 DEF Refuse
    <3> HIDE DEF CallerOwns, WorkerOwns
    <3> QED
      BY <1>5, <3>1, <3>2 DEF Refuse
<1>6. ASSUME NEW c \in Caller, Unlatch(c) PROVE OwnedOnce'
  <2>1. rq[c].region \in Region
    BY <1>6, AskingForm DEF Unlatch, TypeOK, Asking
  <2> QED
    BY <1>6, <2>1, ReturnedOwnsNothing DEF Unlatch, TypeOK
<1>7. ASSUME NEW c \in Caller, NEW position, Gate(c, position) PROVE OwnedOnce'
  <2>1. \A d \in Caller, r \in Region : CallerOwns(d, r)' <=> CallerOwns(d, r)
    <3>1. rq[c].pc = "gate" /\ rq'[c].pc \in {"idle", "latch"} /\ \A d \in Caller \ {c} : rq'[d] = rq[d]
      <4>1. /\ rq'[c] = Away \/ rq'[c].pc = "latch"
            /\ \A d \in Caller \ {c} : rq'[d] = rq[d]
        BY <1>7, GateEffect
      <4>2. rq[c].pc = "gate"
        BY <1>7, GateForm
      <4> QED
        BY <4>1, <4>2 DEF Away
    <3> QED
      BY <3>1
  <2>2. \A w \in Worker, r \in Region : WorkerOwns(w, r)' <=> WorkerOwns(w, r)
    BY <1>7, GateForm
  <2> HIDE DEF CallerOwns, WorkerOwns
  <2> QED
    BY <1>7, <2>1, <2>2, GateForm
<1>8. ASSUME NEW c \in Caller, StreamEnd(c) PROVE OwnedOnce'
  BY <1>8 DEF StreamEnd, TypeOK, Away, torrentVars, pauseVars
<1>9. ASSUME NEW w \in Worker, Warm(w) PROVE OwnedOnce'
  <2>1. wk[w] \in Working
    BY <1>9, WorkingForm DEF Warm, Register, ReadAll, ReadFails, Unregister, TypeOK
  <2>2. CASE Register(w)
    BY <2>1, <2>2 DEF Register, TypeOK, Working
  <2>3. CASE ReadAll(w)
    BY <2>1, <2>3 DEF ReadAll, TypeOK, Working
  <2>4. CASE ReadFails(w)
    BY <2>1, <2>4 DEF ReadFails, TypeOK, Working
  <2>5. CASE Unregister(w)
    BY <2>5 DEF Unregister, TypeOK, NoWork
  <2> QED
    BY <1>9, <2>2, <2>3, <2>4, <2>5 DEF Warm
<1>10. CASE UNCHANGED vars
  BY <1>10 DEF vars
<1> QED
  BY <1>1, <1>2, <1>3, <1>4, <1>5, <1>6, <1>7, <1>8, <1>9, <1>10 DEF Next, Answer

-----------------------------------------------------------------------------
(* What a step does to the latches that nobody is responsible for.          *)
LEMMA FetchedStays ==
  ASSUME NEW r, files' = files, have \subseteq have', Fits(r), Needed(r) \subseteq have
  PROVE  Fits(r)' /\ Needed(r)' \subseteq have'
<1>1. Needed(r)' = Needed(r) /\ Fits(r)' = Fits(r)
  BY DEF Needed, Fits, Start, Wanted
<1> QED
  BY <1>1

LEMMA FetchedNext == WarmInv /\ [Next]_vars => WarmMeansFetched'
<1> SUFFICES ASSUME TypeOK, RegionsKnown, OwnedOnce, WarmMeansFetched, [Next]_vars,
                    NEW r \in latched', ~Owned(r)'
             PROVE  Fits(r)' /\ Needed(r)' \subseteq have'
  BY DEF WarmInv, WarmMeansFetched
<1>1. CASE MetadataArrives
  BY <1>1, NothingIsEmpty DEF MetadataArrives, RegionsKnown
<1>2. ASSUME files' = files, have \subseteq have', r \in latched, ~Owned(r)
      PROVE  Fits(r)' /\ Needed(r)' \subseteq have'
  BY <1>2, FetchedStays DEF WarmMeansFetched
<1> USE DEF Owned, CallerOwns, WorkerOwns
<1>3. CASE PieceArrives \/ Control \/ UNCHANGED vars
  BY <1>2, <1>3 DEF PieceArrives, Control, Pause, Resume, Drop, Close, CloseClient, vars,
                    torrentVars, pauseVars
<1>4. CASE Ask
  BY <1>2, <1>4 DEF Ask, Stream, WarmNext, TypeOK, Caller, torrentVars, pauseVars
<1>5. ASSUME NEW c \in Caller, Answer(c) PROVE Fits(r)' /\ Needed(r)' \subseteq have'
  <2>1. rq[c] \in Asking
    BY <1>5, AskingForm DEF Answer, Latch, Spawn, Refuse, Unlatch, Gate, TypeOK
  <2>2. CASE Latch(c)
    <3>1. CASE paused \/ rq[c].region \in latched
      BY <1>2, <2>2, <3>1 DEF Latch, TypeOK, torrentVars
    <3>2. CASE ~(paused \/ rq[c].region \in latched)
      <4>1. rq' = [rq EXCEPT ![c].pc = "spawn", ![c].context = context]
            /\ latched' = latched \cup {rq[c].region}
        BY <2>2, <3>2 DEF Latch
      <4>2. rq'[c].pc = "spawn" /\ rq'[c].region = rq[c].region
        BY <2>1, <4>1 DEF TypeOK, Asking
      <4> QED
        BY <1>2, <2>2, <4>1, <4>2 DEF Latch, TypeOK, torrentVars
    <3> QED
      BY <3>1, <3>2
  <2>3. CASE Spawn(c)
    <3>1. r # rq[c].region
      BY <2>3 DEF Spawn, TypeOK
    <3>2. \A w \in Worker : wk'[w] = wk[w] \/ wk[w].pc = "free"
      BY <2>3 DEF Spawn, TypeOK
    <3> QED
      BY <1>2, <2>3, <3>1, <3>2 DEF Spawn, TypeOK, torrentVars
  <2>4. CASE Refuse(c)
    <3>1. rq'[c].pc = "unlatch" /\ rq'[c].region = rq[c].region
      BY <2>1, <2>4 DEF Refuse, TypeOK, Asking
    <3> QED
      BY <1>2, <2>4, <3>1 DEF Refuse, TypeOK, torrentVars
  <2>5. CASE Unlatch(c)
    BY <1>2, <2>5 DEF Unlatch, TypeOK, torrentVars
  <2>6. ASSUME NEW position, Gate(c, position) PROVE Fits(r)' /\ Needed(r)' \subseteq have'
    <3>1. rq[c].pc = "gate" /\ UNCHANGED <<files, have, latched, wk>>
      BY <2>6, GateForm
    <3>2. \A d \in Caller \ {c} : rq'[d] = rq[d]
      BY <2>6, GateEffect
    <3> QED
      BY <1>2, <3>1, <3>2
  <2> QED
    BY <1>5, <2>2, <2>3, <2>4, <2>5, <2>6 DEF Answer
<1>6. ASSUME NEW c \in Caller, StreamEnd(c) PROVE Fits(r)' /\ Needed(r)' \subseteq have'
  BY <1>2, <1>6 DEF StreamEnd, TypeOK, torrentVars
<1>7. ASSUME NEW w \in Worker, Warm(w) PROVE Fits(r)' /\ Needed(r)' \subseteq have'
  <2>1. wk[w] \in Working
    BY <1>7, WorkingForm DEF Warm, Register, ReadAll, ReadFails, Unregister, TypeOK
  <2>2. CASE Register(w)
    BY <1>2, <2>1, <2>2 DEF Register, TypeOK, Working, torrentVars
  <2>3. CASE ReadAll(w)
    <3>1. CASE r = wk[w].region
      BY <2>3, <3>1, FetchedStays DEF ReadAll, torrentVars
    <3>2. CASE r # wk[w].region
      BY <1>2, <2>1, <2>3, <3>2 DEF ReadAll, TypeOK, Working, torrentVars
    <3> QED
      BY <3>1, <3>2
  <2>4. CASE ReadFails(w)
    BY <1>2, <2>1, <2>4 DEF ReadFails, TypeOK, Working, torrentVars
  <2>5. CASE Unregister(w)
    BY <1>2, <2>1, <2>5 DEF Unregister, TypeOK, torrentVars
  <2> QED
    BY <1>7, <2>2, <2>3, <2>4, <2>5 DEF Warm
<1> QED
  BY <1>1, <1>3, <1>4, <1>5, <1>6, <1>7 DEF Next, Arrival

(* Each warm-up has one owner at a time and a latch tells the truth about   *)
(* its region, whatever callers, workers, pauses and drops there are.       *)
THEOREM LatchesTellTheTruth == Spec => []WarmInv
<1>1. Init => WarmInv
  <2> SUFFICES ASSUME Init PROVE WarmInv
    OBVIOUS
  <2>1. TypeOK
    BY TypeInit
  <2>2. RegionsKnown /\ OwnedOnce /\ WarmMeansFetched
    BY DEF Init, RegionsKnown, OwnedOnce, WarmMeansFetched, Owned, CallerOwns, WorkerOwns, Away, NoWork, Asking
  <2> QED
    BY <2>1, <2>2 DEF WarmInv
<1>2. WarmInv /\ [Next]_vars => WarmInv'
  BY TypeNext, KnownNext, OwnedNext, FetchedNext DEF WarmInv
<1> QED
  BY <1>1, <1>2, PTL DEF Spec

-----------------------------------------------------------------------------
(* Contexts.                                                                *)
LEMMA ContextsNext == TypeOK /\ ContextsEnd /\ [Next]_vars => ContextsEnd'
<1> SUFFICES ASSUME TypeOK, ContextsEnd, [Next]_vars PROVE ContextsEnd'
  OBVIOUS
<1>0. context \in Nat /\ MaxContext \in Nat
  BY ContextBound DEF TypeOK, Context
<1>1. CASE Arrival \/ Close \/ UNCHANGED vars
  BY <1>1 DEF Arrival, MetadataArrives, PieceArrives, Close, ContextsEnd, pauseVars, torrentVars, vars
<1>2. CASE Pause
  BY <1>2 DEF Pause, ContextsEnd, torrentVars
<1>3. CASE Resume
  <2>1. \A g \in Context : g < context' => g \in cancelled
    BY <1>0, <1>3 DEF Resume, ContextsEnd, Context
  <2>2. 1..context \subseteq 1..context'
    BY <1>0, <1>3 DEF Resume
  <2> QED
    BY <1>3, <2>1, <2>2 DEF Resume, ContextsEnd, torrentVars
<1>4. CASE Drop \/ CloseClient
  BY <1>4 DEF Drop, CloseClient, ContextsEnd, torrentVars, pauseVars
<1>5. CASE Ask
  BY <1>5 DEF Ask, Stream, WarmNext, ContextsEnd, TypeOK, torrentVars, pauseVars
<1>6. ASSUME NEW c \in Caller, Answer(c) PROVE ContextsEnd'
  <2>1. rq[c] \in Asking
    BY <1>6, AskingForm DEF Answer, Latch, Spawn, Refuse, Unlatch, Gate, TypeOK
  <2>2. Returned(rq[c]).pc # "spawn"
    BY <2>1, ReturnedForm
  <2>3. CASE Latch(c)
    <3>1. rq' = [rq EXCEPT ![c] = Returned(rq[c])]
          \/ rq' = [rq EXCEPT ![c].pc = "spawn", ![c].context = context]
      BY <2>3 DEF Latch
    <3>2. \A d \in Caller : rq'[d].pc = "spawn" => rq'[d].context \in 1..context
      <4>1. CASE rq' = [rq EXCEPT ![c] = Returned(rq[c])]
        BY <2>2, <4>1 DEF ContextsEnd, TypeOK
      <4>2. CASE rq' = [rq EXCEPT ![c].pc = "spawn", ![c].context = context]
        <5>1. rq'[c].context = context /\ context \in 1..context
          BY <2>1, <4>2 DEF TypeOK, Asking, Context
        <5> QED
          BY <4>2, <5>1 DEF ContextsEnd, TypeOK
      <4> QED
        BY <3>1, <4>1, <4>2
    <3> QED
      BY <2>3, <3>2 DEF Latch, ContextsEnd, torrentVars, pauseVars
  <2>4. CASE Spawn(c)
    BY <2>2, <2>4 DEF Spawn, ContextsEnd, TypeOK, torrentVars, pauseVars
  <2>5. CASE Refuse(c)
    BY <2>1, <2>5 DEF Refuse, ContextsEnd, TypeOK, Asking, torrentVars, pauseVars
  <2>6. CASE Unlatch(c)
    BY <2>2, <2>6 DEF Unlatch, ContextsEnd, TypeOK, torrentVars, pauseVars
  <2>7. ASSUME NEW position, Gate(c, position) PROVE ContextsEnd'
    <3>1. UNCHANGED <<dropped, engine, paused, context, cancelled, wk>>
      BY <2>7, GateForm
    <3>2. \A d \in Caller : rq'[d].pc = "spawn" => rq'[d] = rq[d]
      <4>1. /\ rq'[c] = Away \/ rq'[c].pc = "latch"
            /\ \A d \in Caller \ {c} : rq'[d] = rq[d]
        BY <2>7, GateEffect
      <4> QED
        BY <4>1 DEF Away
    <3> QED
      BY <3>1, <3>2 DEF ContextsEnd
  <2> QED
    BY <1>6, <2>3, <2>4, <2>5, <2>6, <2>7 DEF Answer
<1>7. ASSUME NEW c \in Caller, StreamEnd(c) PROVE ContextsEnd'
  BY <1>7 DEF StreamEnd, ContextsEnd, TypeOK, Away, torrentVars, pauseVars
<1>8. ASSUME NEW w \in Worker, Warm(w) PROVE ContextsEnd'
  <2>1. wk[w] \in Working
    BY <1>8, WorkingForm DEF Warm, Register, ReadAll, ReadFails, Unregister, TypeOK
  <2> QED
    BY <1>8, <2>1 DEF Warm, Register, ReadAll, ReadFails, Unregister, ContextsEnd, TypeOK, Working, NoWork,
                      torrentVars, pauseVars
<1> QED
  BY <1>1, <1>2, <1>3, <1>4, <1>5, <1>6, <1>7, <1>8 DEF Next, Control

LEMMA ContextsHold == Spec => [](TypeOK /\ ContextsEnd)
<1>1. Init => ContextsEnd
  BY DEF Init, ContextsEnd, Away, NoWork, Context
<1>2. WarmInv => TypeOK
  BY DEF WarmInv
<1> QED
  BY <1>1, <1>2, ContextsNext, LatchesTellTheTruth, PTL DEF Spec

(* Background reads end with what they were started for: no pause, drop or  *)
(* Close, whenever it comes, leaves a context that is live.                 *)
THEOREM WarmersEnd == Spec => []NoWarmerOutlives
<1>1. TypeOK /\ ContextsEnd => NoWarmerOutlives
  <2> SUFFICES ASSUME TypeOK, ContextsEnd PROVE NoWarmerOutlives
    OBVIOUS
  <2>1. \A g \in 1..context : paused \/ dropped => g \in cancelled
    BY ContextBound DEF ContextsEnd, TypeOK, Context
  <2> QED
    BY <2>1 DEF ContextsEnd, NoWarmerOutlives, Live
<1> QED
  BY <1>1, ContextsHold, PTL

-----------------------------------------------------------------------------
(* Every reader has its look-ahead if the torrent plays and none if it is   *)
(* paused, for any number of streams and workers.                           *)
THEOREM ReadersFollow == Spec => []ReadaheadFollowsPause
<1>1. Init => ReadaheadFollowsPause
  BY DEF Init, ReadaheadFollowsPause, Registered, Reader
<1>2. TypeOK /\ ReadaheadFollowsPause /\ [Next]_vars => ReadaheadFollowsPause'
  <2> SUFFICES ASSUME TypeOK, ReadaheadFollowsPause, [Next]_vars PROVE ReadaheadFollowsPause'
    OBVIOUS
  <2> USE DEF ReadaheadFollowsPause, Registered
  <2>1. CASE ahead' = ahead /\ paused' = paused
    BY <2>1
  <2>2. CASE Pause
    BY <2>2 DEF Pause, SetAhead
  <2>3. CASE Resume
    BY <2>3 DEF Resume, SetAhead
  <2>4. ASSUME NEW r \in Reader, ahead' = [ahead EXCEPT ![r] = NewAhead], paused' = paused
        PROVE  ReadaheadFollowsPause'
    BY <2>4 DEF NewAhead, TypeOK
  <2>5. ASSUME NEW r \in Reader, ahead' = [ahead EXCEPT ![r] = "none"], paused' = paused
        PROVE  ReadaheadFollowsPause'
    BY <2>5 DEF TypeOK
  <2>6. CASE Ask
    BY <2>1, <2>4, <2>6 DEF Ask, Stream, WarmNext, Reader, Caller, pauseVars
  <2>7. ASSUME NEW c \in Caller, Answer(c) PROVE ReadaheadFollowsPause'
    BY <2>1, <2>7 DEF Answer, Latch, Spawn, Refuse, Unlatch, Gate, pauseVars
  <2>8. ASSUME NEW c \in Caller, StreamEnd(c) PROVE ReadaheadFollowsPause'
    BY <2>5, <2>8 DEF StreamEnd, Reader, pauseVars
  <2>9. ASSUME NEW w \in Worker, Warm(w) PROVE ReadaheadFollowsPause'
    BY <2>1, <2>4, <2>5, <2>9 DEF Warm, Register, ReadAll, ReadFails, Unregister, Reader, pauseVars
  <2>10. CASE Arrival \/ Drop \/ Close \/ CloseClient \/ UNCHANGED vars
    BY <2>1, <2>10 DEF Arrival, MetadataArrives, PieceArrives, Drop, Close, CloseClient, vars, pauseVars
  <2> QED
    BY <2>2, <2>3, <2>6, <2>7, <2>8, <2>9, <2>10 DEF Next, Control
<1>3. WarmInv => TypeOK
  BY DEF WarmInv
<1> QED
  BY <1>1, <1>2, <1>3, LatchesTellTheTruth, PTL DEF Spec

-----------------------------------------------------------------------------
(* Warmers implements Warmth.                                               *)
LEMMA SameWarmth ==
  ASSUME UNCHANGED <<rq, wk, latched>>
  PROVE  Warming' = Warming /\ Warmed' = Warmed
  BY DEF Warming, Warmed, Owned, CallerOwns, WorkerOwns

LEMMA WarmingIs ==
  \A r \in Region : r \in Warming <=> \E w \in Worker : WorkerOwns(w, r)
  BY DEF Warming, WorkerOwns

LEMMA OneCallerMoves ==
  ASSUME NEW c \in Caller, wk' = wk, \A d \in Caller \ {c} : rq'[d] = rq[d],
         \A r : (r \in latched' /\ ~CallerOwns(c, r)') <=> (r \in latched /\ ~CallerOwns(c, r))
  PROVE  Warmed' = Warmed
<1>1. \A r : \A d \in Caller \ {c} : CallerOwns(d, r)' <=> CallerOwns(d, r)
  BY DEF CallerOwns
<1>2. \A r : \A w \in Worker : WorkerOwns(w, r)' <=> WorkerOwns(w, r)
  BY DEF WorkerOwns
<1>3. \A r : (r \in latched' /\ ~Owned(r)') <=> (r \in latched /\ ~Owned(r))
  BY <1>1, <1>2 DEF Owned
<1> QED
  BY <1>3 DEF Warmed

(* A step of a caller other than Spawn moves latches nobody sees.           *)
LEMMA CallersUnseen ==
  ASSUME WarmInv, NEW c \in Caller, Latch(c) \/ Refuse(c) \/ Unlatch(c) \/ \E p \in Positions : Gate(c, p)
  PROVE  Warming' = Warming /\ Warmed' = Warmed
<1>0. TypeOK /\ OwnedOnce
  BY DEF WarmInv
<1>1. wk' = wk
  BY GateForm DEF Latch, Refuse, Unlatch
<1>2. rq[c] \in Asking
  BY <1>0, GateForm, AskingForm DEF Latch, Refuse, Unlatch, TypeOK
<1>3. Warming' = Warming
  BY <1>1 DEF Warming
<1>4. \A d \in Caller \ {c} : rq'[d] = rq[d]
  BY <1>0, GateEffect DEF Latch, Refuse, Unlatch, TypeOK
<1>5. ASSUME NEW r PROVE (r \in latched' /\ ~CallerOwns(c, r)') <=> (r \in latched /\ ~CallerOwns(c, r))
  <2> USE DEF CallerOwns
  <2>1. CASE Latch(c)
    <3>1. CASE paused \/ rq[c].region \in latched
      BY <1>0, <2>1, <3>1, ReturnedOwnsNothing DEF Latch, TypeOK
    <3>2. CASE ~(paused \/ rq[c].region \in latched)
      <4>1. rq' = [rq EXCEPT ![c].pc = "spawn", ![c].context = context]
            /\ latched' = latched \cup {rq[c].region}
        BY <2>1, <3>2 DEF Latch
      <4>2. rq'[c].pc = "spawn" /\ rq'[c].region = rq[c].region
        BY <1>0, <1>2, <4>1 DEF TypeOK, Asking
      <4> QED
        BY <2>1, <3>2, <4>1, <4>2 DEF Latch
    <3> QED
      BY <3>1, <3>2
  <2>2. CASE Refuse(c)
    <3>1. rq'[c].pc = "unlatch" /\ rq'[c].region = rq[c].region
      BY <1>0, <1>2, <2>2 DEF Refuse, TypeOK, Asking
    <3> QED
      BY <2>2, <3>1 DEF Refuse
  <2>3. CASE Unlatch(c)
    BY <1>0, <2>3, ReturnedOwnsNothing DEF Unlatch, TypeOK
  <2>4. ASSUME NEW p \in Positions, Gate(c, p)
        PROVE  (r \in latched' /\ ~CallerOwns(c, r)') <=> (r \in latched /\ ~CallerOwns(c, r))
    <3>1. rq[c].pc = "gate" /\ latched' = latched
      BY <2>4, GateForm
    <3>2. rq'[c] = Away \/ rq'[c].pc = "latch"
      BY <1>0, <2>4, GateEffect
    <3> QED
      BY <3>1, <3>2 DEF Away
  <2> QED
    BY <2>1, <2>2, <2>3, <2>4
<1>6. Warmed' = Warmed
  BY <1>1, <1>4, <1>5, OneCallerMoves
<1> QED
  BY <1>3, <1>6

(* A worker that starts takes its region from cold to warming.              *)
LEMMA SpawnBegins ==
  ASSUME WarmInv, NEW c \in Caller, Spawn(c)
  PROVE  W!Begin(rq[c].region) /\ rq[c].region \in Region
<1>0. TypeOK /\ OwnedOnce
  BY DEF WarmInv
<1> DEFINE r == rq[c].region
<1>1. PICK w \in Worker :
        /\ wk[w].pc = "free"
        /\ wk' = [wk EXCEPT ![w] = [pc |-> "spawned", region |-> r, context |-> rq[c].context]]
  BY DEF Spawn
<1>2. rq' = [rq EXCEPT ![c] = Returned(@)] /\ latched' = latched /\ engine = "open" /\ engine' = "open"
  BY DEF Spawn
<1>3. r \in Region /\ CallerOwns(c, r)
  BY <1>0, AskingForm DEF Spawn, TypeOK, Asking, CallerOwns
<1>4. Returned(rq[c]).pc \notin {"spawn", "unlatch"}
  BY <1>0, ReturnedOwnsNothing DEF Spawn
<1>5. r \notin Warming /\ r \notin Warmed
  BY <1>0, <1>3, WarmingIs DEF OwnedOnce, Warmed, Owned
<1>6. Warming' = Warming \cup {r}
  BY <1>0, <1>1 DEF Warming, TypeOK
<1>7. \A s : Owned(s)' <=> Owned(s)
  <2>1. \A s : \A v \in Worker : WorkerOwns(v, s)' <=> WorkerOwns(v, s) \/ (v = w /\ s = r)
    BY <1>0, <1>1 DEF WorkerOwns, TypeOK
  <2>2. \A s : \A d \in Caller : CallerOwns(d, s)' <=> CallerOwns(d, s) /\ ~(d = c /\ s = r)
    BY <1>0, <1>2, <1>3, <1>4 DEF CallerOwns, TypeOK
  <2> QED
    BY <1>3, <2>1, <2>2 DEF Owned
<1>8. Warmed' = Warmed
  BY <1>2, <1>7 DEF Warmed
<1> QED
  BY <1>2, <1>3, <1>5, <1>6, <1>8 DEF W!Begin

(* A worker that has read its region leaves it warm; one that gives up      *)
(* leaves it cold.                                                          *)
LEMMA ReadEnds ==
  ASSUME WarmInv, NEW w \in Worker, ReadAll(w) \/ ReadFails(w)
  PROVE  (W!Finish(wk[w].region) \/ W!GiveUp(wk[w].region)) /\ wk[w].region \in Region
<1>0. TypeOK /\ OwnedOnce
  BY DEF WarmInv
<1> DEFINE r == wk[w].region
<1>1. wk[w] \in Working /\ WorkerOwns(w, r) /\ r \in Region
  BY <1>0, WorkingForm DEF ReadAll, ReadFails, TypeOK, WorkerOwns, Working
<1>2. wk' = [wk EXCEPT ![w].pc = "ending"] /\ rq' = rq /\ engine' = engine
  BY DEF ReadAll, ReadFails
<1>3. wk'[w].pc = "ending" /\ \A v \in Worker \ {w} : wk'[v] = wk[v]
  BY <1>0, <1>1, <1>2 DEF TypeOK, Working
<1>4. \A s \in Region, v \in Worker : WorkerOwns(v, s)' <=> WorkerOwns(v, s) /\ v # w
  BY <1>3 DEF WorkerOwns
<1>5. r \in Warming /\ Warming' = Warming \ {r}
  <2>1. \A s \in Region : s \in Warming' <=> s \in Warming /\ s # r
    <3>1. \A s \in Region : s \in Warming' <=> \E v \in Worker : WorkerOwns(v, s)'
      BY <1>1, <1>3 DEF Warming, WorkerOwns
    <3>2. \A s \in Region : WorkerOwns(w, s) => s = r
      BY DEF WorkerOwns
    <3>3. \A v \in Worker \ {w} : ~WorkerOwns(v, r)
      BY <1>0, <1>1 DEF OwnedOnce
    <3> QED
      BY <1>1, <1>4, <3>1, <3>2, <3>3, WarmingIs
  <2>2. Warming \subseteq Region /\ Warming' \subseteq Region
    <3>1. \A v \in Worker : wk[v].pc # "free" => wk[v].region \in Region
      BY <1>0, WorkingForm DEF TypeOK, Working
    <3> QED
      BY <1>3, <3>1 DEF Warming
  <2> QED
    BY <1>1, <2>1, <2>2, WarmingIs
<1>6. \A s \in Region : Owned(s)' <=> Owned(s) /\ s # r
  <2>1. \A s \in Region, c \in Caller : CallerOwns(c, s)' <=> CallerOwns(c, s)
    BY <1>2 DEF CallerOwns
  <2>2. \A c \in Caller : ~CallerOwns(c, r)
    BY <1>0, <1>1 DEF OwnedOnce
  <2>3. \A v \in Worker \ {w} : ~WorkerOwns(v, r)
    BY <1>0, <1>1 DEF OwnedOnce
  <2>4. \A s \in Region : WorkerOwns(w, s) => s = r
    BY DEF WorkerOwns
  <2> QED
    BY <1>4, <2>1, <2>2, <2>3, <2>4 DEF Owned
<1>7. latched \subseteq Region /\ r \in latched
  BY <1>0, <1>1 DEF TypeOK, OwnedOnce, Owned
<1>8. CASE ReadAll(w)
  <2>1. Warmed' = Warmed \cup {r}
    BY <1>6, <1>7, <1>8 DEF ReadAll, Warmed
  <2> QED
    BY <1>1, <1>2, <1>5, <2>1 DEF W!Finish
<1>9. CASE ReadFails(w)
  <2>1. Warmed' = Warmed
    <3>1. r \notin Warmed
      BY <1>1 DEF Warmed, Owned
    <3> QED
      BY <1>6, <1>7, <1>9, <3>1 DEF ReadFails, Warmed
  <2> QED
    BY <1>1, <1>2, <1>5, <2>1 DEF W!GiveUp
<1> QED
  BY <1>8, <1>9

(* Warmers implements Warmth: every step begins, finishes or gives up the   *)
(* warming of a region, ends the engine, or changes nothing Warmth sees.    *)
THEOREM RefinesWarmth == Spec => WarmthSpec
<1>1. Init => W!WarmthInit
  BY DEF Init, W!WarmthInit, Warming, Warmed, NoWork
<1>2. WarmInv /\ ContextsEnd /\ [Next]_vars => [W!WarmthNext]_W!warmthVars
  <2> SUFFICES ASSUME WarmInv, ContextsEnd, [Next]_vars
               PROVE  W!WarmthNext \/ UNCHANGED <<Warming, Warmed, engine = "closed">>
    BY DEF W!warmthVars
  <2>0. TypeOK
    BY DEF WarmInv
  <2>1. CASE Arrival \/ Pause \/ Resume \/ Drop \/ Close \/ UNCHANGED vars
    BY <2>1, SameWarmth DEF Arrival, MetadataArrives, PieceArrives, Pause, Resume, Drop, Close, vars
  <2>2. CASE CloseClient
    <3>1. Warming = {} /\ Warming' = Warming /\ Warmed' = Warmed
      BY <2>2, SameWarmth DEF CloseClient, Warming
    <3> QED
      BY <2>2, <3>1 DEF CloseClient, W!WarmthNext, W!End
  <2>3. ASSUME NEW c \in Caller, rq[c].pc \in {"idle", "streaming"}, rq'[c].pc \in {"idle", "latch"},
               \A d \in Caller \ {c} : rq'[d] = rq[d], UNCHANGED <<wk, latched, engine>>
        PROVE  UNCHANGED <<Warming, Warmed, engine = "closed">>
    <3>1. Warmed' = Warmed
      BY <2>3, OneCallerMoves DEF CallerOwns
    <3> QED
      BY <2>3, <3>1 DEF Warming
  <2>4. CASE Ask
    BY <2>0, <2>3, <2>4 DEF Ask, Stream, WarmNext, TypeOK, Caller
  <2>5. ASSUME NEW c \in Caller, StreamEnd(c) PROVE UNCHANGED <<Warming, Warmed, engine = "closed">>
    BY <2>0, <2>3, <2>5 DEF StreamEnd, TypeOK, Away
  <2>6. ASSUME NEW c \in Caller, Answer(c)
        PROVE  W!WarmthNext \/ UNCHANGED <<Warming, Warmed, engine = "closed">>
    <3>1. CASE Spawn(c)
      BY <3>1, SpawnBegins DEF W!WarmthNext
    <3>2. CASE Latch(c) \/ Refuse(c) \/ Unlatch(c) \/ \E p \in Positions : Gate(c, p)
      <4>1. engine' = engine
        BY <3>2, GateForm DEF Latch, Refuse, Unlatch
      <4> QED
        BY <3>2, <4>1, CallersUnseen
    <3> QED
      BY <2>6, <3>1, <3>2 DEF Answer
  <2>7. ASSUME NEW w \in Worker, Warm(w)
        PROVE  W!WarmthNext \/ UNCHANGED <<Warming, Warmed, engine = "closed">>
    <3>1. CASE ReadAll(w) \/ ReadFails(w)
      BY <3>1, ReadEnds DEF W!WarmthNext
    <3>2. CASE Register(w) \/ Unregister(w)
      <4>1. UNCHANGED <<rq, latched, engine>>
        BY <3>2 DEF Register, Unregister
      <4>2. \A s : \A v \in Worker : WorkerOwns(v, s)' <=> WorkerOwns(v, s)
        <5>1. CASE Register(w)
          <6>1. wk[w] \in Working
            BY <2>0, <5>1, WorkingForm DEF Register, TypeOK
          <6> QED
            BY <2>0, <5>1, <6>1 DEF Register, WorkerOwns, TypeOK, Working
        <5>2. CASE Unregister(w)
          BY <2>0, <5>2 DEF Unregister, WorkerOwns, TypeOK, NoWork
        <5> QED
          BY <3>2, <5>1, <5>2
      <4>3. Warmed' = Warmed
        BY <4>1, <4>2 DEF Warmed, Owned, CallerOwns
      <4>4. Warming' = Warming
        <5>1. \A s : s \in Warming <=> \E v \in Worker : WorkerOwns(v, s)
          BY DEF Warming, WorkerOwns
        <5>2. \A s : s \in Warming' <=> \E v \in Worker : WorkerOwns(v, s)'
          BY DEF Warming, WorkerOwns
        <5> QED
          BY <4>2, <5>1, <5>2
      <4> QED
        BY <4>1, <4>3, <4>4
    <3> QED
      BY <2>7, <3>1, <3>2 DEF Warm
  <2> QED
    BY <2>1, <2>2, <2>4, <2>5, <2>6, <2>7 DEF Next, Control
<1>3. Spec => []WarmInv
  BY LatchesTellTheTruth
<1> QED
  BY <1>1, <1>2, <1>3, ContextsHold, PTL DEF Spec, WarmthSpec, W!WarmthSpec

-----------------------------------------------------------------------------
(* The file list of a torrent is one of Layouts, or empty.                  *)
LEMMA FilesListed == TypeOK => files \in FileList
<1>1. <<>> \in FileList
  BY DEF FileList
<1> QED
  BY <1>1, WarmersAssumption DEF TypeOK

(* Whatever files a torrent has, the daemon chooses the file it should play *)
(* by default, and the video that follows any index, in range or not.       *)
THEOREM ChoicesRight == Spec => []SelectionRight
<1>1. TypeOK => SelectionRight
  <2>1. (NoFile - 1)..(MaxFiles + 1) \subseteq Int
    BY WarmersAssumption DEF NoFile
  <2> QED
    BY <2>1, FilesListed, PrimaryFound, NextFound DEF SelectionRight
<1> QED
  BY <1>1, LatchesTellTheTruth, PTL DEF WarmInv

(* Whatever files a torrent has, whatever pieces of it are on disk and from *)
(* wherever it is asked, what is said to lie ahead is what can be read.     *)
THEOREM LookAheadRight == Spec => []AheadRight
<1>1. TypeOK => AheadRight
  BY FilesListed, AheadFound DEF AheadRight
<1> QED
  BY <1>1, LatchesTellTheTruth, PTL DEF WarmInv
=============================================================================
