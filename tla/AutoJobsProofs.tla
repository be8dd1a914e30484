---------------------------- MODULE AutoJobsProofs ----------------------------
(***************************************************************************)
(* Proofs about AutoJobs, for every machine, batch size, number of files   *)
(* and value of --jobs.  The invariant only says that the pool is what was *)
(* computed from inputs that do not change; the work is in the arithmetic. *)
(***************************************************************************)
EXTENDS AutoJobs, TLAPS

Typed == /\ host \in Hosts /\ batch_rows \in RowCounts
         /\ optJobs \in JobCounts /\ files \in FileCounts

Pick == IF optJobs # 0 THEN Max({1, Min({optJobs, files})}) ELSE auto_jobs

Inv == Typed /\ (pc = "picked" => jobs = Pick /\ ~(Divides /\ peak_memory = 0))

USE JobsAssumption

-------------------------------------------------------------------------------
(* Arithmetic.                                                             *)

\* A number of the set that is below all of them is the smallest.
LEMMA MinOf ==
  ASSUME NEW S, NEW m \in S, S \subseteq Nat, \A y \in S : m <= y
  PROVE  Min(S) = m
<1>1. \A x \in S : (\A y \in S : x <= y) => x = m
  OBVIOUS
<1>2. Min(S) \in S /\ \A y \in S : Min(S) <= y
  BY DEF Min
<1> QED
  BY <1>1, <1>2

\* A number of the set that is above all of them is the largest.
LEMMA MaxOf ==
  ASSUME NEW S, NEW m \in S, S \subseteq Nat, \A y \in S : m >= y
  PROVE  Max(S) = m
<1>1. \A x \in S : (\A y \in S : x >= y) => x = m
  OBVIOUS
<1>2. Max(S) \in S /\ \A y \in S : Max(S) >= y
  BY DEF Max
<1> QED
  BY <1>1, <1>2

\* std::min of two numbers.
LEMMA MinOfTwo ==
  ASSUME NEW a \in Nat, NEW b \in Nat
  PROVE  /\ Min({a, b}) \in {a, b} /\ Min({a, b}) <= a /\ Min({a, b}) <= b
<1>1. CASE a <= b
  BY <1>1, MinOf
<1>2. CASE b <= a
  BY <1>2, MinOf
<1> QED
  BY <1>1, <1>2

\* std::max of two numbers.
LEMMA MaxOfTwo ==
  ASSUME NEW a \in Nat, NEW b \in Nat
  PROVE  /\ Max({a, b}) \in {a, b} /\ Max({a, b}) >= a /\ Max({a, b}) >= b
<1>1. CASE a >= b
  BY <1>1, MaxOf
<1>2. CASE b >= a
  BY <1>2, MaxOf
<1> QED
  BY <1>1, <1>2

\* std::min of three numbers.
LEMMA MinOfThree ==
  ASSUME NEW a \in Nat, NEW b \in Nat, NEW c \in Nat
  PROVE  /\ Min({a, b, c}) \in {a, b, c}
         /\ Min({a, b, c}) <= a /\ Min({a, b, c}) <= b /\ Min({a, b, c}) <= c
<1>1. CASE a <= b /\ a <= c
  BY <1>1, MinOf
<1>2. CASE b <= a /\ b <= c
  BY <1>2, MinOf
<1>3. CASE c <= a /\ c <= b
  BY <1>3, MinOf
<1> QED
  BY <1>1, <1>2, <1>3

\* The quotient of the code's division, by what it is for.
LEMMA Quotient ==
  ASSUME NEW n \in Nat, NEW d \in Nat \ {0}
  PROVE  /\ n \div d \in Nat
         /\ (n \div d) * d <= n
         /\ n < (n \div d + 1) * d
OBVIOUS

-------------------------------------------------------------------------------
(* What is known of the memory.                                            *)

\* What a host reports, by its parts.
LEMMA HostType ==
  ASSUME Typed
  PROVE  /\ host.cores \in Nat /\ host.available \in Reading
         /\ \A v \in {1, 2} : /\ host.cgroups[v].limit \in Reading
                              /\ host.cgroups[v].usage \in Reading
<1>1. host \in [cores : Nat, available : Reading, cgroups : Cgroup \X Cgroup]
  BY DEF Typed
<1>2. host.cores \in Nat /\ host.available \in Reading /\ host.cgroups \in Cgroup \X Cgroup
  BY <1>1
<1>3. host.cgroups[1] \in Cgroup /\ host.cgroups[2] \in Cgroup
  BY <1>2
<1> QED
  BY <1>2, <1>3 DEF Cgroup

\* What is left of a limit that is a number is a number.
LEMMA LeftType ==
  ASSUME Typed, NEW v \in {1, 2}, host.cgroups[v].limit # Unknown
  PROVE  Left(host.cgroups[v]) \in Nat
<1>1. host.cgroups[v].limit \in Nat /\ host.cgroups[v].usage \in Reading
  BY HostType DEF Reading
<1> QED
  BY <1>1 DEF Left, Reading

\* The memory the pool is sized for is the tightest limit that is known.
LEMMA Tightest ==
  ASSUME Typed
  PROVE  /\ KnownLimits \subseteq Nat
         /\ available_memory = Unknown <=> KnownLimits = {}
         /\ available_memory # Unknown =>
              /\ available_memory \in KnownLimits
              /\ \A m \in KnownLimits : available_memory <= m
<1> DEFINE limited == {v \in {1, 2} : host.cgroups[v].limit # Unknown}
<1>1. host.available \in Nat \cup {Unknown}
  BY HostType DEF Reading
<1>2. CASE limited = {}
  <2>1. available_memory = host.available
    BY <1>2 DEF available_memory
  <2>2. KnownLimits = {host.available} \ {Unknown}
    BY <1>2 DEF KnownLimits
  <2> QED
    BY <1>1, <2>1, <2>2
<1>3. ASSUME NEW v \in {1, 2}, v \in limited, v = 2 => 1 \notin limited
      PROVE  /\ KnownLimits \subseteq Nat
             /\ available_memory = Unknown <=> KnownLimits = {}
             /\ available_memory # Unknown =>
                  /\ available_memory \in KnownLimits
                  /\ \A m \in KnownLimits : available_memory <= m
  <2>1. Min(limited) = v
    BY <1>3, MinOf
  <2> DEFINE left == Left(host.cgroups[v])
  <2>2. left \in Nat
    BY <1>3, LeftType
  <2>3. available_memory = IF host.available = Unknown THEN left
                           ELSE Min({host.available, left})
    BY <1>3, <2>1 DEF available_memory
  <2>4. KnownLimits = ({host.available} \ {Unknown}) \cup {left}
    <3>1. \A u \in {1, 2} : /\ host.cgroups[u].limit # Unknown
                            /\ u = 2 => host.cgroups[1].limit = Unknown
                            => u = v
      BY <1>3
    <3> DEFINE w == CHOOSE u \in {1, 2} : /\ host.cgroups[u].limit # Unknown
                                          /\ u = 2 => host.cgroups[1].limit = Unknown
    <3>2. w = v
      BY <1>3, <3>1
    <3>3. KnownLimits = ({host.available} \ {Unknown}) \cup {Left(host.cgroups[w])}
      BY <1>3 DEF KnownLimits
    <3> QED
      BY <3>2, <3>3
  <2> HIDE DEF left
  <2>5. CASE host.available = Unknown
    BY <2>2, <2>3, <2>4, <2>5
  <2>6. CASE host.available # Unknown
    <3>1. host.available \in Nat
      BY <1>1, <2>6
    <3> DEFINE m == Min({host.available, left})
    <3>2. m \in {host.available, left} /\ m <= host.available /\ m <= left
      BY <2>2, <3>1, MinOfTwo
    <3>3. available_memory = m
      BY <2>3, <2>6
    <3> HIDE DEF m
    <3> QED
      BY <2>2, <2>4, <3>1, <3>2, <3>3
  <2> QED
    BY <2>5, <2>6
<1> QED
  BY <1>2, <1>3

-------------------------------------------------------------------------------
(* The pool that is computed.                                              *)

\* Half the cores, and at least one job.
LEMMA CoresBound ==
  ASSUME Typed
  PROVE  /\ ByCores \in Nat \ {0}
         /\ ByCores = 1 \/ 2 * ByCores <= host.cores
         /\ 2 * (ByCores + 1) > host.cores
<1> DEFINE cores == IF host.cores = 0 THEN 2 ELSE host.cores
           q == cores \div 2
<1>1. host.cores \in Nat /\ cores \in Nat
  BY HostType
<1>2. q \in Nat /\ q * 2 <= cores /\ cores < (q + 1) * 2
  BY <1>1, Quotient
<1>3. ByCores = Max({1, q})
  BY DEF ByCores
<1>4. ByCores \in {1, q} /\ ByCores >= 1 /\ ByCores >= q
  <2> HIDE DEF q
  <2> QED
    BY <1>2, <1>3, MaxOfTwo
<1> HIDE DEF q
<1> QED
  BY <1>1, <1>2, <1>4

\* As many jobs as six tenths of the memory fit, and at least one.
LEMMA MemoryBound ==
  ASSUME NEW a \in Nat, available_memory = a, peak_memory \in Nat \ {0}
  PROVE  /\ ByMemory \in Nat \ {0}
         /\ ByMemory = 1 \/ ByMemory * peak_memory <= (a \div 10) * 6
         /\ (ByMemory + 1) * peak_memory > (a \div 10) * 6
<1> DEFINE t == (a \div 10) * 6
           p == peak_memory
           q == t \div p
<1>1. a \div 10 \in Nat /\ t \in Nat
  BY Quotient
<1>2. p \in Nat \ {0}
  OBVIOUS
<1>3. ByMemory = Max({1, q})
  BY DEF ByMemory
<1> HIDE DEF t, p
<1>4. q \in Nat /\ q * p <= t /\ t < (q + 1) * p
  BY <1>1, <1>2, Quotient
<1> HIDE DEF q
<1>5. ByMemory \in {1, q} /\ ByMemory >= 1 /\ ByMemory >= q
  BY <1>3, <1>4, MaxOfTwo
<1>6. ByMemory \in Nat \ {0}
  BY <1>4, <1>5
<1>7. (ByMemory + 1) * p >= (q + 1) * p
  <2> DEFINE b == ByMemory
  <2> HIDE DEF b
  <2>1. b \in Nat /\ b >= q
    BY <1>5, <1>6 DEF b
  <2>2. (b + 1) * p >= (q + 1) * p
    BY <2>1, <1>2, <1>4
  <2> QED
    BY <2>2 DEF b
<1>8. (ByMemory + 1) * p > t
  <2>1. (ByMemory + 1) * p \in Nat /\ (q + 1) * p \in Nat
    BY <1>2, <1>4, <1>6
  <2> QED
    BY <1>1, <1>4, <1>7, <2>1
<1> QED
  BY <1>4, <1>5, <1>6, <1>8 DEF t, p

\* A peak that fits the word is computed as it is.
LEMMA PeakExact ==
  ASSUME Typed
  PROVE  /\ ExactPeak = batch_rows * 480 + Fixed /\ ExactPeak \in Nat \ {0}
         /\ batch_rows \in Nat \ {0}
         /\ peak_memory \in Nat
         /\ ExactPeak < Word => peak_memory = ExactPeak
<1>1. batch_rows \in Nat \ {0} /\ Fixed \in Nat /\ Word \in Nat \ {0}
  BY DEF Typed
<1>2. ExactPeak = batch_rows * 480 + Fixed
  BY <1>1 DEF ExactPeak, row_bytes, queue_depth
<1>3. ExactPeak \in Nat \ {0}
  BY <1>1, <1>2
<1>4. peak_memory = ExactPeak % Word
  BY DEF peak_memory, ExactPeak
<1> HIDE DEF ExactPeak
<1> QED
  BY <1>1, <1>2, <1>3, <1>4

\* What an automatic pool is the smallest of.
LEMMA AutoPicks ==
  ASSUME Typed, optJobs = 0, ~(Divides /\ peak_memory = 0)
  PROVE  /\ Pick \in Nat \ {0} /\ Pick <= files /\ Pick <= ByCores
         /\ available_memory = Unknown => Pick = 1
         /\ available_memory # Unknown => Pick <= ByMemory
         /\ Pick \in {files, ByCores} \/ available_memory = Unknown \/ Pick = ByMemory
<1> DEFINE c == IF available_memory = Unknown THEN 1 ELSE ByMemory
<1>1. files \in Nat \ {0} /\ ByCores \in Nat \ {0}
  BY CoresBound DEF Typed
<1>2. c \in Nat \ {0}
  <2>1. CASE available_memory = Unknown
    BY <2>1
  <2>2. CASE available_memory # Unknown
    <3>1. peak_memory \in Nat \ {0}
      BY <2>2, PeakExact DEF Divides
    <3>2. available_memory \in Nat
      BY <2>2, Tightest
    <3> QED
      BY <2>2, <3>1, <3>2, MemoryBound
  <2> QED
    BY <2>1, <2>2
<1>3. Pick = Min({files, ByCores, c})
  BY DEF Pick, auto_jobs
<1>4. /\ Pick \in {files, ByCores, c}
      /\ Pick <= files /\ Pick <= ByCores /\ Pick <= c
  <2> HIDE DEF c
  <2> QED
    BY <1>1, <1>2, <1>3, MinOfThree
<1>5. Pick \in Nat \ {0}
  BY <1>1, <1>2, <1>4
<1> QED
  BY <1>4, <1>5

-------------------------------------------------------------------------------
(* The theorems.                                                           *)

\* The pool is what was computed from the inputs.
LEMMA PickedInv == Spec => []Inv
<1>1. Init => Inv
  BY DEF Init, Inv, Typed
<1>2. Inv /\ [Next]_vars => Inv'
  <2> SUFFICES ASSUME Inv, [Next]_vars PROVE Inv'
    OBVIOUS
  <2>1. UNCHANGED inputs
    BY DEF Next, PickJobs, DivideByZero, Picked, vars
  <2>2. Typed' /\ Pick' = Pick /\ Divides' = Divides /\ peak_memory' = peak_memory
    BY <2>1 DEF inputs, Inv, Typed, Pick, auto_jobs, Divides, peak_memory, ByCores, ByMemory,
                available_memory, Left
  <2>3. CASE PickJobs
    BY <2>2, <2>3 DEF PickJobs, Inv, Pick
  <2>4. CASE DivideByZero
    BY <2>2, <2>4 DEF DivideByZero, Inv
  <2>5. CASE Picked \/ UNCHANGED vars
    BY <2>2, <2>5 DEF Picked, vars, Inv
  <2> QED
    BY <2>3, <2>4, <2>5 DEF Next
<1> QED
  BY <1>1, <1>2, PTL DEF Spec

\* The pool has at least one worker and none without a file, and an automatic
\* one at most one for each two cores.
THEOREM RangeCorrect == Spec => []JobsInRange
<1>1. Inv => JobsInRange
  <2> SUFFICES ASSUME Inv, pc = "picked"
               PROVE  /\ jobs \in 1 .. files
                      /\ optJobs = 0 => jobs = 1 \/ 2 * jobs <= host.cores
    BY DEF JobsInRange
  <2>1. Typed /\ jobs = Pick /\ files \in Nat \ {0}
    BY DEF Inv, Typed
  <2>2. CASE optJobs = 0
    <3>1. jobs \in Nat \ {0} /\ jobs <= files /\ jobs <= ByCores
      BY <2>1, <2>2, AutoPicks DEF Inv
    <3> QED
      BY <2>1, <3>1, CoresBound, HostType
  <2>3. CASE optJobs # 0
    <3> DEFINE m == Min({optJobs, files})
    <3>1. optJobs \in Nat /\ optJobs > 0
      BY <2>1, <2>3 DEF Typed
    <3>2. m \in {optJobs, files} /\ m <= files
      BY <2>1, <3>1, MinOfTwo
    <3> HIDE DEF m
    <3>3. m \in 1 .. files
      BY <2>1, <3>1, <3>2
    <3>4. jobs = Max({1, m})
      BY <2>1, <2>3 DEF Pick, m
    <3>5. jobs \in {1, m}
      BY <3>3, <3>4, MaxOfTwo
    <3> QED
      BY <2>1, <2>3, <3>3, <3>5
  <2> QED
    BY <2>2, <2>3
<1> QED
  BY PickedInv, <1>1, PTL

\* An automatic pool of more than one fits six tenths of every known limit.
LEMMA PoolFits ==
  ASSUME Inv, Automatic, jobs # 1, NEW m \in KnownLimits
  PROVE  /\ jobs \in Nat /\ m \in Nat /\ KnownLimits # {}
         /\ 10 * jobs * ExactPeak <= 6 * m
<1>0. /\ Typed /\ optJobs = 0 /\ jobs = Pick /\ ~(Divides /\ peak_memory = 0)
      /\ ExactPeak < Word
  BY DEF Inv, Automatic
<1>1. m \in Nat /\ available_memory # Unknown
  BY <1>0, Tightest
<1> DEFINE a == available_memory
           p == ExactPeak
<1>2. a \in Nat /\ a <= m
  BY <1>0, <1>1, Tightest
<1>3. p \in Nat \ {0} /\ peak_memory = p
  BY <1>0, PeakExact
<1>4. jobs \in Nat \ {0} /\ jobs <= ByMemory
  BY <1>0, <1>1, AutoPicks
<1> DEFINE b == ByMemory
           t == a \div 10
<1>5. b \in Nat /\ b # 1 /\ b * p <= t * 6
  BY <1>2, <1>3, <1>4, MemoryBound
<1>6. t \in Nat /\ t * 10 <= a
  BY <1>2, Quotient
<1> HIDE DEF a, p, b, t
<1>7. jobs * p <= b * p
  BY <1>3, <1>4, <1>5 DEF b
<1> DEFINE jp == jobs * p
<1>8. jp \in Nat /\ jp <= t * 6 /\ 10 * jobs * p = 10 * jp
  <2>1. b * p \in Nat /\ jp \in Nat
    BY <1>3, <1>4, <1>5
  <2>2. 10 * jobs * p = 10 * jp
    BY <1>3, <1>4
  <2> QED
    BY <1>5, <1>6, <1>7, <2>1, <2>2
<1> HIDE DEF jp
<1>9. 10 * jp <= 6 * m
  BY <1>1, <1>2, <1>6, <1>8
<1> QED
  BY <1>1, <1>4, <1>8, <1>9 DEF p

\* An automatic pool of more than one fits six tenths of every limit on the
\* memory, and one more worker would exceed the files, the cores or the memory.
THEOREM MemoryCorrect == Spec => []JobsFitMemory
<1>1. Inv => JobsFitMemory
  <2> SUFFICES ASSUME Inv, Automatic
               PROVE  /\ jobs # 1 => /\ KnownLimits # {}
                                     /\ \A m \in KnownLimits : 10 * jobs * ExactPeak <= 6 * m
                      /\ \/ jobs = files \/ KnownLimits = {}
                         \/ 2 * (jobs + 1) > host.cores
                         \/ \E m \in KnownLimits : (jobs + 1) * ExactPeak > (m \div 10) * 6
    BY DEF JobsFitMemory
  <2>0. /\ Typed /\ optJobs = 0 /\ jobs = Pick /\ ~(Divides /\ peak_memory = 0)
        /\ ExactPeak < Word
    BY DEF Inv, Automatic
  <2>1. jobs # 1 => KnownLimits # {}
    BY <2>0, AutoPicks, Tightest
  <2>2. ASSUME jobs # 1, NEW m \in KnownLimits PROVE 10 * jobs * ExactPeak <= 6 * m
    BY <2>2, PoolFits
  <2>3. \/ jobs = files \/ jobs = ByCores \/ available_memory = Unknown \/ jobs = ByMemory
    BY <2>0, AutoPicks
  <2>4. ASSUME jobs = ByCores PROVE 2 * (jobs + 1) > host.cores
    BY <2>0, <2>4, CoresBound
  <2>5. ASSUME available_memory # Unknown, jobs = ByMemory
        PROVE  \E m \in KnownLimits : (jobs + 1) * ExactPeak > (m \div 10) * 6
    <3>1. available_memory \in KnownLimits /\ available_memory \in Nat
      BY <2>0, <2>5, Tightest
    <3>2. peak_memory = ExactPeak /\ peak_memory \in Nat \ {0}
      BY <2>0, PeakExact
    <3>3. (ByMemory + 1) * peak_memory > (available_memory \div 10) * 6
      BY <3>1, <3>2, MemoryBound
    <3> QED
      BY <2>5, <3>1, <3>2, <3>3
  <2> QED
    BY <2>0, <2>1, <2>2, <2>3, <2>4, <2>5, Tightest
<1> QED
  BY PickedInv, <1>1, PTL

\* The column buffers of an automatic pool fit the memory, though row_bytes
\* leaves part of a row out of account.
THEOREM BuffersCorrect == Spec => []BuffersFit
<1>1. Inv => BuffersFit
  <2> SUFFICES ASSUME Inv, Automatic, jobs # 1, NEW m \in KnownLimits
               PROVE  jobs * batch_rows * ((queue_depth + 2) * WidestRow + OffsetsRow) <= 8 * m
    BY DEF BuffersFit
  <2>1. jobs \in Nat /\ m \in Nat /\ 10 * jobs * ExactPeak <= 6 * m
    BY PoolFits
  <2>2. /\ batch_rows \in Nat /\ Fixed \in Nat
        /\ ExactPeak = batch_rows * 480 + Fixed
    BY PeakExact DEF Inv
  <2>3. (queue_depth + 2) * WidestRow + OffsetsRow = 4300
    BY DEF queue_depth, WidestRow, OffsetsRow
  <2> DEFINE r == jobs * batch_rows
             f == jobs * Fixed
  <2>4. r \in Nat /\ f \in Nat /\ 10 * jobs * ExactPeak = 4800 * r + 10 * f
    BY <2>1, <2>2
  <2> HIDE DEF r, f
  <2>5. r * 4300 <= 8 * m
    BY <2>1, <2>4
  <2> QED
    BY <2>3, <2>5 DEF r
<1> QED
  BY PickedInv, <1>1, PTL
===============================================================================
