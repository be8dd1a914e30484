------------------------------- MODULE AutoJobs -------------------------------
(***************************************************************************)
(* How many files convert_tree() converts at the same time: what --jobs    *)
(* says, or what auto_jobs() computes from the cores, from the memory that *)
(* /proc and the cgroup files report, and from peak_memory().  Arithmetic  *)
(* is unsigned and wraps at Word.                                          *)
(***************************************************************************)
EXTENDS Integers, FiniteSetsExt

CONSTANTS
  Word,        \* 2^64
  Fixed,       \* the part of the peak that does not depend on the batch size
  Unknown,     \* a number that cannot be read
  Hosts,       \* what machines report: cores, memory and the two cgroups
  RowCounts,   \* the values of --batch-rows
  JobCounts,   \* the values of --jobs
  FileCounts   \* how many files there may be

\* What a file of /proc or of a cgroup says, and what a cgroup does.
Reading == Nat \cup {Unknown}
Cgroup == [limit : Reading, usage : Reading]

ASSUME JobsAssumption ==
  /\ Unknown \notin Nat
  /\ Hosts \subseteq [cores : Nat, available : Reading, cgroups : Cgroup \X Cgroup]
  /\ Word \in Nat \ {0} /\ Fixed \in Nat /\ RowCounts \subseteq Nat \ {0}
  /\ JobCounts \subseteq Nat /\ FileCounts \subseteq Nat \ {0}

VARIABLES host, batch_rows, optJobs, files,
          pc,      \* "start", "picked", or "trapped" by a division by zero
          jobs     \* what is picked

inputs == <<host, batch_rows, optJobs, files>>
vars   == <<inputs, pc, jobs>>

Init == /\ host \in Hosts /\ batch_rows \in RowCounts
        /\ optJobs \in JobCounts /\ files \in FileCounts
        /\ pc = "start" /\ jobs = 0

-------------------------------------------------------------------------------
row_bytes == 80
queue_depth == 4

\* Faulty variant: one batch only.
PeakOfOneBatch == (batch_rows * row_bytes + Fixed) % Word

peak_memory == (batch_rows * row_bytes * (queue_depth + 2) + Fixed) % Word

\* The limit of a cgroup less its usage; unreadable usage counts as none.
Left(cg) ==
  LET usage == IF cg.usage = Unknown THEN 0 ELSE cg.usage
  IN IF cg.limit > usage THEN cg.limit - usage ELSE 0

\* v2 comes before v1; the first limit that is a number counts.
available_memory ==
  LET limited == {v \in {1, 2} : host.cgroups[v].limit # Unknown}
      left == Left(host.cgroups[Min(limited)])
  IN IF limited = {} THEN host.available
     ELSE IF host.available = Unknown THEN left
     ELSE Min({host.available, left})

\* Faulty variant: a single core gives no job.
HalfTheCores == host.cores \div 2

ByCores == LET cores == IF host.cores = 0 THEN 2 ELSE host.cores
           IN Max({1, cores \div 2})

\* Faulty variant: the tenth part is divided before it is multiplied.
ByMemoryRounded == Max({1, ((available_memory \div 10) \div peak_memory) * 6})

ByMemory == Max({1, ((available_memory \div 10) * 6) \div peak_memory})

auto_jobs == Min({files, ByCores,
                  IF available_memory = Unknown THEN 1 ELSE ByMemory})

Divides == optJobs = 0 /\ available_memory # Unknown

\* convert_tree() sizes its pool.
PickJobs ==
  /\ pc = "start" /\ ~(Divides /\ peak_memory = 0)
  /\ jobs' = IF optJobs # 0 THEN Max({1, Min({optJobs, files})}) ELSE auto_jobs
  /\ pc' = "picked" /\ UNCHANGED inputs

\* The quotient is undefined; the processor traps.
DivideByZero ==
  /\ pc = "start" /\ Divides /\ peak_memory = 0
  /\ pc' = "trapped" /\ UNCHANGED <<inputs, jobs>>

Picked == pc # "start" /\ UNCHANGED vars

Next == PickJobs \/ DivideByZero \/ Picked

Spec == Init /\ [][Next]_vars

-------------------------------------------------------------------------------
(* Properties.                                                             *)

\* The pool has at least one worker and none without a file, and an automatic
\* pool at most one for each two cores, but one for a single core.
JobsInRange ==
  pc = "picked" => /\ jobs \in 1 .. files
                   /\ optJobs = 0 => jobs = 1 \/ 2 * jobs <= host.cores

ExactPeak == batch_rows * row_bytes * (queue_depth + 2) + Fixed

\* Every limit on the memory that is known: what the system has left, and what
\* the cgroup that limits this process has left.
KnownLimits ==
  ({host.available} \ {Unknown})
    \cup (IF \E v \in {1, 2} : host.cgroups[v].limit # Unknown
          THEN LET v == CHOOSE v \in {1, 2} : /\ host.cgroups[v].limit # Unknown
                                              /\ v = 2 => host.cgroups[1].limit = Unknown
               IN {Left(host.cgroups[v])}
          ELSE {})

\* The pool is computed, from a peak that fits the word: a larger one wraps to
\* a small number, and the pool is then sized for that.
Automatic == optJobs = 0 /\ pc = "picked" /\ ExactPeak < Word

\* An automatic pool of more than one is "held down to what 60% of the
\* available memory fits at opt.batch_rows", whichever limit is the tightest.
\* It is not held down further: one more worker would exceed the files, the
\* cores or the memory (to the rounding of its tenth part), or nothing is known
\* of the memory.
JobsFitMemory ==
  Automatic =>
    /\ jobs # 1 => /\ KnownLimits # {}
                   /\ \A m \in KnownLimits : 10 * jobs * ExactPeak <= 6 * m
    /\ \/ jobs = files \/ KnownLimits = {}
       \/ 2 * (jobs + 1) > host.cores
       \/ \E m \in KnownLimits : (jobs + 1) * ExactPeak > (m \div 10) * 6

\* Bits per row in the column buffers of the widest row, mbo with ts_out: eight
\* columns of 64 bits, five of 32, two of one character.  Each of the thirteen
\* builders reserves a validity bit, and the five nullable columns another.
WidestRow == 8 * 64 + 5 * 32 + 2 * 8 + 13 + 5

\* The two offsets buffers of the character columns, shared by all batches.
OffsetsRow == 2 * 32

\* row_bytes leaves ts_out, the validity bits and the offsets out of account,
\* but the column buffers of an automatic pool still fit the available memory.
BuffersFit ==
  Automatic /\ jobs # 1 =>
    \A m \in KnownLimits :
      jobs * batch_rows * ((queue_depth + 2) * WidestRow + OffsetsRow) <= 8 * m
===============================================================================
