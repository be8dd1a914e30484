--------------------------- MODULE ConvertTreeProofs ---------------------------
(***************************************************************************)
(* Proofs about ConvertTree, for every number of files, workers, names,    *)
(* descriptors and runs of the process.                                    *)
(*                                                                         *)
(* The inductive invariant has three layers.  Pool says where workers may  *)
(* be in each phase of the process, Taken that the shared counter gives    *)
(* every file to exactly one worker, and Disk which inode each name and    *)
(* each open file stands for.  Disk needs every file to have an output     *)
(* name of its own (OwnNames); the code does not see to that, so it is a   *)
(* hypothesis of the theorems that rest on it, and of no other.            *)
(***************************************************************************)
EXTENDS ConvertTree, FiniteSetTheorems, WellFoundedInduction, TLAPS

\* No two files are converted to the same name.
OwnNames == \A i, j \in Files : OutOf[i] = OutOf[j] => i = j

Places == {"unborn", "fetch", "path", "parse", "open", "write", "cleanup",
           "rename", "report", "failed", "exited"}

\* A worker that has a file.
Busy(w) == wpc[w] \in Places \ {"unborn", "fetch", "exited"}

Pool ==
  /\ \A w \in Workers : /\ w > jobs => wpc[w] = "unborn"
                        /\ wpc[w] = "exited" => files <= next
  /\ process = "walking" => files = 0 /\ jobs = 0 /\ next = 0
  /\ process = "running" => jobs > 0
  /\ process = "returned" => files <= next /\ \A w \in Workers : ~Busy(w)

Taken ==
  /\ \A w \in Workers : Busy(w) => /\ cur[w] \in 1 .. files /\ cur[w] <= next
                                   /\ cur[w] \notin converted \cup failures
  /\ \A v, w \in Workers : Busy(v) /\ Busy(w) /\ cur[v] = cur[w] => v = w
  /\ \A i \in converted \cup failures : i \in 1 .. files /\ i <= next
  /\ \A i \in 1 .. files : i <= next => \/ i \in converted \cup failures
                                        \/ \E w \in Workers : Busy(w) /\ cur[w] = i
  /\ converted \cap failures = {}

Counted == process \in {"walking", "running", "returned"} => failed = Cardinality(failures)

Inv == TypeOK /\ Pool /\ Taken /\ Counted

\* What is in a temporary file while a worker has it, and where it went after.
Owned ==
  \A w \in Workers :
    /\ handle[w] # 0 <=> wpc[w] = "write"
    /\ wpc[w] = "write" => tmp[Name(w)] = handle[w] /\ content[handle[w]] = "partial"
    /\ wpc[w] = "rename" => tmp[Name(w)] # 0 /\ content[tmp[Name(w)]] = "complete"
    /\ wpc[w] = "report" => tmp[Name(w)] = 0 /\ out[Name(w)] # 0

\* A file under construction has one name, and is no output.
Apart ==
  \A o, p \in Outs : tmp[o] # 0 => tmp[o] # out[p] /\ (tmp[o] = tmp[p] => o = p)

InPlace == \A i \in converted : out[OutOf[i]] # 0 /\ tmp[OutOf[i]] = 0

Disk == Owned /\ Apart /\ InPlace /\ OutNeverPartial

USE TreeAssumption
USE DEF startVars, countVars, diskVars, logVars, dataVars

-------------------------------------------------------------------------------
(* The operators of the model.                                             *)

\* The number of workers the walk may pick.
LEMMA MinOfTwo ==
  ASSUME NEW a \in Nat, NEW b \in Nat
  PROVE  Min({a, b}) = IF a <= b THEN a ELSE b
<1> DEFINE m == IF a <= b THEN a ELSE b
<1>1. m \in {a, b} /\ \A y \in {a, b} : m <= y
  OBVIOUS
<1>2. \A x \in {a, b} : (\A y \in {a, b} : x <= y) => x = m
  OBVIOUS
<1> HIDE DEF m
<1>3. Min({a, b}) \in {a, b} /\ \A y \in {a, b} : Min({a, b}) <= y
  BY <1>1 DEF Min
<1> QED
  BY <1>2, <1>3 DEF m

\* A set of numbers has a least one.
LEMMA MinExists ==
  ASSUME NEW S, S \subseteq Nat, S # {}
  PROVE  Min(S) \in S /\ \A y \in S : Min(S) <= y
<1>1. PICK m \in S : \A y \in S : ~(<<y, m>> \in OpToRel(<, Nat))
  BY NatLessThanWellFounded, WFMin
<1>2. OpToRel(<, Nat) = {ss \in Nat \X Nat : ss[1] < ss[2]}
  BY Zenon DEF OpToRel
<1>3. \A y \in S : ~(<<y, m>> \in {ss \in Nat \X Nat : ss[1] < ss[2]})
  BY <1>1, <1>2, Zenon
<1>4. ASSUME NEW y \in S PROVE m <= y
  <2>1. y \in Nat /\ m \in Nat
    OBVIOUS
  <2>2. ASSUME y < m PROVE <<y, m>> \in {ss \in Nat \X Nat : ss[1] < ss[2]}
    BY <2>1, <2>2
  <2> QED
    BY <1>3, <2>1, <2>2
<1> QED
  BY <1>4 DEF Min

\* There is an inode for a name that has none: every other one is a name's or
\* an open file's, and there are more inodes than those.
LEMMA InodeLeft ==
  ASSUME TypeOK, NEW o \in Outs, tmp[o] = 0
  PROVE  FreshInode \in Inodes /\ FreshInode \notin InUse
<1> DEFINE T == {tmp[p] : p \in Outs}
           O == {out[p] : p \in Outs}
           H == {handle[w] : w \in Workers}
           c == Cardinality(Outs)
<1>1. c \in Nat
  BY FS_CardinalityType
<1>2. IsFiniteSet(Workers) /\ Cardinality(Workers) = MaxJobs
  BY FS_Interval DEF Workers
<1>3. IsFiniteSet(T) /\ Cardinality(T) <= c
  <2>1. tmp \in Surjection(Outs, T)
    BY DEF TypeOK, Surjection
  <2> HIDE DEF T
  <2> QED
    BY <2>1, FS_Surjection
<1>4. IsFiniteSet(O) /\ Cardinality(O) <= c
  <2>1. out \in Surjection(Outs, O)
    BY DEF TypeOK, Surjection
  <2> HIDE DEF O
  <2> QED
    BY <2>1, FS_Surjection
<1>5. IsFiniteSet(H) /\ Cardinality(H) <= MaxJobs
  <2>1. handle \in Surjection(Workers, H)
    BY DEF TypeOK, Surjection
  <2> HIDE DEF H
  <2> QED
    BY <1>2, <2>1, FS_Surjection
<1> HIDE DEF T, O, H
<1>6. IsFiniteSet(T \cup O) /\ Cardinality(T \cup O) <= 2 * c
  <2>1. IsFiniteSet(T \cap O)
    BY <1>3, FS_Intersection
  <2>2. /\ Cardinality(T) \in Nat /\ Cardinality(O) \in Nat
        /\ Cardinality(T \cap O) \in Nat
    BY <1>3, <1>4, <2>1, FS_CardinalityType
  <2>3. /\ IsFiniteSet(T \cup O)
        /\ Cardinality(T \cup O) = Cardinality(T) + Cardinality(O) - Cardinality(T \cap O)
    BY <1>3, <1>4, FS_Union
  <2> QED
    BY <1>1, <1>3, <1>4, <2>2, <2>3
<1>7. /\ IsFiniteSet((T \cup O) \cup H)
      /\ Cardinality((T \cup O) \cup H) <= 2 * c + MaxJobs
  <2> DEFINE U == T \cup O
  <2> HIDE DEF U
  <2>0. IsFiniteSet(U) /\ Cardinality(U) <= 2 * c
    BY <1>6 DEF U
  <2>1. IsFiniteSet(U \cap H)
    BY <2>0, FS_Intersection
  <2>2. /\ Cardinality(U) \in Nat /\ Cardinality(H) \in Nat
        /\ Cardinality(U \cap H) \in Nat
    BY <1>5, <2>0, <2>1, FS_CardinalityType
  <2>3. /\ IsFiniteSet(U \cup H)
        /\ Cardinality(U \cup H) = Cardinality(U) + Cardinality(H) - Cardinality(U \cap H)
    BY <1>5, <2>0, FS_Union
  <2>4. Cardinality(U \cup H) <= 2 * c + MaxJobs
    BY <1>1, <1>5, <2>0, <2>2, <2>3
  <2> QED
    BY <2>3, <2>4 DEF U
<1>8. InUse = (T \cup O) \cup H
  BY DEF InUse, T, O, H
<1>9. ~ (Inodes \subseteq InUse)
  <2> SUFFICES ASSUME Inodes \subseteq InUse PROVE FALSE
    OBVIOUS
  <2>1. 0 \in InUse
    BY DEF InUse
  <2>2. 0 .. 2 * c + MaxJobs \subseteq InUse
    BY <1>1, <2>1 DEF Inodes
  <2>3. Cardinality(0 .. 2 * c + MaxJobs) = 2 * c + MaxJobs + 1
    <3> DEFINE n == 2 * c + MaxJobs
    <3>1. n \in Int /\ n >= 0 /\ 0 \in Int
      BY <1>1
    <3> HIDE DEF n
    <3>2. Cardinality(0 .. n) = n + 1
      BY <3>1, FS_Interval
    <3> QED
      BY <3>2 DEF n
  <2>4. Cardinality(0 .. 2 * c + MaxJobs) <= Cardinality(InUse)
    BY <1>7, <1>8, <2>2, FS_Subset
  <2>5. Cardinality(InUse) \in Nat /\ Cardinality(InUse) <= 2 * c + MaxJobs
    BY <1>7, <1>8, FS_CardinalityType
  <2> QED
    BY <1>1, <2>3, <2>4, <2>5
<1>10. Inodes \ InUse \subseteq Nat
  BY <1>1 DEF Inodes
<1> QED
  BY <1>9, <1>10, MinExists DEF FreshInode

\* The descriptors counted are a number, and leaked ones are among them.
LEMMA FdsType ==
  ASSUME TypeOK
  PROVE  FdsInUse \in Nat /\ leaked <= FdsInUse
<1>1. IsFiniteSet(Workers)
  BY FS_Interval DEF Workers
<1>2. IsFiniteSet(Holding)
  BY <1>1, FS_Subset DEF Holding
<1>3. IsFiniteSet({w \in Workers : handle[w] # 0})
  BY <1>1, FS_Subset
<1>4. /\ Cardinality(Holding) \in Nat
      /\ Cardinality({w \in Workers : handle[w] # 0}) \in Nat
  BY <1>2, <1>3, FS_CardinalityType
<1> QED
  BY <1>4 DEF FdsInUse, TypeOK

-------------------------------------------------------------------------------
(* The initial state, and the kinds of steps there are.                    *)

\* The first start, over an empty output tree, satisfies both invariants.
LEMMA InitInv == Init => Inv /\ Disk
<1> SUFFICES ASSUME Init PROVE Inv /\ Disk
  OBVIOUS
<1> USE DEF Init, None, Unborn
<1>1. TypeOK
  BY DEF TypeOK
<1>2. Pool /\ Taken
  BY DEF Pool, Taken, Busy, Places
<1>3. Counted
  BY FS_EmptySet DEF Counted
<1>4. Disk
  BY DEF Disk, Owned, Apart, InPlace, OutNeverPartial
<1> QED
  BY <1>1, <1>2, <1>3, <1>4 DEF Inv

BusyPlaces == Places \ {"unborn", "fetch", "exited"}

\* Worker w goes on with its file.
Works(w, to) ==
  /\ process = "running" /\ wpc[w] \in BusyPlaces
  /\ wpc' = [wpc EXCEPT ![w] = to]
  /\ UNCHANGED <<process, startVars, cur, next, failed, logVars>>

\* Path, and what convert_file() does with a file, leave the counters and the
\* reports alone.
LEMMA FileSteps ==
  ASSUME NEW w \in Workers,
         \/ Path(w) \/ Parse(w) \/ ParseThrows(w) \/ Open(w) \/ OpenThrows(w)
         \/ Write(w) \/ WriteThrows(w) \/ Cleanup(w) \/ Rename(w)
         \/ RenameThrows(w) \/ ReportThrows(w)
  PROVE  \E to \in BusyPlaces : Works(w, to)
<1> USE DEF Works, BusyPlaces, Places, At, Goto
<1>1. CASE Path(w) \/ Parse(w) \/ OpenThrows(w) \/ RenameThrows(w) \/ ReportThrows(w)
  BY <1>1 DEF Path, Parse, OpenThrows, RenameThrows, ReportThrows, Moves
<1>2. CASE ParseThrows(w) \/ Open(w)
  BY <1>2 DEF ParseThrows, Open
<1>3. CASE Write(w) \/ WriteThrows(w) \/ Cleanup(w) \/ Rename(w)
  BY <1>3 DEF Write, WriteThrows, WriterEnds, Cleanup, Removes, Rename
<1> QED
  BY <1>1, <1>2, <1>3

\* The process ends, and everything else stays as it is.
Stops(how) ==
  process' = how /\ process \in {"walking", "running"} /\ UNCHANGED <<startVars, wpc, dataVars>>

\* How every step bears on the pool and its accounts.
LEMMA Kinds ==
  ASSUME [Next]_vars
  PROVE  \/ Walk \/ Return \/ Restart \/ UNCHANGED vars
         \/ \E how \in {"error", "terminated", "killed"} : Stops(how)
         \/ \E w \in Workers : \/ Start(w) \/ Fetch(w) \/ CountFailure(w) \/ Report(w)
                               \/ \E to \in BusyPlaces : Works(w, to)
<1>1. CASE WalkThrows \/ StartThrows \/ Kill
  BY <1>1 DEF WalkThrows, StartThrows, Kill, Ends, Uncaught, Stops
<1>2. CASE \E w \in Workers : PathThrows(w)
  BY <1>2 DEF PathThrows, Ends, Uncaught, Stops, At
<1>3. ASSUME NEW w \in Workers, Work(w) \/ Throws(w), ~PathThrows(w)
      PROVE  \/ Start(w) \/ Fetch(w) \/ CountFailure(w) \/ Report(w)
             \/ \E to \in BusyPlaces : Works(w, to)
  BY <1>3, FileSteps DEF Work, Throws
<1> QED
  BY <1>1, <1>2, <1>3 DEF Next, Over

\* The walk finds some files and sizes the pool for them, or finds none.
LEMMA WalkPicks ==
  ASSUME Walk
  PROVE  /\ process = "walking" /\ UNCHANGED <<runs, wpc, dataVars>>
         /\ \/ process' = "returned" /\ UNCHANGED <<files, jobs>>
            \/ process' = "running" /\ files' \in 1 .. N /\ jobs' \in 1 .. MaxJobs
<1>1. CASE process' = "returned"
  BY <1>1 DEF Walk
<1>2. CASE process' = "running"
  <2>1. PICK n \in 0 .. N : /\ n > 0 /\ files' = n
                            /\ \E j \in 1 .. Min({n, MaxJobs}) : jobs' = j
    BY <1>2 DEF Walk
  <2>2. n \in Nat /\ MaxJobs \in Nat
    OBVIOUS
  <2>3. Min({n, MaxJobs}) \in Nat /\ Min({n, MaxJobs}) <= MaxJobs
    BY <2>2, MinOfTwo
  <2>4. jobs' \in 1 .. MaxJobs
    BY <2>1, <2>2, <2>3
  <2> QED
    BY <1>2, <2>1, <2>4 DEF Walk
<1> QED
  BY <1>1, <1>2 DEF Walk

-------------------------------------------------------------------------------
(* The pool and the accounts.                                              *)

\* Every step keeps the workers where the process allows them.
LEMMA PoolStep == Inv /\ [Next]_vars => Pool'
<1> SUFFICES ASSUME Inv, [Next]_vars PROVE Pool'
  OBVIOUS
<1> USE DEF Inv, TypeOK, Pool, Busy, Places, Workers
<1>1. CASE Walk
  BY <1>1, WalkPicks DEF Taken
<1>2. CASE Return
  BY <1>2 DEF Return, Ends
<1>3. CASE Restart
  BY <1>3 DEF Restart, Unborn
<1>4. CASE \E how \in {"error", "terminated", "killed"} : Stops(how)
  BY <1>4 DEF Stops
<1>5. ASSUME NEW w \in Workers, Start(w) PROVE Pool'
  BY <1>5 DEF Start
<1>6. ASSUME NEW w \in Workers, Fetch(w) PROVE Pool'
  BY <1>6 DEF Fetch, TakeUpTo, At, Goto
<1>7. ASSUME NEW w \in Workers, CountFailure(w) PROVE Pool'
  BY <1>7 DEF CountFailure, At, Goto, Uncaught
<1>8. ASSUME NEW w \in Workers, Report(w) PROVE Pool'
  BY <1>8 DEF Report, At, Goto
<1>9. ASSUME NEW w \in Workers, NEW to \in BusyPlaces, Works(w, to) PROVE Pool'
  BY <1>9 DEF Works, BusyPlaces
<1>10. CASE UNCHANGED vars
  BY <1>10 DEF vars
<1> QED
  BY <1>1, <1>2, <1>3, <1>4, <1>5, <1>6, <1>7, <1>8, <1>9, <1>10, Kinds

\* Every step keeps every file that was taken with exactly one worker or one
\* report.
LEMMA TakenStep == Inv /\ [Next]_vars => Taken'
<1> SUFFICES ASSUME Inv, [Next]_vars PROVE Taken'
  OBVIOUS
<1>0. /\ files \in Nat /\ next \in Nat /\ wpc \in [Workers -> Places]
      /\ cur \in [Workers -> 0 .. files] /\ Taken /\ Pool
  BY DEF Inv, TypeOK, Places
<1> USE DEF Taken, Busy, Places
<1>1. CASE Walk
  <2>1. UNCHANGED <<wpc, cur, next, converted, failures>> /\ files' \in Nat
    BY <1>0, <1>1, WalkPicks
  <2>2. files = 0 /\ next = 0 /\ \A w \in Workers : ~Busy(w)
    BY <1>0, <1>1, WalkPicks DEF Pool
  <2> QED
    BY <1>0, <2>1, <2>2
<1>2. CASE Return
  BY <1>0, <1>2 DEF Return, Ends
<1>3. CASE Restart
  BY <1>3 DEF Restart, Unborn
<1>4. CASE \E how \in {"error", "terminated", "killed"} : Stops(how)
  BY <1>0, <1>4 DEF Stops
<1>5. ASSUME NEW w \in Workers, Start(w) PROVE Taken'
  BY <1>0, <1>5 DEF Start, Born
<1>6. ASSUME NEW w \in Workers, Fetch(w) PROVE Taken'
  <2>1. CASE next < files /\ cur' = [cur EXCEPT ![w] = next + 1]
                          /\ wpc' = [wpc EXCEPT ![w] = "path"]
    <3>1. /\ next' = next + 1 /\ next' \in 1 .. files /\ files' = files
          /\ UNCHANGED <<converted, failures>> /\ wpc[w] = "fetch"
      BY <1>0, <1>6, <2>1 DEF Fetch, TakeUpTo, At, Goto
    <3>2. \A v \in Workers : v # w => (Busy(v)' <=> Busy(v)) /\ cur'[v] = cur[v]
      BY <1>0, <2>1
    <3>3. cur'[w] = next' /\ Busy(w)' /\ ~Busy(w)
      BY <1>0, <2>1, <3>1
    <3> HIDE DEF Busy
    <3>4. \A v \in Workers : Busy(v)' => /\ cur'[v] \in 1 .. files /\ cur'[v] <= next'
                                         /\ cur'[v] \notin converted \cup failures
      BY <1>0, <3>1, <3>2, <3>3
    <3>5. \A u, v \in Workers : Busy(u)' /\ Busy(v)' /\ cur'[u] = cur'[v] => u = v
      BY <1>0, <3>1, <3>2, <3>3
    <3>6. \A j \in 1 .. files : j <= next' => \/ j \in converted \cup failures
                                              \/ \E v \in Workers : Busy(v)' /\ cur'[v] = j
      <4> SUFFICES ASSUME NEW j \in 1 .. files, j <= next', j \notin converted \cup failures
                   PROVE  \E v \in Workers : Busy(v)' /\ cur'[v] = j
        OBVIOUS
      <4>1. CASE j = next'
        BY <3>3, <4>1
      <4>2. CASE j <= next
        <5>1. PICK v \in Workers : Busy(v) /\ cur[v] = j
          BY <1>0, <4>2
        <5> QED
          BY <3>2, <3>3, <5>1
      <4> QED
        BY <1>0, <3>1, <4>1, <4>2
    <3> QED
      BY <1>0, <3>1, <3>4, <3>5, <3>6
  <2>2. CASE next >= files /\ cur' = cur /\ wpc' = [wpc EXCEPT ![w] = "exited"]
    <3>1. /\ next' = next + 1 /\ files' = files
          /\ UNCHANGED <<converted, failures>> /\ wpc[w] = "fetch"
      BY <1>6 DEF Fetch, TakeUpTo, At, Goto
    <3>2. \A v \in Workers : (Busy(v)' <=> Busy(v)) /\ cur'[v] = cur[v]
      BY <1>0, <2>2, <3>1
    <3> HIDE DEF Busy
    <3> QED
      BY <1>0, <2>2, <3>1, <3>2
  <2> QED
    BY <1>6, <2>1, <2>2 DEF Fetch, TakeUpTo, Goto
<1>7. ASSUME NEW w \in Workers, CountFailure(w) PROVE Taken'
  <2>1. /\ wpc[w] = "failed" /\ UNCHANGED <<files, next, cur, converted>>
        /\ \/ failures' = failures \cup {cur[w]} /\ wpc' = [wpc EXCEPT ![w] = "fetch"]
           \/ UNCHANGED <<wpc, failures>>
    BY <1>7 DEF CountFailure, At, Goto
  <2>2. Busy(w) /\ \A v \in Workers : v # w => (Busy(v)' <=> Busy(v))
    BY <1>0, <2>1
  <2>3. failures' # failures => ~Busy(w)'
    BY <1>0, <2>1
  <2> HIDE DEF Busy
  <2>4. CASE failures' = failures \cup {cur[w]} /\ ~Busy(w)'
    BY <1>0, <2>1, <2>2, <2>4
  <2>5. CASE UNCHANGED <<wpc, failures>>
    BY <1>0, <2>1, <2>5 DEF Busy
  <2> QED
    BY <2>1, <2>3, <2>4, <2>5, <1>0 DEF Busy
<1>8. ASSUME NEW w \in Workers, Report(w) PROVE Taken'
  <2>1. /\ wpc[w] = "report" /\ wpc' = [wpc EXCEPT ![w] = "fetch"]
        /\ converted' = converted \cup {cur[w]} /\ UNCHANGED <<files, next, cur, failures>>
    BY <1>8 DEF Report, At, Goto
  <2>2. Busy(w) /\ ~Busy(w)' /\ \A v \in Workers : v # w => (Busy(v)' <=> Busy(v))
    BY <1>0, <2>1
  <2> HIDE DEF Busy
  <2> QED
    BY <1>0, <2>1, <2>2
<1>9. ASSUME NEW w \in Workers, NEW to \in BusyPlaces, Works(w, to) PROVE Taken'
  <2>1. \A v \in Workers : Busy(v)' <=> Busy(v)
    BY <1>0, <1>9 DEF Works, BusyPlaces
  <2> HIDE DEF Busy
  <2> QED
    BY <1>0, <1>9, <2>1 DEF Works
<1>10. CASE UNCHANGED vars
  BY <1>0, <1>10 DEF vars
<1> QED
  BY <1>1, <1>2, <1>3, <1>4, <1>5, <1>6, <1>7, <1>8, <1>9, <1>10, Kinds

\* Every step keeps the count of failures that of the failed files, until an
\* exception that nothing handles ends the run.
LEMMA CountedStep == Inv /\ [Next]_vars => Counted'
<1> SUFFICES ASSUME Inv, [Next]_vars PROVE Counted'
  OBVIOUS
<1> USE DEF Counted
<1>0. /\ Counted /\ failed \in Nat /\ IsFiniteSet(failures)
  <2>1. IsFiniteSet(Files) /\ failures \in SUBSET Files
    BY FS_Interval DEF Files, Inv, TypeOK
  <2> QED
    BY <2>1, FS_Subset DEF Inv, TypeOK
<1>1. CASE Walk
  BY <1>0, <1>1, WalkPicks
<1>2. CASE Return
  BY <1>0, <1>2 DEF Return, Ends
<1>3. CASE Restart
  BY <1>3, FS_EmptySet DEF Restart
<1>4. CASE \E how \in {"error", "terminated", "killed"} : Stops(how)
  BY <1>4 DEF Stops
<1>5. ASSUME NEW w \in Workers, Start(w) PROVE Counted'
  BY <1>0, <1>5 DEF Start
<1>6. ASSUME NEW w \in Workers, Fetch(w) PROVE Counted'
  BY <1>0, <1>6 DEF Fetch, TakeUpTo, Goto
<1>7. ASSUME NEW w \in Workers, CountFailure(w) PROVE Counted'
  <2>1. CASE process' = Uncaught(w)
    BY <2>1 DEF Uncaught
  <2>2. CASE failures' = failures \cup {cur[w]} /\ process' = process
    <3>1. process = "running" /\ wpc[w] = "failed" /\ failed' = failed + 1
      BY <1>7 DEF CountFailure, At
    <3>2. cur[w] \notin failures
      BY <3>1 DEF Inv, Taken, Busy, Places
    <3>3. Cardinality(failures') = Cardinality(failures) + 1
      BY <1>0, <2>2, <3>2, FS_AddElement
    <3> QED
      BY <1>0, <2>2, <3>1, <3>3
  <2> QED
    BY <1>7, <2>1, <2>2 DEF CountFailure, Goto
<1>8. ASSUME NEW w \in Workers, Report(w) PROVE Counted'
  BY <1>0, <1>8 DEF Report, Goto
<1>9. ASSUME NEW w \in Workers, NEW to \in BusyPlaces, Works(w, to) PROVE Counted'
  BY <1>0, <1>9 DEF Works
<1>10. CASE UNCHANGED vars
  BY <1>0, <1>10 DEF vars
<1> QED
  BY <1>1, <1>2, <1>3, <1>4, <1>5, <1>6, <1>7, <1>8, <1>9, <1>10, Kinds

-------------------------------------------------------------------------------
(* Types.                                                                  *)

\* A step that leaves the directory and the open files alone, takes no worker to
\* a place where it has one, and reports only what was renamed.
LeavesDisk ==
  /\ UNCHANGED diskVars
  /\ \A v \in Workers : \/ wpc'[v] = wpc[v] /\ cur'[v] = cur[v]
                        \/ wpc[v] # "write" /\ wpc'[v] \notin {"write", "rename", "report"}
  /\ \A k \in converted' : \/ k \in converted
                           \/ \E w \in Workers : wpc[w] = "report" /\ cur[w] = k

\* The steps that do not are those of a new run and of an output file.
LEMMA OtherSteps ==
  ASSUME Inv, [Next]_vars
  PROVE  \/ LeavesDisk
         \/ Restart
         \/ \E w \in Workers : \/ Open(w) \/ Write(w) \/ WriteThrows(w)
                               \/ Cleanup(w) \/ Rename(w)
<1>0. wpc \in [Workers -> Places] /\ cur \in [Workers -> 0 .. files]
  BY DEF Inv, TypeOK, Places
<1> USE DEF LeavesDisk
<1>1. CASE Walk \/ WalkThrows \/ StartThrows \/ Return \/ Kill
  BY <1>1, WalkPicks DEF WalkThrows, StartThrows, Return, Kill, Ends
<1>2. ASSUME NEW w \in Workers, Start(w) \/ Fetch(w) PROVE LeavesDisk
  <2>1. wpc[w] \in {"unborn", "fetch"} /\ UNCHANGED <<diskVars, converted>>
    BY <1>2 DEF Start, Born, Fetch, TakeUpTo, At, Inv, Pool
  <2>2. /\ \A v \in Workers \ {w} : wpc'[v] = wpc[v] /\ cur'[v] = cur[v]
        /\ wpc'[w] \in {"fetch", "path", "exited"}
    BY <1>0, <1>2 DEF Start, Fetch, TakeUpTo, Goto
  <2> QED
    BY <2>1, <2>2
<1>3. ASSUME NEW w \in Workers, CountFailure(w) \/ Report(w) PROVE LeavesDisk
  BY <1>0, <1>3 DEF CountFailure, Report, At, Goto
<1>4. ASSUME NEW w \in Workers, PathThrows(w) PROVE LeavesDisk
  BY <1>4 DEF PathThrows, Ends
<1>5. ASSUME NEW w \in Workers, NEW from \in Places \ {"write"},
             NEW to \in {"parse", "open", "cleanup", "failed"}, Moves(w, from, to)
      PROVE  LeavesDisk
  BY <1>0, <1>5 DEF Moves, At, Goto
<1>6. ASSUME NEW w \in Workers,
             \/ Path(w) \/ Parse(w) \/ OpenThrows(w) \/ RenameThrows(w) \/ ReportThrows(w)
      PROVE  LeavesDisk
  BY <1>5, <1>6 DEF Path, Parse, OpenThrows, RenameThrows, ReportThrows, Places
<1>7. ASSUME NEW w \in Workers, ParseThrows(w) PROVE LeavesDisk
  BY <1>0, <1>7 DEF ParseThrows, At, Goto
<1>8. CASE Over \/ UNCHANGED vars
  BY <1>8 DEF Over, vars
<1> QED
  BY <1>1, <1>2, <1>3, <1>4, <1>6, <1>7, <1>8 DEF Next, Work, Throws

DiskTypes ==
  /\ handle \in [Workers -> Inodes \cup {0}]
  /\ tmp \in [Outs -> Inodes \cup {0}] /\ out \in [Outs -> Inodes \cup {0}]
  /\ content \in [Inodes -> {"partial", "complete", "garbled"}]

\* A worker with a file has a name for its output.
LEMMA NameType ==
  ASSUME Inv, NEW w \in Workers, Busy(w)
  PROVE  cur[w] \in Files /\ Name(w) \in Outs
<1>1. cur[w] \in 1 .. files /\ files \in 0 .. N
  BY DEF Inv, Taken, TypeOK
<1>2. cur[w] \in Files
  BY <1>1 DEF Files
<1> QED
  BY <1>2 DEF Name

\* open() always has an inode for the file.
LEMMA OpenInode ==
  ASSUME Inv, NEW w \in Workers, Open(w)
  PROVE  \E i \in Inodes :
           /\ tmp[Name(w)] = i \/ (tmp[Name(w)] = 0 /\ i \notin InUse)
           /\ handle' = [handle EXCEPT ![w] = i] /\ tmp' = [tmp EXCEPT ![Name(w)] = i]
           /\ content' = [content EXCEPT ![i] =
                IF \E v \in Workers \ {w} : handle[v] = i THEN "garbled" ELSE "partial"]
           /\ wpc[w] = "open" /\ wpc' = [wpc EXCEPT ![w] = "write"]
           /\ UNCHANGED <<cur, out, converted>> /\ Name(w) \in Outs
<1>1. wpc[w] = "open" /\ wpc' = [wpc EXCEPT ![w] = "write"] /\ UNCHANGED <<cur, out, converted>>
  BY DEF Open, At, Goto
<1>2. Name(w) \in Outs
  BY <1>1, NameType DEF Busy, Places
<1> DEFINE i == IF tmp[Name(w)] = 0 THEN FreshInode ELSE tmp[Name(w)]
<1>3. i \in Inodes /\ (tmp[Name(w)] = i \/ (tmp[Name(w)] = 0 /\ i \notin InUse))
  <2>1. tmp[Name(w)] \in Inodes \cup {0}
    BY <1>2 DEF Inv, TypeOK
  <2>2. tmp[Name(w)] = 0 => FreshInode \in Inodes /\ FreshInode \notin InUse
    BY <1>2, InodeLeft DEF Inv
  <2> QED
    BY <2>1, <2>2
<1>4. /\ handle' = [handle EXCEPT ![w] = i] /\ tmp' = [tmp EXCEPT ![Name(w)] = i]
      /\ content' = [content EXCEPT ![i] =
           IF \E v \in Workers \ {w} : handle[v] = i THEN "garbled" ELSE "partial"]
  BY DEF Open
<1> HIDE DEF i
<1> QED
  BY <1>1, <1>2, <1>3, <1>4

\* Every step keeps names and open files on inodes that exist.
LEMMA DiskTypesStep == Inv /\ [Next]_vars => DiskTypes'
<1> SUFFICES ASSUME Inv, [Next]_vars PROVE DiskTypes'
  OBVIOUS
<1>0. DiskTypes
  BY DEF Inv, TypeOK, DiskTypes
<1> USE DEF DiskTypes
<1>1. ASSUME NEW w \in Workers, Open(w) PROVE DiskTypes'
  BY <1>0, <1>1, OpenInode
<1>2. ASSUME NEW w \in Workers, Write(w) \/ WriteThrows(w) PROVE DiskTypes'
  <2>1. handle' \in [Workers -> Inodes \cup {0}] /\ UNCHANGED <<tmp, out>>
    BY <1>0, <1>2 DEF Write, WriteThrows, WriterEnds
  <2>2. content' \in [Inodes -> {"partial", "complete", "garbled"}]
    BY <1>0, <1>2 DEF Write, WriteThrows, WriterEnds
  <2> QED
    BY <1>0, <2>1, <2>2
<1>3. ASSUME NEW w \in Workers, Cleanup(w) PROVE DiskTypes'
  BY <1>0, <1>3 DEF Cleanup, Removes
<1>4. ASSUME NEW w \in Workers, Rename(w) PROVE DiskTypes'
  <2>1. Name(w) \in Outs
    BY <1>4, NameType DEF Rename, At, Busy, Places
  <2> QED
    BY <1>0, <1>4, <2>1 DEF Rename
<1>5. CASE Restart
  BY <1>0, <1>5 DEF Restart, None
<1>6. CASE LeavesDisk
  BY <1>0, <1>6 DEF LeavesDisk
<1> QED
  BY <1>1, <1>2, <1>3, <1>4, <1>5, <1>6, OtherSteps

PoolTypes ==
  /\ process \in {"walking", "running", "returned", "error", "terminated", "killed"}
  /\ runs \in Nat /\ files \in 0 .. N /\ jobs \in 0 .. MaxJobs
  /\ next \in Nat /\ failed \in Nat
  /\ wpc \in [Workers -> Places] /\ cur \in [Workers -> 0 .. files]

\* Every step keeps the types of the process and the pool.
LEMMA PoolTypesStep == Inv /\ [Next]_vars => PoolTypes'
<1> SUFFICES ASSUME Inv, [Next]_vars PROVE PoolTypes'
  OBVIOUS
<1>0. PoolTypes
  BY DEF Inv, TypeOK, PoolTypes, Places
<1> USE DEF PoolTypes
<1>1. CASE Walk
  <2>1. files' \in 0 .. N /\ jobs' \in 0 .. MaxJobs
    BY <1>0, <1>1, WalkPicks
  <2>2. cur' \in [Workers -> 0 .. files']
    <3>1. cur' = cur /\ files = 0
      BY <1>1, WalkPicks DEF Inv, Pool
    <3> QED
      BY <1>0, <2>1, <3>1
  <2> QED
    BY <1>0, <1>1, <2>1, <2>2, WalkPicks
<1>2. CASE Return \/ \E how \in {"error", "terminated", "killed"} : Stops(how)
  BY <1>0, <1>2 DEF Return, Ends, Stops
<1>3. CASE Restart
  BY <1>0, <1>3 DEF Restart, Unborn, None, Places
<1>4. ASSUME NEW w \in Workers, Start(w) PROVE PoolTypes'
  BY <1>0, <1>4 DEF Start, Places
<1>5. ASSUME NEW w \in Workers, Fetch(w) PROVE PoolTypes'
  <2>1. /\ next' = next + 1 /\ UNCHANGED <<process, startVars, failed>>
        /\ \/ cur' = cur
           \/ next < files /\ cur' = [cur EXCEPT ![w] = next + 1]
    BY <1>5 DEF Fetch, TakeUpTo, Goto
  <2>2. wpc' \in [Workers -> Places]
    BY <1>0, <1>5 DEF Fetch, TakeUpTo, Goto, Places
  <2>3. cur' \in [Workers -> 0 .. files]
    BY <1>0, <2>1
  <2> QED
    BY <1>0, <2>1, <2>2, <2>3
<1>6. ASSUME NEW w \in Workers, CountFailure(w) \/ Report(w) PROVE PoolTypes'
  BY <1>0, <1>6 DEF CountFailure, Report, Goto, Places, Uncaught
<1>7. ASSUME NEW w \in Workers, NEW to \in BusyPlaces, Works(w, to) PROVE PoolTypes'
  BY <1>0, <1>7 DEF Works, BusyPlaces
<1>8. CASE UNCHANGED vars
  BY <1>0, <1>8 DEF vars
<1> QED
  BY <1>1, <1>2, <1>3, <1>4, <1>5, <1>6, <1>7, <1>8, Kinds

\* Every step keeps the types of the reports and of the leaked descriptors.
LEMMA LogTypesStep ==
  Inv /\ [Next]_vars => /\ converted' \subseteq Files /\ failures' \subseteq Files
                        /\ leaked' \in 0 .. MaxFds
<1> SUFFICES ASSUME Inv, [Next]_vars
             PROVE  /\ converted' \subseteq Files /\ failures' \subseteq Files
                    /\ leaked' \in 0 .. MaxFds
  OBVIOUS
<1>1. converted' \subseteq Files /\ failures' \subseteq Files
  BY TakenStep, PoolTypesStep DEF Taken, PoolTypes, Files
<1> SUFFICES leaked' \in 0 .. MaxFds
  BY <1>1
<1>2. leaked \in 0 .. MaxFds
  BY DEF Inv, TypeOK
<1>3. CASE leaked' = leaked
  BY <1>2, <1>3
<1>4. ASSUME NEW w \in Workers, ParseThrows(w) PROVE leaked' \in 0 .. MaxFds
  <2>1. FdsInUse \in Nat /\ leaked <= FdsInUse
    BY FdsType DEF Inv
  <2>2. leaked' = leaked \/ (FdsInUse < MaxFds /\ leaked' = leaked + 1)
    BY <1>4 DEF ParseThrows, FdLeft
  <2> QED
    BY <1>2, <2>1, <2>2
<1>5. CASE Walk \/ WalkThrows \/ StartThrows \/ Return \/ Kill \/ Over \/ UNCHANGED vars
  BY <1>5, <1>3, WalkPicks DEF WalkThrows, StartThrows, Return, Kill, Ends, Over, vars
<1>6. CASE Restart
  BY <1>6 DEF Restart
<1>7. ASSUME NEW w \in Workers, Work(w) PROVE leaked' = leaked
  BY <1>7 DEF Work, Start, Fetch, TakeUpTo, Path, Parse, Moves, Open, Write, WriterEnds,
              Cleanup, Removes, Rename, Report, CountFailure
<1>8. ASSUME NEW w \in Workers, Throws(w), ~ParseThrows(w) PROVE leaked' = leaked
  BY <1>8 DEF Throws, PathThrows, Ends, OpenThrows, RenameThrows, ReportThrows, Moves,
              WriteThrows, WriterEnds
<1> QED
  BY <1>3, <1>4, <1>5, <1>6, <1>7, <1>8 DEF Next

\* Every step keeps the types.
LEMMA TypeStep == Inv /\ [Next]_vars => TypeOK'
BY DiskTypesStep, PoolTypesStep, LogTypesStep DEF TypeOK, DiskTypes, PoolTypes, Places

-------------------------------------------------------------------------------
(* Names and inodes.                                                       *)

\* Two workers with a file have different names for its output, and neither is
\* the name of a file already reported.
LEMMA NamesApart ==
  ASSUME OwnNames, Inv, NEW v \in Workers, Busy(v)
  PROVE  /\ \A w \in Workers : Busy(w) /\ Name(w) = Name(v) => w = v
         /\ \A i \in converted : OutOf[i] # Name(v)
<1>1. cur[v] \in Files /\ cur[v] \notin converted /\ converted \subseteq Files
  BY NameType DEF Inv, Taken, TypeOK
<1>2. ASSUME NEW w \in Workers, Busy(w), Name(w) = Name(v) PROVE w = v
  <2>1. cur[w] \in Files
    BY <1>2, NameType
  <2> QED
    BY <1>1, <1>2, <2>1 DEF OwnNames, Name, Inv, Taken
<1> QED
  BY <1>1, <1>2 DEF OwnNames, Name

\* Every step keeps the names and the inodes as Disk says, when no two files
\* are converted to one name.
LEMMA DiskStep == OwnNames /\ Inv /\ Disk /\ [Next]_vars => Disk'
<1> SUFFICES ASSUME OwnNames, Inv, Disk, [Next]_vars PROVE Disk'
  OBVIOUS
<1>0. /\ DiskTypes /\ wpc \in [Workers -> Places] /\ cur \in [Workers -> 0 .. files]
      /\ Owned /\ Apart /\ InPlace /\ OutNeverPartial
  BY DEF Inv, TypeOK, DiskTypes, Disk, Places
<1>1. ASSUME NEW w \in Workers, Open(w) PROVE Disk'
  <2>1. PICK i \in Inodes :
           /\ tmp[Name(w)] = i \/ (tmp[Name(w)] = 0 /\ i \notin InUse)
           /\ handle' = [handle EXCEPT ![w] = i] /\ tmp' = [tmp EXCEPT ![Name(w)] = i]
           /\ content' = [content EXCEPT ![i] =
                IF \E v \in Workers \ {w} : handle[v] = i THEN "garbled" ELSE "partial"]
           /\ wpc[w] = "open" /\ wpc' = [wpc EXCEPT ![w] = "write"]
           /\ UNCHANGED <<cur, out, converted>> /\ Name(w) \in Outs
    BY <1>1, OpenInode
  <2>2. Busy(w) /\ i # 0
    BY <2>1 DEF Busy, Places, Inodes
  <2>3. \A p \in Outs : out[p] # i /\ (tmp[p] = i => p = Name(w))
    BY <1>0, <2>1, <2>2 DEF Apart, InUse
  <2>4. \A v \in Workers \ {w} : Busy(v) => Name(v) \in Outs /\ Name(v) # Name(w)
    BY <2>2, NamesApart, NameType
  <2>5. \A v \in Workers \ {w} : handle[v] # i
    <3> SUFFICES ASSUME NEW v \in Workers \ {w}, handle[v] = i PROVE FALSE
      OBVIOUS
    <3>1. wpc[v] = "write" /\ tmp[Name(v)] = i
      BY <1>0, <2>2 DEF Owned
    <3>2. Name(v) \in Outs /\ Name(v) # Name(w)
      BY <2>4, <3>1 DEF Busy, Places
    <3> QED
      BY <2>3, <3>1, <3>2
  <2>6. content' = [content EXCEPT ![i] = "partial"]
    BY <2>1, <2>5
  <2>7. \A v \in Workers : Name(v)' = Name(v)
    BY <2>1 DEF Name
  <2>8. Owned'
    <3> SUFFICES ASSUME NEW v \in Workers PROVE
          (/\ handle[v] # 0 <=> wpc[v] = "write"
           /\ wpc[v] = "write" => tmp[Name(v)] = handle[v] /\ content[handle[v]] = "partial"
           /\ wpc[v] = "rename" => tmp[Name(v)] # 0 /\ content[tmp[Name(v)]] = "complete"
           /\ wpc[v] = "report" => tmp[Name(v)] = 0 /\ out[Name(v)] # 0)'
      BY DEF Owned
    <3>1. CASE v = w
      BY <1>0, <2>1, <2>2, <2>6, <2>7, <3>1 DEF DiskTypes
    <3>2. CASE v # w
      <4>1. handle'[v] = handle[v] /\ wpc'[v] = wpc[v] /\ handle[v] # i
        BY <1>0, <2>1, <2>5, <3>2 DEF DiskTypes
      <4>2. Busy(v) => tmp'[Name(v)] = tmp[Name(v)] /\ tmp[Name(v)] # i
        BY <1>0, <2>1, <2>3, <2>4, <3>2 DEF DiskTypes
      <4>3. \A j \in Inodes : j # i => content'[j] = content[j]
        BY <1>0, <2>6 DEF DiskTypes
      <4>4. handle[v] \in Inodes \cup {0} /\ (Busy(v) => tmp[Name(v)] \in Inodes \cup {0})
        BY <1>0, <2>4, <3>2 DEF DiskTypes
      <4> QED
        BY <1>0, <2>1, <2>7, <4>1, <4>2, <4>3, <4>4 DEF Owned, Busy, Places
    <3> QED
      BY <3>1, <3>2
  <2>9. Apart'
    BY <1>0, <2>1, <2>2, <2>3 DEF Apart, DiskTypes
  <2>10. InPlace'
    BY <1>0, <2>1, <2>2, NamesApart DEF InPlace, DiskTypes
  <2>11. OutNeverPartial'
    BY <1>0, <2>1, <2>3, <2>6 DEF OutNeverPartial, DiskTypes
  <2> QED
    BY <2>8, <2>9, <2>10, <2>11 DEF Disk
<1>2. ASSUME NEW w \in Workers, Write(w) PROVE Disk'
  <2> DEFINE i == handle[w]
  <2>1. /\ wpc[w] = "write" /\ wpc' = [wpc EXCEPT ![w] = "rename"]
        /\ handle' = [handle EXCEPT ![w] = 0] /\ UNCHANGED <<cur, tmp, out, converted>>
        /\ content' = [content EXCEPT ![i] = IF @ = "partial" THEN "complete" ELSE @]
    BY <1>2 DEF Write, WriterEnds, At, Goto
  <2>2. i \in Inodes /\ i # 0 /\ tmp[Name(w)] = i /\ content[i] = "partial" /\ Busy(w)
    BY <1>0, <2>1 DEF Owned, DiskTypes, Busy, Places
  <2> HIDE DEF i
  <2>3. Name(w) \in Outs /\ \A v \in Workers : Name(v)' = Name(v)
    BY <2>1, <2>2, NameType DEF Name
  <2>4. \A v \in Workers \ {w} : Busy(v) => Name(v) \in Outs /\ tmp[Name(v)] # i
    BY <1>0, <2>2, <2>3, NamesApart, NameType DEF Apart
  <2>5. content' = [content EXCEPT ![i] = "complete"]
    BY <1>0, <2>1, <2>2 DEF DiskTypes
  <2>6. Owned'
    <3> SUFFICES ASSUME NEW v \in Workers PROVE
          (/\ handle[v] # 0 <=> wpc[v] = "write"
           /\ wpc[v] = "write" => tmp[Name(v)] = handle[v] /\ content[handle[v]] = "partial"
           /\ wpc[v] = "rename" => tmp[Name(v)] # 0 /\ content[tmp[Name(v)]] = "complete"
           /\ wpc[v] = "report" => tmp[Name(v)] = 0 /\ out[Name(v)] # 0)'
      BY DEF Owned
    <3>1. CASE v = w
      BY <1>0, <2>1, <2>2, <2>3, <2>5, <3>1 DEF DiskTypes
    <3>2. CASE v # w
      <4>1. handle'[v] = handle[v] /\ wpc'[v] = wpc[v]
        BY <1>0, <2>1, <3>2 DEF DiskTypes
      <4>2. \A k \in Inodes : k # i => content'[k] = content[k]
        BY <1>0, <2>5 DEF DiskTypes
      <4>3. Busy(v) => tmp[Name(v)] \in Inodes \cup {0} /\ tmp[Name(v)] # i
        BY <1>0, <2>4, <3>2 DEF DiskTypes
      <4> QED
        BY <1>0, <2>1, <2>3, <4>1, <4>2, <4>3 DEF Owned, Busy, Places, DiskTypes
    <3> QED
      BY <3>1, <3>2
  <2>7. Apart' /\ InPlace'
    BY <1>0, <2>1 DEF Apart, InPlace
  <2>8. OutNeverPartial'
    BY <1>0, <2>1, <2>2, <2>3, <2>5 DEF OutNeverPartial, Apart, DiskTypes
  <2> QED
    BY <2>6, <2>7, <2>8 DEF Disk
<1>3. ASSUME NEW w \in Workers, WriteThrows(w) PROVE Disk'
  <2>1. /\ wpc[w] = "write" /\ wpc' = [wpc EXCEPT ![w] = "cleanup"]
        /\ handle' = [handle EXCEPT ![w] = 0]
        /\ UNCHANGED <<cur, tmp, out, content, converted>>
    BY <1>3 DEF WriteThrows, WriterEnds, At, Goto
  <2>2. Owned'
    BY <1>0, <2>1 DEF Owned, Name, DiskTypes
  <2> QED
    BY <1>0, <2>1, <2>2 DEF Disk, Apart, InPlace, OutNeverPartial
<1>4. ASSUME NEW w \in Workers, Cleanup(w) PROVE Disk'
  <2>1. /\ wpc[w] = "cleanup" /\ wpc' = [wpc EXCEPT ![w] = "failed"]
        /\ tmp' = tmp \/ tmp' = [tmp EXCEPT ![Name(w)] = 0]
        /\ UNCHANGED <<cur, handle, out, content, converted>>
    BY <1>4 DEF Cleanup, Removes, At, Goto
  <2>2. /\ Busy(w) /\ Name(w) \in Outs
        /\ \A v \in Workers \ {w} : Busy(v) => Name(v) \in Outs /\ Name(v) # Name(w)
    <3>1. Busy(w)
      BY <2>1 DEF Busy, Places
    <3> QED
      BY <3>1, NamesApart, NameType
  <2>3. \A o \in Outs : tmp'[o] = tmp[o] \/ (tmp'[o] = 0 /\ o = Name(w))
    BY <1>0, <2>1 DEF DiskTypes
  <2>4. \A v \in Workers : Name(v)' = Name(v)
    BY <2>1 DEF Name
  <2>5. Owned'
    <3> SUFFICES ASSUME NEW v \in Workers PROVE
          (/\ handle[v] # 0 <=> wpc[v] = "write"
           /\ wpc[v] = "write" => tmp[Name(v)] = handle[v] /\ content[handle[v]] = "partial"
           /\ wpc[v] = "rename" => tmp[Name(v)] # 0 /\ content[tmp[Name(v)]] = "complete"
           /\ wpc[v] = "report" => tmp[Name(v)] = 0 /\ out[Name(v)] # 0)'
      BY DEF Owned
    <3>1. CASE v = w
      BY <1>0, <2>1, <3>1 DEF Owned
    <3>2. CASE v # w
      <4>1. wpc'[v] = wpc[v] /\ (Busy(v) => tmp'[Name(v)] = tmp[Name(v)])
        BY <1>0, <2>1, <2>2, <2>3, <3>2
      <4> QED
        BY <1>0, <2>1, <2>4, <4>1 DEF Owned, Busy, Places
    <3> QED
      BY <3>1, <3>2
  <2>6. Apart'
    BY <1>0, <2>1, <2>3 DEF Apart
  <2>7. InPlace'
    <3>1. \A k \in converted : OutOf[k] \in Outs
      BY DEF Inv, TypeOK
    <3> QED
      BY <1>0, <2>1, <2>3, <3>1 DEF InPlace
  <2> QED
    BY <1>0, <2>1, <2>5, <2>6, <2>7 DEF Disk, OutNeverPartial
<1>5. ASSUME NEW w \in Workers, Rename(w) PROVE Disk'
  <2> DEFINE i == tmp[Name(w)]
  <2>1. /\ wpc[w] = "rename" /\ wpc' = [wpc EXCEPT ![w] = "report"] /\ i # 0
        /\ out' = [out EXCEPT ![Name(w)] = i] /\ tmp' = [tmp EXCEPT ![Name(w)] = 0]
        /\ UNCHANGED <<cur, handle, content, converted>>
    BY <1>5 DEF Rename, At, Goto
  <2>2. /\ Busy(w) /\ Name(w) \in Outs
        /\ \A v \in Workers \ {w} : Busy(v) => Name(v) \in Outs /\ Name(v) # Name(w)
        /\ \A k \in converted : OutOf[k] # Name(w)
    <3>1. Busy(w)
      BY <2>1 DEF Busy, Places
    <3> QED
      BY <3>1, NamesApart, NameType
  <2>3. \A o \in Outs : IF o = Name(w) THEN tmp'[o] = 0 /\ out'[o] = i
                                       ELSE tmp'[o] = tmp[o] /\ out'[o] = out[o]
    BY <1>0, <2>1 DEF DiskTypes
  <2>4. \A v \in Workers : Name(v)' = Name(v)
    BY <2>1 DEF Name
  <2>5. content[i] = "complete"
    BY <1>0, <2>1 DEF Owned
  <2> HIDE DEF i
  <2>6. Owned'
    <3> SUFFICES ASSUME NEW v \in Workers PROVE
          (/\ handle[v] # 0 <=> wpc[v] = "write"
           /\ wpc[v] = "write" => tmp[Name(v)] = handle[v] /\ content[handle[v]] = "partial"
           /\ wpc[v] = "rename" => tmp[Name(v)] # 0 /\ content[tmp[Name(v)]] = "complete"
           /\ wpc[v] = "report" => tmp[Name(v)] = 0 /\ out[Name(v)] # 0)'
      BY DEF Owned
    <3>1. CASE v = w
      BY <1>0, <2>1, <2>2, <2>3, <2>4, <3>1 DEF Owned
    <3>2. CASE v # w
      <4>1. wpc'[v] = wpc[v]
            /\ (Busy(v) => tmp'[Name(v)] = tmp[Name(v)] /\ out'[Name(v)] = out[Name(v)])
        BY <1>0, <2>1, <2>2, <2>3, <3>2
      <4> QED
        BY <1>0, <2>1, <2>4, <4>1 DEF Owned, Busy, Places
    <3> QED
      BY <3>1, <3>2
  <2>7. Apart'
    BY <1>0, <2>1, <2>2, <2>3 DEF Apart, i
  <2>8. InPlace'
    <3>1. \A k \in converted : OutOf[k] \in Outs
      BY DEF Inv, TypeOK
    <3> QED
      BY <1>0, <2>1, <2>2, <2>3, <3>1 DEF InPlace
  <2>9. OutNeverPartial'
    BY <1>0, <2>1, <2>3, <2>5 DEF OutNeverPartial
  <2> QED
    BY <2>6, <2>7, <2>8, <2>9 DEF Disk
<1>6. CASE Restart
  <2>1. Owned' /\ InPlace'
    BY <1>6 DEF Restart, Unborn, None, Owned, InPlace
  <2> QED
    BY <1>0, <1>6, <2>1 DEF Restart, Disk, Apart, OutNeverPartial
<1>7. CASE LeavesDisk
  <2>2. Owned'
    <3> SUFFICES ASSUME NEW v \in Workers PROVE
          (/\ handle[v] # 0 <=> wpc[v] = "write"
           /\ wpc[v] = "write" => tmp[Name(v)] = handle[v] /\ content[handle[v]] = "partial"
           /\ wpc[v] = "rename" => tmp[Name(v)] # 0 /\ content[tmp[Name(v)]] = "complete"
           /\ wpc[v] = "report" => tmp[Name(v)] = 0 /\ out[Name(v)] # 0)'
      BY DEF Owned
    <3> QED
      BY <1>0, <1>7 DEF Owned, Name, LeavesDisk
  <2>3. InPlace'
    BY <1>0, <1>7 DEF InPlace, Owned, Name, LeavesDisk
  <2> QED
    BY <1>0, <1>7, <2>2, <2>3 DEF Disk, Apart, OutNeverPartial, LeavesDisk
<1> QED
  BY <1>1, <1>2, <1>3, <1>4, <1>5, <1>6, <1>7, OtherSteps

-------------------------------------------------------------------------------
(* The theorems.                                                           *)

\* The pool and its accounts, in every reachable state.
THEOREM TreeInv == Spec => []Inv
<1>1. Inv /\ [Next]_vars => Inv'
  BY TypeStep, PoolStep, TakenStep, CountedStep DEF Inv
<1> QED
  BY InitInv, <1>1, PTL DEF Spec

\* Every variable keeps its type: there is an inode for every file opened, and
\* descriptors leak only up to their limit.
THEOREM TreeTypes == Spec => []TypeOK
<1>1. Inv => TypeOK
  BY DEF Inv
<1> QED
  BY TreeInv, <1>1, PTL

\* The names and inodes, in every reachable state.
THEOREM TreeDisk ==
  ASSUME OwnNames
  PROVE  Spec => [](Inv /\ Disk)
<1>1. Inv /\ Disk /\ [Next]_vars => (Inv /\ Disk)'
  BY OwnNames, DiskStep, TypeStep, PoolStep, TakenStep, CountedStep DEF Inv
<1> QED
  BY InitInv, <1>1, PTL DEF Spec

\* An existing .parquet is complete at every moment of every run, whatever
\* fails and whenever the process is killed.
THEOREM OutputsComplete ==
  ASSUME OwnNames
  PROVE  Spec => []OutNeverPartial
<1>1. Disk => OutNeverPartial
  BY DEF Disk
<1> QED
  BY TreeDisk, OwnNames, <1>1, PTL

\* What a run that returned reports, whatever the outputs are named.
AllReported ==
  process = "returned" =>
    /\ converted \cup failures = 1 .. files /\ converted \cap failures = {}
    /\ failed = Cardinality(failures)

\* When convert_tree returns, every file it found was reported once, as converted
\* or as failed, and the count it returns is that of the failed ones: also where
\* two files share an output name, which OwnNames excludes below.
THEOREM FilesReported == Spec => []AllReported
<1>1. Inv => AllReported
  <2> SUFFICES ASSUME Inv, process = "returned"
               PROVE  /\ converted \cup failures = 1 .. files /\ converted \cap failures = {}
                      /\ failed = Cardinality(failures)
    BY DEF AllReported
  <2>1. files \in Nat /\ next \in Nat /\ files <= next /\ \A w \in Workers : ~Busy(w)
    BY DEF Inv, TypeOK, Pool
  <2>2. converted \cup failures = 1 .. files
    BY <2>1 DEF Inv, Taken
  <2> QED
    BY <2>2 DEF Inv, Taken, Counted
<1> QED
  BY TreeInv, <1>1, PTL

\* When a run returns, every file was taken by exactly one worker and reported
\* once, the count returned is that of the failed files, and each converted
\* file has its output in place.
THEOREM FilesAccounted ==
  ASSUME OwnNames
  PROVE  Spec => []EveryFileAccounted
<1>1. Disk /\ AllReported => EveryFileAccounted
  BY DEF EveryFileAccounted, AllReported, Disk, InPlace
<1> QED
  BY TreeDisk, FilesReported, OwnNames, <1>1, PTL

\* An exit code of zero can be trusted: every file found has a complete output.
THEOREM ExitZeroTrusted ==
  ASSUME OwnNames
  PROVE  Spec => []ExitZeroMeansConverted
<1>1. Inv /\ Disk => ExitZeroMeansConverted
  <2> SUFFICES ASSUME Inv, Disk, process = "returned", failed = 0, NEW i \in 1 .. files
               PROVE  /\ out[OutOf[i]] # 0 /\ content[out[OutOf[i]]] = "complete"
                      /\ i \in converted
    BY DEF ExitZeroMeansConverted, ExitCode, rc
  <2>1. failures = {}
    <3>1. IsFiniteSet(Files) /\ failures \in SUBSET Files
      BY FS_Interval DEF Files, Inv, TypeOK
    <3>2. IsFiniteSet(failures)
      BY <3>1, FS_Subset
    <3>3. Cardinality(failures) = 0
      BY DEF Inv, Counted
    <3> QED
      BY <3>2, <3>3, FS_EmptySet
  <2>2. files \in 0 .. N /\ next \in Nat /\ files <= next /\ \A w \in Workers : ~Busy(w)
    BY DEF Inv, TypeOK, Pool
  <2>3. i \in converted /\ i \in Files
    BY <2>1, <2>2 DEF Inv, Taken, Files
  <2>4. OutOf[i] \in Outs /\ out[OutOf[i]] # 0
    BY <2>3 DEF Disk, InPlace
  <2> QED
    BY <2>3, <2>4 DEF Disk, OutNeverPartial
<1> QED
  BY TreeDisk, OwnNames, <1>1, PTL

\* An output that exists is only ever replaced by another, also where two files
\* share a name.
THEOREM OutputsKept == Spec => OutputsSurvive
<1> DEFINE Step == \A o \in Outs : out[o] # 0 => out'[o] # 0
<1>1. ASSUME Inv, [Next]_vars PROVE Step
  <2>1. CASE out' = out
    BY <2>1
  <2>2. ASSUME NEW w \in Workers, Rename(w) PROVE Step
    BY <1>1, <2>2 DEF Rename, Inv, TypeOK
  <2> QED
    BY <1>1, <2>1, <2>2, OtherSteps
       DEF LeavesDisk, Restart, Open, Write, WriteThrows, WriterEnds, Cleanup, Removes
<1> QED
  BY <1>1, TreeInv, PTL DEF Spec, OutputsSurvive

-------------------------------------------------------------------------------
(* The end of a run.                                                       *)

\* How far a worker is from the end of its turn.
Rank == [p \in Places |->
  CASE p = "unborn" -> 9 [] p = "path" -> 8 [] p = "parse" -> 7 [] p = "open" -> 6
    [] p = "write" -> 5 [] p \in {"cleanup", "rename"} -> 4 [] p = "report" -> 3
    [] p = "failed" -> 2 [] p = "fetch" -> 1 [] p = "exited" -> 0]

\* Worker w takes a file that nobody took before, or gets on with its own.
Advances(w) ==
  /\ \A v \in Workers \ {w} : wpc'[v] = wpc[v]
  /\ \/ next < files /\ next' = next + 1 /\ wpc[w] = "fetch"
     \/ next <= next' /\ Rank[wpc'[w]] < Rank[wpc[w]]

\* Every step of a run is one of these: a file that fails, at whichever call, is
\* not tried again, so that a run takes at most eight steps for each file, and
\* two more for each worker.
RunAdvances ==
  [][process = "running" /\ process' = "running" =>
       UNCHANGED <<files, jobs>> /\ \E w \in Workers : Advances(w)]_vars

\* The worker has its next call to make, which returns or throws, or its thread
\* is the next one to be started.
Ready(w) == /\ wpc[w] # "exited"
            /\ wpc[w] = "unborn" => \A v \in 2 .. jobs : v < w \/ w = Main => Born(v)

\* Until the last worker has left, one of them is ready.
PoolAwake ==
  process = "running" => \/ \A w \in 1 .. jobs : wpc[w] = "exited"
                         \/ \E w \in 1 .. jobs : Ready(w)

\* The pool never waits for a worker that nobody starts, whichever thread is
\* slow to start and whichever leaves first.
THEOREM PoolNeverStuck == Spec => []PoolAwake
<1>1. Inv => PoolAwake
  <2> SUFFICES ASSUME Inv, NEW w \in 1 .. jobs, wpc[w] # "exited"
               PROVE  \E v \in 1 .. jobs : Ready(v)
    BY DEF PoolAwake
  <2>0. jobs \in Nat
    BY DEF Inv, TypeOK
  <2> DEFINE U == {v \in 2 .. jobs : ~Born(v)}
  <2>1. CASE wpc[w] # "unborn"
    BY <2>1 DEF Ready
  <2>2. CASE U # {}
    <3>1. U \subseteq Nat
      BY <2>0
    <3> DEFINE m == Min(U)
    <3>2. m \in U /\ \A y \in U : m <= y
      BY <2>2, <3>1, MinExists
    <3> HIDE DEF m
    <3>3. m \in 2 .. jobs /\ wpc[m] = "unborn" /\ m # Main
      BY <2>0, <3>2 DEF Born, Main
    <3>4. \A v \in 2 .. jobs : v < m => Born(v)
      BY <2>0, <3>2, <3>3
    <3> QED
      BY <2>0, <3>3, <3>4 DEF Ready
  <2>3. CASE U = {} /\ wpc[w] = "unborn"
    <3>1. \A v \in 2 .. jobs : Born(v)
      BY <2>3
    <3> QED
      BY <2>0, <3>1, <2>3 DEF Ready
  <2> QED
    BY <2>1, <2>2, <2>3
<1> QED
  BY <1>1, TreeInv, PTL

\* The safety half of RunEnds: with PoolNeverStuck and workers that are
\* scheduled, a run ends however many of its files fail.
THEOREM RunShortens == Spec => RunAdvances
<1> DEFINE Goes == process = "running" /\ process' = "running" =>
                     UNCHANGED <<files, jobs>> /\ \E w \in Workers : Advances(w)
<1>1. ASSUME Inv, [Next]_vars, ~UNCHANGED vars, process = "running", process' = "running"
      PROVE  UNCHANGED <<files, jobs>> /\ \E w \in Workers : Advances(w)
  <2>1. wpc \in [Workers -> Places] /\ next \in Nat /\ files \in Nat
    BY <1>1 DEF Inv, TypeOK, Places
  <2>2. ASSUME NEW w \in Workers, NEW to \in Places, next' = next,
               wpc' = [wpc EXCEPT ![w] = to], Rank[to] < Rank[wpc[w]]
        PROVE  Advances(w)
    BY <2>1, <2>2 DEF Advances
  <2>3. PICK w \in Workers : Work(w) \/ Throws(w)
    BY <1>1 DEF Next, Walk, WalkThrows, StartThrows, Ends, Uncaught, Return, Kill, Restart, Over,
       Ended
  <2>0. /\ Rank["unborn"] = 9 /\ Rank["path"] = 8 /\ Rank["parse"] = 7 /\ Rank["open"] = 6
        /\ Rank["write"] = 5 /\ Rank["cleanup"] = 4 /\ Rank["rename"] = 4
        /\ Rank["report"] = 3 /\ Rank["failed"] = 2 /\ Rank["fetch"] = 1
        /\ Rank["exited"] = 0
    BY DEF Rank, Places
  <2> USE DEF Places
  <2>4. CASE Start(w)
    <3>1. /\ wpc[w] = "unborn" /\ wpc' = [wpc EXCEPT ![w] = "fetch"]
          /\ UNCHANGED <<files, jobs, next>>
      BY <2>4 DEF Start, Born
    <3>2. Rank["fetch"] < Rank[wpc[w]]
      BY <2>0, <3>1
    <3>3. Advances(w)
      BY <2>2, <3>1, <3>2
    <3> QED
      BY <3>1, <3>3
  <2>5. CASE Fetch(w)
    <3>1. wpc[w] = "fetch" /\ next' = next + 1 /\ UNCHANGED <<files, jobs>>
      BY <2>5 DEF Fetch, TakeUpTo, At, Goto
    <3>2. CASE next < files
      BY <2>1, <2>5, <3>1, <3>2 DEF Fetch, TakeUpTo, Goto, Advances
    <3>3. CASE ~(next < files)
      <4>1. wpc' = [wpc EXCEPT ![w] = "exited"]
        BY <2>1, <2>5, <3>3 DEF Fetch, TakeUpTo, Goto
      <4> QED
        BY <2>1, <2>0, <3>1, <4>1 DEF Advances
    <3> QED
      BY <3>2, <3>3
  <2>6. CASE \/ Path(w) \/ Parse(w) \/ OpenThrows(w) \/ RenameThrows(w) \/ ReportThrows(w)
    BY <2>2, <2>6, <2>0 DEF Path, Parse, OpenThrows, RenameThrows, ReportThrows, Moves, At, Goto
  <2>7. CASE ParseThrows(w) \/ Open(w) \/ Report(w)
    BY <2>2, <2>7, <2>0 DEF ParseThrows, Open, Report, At, Goto
  <2>8. CASE Write(w) \/ WriteThrows(w) \/ Cleanup(w) \/ Rename(w)
    BY <2>2, <2>8, <2>0 DEF Write, WriteThrows, WriterEnds, Cleanup, Removes, Rename, At, Goto
  <2>9. CASE CountFailure(w)
    BY <1>1, <2>2, <2>9, <2>0 DEF CountFailure, Uncaught, At, Goto
  <2>10. CASE PathThrows(w)
    BY <1>1, <2>10 DEF PathThrows, Ends, Uncaught
  <2> QED
    BY <2>3, <2>4, <2>5, <2>6, <2>7, <2>8, <2>9, <2>10 DEF Work, Throws
<1>2. Inv /\ [Next]_vars => Goes \/ UNCHANGED vars
  BY <1>1
<1>3. Spec => [][Goes]_vars
  BY <1>2, TreeInv, PTL DEF Spec
<1> QED
  BY <1>3 DEF RunAdvances
================================================================================
