------------------------------ MODULE ConvertTree -----------------------------
(***************************************************************************)
(* convert_tree() and convert_file(): the directory is walked, a pool of   *)
(* workers takes the files from a shared counter and converts each into    *)
(* `<name>.parquet.tmp', which is renamed to `<name>.parquet' on success.  *)
(* Every step can fail, and the process can be killed at any point and     *)
(* started again over what it left.                                        *)
(*                                                                         *)
(* The output directory is a map from names to inodes (0 is no entry), so  *)
(* that a name and an open file are different things: opening a name that  *)
(* exists truncates its inode, and renaming a name moves whatever inode it *)
(* stands for.  What is in a Parquet file is ParquetWriter's concern; here *)
(* an inode is "partial", "complete", or "garbled" by two writers.  How    *)
(* many workers there are is AutoJobs' concern; here it is any number that *)
(* JobsInRange of that module allows.                                      *)
(***************************************************************************)
EXTENDS Naturals, FiniteSets, FiniteSetsExt

CONSTANTS
  N,         \* bound: how many files the walk may find; sorted, they are 1 .. N
  MaxJobs,   \* bound: how many workers there may be
  Outs,      \* the output names
  OutOf,     \* the output name of each file
  MaxFds,    \* how many descriptors the process may have open for files
  MaxRuns    \* bound: how often the process is started

Files == 1 .. N
Workers == 1 .. MaxJobs
Main == 1    \* the worker that runs on the thread of convert_tree()
Inodes == 1 .. 2 * Cardinality(Outs) + MaxJobs

ASSUME TreeAssumption == /\ N \in Nat /\ MaxJobs \in Nat \ {0} /\ MaxRuns \in Nat
                         /\ MaxFds \in Nat /\ IsFiniteSet(Outs)
                         /\ OutOf \in [Files -> Outs]

VARIABLES
  process,    \* "walking", "running", or how it ended: "returned", "error" (an
              \* exception reached main()), "terminated" or "killed"
  runs,       \* how often it has been started
  files,      \* how many files were found
  jobs,       \* jobs
  next,       \* next: the number of files taken
  failed,     \* failed
  leaked,     \* descriptors nothing will close any more
  wpc,        \* where each worker is
  cur,        \* the file each worker has
  handle,     \* the inode each worker's Parquet writer has open, or 0
  tmp, out,   \* the directory: <name>.parquet.tmp and <name>.parquet
  content,    \* what each inode holds
  converted,  \* the files this run reported as converted
  failures    \* the files this run reported as failed

startVars == <<runs, files, jobs>>
countVars == <<next, failed, leaked>>
diskVars  == <<handle, tmp, out, content>>
logVars   == <<converted, failures>>
dataVars  == <<cur, countVars, diskVars, logVars>>
vars      == <<process, startVars, wpc, dataVars>>

None == [w \in Workers |-> 0]
Unborn == [w \in Workers |-> "unborn"]

Init == /\ process = "walking" /\ runs = 1 /\ files = 0 /\ jobs = 0
        /\ next = 0 /\ failed = 0 /\ leaked = 0
        /\ wpc = Unborn /\ cur = None /\ handle = None
        /\ tmp = [o \in Outs |-> 0] /\ out = [o \in Outs |-> 0]
        /\ content = [i \in Inodes |-> "partial"]
        /\ converted = {} /\ failures = {}

-------------------------------------------------------------------------------
(* The walk, and the start of the pool.                                    *)

\* Some files are found and the pool is sized, or there are none.
Walk ==
  /\ process = "walking"
  /\ \E n \in 0 .. N :
       \/ /\ n > 0 /\ process' = "running" /\ files' = n
          /\ \E j \in 1 .. Min({n, MaxJobs}) : jobs' = j
       \/ n = 0 /\ process' = "returned" /\ UNCHANGED <<files, jobs>>
  /\ UNCHANGED <<runs, wpc, dataVars>>

Ends(how) == process' = how /\ UNCHANGED <<startVars, wpc, dataVars>>

\* The input is no directory, the walk meets one it cannot read, or stdout
\* cannot be written.
WalkThrows == process = "walking" /\ Ends("error")

Born(w) == wpc[w] # "unborn"

\* Threads are started one by one, and are at work while the next one starts;
\* the thread of convert_tree() joins in last.
Start(w) ==
  /\ process = "running" /\ w <= jobs /\ ~Born(w)
  /\ \A v \in 2 .. jobs : v < w \/ w = Main => Born(v)
  /\ wpc' = [wpc EXCEPT ![w] = "fetch"]
  /\ UNCHANGED <<process, startVars, dataVars>>

\* An exception that no worker handles: it terminates the process unless it is
\* on the thread of convert_tree() with no other thread to join.
Uncaught(w) == IF w = Main /\ ~\E v \in 2 .. jobs : Born(v) THEN "error" ELSE "terminated"

\* A thread cannot be created.
StartThrows ==
  /\ process = "running" /\ \E w \in 2 .. jobs : ~Born(w)
  /\ Ends(Uncaught(Main))

-------------------------------------------------------------------------------
(* The worker loop.                                                        *)

At(w, place) == process = "running" /\ wpc[w] = place
Goto(w, place) == wpc' = [wpc EXCEPT ![w] = place] /\ UNCHANGED <<process, startVars>>
Moves(w, from, to) == At(w, from) /\ Goto(w, to) /\ UNCHANGED dataVars
Name(w) == OutOf[cur[w]]

TakeUpTo(w, last) ==
  /\ At(w, "fetch")
  /\ next' = next + 1
  /\ \/ next < last /\ Goto(w, "path") /\ cur' = [cur EXCEPT ![w] = next + 1]
     \/ next >= last /\ Goto(w, "exited") /\ UNCHANGED cur
  /\ UNCHANGED <<failed, leaked, diskVars, logVars>>

\* Faulty variants: one file too many, and a counter that is not advanced in
\* the step that reads it.
FetchPastEnd(w) == TakeUpTo(w, files + 1)
FetchStale(w) ==
  \/ TakeUpTo(w, files)
  \/ /\ At(w, "fetch") /\ next < files
     /\ \E v \in Workers \ {w} : wpc[v] = "fetch"
     /\ Goto(w, "path") /\ cur' = [cur EXCEPT ![w] = next + 1]
     /\ UNCHANGED <<countVars, diskVars, logVars>>

\* i = next.fetch_add(1)
Fetch(w) == TakeUpTo(w, files)

\* The output path, through fs::relative, which may throw outside any handler.
Path(w) == Moves(w, "path", "parse")
PathThrows(w) == At(w, "path") /\ Ends(Uncaught(w))

\* Faulty variants: a failed file is tried again, or not counted.
CountFailureRetry(w) == Moves(w, "failed", "path")
CountFailureNever(w) == Moves(w, "failed", "fetch")

\* The handler: the failure is counted, and reported if stderr can be written.
CountFailure(w) ==
  /\ At(w, "failed")
  /\ failed' = failed + 1
  /\ \/ failures' = failures \cup {cur[w]} /\ Goto(w, "fetch")
     \/ process' = Uncaught(w) /\ UNCHANGED <<startVars, wpc, failures>>
  /\ UNCHANGED <<next, leaked, cur, diskVars, converted>>

-------------------------------------------------------------------------------
(* convert_file().                                                         *)

\* A conversion has its input open from the parser's constructor to its end.
Holding == {w \in Workers : wpc[w] \in {"open", "write", "cleanup", "rename"}}
FdsInUse == leaked + Cardinality(Holding) + Cardinality({w \in Workers : handle[w] # 0})
FdLeft == FdsInUse < MaxFds

\* The metadata is read, names one schema, and the directories are there.
Parse(w) == FdLeft /\ Moves(w, "parse", "open")

\* Any of these throws, before the temporary file is touched.  The parser's
\* constructor may have opened the input by then: its destructor does not run.
ParseThrows(w) ==
  /\ At(w, "parse")
  /\ Goto(w, "failed")
  /\ leaked' \in {leaked} \cup (IF FdLeft THEN {leaked + 1} ELSE {})
  /\ UNCHANGED <<cur, next, failed, diskVars, logVars>>

InUse == {tmp[o] : o \in Outs} \cup {out[o] : o \in Outs} \cup {handle[w] : w \in Workers}
FreshInode == Min(Inodes \ InUse)

\* FileOutputStream::Open(tmp): creates the file or truncates the one there.
Open(w) ==
  /\ At(w, "open") /\ FdLeft
  /\ LET i == IF tmp[Name(w)] = 0 THEN FreshInode ELSE tmp[Name(w)]
         shared == \E v \in Workers \ {w} : handle[v] = i
     IN /\ handle' = [handle EXCEPT ![w] = i]
        /\ tmp' = [tmp EXCEPT ![Name(w)] = i]
        /\ content' = [content EXCEPT ![i] = IF shared THEN "garbled" ELSE "partial"]
  /\ Goto(w, "write")
  /\ UNCHANGED <<cur, countVars, out, logVars>>

\* The writer's constructor throws before it opens the file.
OpenThrows(w) == Moves(w, "open", "cleanup")

\* The writer is destroyed, and its file with it.
WriterEnds(w, to, contents) ==
  /\ At(w, "write")
  /\ content' = contents /\ handle' = [handle EXCEPT ![w] = 0]
  /\ Goto(w, to)
  /\ UNCHANGED <<cur, countVars, tmp, out, logVars>>

\* Faulty variant: the handler lets a failed conversion go on to the rename.
WriteEndsAnyhow(w) == WriterEnds(w, "rename", content)

\* Every record is appended and close() returns.
Write(w) ==
  WriterEnds(w, "rename", [content EXCEPT ![handle[w]] =
                             IF @ = "partial" THEN "complete" ELSE @])

\* The parser or the writer throws.
WriteThrows(w) == WriterEnds(w, "cleanup", content)

Removes(w, tmps, outs) ==
  /\ At(w, "cleanup")
  /\ tmp' \in tmps /\ out' = outs
  /\ Goto(w, "failed")
  /\ UNCHANGED <<cur, countVars, handle, content, logVars>>

\* Faulty variant: the output is removed, not the temporary file.
CleanupOutput(w) == Removes(w, {tmp}, [out EXCEPT ![Name(w)] = 0])

\* catch (...): the temporary file is removed, and an error in that ignored.
Cleanup(w) == Removes(w, {tmp, [tmp EXCEPT ![Name(w)] = 0]}, out)

Rename(w) ==
  /\ At(w, "rename") /\ tmp[Name(w)] # 0
  /\ out' = [out EXCEPT ![Name(w)] = tmp[Name(w)]]
  /\ tmp' = [tmp EXCEPT ![Name(w)] = 0]
  /\ Goto(w, "report")
  /\ UNCHANGED <<cur, countVars, handle, content, logVars>>

\* rename() fails outside the handler that removes the temporary file.
RenameThrows(w) == Moves(w, "rename", "failed")

-------------------------------------------------------------------------------
(* The report, the end of the run, and the process.                        *)

Report(w) ==
  /\ At(w, "report")
  /\ converted' = converted \cup {cur[w]}
  /\ Goto(w, "fetch")
  /\ UNCHANGED <<cur, countVars, diskVars, failures>>

\* fs::file_size(in) or the write to stdout throws: the file is counted as
\* failed after all.
ReportThrows(w) == Moves(w, "report", "failed")

\* Every thread is joined and the number of failures returned.
Return ==
  /\ process = "running" /\ \A w \in 1 .. jobs : wpc[w] = "exited"
  /\ Ends("returned")

Kill == process \in {"walking", "running"} /\ runs < MaxRuns /\ Ends("killed")

Ended == process \notin {"walking", "running"}

\* A new run over the same directories.
Restart ==
  /\ Ended /\ runs < MaxRuns
  /\ process' = "walking" /\ runs' = runs + 1 /\ files' = 0 /\ jobs' = 0
  /\ next' = 0 /\ failed' = 0 /\ leaked' = 0
  /\ wpc' = Unborn /\ cur' = None /\ handle' = None
  /\ converted' = {} /\ failures' = {}
  /\ UNCHANGED <<tmp, out, content>>

Over == Ended /\ UNCHANGED vars

Work(w) == \/ Start(w) \/ Fetch(w) \/ Path(w) \/ Parse(w) \/ Open(w) \/ Write(w)
           \/ Cleanup(w) \/ Rename(w) \/ Report(w) \/ CountFailure(w)

Throws(w) == \/ PathThrows(w) \/ ParseThrows(w) \/ OpenThrows(w) \/ WriteThrows(w)
             \/ RenameThrows(w) \/ ReportThrows(w)

Next == \/ Walk \/ WalkThrows \/ StartThrows
        \/ \E w \in Workers : Work(w) \/ Throws(w)
        \/ Return \/ Kill \/ Restart \/ Over

Spec == Init /\ [][Next]_vars

\* Every thread keeps being scheduled; a step that cannot succeed throws.
FairSpec == /\ Spec /\ WF_vars(Walk \/ WalkThrows) /\ WF_vars(Return)
            /\ \A w \in Workers : WF_vars(Work(w) \/ Throws(w))

-------------------------------------------------------------------------------
(* Properties.                                                             *)

\* Every variable of the conversion keeps its type.
TypeOK ==
  /\ process \in {"walking", "running", "returned", "error", "terminated", "killed"}
  /\ runs \in Nat /\ files \in 0 .. N /\ jobs \in 0 .. MaxJobs
  /\ next \in Nat /\ failed \in Nat /\ leaked \in 0 .. MaxFds
  /\ wpc \in [Workers -> {"unborn", "fetch", "path", "parse", "open", "write",
                          "cleanup", "rename", "report", "failed", "exited"}]
  /\ cur \in [Workers -> 0 .. files] /\ handle \in [Workers -> Inodes \cup {0}]
  /\ tmp \in [Outs -> Inodes \cup {0}] /\ out \in [Outs -> Inodes \cup {0}]
  /\ content \in [Inodes -> {"partial", "complete", "garbled"}]
  /\ converted \subseteq Files /\ failures \subseteq Files

\* An existing .parquet is complete: at every moment, so whatever fails and
\* whenever the process is killed.
OutNeverPartial == \A o \in Outs : out[o] # 0 => content[out[o]] = "complete"

\* When the run returns, every file was taken by exactly one worker: it is
\* reported once, as converted or as failed, the count returned is the number
\* of failed files, and each converted file has its output in place and no
\* temporary file beside it.
EveryFileAccounted ==
  process = "returned" =>
    /\ converted \cup failures = 1 .. files /\ converted \cap failures = {}
    /\ failed = Cardinality(failures)
    /\ \A i \in converted : out[OutOf[i]] # 0 /\ tmp[OutOf[i]] = 0

\* The exit code of `nplayer convert': that of the callback if convert_tree()
\* returned; any other end gives a nonzero one.
rc == IF failed = 0 THEN 0 ELSE 1
ExitCode == IF process = "returned" THEN rc ELSE 1

\* An exit code of zero can be trusted: every file found has an output, and a
\* complete one, whatever earlier runs left behind.
ExitZeroMeansConverted ==
  Ended /\ ExitCode = 0 =>
    \A i \in 1 .. files : /\ out[OutOf[i]] # 0
                          /\ content[out[OutOf[i]]] = "complete"
                          /\ i \in converted

\* "Files that fail are reported and skipped": whatever fails for one file, the
\* process goes on with the others.
FailuresSkipped == process # "terminated"

\* A file that fails leaves nothing behind that makes another one fail: while
\* the limit allows two descriptors for each worker, a worker about to open its
\* input has one left.
FailuresIsolated ==
  MaxFds >= 2 * MaxJobs => \A w \in Workers : At(w, "parse") => FdLeft

\* An output that exists is only ever replaced by another: a conversion that
\* fails leaves the one of an earlier run alone.
OutputsSurvive ==
  [][\A o \in Outs : out[o] # 0 => out'[o] # 0]_vars

\* A run ends, however many of its files fail.
RunEnds == process = "running" ~> Ended
===============================================================================
