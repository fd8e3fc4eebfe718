----------------------------- MODULE BenchSuite -----------------------------
(***************************************************************************)
(* The bench commands as processes that talk through files: load-bench     *)
(* runs every scenario in a child, collects what the children wrote and    *)
(* merges it into one report; harden-verify runs the test suites and       *)
(* load-bench, and judges the reports it finds.  Any of them may be killed *)
(* between two steps; files stay.  Commands follow one another: two at     *)
(* once would share their files without a lock.                            *)
(***************************************************************************)
EXTENDS Naturals, Sequences, Functions

CONSTANTS
  Modes,       \* kinds of isolated runs, each with a report file of its own
  Selected,    \* mode -> the ids of its scenarios, in file order
  Strict,      \* modes in which a missed gate fails the child
  Enforced,    \* ids whose gates are strict in every mode
  Ci,          \* the ids of the scenarios for --ci
  Optional, Unavailable,  \* ids that may be skipped; that this host cannot run
  MaxCommands  \* bound: commands given one after the other

(* A mode that selects nothing is refused before it starts. *)
ASSUME SuiteAssumption ==
  /\ {"harden", "latest"} \subseteq Modes /\ Modes \subseteq {"harden", "latest", "stress", "sim"}
  /\ "harden" \in Strict /\ Strict \subseteq Modes /\ MaxCommands \in Nat
  /\ \A m \in Modes : Selected[m] \in Seq(Range(Selected[m])) /\ Selected[m] # <<>>

VARIABLES
  runs, merged,  \* the files runs/<id>.json and <mode>.json
  cmd,           \* the running command
  epoch,         \* commands given so far
  exit           \* what the last command ended with

suiteVars == <<runs, merged, cmd, epoch, exit>>

strict(m, id) == m \in Strict \/ id \in Enforced

ScenarioIds == UNION {Range(Selected[m]) : m \in Modes}
Missing == [is |-> "missing", by |-> 0, results |-> <<>>]
Torn == [Missing EXCEPT !.is = "torn"]
Whole(results) == [is |-> "whole", by |-> epoch, results |-> results]

(* A result: whether the runner's gates passed, and whether harden-verify  *)
(* would pass it by its own, coarser rule.                                 *)
Result(id, gates, passes) == [id |-> id, by |-> epoch, gates |-> gates, passes |-> passes]

Idle == [at |-> "idle", mode |-> "harden", todo |-> <<>>, got |-> <<>>, failures |-> 0,
         verify |-> FALSE, load |-> FALSE, bad |-> FALSE, found |-> <<>>]
NoExit == [ok |-> FALSE, by |-> 0, mode |-> "harden", load |-> FALSE, entries |-> <<>>]

End(ok, entries) ==
  /\ cmd' = Idle
  /\ exit' = [ok |-> ok, by |-> epoch, mode |-> IF cmd.verify THEN "verify" ELSE cmd.mode,
              load |-> cmd.load, entries |-> entries]

----------------------------------------------------------------------------
(* load-bench, isolated *)

CleanRuns == [id \in ScenarioIds |-> Missing]

load_bench_isolated(c, m) == [c EXCEPT !.at = "next", !.mode = m, !.todo = Selected[m], !.got = <<>>, !.failures = 0]

StartBench(m) ==
  /\ cmd.at = "idle" /\ epoch < MaxCommands
  /\ epoch' = epoch + 1
  /\ cmd' = load_bench_isolated(Idle, m)
  /\ runs' = CleanRuns
  /\ UNCHANGED <<merged, exit>>

Skip ==
  /\ cmd.at = "next" /\ cmd.todo # <<>> /\ Head(cmd.todo) \in Optional \intersect Unavailable
  /\ cmd' = [cmd EXCEPT !.todo = Tail(@)]
  /\ UNCHANGED <<runs, merged, epoch, exit>>

(* The parent is told of a failed child, and reads its file in any case.   *)
(* A file that does not parse ends the command, with nothing merged.       *)
Collected(file, success) ==
  LET c == [cmd EXCEPT !.todo = Tail(@), !.failures = @ + IF success THEN 0 ELSE 1] IN
    CASE file.is = "missing" -> [c EXCEPT !.at = "next"]
      [] file.is = "whole" -> [c EXCEPT !.at = "next", !.got = @ \o file.results]
      [] file.is = "torn" -> [c EXCEPT !.at = IF c.verify THEN "reread" ELSE "abort", !.bad = TRUE]

(* Mutant: the child's status is not looked at. *)
collect_blind(file, success) == Collected(file, TRUE)

collect(file, success) == Collected(file, success)

(* One child, load_bench_inner for one scenario: it writes its report and  *)
(* fails if a strict gate was missed; it fails with nothing written if the *)
(* host cannot run it or the scenario cannot be set up; or it is killed    *)
(* while it writes.                                                        *)
ChildFile(id, how, gates, passes) ==
  CASE how = "ran" -> Whole(<<Result(id, gates, passes)>>)
    [] how = "failed" -> runs[id]
    [] how = "killed" -> Torn

ChildEnds(id, how, gates, passes) ==
  /\ id \in Unavailable => how = "failed"
  /\ runs' = [runs EXCEPT ![id] = ChildFile(id, how, gates, passes)]
  /\ cmd' = collect(ChildFile(id, how, gates, passes), how = "ran" /\ (gates \/ ~strict(cmd.mode, id)))

Child ==
  /\ cmd.at = "next" /\ cmd.todo # <<>> /\ Head(cmd.todo) \notin Optional \intersect Unavailable
  /\ \E how \in {"ran", "failed", "killed"}, gates, passes \in BOOLEAN : ChildEnds(Head(cmd.todo), how, gates, passes)
  /\ UNCHANGED <<merged, epoch, exit>>

(* write_report replaces the merged report; harden-verify goes on.         *)
Merge ==
  /\ cmd.at = "next" /\ cmd.todo = <<>>
  /\ merged' = [merged EXCEPT ![cmd.mode] = Whole(cmd.got)]
  /\ IF cmd.verify THEN cmd' = [cmd EXCEPT !.at = "reread", !.bad = @ \/ cmd.failures > 0] /\ UNCHANGED exit
                   ELSE End(cmd.failures = 0, cmd.got)
  /\ UNCHANGED <<runs, epoch>>

Abort ==
  /\ cmd.at = "abort" /\ End(FALSE, <<>>)
  /\ UNCHANGED <<runs, merged, epoch>>

(* load-bench --ci: one process for all scenarios, strict in every one; it *)
(* leaves out what the host cannot run and writes latest.json at the end.  *)
RunCi(judged) ==
  /\ cmd.at = "idle" /\ epoch < MaxCommands
  /\ epoch' = epoch + 1
  /\ LET ids == SelectSeq(Ci, LAMBDA id : id \notin Unavailable)
         results == [i \in 1..Len(ids) |-> [Result(ids[i], judged[ids[i]], judged[ids[i]]) EXCEPT !.by = epoch']]
     IN /\ merged' = [merged EXCEPT !["latest"] = [Whole(results) EXCEPT !.by = epoch']]
        /\ exit' = [NoExit EXCEPT !.ok = \A i \in 1..Len(ids) : judged[ids[i]], !.by = epoch', !.mode = "ci", !.entries = results]
  /\ UNCHANGED <<runs, cmd>>

(* A scenario that cannot be set up ends it with nothing written. *)
RunCiFails ==
  /\ cmd.at = "idle" /\ epoch < MaxCommands
  /\ epoch' = epoch + 1
  /\ exit' = [NoExit EXCEPT !.by = epoch', !.mode = "ci"]
  /\ UNCHANGED <<runs, merged, cmd>>

(* load-bench --scenario by hand leaves its file in runs/. *)
RunSingle(id, gates) ==
  /\ cmd.at = "idle" /\ epoch < MaxCommands /\ id \notin Unavailable
  /\ epoch' = epoch + 1
  /\ runs' = [runs EXCEPT ![id] = [Whole(<<[Result(id, gates, gates) EXCEPT !.by = epoch']>>) EXCEPT !.by = epoch']]
  /\ exit' = [NoExit EXCEPT !.ok = gates \/ ~strict("latest", id), !.by = epoch', !.mode = "single"]
  /\ UNCHANGED <<merged, cmd>>

(* Killed at any point; killed while it writes the merged report. *)
Killed ==
  /\ cmd.at # "idle" /\ End(FALSE, <<>>)
  /\ merged' \in {merged} \union {[merged EXCEPT ![m] = Torn] : m \in {x \in {cmd.mode} : cmd.at = "next" /\ cmd.todo = <<>>}}
  /\ UNCHANGED <<runs, epoch>>

----------------------------------------------------------------------------
(* harden-verify.  `got' holds the load report it has read. *)

(* The suites run (bad: one failed, or a case of theirs did not pass), and *)
(* the report of an earlier load-bench is read, if there is one.           *)
StartVerify(load, bad) ==
  /\ cmd.at = "idle" /\ epoch < MaxCommands
  /\ epoch' = epoch + 1
  /\ LET c == [Idle EXCEPT !.verify = TRUE, !.load = load, !.bad = bad,
                         !.got = merged["harden"].results, !.found = merged["harden"].results] IN
       cmd' = IF merged["harden"].is = "torn" THEN [c EXCEPT !.at = "abort"]
              ELSE IF load THEN load_bench_isolated(c, "harden") ELSE [c EXCEPT !.at = "judge"]
  /\ runs' = IF load /\ merged["harden"].is # "torn" THEN CleanRuns ELSE runs
  /\ UNCHANGED <<merged, exit>>

(* The report is read again, whatever became of the load run. *)
Reread == IF merged["harden"].is = "missing" THEN cmd.found ELSE merged["harden"].results

VerifyReads ==
  /\ cmd.at = "reread"
  /\ cmd' = IF merged["harden"].is = "torn" THEN [cmd EXCEPT !.at = "abort"]
            ELSE [cmd EXCEPT !.at = "judge", !.got = Reread]
  /\ UNCHANGED <<runs, merged, epoch, exit>>

Aggregate(m) == IF m \in Modes THEN merged[m] ELSE Missing

(* A scenario is judged by the first report that has it: the load report,  *)
(* then those of earlier stress and plain runs.                            *)
Judged(reports) ==
  \A k \in 1..Len(reports) : \A i \in 1..Len(reports[k]) :
    \/ reports[k][i].passes
    \/ \E l \in 1..k : \E j \in 1..Len(reports[l]) : (l < k \/ j < i) /\ reports[l][j].id = reports[k][i].id

VerifyJudges ==
  /\ cmd.at = "judge"
  /\ IF \E m \in {"stress", "latest"} : Aggregate(m).is = "torn" THEN End(FALSE, <<>>)
     ELSE End(~cmd.bad /\ Judged(<<cmd.got, Aggregate("stress").results, Aggregate("latest").results>>), cmd.got)
  /\ UNCHANGED <<runs, merged, epoch>>

SuiteInit ==
  /\ runs = [id \in ScenarioIds |-> Missing] /\ merged = [m \in Modes |-> Missing]
  /\ cmd = Idle /\ epoch = 0 /\ exit = NoExit

SuiteNext ==
  \/ \E m \in Modes : StartBench(m)
  \/ \E load, bad \in BOOLEAN : StartVerify(load, bad)
  \/ RunCiFails \/ \E judged \in [Range(Ci) -> BOOLEAN] : RunCi(judged)
  \/ \E id \in ScenarioIds, gates \in BOOLEAN : RunSingle(id, gates)
  \/ Skip \/ Child \/ Merge \/ Abort \/ Killed \/ VerifyReads \/ VerifyJudges

SuiteSpec == SuiteInit /\ [][SuiteNext]_suiteVars

----------------------------------------------------------------------------
Due(m) == {k \in 1..Len(Selected[m]) : Selected[m][k] \notin Optional \intersect Unavailable}

(* The results of the scenarios that were due, each once and in their order. *)
Covers(results, m) ==
  \E place \in [1..Len(results) -> Due(m)] :
    /\ \A i, j \in 1..Len(results) : i < j => place[i] < place[j]
    /\ \A k \in Due(m) : \E i \in 1..Len(results) : place[i] = k
    /\ \A i \in 1..Len(results) : results[i].id = Selected[m][place[i]]

BenchHonest ==
  (exit.ok /\ exit.mode \in Modes) =>
    /\ Covers(exit.entries, exit.mode)
    /\ \A i \in 1..Len(exit.entries) :
         exit.entries[i].by = exit.by /\ (strict(exit.mode, exit.entries[i].id) => exit.entries[i].gates)

VerifyHonest ==
  (exit.ok /\ exit.mode = "verify" /\ exit.load) =>
    /\ Covers(exit.entries, "harden")
    /\ \A i \in 1..Len(exit.entries) : exit.entries[i].by = exit.by /\ exit.entries[i].gates

(* load-bench ends well only if every scenario that was due ran in this    *)
(* very command and, where its gates are strict, met them, whatever        *)
(* earlier commands left behind and wherever they were killed.             *)
(* harden-verify with its load run, all of which is strict, ends well only *)
(* if the same is true of the scenarios of that run: reports it found      *)
(* before and killed children do not count.                                *)
ExitHonest == BenchHonest /\ VerifyHonest
=============================================================================
