------------------------------ MODULE AnalysisRuns ------------------------------
(***************************************************************************)
(* Location analysis runs.  A run pages through the eligible voters by     *)
(* primary key, one transaction per page, compares each with the           *)
(* boundaries around its point, and ends by copying its verdicts to the    *)
(* voters, while imports and geocoding change the voters under it.  Runs   *)
(* of the server and of command lines overlap; one that failed may be      *)
(* processed again, and then starts behind its last committed result.      *)
(* The comparison itself is DistrictChecks.                                *)
(***************************************************************************)
EXTENDS Naturals, FiniteSets, FiniteSetsExt

CONSTANTS Voters,    \* integers, in the order of voters.id
          Runs,
          Cli,       \* runs of a command line; the others are the server's
          BatchSize,
          MaxChanges, \* bound on changes of voters under the runs
          MaxFaults, \* bound on exceptions raised in runs
          MaxCrashes \* bound on restarts of the server

(* What the values of the constants must be.                              *)
RunsAssumption ==
  /\ Voters \subseteq Nat \ {0} /\ IsFiniteSet(Voters) /\ Cli \subseteq Runs
  /\ BatchSize \in Nat \ {0} /\ MaxChanges \in Nat
  /\ MaxFaults \in Nat /\ MaxCrashes \in Nat

Verdicts == {"match", "mismatch", "unable"}
None     == "none"

VARIABLES
  verdict, \* what comparing a voter's point and registration gives, None if it
           \* has no official point or is not in the latest import
  flag,    \* voters.has_district_mismatch, as the verdict it comes from
  status,  \* analysis_runs.status
  results, \* analysis_results of a run: voter -> match_status, None if no row
  row,     \* the counts in the run's row
  pc,      \* where the coroutine of a run stands
  cursor,  \* last_voter_id, 0 if None
  page,    \* the page's voters with the verdict they will get
  tally,   \* the coroutine's counts
  steady,  \* history: voters eligible ever since the run began
  spent    \* history: changes, faults and restarts used up

table  == <<status, results, row>>
locals == <<pc, cursor, page, tally>>
vars   == <<verdict, flag, table, locals, steady, spent>>

Having(f)     == {v \in Voters : f[v] # None}
Eligible      == Having(verdict)
NoVerdicts    == [v \in Voters |-> None]
Tally(f)      == [s \in Verdicts |-> Cardinality({v \in Voters : f[v] = s})]
NoTally       == [s \in Verdicts |-> 0]
Added(c, d)   == [s \in Verdicts |-> c[s] + d[s]]
Goto(r, l)    == pc' = [pc EXCEPT ![r] = l]
Live(r)       == pc[r] # "none"

Init == /\ verdict \in [Voters -> Verdicts \cup {None}]
        /\ flag = NoVerdicts
        /\ status = [r \in Runs |-> None]
        /\ results = [r \in Runs |-> NoVerdicts]
        /\ row = [r \in Runs |-> NoTally]
        /\ pc = [r \in Runs |-> "none"]
        /\ cursor = [r \in Runs |-> 0]
        /\ page = [r \in Runs |-> NoVerdicts]
        /\ tally = [r \in Runs |-> NoTally]
        /\ steady = [r \in Runs |-> {}]
        /\ spent = [changes |-> 0, faults |-> 0, crashes |-> 0]

-----------------------------------------------------------------------------
(* The voters change under the runs: geocoding or an override sets a       *)
(* point, an import changes a registration or drops the voter.             *)
Change(v, x) == /\ verdict[v] # x /\ spent.changes < MaxChanges
                /\ verdict' = [verdict EXCEPT ![v] = x]
                /\ steady' = [r \in Runs |-> IF x = None THEN steady[r] \ {v} ELSE steady[r]]
                /\ spent' = [spent EXCEPT !.changes = @ + 1]
                /\ UNCHANGED <<flag, table, locals>>

(* POST /analysis/runs and the analyze command: a pending row, and the     *)
(* coroutine that will process it.                                         *)
Trigger(r) == /\ status[r] = None
              /\ status' = [status EXCEPT ![r] = "pending"]
              /\ Goto(r, "created")
              /\ UNCHANGED <<verdict, flag, results, row, cursor, page, tally, steady, spent>>

(* Processing a run that ended early once more: it resumes.                *)
Resume(r) == /\ status[r] = "failed" /\ ~Live(r)
             /\ Goto(r, "created")
             /\ UNCHANGED <<verdict, flag, table, cursor, page, tally, steady, spent>>

(* Status running, then the cursor and the counts from the committed rows. *)
Begin(r) ==
  /\ pc[r] = "created"
  /\ status' = [status EXCEPT ![r] = "running"]
  /\ cursor' = [cursor EXCEPT ![r] = IF Having(results[r]) = {} THEN 0
                                     ELSE Max(Having(results[r]))]
  /\ tally' = [tally EXCEPT ![r] = Tally(results[r])]
  /\ steady' = [steady EXCEPT ![r] = IF Having(results[r]) = {} THEN Eligible ELSE @]
  /\ Goto(r, "paging")
  /\ UNCHANGED <<verdict, flag, results, row, page, spent>>

(* Wrong variant: the page is cut off the eligible voters by offset.       *)
PageByOffset(r) ==
  {v \in Eligible : LET k == Cardinality({w \in Eligible : w < v})
                        n == Cardinality(Having(results[r]))
                    IN n <= k /\ k < n + BatchSize}

(* The next voters behind the cursor.                                      *)
NextPage(r) == LET rest == {v \in Eligible : v > cursor[r]}
               IN {v \in rest : Cardinality({w \in rest : w < v}) < BatchSize}

Fetch(r) == /\ pc[r] = "paging" /\ NextPage(r) # {}
            /\ page' = [page EXCEPT ![r] = [v \in Voters |-> IF v \in NextPage(r) THEN verdict[v]
                                                             ELSE None]]
            /\ Goto(r, "flushing")
            /\ UNCHANGED <<verdict, flag, table, cursor, tally, steady, spent>>

(* The rows go in, ON CONFLICT DO NOTHING, with the progress counter.      *)
Flush(r) == /\ pc[r] = "flushing"
            /\ results' = [results EXCEPT ![r] = [v \in Voters |-> IF @[v] = None THEN page[r][v]
                                                                   ELSE @[v]]]
            /\ tally' = [tally EXCEPT ![r] = Added(@, Tally(page[r]))]
            /\ cursor' = [cursor EXCEPT ![r] = Max(Having(page[r]))]
            /\ page' = [page EXCEPT ![r] = NoVerdicts]
            /\ Goto(r, "paging")
            /\ UNCHANGED <<verdict, flag, status, row, steady, spent>>

(* An empty page ends it: counts, status and the voters' flags commit as   *)
(* one; a voter the run could not place is indeterminate again.            *)
Complete(r) ==
  /\ pc[r] = "paging" /\ NextPage(r) = {}
  /\ status' = [status EXCEPT ![r] = "completed"]
  /\ row' = [row EXCEPT ![r] = tally[r]]
  /\ flag' = [v \in Voters |-> CASE results[r][v] = None -> flag[v]
                                 [] results[r][v] = "unable" -> None
                                 [] OTHER -> results[r][v]]
  /\ Goto(r, "none")
  /\ UNCHANGED <<verdict, results, cursor, page, tally, steady, spent>>

(* An exception anywhere after Begin: rollback, and the failed row counts  *)
(* what was tallied, the rolled-back part of a page included.              *)
Raise(r) == /\ pc[r] \in {"paging", "flushing"} /\ spent.faults < MaxFaults
            /\ \E part \in SUBSET Having(page[r]) :
                 row' = [row EXCEPT ![r] =
                           Added(tally[r], Tally([v \in Voters |-> IF v \in part THEN page[r][v]
                                                                   ELSE None]))]
            /\ status' = [status EXCEPT ![r] = "failed"]
            /\ page' = [page EXCEPT ![r] = NoVerdicts]
            /\ Goto(r, "none")
            /\ spent' = [spent EXCEPT !.faults = @ + 1]
            /\ UNCHANGED <<verdict, flag, results, cursor, tally, steady>>

(* The server restarts: its coroutines are gone, and the boot fails every  *)
(* open run, a live one of a command line included.                        *)
Restart ==
  /\ spent.crashes < MaxCrashes
  /\ pc' = [r \in Runs |-> IF r \in Cli THEN pc[r] ELSE "none"]
  /\ page' = [r \in Runs |-> IF r \in Cli THEN page[r] ELSE NoVerdicts]
  /\ status' = [r \in Runs |-> IF status[r] \in {"pending", "running"} THEN "failed" ELSE status[r]]
  /\ spent' = [spent EXCEPT !.crashes = @ + 1]
  /\ UNCHANGED <<verdict, flag, results, row, cursor, tally, steady>>

Process(r) == Begin(r) \/ Fetch(r) \/ Flush(r) \/ Complete(r)

Next == \/ \E v \in Voters, x \in Verdicts \cup {None} : Change(v, x)
        \/ \E r \in Runs : Trigger(r) \/ Resume(r) \/ Process(r) \/ Raise(r)
        \/ Restart

Spec == Init /\ [][Next]_vars

-----------------------------------------------------------------------------
TypeOK == /\ verdict \in [Voters -> Verdicts \cup {None}]
          /\ flag \in [Voters -> Verdicts \cup {None}]
          /\ status \in [Runs -> {None, "pending", "running", "completed", "failed"}]
          /\ results \in [Runs -> [Voters -> Verdicts \cup {None}]]
          /\ row \in [Runs -> [Verdicts -> Nat]]
          /\ pc \in [Runs -> {"none", "created", "paging", "flushing"}]
          /\ cursor \in [Runs -> Voters \cup {0}]
          /\ page \in [Runs -> [Voters -> Verdicts \cup {None}]]
          /\ tally \in [Runs -> [Verdicts -> Nat]]
          /\ steady \in [Runs -> SUBSET Voters]
          /\ spent \in [changes : Nat, faults : Nat, crashes : Nat]

(* A completed run, resumed or not, has a result for every voter that was  *)
(* eligible from its beginning to its end, whatever came and went.         *)
NobodySkipped == \A r \in Runs : \A v \in Voters :
                   status[r] = "completed" /\ results[r][v] = None => v \notin steady[r]

(* The counts of a completed run are those of its rows: nothing is counted *)
(* twice or lost over rollbacks, resumption and skipped conflicts.         *)
CountsAddUp == \A r \in Runs : status[r] = "completed" => row[r] = Tally(results[r])

(* A voter is never flagged on the word of a run that did not complete.    *)
FlagsHaveRun == \A v \in Voters : flag[v] # None =>
                  \E r \in Runs : status[r] = "completed" /\ results[r][v] = flag[v]

RunsHold == NobodySkipped /\ CountsAddUp /\ FlagsHaveRun
=============================================================================
