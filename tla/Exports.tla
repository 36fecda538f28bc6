--------------------------------- MODULE Exports ---------------------------------
(***************************************************************************)
(* Bulk exports of voters: a job row, a query over voters (joined to the   *)
(* results of the analysis runs when the filters ask for it), a file, and  *)
(* the download of a completed job's file.  A job asked for over the API   *)
(* runs as a background task of the server, one from the command line in   *)
(* its own process; imports and analyses commit while it runs.  A voter is *)
(* the version its row has; a record of a file names the voter, that       *)
(* version and, for a joined query, the run the result is of.              *)
(***************************************************************************)
EXTENDS Naturals, FiniteSets

CONSTANTS
  Voters, Runs,   \* rows of voters; analysis runs
  Jobs, Cli,      \* export jobs; those made on the command line
  None,
  MaxVersion,     \* bound: times a voter is written
  MaxFaults       \* bound: faults of the file system, the database or a process

ExportsAssumption == Cli \subseteq Jobs /\ {MaxVersion, MaxFaults} \subseteq Nat

Filters == {[run |-> r, match |-> m] : r \in Runs \cup {None}, m \in {"match", "mismatch", None}}

VARIABLES
  voter,      \* the version of each voter's row
  results,    \* the analysis results, <<run, voter, match status>>
  job,        \* the export_jobs rows
  file,       \* what is on disk under each job's name, or None
  pc,         \* where each job's task is
  rows,       \* the records the task has read
  asked,      \* what each job's query would have read when it was asked for
  since,      \* and at every moment since
  faults

vars == <<voter, results, job, file, pc, rows, asked, since, faults>>

(* _build_export_query: without an analysis filter every voter, with one   *)
(* the join, a record for every result of the voter that passes.           *)
Query(f, v, res) ==
  IF f.run = None /\ f.match = None
  THEN {<<w, v[w], None>> : w \in {u \in Voters : v[u] > 0}}
  ELSE {<<r[2], v[r[2]], r[1]>> : r \in {s \in res : (f.run = None \/ s[1] = f.run)
                                                    /\ (f.match = None \/ s[3] = f.match)}}

NoJob == [status |-> None, filter |-> None, count |-> None]

Init ==
  /\ voter = [v \in Voters |-> 0] /\ results = {}
  /\ job = [j \in Jobs |-> NoJob] /\ file = [j \in Jobs |-> None]
  /\ pc = [j \in Jobs |-> "none"] /\ rows = [j \in Jobs |-> {}]
  /\ asked = [j \in Jobs |-> None] /\ since = [j \in Jobs |-> {}] /\ faults = 0

-----------------------------------------------------------------------------
(* The other components commit: a chunk of an import writes some voters, a *)
(* run stores its results.  What every open job's query would read changes. *)
Open(j) == pc[j] \in {"queued", "fetching"}
Remember(v, res) ==
  since' = [j \in Jobs |-> IF Open(j) THEN since[j] \cup {Query(job[j].filter, v, res)}
                          ELSE since[j]]

Import ==
  \E vs \in (SUBSET Voters) \ {{}} :
    /\ \A v \in vs : voter[v] < MaxVersion
    /\ voter' = [v \in Voters |-> IF v \in vs THEN voter[v] + 1 ELSE voter[v]]
    /\ Remember(voter', results)
    /\ UNCHANGED <<results, job, file, pc, rows, asked, faults>>

Analyze ==
  \E r \in Runs, v \in Voters, m \in {"match", "mismatch"} :
    /\ voter[v] > 0 /\ ~\E s \in results : s[1] = r /\ s[2] = v
    /\ results' = results \cup {<<r, v, m>>}
    /\ Remember(voter, results')
    /\ UNCHANGED <<voter, job, file, pc, rows, asked, faults>>

-----------------------------------------------------------------------------
(* create_export_job commits the row; the endpoint submits the task. *)
Request(j) ==
  /\ pc[j] = "none"
  /\ \E f \in Filters :
       /\ job' = [job EXCEPT ![j] = [NoJob EXCEPT !.status = "pending", !.filter = f]]
       /\ asked' = [asked EXCEPT ![j] = Query(f, voter, results)]
       /\ since' = [since EXCEPT ![j] = {Query(f, voter, results)}]
  /\ pc' = [pc EXCEPT ![j] = "queued"]
  /\ UNCHANGED <<voter, results, file, rows, faults>>

Run(j) ==
  /\ pc[j] = "queued"
  /\ job' = [job EXCEPT ![j].status = "running"]
  /\ pc' = [pc EXCEPT ![j] = "fetching"]
  /\ UNCHANGED <<voter, results, file, rows, asked, since, faults>>

(* As if the records were read page by page, each page a query of its own. *)
FetchByPages(j) ==
  /\ pc[j] = "fetching"
  /\ \E v \in Voters :
       LET page == {row \in Query(job[j].filter, voter, results) : row[1] = v}
       IN  /\ rows' = [rows EXCEPT ![j] = @ \cup page]
           /\ pc' = [pc EXCEPT ![j] = IF rows'[j] # rows[j] THEN @ ELSE "writing"]
  /\ UNCHANGED <<voter, results, job, file, asked, since, faults>>

(* _fetch_export_records streams one query: one snapshot.                  *)
Fetch(j) ==
  /\ pc[j] = "fetching"
  /\ rows' = [rows EXCEPT ![j] = Query(job[j].filter, voter, results)]
  /\ pc' = [pc EXCEPT ![j] = "writing"]
  /\ UNCHANGED <<voter, results, job, file, asked, since, faults>>

(* export_voters opens the file under the job's name and writes one record *)
(* after another; half way the file has some of them.                      *)
Write(j) ==
  /\ pc[j] = "writing"
  /\ \E part \in SUBSET rows[j] :
       /\ file' = [file EXCEPT ![j] = part]
       /\ pc' = [pc EXCEPT ![j] = IF part = rows[j] THEN "written" ELSE "writing"]
  /\ UNCHANGED <<voter, results, job, rows, asked, since, faults>>

Complete(j) ==
  /\ pc[j] = "written"
  /\ job' = [job EXCEPT ![j].status = "completed", ![j].count = Cardinality(rows[j])]
  /\ pc' = [pc EXCEPT ![j] = "ended"]
  /\ UNCHANGED <<voter, results, file, rows, asked, since, faults>>

(* The except clause marks the job failed; when it was the database that   *)
(* failed, its commit fails too and the row stays as it is.                *)
Raise(j) ==
  /\ pc[j] \in {"fetching", "writing", "written"} /\ faults < MaxFaults
  /\ \E saved \in BOOLEAN :
       job' = [job EXCEPT ![j].status = IF saved THEN "failed" ELSE @]
  /\ pc' = [pc EXCEPT ![j] = "ended"]
  /\ faults' = faults + 1
  /\ UNCHANGED <<voter, results, file, rows, asked, since>>

(* A process dies with its tasks, the server's or the command's.  Nothing  *)
(* at the next boot looks at export jobs.                                  *)
Die(js) ==
  /\ \E j \in js : pc[j] \notin {"none", "ended"}
  /\ faults < MaxFaults
  /\ pc' = [j \in Jobs |-> IF j \in js /\ pc[j] # "none" THEN "ended" ELSE pc[j]]
  /\ faults' = faults + 1
  /\ UNCHANGED <<voter, results, job, file, rows, asked, since>>

Next ==
  \/ Import \/ Analyze \/ Die(Jobs \ Cli)
  \/ \E j \in Jobs : \/ Request(j) \/ Run(j) \/ Fetch(j) \/ Write(j) \/ Complete(j) \/ Raise(j)
  \/ \E j \in Cli : Die({j})

Spec == Init /\ [][Next]_vars

-----------------------------------------------------------------------------
(* download_export: what a reader of the job gets.                         *)
Download(j) == IF job[j].status = "completed" THEN file[j] ELSE None

(* A file that can be downloaded is whole, has as many records as the job  *)
(* says, and shows the tables as they were at one moment after the request *)
(* however many imports and analyses committed while it was made.          *)
ExportsHold ==
  \A j \in Jobs : Download(j) # None =>
    /\ Cardinality(Download(j)) = job[j].count
    /\ Download(j) \in since[j]

(* Not so: the data are those of the moment of the request (the moment the *)
(* query runs is later), nor is a voter in a file once (a filter by match  *)
(* status alone joins the results of every run).                           *)
AsOfRequest ==
  \A j \in Jobs : Download(j) # None => Download(j) = asked[j]
EachOnce == \A j \in Jobs : Download(j) # None => \A a, b \in Download(j) : a[1] = b[1] => a = b
================================================================================
