----------------------------- MODULE ResultsImport -----------------------------
(***************************************************************************)
(* The import of election results files, in the server or from the command *)
(* line, and of calendar templates.  A results file is one transaction     *)
(* with a savepoint per ballot item: an item finds or creates its          *)
(* election, upserts its candidates and then the statewide and county      *)
(* results.  An item that fails is rolled back to its savepoint and the    *)
(* file goes on; rows an open transaction has written are locked.          *)
(***************************************************************************)
EXTENDS Naturals, Sequences, FiniteSets, SequencesExt

CONSTANTS Existing,  \* the tables an import may find: name -> election
          Known,     \* the candidates there: <<election, full name>> -> [party, incumbent]
          Listed,    \* those of them with a candidacy
          Calendars, \* calendar templates: sequences of [name, dates]
          Jobs,
          Files      \* Files[j]: the ballot items of job j's file

Null   == "null"
Nobody == <<"nobody", 0>>
Tables == {"elections", "events", "candidate", "result", "county"}

(* The elections an import may find are of before any, the items have      *)
(* votes, and incumbency is known or not.                                  *)
ElectionFields == {"item", "type", "party", "county", "recount", "last"}
ResultsAssumption ==
  /\ \A e \in Existing : \A n \in DOMAIN e :
       DOMAIN e[n] = ElectionFields /\ e[n].last = Nobody
  /\ \A c \in DOMAIN Known : Known[c].incumbent \in BOOLEAN
  /\ \A j \in Jobs :
       /\ Files[j] \in Seq({Files[j][n] : n \in DOMAIN Files[j]})
       /\ \A n \in DOMAIN Files[j] :
            /\ Files[j][n].votes # Null
            /\ \A i \in DOMAIN Files[j][n].options :
                 Files[j][n].options[i].incumbent \in BOOLEAN

VARIABLES
  db,       \* committed rows: table -> key -> row; election rows are by name
  draft,    \* rows of the open transaction of a job
  mark,     \* the same at its savepoint
  job,      \* import_jobs and the coroutine of each
  calendar  \* calendar columns of elections: name -> column -> date

vars == <<db, draft, mark, job, calendar>>

Nothing == [x \in {} |-> Null]
Empty == [t \in Tables |-> Nothing]
Only(x, v) == [y \in {x} |-> v]
Over(f, g) == [x \in DOMAIN f \cup DOMAIN g |-> IF x \in DOMAIN f THEN f[x] ELSE g[x]]

NoJob == [status |-> "none", pc |-> "idle", pos |-> 1, cache |-> Nothing, target |-> Null,
          seen |-> Null, took |-> Nothing, errors |-> {}, succeeded |-> 0]

Init ==
  /\ \E e \in Existing :
       db = [Empty EXCEPT !["elections"] = e,
                          !["candidate"] = [c \in {k \in DOMAIN Known : k[1] \in DOMAIN e} |->
                             [party |-> Known[c].party, incumbent |-> Known[c].incumbent,
                              last |-> Nobody]]]
  /\ draft = [j \in Jobs |-> Empty] /\ mark = draft
  /\ job = [j \in Jobs |-> NoJob]
  /\ calendar = Nothing

(* What a job sees, the rows other transactions hold, and writing a row.   *)
View(j, t)      == Over(draft[j][t], db[t])
Locked(j, t, k) == \E i \in Jobs \ {j} : k \in DOMAIN draft[i][t]
Put(j, t, rows) == draft' = [draft EXCEPT ![j][t] = Over(rows, @)]
Item(j)         == Files[j][job[j].pos]
Self(j)         == <<j, job[j].pos>>
At(j, pc)       == job[j].pc = pc
Goto(j, pc)     == [job EXCEPT ![j].pc = pc]

-----------------------------------------------------------------------------
(* The job.  A file with no item, or an item with no option, is refused.   *)
CreateJob(j) ==
  /\ job[j].status = "none"
  /\ job' = [job EXCEPT ![j].status = "pending"]
  /\ UNCHANGED <<db, draft, mark, calendar>>

Invalid(f) == f = <<>> \/ \E i \in DOMAIN f : f[i].options = <<>>
Running    == {j \in Jobs : job[j].pc # "idle"}
StartJob(j) ==
  /\ job[j].status = "pending"
  /\ IF Invalid(Files[j])
     THEN job' = [job EXCEPT ![j].status = "failed"]
     ELSE job' = [job EXCEPT ![j].status = "running", ![j].pc = "match"]
  /\ UNCHANGED <<db, draft, mark, calendar>>

-----------------------------------------------------------------------------
(* _match_election: by ballot item, by district, or a new one.             *)
More(j)     == At(j, "match") /\ job[j].pos <= Len(Files[j])
ById(j)     == {e \in DOMAIN View(j, "elections") : View(j, "elections")[e].item = Item(j).id}
Same(a, b)  == a = Null \/ a = b
ByDistrict(j) ==
  IF Item(j).district.type = Null THEN {}
  ELSE LET d == Item(j).district
       IN {e \in DOMAIN View(j, "elections") :
             LET row == View(j, "elections")[e]
             IN row.type = d.type /\ Same(d.party, row.party) /\ Same(d.county, row.county)}

(* The election is found: from here on the item writes to it.              *)
Take(j, e) ==
  job' = [job EXCEPT ![j].cache = Over(Only(Item(j).id, e), @), ![j].target = e,
                     ![j].succeeded = @ + 1, ![j].pc = "candidates"]

MatchCached(j) ==
  /\ More(j) /\ Item(j).id \in DOMAIN job[j].cache
  /\ Take(j, job[j].cache[Item(j).id])
  /\ UNCHANGED <<db, draft, mark, calendar>>

(* Of several elections with the item's id, a recount file takes one that  *)
(* is a recount.                                                           *)
Preferred(j) ==
  LET recounts == {e \in ById(j) : View(j, "elections")[e].recount}
  IN IF Cardinality(ById(j)) > 1 /\ Item(j).recount /\ recounts # {} THEN recounts ELSE ById(j)
MatchById(j) ==
  /\ More(j) /\ Item(j).id \notin DOMAIN job[j].cache
  /\ \E e \in Preferred(j) : Take(j, e)
  /\ UNCHANGED <<db, draft, mark, calendar>>

MatchDistrict(j) ==
  /\ More(j) /\ Item(j).id \notin DOMAIN job[j].cache /\ ById(j) = {}
  /\ \E e \in ByDistrict(j) :
       /\ ByDistrict(j) = {e} /\ ~Locked(j, "elections", e)
       /\ Put(j, "elections", Only(e, [View(j, "elections")[e] EXCEPT !.item = Item(j).id]))
       /\ Take(j, e)
  /\ UNCHANGED <<db, mark, calendar>>

NoMatchById(j) ==
  /\ More(j) /\ Item(j).id \notin DOMAIN job[j].cache /\ ById(j) = {}
  /\ job' = Goto(j, "event")
  /\ UNCHANGED <<db, draft, mark, calendar>>
NoMatch(j) ==
  /\ More(j) /\ Item(j).id \notin DOMAIN job[j].cache /\ ById(j) = {} /\ ByDistrict(j) = {}
  /\ job' = Goto(j, "event")
  /\ UNCHANGED <<db, draft, mark, calendar>>

(* find_or_create_election_event, and the insert that gives way to a row   *)
(* of that name.  Each waits for a transaction that inserted the same.     *)
CreateEvent(j) ==
  /\ At(j, "event") /\ ~Locked(j, "events", Item(j).event)
  /\ IF Item(j).event \in DOMAIN View(j, "events") THEN UNCHANGED draft
     ELSE Put(j, "events", Only(Item(j).event, Self(j)))
  /\ job' = Goto(j, "create")
  /\ UNCHANGED <<db, mark, calendar>>

CreateElection(j) ==
  /\ At(j, "create") /\ ~Locked(j, "elections", Item(j).name)
  /\ IF Item(j).name \in DOMAIN View(j, "elections") THEN UNCHANGED draft
     ELSE LET d == Item(j).district
          IN Put(j, "elections", Only(Item(j).name,
               [item |-> Item(j).id, type |-> d.type, party |-> d.party, county |-> Null,
                recount |-> Item(j).recount, last |-> Self(j)]))
  /\ Take(j, Item(j).name)
  /\ UNCHANGED <<db, mark, calendar>>

-----------------------------------------------------------------------------
(* _upsert_candidates.  A new row takes all of the option; of a row that   *)
(* is there, party and incumbency are set only if they are not, and only   *)
(* where there is a candidacy.                                             *)
Options(j)  == {Item(j).options[i] : i \in DOMAIN Item(j).options}
Rows(j)     == {<<job[j].target, o.who>> : o \in Options(j)}
OptionOf(j, c) == CHOOSE o \in Options(j) : o.who = c[2]
Twice(j)    == \E i, k \in DOMAIN Item(j).options :
                 i < k /\ Item(j).options[i].who = Item(j).options[k].who
Overwriting(j, old, c) ==
  [party |-> OptionOf(j, c).party, incumbent |-> OptionOf(j, c).incumbent, last |-> Self(j)]
Conservative(j, old, c) ==
  IF c \notin Listed THEN [old EXCEPT !.last = Self(j)]
  ELSE [party     |-> IF old.party = Null THEN OptionOf(j, c).party ELSE old.party,
        incumbent |-> old.incumbent \/ OptionOf(j, c).incumbent,
        last      |-> Self(j)]
UpsertCandidates(j) ==
  /\ At(j, "candidates") /\ ~Twice(j) /\ job[j].target \in DOMAIN View(j, "elections")
  /\ \A c \in Rows(j) : ~Locked(j, "candidate", c)
  /\ Put(j, "candidate", [c \in Rows(j) |->
       IF c \in DOMAIN View(j, "candidate") THEN Conservative(j, View(j, "candidate")[c], c)
       ELSE [party |-> OptionOf(j, c).party, incumbent |-> OptionOf(j, c).incumbent,
             last |-> Self(j)]])
  /\ job' = Goto(j, "persist")
  /\ UNCHANGED <<db, mark, calendar>>

(* persist_ingestion_result: the statewide row is read, and written with   *)
(* the columns that differ from what was read.  Its lock guards the rows   *)
(* of the counties, which are read and written after it.                   *)
ReadResult(j) ==
  /\ At(j, "persist")
  /\ job' = [job EXCEPT ![j].pc = "write",
       ![j].seen = IF job[j].target \in DOMAIN View(j, "result")
                   THEN View(j, "result")[job[j].target].votes ELSE Null]
  /\ UNCHANGED <<db, draft, mark, calendar>>

Clash(j) == job[j].seen = Null /\ job[j].target \in DOMAIN View(j, "result")
EndItem(j) ==
  [job EXCEPT ![j].pc = "match", ![j].pos = @ + 1, ![j].target = Null, ![j].seen = Null,
              ![j].took = Over(Only(job[j].pos, job[j].target), @)]
WriteResult(j) ==
  /\ At(j, "write") /\ ~Clash(j) /\ ~Locked(j, "result", job[j].target)
  /\ LET e == job[j].target
         votes == IF Item(j).votes = job[j].seen THEN View(j, "result")[e].votes
                  ELSE Item(j).votes
     IN draft' = [draft EXCEPT
          ![j]["result"] = Over(Only(e, [votes |-> votes, last |-> Self(j)]), @),
          ![j]["county"] = Over([c \in {e} \X Item(j).counties |->
                                   [votes |-> Item(j).votes, last |-> Self(j)]], @)]
  /\ mark' = [mark EXCEPT ![j] = draft'[j]]
  /\ job' = EndItem(j)
  /\ UNCHANGED <<db, calendar>>

(* A statement of the item fails, by itself, by a deadlock or because of   *)
(* what it finds: back to the savepoint, and on.  The cache keeps what the *)
(* item put in it.                                                         *)
FailItemOnly(j) ==
  /\ More(j) \/ job[j].pc \in {"event", "create", "candidates", "persist", "write"}
  /\ job' = [job EXCEPT ![j].errors = @ \cup {job[j].pos}, ![j].pos = @ + 1, ![j].pc = "match",
                        ![j].target = Null, ![j].seen = Null]
  /\ UNCHANGED <<db, draft, mark, calendar>>
FailItem(j) ==
  /\ More(j) \/ job[j].pc \in {"event", "create", "candidates", "persist", "write"}
  /\ draft' = [draft EXCEPT ![j] = mark[j]]
  /\ job' = [job EXCEPT ![j].errors = @ \cup {job[j].pos}, ![j].pos = @ + 1, ![j].pc = "match",
                        ![j].target = Null, ![j].seen = Null]
  /\ UNCHANGED <<db, mark, calendar>>

(* The end: one commit; or the commit fails, or the process dies.          *)
Release(j) == draft' = [draft EXCEPT ![j] = Empty] /\ mark' = [mark EXCEPT ![j] = Empty]
CommitFile(j) ==
  /\ At(j, "match") /\ job[j].pos > Len(Files[j])
  /\ db' = [t \in Tables |-> Over(draft[j][t], db[t])]
  /\ Release(j)
  /\ job' = [job EXCEPT ![j].status = "completed", ![j].pc = "idle"]
  /\ UNCHANGED calendar
Abort(j) ==
  /\ j \in Running
  /\ Release(j)
  /\ \E s \in {"failed", "running"} : job' = [job EXCEPT ![j].status = s, ![j].pc = "idle"]
  /\ UNCHANGED <<db, calendar>>

-----------------------------------------------------------------------------
(* process_calendar_import: the entries whose name an election has, to the *)
(* letter, give it the dates they have.  A locked row makes it wait.       *)
Dates(cal, n) == IF n \in DOMAIN cal THEN cal[n] ELSE Nothing
Entered(cal, e) ==
  IF e.name \in DOMAIN db["elections"]
  THEN Over(Only(e.name, Over(e.dates, Dates(cal, e.name))), cal) ELSE cal
Imported(entries, cal) == FoldLeft(Entered, cal, entries)

(* _merge_entries: one entry per name, a later source's dates over the     *)
(* earlier ones'.                                                          *)
Merge(sources) ==
  LET all   == FlattenSeq(sources)
      names == {all[i].name : i \in DOMAIN all}
      Of(n) == FoldLeft(LAMBDA d, e : Over(e.dates, d), Nothing,
                        SelectSeq(all, LAMBDA e : e.name = n))
  IN SetToSeq({[name |-> n, dates |-> Of(n)] : n \in names})
ImportCalendar(entries) ==
  /\ \A i \in DOMAIN entries, j \in Jobs : entries[i].name \notin DOMAIN draft[j]["elections"]
  /\ calendar' = Imported(entries, calendar)
  /\ UNCHANGED <<db, draft, mark, job>>

Next ==
  \/ \E j \in Jobs :
       \/ CreateJob(j) \/ StartJob(j)
       \/ MatchCached(j) \/ MatchById(j) \/ MatchDistrict(j) \/ NoMatch(j)
       \/ CreateEvent(j) \/ CreateElection(j)
       \/ UpsertCandidates(j) \/ ReadResult(j) \/ WriteResult(j)
       \/ FailItem(j) \/ CommitFile(j) \/ Abort(j)
  \/ \E c \in Calendars :
       ImportCalendar(c) \/ \E d \in Calendars : ImportCalendar(Merge(<<c, d>>))
Spec == Init /\ [][Next]_vars

-----------------------------------------------------------------------------
Completed == {j \in Jobs : job[j].status = "completed"}
Traces    == UNION {{db[t][k].last : k \in DOMAIN db[t]} :
                      t \in {"elections", "candidate", "result", "county"}}

(* An item is imported as a whole or not at all: nothing is left of one    *)
(* that failed, or of a file that did, and a result comes with the         *)
(* counties and candidates of the item that wrote it.  Two imports of one  *)
(* election wait for each other at the first candidate they share, so that *)
(* the second reads the results of the first: only where they share none,  *)
(* the first's votes may stay when the second's are those of before.       *)
Shares(a, b) == \E n \in DOMAIN a.options, m \in DOMAIN b.options :
                  a.options[n].who = b.options[m].who
ItemsWhole ==
  /\ \A l \in Traces \ {Nobody} :
       l[1] \in Completed /\ l[2] \notin job[l[1]].errors
  /\ \A e \in DOMAIN db["result"] :
       LET l == db["result"][e].last
           i == Files[l[1]][l[2]]
       IN /\ e \in DOMAIN db["elections"]
          /\ \A n \in DOMAIN i.options : <<e, i.options[n].who>> \in DOMAIN db["candidate"]
          /\ \A c \in i.counties : db["county"][<<e, c>>] = [votes |-> i.votes, last |-> l]
          /\ \/ db["result"][e].votes = i.votes
             \/ \E k \in Completed \ {l[1]} : \E m \in DOMAIN job[k].took :
                  job[k].took[m] = e /\ ~Shares(Files[k][m], i)

(* A completed file took every item that it does not report, and the items *)
(* of different contests took different elections, unless an id, the name  *)
(* of the election or what was in the table confuses them.                 *)
Items       == UNION {{Files[j][n] : n \in DOMAIN Files[j]} : j \in Jobs}
Contest(i)  == IF i.district.type = Null THEN <<i.name>> ELSE <<i.district.type>>
Meant(e)    == {i \in Items :
                  \/ e = i.name
                  \/ \E old \in Existing : e \in DOMAIN old
                       /\ \/ old[e].item = i.id
                          \/ i.district.type # Null /\ old[e].type = i.district.type}
Confused(e) == \/ \E i, k \in Items : i.id = k.id /\ Contest(i) # Contest(k)
               \/ \E i, k \in Meant(e) : Contest(i) # Contest(k)
OwnElection ==
  \A j \in Completed :
    /\ DOMAIN job[j].took = (DOMAIN Files[j]) \ job[j].errors
    /\ \A n \in DOMAIN job[j].took : job[j].took[n] \in DOMAIN db["result"]
    /\ \A n, m \in DOMAIN job[j].took :
         Contest(Files[j][n]) # Contest(Files[j][m]) /\ job[j].took[n] = job[j].took[m]
           => Confused(job[j].took[n])

(* What was known of a candidate before stays.                             *)
KnownKept ==
  \A c \in {k \in DOMAIN Known : k[1] \in DOMAIN db["elections"]
                                    /\ db["elections"][k[1]].last = Nobody} :
    /\ Known[c].incumbent => db["candidate"][c].incumbent
    /\ Known[c].party # Null => db["candidate"][c].party = Known[c].party

(* Importing a file again, later or at the same time, finds the elections  *)
(* the first import took or made, unless several had the item's id before. *)
OneOf(i) == Cardinality({e \in DOMAIN db["elections"] :
                           db["elections"][e].item = i.id /\ db["elections"][e].last = Nobody}) <= 1
StableMatch ==
  \A j, k \in Completed : \A n \in DOMAIN job[j].took \cap DOMAIN job[k].took :
    OneOf(Files[j][n]) /\ Files[j][n].name = Files[k][n].name /\ Files[j][n].id = Files[k][n].id
      => job[j].took[n] = job[k].took[n]

(* Merging calendar sources and importing the result is importing them one *)
(* after the other.                                                        *)
MergedIsBoth ==
  \A c, d \in Calendars :
    Imported(Merge(<<c, d>>), calendar) = Imported(d, Imported(c, calendar))

ResultsHold == ItemsWhole /\ OwnElection /\ KnownKept
AgainHolds  == StableMatch /\ MergedIsBoth

(* What does not hold: the counts of a job add up; every item has an       *)
(* election of its own; a candidate's party is filled in where it is       *)
(* missing.                                                                *)
CountsAddUp  == \A j \in Completed :
                  job[j].succeeded + Cardinality(job[j].errors) = Len(Files[j])
ItemsApart   == \A j \in Completed : \A n, m \in DOMAIN job[j].took :
                  n # m => job[j].took[n] # job[j].took[m]
PartyFilled  == \A c \in DOMAIN db["candidate"] :
                  LET l == db["candidate"][c].last IN
                  l # Nobody => LET o == Files[l[1]][l[2]].options
                                IN \E n \in DOMAIN o : o[n].who = c[2] /\
                                     (o[n].party # Null => db["candidate"][c].party # Null)
=============================================================================
