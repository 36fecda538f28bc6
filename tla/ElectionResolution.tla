-------------------------- MODULE ElectionResolution --------------------------
(***************************************************************************)
(* Linking voter history rows to elections: resolve-elections, and the end *)
(* of a command-line history import.  A run is one transaction, statement  *)
(* by statement: elections get the district their text names, rows and     *)
(* elections get their event, and then, date by date, rows get an          *)
(* election, by county where the date has one, by district where it has    *)
(* several.  Runs overlap each other, history imports and admins.          *)
(***************************************************************************)
EXTENDS Naturals, FiniteSets

CONSTANTS Contests,  \* Contests[e]: the election rows that may be entered
          Votes,     \* Votes[r]: the voter history rows that may be imported
          Voters,    \* Voters[v]: municipality and district numbers of a voter
          PscCounties,
          Present,   \* the elections and rows that are there at the beginning
          Runs,
          Modes,     \* the options of a command: [force, dry, only]
          MaxEdits   \* bound on changes beside the runs

Null == "null"
CountyScoped == {"county_commission", "school_board", "board_of_education"}

ResolutionAssumption ==
  Null \notin DOMAIN Contests /\ \A e \in DOMAIN Contests : Contests[e].length \in Nat

VARIABLES
  elections, \* e -> [type, number, party, county, boundary, event, deleted]
  rows,      \* r -> [election, event], and history: scope, the election as it was given,
             \*      and alone, that its date had no other
  events,    \* election_events: pairs of date and type
  draft,     \* what the open transaction of a run has written
  run,       \* a command
  settled,   \* history: a full run committed and nothing changed since it began
  edits

vars == <<elections, rows, events, draft, run, settled, edits>>

Nothing == [x \in {} |-> Null]
Empty == [elections |-> Nothing, rows |-> Nothing, events |-> {}]
NoRun == [pc |-> "idle", force |-> FALSE, dry |-> FALSE, only |-> Null, dates |-> Nothing,
          plan |-> {}, still |-> FALSE]

Unparsed(e) == [type |-> Null, number |-> Null, party |-> Null, county |-> Contests[e].county,
                boundary |-> FALSE, event |-> <<>>, deleted |-> FALSE]
Unlinked    == [election |-> Null, event |-> <<>>, scope |-> <<>>, alone |-> FALSE]

(* link_election_to_boundary: what the district text says, if anything.    *)
Parsed(e, row) ==
  LET t == Contests[e].text
  IN IF t.type = Null THEN row
     ELSE [row EXCEPT !.type = t.type, !.number = t.number, !.party = t.party,
                      !.county = IF @ = Null THEN t.county ELSE @,
                      !.boundary = @ \/ Contests[e].bounded]

(* A row as it is created: with its text parsed, for a feed; with the type *)
(* of its contest alone, by results; with a boundary, by an admin; or with *)
(* nothing, by another import.                                             *)
Typed(e) == LET t == Contests[e].text
            IN [Unparsed(e) EXCEPT !.type = t.type, !.number = t.number, !.party = t.party]
Created(e) ==
  CASE Contests[e].by = "feed"    -> Parsed(e, Unparsed(e))
    [] Contests[e].by = "results" -> Typed(e)
    [] Contests[e].by = "manual"  -> [Unparsed(e) EXCEPT !.boundary = TRUE]
    [] OTHER -> Unparsed(e)

Init ==
  /\ elections = [e \in Present \cap DOMAIN Contests |-> Created(e)]
  /\ rows = [r \in Present \cap DOMAIN Votes |-> Unlinked]
  /\ events = {}
  /\ draft = [k \in Runs |-> Empty]
  /\ run = [k \in Runs |-> NoRun]
  /\ settled = FALSE /\ edits = 0

(* The tables as committed, and as the statements of a run see them.       *)
Over(f, g) == [x \in DOMAIN f \cup DOMAIN g |-> IF x \in DOMAIN f THEN f[x] ELSE g[x]]
Tables  == [elections |-> elections, rows |-> rows]
Seen(k) == [elections |-> Over(draft[k].elections, elections),
            rows      |-> Over(draft[k].rows, rows)]
Events(k)    == draft[k].events \cup events
Locked(k, t) == UNION {DOMAIN draft[i][t] : i \in Runs \ {k}}

-----------------------------------------------------------------------------
(* An admin creates, imports create.                                       *)
Disturb ==
  /\ edits < MaxEdits /\ edits' = edits + 1
  /\ settled' = FALSE
  /\ run' = [k \in Runs |-> [run[k] EXCEPT !.still = FALSE]]
AddElection(e) ==
  /\ e \notin DOMAIN elections
  /\ elections' = Over([x \in {e} |-> Created(e)], elections)
  /\ Disturb
  /\ UNCHANGED <<rows, events, draft>>

(* Soft deletion.                                                          *)
DeleteElection(e) ==
  /\ e \in DOMAIN elections /\ ~elections[e].deleted
  /\ \A k \in Runs : e \notin DOMAIN draft[k].elections
  /\ elections' = [elections EXCEPT ![e].deleted = TRUE]
  /\ Disturb
  /\ UNCHANGED <<rows, events, draft>>

(* A history import: its upsert leaves the links of a row it has alone.    *)
ImportRow(r) ==
  /\ r \notin DOMAIN rows
  /\ rows' = Over([x \in {r} |-> Unlinked], rows)
  /\ Disturb
  /\ UNCHANGED <<elections, events, draft>>

-----------------------------------------------------------------------------
At(k, pc)   == run[k].pc = pc
Goto(k, pc) == run' = [run EXCEPT ![k].pc = pc]
OnDate(v, d) == {e \in DOMAIN v.elections : Contests[e].date = d}
Asked(k, d) == run[k].only \in {Null, d}

StartRun(k, m) ==
  /\ At(k, "idle")
  /\ run' = [run EXCEPT ![k] = [NoRun EXCEPT !.pc = "backfill", !.force = m.force, !.dry = m.dry,
                                             !.only = m.only, !.still = TRUE]]
  /\ UNCHANGED <<elections, rows, events, draft, settled, edits>>

(* backfill_election_district_fields                                       *)
BackfillDistricts(k) ==
  /\ At(k, "backfill")
  /\ LET todo == {e \in DOMAIN elections :
                    elections[e].type = Null /\ Contests[e].text.type # Null}
     IN /\ todo \cap Locked(k, "elections") = {}
        /\ draft' = [draft EXCEPT ![k].elections = [e \in todo |-> Parsed(e, elections[e])]]
  /\ Goto(k, "tier0")
  /\ UNCHANGED <<elections, rows, events, settled, edits>>

(* _resolve_tier0_event_matching: the event of every row, created if need  *)
(* be; and then of every election that has none, if there is one, unless   *)
(* no row was without one.                                                 *)
EventOf(r)  == <<Votes[r].date, Votes[r].type>>
EventFor(e) == <<Contests[e].date, Contests[e].type>>
ToLink(k) == {r \in DOMAIN rows : Asked(k, Votes[r].date) /\ (run[k].force \/ rows[r].event = <<>>)}
BlankAlways(k, todo) ==
  {e \in DOMAIN Seen(k).elections :
     /\ Seen(k).elections[e].event = <<>> /\ Asked(k, Contests[e].date)
     /\ EventFor(e) \in Events(k) \cup {EventOf(r) : r \in todo}}
Blank(k, todo) == IF todo = {} THEN {} ELSE BlankAlways(k, todo)

Tier0(k) ==
  /\ At(k, "tier0")
  /\ LET todo  == ToLink(k)
         made  == {EventOf(r) : r \in todo}
         blank == Blank(k, todo)
     IN /\ todo \cap Locked(k, "rows") = {} /\ blank \cap Locked(k, "elections") = {}
        /\ \A i \in Runs \ {k} : made \cap draft[i].events = {}
        /\ draft' = [draft EXCEPT ![k] =
             [events |-> made \ events,
              rows |-> [r \in todo |-> [rows[r] EXCEPT !.event = EventOf(r)]],
              elections |-> Over([e \in blank |-> [Seen(k).elections[e] EXCEPT !.event = EventFor(e)]],
                                 draft[k].elections)]]
  /\ Goto(k, "count")
  /\ UNCHANGED <<elections, rows, events, settled, edits>>

(* The elections of each date are counted once, in no order.               *)
CountDates(k) ==
  /\ At(k, "count")
  /\ LET ds == {d \in {Contests[e].date : e \in DOMAIN Seen(k).elections} : Asked(k, d)}
     IN run' = [run EXCEPT ![k].pc = "dates",
                  ![k].dates = [d \in ds |-> Cardinality(OnDate(Seen(k), d))]]
  /\ UNCHANGED <<elections, rows, events, draft, settled, edits>>
Counted(k, d) == [x \in (DOMAIN run[k].dates) \ {d} |-> run[k].dates[x]]

(* UPDATE voter_history SET election_id = e over scope, of the rows that   *)
(* have none unless forced: rows that another transaction holds make it    *)
(* wait, and are looked at again after.                                    *)
ToGiveAnyway(k, scope) == scope
ToGive(k, scope)       == {r \in scope : run[k].force \/ Seen(k).rows[r].election = Null}
Assign(k, e, scope, alone) ==
  LET todo == ToGive(k, scope)
  IN /\ todo \cap Locked(k, "rows") = {}
     /\ draft' = [draft EXCEPT ![k].rows =
          Over([r \in todo |-> [Seen(k).rows[r] EXCEPT !.election = e, !.alone = alone,
                                                       !.scope = Seen(k).elections[e]]], @)]

InCounty(v, d, c) ==
  {r \in DOMAIN v.rows : Votes[r].date = d /\ (c = Null \/ Votes[r].county = c)}

(* Tier 1.  The date had one election when it was counted; .one() fails if *)
(* it has more by now.  Its county is the one that is recorded, or else    *)
(* that of its boundary, by its own county or by its name.                 *)
CountyRecorded(e, x) == x.county
CountyOf(e, x) == IF x.county = Null /\ x.boundary THEN Contests[e].home ELSE x.county
Tier1(k, d) ==
  /\ At(k, "dates") /\ d \in DOMAIN run[k].dates /\ run[k].dates[d] = 1
  /\ \E e \in OnDate(Seen(k), d) :
       /\ OnDate(Seen(k), d) = {e}
       /\ Assign(k, e, InCounty(Seen(k), d, CountyOf(e, Seen(k).elections[e])), TRUE)
  /\ run' = [run EXCEPT ![k].dates = Counted(k, d)]
  /\ UNCHANGED <<elections, rows, events, settled, edits>>

(* Tier 2.  Of elections that parse alike, the one with a boundary is      *)
(* kept, and then the one of the shorter name, and then the first, which   *)
(* may be any; those kept are gone through in any order.                   *)
Key(v, e)      == LET x == v.elections[e] IN <<x.type, x.number, x.party>>
Beats(v, e, f) == LET b(x) == v.elections[x].boundary
                  IN ~b(f) /\ (b(e) \/ Contests[e].length < Contests[f].length)
Alike(v, e)    == {f \in OnDate(v, Contests[e].date) : Key(v, f) = Key(v, e)}
Best(v, e)     == \A f \in Alike(v, e) : ~Beats(v, f, e)
Kept(v, d, plan) ==
  /\ \A e \in OnDate(v, d) : \E f \in plan : f \in Alike(v, e)
  /\ \A e \in plan : Best(v, e) /\ plan \cap Alike(v, e) = {e}
PlanTier2(k, d) ==
  /\ At(k, "dates") /\ d \in DOMAIN run[k].dates /\ run[k].dates[d] > 1
  /\ \E plan \in SUBSET OnDate(Seen(k), d) :
       /\ Kept(Seen(k), d, plan)
       /\ run' = [run EXCEPT ![k].plan = plan, ![k].pc = "tier2", ![k].dates = Counted(k, d)]
  /\ UNCHANGED <<elections, rows, events, draft, settled, edits>>

(* The rows an election of a date with several is for.                     *)
Serves(e, x, r) ==
  LET by(c)    == c = Null \/ Votes[r].county = c
      known    == Votes[r].voter \in DOMAIN Voters
      town     == known /\ Contests[e].town \in {Null, Voters[Votes[r].voter].town}
      numbered == known /\ Voters[Votes[r].voter].district[x.type] = x.number
  IN CASE x.type \in {"statewide", "us_senate"} -> TRUE
       [] x.type = "county_office" -> x.county # Null /\ by(x.county)
       [] x.type \in {"municipal", "city_council"} /\ x.number = Null ->
            /\ x.county # Null \/ Contests[e].town # Null
            /\ by(x.county) /\ town
       [] x.type \notin {"statewide", "us_senate", "county_office", "municipal", "city_council"}
            /\ (x.type = Null \/ x.number = Null) -> x.county # Null /\ by(x.county)
       [] x.type = "psc" /\ x.number # Null -> \E c \in PscCounties[x.number] : by(c)
       [] x.type = "city_council" /\ x.number # Null -> by(x.county) /\ town /\ numbered
       [] x.type \in CountyScoped /\ x.number # Null -> by(x.county) /\ numbered
       [] x.type = "state_senate" /\ x.number # Null -> numbered
       [] OTHER -> FALSE
Scope(v, e) == {r \in InCounty(v, Contests[e].date, Null) : Serves(e, v.elections[e], r)}
Tier2(k) ==
  /\ At(k, "tier2")
  /\ \E e \in run[k].plan :
       /\ Assign(k, e, Scope(Seen(k), e), FALSE)
       /\ run' = [run EXCEPT ![k].plan = @ \ {e},
                             ![k].pc = IF run[k].plan = {e} THEN "dates" ELSE @]
  /\ UNCHANGED <<elections, rows, events, settled, edits>>

(* The end: commit, or roll back a dry run; or the command fails.          *)
Commit(k) ==
  /\ At(k, "dates") /\ DOMAIN run[k].dates = {} /\ ~run[k].dry
  /\ elections' = Seen(k).elections /\ rows' = Seen(k).rows /\ events' = Events(k)
  /\ settled' = (run[k].only = Null /\ run[k].still)
  /\ run' = [i \in Runs |-> IF i = k THEN NoRun ELSE [run[i] EXCEPT !.still = FALSE]]
  /\ draft' = [draft EXCEPT ![k] = Empty]
  /\ UNCHANGED edits
Rollback(k) ==
  /\ ~At(k, "idle")
  /\ run' = [run EXCEPT ![k] = NoRun] /\ draft' = [draft EXCEPT ![k] = Empty]
  /\ UNCHANGED <<elections, rows, events, settled, edits>>

Next ==
  \/ \E e \in DOMAIN Contests : AddElection(e) \/ DeleteElection(e)
  \/ \E r \in DOMAIN Votes : ImportRow(r)
  \/ \E k \in Runs :
       \/ \E m \in Modes : StartRun(k, m)
       \/ BackfillDistricts(k) \/ Tier0(k) \/ CountDates(k)
       \/ \E d \in DOMAIN run[k].dates : Tier1(k, d) \/ PlanTier2(k, d)
       \/ Tier2(k) \/ Commit(k) \/ Rollback(k)
Spec == Init /\ [][Next]_vars

-----------------------------------------------------------------------------
(* Only a forced run gives a row another election: whatever is committed   *)
(* while it runs, a run without force leaves the link a row has.           *)
Sticky ==
  \A k \in Runs : ~run[k].force =>
    \A r \in DOMAIN draft[k].rows : rows[r].election \in {Null, draft[k].rows[r].election}

(* No row crosses counties.  An election of a recorded county has rows of  *)
(* that county only, if it is alone on its date, whatever it is for, or    *)
(* else if it is for an office or a district of a county; one that is      *)
(* alone, and of which only the boundary tells the county, has rows of     *)
(* that one.                                                               *)
Within(r, row) ==
  row.election # Null =>
    LET e == row.election
        x == row.scope
        ofCounty == x.type \in {"county_office", "county_commission", "school_board",
                                "board_of_education"}
    IN /\ Contests[e].date = Votes[r].date
       /\ x.county # Null /\ (row.alone \/ ofCounty) => x.county = Votes[r].county
       /\ x.county = Null /\ x.boundary /\ row.alone => Contests[e].home \in {Null, Votes[r].county}
NoLeak == \A r \in DOMAIN rows : Within(r, rows[r])

(* The event of a row or an election is of its date and type and is there; *)
(* after a full run every row has one.                                     *)
EventsFit ==
  /\ \A r \in DOMAIN rows : rows[r].event \in {<<>>} \cup ({EventOf(r)} \cap events)
  /\ \A e \in DOMAIN elections : elections[e].event \in {<<>>} \cup ({EventFor(e)} \cap events)
  /\ settled => \A r \in DOMAIN rows : rows[r].event # <<>>

(* After a full run, what is left without an election is what no election  *)
(* kept of its date is for: another run gives nothing out.                 *)
Served(v, e) ==
  IF OnDate(v, Contests[e].date) = {e}
  THEN InCounty(v, Contests[e].date, CountyOf(e, v.elections[e])) ELSE Scope(v, e)
Provided(v, e) == \A r \in Served(v, e) : v.rows[r].election # Null
Settled ==
  settled => \A e \in DOMAIN elections :
               \E f \in Alike(Tables, e) : Best(Tables, f) /\ Provided(Tables, f)

ResolutionHolds == Sticky /\ NoLeak /\ EventsFit /\ Settled

(* Not so, though the walkthrough says it: after a full run every election *)
(* has its event, if there is one.                                         *)
ElectionsLinked ==
  settled => \A e \in DOMAIN elections : EventFor(e) \in events => elections[e].event # <<>>

(* What does not hold either: that the rows of a district of a county are  *)
(* all of one county, though the comment on its scope says so: an election *)
(* that results create has no county recorded, and one with a boundary     *)
(* only has none for Tier 2; that a district of one county does not stand  *)
(* in for that of another; and that deleted elections get no rows.         *)
OneCounty ==
  \A r, q \in DOMAIN rows :
    rows[r].election # Null /\ rows[r].election = rows[q].election
      /\ rows[r].scope.type \in CountyScoped /\ rows[q].scope.type \in CountyScoped =>
        Votes[r].county = Votes[q].county
EveryCounty ==
  settled => \A e \in DOMAIN elections : elections[e].type \in CountyScoped => Provided(Tables, e)
NoneDeleted == \A r \in DOMAIN rows : rows[r].election # Null => ~rows[r].scope.deleted
=============================================================================
