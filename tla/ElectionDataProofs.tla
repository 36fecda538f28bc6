-------------------------- MODULE ElectionDataProofs ---------------------------
(***************************************************************************)
(* For any elections, votes and files, and any number of runs at once:     *)
(* what resolution links, what the JSONL directory loads and what results  *)
(* files leave behind.                                                     *)
(***************************************************************************)
EXTENDS ImportedRecords, FiniteSetTheorems, SequenceTheorems, WellFoundedInduction, TLAPS

-----------------------------------------------------------------------------
(* Resolution.                                                             *)
RunFields == {"pc", "force", "dry", "only", "dates", "plan", "still"}
ResolutionTypes ==
  /\ DOMAIN run = Runs /\ DOMAIN pending = Runs
  /\ \A k \in Runs :
       /\ DOMAIN run[k] = RunFields
       /\ DOMAIN pending[k] = {"elections", "rows", "events"}
       /\ DOMAIN pending[k].rows \subseteq DOMAIN vote
       /\ DOMAIN pending[k].elections \subseteq DOMAIN election
       /\ run[k].pc # "tier2" => run[k].plan = {}
       /\ run[k].pc \in {"idle", "backfill", "tier0"} =>
            DOMAIN pending[k].rows = {} /\ pending[k].events = {}
       /\ run[k].plan \subseteq DOMAIN election
  /\ DOMAIN election \subseteq DOMAIN Contests

(* A row that is given an election is of its county, if it is of one.      *)
InItsCounty(e, x, alone, r) ==
  /\ x.county # Linking!Null /\ (alone \/ x.type \in Linking!CountyScoped \cup {"county_office"}) =>
       x.county = Votes[r].county
  /\ x.county = Linking!Null /\ x.boundary /\ alone =>
       Contests[e].home \in {Linking!Null, Votes[r].county}

Confined(k, e, scope, alone) ==
  \A r \in scope : /\ Votes[r].date = Contests[e].date
                    /\ InItsCounty(e, Linking!Seen(k).elections[e], alone, r)

(* A row, and an election, that is as it should be while the events are E. *)
RowFits(r, row, E) ==
  /\ DOMAIN row = {"election", "event", "scope", "alone"}
  /\ Linking!Within(r, row)
  /\ row.event \in {<<>>} \cup ({Linking!EventOf(r)} \cap E)
ElectionFits(e, x, E) ==
  /\ DOMAIN x = {"type", "number", "party", "county", "boundary", "event", "deleted"}
  /\ x.event \in {<<>>} \cup ({Linking!EventFor(e)} \cap E)
AllFit ==
  /\ \A r \in DOMAIN vote : RowFits(r, vote[r], event)
  /\ \A e \in DOMAIN election : ElectionFits(e, election[e], event)
  /\ \A k \in Runs :
       /\ \A r \in DOMAIN pending[k].rows : RowFits(r, pending[k].rows[r], Linking!Events(k))
       /\ \A e \in DOMAIN pending[k].elections :
            ElectionFits(e, pending[k].elections[e], Linking!Events(k))

(* No row is written by two transactions at a time.                        *)
OneWriter ==
  \A j, k \in Runs : \A r \in DOMAIN pending[j].rows : r \in DOMAIN pending[k].rows => j = k

(* What a full run has done so far, if nothing has changed beside it.      *)
Full(k) == run[k].still /\ run[k].only = Linking!Null
AllDated(v) == \A r \in DOMAIN v.rows : v.rows[r].event # <<>>
ServedOf(v, e, rest) == \E f \in Linking!Alike(v, e) :
  Linking!Best(v, f) /\ (f \in rest \/ Linking!Provided(v, f))
Progress(k) ==
  /\ Full(k) /\ run[k].pc \in {"count", "dates", "tier2"} => AllDated(Linking!Seen(k))
  /\ Full(k) /\ run[k].pc \in {"dates", "tier2"} =>
       LET v == Linking!Seen(k)
       IN  /\ \A d \in DOMAIN run[k].dates : run[k].dates[d] = Cardinality(Linking!OnDate(v, d))
           /\ \A e \in run[k].plan : Linking!OnDate(v, Contests[e].date) # {e}
           /\ \A e \in DOMAIN v.elections :
                Contests[e].date \in DOMAIN run[k].dates \/ ServedOf(v, e, run[k].plan)

ResolutionInv ==
  /\ ResolutionTypes /\ AllFit /\ OneWriter /\ \A k \in Runs : Progress(k)
  /\ Linking!ResolutionHolds

(* No election is named Null.                                               *)
LEMMA LinkingNull == Linking!Null \notin DOMAIN Contests
BY ImportsAssumption DEF Linking!ResolutionAssumption

(* The length of an election's name is a number.                            *)
LEMMA LinkingLengths == \A e \in DOMAIN Contests : Contests[e].length \in Nat
BY ImportsAssumption DEF Linking!ResolutionAssumption

(* The instance's cardinality is that of the library.                       *)
LEMMA LinkingCards == \A S : Linking!Cardinality(S) = Cardinality(S)
BY DEF Linking!Cardinality, Cardinality, Linking!IsFiniteSet, IsFiniteSet

(* What a run sees.                                                        *)
LEMMA SeenIs ==
  ASSUME NEW k \in Runs
  PROVE  /\ DOMAIN Linking!Seen(k).rows = DOMAIN pending[k].rows \cup DOMAIN vote
         /\ DOMAIN Linking!Seen(k).elections = DOMAIN pending[k].elections \cup DOMAIN election
         /\ \A r \in DOMAIN Linking!Seen(k).rows : Linking!Seen(k).rows[r] =
              IF r \in DOMAIN pending[k].rows THEN pending[k].rows[r] ELSE vote[r]
         /\ \A e \in DOMAIN Linking!Seen(k).elections : Linking!Seen(k).elections[e] =
              IF e \in DOMAIN pending[k].elections THEN pending[k].elections[e] ELSE election[e]
BY DEF Linking!Seen, Linking!Over

(* What a run sees fits as the table and what it has written do.            *)
LEMMA SeenFits ==
  ASSUME ResolutionTypes, AllFit, NEW k \in Runs
  PROVE  /\ DOMAIN Linking!Seen(k).rows = DOMAIN vote
         /\ DOMAIN Linking!Seen(k).elections = DOMAIN election
         /\ \A r \in DOMAIN vote : RowFits(r, Linking!Seen(k).rows[r], Linking!Events(k))
         /\ \A e \in DOMAIN election :
              ElectionFits(e, Linking!Seen(k).elections[e], Linking!Events(k))
<1>1. /\ \A r \in DOMAIN vote : RowFits(r, vote[r], Linking!Events(k))
      /\ \A e \in DOMAIN election : ElectionFits(e, election[e], Linking!Events(k))
  BY DEF AllFit, RowFits, ElectionFits, Linking!Events
<1>2. /\ \A r \in DOMAIN pending[k].rows : RowFits(r, pending[k].rows[r], Linking!Events(k))
      /\ \A e \in DOMAIN pending[k].elections :
           ElectionFits(e, pending[k].elections[e], Linking!Events(k))
  BY DEF AllFit
<1>3. DOMAIN pending[k].rows \subseteq DOMAIN vote /\ DOMAIN pending[k].elections \subseteq DOMAIN election
  BY DEF ResolutionTypes
<1> QED
  BY <1>1, <1>2, <1>3, SeenIs, ZenonT(40)

(* The rows in the scope of an election are of its date, and of its county *)
(* if it is of one.                                                        *)
LEMMA ScopeIs ==
  ASSUME NEW v, NEW e, NEW r \in Linking!Scope(v, e)
  PROVE  /\ r \in DOMAIN v.rows /\ Votes[r].date = Contests[e].date
         /\ v.elections[e].county # Linking!Null
              /\ v.elections[e].type \in Linking!CountyScoped \cup {"county_office"} =>
                   v.elections[e].county = Votes[r].county
<1> DEFINE x == v.elections[e]
           d == Contests[e].date
           Good == /\ r \in DOMAIN v.rows /\ Votes[r].date = d
                   /\ x.county # Linking!Null /\ x.type \in Linking!CountyScoped \cup {"county_office"} =>
                        x.county = Votes[r].county
<1> USE DEF Linking!CountyScoped
<1>0. r \in DOMAIN v.rows /\ Votes[r].date = d /\ Linking!Serves(e, x, r)
  BY DEF Linking!Scope, Linking!InCounty
<1> SUFFICES Good
  OBVIOUS
<1>1. CASE x.type \in {"statewide", "us_senate"}
  BY <1>0, <1>1 DEF Linking!Serves
<1>2. CASE x.type = "county_office"
  BY <1>0, <1>2 DEF Linking!Serves
<1>3. CASE x.type \in {"municipal", "city_council"} /\ x.number = Linking!Null
  BY <1>0, <1>3 DEF Linking!Serves
<1>4. CASE x.type \notin {"statewide", "us_senate", "county_office", "municipal", "city_council"}
           /\ (x.type = Linking!Null \/ x.number = Linking!Null)
  BY <1>0, <1>4 DEF Linking!Serves
<1>5. CASE x.type = "psc" /\ x.number # Linking!Null
  BY <1>0, <1>5 DEF Linking!Serves, Linking!Null
<1>6. CASE x.type = "city_council" /\ x.number # Linking!Null
  BY <1>0, <1>6 DEF Linking!Serves
<1>7. CASE x.type \in Linking!CountyScoped /\ x.number # Linking!Null
  BY <1>0, <1>7 DEF Linking!Serves, Linking!Null
<1>8. CASE x.type = "state_senate" /\ x.number # Linking!Null
  BY <1>0, <1>8 DEF Linking!Serves, Linking!Null
<1>9. CASE x.type = "municipal" /\ x.number # Linking!Null
  BY <1>0, <1>9 DEF Linking!Serves, Linking!Null
<1>10. CASE x.type \notin {"statewide", "us_senate", "county_office", "municipal", "city_council", "psc",
                           "state_senate"} \cup Linking!CountyScoped
            /\ x.type # Linking!Null /\ x.number # Linking!Null
  BY <1>0, <1>10 DEF Linking!Serves
<1> QED
  BY <1>1, <1>2, <1>3, <1>4, <1>5, <1>6, <1>7, <1>8, <1>9, <1>10

(* An election has no event when it is created.                             *)
LEMMA CreatedFits == \A e, E : ElectionFits(e, Linking!Created(e), E)
<1> SUFFICES ASSUME NEW e, NEW E PROVE ElectionFits(e, Linking!Created(e), E)
  OBVIOUS
<1> DEFINE x == Linking!Created(e)
<1>1. /\ DOMAIN x = {"type", "number", "party", "county", "boundary", "event", "deleted"}
      /\ x.event = <<>>
  BY DEF Linking!Created, Linking!Parsed, Linking!Typed, Linking!Unparsed
<1> QED
  BY <1>1 DEF ElectionFits

(* Nothing is linked to begin with.                                         *)
LEMMA ResolutionInit == Linking!Init => ResolutionInv
<1> SUFFICES ASSUME Linking!Init PROVE ResolutionInv
  OBVIOUS
<1> USE DEF Linking!Init, Linking!Empty, Linking!Nothing
<1>1. /\ \A k \in Runs : /\ DOMAIN pending[k].rows = {} /\ DOMAIN pending[k].elections = {}
                         /\ pending[k].events = {}
                         /\ run[k] = Linking!NoRun /\ DOMAIN pending[k] = {"elections", "rows", "events"}
      /\ DOMAIN run = Runs /\ DOMAIN pending = Runs
  OBVIOUS
<1>2. ResolutionTypes
  BY <1>1 DEF ResolutionTypes, RunFields, Linking!NoRun
<1>3. AllFit
  BY <1>1, CreatedFits DEF AllFit, RowFits, Linking!Within, Linking!Unlinked
<1>4. OneWriter
  BY <1>1 DEF OneWriter
<1>5. \A k \in Runs : Progress(k)
  BY <1>1 DEF Progress, Full, Linking!NoRun
<1>6. Linking!ResolutionHolds
  <2>1. Linking!Sticky
    BY <1>1 DEF Linking!Sticky
  <2>2. Linking!NoLeak /\ Linking!EventsFit
    BY <1>3 DEF AllFit, RowFits, ElectionFits, Linking!NoLeak, Linking!EventsFit
  <2>3. Linking!Settled
    BY DEF Linking!Settled
  <2> QED
    BY <2>1, <2>2, <2>3 DEF Linking!ResolutionHolds
<1> QED
  BY <1>2, <1>3, <1>4, <1>5, <1>6 DEF ResolutionInv

(* A step of a run: what is asked of it, and what is then kept.            *)
LEMMA RunMoves ==
  ASSUME ResolutionInv, NEW k \in Runs, UNCHANGED <<election, vote, event, settled>>,
         DOMAIN run' = Runs, DOMAIN pending' = Runs,
         \A j \in Runs \ {k} : run'[j] = run[j] /\ pending'[j] = pending[j],
         DOMAIN run'[k] = RunFields, DOMAIN pending'[k] = {"elections", "rows", "events"},
         DOMAIN pending'[k].rows \subseteq DOMAIN vote,
         DOMAIN pending'[k].elections \subseteq DOMAIN election,
         run'[k].pc # "tier2" => run'[k].plan = {}, run'[k].plan \subseteq DOMAIN election,
         run'[k].pc \in {"idle", "backfill", "tier0"} =>
           DOMAIN pending'[k].rows = {} /\ pending'[k].events = {},
         \A r \in DOMAIN pending'[k].rows : RowFits(r, pending'[k].rows[r], Linking!Events(k)'),
         \A e \in DOMAIN pending'[k].elections :
           ElectionFits(e, pending'[k].elections[e], Linking!Events(k)'),
         \A r \in DOMAIN pending'[k].rows, j \in Runs \ {k} : r \notin DOMAIN pending[j].rows,
         ~run'[k].force => \A r \in DOMAIN pending'[k].rows :
           vote[r].election \in {Linking!Null, pending'[k].rows[r].election},
         Progress(k)'
  PROVE  ResolutionInv'
<1> USE DEF ResolutionInv, Linking!ResolutionHolds
<1>1. \A j \in Runs \ {k} : /\ Linking!Seen(j)' = Linking!Seen(j)
                            /\ Linking!Events(j)' = Linking!Events(j)
                            /\ Full(j)' <=> Full(j)
  BY DEF Linking!Seen, Linking!Events, Full
<1>2. ResolutionTypes'
  BY DEF ResolutionTypes
<1>3. AllFit'
  BY <1>1 DEF AllFit
<1>4. OneWriter'
  BY DEF OneWriter
<1>5. \A j \in Runs : Progress(j)'
  <2>1. ASSUME NEW j \in Runs \ {k} PROVE Progress(j)'
    <3>1. Progress(j)
      OBVIOUS
    <3> QED
      BY <1>1, <3>1 DEF Progress
  <2> QED
    BY <2>1
<1>6. Linking!Sticky'
  BY DEF Linking!Sticky
<1>7. Linking!NoLeak' /\ Linking!EventsFit'
  BY DEF Linking!NoLeak, Linking!EventsFit
<1>8. Linking!Settled'
  <2>1. Linking!Tables' = Linking!Tables
    BY DEF Linking!Tables
  <2> QED
    BY <2>1 DEF Linking!Settled
<1> QED
  BY <1>2, <1>3, <1>4, <1>5, <1>6, <1>7, <1>8

(* A run that only moves on.                                               *)
LEMMA RunGoes ==
  ASSUME ResolutionInv, NEW k \in Runs, NEW new, UNCHANGED <<election, vote, event, pending, settled>>,
         run' = [run EXCEPT ![k] = new], DOMAIN new = RunFields,
         (DOMAIN pending[k].rows = {} /\ pending[k].events = {})
           \/ (new.force = run[k].force /\ new.pc \notin {"idle", "backfill", "tier0"}),
         new.pc # "tier2" => new.plan = {}, new.plan \subseteq DOMAIN election, Progress(k)'
  PROVE  ResolutionInv'
<1> USE DEF ResolutionInv, Linking!ResolutionHolds
<1>1. /\ DOMAIN run' = Runs /\ run'[k] = new /\ \A j \in Runs \ {k} : run'[j] = run[j]
      /\ DOMAIN pending' = Runs /\ DOMAIN pending'[k] = {"elections", "rows", "events"}
      /\ DOMAIN pending'[k].rows \subseteq DOMAIN vote
      /\ DOMAIN pending'[k].elections \subseteq DOMAIN election
  BY DEF ResolutionTypes
<1>2. /\ \A r \in DOMAIN pending'[k].rows : RowFits(r, pending'[k].rows[r], Linking!Events(k)')
      /\ \A e \in DOMAIN pending'[k].elections :
           ElectionFits(e, pending'[k].elections[e], Linking!Events(k)')
  BY DEF AllFit, Linking!Events
<1>3. \A r \in DOMAIN pending'[k].rows, j \in Runs \ {k} : r \notin DOMAIN pending[j].rows
  BY DEF OneWriter
<1>4. ~run'[k].force => \A r \in DOMAIN pending'[k].rows :
         vote[r].election \in {Linking!Null, pending'[k].rows[r].election}
  BY <1>1 DEF Linking!Sticky
<1> QED
  BY <1>1, <1>2, <1>3, <1>4, RunMoves


(* A run fails, and its transaction is rolled back.                         *)
LEMMA RunEnds ==
  ASSUME ResolutionInv, NEW k \in Runs, Linking!Rollback(k)
  PROVE  ResolutionInv'
<1> USE DEF ResolutionInv, Linking!Rollback
<1>1. /\ DOMAIN run' = Runs /\ run'[k] = Linking!NoRun /\ \A j \in Runs \ {k} : run'[j] = run[j]
      /\ DOMAIN pending' = Runs /\ pending'[k] = Linking!Empty
      /\ \A j \in Runs \ {k} : pending'[j] = pending[j]
  BY DEF ResolutionTypes
<1>2. /\ DOMAIN Linking!Empty = {"elections", "rows", "events"}
      /\ DOMAIN Linking!Empty.rows = {} /\ Linking!Empty.events = {} /\ DOMAIN Linking!Empty.elections = {}
  BY DEF Linking!Empty, Linking!Nothing
<1>3. DOMAIN Linking!NoRun = RunFields /\ Linking!NoRun.pc = "idle" /\ Linking!NoRun.plan = {}
  BY DEF Linking!NoRun, RunFields
<1>4. Progress(k)'
  BY <1>1, <1>3 DEF Progress
<1>5. UNCHANGED <<election, vote, event, settled>>
  OBVIOUS
<1> QED
  BY <1>1, <1>2, <1>3, <1>4, <1>5, RunMoves

(* A command begins, alone or beside others.                                *)
LEMMA RunStarts ==
  ASSUME ResolutionInv, NEW k \in Runs, NEW m \in Modes, Linking!StartRun(k, m)
  PROVE  ResolutionInv'
<1> DEFINE new == [Linking!NoRun EXCEPT !.pc = "backfill", !.force = m.force, !.dry = m.dry,
                                       !.only = m.only, !.still = TRUE]
<1>1. run' = [run EXCEPT ![k] = new]
  BY DEF Linking!StartRun
<1>2. DOMAIN new = RunFields /\ new.pc = "backfill" /\ new.plan = {} /\ run[k].pc = "idle"
  BY <1>1 DEF Linking!NoRun, RunFields, Linking!StartRun, Linking!At
<1> HIDE DEF new
<1>3. DOMAIN pending[k].rows = {} /\ pending[k].events = {} /\ run'[k] = new
  BY <1>1, <1>2 DEF ResolutionInv, ResolutionTypes
<1>4. Progress(k)'
  BY <1>2, <1>3 DEF Progress
<1>5. UNCHANGED <<election, vote, event, pending, settled>>
  BY DEF Linking!StartRun
<1>6. (DOMAIN pending[k].rows = {} /\ pending[k].events = {})
           \/ (new.force = run[k].force /\ new.pc \notin {"idle", "backfill", "tier0"})
  BY <1>3
<1>7. (new.pc # "tier2" => new.plan = {}) /\ new.plan \subseteq DOMAIN election
  BY <1>2
<1>8. DOMAIN new = RunFields
  BY <1>2
<1> HIDE DEF Linking!StartRun
<1> QED
  BY <1>1, <1>4, <1>5, <1>6, <1>7, <1>8, RunGoes

(* The parsed columns are filled in before the tiers                        *)
(* (backfill_election_district_fields).                                     *)
LEMMA RunBackfills ==
  ASSUME ResolutionInv, NEW k \in Runs, Linking!BackfillDistricts(k)
  PROVE  ResolutionInv'
<1> USE DEF ResolutionInv
<1>1. UNCHANGED <<election, vote, event, settled>> /\ run[k].pc = "backfill"
  BY DEF Linking!BackfillDistricts, Linking!At
<1>2. DOMAIN pending[k].rows = {} /\ pending[k].events = {}
  BY <1>1 DEF ResolutionTypes
<1>3. PICK chosen \in SUBSET DOMAIN election :
        pending' = [pending EXCEPT ![k].elections = [e \in chosen |-> Linking!Parsed(e, election[e])]]
  BY DEF Linking!BackfillDistricts
<1>4. /\ DOMAIN pending' = Runs /\ DOMAIN pending'[k] = {"elections", "rows", "events"}
      /\ pending'[k].rows = pending[k].rows /\ pending'[k].events = pending[k].events
      /\ pending'[k].elections = [e \in chosen |-> Linking!Parsed(e, election[e])]
      /\ \A j \in Runs \ {k} : pending'[j] = pending[j]
  BY <1>3 DEF ResolutionTypes
<1>5. /\ DOMAIN run' = Runs /\ DOMAIN run'[k] = RunFields /\ run'[k].pc = "tier0"
      /\ run'[k].plan = {} /\ \A j \in Runs \ {k} : run'[j] = run[j]
  BY <1>1 DEF Linking!BackfillDistricts, Linking!Goto, ResolutionTypes, RunFields
<1>6. \A e \in DOMAIN pending'[k].elections :
        ElectionFits(e, pending'[k].elections[e], Linking!Events(k)')
  <2> SUFFICES ASSUME NEW e \in chosen
               PROVE  ElectionFits(e, Linking!Parsed(e, election[e]), Linking!Events(k)')
    BY <1>4
  <2>1. ElectionFits(e, election[e], event)
    BY DEF AllFit
  <2>2. /\ DOMAIN Linking!Parsed(e, election[e]) = DOMAIN election[e]
        /\ Linking!Parsed(e, election[e]).event = election[e].event
    BY <2>1 DEF Linking!Parsed, ElectionFits
  <2> QED
    BY <1>1, <2>1, <2>2 DEF ElectionFits, Linking!Events
<1>7. Progress(k)'
  BY <1>5 DEF Progress
<1>8. DOMAIN pending'[k].elections \subseteq DOMAIN election
  BY <1>4
<1> QED
  BY <1>1, <1>2, <1>4, <1>5, <1>6, <1>7, <1>8, RunMoves

(* Nothing depends on the links themselves but who is left without one.    *)
LEMMA SameElections ==
  ASSUME NEW v, NEW w, w.elections = v.elections, DOMAIN w.rows = DOMAIN v.rows
  PROVE  /\ \A d : Linking!OnDate(w, d) = Linking!OnDate(v, d)
         /\ \A e : Linking!Alike(w, e) = Linking!Alike(v, e)
         /\ \A e : Linking!Best(w, e) <=> Linking!Best(v, e)
         /\ \A d, c : Linking!InCounty(w, d, c) = Linking!InCounty(v, d, c)
         /\ \A e : Linking!Scope(w, e) = Linking!Scope(v, e)
         /\ \A e : Linking!Served(w, e) = Linking!Served(v, e)
<1>1. \A d : Linking!OnDate(w, d) = Linking!OnDate(v, d)
  BY DEF Linking!OnDate
<1>2. \A e : Linking!Alike(w, e) = Linking!Alike(v, e)
  BY <1>1 DEF Linking!Alike, Linking!Key
<1>3. \A e : Linking!Best(w, e) <=> Linking!Best(v, e)
  BY <1>2 DEF Linking!Best, Linking!Beats
<1>4. \A d, c : Linking!InCounty(w, d, c) = Linking!InCounty(v, d, c)
  BY DEF Linking!InCounty
<1>5. \A e : Linking!Scope(w, e) = Linking!Scope(v, e)
  BY <1>4 DEF Linking!Scope
<1>6. \A e : Linking!Served(w, e) = Linking!Served(v, e)
  BY <1>1, <1>4, <1>5 DEF Linking!Served
<1> QED
  BY <1>1, <1>2, <1>3, <1>4, <1>5, <1>6

(* The dates with rows that have no election are read, for tier 1.          *)
LEMMA RunDates ==
  ASSUME ResolutionInv, NEW k \in Runs, Linking!CountDates(k)
  PROVE  ResolutionInv'
<1> USE DEF ResolutionInv
<1> DEFINE v == Linking!Seen(k)
           ds == {d \in {Contests[e].date : e \in DOMAIN v.elections} : Linking!Asked(k, d)}
           new == [run[k] EXCEPT !.pc = "dates", !.dates = [d \in ds |-> Linking!Cardinality(Linking!OnDate(v, d))]]
<1>1. run' = [run EXCEPT ![k] = new] /\ run[k].pc = "count"
  BY DEF Linking!CountDates, Linking!At
<1>2. /\ DOMAIN new = RunFields /\ new.pc = "dates" /\ new.plan = {} /\ new.force = run[k].force
      /\ new.still = run[k].still /\ new.only = run[k].only
      /\ new.dates = [d \in ds |-> Linking!Cardinality(Linking!OnDate(v, d))]
  BY <1>1 DEF ResolutionTypes, RunFields
<1> HIDE DEF new
<1>3. run'[k] = new
  BY <1>1 DEF ResolutionTypes
<1>4. UNCHANGED <<election, vote, event, pending, settled>>
  BY DEF Linking!CountDates
<1>5. Progress(k)'
  <2> SUFFICES ASSUME Full(k)'
               PROVE  /\ AllDated(v)
                      /\ \A d \in ds : new.dates[d] = Cardinality(Linking!OnDate(v, d))
                      /\ \A e \in DOMAIN v.elections : Contests[e].date \in ds
    <3>1. Linking!Seen(k)' = v
      BY <1>4 DEF Linking!Seen
    <3> QED
      BY <1>2, <1>3, <3>1 DEF Progress
  <2>1. Full(k)
    BY <1>2, <1>3 DEF Full
  <2>2. AllDated(v)
    BY <1>1, <2>1 DEF Progress
  <2>3. \A d \in ds : new.dates[d] = Cardinality(Linking!OnDate(v, d))
    BY <1>2, LinkingCards
  <2>4. \A e \in DOMAIN v.elections : Contests[e].date \in ds
    BY <2>1 DEF Full, Linking!Asked
  <2> QED
    BY <2>2, <2>3, <2>4
<1> QED
  BY <1>1, <1>2, <1>4, <1>5, RunGoes

(* The elections of a date of several are put in order, for tier 2.         *)
LEMMA RunPlans ==
  ASSUME ResolutionInv, NEW k \in Runs, NEW d, Linking!PlanTier2(k, d)
  PROVE  ResolutionInv'
<1> USE DEF ResolutionInv
<1> DEFINE v == Linking!Seen(k)
<1>1. PICK plan \in SUBSET Linking!OnDate(v, d) :
        /\ Linking!Kept(v, d, plan)
        /\ run' = [run EXCEPT ![k].plan = plan, ![k].pc = "tier2", ![k].dates = Linking!Counted(k, d)]
  BY DEF Linking!PlanTier2
<1>2. /\ run[k].pc = "dates" /\ run[k].plan = {} /\ d \in DOMAIN run[k].dates /\ run[k].dates[d] > 1
  BY DEF Linking!PlanTier2, Linking!At, ResolutionTypes
<1> DEFINE new == [run[k] EXCEPT !.plan = plan, !.pc = "tier2", !.dates = Linking!Counted(k, d)]
<1>3. run' = [run EXCEPT ![k] = new]
  BY <1>1 DEF ResolutionTypes
<1>4. /\ DOMAIN new = RunFields /\ new.pc = "tier2" /\ new.plan = plan /\ new.force = run[k].force
      /\ new.still = run[k].still /\ new.only = run[k].only /\ new.dates = Linking!Counted(k, d)
  BY DEF ResolutionTypes, RunFields
<1>5. UNCHANGED <<election, vote, event, pending, settled>>
  BY DEF Linking!PlanTier2
<1> HIDE DEF new
<1>6. run'[k] = new
  BY <1>3 DEF ResolutionTypes
<1>7. plan \subseteq DOMAIN v.elections /\ \A e \in plan : Contests[e].date = d
  BY DEF Linking!OnDate
<1>8. plan \subseteq DOMAIN election
  BY <1>7, SeenFits
<1>9. Progress(k)'
  <2> SUFFICES ASSUME Full(k)'
               PROVE  /\ AllDated(v)
                      /\ \A x \in DOMAIN new.dates : new.dates[x] = Cardinality(Linking!OnDate(v, x))
                      /\ \A e \in plan : Linking!OnDate(v, Contests[e].date) # {e}
                      /\ \A e \in DOMAIN v.elections :
                           Contests[e].date \in DOMAIN new.dates \/ ServedOf(v, e, plan)
    <3>1. Linking!Seen(k)' = v
      BY <1>5 DEF Linking!Seen
    <3> QED
      BY <1>4, <1>6, <3>1 DEF Progress
  <2>1. Full(k)
    BY <1>4, <1>6 DEF Full
  <2>2. /\ AllDated(v)
        /\ \A x \in DOMAIN run[k].dates : run[k].dates[x] = Cardinality(Linking!OnDate(v, x))
        /\ \A e \in DOMAIN v.elections : Contests[e].date \in DOMAIN run[k].dates \/ ServedOf(v, e, {})
    BY <1>2, <2>1 DEF Progress
  <2>3. /\ DOMAIN new.dates = (DOMAIN run[k].dates) \ {d}
        /\ \A x \in DOMAIN new.dates : new.dates[x] = run[k].dates[x]
    BY <1>4 DEF Linking!Counted
  <2>4. \A e \in plan : Linking!OnDate(v, d) # {e}
    <3>1. Cardinality(Linking!OnDate(v, d)) > 1
      BY <1>2, <2>2
    <3>2. \A e : Cardinality({e}) = 1
      BY FS_Singleton
    <3>3. ~(1 > 1)
      OBVIOUS
    <3> QED
      BY <3>1, <3>2, <3>3, Zenon
  <2>5. ASSUME NEW e \in DOMAIN v.elections, Contests[e].date = d PROVE ServedOf(v, e, plan)
    <3>1. e \in Linking!OnDate(v, d)
      BY <2>5 DEF Linking!OnDate
    <3>2. PICK f \in plan : f \in Linking!Alike(v, e)
      BY <1>1, <3>1 DEF Linking!Kept
    <3>3. Linking!Best(v, f)
      BY <1>1 DEF Linking!Kept
    <3> QED
      BY <3>2, <3>3 DEF ServedOf
  <2>6. ASSUME NEW e \in DOMAIN v.elections, Contests[e].date # d
        PROVE  Contests[e].date \in DOMAIN new.dates \/ ServedOf(v, e, plan)
    BY <2>2, <2>3, <2>6 DEF ServedOf
  <2> QED
    BY <1>7, <2>2, <2>3, <2>4, <2>5, <2>6
<1> QED
  BY <1>2, <1>3, <1>4, <1>5, <1>8, <1>9, RunGoes

(* Tier 0: rows and elections get the event of their day and type           *)
(* (_resolve_tier0_event_matching).                                         *)
LEMMA RunTier0 ==
  ASSUME ResolutionInv, NEW k \in Runs, Linking!Tier0(k)
  PROVE  ResolutionInv'
<1> USE DEF ResolutionInv
<1> DEFINE v     == Linking!Seen(k)
           chosen  == Linking!ToLink(k)
           made  == {Linking!EventOf(r) : r \in chosen}
           blank == Linking!Blank(k, chosen)
           given == [r \in chosen |-> [vote[r] EXCEPT !.event = Linking!EventOf(r)]]
           held  == [e \in blank |-> [v.elections[e] EXCEPT !.event = Linking!EventFor(e)]]
           new   == [events |-> made \ event, rows |-> given,
                     elections |-> Linking!Over(held, pending[k].elections)]
<1>1. /\ UNCHANGED <<election, vote, event, settled>> /\ run[k].pc = "tier0"
      /\ pending' = [pending EXCEPT ![k] = new]
      /\ chosen \cap Linking!Locked(k, "rows") = {}
      /\ run' = [run EXCEPT ![k].pc = "count"]
  BY DEF Linking!Tier0, Linking!At, Linking!Goto
<1>2. /\ DOMAIN pending[k].rows = {} /\ pending[k].events = {} /\ chosen \subseteq DOMAIN vote
      /\ blank \subseteq DOMAIN election /\ DOMAIN pending[k].elections \subseteq DOMAIN election
      /\ DOMAIN v.elections = DOMAIN election
      /\ \A e \in blank : Linking!EventFor(e) \in Linking!Events(k) \cup made
  <2>1. chosen \subseteq DOMAIN vote
    BY DEF Linking!ToLink
  <2>2. /\ blank \subseteq DOMAIN v.elections
        /\ \A e \in blank : Linking!EventFor(e) \in Linking!Events(k) \cup made
    BY DEF Linking!Blank, Linking!BlankAlways
  <2>3. DOMAIN v.elections = DOMAIN election
    BY SeenFits
  <2> QED
    BY <1>1, <2>1, <2>2, <2>3 DEF ResolutionTypes
<1>3. /\ DOMAIN given = chosen /\ DOMAIN held = blank
      /\ \A r \in chosen : given[r] = [vote[r] EXCEPT !.event = Linking!EventOf(r)]
      /\ \A e \in blank : held[e] = [v.elections[e] EXCEPT !.event = Linking!EventFor(e)]
  OBVIOUS
<1>4. /\ DOMAIN new = {"elections", "rows", "events"} /\ new.rows = given
      /\ new.events = made \ event
      /\ new.elections = Linking!Over(held, pending[k].elections)
  OBVIOUS
<1> HIDE DEF chosen, made, blank, given, held, new
<1>5. /\ DOMAIN new.elections = blank \cup DOMAIN pending[k].elections
      /\ \A e \in blank : new.elections[e] = held[e]
      /\ \A e \in (DOMAIN new.elections) \ blank : new.elections[e] = pending[k].elections[e]
  BY <1>3, <1>4 DEF Linking!Over
<1>6. /\ DOMAIN pending' = Runs /\ pending'[k] = new
      /\ \A j \in Runs \ {k} : pending'[j] = pending[j]
  BY <1>1 DEF ResolutionTypes
<1>7. /\ DOMAIN run' = Runs /\ DOMAIN run'[k] = RunFields /\ run'[k].pc = "count"
      /\ run'[k].plan = {} /\ \A j \in Runs \ {k} : run'[j] = run[j]
      /\ run'[k].force = run[k].force /\ run'[k].still = run[k].still /\ run'[k].only = run[k].only
  BY <1>1 DEF ResolutionTypes, RunFields
<1>8. Linking!Events(k)' = (made \ event) \cup event
  BY <1>1, <1>4, <1>6 DEF Linking!Events
<1>16. Linking!Events(k) \subseteq Linking!Events(k)'
  BY <1>2, <1>8 DEF Linking!Events
<1>9. \A r \in chosen : /\ RowFits(r, given[r], Linking!Events(k)') /\ given[r].event = Linking!EventOf(r)
                      /\ given[r].election = vote[r].election
  <2> SUFFICES ASSUME NEW r \in chosen
               PROVE  /\ RowFits(r, given[r], Linking!Events(k)')
                      /\ given[r].event = Linking!EventOf(r) /\ given[r].election = vote[r].election
    OBVIOUS
  <2>1. RowFits(r, vote[r], event)
    BY <1>2 DEF AllFit
  <2>2. /\ DOMAIN given[r] = {"election", "event", "scope", "alone"} /\ given[r].event = Linking!EventOf(r)
        /\ given[r].election = vote[r].election /\ given[r].scope = vote[r].scope
        /\ given[r].alone = vote[r].alone
    BY <1>3, <2>1 DEF RowFits
  <2>3. Linking!EventOf(r) \in made
    BY DEF made
  <2>4. Linking!Within(r, given[r])
    BY <2>1, <2>2 DEF RowFits, Linking!Within
  <2> QED
    BY <1>8, <2>2, <2>3, <2>4 DEF RowFits
<1>10. \A e \in DOMAIN new.elections : ElectionFits(e, new.elections[e], Linking!Events(k)')
  <2>1. ASSUME NEW e \in blank PROVE ElectionFits(e, held[e], Linking!Events(k)')
    <3>1. ElectionFits(e, v.elections[e], Linking!Events(k))
      BY <1>2, SeenFits
    <3>2. DOMAIN held[e] = DOMAIN v.elections[e] /\ held[e].event = Linking!EventFor(e)
      BY <1>3, <3>1 DEF ElectionFits
    <3>3. Linking!EventFor(e) \in Linking!Events(k) \cup made
      BY <1>2
    <3>4. Linking!Events(k) \cup made \subseteq Linking!Events(k)'
      BY <1>8, <1>16
    <3> QED
      BY <3>1, <3>2, <3>3, <3>4 DEF ElectionFits
  <2>3. ASSUME NEW e \in DOMAIN pending[k].elections
        PROVE  ElectionFits(e, pending[k].elections[e], Linking!Events(k)')
    <3>1. ElectionFits(e, pending[k].elections[e], Linking!Events(k))
      BY DEF AllFit
    <3> QED
      BY <3>1, <1>16 DEF ElectionFits
  <2> QED
    BY <1>5, <2>1, <2>3
<1>11. \A r \in chosen, j \in Runs \ {k} : r \notin DOMAIN pending[j].rows
  BY <1>1 DEF Linking!Locked
<1>12. ~run'[k].force => \A r \in chosen : vote[r].election \in {Linking!Null, given[r].election}
  BY <1>9
<1>13. Progress(k)'
  <2> SUFFICES ASSUME Full(k)'
               PROVE  \A r \in DOMAIN Linking!Seen(k)'.rows : Linking!Seen(k)'.rows[r].event # <<>>
    BY <1>7 DEF Progress, AllDated
  <2>1. run[k].only = Linking!Null
    BY <1>7 DEF Full
  <2>2. ASSUME NEW r \in DOMAIN vote, r \notin chosen PROVE vote[r].event # <<>>
    BY <2>1, <2>2 DEF chosen, Linking!ToLink, Linking!Asked
  <2>3. /\ DOMAIN Linking!Seen(k)'.rows = DOMAIN vote
        /\ \A r \in DOMAIN vote : Linking!Seen(k)'.rows[r] = IF r \in chosen THEN given[r] ELSE vote[r]
    BY <1>1, <1>2, <1>3, <1>4, <1>6 DEF Linking!Seen, Linking!Over
  <2>4. \A r : Linking!EventOf(r) # <<>>
    BY DEF Linking!EventOf
  <2> QED
    BY <1>9, <2>2, <2>3, <2>4
<1>14. DOMAIN new.elections \subseteq DOMAIN election
  BY <1>2, <1>5
<1> QED
  BY <1>1, <1>2, <1>3, <1>4, <1>6, <1>7, <1>9, <1>10, <1>11, <1>12, <1>13, <1>14, RunMoves

(* What giving out rows leaves alone.                                      *)
Gave(k, scope) ==
  /\ DOMAIN pending' = Runs /\ \A j \in Runs \ {k} : pending'[j] = pending[j]
  /\ DOMAIN pending'[k] = {"elections", "rows", "events"}
  /\ pending'[k].elections = pending[k].elections /\ pending'[k].events = pending[k].events
  /\ DOMAIN pending'[k].rows \subseteq DOMAIN vote
  /\ \A r \in DOMAIN pending'[k].rows : RowFits(r, pending'[k].rows[r], Linking!Events(k)')
  /\ \A r \in DOMAIN pending'[k].rows, j \in Runs \ {k} : r \notin DOMAIN pending[j].rows
  /\ ~run[k].force => \A r \in DOMAIN pending'[k].rows :
       vote[r].election \in {Linking!Null, pending'[k].rows[r].election}
  /\ Linking!Events(k)' = Linking!Events(k)
  /\ LET v == Linking!Seen(k)
         w == Linking!Seen(k)'
     IN /\ w.elections = v.elections /\ DOMAIN w.rows = DOMAIN v.rows
        /\ \A r \in DOMAIN v.rows :
             /\ w.rows[r].event = v.rows[r].event
             /\ r \in scope \/ v.rows[r].election # Linking!Null =>
                  w.rows[r].election # Linking!Null

(* A date of one election, and the election of a plan, is given its rows.  *)
LEMMA Assigned ==
  ASSUME ResolutionInv, NEW k \in Runs, NEW e \in DOMAIN Linking!Seen(k).elections,
         NEW scope \in SUBSET DOMAIN vote, NEW alone, UNCHANGED <<election, vote, event>>,
         Linking!Assign(k, e, scope, alone),
         Confined(k, e, scope, alone)
  PROVE  Gave(k, scope)
<1> USE DEF ResolutionInv
<1> DEFINE v     == Linking!Seen(k)
           w     == Linking!Seen(k)'
           chosen  == Linking!ToGive(k, scope)
           given == [r \in chosen |-> [v.rows[r] EXCEPT !.election = e, !.alone = alone, !.scope = v.elections[e]]]
           held  == Linking!Over(given, pending[k].rows)
<1>1. /\ pending' = [pending EXCEPT ![k].rows = held] /\ chosen \cap Linking!Locked(k, "rows") = {}
  BY DEF Linking!Assign
<1>2. /\ chosen \subseteq scope
      /\ \A r \in scope : r \in chosen \/ (~run[k].force /\ v.rows[r].election # Linking!Null)
      /\ \A r \in chosen : run[k].force \/ v.rows[r].election = Linking!Null
  BY DEF Linking!ToGive
<1>3. /\ DOMAIN given = chosen
      /\ \A r \in chosen : given[r] = [v.rows[r] EXCEPT !.election = e, !.alone = alone, !.scope = v.elections[e]]
      /\ DOMAIN held = chosen \cup DOMAIN pending[k].rows
      /\ \A r \in chosen : held[r] = given[r]
      /\ \A r \in (DOMAIN pending[k].rows) \ chosen : held[r] = pending[k].rows[r]
  BY DEF Linking!Over
<1> HIDE DEF chosen, given, held
<1>4. /\ DOMAIN pending' = Runs /\ \A j \in Runs \ {k} : pending'[j] = pending[j]
      /\ DOMAIN pending'[k] = {"elections", "rows", "events"}
      /\ pending'[k].elections = pending[k].elections /\ pending'[k].events = pending[k].events
      /\ pending'[k].rows = held
  BY <1>1 DEF ResolutionTypes
<1>5. Linking!Events(k)' = Linking!Events(k)
  BY <1>4 DEF Linking!Events
<1>6. /\ DOMAIN v.rows = DOMAIN vote
      /\ \A r \in DOMAIN vote : RowFits(r, v.rows[r], Linking!Events(k))
  BY SeenFits
<1>7. e \in DOMAIN Contests
  BY SeenFits DEF ResolutionTypes
<1>8. \A r \in chosen : /\ given[r].event = v.rows[r].event /\ given[r].election = e
                      /\ RowFits(r, given[r], Linking!Events(k))
  <2> SUFFICES ASSUME NEW r \in chosen
               PROVE  /\ given[r].event = v.rows[r].event /\ given[r].election = e
                      /\ RowFits(r, given[r], Linking!Events(k))
    OBVIOUS
  <2>1. RowFits(r, v.rows[r], Linking!Events(k))
    BY <1>2, <1>6
  <2>2. /\ DOMAIN given[r] = {"election", "event", "scope", "alone"} /\ given[r].event = v.rows[r].event
        /\ given[r].election = e /\ given[r].scope = v.elections[e] /\ given[r].alone = alone
    BY <1>3, <2>1 DEF RowFits
  <2>3. Linking!Within(r, given[r])
    <3>1. Votes[r].date = Contests[e].date /\ InItsCounty(e, v.elections[e], alone, r)
      BY <1>2 DEF Confined
    <3> HIDE DEF v, given
    <3> QED
      BY <2>2, <3>1 DEF Linking!Within, InItsCounty, Linking!CountyScoped
  <2> QED
    BY <2>1, <2>2, <2>3 DEF RowFits
<1>9. DOMAIN pending[k].rows \subseteq DOMAIN vote
  BY DEF ResolutionTypes
<1>10. \A r \in DOMAIN held : RowFits(r, held[r], Linking!Events(k)')
  BY <1>3, <1>5, <1>8 DEF AllFit
<1>11. \A r \in DOMAIN held, j \in Runs \ {k} : r \notin DOMAIN pending[j].rows
  <2> SUFFICES ASSUME NEW r \in DOMAIN held, NEW j \in Runs \ {k}, r \in DOMAIN pending[j].rows
               PROVE  FALSE
    OBVIOUS
  <2>1. CASE r \in chosen
    BY <1>1, <2>1 DEF Linking!Locked
  <2>2. CASE r \in DOMAIN pending[k].rows
    BY <2>2 DEF OneWriter
  <2> QED
    BY <1>3, <2>1, <2>2
<1>12. ~run[k].force => \A r \in DOMAIN held : vote[r].election \in {Linking!Null, held[r].election}
  <2> SUFFICES ASSUME ~run[k].force, NEW r \in DOMAIN held
               PROVE  vote[r].election \in {Linking!Null, held[r].election}
    OBVIOUS
  <2>1. r \in DOMAIN pending[k].rows => vote[r].election \in {Linking!Null, pending[k].rows[r].election}
    BY DEF Linking!ResolutionHolds, Linking!Sticky
  <2>2. CASE r \in chosen
    <3>1. v.rows[r].election = Linking!Null
      BY <1>2, <2>2
    <3>2. r \in DOMAIN v.rows
      BY <1>2, <1>6, <2>2
    <3>3. v.rows[r] = IF r \in DOMAIN pending[k].rows THEN pending[k].rows[r] ELSE vote[r]
      BY <3>2, SeenIs
    <3> QED
      BY <2>1, <3>1, <3>3
  <2>3. CASE r \notin chosen
    BY <1>3, <2>1, <2>3
  <2> QED
    BY <2>2, <2>3
<1>13. /\ w.elections = v.elections /\ DOMAIN w.rows = DOMAIN held \cup DOMAIN vote
       /\ \A r \in DOMAIN w.rows : w.rows[r] = IF r \in DOMAIN held THEN held[r] ELSE vote[r]
  BY <1>4 DEF Linking!Seen, Linking!Over
<1>14. DOMAIN w.rows = DOMAIN v.rows
  BY <1>2, <1>3, <1>6, <1>9, <1>13
<1>15. \A r \in DOMAIN v.rows : w.rows[r] = IF r \in chosen THEN given[r] ELSE v.rows[r]
  <2> SUFFICES ASSUME NEW r \in DOMAIN v.rows
               PROVE  w.rows[r] = IF r \in chosen THEN given[r] ELSE v.rows[r]
    OBVIOUS
  <2>1. v.rows[r] = IF r \in DOMAIN pending[k].rows THEN pending[k].rows[r] ELSE vote[r]
    BY SeenIs
  <2>2. w.rows[r] = IF r \in DOMAIN held THEN held[r] ELSE vote[r]
    BY <1>13, <1>14
  <2> QED
    BY <1>3, <2>1, <2>2
<1>16. \A r \in DOMAIN v.rows :
         /\ w.rows[r].event = v.rows[r].event
         /\ r \in scope \/ v.rows[r].election # Linking!Null => w.rows[r].election # Linking!Null
  BY <1>2, <1>7, <1>8, <1>15, LinkingNull
<1> HIDE DEF w
<1>17. DOMAIN held \subseteq DOMAIN vote
  BY <1>2, <1>3, <1>9
<1> QED
  BY <1>4, <1>5, <1>10, <1>11, <1>12, <1>13, <1>14, <1>16, <1>17 DEF w, Gave

(* What it is given stays given, and what was provided is still.           *)
LEMMA StillServed ==
  ASSUME NEW v, NEW w, NEW e, NEW rest, w.elections = v.elections, DOMAIN w.rows = DOMAIN v.rows,
         \A r \in DOMAIN v.rows :
           r \in Linking!Served(v, e) \/ v.rows[r].election # Linking!Null =>
             w.rows[r].election # Linking!Null,
         NEW x, ServedOf(v, x, rest)
  PROVE  ServedOf(w, x, rest \ {e})
<1>1. PICK f \in Linking!Alike(v, x) : /\ Linking!Best(v, f)
                                       /\ f \in rest \/ Linking!Provided(v, f)
  BY DEF ServedOf
<1>2. f \in Linking!Alike(w, x) /\ Linking!Best(w, f)
  BY <1>1, SameElections
<1>3. \A g : Linking!Served(w, g) = Linking!Served(v, g) /\ Linking!Served(v, g) \subseteq DOMAIN v.rows
  BY SameElections DEF Linking!Served, Linking!InCounty, Linking!Scope
<1>4. Linking!Provided(w, e)
  BY <1>3 DEF Linking!Provided
<1>5. Linking!Provided(v, f) => Linking!Provided(w, f)
  BY <1>3 DEF Linking!Provided
<1> QED
  BY <1>1, <1>2, <1>4, <1>5 DEF ServedOf

(* A run that has given an election its rows goes on with the others.      *)
LEMMA RunAssigns ==
  ASSUME ResolutionInv, NEW k \in Runs, NEW e \in DOMAIN Linking!Seen(k).elections,
         NEW scope \in SUBSET DOMAIN vote, NEW alone, UNCHANGED <<election, vote, event, settled>>,
         Linking!Assign(k, e, scope, alone), run[k].pc \in {"dates", "tier2"},
         Confined(k, e, scope, alone),
         NEW new, run' = [run EXCEPT ![k] = new], DOMAIN new = RunFields,
         new.force = run[k].force, new.still = run[k].still, new.only = run[k].only,
         new.pc \in {"dates", "tier2"}, new.plan = run[k].plan \ {e},
         new.pc = "dates" => new.plan = {},
         DOMAIN new.dates \subseteq DOMAIN run[k].dates,
         \A d \in DOMAIN new.dates : new.dates[d] = run[k].dates[d],
         Full(k) => /\ Linking!Served(Linking!Seen(k), e) \subseteq scope
                    /\ \A x \in DOMAIN Linking!Seen(k).elections :
                         \/ Contests[x].date \in DOMAIN new.dates
                         \/ ServedOf(Linking!Seen(k), x, run[k].plan \cup {e})
  PROVE  ResolutionInv'
<1> DEFINE v == Linking!Seen(k)
           w == Linking!Seen(k)'
<1>1. /\ DOMAIN pending' = Runs /\ \A j \in Runs \ {k} : pending'[j] = pending[j]
      /\ DOMAIN pending'[k] = {"elections", "rows", "events"}
      /\ pending'[k].elections = pending[k].elections /\ pending'[k].events = pending[k].events
      /\ DOMAIN pending'[k].rows \subseteq DOMAIN vote
      /\ \A r \in DOMAIN pending'[k].rows : RowFits(r, pending'[k].rows[r], Linking!Events(k)')
      /\ \A r \in DOMAIN pending'[k].rows, j \in Runs \ {k} : r \notin DOMAIN pending[j].rows
      /\ ~run[k].force => \A r \in DOMAIN pending'[k].rows :
           vote[r].election \in {Linking!Null, pending'[k].rows[r].election}
      /\ Linking!Events(k)' = Linking!Events(k)
      /\ w.elections = v.elections /\ DOMAIN w.rows = DOMAIN v.rows
      /\ \A r \in DOMAIN v.rows :
           /\ w.rows[r].event = v.rows[r].event
           /\ r \in scope \/ v.rows[r].election # Linking!Null => w.rows[r].election # Linking!Null
  <2>1. UNCHANGED <<election, vote, event>>
    OBVIOUS
  <2>2. Gave(k, scope)
    BY <2>1, Assigned
  <2> QED
    BY <2>2 DEF Gave
<1>2. DOMAIN run' = Runs /\ run'[k] = new /\ \A j \in Runs \ {k} : run'[j] = run[j]
  BY DEF ResolutionInv, ResolutionTypes
<1>3. Progress(k)'
  <2> SUFFICES ASSUME Full(k)'
               PROVE  /\ AllDated(w)
                      /\ \A d \in DOMAIN new.dates : new.dates[d] = Cardinality(Linking!OnDate(w, d))
                      /\ \A x \in new.plan : Linking!OnDate(w, Contests[x].date) # {x}
                      /\ \A x \in DOMAIN w.elections :
                           Contests[x].date \in DOMAIN new.dates \/ ServedOf(w, x, new.plan)
    <3> HIDE DEF w
    <3> QED
      BY <1>2 DEF Progress, w
  <2>1. Full(k)
    BY <1>2 DEF Full
  <2>2. /\ AllDated(v)
        /\ \A d \in DOMAIN run[k].dates : run[k].dates[d] = Cardinality(Linking!OnDate(v, d))
        /\ \A x \in run[k].plan : Linking!OnDate(v, Contests[x].date) # {x}
    BY <2>1 DEF ResolutionInv, Progress
  <2> HIDE DEF v, w
  <2>3. \A d : Linking!OnDate(w, d) = Linking!OnDate(v, d)
    BY <1>1, SameElections
  <2>4. AllDated(w)
    BY <1>1, <2>2 DEF AllDated
  <2>5. \A d \in DOMAIN new.dates : new.dates[d] = Cardinality(Linking!OnDate(w, d))
    BY <2>2, <2>3
  <2>6. \A x \in new.plan : Linking!OnDate(w, Contests[x].date) # {x}
    BY <2>2, <2>3
  <2>7. ASSUME NEW x \in DOMAIN w.elections, Contests[x].date \notin DOMAIN new.dates
        PROVE  ServedOf(w, x, new.plan)
    <3> DEFINE rest == run[k].plan \cup {e}
    <3>1. ServedOf(v, x, rest)
      BY <1>1, <2>1, <2>7 DEF v
    <3>2. \A r \in DOMAIN v.rows :
            r \in Linking!Served(v, e) \/ v.rows[r].election # Linking!Null =>
              w.rows[r].election # Linking!Null
      BY <1>1, <2>1 DEF v
    <3>3. rest \ {e} = new.plan
      OBVIOUS
    <3> HIDE DEF rest
    <3>4. ServedOf(w, x, rest \ {e})
      BY <1>1, <3>1, <3>2, StillServed
    <3> QED
      BY <3>3, <3>4
  <2> QED
    BY <2>4, <2>5, <2>6, <2>7
<1>4. DOMAIN pending'[k].elections \subseteq DOMAIN election
  BY <1>1 DEF ResolutionInv, ResolutionTypes
<1>5. \A x \in DOMAIN pending'[k].elections :
        ElectionFits(x, pending'[k].elections[x], Linking!Events(k)')
  BY <1>1 DEF ResolutionInv, AllFit
<1>6. new.plan \subseteq DOMAIN election /\ (new.pc # "tier2" => new.plan = {})
  BY DEF ResolutionInv, ResolutionTypes
<1> HIDE DEF v, w
<1> QED
  BY <1>1, <1>2, <1>3, <1>4, <1>5, <1>6, RunMoves

(* Tier 1: a date of one election gives it every row it serves              *)
(* (_resolve_tier1_single_election).                                        *)
LEMMA RunTier1 ==
  ASSUME ResolutionInv, NEW k \in Runs, NEW d, Linking!Tier1(k, d)
  PROVE  ResolutionInv'
<1> DEFINE v == Linking!Seen(k)
<1>1. PICK e \in Linking!OnDate(v, d) :
        /\ Linking!OnDate(v, d) = {e}
        /\ Linking!Assign(k, e, Linking!InCounty(v, d, Linking!CountyOf(e, v.elections[e])), TRUE)
  BY DEF Linking!Tier1
<1> DEFINE scope == Linking!InCounty(v, d, Linking!CountyOf(e, v.elections[e]))
           new   == [run[k] EXCEPT !.dates = Linking!Counted(k, d)]
<1>2. /\ UNCHANGED <<election, vote, event, settled>> /\ run[k].pc = "dates"
      /\ run' = [run EXCEPT ![k] = new] /\ d \in DOMAIN run[k].dates
  BY DEF Linking!Tier1, Linking!At, ResolutionInv, ResolutionTypes
<1>3. /\ DOMAIN new = RunFields /\ new.force = run[k].force /\ new.still = run[k].still
      /\ new.only = run[k].only /\ new.pc = "dates" /\ new.plan = {} /\ run[k].plan = {}
      /\ new.dates = Linking!Counted(k, d)
  BY <1>2 DEF ResolutionInv, ResolutionTypes, RunFields
<1> HIDE DEF new
<1>4. /\ DOMAIN new.dates = (DOMAIN run[k].dates) \ {d}
      /\ \A x \in DOMAIN new.dates : new.dates[x] = run[k].dates[x]
  BY <1>3 DEF Linking!Counted
<1>5. e \in DOMAIN v.elections /\ Contests[e].date = d
  BY DEF Linking!OnDate
<1>6. DOMAIN v.rows = DOMAIN vote /\ DOMAIN v.elections = DOMAIN election
  BY SeenFits DEF ResolutionInv
<1>7. scope \in SUBSET DOMAIN vote
  BY <1>6 DEF Linking!InCounty
<1>8. Confined(k, e, scope, TRUE)
  BY <1>5 DEF Linking!InCounty, Linking!CountyOf, InItsCounty, Confined
<1>9. Linking!Served(v, e) = scope
  BY <1>1, <1>5 DEF Linking!Served
<1>10. Linking!Best(v, e)
  <2>1. ~Linking!Beats(v, e, e)
    <3>1. Contests[e].length \in Nat
      BY <1>5, <1>6, LinkingLengths DEF ResolutionInv, ResolutionTypes
    <3> QED
      BY <3>1 DEF Linking!Beats
  <2>2. Linking!Alike(v, e) \subseteq {e}
    BY <1>1, <1>5 DEF Linking!Alike
  <2> QED
    BY <2>1, <2>2 DEF Linking!Best
<1>11. ASSUME Full(k), NEW x \in DOMAIN v.elections, Contests[x].date \notin DOMAIN new.dates
       PROVE  ServedOf(v, x, {e})
  <2>1. Contests[x].date \in DOMAIN run[k].dates \/ ServedOf(v, x, {})
    BY <1>2, <1>3, <1>11 DEF ResolutionInv, Progress
  <2>2. CASE ServedOf(v, x, {})
    BY <2>2 DEF ServedOf
  <2>3. CASE Contests[x].date = d
    <3>1. x = e
      BY <1>1, <2>3 DEF Linking!OnDate
    <3>2. e \in Linking!Alike(v, e)
      BY <1>1, <1>5 DEF Linking!Alike
    <3> QED
      BY <1>10, <3>1, <3>2 DEF ServedOf
  <2> QED
    BY <1>4, <1>11, <2>1, <2>2, <2>3
<1>12. /\ Linking!Assign(k, e, scope, TRUE) /\ run[k].pc \in {"dates", "tier2"} /\ new.pc \in {"dates", "tier2"}
       /\ new.plan = run[k].plan \ {e} /\ (new.pc = "dates" => new.plan = {})
       /\ DOMAIN new.dates \subseteq DOMAIN run[k].dates
  BY <1>1, <1>2, <1>3, <1>4
<1>13. Full(k) => /\ Linking!Served(v, e) \subseteq scope
                  /\ \A x \in DOMAIN v.elections :
                       \/ Contests[x].date \in DOMAIN new.dates
                       \/ ServedOf(v, x, run[k].plan \cup {e})
  BY <1>3, <1>9, <1>11
<1> HIDE DEF scope
<1> QED
  BY <1>2, <1>3, <1>4, <1>5, <1>7, <1>8, <1>12, <1>13, RunAssigns

(* Tier 2: the next election of the plan takes the rows of its district     *)
(* (_resolve_tier2_district_matching).                                      *)
LEMMA RunTier2 ==
  ASSUME ResolutionInv, NEW k \in Runs, Linking!Tier2(k)
  PROVE  ResolutionInv'
<1> DEFINE v == Linking!Seen(k)
<1>1. PICK e \in run[k].plan :
        /\ Linking!Assign(k, e, Linking!Scope(v, e), FALSE)
        /\ run' = [run EXCEPT ![k].plan = @ \ {e},
                              ![k].pc = IF run[k].plan = {e} THEN "dates" ELSE @]
  BY DEF Linking!Tier2
<1> DEFINE scope == Linking!Scope(v, e)
           at    == IF run[k].plan = {e} THEN "dates" ELSE "tier2"
           new   == [run[k] EXCEPT !.plan = @ \ {e}, !.pc = at]
<1>2. UNCHANGED <<election, vote, event, settled>> /\ run[k].pc = "tier2"
  BY DEF Linking!Tier2, Linking!At
<1>3. run' = [run EXCEPT ![k] = new]
  BY <1>1, <1>2 DEF ResolutionInv, ResolutionTypes, RunFields
<1>4. /\ DOMAIN new = RunFields /\ new.force = run[k].force /\ new.still = run[k].still
      /\ new.only = run[k].only /\ new.pc = at /\ new.plan = run[k].plan \ {e}
      /\ new.dates = run[k].dates
  BY <1>2 DEF ResolutionInv, ResolutionTypes, RunFields
<1>5. at \in {"dates", "tier2"} /\ (at = "dates" => new.plan = {})
  BY <1>4
<1> HIDE DEF new, at
<1>6. DOMAIN v.rows = DOMAIN vote /\ DOMAIN v.elections = DOMAIN election
  BY SeenFits DEF ResolutionInv
<1>7. e \in DOMAIN v.elections
  BY <1>6 DEF ResolutionInv, ResolutionTypes
<1>8. scope \in SUBSET DOMAIN vote
  BY <1>6 DEF Linking!Scope, Linking!InCounty
<1>9. Confined(k, e, scope, FALSE)
  BY ScopeIs DEF InItsCounty, Confined
<1>10. Full(k) => /\ Linking!Served(v, e) \subseteq scope
                  /\ \A x \in DOMAIN v.elections :
                       \/ Contests[x].date \in DOMAIN new.dates
                       \/ ServedOf(v, x, run[k].plan \cup {e})
  <2> SUFFICES ASSUME Full(k)
               PROVE  /\ Linking!Served(v, e) \subseteq scope
                      /\ \A x \in DOMAIN v.elections :
                           \/ Contests[x].date \in DOMAIN new.dates
                           \/ ServedOf(v, x, run[k].plan \cup {e})
    OBVIOUS
  <2>1. /\ Linking!OnDate(v, Contests[e].date) # {e}
        /\ \A x \in DOMAIN v.elections :
             Contests[x].date \in DOMAIN run[k].dates \/ ServedOf(v, x, run[k].plan)
    BY <1>2 DEF ResolutionInv, Progress
  <2>2. run[k].plan \cup {e} = run[k].plan
    OBVIOUS
  <2> QED
    BY <1>4, <2>1, <2>2 DEF Linking!Served
<1>11. /\ Linking!Assign(k, e, scope, FALSE) /\ run[k].pc \in {"dates", "tier2"} /\ new.pc \in {"dates", "tier2"}
       /\ (new.pc = "dates" => new.plan = {})
       /\ DOMAIN new.dates \subseteq DOMAIN run[k].dates
       /\ \A d \in DOMAIN new.dates : new.dates[d] = run[k].dates[d]
  BY <1>1, <1>2, <1>4, <1>5
<1> HIDE DEF scope
<1> QED
  BY <1>2, <1>3, <1>4, <1>7, <1>8, <1>9, <1>10, <1>11, RunAssigns

(* A change beside the runs: no run is still undisturbed.                  *)
LEMMA Disturbs ==
  ASSUME ResolutionInv, Linking!Disturb, UNCHANGED <<event, pending>>,
         DOMAIN election \subseteq DOMAIN election', DOMAIN election' \subseteq DOMAIN Contests,
         DOMAIN vote \subseteq DOMAIN vote', \A r \in DOMAIN vote : vote'[r] = vote[r],
         \A r \in DOMAIN vote' : RowFits(r, vote'[r], event),
         \A e \in DOMAIN election' : ElectionFits(e, election'[e], event)
  PROVE  ResolutionInv'
<1> USE DEF ResolutionInv, Linking!ResolutionHolds
<1>1. /\ settled' = FALSE /\ DOMAIN run' = Runs
      /\ \A k \in Runs : run'[k] = [run[k] EXCEPT !.still = FALSE]
  BY DEF Linking!Disturb
<1>2. \A k \in Runs : /\ DOMAIN run'[k] = RunFields /\ run'[k].still = FALSE /\ run'[k].pc = run[k].pc
                      /\ run'[k].plan = run[k].plan /\ run'[k].force = run[k].force
  BY <1>1 DEF ResolutionTypes, RunFields
<1>3. ResolutionTypes'
  BY <1>1, <1>2 DEF ResolutionTypes
<1>4. AllFit'
  <2>1. \A k \in Runs : Linking!Events(k)' = Linking!Events(k)
    BY DEF Linking!Events
  <2> QED
    BY <2>1 DEF AllFit
<1>5. OneWriter'
  BY DEF OneWriter
<1>6. \A k \in Runs : Progress(k)'
  BY <1>2 DEF Progress, Full
<1>7. Linking!Sticky'
  BY <1>2 DEF Linking!Sticky, ResolutionTypes
<1>8. Linking!NoLeak' /\ Linking!EventsFit' /\ Linking!Settled'
  BY <1>1, <1>4 DEF Linking!NoLeak, Linking!EventsFit, Linking!Settled, AllFit, RowFits, ElectionFits
<1> QED
  BY <1>3, <1>4, <1>5, <1>6, <1>7, <1>8

(* An election is entered beside the runs.                                  *)
LEMMA ElectionAdded ==
  ASSUME ResolutionInv, NEW e \in DOMAIN Contests, Linking!AddElection(e)
  PROVE  ResolutionInv'
<1> DEFINE new == Linking!Created(e)
<1>1. /\ election' = Linking!Over([x \in {e} |-> new], election)
      /\ Linking!Disturb /\ UNCHANGED <<vote, event, pending>>
  BY DEF Linking!AddElection
<1>2. ElectionFits(e, new, event)
  BY CreatedFits
<1> HIDE DEF new
<1>3. /\ DOMAIN election' = {e} \cup DOMAIN election /\ election'[e] = new
      /\ \A x \in (DOMAIN election) \ {e} : election'[x] = election[x]
  BY <1>1 DEF Linking!Over
<1>4. \A x \in DOMAIN election' : ElectionFits(x, election'[x], event)
  BY <1>2, <1>3 DEF ResolutionInv, AllFit
<1> QED
  BY <1>1, <1>3, <1>4, Disturbs DEF ResolutionInv, ResolutionTypes, AllFit

(* An election is soft-deleted beside the runs.                             *)
LEMMA ElectionDeleted ==
  ASSUME ResolutionInv, NEW e \in DOMAIN Contests, Linking!DeleteElection(e)
  PROVE  ResolutionInv'
<1>1. /\ election' = [election EXCEPT ![e].deleted = TRUE] /\ e \in DOMAIN election
      /\ Linking!Disturb /\ UNCHANGED <<vote, event, pending>>
  BY DEF Linking!DeleteElection
<1>2. ElectionFits(e, election'[e], event)
  BY <1>1 DEF ElectionFits, ResolutionInv, AllFit
<1>3. \A x \in DOMAIN election' : ElectionFits(x, election'[x], event)
  BY <1>1, <1>2 DEF ResolutionInv, AllFit
<1> QED
  BY <1>1, <1>3, Disturbs DEF ResolutionInv, ResolutionTypes, AllFit

(* A row of voter history is imported beside the runs.                      *)
LEMMA RowImported ==
  ASSUME ResolutionInv, NEW r, Linking!ImportRow(r)
  PROVE  ResolutionInv'
<1>1. /\ vote' = Linking!Over([x \in {r} |-> Linking!Unlinked], vote) /\ r \notin DOMAIN vote
      /\ Linking!Disturb /\ UNCHANGED <<election, event, pending>>
  BY DEF Linking!ImportRow
<1>2. RowFits(r, Linking!Unlinked, event)
  BY DEF Linking!Unlinked, RowFits, Linking!Within
<1>3. /\ DOMAIN vote' = {r} \cup DOMAIN vote /\ vote'[r] = Linking!Unlinked
      /\ \A x \in DOMAIN vote : vote'[x] = vote[x]
  BY <1>1 DEF Linking!Over
<1>4. \A x \in DOMAIN vote' : RowFits(x, vote'[x], event)
  BY <1>2, <1>3 DEF ResolutionInv, AllFit
<1> QED
  BY <1>1, <1>3, <1>4, Disturbs DEF ResolutionInv, ResolutionTypes, AllFit

(* A run commits what it has written, and has settled what it says.         *)
LEMMA RunCommits ==
  ASSUME ResolutionInv, NEW k \in Runs, Linking!Commit(k)
  PROVE  ResolutionInv'
<1> USE DEF ResolutionInv, Linking!ResolutionHolds
<1> DEFINE v == Linking!Seen(k)
<1>1. /\ election' = v.elections /\ vote' = v.rows /\ event' = Linking!Events(k)
      /\ settled' = (run[k].only = Linking!Null /\ run[k].still)
      /\ pending' = [pending EXCEPT ![k] = Linking!Empty]
      /\ run[k].pc = "dates" /\ DOMAIN run[k].dates = {}
  BY DEF Linking!Commit, Linking!At
<1>2. /\ DOMAIN run' = Runs /\ run'[k] = Linking!NoRun
      /\ \A j \in Runs \ {k} : run'[j] = [run[j] EXCEPT !.still = FALSE]
  BY DEF Linking!Commit
<1>3. DOMAIN Linking!NoRun = RunFields /\ Linking!NoRun.pc = "idle" /\ Linking!NoRun.plan = {}
  BY DEF Linking!NoRun, RunFields
<1>4. /\ DOMAIN Linking!Empty = {"elections", "rows", "events"} /\ Linking!Empty.events = {}
      /\ DOMAIN Linking!Empty.rows = {} /\ DOMAIN Linking!Empty.elections = {}
  BY DEF Linking!Empty, Linking!Nothing
<1>5. /\ DOMAIN pending' = Runs /\ pending'[k] = Linking!Empty
      /\ \A j \in Runs \ {k} : pending'[j] = pending[j]
  BY <1>1 DEF ResolutionTypes
<1>6. \A j \in Runs \ {k} :
        /\ DOMAIN run'[j] = RunFields /\ run'[j].still = FALSE /\ run'[j].pc = run[j].pc
        /\ run'[j].plan = run[j].plan /\ run'[j].force = run[j].force
  BY <1>2 DEF ResolutionTypes, RunFields
<1>7. /\ DOMAIN vote' = DOMAIN vote /\ DOMAIN election' = DOMAIN election
      /\ \A r \in DOMAIN vote : RowFits(r, vote'[r], event')
      /\ \A e \in DOMAIN election : ElectionFits(e, election'[e], event')
  BY <1>1, SeenFits
<1>8. \A r \in DOMAIN vote : vote'[r] = IF r \in DOMAIN pending[k].rows THEN pending[k].rows[r] ELSE vote[r]
  BY <1>1, <1>7, SeenIs
<1>9. ResolutionTypes'
  BY <1>2, <1>3, <1>4, <1>5, <1>6, <1>7 DEF ResolutionTypes
<1>10. AllFit'
  <2>1. \A j \in Runs \ {k} : Linking!Events(j) \subseteq Linking!Events(j)'
    BY <1>1, <1>5 DEF Linking!Events
  <2>2. ASSUME NEW j \in Runs \ {k}
        PROVE  /\ \A r \in DOMAIN pending'[j].rows : RowFits(r, pending'[j].rows[r], Linking!Events(j)')
               /\ \A e \in DOMAIN pending'[j].elections :
                    ElectionFits(e, pending'[j].elections[e], Linking!Events(j)')
    BY <1>5, <2>1 DEF AllFit, RowFits, ElectionFits
  <2> QED
    BY <1>4, <1>5, <1>7, <2>2 DEF AllFit
<1>11. OneWriter'
  BY <1>4, <1>5 DEF OneWriter
<1>12. \A j \in Runs : Progress(j)'
  BY <1>2, <1>3, <1>6 DEF Progress, Full
<1>13. Linking!Sticky'
  <2> SUFFICES ASSUME NEW j \in Runs \ {k}, ~run[j].force, NEW r \in DOMAIN pending[j].rows
               PROVE  vote'[r].election \in {Linking!Null, pending[j].rows[r].election}
    BY <1>4, <1>5, <1>6 DEF Linking!Sticky
  <2>1. r \notin DOMAIN pending[k].rows /\ r \in DOMAIN vote
    BY DEF OneWriter, ResolutionTypes
  <2> QED
    BY <1>8, <2>1 DEF Linking!Sticky
<1>14. Linking!NoLeak'
  BY <1>10 DEF Linking!NoLeak, AllFit, RowFits
<1>15. Linking!Tables' = v
  BY <1>1 DEF Linking!Tables, Linking!Seen
<1>16. settled' => /\ AllDated(v)
                   /\ \A e \in DOMAIN v.elections : ServedOf(v, e, {})
  <2> SUFFICES ASSUME settled' PROVE AllDated(v) /\ \A e \in DOMAIN v.elections : ServedOf(v, e, {})
    OBVIOUS
  <2>1. Full(k) /\ run[k].plan = {}
    BY <1>1 DEF Full, ResolutionTypes
  <2> QED
    BY <1>1, <2>1 DEF Progress
<1>17. Linking!EventsFit'
  BY <1>1, <1>10, <1>16 DEF Linking!EventsFit, AllFit, RowFits, ElectionFits, AllDated
<1>18. Linking!Settled'
  <2> HIDE DEF v
  <2>1. settled' => \A e \in DOMAIN election' :
          \E f \in Linking!Alike(v, e) : Linking!Best(v, f) /\ Linking!Provided(v, f)
    BY <1>1, <1>16 DEF ServedOf
  <2> QED
    BY <1>15, <2>1 DEF Linking!Settled
<1> QED
  BY <1>9, <1>10, <1>11, <1>12, <1>13, <1>14, <1>17, <1>18

(* Every step of the runs, and of what changes beside them, keeps the       *)
(* invariant.                                                               *)
LEMMA ResolutionStep == ResolutionInv /\ [Linking!Next]_linked => ResolutionInv'
<1> SUFFICES ASSUME ResolutionInv, [Linking!Next]_linked PROVE ResolutionInv'
  OBVIOUS
<1>1. ASSUME NEW e \in DOMAIN Contests,
             Linking!AddElection(e) \/ Linking!DeleteElection(e)
      PROVE  ResolutionInv'
  BY <1>1, ElectionAdded, ElectionDeleted
<1>2. ASSUME NEW r \in DOMAIN Votes, Linking!ImportRow(r) PROVE ResolutionInv'
  BY <1>2, RowImported
<1>3. ASSUME NEW k \in Runs,
             \/ \E m \in Modes : Linking!StartRun(k, m)
             \/ Linking!BackfillDistricts(k) \/ Linking!Tier0(k) \/ Linking!CountDates(k)
             \/ \E d \in DOMAIN run[k].dates : Linking!Tier1(k, d) \/ Linking!PlanTier2(k, d)
             \/ Linking!Tier2(k) \/ Linking!Commit(k) \/ Linking!Rollback(k)
      PROVE  ResolutionInv'
  BY <1>3, RunStarts, RunBackfills, RunTier0, RunDates, RunTier1, RunPlans, RunTier2, RunCommits, RunEnds
<1>4. CASE UNCHANGED linked
  <2>1. UNCHANGED <<election, vote, event, pending, run, settled>>
    BY <1>4 DEF linked
  <2>2. \A k \in Runs : Linking!Seen(k)' = Linking!Seen(k) /\ Linking!Events(k)' = Linking!Events(k)
    BY <2>1 DEF Linking!Seen, Linking!Events
  <2>3. ResolutionTypes' /\ AllFit' /\ OneWriter'
    BY <2>1, <2>2 DEF ResolutionInv, ResolutionTypes, AllFit, OneWriter
  <2>4. \A k \in Runs : Progress(k)'
    BY <2>1, <2>2 DEF ResolutionInv, Progress, Full
  <2>5. Linking!Sticky' /\ Linking!NoLeak' /\ Linking!EventsFit'
    BY <2>1 DEF ResolutionInv, Linking!ResolutionHolds, Linking!Sticky, Linking!NoLeak, Linking!EventsFit
  <2>6. Linking!Settled'
    <3>1. Linking!Tables' = Linking!Tables
      BY <2>1 DEF Linking!Tables
    <3> QED
      BY <2>1, <3>1 DEF ResolutionInv, Linking!ResolutionHolds, Linking!Settled
  <2> QED
    BY <2>3, <2>4, <2>5, <2>6 DEF ResolutionInv, Linking!ResolutionHolds
<1> QED
  BY <1>1, <1>2, <1>3, <1>4 DEF Linking!Next

(* Only a forced run changes a row's election, a row has the election of    *)
(* another county only where none is known for it (nothing recorded, and no *)
(* boundary where it goes by one), events are those of the day and type,    *)
(* and a full undisturbed run leaves nothing for another                    *)
(* (resolve_voter_history_elections).                                       *)
THEOREM ResolutionTheorem == ImportsSpec => []ResolutionHolds
<1> DEFINE Inv == part = "resolution" => ResolutionInv
<1>1. ImportsInit => Inv
  BY ResolutionInit DEF ImportsInit
<1>2. Inv /\ [ImportsNext]_<<part, vars, imported>> => Inv'
  <2> SUFFICES ASSUME Inv, [ImportsNext]_<<part, vars, imported>>, part' = "resolution"
               PROVE  ResolutionInv'
    OBVIOUS
  <2>1. part = "resolution" /\ [Linking!Next]_linked
    BY DEF ImportsNext, imported
  <2> QED
    BY <2>1, ResolutionStep
<1>3. Inv => ResolutionHolds
  BY DEF ResolutionInv, ResolutionHolds
<1> QED
  BY <1>1, <1>2, <1>3, PTL DEF ImportsSpec

-----------------------------------------------------------------------------
(* The directory.                                                          *)
CommandFields == {"files", "dry", "sent", "counts", "whole", "n", "loaded"}

(* A candidacy has its candidate and election from the first.              *)
Tied(row) == row.candidate # Directory!Null /\ row.election # Directory!Null
RowIsOf(t, row) == DOMAIN row = Directory!Columns[t] /\ (t = "candidacies" => Tied(row))

(* The rows of a table or of the command have its columns, and those the   *)
(* command has written are of the records it has sent.                     *)
SentIds == {dir[Directory!Table][n].id : n \in 1 .. command.sent}
TablesTyped ==
  /\ dir \in Directories
  /\ DOMAIN table = Directory!Tables /\ DOMAIN base = Directory!Tables /\ DOMAIN told = Directory!Tables
  /\ \A t \in Directory!Tables : \A i \in DOMAIN table[t] : RowIsOf(t, table[t][i])
CommandTyped ==
  /\ DOMAIN command = CommandFields /\ command.files \subseteq DOMAIN dir
  /\ command.sent \in Nat
  /\ command.dry \in BOOLEAN /\ command.whole \in BOOLEAN /\ command.loaded \in BOOLEAN
  /\ ~Directory!Running \/ command.dry => command.sent = 0
  /\ command.dry => ~command.whole
  /\ command.loaded => command.whole /\ ~Directory!Running
WrittenTyped ==
  /\ Directory!Running => /\ command.sent =< Len(dir[Directory!Table])
                          /\ DOMAIN written = SentIds
  /\ ~Directory!Running => DOMAIN written = {}
  /\ \A i \in DOMAIN written : RowIsOf(Directory!Table, written[i])
DirectoryTypes == TablesTyped /\ CommandTyped /\ WrittenTyped

(* A row that one record is of is as it was at the last edit, or has what  *)
(* the record and that row ask for; one of the command, what the record    *)
(* and the committed row do.                                               *)
AsDue(t, i, row, T) ==
  \A n \in DOMAIN dir[t] : Directory!RecordsOf(t, i) = {n} =>
    \A c \in Directory!Columns[t] : row[c] \in Directory!Due(t, i, c, Directory!Held(T, i, c))
TableFits(t, T, B) ==
  /\ DOMAIN B \subseteq DOMAIN T
  /\ \A i \in DOMAIN T :
       /\ Directory!RecordsOf(t, i) = {} => i \in DOMAIN B
       /\ \A n \in DOMAIN dir[t] : Directory!RecordsOf(t, i) = {n} =>
            \A c \in Directory!Columns[t] :
              \/ T[i][c] \in Directory!Due(t, i, c, Directory!Held(B, i, c))
              \/ i \in DOMAIN B /\ T[i][c] = B[i][c]
TablesFit == \A t \in DOMAIN dir : TableFits(t, table[t], base[t])
WrittenFits ==
  Directory!Running =>
    \A i \in DOMAIN written : AsDue(Directory!Table, i, written[i], table[Directory!Table])

(* A whole run has loaded the files it is past.                            *)
FileLoaded(t, T, B) ==
  \A n \in DOMAIN dir[t] : LET i == dir[t][n].id
                           IN i \in DOMAIN T /\ AsDue(t, i, T[i], B)
Progressed ==
  command.whole /\ (Directory!Running \/ command.loaded) =>
    \A t \in DOMAIN dir \ command.files : FileLoaded(t, table[t], base[t])

(* What a dry run said is still so.                                        *)
ToldRight ==
  \A t \in DOMAIN dir : told[t] # Directory!Unsaid =>
    told[t] = Directory!Counts(t) /\ Len(dir[t]) > 0
CountsAsTold ==
  /\ command.sent = 0 => command.counts = <<0, 0>>
  /\ Directory!Running /\ command.sent > 0 /\ Len(dir[Directory!Table]) =< SubBatch =>
       /\ command.sent = Len(dir[Directory!Table])
       /\ told[Directory!Table] # Directory!Unsaid => command.counts = told[Directory!Table]

DirectoryInv ==
  /\ DirectoryTypes /\ TablesFit /\ WrittenFits /\ Progressed
  /\ ToldRight /\ CountsAsTold /\ Directory!WholeFiles

(* What the assumption says of the files of the directory.                 *)
LEMMA DirectoryFacts ==
  ASSUME dir \in Directories, NEW t \in DOMAIN dir
  PROVE  /\ t \in {"events", "elections", "candidates", "candidacies"} /\ t \in Directory!Tables
         /\ Len(dir[t]) \in Nat /\ DOMAIN dir[t] = 1 .. Len(dir[t])
         /\ \A n \in DOMAIN dir[t] :
              /\ "id" \in DOMAIN dir[t][n]
              /\ \A c \in Directory!Required \cap Directory!Columns[t] :
                   Directory!Default(c) = Directory!Null =>
                     c \in DOMAIN dir[t][n] /\ dir[t][n][c] # Directory!Null
              /\ \A c \in DOMAIN dir[t][n] : dir[t][n][c] = Directory!Placeholder => c = "event"
<1>1. Directory!DirectoryAssumption
  BY ImportsAssumption
<1>2. /\ t \in Directory!Tables /\ dir[t] \in Seq({dir[t][n] : n \in DOMAIN dir[t]})
      /\ \A n \in DOMAIN dir[t] :
           /\ "id" \in DOMAIN dir[t][n]
           /\ \A c \in Directory!Required \cap Directory!Columns[t] :
                Directory!Default(c) = Directory!Null =>
                  c \in DOMAIN dir[t][n] /\ dir[t][n][c] # Directory!Null
           /\ \A c \in DOMAIN dir[t][n] : dir[t][n][c] = Directory!Placeholder => c = "event"
  BY <1>1 DEF Directory!DirectoryAssumption
<1>3. Directory!Tables = {"events", "elections", "candidates", "candidacies"}
  BY DEF Directory!Tables, Directory!Pipeline
<1> QED
  BY <1>2, <1>3, LenProperties

(* The columns of each table.                                              *)
LEMMA ColumnsAre ==
  /\ Directory!Columns["events"] = {"name", "url"}
  /\ Directory!Columns["elections"] = {"name", "event", "url", "interval", "status"}
  /\ Directory!Columns["candidates"] = {"full_name", "bio"}
  /\ Directory!Columns["candidacies"] =
       {"candidate", "election", "filing", "incumbent", "order", "party"}
BY DEF Directory!Columns

(* Of some files one is the first that the foreign keys let load.          *)
LEMMA LeastIs ==
  ASSUME dir \in Directories, NEW F \in SUBSET DOMAIN dir, F # {}
  PROVE  (CHOOSE t \in F : \A u \in F : Directory!Pipeline[t] <= Directory!Pipeline[u]) \in F
<1> DEFINE P == Directory!Pipeline
           Least(t) == \A u \in F : P[t] <= P[u]
<1>1. F \subseteq {"events", "elections", "candidates", "candidacies"}
  BY DirectoryFacts
<1>2. P["events"] = 1 /\ P["elections"] = 2 /\ P["candidates"] = 3 /\ P["candidacies"] = 4
  BY DEF Directory!Pipeline
<1> HIDE DEF P
<1>3. \E t \in F : Least(t)
  <2>1. CASE "events" \in F
    BY <2>1, <1>1, <1>2
  <2>2. CASE "events" \notin F /\ "elections" \in F
    BY <2>2, <1>1, <1>2
  <2>3. CASE "events" \notin F /\ "elections" \notin F /\ "candidates" \in F
    BY <2>3, <1>1, <1>2
  <2>4. CASE F = {"candidacies"}
    BY <2>4, <1>2
  <2> QED
    BY <2>1, <2>2, <2>3, <2>4, <1>1
<1> QED
  BY <1>3 DEF P

(* The file in hand is one of those still to be loaded.                    *)
LEMMA TableIs ==
  ASSUME dir \in Directories, command.files \subseteq DOMAIN dir, Directory!Running
  PROVE  Directory!Table \in command.files /\ Directory!Table \in DOMAIN dir
BY LeastIs DEF Directory!Table, Directory!Running

(* The file of the next state.                                             *)
LEMMA NextTableIs ==
  ASSUME dir \in Directories, dir' = dir, command.files' \subseteq DOMAIN dir, Directory!Running'
  PROVE  Directory!Table' \in command.files' /\ Directory!Table' \in DOMAIN dir
<1>1. command.files' \in SUBSET DOMAIN dir /\ command.files' # {}
  BY DEF Directory!Running
<1>2. Directory!Table' = CHOOSE t \in command.files' : \A u \in command.files' :
                           Directory!Pipeline[t] <= Directory!Pipeline[u]
  BY DEF Directory!Table, Directory!Pipeline
<1> QED
  BY <1>1, <1>2, LeastIs

-----------------------------------------------------------------------------
(* A record as it is prepared: the columns it offers a value for, and the  *)
(* ones that are filled in without.                                        *)
Offered(t, d) == {c \in Directory!Columns[t] \cap DOMAIN d : d[c] \notin {Directory!Null, Directory!Placeholder}}
Filled(t) ==
  IF t = "elections" THEN {"status"}
  ELSE IF t = "candidacies" THEN {"filing", "incumbent", "order", "party"} ELSE {}
Prepares(t, d, r) ==
  /\ DOMAIN r = {"id"} \cup Offered(t, d) \cup Filled(t)
  /\ r.id = d.id /\ \A c \in Offered(t, d) : r[c] = d[c]
  /\ \A c \in Filled(t) \ Offered(t, d) : r[c] = Directory!Default(c)

(* What is picked of a record.                                             *)
LEMMA PickDoes ==
  ASSUME NEW r, NEW C, "id" \in DOMAIN r
  PROVE  /\ DOMAIN Directory!Pick(r, C) = {"id"} \cup C
         /\ \A x \in {"id"} \cup C : Directory!Pick(r, C)[x] = r[x]
BY DEF Directory!Pick

(* Each table's records are prepared so (_prepare_record).                 *)
LEMMA PreparedAs ==
  ASSUME dir \in Directories, NEW t \in DOMAIN dir, NEW n \in DOMAIN dir[t]
  PROVE  Prepares(t, dir[t][n], Directory!Prepare(t, dir[t][n]))
<1> DEFINE d == dir[t][n]
           r == Directory!Prepare(t, d)
           G == Directory!Given(t, d)
           A == Offered(t, d)
<1>1. /\ t \in {"events", "elections", "candidates", "candidacies"} /\ "id" \in DOMAIN d
      /\ \A c \in DOMAIN d : d[c] = Directory!Placeholder => c = "event"
  BY DirectoryFacts
<1>2. G = {c \in Directory!Columns[t] \cap DOMAIN d : d[c] # Directory!Null}
  BY DEF Directory!Given
<1>3. t # "elections" => G = A
  BY <1>1, <1>2, ColumnsAre DEF Offered
<1>4. "id" \notin Directory!Columns[t] /\ "id" \notin A
  BY <1>1, ColumnsAre DEF Offered
<1> SUFFICES /\ DOMAIN r = {"id"} \cup A \cup Filled(t)
             /\ r["id"] = d["id"] /\ \A c \in A : r[c] = d[c]
             /\ \A c \in Filled(t) \ A : r[c] = Directory!Default(c)
  BY DEF Prepares
<1> DEFINE p == Directory!Pick(d, A)
<1>5. DOMAIN p = {"id"} \cup A /\ \A x \in {"id"} \cup A : p[x] = d[x]
  BY <1>1, PickDoes
<1>6. CASE t \in {"events", "candidates"}
  <2>1. r = p
    BY <1>3, <1>6 DEF Directory!Prepare, Directory!PrepareEvent, Directory!PrepareCandidate
  <2>2. Filled(t) = {}
    BY <1>6 DEF Filled
  <2> HIDE DEF r, p, d, A
  <2> QED
    BY <2>1, <2>2, <1>5
<1>7. CASE t = "elections"
  <2>1. {c \in Directory!Given("elections", d) : d[c] # Directory!Placeholder} = A
    BY <1>7 DEF Offered, Directory!Given
  <2>2. r = Directory!WithDefault("status", p)
    BY <1>7, <2>1 DEF Directory!Prepare, Directory!PrepareElection
  <2>3. Filled(t) = {"status"} /\ "status" # "id"
    BY <1>7 DEF Filled
  <2> HIDE DEF r, p, d, A
  <2>4. /\ DOMAIN r = DOMAIN p \cup {"status"} /\ \A x \in DOMAIN p : r[x] = p[x]
        /\ "status" \notin DOMAIN p => r["status"] = Directory!Default("status")
    BY <2>2 DEF Directory!WithDefault, Directory!Over
  <2> QED
    BY <2>3, <2>4, <1>5
<1>8. CASE t = "candidacies"
  <2> DEFINE o == [order |-> Directory!Null, party |-> Directory!Null]
             q == Directory!Over(p, o)
             w == Directory!WithDefault("incumbent", q)
  <2>1. r = Directory!WithDefault("filing", w)
    BY <1>3, <1>8 DEF Directory!Prepare, Directory!PrepareCandidacy
  <2>2. DOMAIN o = {"order", "party"} /\ \A x \in {"order", "party"} : o[x] = Directory!Null
    OBVIOUS
  <2>3. /\ Filled(t) = {"filing", "incumbent", "order", "party"}
        /\ \A x \in {"order", "party"} : Directory!Default(x) = Directory!Null
    BY <1>8 DEF Filled, Directory!Default
  <2> HIDE DEF r, p, d, A, o
  <2>4. /\ DOMAIN q = {"id", "order", "party"} \cup A /\ \A x \in {"id"} \cup A : q[x] = d[x]
        /\ \A x \in {"order", "party"} \ A : q[x] = Directory!Null
    BY <2>2, <1>5 DEF Directory!Over
  <2> HIDE DEF q
  <2>5. /\ DOMAIN w = DOMAIN q \cup {"incumbent"} /\ \A x \in DOMAIN q : w[x] = q[x]
        /\ "incumbent" \notin DOMAIN q => w["incumbent"] = Directory!Default("incumbent")
    BY DEF Directory!WithDefault, Directory!Over
  <2> HIDE DEF w
  <2>6. /\ DOMAIN r = DOMAIN w \cup {"filing"} /\ \A x \in DOMAIN w : r[x] = w[x]
        /\ "filing" \notin DOMAIN w => r["filing"] = Directory!Default("filing")
    BY <2>1 DEF Directory!WithDefault, Directory!Over
  <2>7. DOMAIN r = {"id"} \cup A \cup Filled(t)
    BY <2>3, <2>4, <2>5, <2>6
  <2>8. \A x \in {"id"} \cup A : r[x] = d[x]
    BY <2>4, <2>5, <2>6
  <2>9. ASSUME NEW c \in Filled(t) \ A
        PROVE  r[c] = Directory!Default(c)
    <3>1. CASE c \in {"order", "party"}
      BY <2>3, <2>4, <2>5, <2>6, <2>9, <3>1
    <3>2. CASE c = "incumbent"
      BY <2>4, <2>5, <2>6, <2>9, <3>2
    <3>3. CASE c = "filing"
      BY <2>4, <2>5, <2>6, <2>9, <3>3
    <3> QED
      BY <2>3, <2>9, <3>1, <3>2, <3>3
  <2> QED
    BY <2>7, <2>8, <2>9
<1> QED
  BY <1>1, <1>6, <1>7, <1>8

(* The columns of a statement, and the values of a record for them.        *)
Sets(t, c) == \E n \in DOMAIN dir[t] : c \in Offered(t, dir[t][n])
Value(t, d, c) ==
  IF c \in Offered(t, d) THEN d[c] ELSE IF c \in Filled(t) THEN Directory!Default(c) ELSE Directory!Null

(* A file's records are as many as it holds, with their ids.               *)
LEMMA RecordsAre ==
  ASSUME dir \in Directories, NEW t \in DOMAIN dir
  PROVE  /\ DOMAIN Directory!Records(t) = DOMAIN dir[t]
         /\ Directory!Records(t) \in Seq({Directory!Prepare(t, dir[t][n]) : n \in DOMAIN dir[t]})
         /\ Len(Directory!Records(t)) = Len(dir[t])
         /\ \A n \in DOMAIN dir[t] : /\ Directory!Records(t)[n] = Directory!Prepare(t, dir[t][n])
                                     /\ Directory!Records(t)[n].id = dir[t][n].id
<1>1. Directory!Records(t) = [n \in DOMAIN dir[t] |-> Directory!Prepare(t, dir[t][n])]
  BY DEF Directory!Records
<1>2. DOMAIN dir[t] = 1 .. Len(dir[t]) /\ Len(dir[t]) \in Nat
  BY DirectoryFacts
<1>3. \A n \in DOMAIN dir[t] : Directory!Prepare(t, dir[t][n]).id = dir[t][n].id
  BY PreparedAs DEF Prepares
<1> DEFINE S == {Directory!Prepare(t, dir[t][n]) : n \in DOMAIN dir[t]}
           R == Directory!Records(t)
<1>4. R \in [1 .. Len(dir[t]) -> S]
  BY <1>1, <1>2
<1> HIDE DEF S, R
<1>5. R \in Seq(S) /\ Len(R) = Len(dir[t])
  BY <1>2, <1>4, SeqDef, LenProperties
<1> QED
  BY <1>1, <1>3, <1>5 DEF R, S

(* The columns of a statement are those some record offers, and the filled *)
(* ones.                                                                   *)
LEMMA KeysAre ==
  ASSUME dir \in Directories, NEW t \in DOMAIN dir, DOMAIN dir[t] # {}
  PROVE  Directory!AllKeys(t) = {c \in Directory!Columns[t] : Sets(t, c)} \cup Filled(t)
<1>1. \A n \in DOMAIN dir[t] :
        DOMAIN Directory!Records(t)[n] = {"id"} \cup Offered(t, dir[t][n]) \cup Filled(t)
  BY RecordsAre, PreparedAs DEF Prepares
<1>2. DOMAIN Directory!Records(t) = DOMAIN dir[t]
  BY RecordsAre
<1>3. "id" \notin Directory!Columns[t] /\ "id" \notin Filled(t)
  BY DirectoryFacts, ColumnsAre DEF Filled
<1>4. \A n \in DOMAIN dir[t] : Offered(t, dir[t][n]) \subseteq Directory!Columns[t]
  BY DEF Offered
<1> DEFINE U == UNION {DOMAIN Directory!Records(t)[n] : n \in DOMAIN Directory!Records(t)}
<1>5. \A c : c \in U <=> c = "id" \/ c \in Filled(t) \/ Sets(t, c)
  BY <1>1, <1>2 DEF Sets
<1>6. Directory!AllKeys(t) = U \ {"id"}
  BY DEF Directory!AllKeys
<1> HIDE DEF U
<1>7. \A c : Sets(t, c) => c \in Directory!Columns[t]
  BY <1>4 DEF Sets
<1> QED
  BY <1>3, <1>5, <1>6, <1>7

(* What a record asks for twice it asks for once.                          *)
LEMMA DueAgain ==
  ASSUME NEW t, NEW i, NEW c, NEW h, NEW g \in Directory!Due(t, i, c, h) \cup {h},
         NEW v \in Directory!Due(t, i, c, g)
  PROVE  v \in Directory!Due(t, i, c, h)
BY DEF Directory!Due

(* What the one record of a row asks for.                                  *)
LEMMA AskedIs ==
  ASSUME dir \in Directories, NEW t \in DOMAIN dir, NEW n \in DOMAIN dir[t], NEW i,
         Directory!RecordsOf(t, i) = {n}, NEW c
  PROVE  Directory!Asked(t, i, c) = IF c \in DOMAIN dir[t][n] THEN dir[t][n][c] ELSE Directory!Null
<1>1. n \in Nat
  BY DirectoryFacts
<1> DEFINE m == CHOOSE m \in Directory!RecordsOf(t, i) : \A k \in Directory!RecordsOf(t, i) : k <= m
<1>2. Directory!Asked(t, i, c) = IF c \in DOMAIN dir[t][m] THEN dir[t][m][c] ELSE Directory!Null
  BY DEF Directory!Asked
<1>3. m = n
  BY <1>1
<1> HIDE DEF m
<1> QED
  BY <1>2, <1>3

(* The value for a column of a record is due where nothing of before has   *)
(* to be kept.                                                             *)
LEMMA PlainDue ==
  ASSUME dir \in Directories, NEW t \in DOMAIN dir, NEW n \in DOMAIN dir[t], NEW i,
         Directory!RecordsOf(t, i) = {n}, NEW c \in Directory!Columns[t], NEW h, NEW v,
         c \in Directory!Fixed \cup Directory!Curated \cup Directory!Richer => h = Directory!Null,
         c \in Directory!AllKeys(t) => v = Value(t, dir[t][n], c),
         c \in Directory!AllKeys(t) /\ c \in Directory!Required => v # Directory!Null,
         c \notin Directory!AllKeys(t) => v = h \/ (h = Directory!Null /\ v = Directory!Default(c))
  PROVE  v \in Directory!Due(t, i, c, h)
<1> DEFINE d == dir[t][n]
           a == Directory!Asked(t, i, c)
<1>1. a = IF c \in DOMAIN d THEN d[c] ELSE Directory!Null
  BY AskedIs
<1>2. /\ Directory!Null # Directory!Placeholder /\ Directory!Null # "default"
      /\ Directory!Placeholder # "default"
  BY DEF Directory!Null, Directory!Placeholder
<1>3. c \in Offered(t, d) <=> a \notin {Directory!Null, Directory!Placeholder}
  BY <1>1, <1>2 DEF Offered
<1>4. c \in Offered(t, d) => a = d[c]
  BY <1>1 DEF Offered
<1>5. Directory!Anyone(t, c) <=> Sets(t, c)
  BY DEF Directory!Anyone, Sets, Offered
<1>6. c \in Directory!AllKeys(t) <=> Sets(t, c) \/ c \in Filled(t)
  BY KeysAre
<1>7. a = Directory!Placeholder => c = "event"
  BY <1>1, <1>2, DirectoryFacts
<1>8. /\ Directory!Default(c) = Directory!Null \/ (c \in Directory!Required /\ c # "event")
      /\ c \in Filled(t) => c # "event"
      /\ c \in Filled(t) => c \in Directory!Required \cup Directory!Richer \cup Directory!Overwritten
      /\ c \in Directory!Richer \cup Directory!Overwritten => Directory!Default(c) = Directory!Null
      /\ c \in Directory!Overwritten =>
           c \notin Directory!Required \cup Directory!Fixed \cup Directory!Curated
      /\ c \in Directory!Overwritten => c \in Filled(t)
  <2> DEFINE Once == {"status", "filing", "incumbent", "interval"}
  <2>1. c \in Filled(t) => c \in {"status", "filing", "incumbent", "order", "party"}
    BY DEF Filled
  <2>2. /\ Once \subseteq Directory!Required /\ "order" \notin Directory!Required
        /\ "order" \notin Directory!Fixed \cup Directory!Curated
    BY DEF Directory!Required, Directory!Fixed, Directory!Curated
  <2>3. Directory!Richer = {"bio", "party"} /\ Directory!Overwritten = {"order"}
    BY DEF Directory!Richer, Directory!Overwritten
  <2>4. Directory!Default(c) = Directory!Null \/ c \in Once
    BY DEF Directory!Default
  <2>5. c \in {"bio", "order", "party"} => Directory!Default(c) = Directory!Null
    BY DEF Directory!Default
  <2>6. ASSUME c \in Once
        PROVE  c \in Directory!Required /\ c # "event"
    <3>1. c \in Directory!Required
      BY <2>2, <2>6
    <3>2. c # "event"
      BY <2>6
    <3> QED
      BY <3>1, <3>2
  <2>7. ASSUME c \in Filled(t)
        PROVE  /\ c # "event"
               /\ c \in Directory!Required \cup Directory!Richer \cup Directory!Overwritten
    <3>1. CASE c \in {"order", "party"}
      BY <2>3, <3>1
    <3>2. CASE c \in {"status", "filing", "incumbent"}
      BY <2>6, <3>2
    <3> QED
      BY <2>1, <2>7, <3>1, <3>2
  <2>8. Directory!Default(c) = Directory!Null \/ (c \in Directory!Required /\ c # "event")
    BY <2>4, <2>6
  <2>9. c \in Directory!Overwritten => c \in Filled(t)
    <3>1. t \in {"events", "elections", "candidates", "candidacies"}
      BY DirectoryFacts
    <3>2. c = "order" => t = "candidacies"
      BY <3>1, ColumnsAre
    <3> QED
      BY <2>3, <3>2 DEF Filled
  <2> HIDE DEF Once
  <2> QED
    BY <2>2, <2>3, <2>5, <2>7, <2>8, <2>9
<1> HIDE DEF d, a
<1>9. CASE c \in Offered(t, d)
  <2>1. c \in Directory!AllKeys(t)
    BY <1>6, <1>9 DEF Sets, d
  <2>2. v = a
    BY <1>4, <1>9, <2>1 DEF Value, d
  <2> QED
    BY <1>3, <1>9, <2>2 DEF Directory!Due, a
<1>10. CASE c \notin Offered(t, d) /\ c \in Filled(t)
  <2>1. v = Directory!Default(c)
    BY <1>6, <1>10 DEF Value, d
  <2>2. a = Directory!Null
    BY <1>3, <1>7, <1>8, <1>10
  <2>3. CASE c \in Directory!Richer
    BY <1>8, <2>1, <2>2, <2>3 DEF Directory!Due, a
  <2>4. CASE c \in Directory!Overwritten /\ c \notin Directory!Richer
    BY <1>2, <1>8, <2>1, <2>2, <2>4 DEF Directory!Due, a
  <2>5. CASE c \notin Directory!Richer /\ c \notin Directory!Overwritten
    <3>1. c \in Directory!Required
      BY <1>8, <1>10, <2>5
    <3> QED
      BY <1>2, <2>1, <2>2, <2>5, <3>1 DEF Directory!Due, a
  <2> QED
    BY <2>3, <2>4, <2>5
<1>11. CASE c \notin Offered(t, d) /\ c \notin Filled(t) /\ c \in Directory!AllKeys(t)
  <2>1. v = Directory!Null /\ c \notin Directory!Required /\ Directory!Anyone(t, c)
    BY <1>5, <1>6, <1>11 DEF Value, d
  <2>2. a \in {Directory!Null, Directory!Placeholder}
    BY <1>3, <1>11
  <2> QED
    BY <1>2, <2>1, <2>2 DEF Directory!Due, a
<1>12. CASE c \notin Offered(t, d) /\ c \notin Directory!AllKeys(t)
  <2>1. a \in {Directory!Null, Directory!Placeholder} /\ ~Directory!Anyone(t, c)
    BY <1>3, <1>5, <1>6, <1>12
  <2>2. CASE v = h
    <3>1. c \notin Directory!Overwritten
      BY <1>6, <1>8, <1>12
    <3> QED
      BY <1>2, <2>1, <2>2, <3>1 DEF Directory!Due, a
  <2>3. CASE v # h
    <3>1. h = Directory!Null /\ v = Directory!Default(c) /\ v # Directory!Null
      BY <1>12, <2>3
    <3>2. c \in Directory!Required /\ a = Directory!Null
      BY <1>7, <1>8, <2>1, <3>1
    <3>3. c \notin Directory!Richer
      BY <1>8, <3>1
    <3> QED
      BY <3>1, <3>2, <3>3, <1>2 DEF Directory!Due, a
  <2> QED
    BY <2>2, <2>3
<1> QED
  BY <1>9, <1>10, <1>11, <1>12

(* The value for a column of which nothing does not erase what is there.   *)
LEMMA RicherDue ==
  ASSUME dir \in Directories, NEW t \in DOMAIN dir, NEW n \in DOMAIN dir[t], NEW i,
         Directory!RecordsOf(t, i) = {n}, NEW c \in Directory!Columns[t] \cap Directory!Richer,
         NEW h, NEW v,
         c \in Directory!AllKeys(t) => v = Directory!Coalesce(Value(t, dir[t][n], c), h),
         c \notin Directory!AllKeys(t) => v = h
  PROVE  v \in Directory!Due(t, i, c, h)
<1> DEFINE d == dir[t][n]
           a == Directory!Asked(t, i, c)
<1>1. a = IF c \in DOMAIN d THEN d[c] ELSE Directory!Null
  BY AskedIs
<1>2. c \in {"bio", "party"} /\ c # "event" /\ c \notin Directory!Fixed \cup Directory!Curated
  BY DEF Directory!Richer, Directory!Fixed, Directory!Curated
<1>3. a # Directory!Placeholder
  BY <1>1, <1>2, DirectoryFacts DEF Directory!Null, Directory!Placeholder
<1>4. c \in Offered(t, d) <=> a # Directory!Null
  BY <1>1, <1>3 DEF Offered
<1>5. c \in Offered(t, d) => a = d[c] /\ c \in Directory!AllKeys(t)
  BY <1>1, KeysAre DEF Offered, Sets
<1>6. Directory!Default(c) = Directory!Null
  BY <1>2 DEF Directory!Default
<1>7. c \in Directory!AllKeys(t) =>
        v = IF c \in Offered(t, d) /\ d[c] # Directory!Null THEN d[c] ELSE h
  BY <1>6 DEF Value, Directory!Coalesce
<1> HIDE DEF d, a
<1>8. CASE c \in Offered(t, d)
  BY <1>2, <1>3, <1>4, <1>5, <1>7, <1>8 DEF Directory!Due, a
<1>9. CASE c \notin Offered(t, d)
  BY <1>4, <1>7, <1>9 DEF Directory!Due, a
<1> QED
  BY <1>8, <1>9

(* A record when every column of the statement has a value.                *)
LEMMA NormalizedIs ==
  ASSUME dir \in Directories, NEW t \in DOMAIN dir, NEW n \in DOMAIN dir[t]
  PROVE  /\ DOMAIN Directory!Normalized(t, Directory!Records(t)[n]) = Directory!AllKeys(t)
         /\ Directory!AllKeys(t) \subseteq Directory!Columns[t]
         /\ \A c \in Directory!AllKeys(t) :
              Directory!Normalized(t, Directory!Records(t)[n])[c] = Value(t, dir[t][n], c)
<1> DEFINE r == Directory!Records(t)[n]
           d == dir[t][n]
<1>1. Prepares(t, d, r)
  BY RecordsAre, PreparedAs
<1>2. Directory!AllKeys(t) = {c \in Directory!Columns[t] : Sets(t, c)} \cup Filled(t)
  BY KeysAre
<1>3. "id" \notin Directory!Columns[t] /\ Filled(t) \subseteq Directory!Columns[t]
  BY DirectoryFacts, ColumnsAre DEF Filled
<1> HIDE DEF r, d
<1>4. /\ DOMAIN r = {"id"} \cup Offered(t, d) \cup Filled(t)
      /\ \A c \in Offered(t, d) : r[c] = d[c]
      /\ \A c \in Filled(t) \ Offered(t, d) : r[c] = Directory!Default(c)
  BY <1>1 DEF Prepares
<1>5. /\ DOMAIN Directory!Normalized(t, r) = Directory!AllKeys(t)
      /\ \A c \in Directory!AllKeys(t) :
           Directory!Normalized(t, r)[c] = IF c \in DOMAIN r THEN r[c] ELSE Directory!Null
  BY DEF Directory!Normalized
<1>6. ASSUME NEW c \in Directory!AllKeys(t)
      PROVE  Directory!Normalized(t, r)[c] = Value(t, d, c)
  <2>1. c # "id"
    BY <1>2, <1>3
  <2>2. c \in DOMAIN r <=> c \in Offered(t, d) \/ c \in Filled(t)
    BY <1>4, <2>1
  <2> QED
    BY <1>4, <1>5, <2>2 DEF Value
<1> QED
  BY <1>2, <1>3, <1>5, <1>6 DEF r, d

(* A column that cannot be NULL gets its value from every record.          *)
Complete(t, n) ==
  \A c \in Directory!Required \cap Directory!AllKeys(t) :
    Directory!Normalized(t, Directory!Records(t)[n])[c] # Directory!Null

(* A row that a record inserts.                                            *)
LEMMA RowInserted ==
  ASSUME dir \in Directories, NEW t \in DOMAIN dir, NEW n \in DOMAIN dir[t], Complete(t, n)
  PROVE  LET row == Directory!Inserted(t, Directory!Records(t)[n])
         IN /\ DOMAIN row = Directory!Columns[t]
            /\ t = "candidacies" => Tied(row)
            /\ \A i : Directory!RecordsOf(t, i) = {n} =>
                 \A c \in Directory!Columns[t] : row[c] \in Directory!Due(t, i, c, Directory!Null)
<1> DEFINE r == Directory!Records(t)[n]
           d == dir[t][n]
           row == Directory!Inserted(t, r)
           K == Directory!AllKeys(t)
<1>1. /\ DOMAIN row = Directory!Columns[t]
      /\ \A c \in Directory!Columns[t] :
           row[c] = IF c \in K THEN Directory!Normalized(t, r)[c] ELSE Directory!Default(c)
  BY DEF Directory!Inserted
<1>2. \A c \in K : Directory!Normalized(t, r)[c] = Value(t, d, c)
  BY NormalizedIs
<1>3. \A c \in K \cap Directory!Required : Value(t, d, c) # Directory!Null
  BY <1>2 DEF Complete
<1> HIDE DEF r, d, row, K
<1>4. \A c \in Directory!Columns[t] : row[c] = IF c \in K THEN Value(t, d, c) ELSE Directory!Default(c)
  BY <1>1, <1>2
<1>5. ASSUME t = "candidacies"
      PROVE  Tied(row)
  <2>1. ASSUME NEW c \in {"candidate", "election"}
        PROVE  row[c] # Directory!Null
    <3>1. /\ c \in Directory!Required \cap Directory!Columns[t] /\ Directory!Default(c) = Directory!Null
          /\ c # "event"
      BY <1>5, ColumnsAre DEF Directory!Required, Directory!Default
    <3>2. c \in DOMAIN d /\ d[c] # Directory!Null /\ d[c] # Directory!Placeholder
      BY <3>1, DirectoryFacts DEF d
    <3>3. c \in Offered(t, d)
      BY <3>1, <3>2 DEF Offered
    <3>4. c \in K
      BY <3>1, <3>3, KeysAre DEF K, Sets, d
    <3> QED
      BY <1>3, <1>4, <3>1, <3>4
  <2> QED
    BY <2>1 DEF Tied
<1>6. ASSUME NEW i, Directory!RecordsOf(t, i) = {n}, NEW c \in Directory!Columns[t]
      PROVE  row[c] \in Directory!Due(t, i, c, Directory!Null)
  <2> DEFINE v == row[c]
  <2>1. c \in Directory!AllKeys(t) => v = Value(t, dir[t][n], c)
    BY <1>4 DEF K, d
  <2>2. c \in Directory!AllKeys(t) /\ c \in Directory!Required => v # Directory!Null
    BY <1>3, <1>4 DEF K
  <2>3. c \notin Directory!AllKeys(t) => v = Directory!Default(c)
    BY <1>4 DEF K
  <2> HIDE DEF v
  <2>4. v \in Directory!Due(t, i, c, Directory!Null)
    BY <1>6, <2>1, <2>2, <2>3, PlainDue
  <2> QED
    BY <2>4 DEF v
<1> QED
  BY <1>1, <1>5, <1>6 DEF row, r

(* A row that a record updates.                                            *)
LEMMA RowUpdated ==
  ASSUME dir \in Directories, NEW t \in DOMAIN dir, NEW n \in DOMAIN dir[t], Complete(t, n),
         NEW old, DOMAIN old = Directory!Columns[t], t = "candidacies" => Tied(old)
  PROVE  LET row == Directory!Updated(t, old, Directory!Records(t)[n])
         IN /\ DOMAIN row = Directory!Columns[t]
            /\ t = "candidacies" => Tied(row)
            /\ \A i : Directory!RecordsOf(t, i) = {n} =>
                 \A c \in Directory!Columns[t] : row[c] \in Directory!Due(t, i, c, old[c])
<1> DEFINE r == Directory!Records(t)[n]
           d == dir[t][n]
           new == Directory!Normalized(t, r)
           row == Directory!Updated(t, old, r)
           K == Directory!AllKeys(t)
           V(c) == Value(t, d, c)
<1>1. /\ DOMAIN new = K /\ K \subseteq Directory!Columns[t] /\ \A c \in K : new[c] = V(c)
      /\ Filled(t) \subseteq K
  BY NormalizedIs, KeysAre
<1>2. \A c \in K \cap Directory!Required : V(c) # Directory!Null
  BY <1>1 DEF Complete
<1>3. t \in {"events", "elections", "candidates", "candidacies"}
  BY DirectoryFacts
<1> DEFINE Plain(c) == row[c] = IF c \in K THEN V(c) ELSE old[c]
           Rich(c)  == row[c] = IF c \in K THEN Directory!Coalesce(V(c), old[c]) ELSE old[c]
           Kept(c)  == row[c] = old[c]
           KeptOnce(c)  == row[c] = IF old[c] = Directory!Null /\ c \in K THEN V(c) ELSE old[c]
           Done == /\ DOMAIN row = Directory!Columns[t]
                   /\ \A c \in Directory!Columns[t] :
                        \/ c \notin Directory!Fixed \cup Directory!Curated \cup Directory!Richer /\ Plain(c)
                        \/ c \in Directory!Richer /\ Rich(c)
                        \/ c \in Directory!Fixed /\ t = "candidacies" /\ Kept(c)
                        \/ c \in Directory!Curated /\ KeptOnce(c)
<1>4. Done
  <2>0. /\ Directory!Fixed = {"candidate", "election"} /\ Directory!Curated = {"status"}
        /\ Directory!Richer = {"bio", "party"}
    BY DEF Directory!Fixed, Directory!Curated, Directory!Richer
  <2>1. CASE t = "events"
    <3>1. row = Directory!Over(new, old)
      BY <2>1 DEF Directory!Updated, Directory!UpdateEvent
    <3> HIDE DEF r, d, row, K, V, new
    <3>2. DOMAIN row = Directory!Columns[t] /\ \A c \in Directory!Columns[t] : Plain(c)
      BY <1>1, <3>1 DEF Directory!Over
    <3>3. \A c \in Directory!Columns[t] :
             c \notin Directory!Fixed \cup Directory!Curated \cup Directory!Richer
      BY <2>0, <2>1, ColumnsAre
    <3> QED
      BY <3>2, <3>3
  <2>2. CASE t = "elections"
    <3> DEFINE u == Directory!UpdateElection(old, new)
    <3>1. row = Directory!Over(u, old)
      BY <2>2 DEF Directory!Updated
    <3>2. "status" \in K
      BY <1>1, <2>2 DEF Filled
    <3>3. u = [new EXCEPT !["status"] = Directory!Coalesce(old["status"], @)]
      BY DEF Directory!UpdateElection
    <3> HIDE DEF r, d, row, K, V, new, u
    <3>4. /\ DOMAIN u = K /\ \A c \in K \ {"status"} : u[c] = V(c)
          /\ u["status"] = Directory!Coalesce(old["status"], V("status"))
      BY <1>1, <3>2, <3>3
    <3>5. DOMAIN row = Directory!Columns[t]
      BY <1>1, <3>1, <3>4 DEF Directory!Over
    <3>6. \A c \in Directory!Columns[t] \ {"status"} : Plain(c)
      BY <1>1, <3>1, <3>4 DEF Directory!Over
    <3>7. KeptOnce("status")
      BY <1>1, <3>1, <3>2, <3>4 DEF Directory!Over, Directory!Coalesce
    <3>8. \A c \in Directory!Columns[t] \ {"status"} :
             c \notin Directory!Fixed \cup Directory!Curated \cup Directory!Richer
      BY <2>0, <2>2, ColumnsAre
    <3> QED
      BY <2>0, <3>5, <3>6, <3>7, <3>8
  <2>3. CASE t = "candidates"
    <3> DEFINE u == Directory!UpdateCandidate(old, new)
    <3>1. row = Directory!Over(u, old)
      BY <2>3 DEF Directory!Updated
    <3>2. DOMAIN u = DOMAIN new /\ \A c \in DOMAIN new :
             u[c] = IF c = "bio" THEN Directory!Coalesce(new[c], old[c]) ELSE new[c]
      BY DEF Directory!UpdateCandidate
    <3> HIDE DEF r, d, row, K, V, new, u
    <3>3. DOMAIN row = Directory!Columns[t]
      BY <1>1, <3>1, <3>2 DEF Directory!Over
    <3>4. \A c \in Directory!Columns[t] \ {"bio"} : Plain(c)
      BY <1>1, <3>1, <3>2 DEF Directory!Over
    <3>5. "bio" \in Directory!Columns[t] /\ Rich("bio")
      BY <1>1, <2>3, <3>1, <3>2, ColumnsAre DEF Directory!Over
    <3>6. \A c \in Directory!Columns[t] \ {"bio"} :
             c \notin Directory!Fixed \cup Directory!Curated \cup Directory!Richer
      BY <2>0, <2>3, ColumnsAre
    <3> QED
      BY <2>0, <3>3, <3>4, <3>5, <3>6
  <2>4. CASE t = "candidacies"
    <3> DEFINE u == Directory!UpdateCandidacy(old, new)
    <3>1. row = Directory!Over(u, old)
      BY <2>4 DEF Directory!Updated
    <3>2. {"filing", "incumbent", "order", "party"} \subseteq K
      BY <1>1, <2>4 DEF Filled
    <3>3. u = [old EXCEPT !["filing"] = new["filing"], !["incumbent"] = new["incumbent"],
                          !["order"] = new["order"],
                          !["party"] = Directory!Coalesce(new["party"], @)]
      BY DEF Directory!UpdateCandidacy
    <3>4. Directory!Columns[t] = {"candidate", "election", "filing", "incumbent", "order", "party"}
      BY <2>4, ColumnsAre
    <3> HIDE DEF r, d, row, K, V, new, u
    <3>5. /\ DOMAIN u = Directory!Columns[t] /\ u["filing"] = V("filing")
          /\ u["incumbent"] = V("incumbent") /\ u["order"] = V("order")
          /\ u["party"] = Directory!Coalesce(V("party"), old["party"])
          /\ u["candidate"] = old["candidate"] /\ u["election"] = old["election"]
      BY <1>1, <3>2, <3>3, <3>4
    <3>6. DOMAIN row = Directory!Columns[t] /\ \A c \in Directory!Columns[t] : row[c] = u[c]
      BY <3>1, <3>5 DEF Directory!Over
    <3> QED
      BY <2>0, <2>4, <3>2, <3>4, <3>5, <3>6
  <2> QED
    BY <1>3, <2>1, <2>2, <2>3, <2>4
<1> HIDE DEF r, d, row, K, V, new
<1>5. ASSUME t = "candidacies"
      PROVE  Tied(row)
  <2>1. ASSUME NEW c \in {"candidate", "election"}
        PROVE  row[c] = old[c]
    <3>1. /\ c \in Directory!Columns[t] /\ c \in Directory!Fixed
          /\ c \notin Directory!Curated \cup Directory!Richer
      BY <1>5, ColumnsAre DEF Directory!Fixed, Directory!Curated, Directory!Richer
    <3> QED
      BY <1>4, <3>1
  <2> QED
    BY <1>5, <2>1 DEF Tied
<1>6. ASSUME NEW i, Directory!RecordsOf(t, i) = {n}, NEW c \in Directory!Columns[t]
      PROVE  row[c] \in Directory!Due(t, i, c, old[c])
  <2> DEFINE v == row[c]
             h == old[c]
  <2>1. CASE c \notin Directory!Fixed \cup Directory!Curated \cup Directory!Richer /\ Plain(c)
    <3>1. c \in Directory!AllKeys(t) => v = Value(t, dir[t][n], c)
      BY <2>1 DEF K, V, d
    <3>2. c \in Directory!AllKeys(t) /\ c \in Directory!Required => v # Directory!Null
      BY <1>2, <2>1 DEF K
    <3>3. c \notin Directory!AllKeys(t) => v = h
      BY <2>1 DEF K
    <3> HIDE DEF v, h
    <3>4. v \in Directory!Due(t, i, c, h)
      BY <1>6, <2>1, <3>1, <3>2, <3>3, PlainDue
    <3> QED
      BY <3>4 DEF v, h
  <2>2. CASE c \in Directory!Richer /\ Rich(c)
    <3>1. c \in Directory!AllKeys(t) => v = Directory!Coalesce(Value(t, dir[t][n], c), h)
      BY <2>2 DEF K, V, d
    <3>2. c \notin Directory!AllKeys(t) => v = h
      BY <2>2 DEF K
    <3> HIDE DEF v, h
    <3>3. v \in Directory!Due(t, i, c, h)
      BY <1>6, <2>2, <3>1, <3>2, RicherDue
    <3> QED
      BY <3>3 DEF v, h
  <2>3. CASE c \in Directory!Fixed /\ t = "candidacies" /\ Kept(c)
    <3>1. h # Directory!Null
      BY <2>3 DEF Tied, Directory!Fixed
    <3> QED
      BY <2>3, <3>1 DEF Directory!Due
  <2>4. CASE c \in Directory!Curated /\ KeptOnce(c)
    <3>1. CASE h # Directory!Null
      BY <2>4, <3>1 DEF Directory!Due
    <3>2. CASE h = Directory!Null
      <4>1. c \in Directory!AllKeys(t) => v = Value(t, dir[t][n], c)
        BY <2>4, <3>2 DEF K, V, d
      <4>2. c \in Directory!AllKeys(t) /\ c \in Directory!Required => v # Directory!Null
        BY <1>2, <2>4, <3>2 DEF K
      <4>3. c \notin Directory!AllKeys(t) => v = h
        BY <2>4 DEF K
      <4> HIDE DEF v, h
      <4>4. v \in Directory!Due(t, i, c, h)
        BY <1>6, <3>2, <4>1, <4>2, <4>3, PlainDue
      <4> QED
        BY <4>4 DEF v, h
    <3> QED
      BY <3>1, <3>2
  <2> QED
    BY <1>4, <2>1, <2>2, <2>3, <2>4
<1> QED
  BY <1>4, <1>5, <1>6 DEF row, r

-----------------------------------------------------------------------------
(* The statement in hand: the records after those that were sent.          *)
Upto == IF command.sent + SubBatch < Len(dir[Directory!Table]) THEN command.sent + SubBatch
        ELSE Len(dir[Directory!Table])

(* A statement takes SubBatch records, or those that are left.             *)
LEMMA StepTo ==
  ASSUME NEW from \in Nat, NEW size \in Nat, size > 0, NEW all \in Nat, from < all,
         NEW to, to = IF from + size < all THEN from + size ELSE all
  PROVE  to \in Nat /\ from < to /\ to =< all /\ (to = all \/ to = from + size)
OBVIOUS

(* The statement's records, counted from the last one sent.                *)
LEMMA BatchIs ==
  ASSUME DirectoryTypes, Directory!Running, command.sent < Len(dir[Directory!Table])
  PROVE  /\ Upto \in Nat /\ command.sent < Upto /\ Upto =< Len(dir[Directory!Table])
         /\ Upto = Len(dir[Directory!Table]) \/ Upto = command.sent + SubBatch
         /\ SubBatch \in Nat
         /\ Len(Directory!Batch) = Upto - command.sent
         /\ DOMAIN Directory!Batch = 1 .. Upto - command.sent
         /\ \A m \in DOMAIN Directory!Batch :
              /\ command.sent + m \in DOMAIN dir[Directory!Table]
              /\ Directory!Batch[m] = Directory!Records(Directory!Table)[command.sent + m]
<1> DEFINE t == Directory!Table
           R == Directory!Records(t)
           s == command.sent
           S == {Directory!Prepare(t, dir[t][n]) : n \in DOMAIN dir[t]}
<1>1. t \in DOMAIN dir /\ dir \in Directories /\ s \in Nat
  BY TableIs DEF DirectoryTypes, TablesTyped, CommandTyped
<1>2. Len(dir[t]) \in Nat /\ DOMAIN dir[t] = 1 .. Len(dir[t])
  BY <1>1, DirectoryFacts
<1>3. SubBatch \in Nat /\ SubBatch > 0
  BY ImportsAssumption DEF Directory!DirectoryAssumption
<1>4. R \in Seq(S) /\ Len(R) = Len(dir[t])
  BY <1>1, RecordsAre
<1>5. Upto = IF s + SubBatch < Len(dir[t]) THEN s + SubBatch ELSE Len(dir[t])
  BY DEF Upto
<1>6. Directory!Batch = SubSeq(R, s + 1, Upto)
  BY <1>4 DEF Directory!Batch, Upto
<1>7. s < Len(dir[t])
  OBVIOUS
<1> HIDE DEF t, R, s, S
<1>8. Upto \in Nat /\ s < Upto /\ Upto =< Len(dir[t]) /\ (Upto = Len(dir[t]) \/ Upto = s + SubBatch)
  <2> DEFINE L == Len(dir[t])
  <2>1. L \in Nat /\ s \in Nat /\ s < L /\ Upto = IF s + SubBatch < L THEN s + SubBatch ELSE L
    BY <1>1, <1>2, <1>5, <1>7
  <2> HIDE DEF L
  <2>2. Upto \in Nat /\ s < Upto /\ Upto =< L /\ (Upto = L \/ Upto = s + SubBatch)
    BY <1>3, <2>1, StepTo
  <2> QED
    BY <2>2 DEF L
<1>9. /\ Len(Directory!Batch) = Upto - s /\ DOMAIN Directory!Batch = 1 .. Upto - s
      /\ \A m \in 1 .. Upto - s : Directory!Batch[m] = R[s + m]
  BY <1>1, <1>4, <1>6, <1>8
<1>10. ASSUME NEW m \in 1 .. Upto - s
       PROVE  s + m \in DOMAIN dir[t]
  <2> DEFINE L == Len(dir[t])
  <2>1. /\ L \in Nat /\ s \in Nat /\ Upto \in Nat /\ Upto =< L
        /\ DOMAIN dir[t] = 1 .. L
    BY <1>1, <1>2, <1>8
  <2> HIDE DEF L
  <2>2. s + m \in 1 .. L
    BY <2>1
  <2> QED
    BY <2>1, <2>2
<1> QED
  BY <1>3, <1>8, <1>9, <1>10 DEF t, R, s

(* The ids of a statement, and what it leaves of the rows.                 *)
BatchIds == {Directory!Batch[m].id : m \in DOMAIN Directory!Batch}

(* After a statement, a row of its ids is what a record and the row of     *)
(* before ask for, and every other row is as it was.                       *)
LEMMA AfterIs ==
  ASSUME DirectoryTypes, Directory!Running,
         command.sent < Len(dir[Directory!Table]),
         ~Directory!NullIn(Directory!Table, Directory!Batch)
  PROVE  LET t == Directory!Table
             A == Directory!After(t, Directory!Batch)
             old == Directory!Seen(t)
         IN /\ DOMAIN A = BatchIds \cup DOMAIN old
            /\ \A i \in DOMAIN old \ BatchIds : A[i] = old[i]
            /\ \A i \in BatchIds : RowIsOf(t, A[i]) /\ AsDue(t, i, A[i], old)
<1> DEFINE t == Directory!Table
           b == Directory!Batch
           old == Directory!Seen(t)
           At(i) == b[CHOOSE m \in DOMAIN b : b[m].id = i]
           Row(i) == IF i \in DOMAIN old THEN Directory!Updated(t, old[i], At(i))
                     ELSE Directory!Inserted(t, At(i))
           f == [i \in BatchIds |-> Row(i)]
           A == Directory!After(t, b)
<1>1. A = Directory!Over(f, old)
  BY DEF Directory!After, BatchIds
<1>2. DOMAIN f = BatchIds /\ \A i \in BatchIds : f[i] = Row(i)
  OBVIOUS
<1>3. t \in DOMAIN dir /\ t \in Directory!Tables /\ dir \in Directories
  BY TableIs, DirectoryFacts DEF DirectoryTypes, TablesTyped, CommandTyped
<1>4. \A m \in DOMAIN b :
        command.sent + m \in DOMAIN dir[t] /\ b[m] = Directory!Records(t)[command.sent + m]
  BY BatchIs
<1>5. \A m \in DOMAIN b : Complete(t, command.sent + m)
  <2> SUFFICES ASSUME NEW m \in DOMAIN b, NEW c \in Directory!Required \cap Directory!AllKeys(t)
               PROVE  Directory!Normalized(t, b[m])[c] # Directory!Null
    BY <1>4 DEF Complete
  <2> QED
    BY DEF Directory!NullIn
<1>6. \A i \in DOMAIN old : RowIsOf(t, old[i])
  <2>1. \A i \in DOMAIN written : RowIsOf(t, written[i])
    BY DEF DirectoryTypes, WrittenTyped
  <2>2. \A i \in DOMAIN table[t] : RowIsOf(t, table[t][i])
    BY <1>3 DEF DirectoryTypes, TablesTyped
  <2>3. \A i \in DOMAIN old : i \in DOMAIN written \cup DOMAIN table[t]
          /\ old[i] = IF i \in DOMAIN written THEN written[i] ELSE table[t][i]
    BY DEF Directory!Seen, Directory!Over
  <2> HIDE DEF old, t
  <2> QED
    BY <2>1, <2>2, <2>3
<1> HIDE DEF f
<1>7. /\ DOMAIN A = BatchIds \cup DOMAIN old
      /\ \A i \in DOMAIN old \ BatchIds : A[i] = old[i]
      /\ \A i \in BatchIds : A[i] = Row(i)
  BY <1>1, <1>2 DEF Directory!Over
<1>8. ASSUME NEW i \in BatchIds
      PROVE  RowIsOf(t, A[i]) /\ AsDue(t, i, A[i], old)
  <2>1. PICK m \in DOMAIN b : At(i) = b[m] /\ b[m].id = i
    BY <1>8 DEF BatchIds
  <2> DEFINE n == command.sent + m
             r == Directory!Records(t)[n]
  <2>2. n \in DOMAIN dir[t] /\ At(i) = r /\ Complete(t, n)
    BY <1>4, <1>5, <2>1
  <2>3. dir[t][n].id = i /\ n \in Directory!RecordsOf(t, i)
    BY <1>3, <1>4, <2>1, <2>2, RecordsAre DEF Directory!RecordsOf
  <2>4. ASSUME NEW k \in DOMAIN dir[t], Directory!RecordsOf(t, i) = {k}
        PROVE  k = n
    BY <2>3, <2>4
  <2>5. CASE i \in DOMAIN old
    <3> DEFINE row == Directory!Updated(t, old[i], r)
    <3>1. A[i] = row
      BY <1>7, <1>8, <2>2, <2>5
    <3>2. DOMAIN old[i] = Directory!Columns[t] /\ (t = "candidacies" => Tied(old[i]))
      BY <1>6, <2>5 DEF RowIsOf
    <3> HIDE DEF t, old, n, A, At, b
    <3>3. /\ DOMAIN row = Directory!Columns[t] /\ (t = "candidacies" => Tied(row))
          /\ \A j : Directory!RecordsOf(t, j) = {n} =>
               \A c \in Directory!Columns[t] : row[c] \in Directory!Due(t, j, c, old[i][c])
      BY <1>3, <2>2, <3>2, RowUpdated
    <3> HIDE DEF row
    <3>4. \A c : Directory!Held(old, i, c) = old[i][c]
      BY <2>5 DEF Directory!Held
    <3> QED
      BY <2>4, <3>1, <3>3, <3>4 DEF RowIsOf, AsDue
  <2>6. CASE i \notin DOMAIN old
    <3> DEFINE row == Directory!Inserted(t, r)
    <3>1. A[i] = row
      BY <1>7, <1>8, <2>2, <2>6
    <3> HIDE DEF t, old, n, A, At, b
    <3>3. /\ DOMAIN row = Directory!Columns[t] /\ (t = "candidacies" => Tied(row))
          /\ \A j : Directory!RecordsOf(t, j) = {n} =>
               \A c \in Directory!Columns[t] : row[c] \in Directory!Due(t, j, c, Directory!Null)
      BY <1>3, <2>2, RowInserted
    <3> HIDE DEF row
    <3>4. \A c : Directory!Held(old, i, c) = Directory!Null
      BY <2>6 DEF Directory!Held
    <3> QED
      BY <2>4, <3>1, <3>3, <3>4 DEF RowIsOf, AsDue
  <2> QED
    BY <2>5, <2>6
<1> QED
  BY <1>7, <1>8 DEF A, t, b, old

-----------------------------------------------------------------------------
(* The instance's cardinality is that of the library, and what a dry run   *)
(* counts.                                                                 *)
LEMMA DirectoryCards == \A S : Directory!Cardinality(S) = Cardinality(S)
BY DEF Directory!Cardinality, Cardinality, Directory!IsFiniteSet, IsFiniteSet

There(t) == {n \in DOMAIN Directory!Records(t) : Directory!Records(t)[n].id \in DOMAIN table[t]}
(* A dry run counts the records whose id is there, and the others.         *)
LEMMA CountsAre ==
  /\ \A t : Directory!Counts(t) = <<Len(Directory!Records(t)) - Cardinality(There(t)), Cardinality(There(t))>>
  /\ \A t : Directory!Counts(t)' = <<Len(Directory!Records(t)') - Cardinality(There(t)'), Cardinality(There(t)')>>
BY DirectoryCards DEF Directory!Counts, There

(* What depends on the files alone stays, for they do.                     *)
LEMMA SameFiles ==
  ASSUME dir' = dir
  PROVE  /\ \A t : Directory!Records(t)' = Directory!Records(t)
         /\ \A t, i, row, T : AsDue(t, i, row, T)' <=> AsDue(t, i, row, T)
         /\ \A t, T, B : TableFits(t, T, B)' <=> TableFits(t, T, B)
         /\ \A t, T, B : FileLoaded(t, T, B)' <=> FileLoaded(t, T, B)
<1>1. \A t : Directory!Records(t)' = Directory!Records(t)
  BY DEF Directory!Records
<1>2. \A t, i : Directory!RecordsOf(t, i)' = Directory!RecordsOf(t, i)
  BY DEF Directory!RecordsOf
<1>3. \A t, i, c : Directory!Asked(t, i, c)' = Directory!Asked(t, i, c)
  <2> SUFFICES ASSUME NEW t, NEW i, NEW c
               PROVE  Directory!Asked(t, i, c)' = Directory!Asked(t, i, c)
    OBVIOUS
  <2> DEFINE m == CHOOSE n \in Directory!RecordsOf(t, i) : \A k \in Directory!RecordsOf(t, i) : k <= n
  <2>1. m' = m
    BY <1>2
  <2>2. Directory!Asked(t, i, c) = IF c \in DOMAIN dir[t][m] THEN dir[t][m][c] ELSE Directory!Null
    BY DEF Directory!Asked
  <2>3. Directory!Asked(t, i, c)' = IF c \in DOMAIN dir'[t][m'] THEN dir'[t][m'][c] ELSE Directory!Null
    BY DEF Directory!Asked
  <2> HIDE DEF m
  <2> QED
    BY <2>1, <2>2, <2>3
<1>4. \A t, c : Directory!Anyone(t, c)' <=> Directory!Anyone(t, c)
  BY DEF Directory!Anyone
<1>5. \A t, i, c, h : Directory!Due(t, i, c, h)' = Directory!Due(t, i, c, h)
  BY <1>3, <1>4 DEF Directory!Due
<1>6. \A t, i, row, T : AsDue(t, i, row, T)' <=> AsDue(t, i, row, T)
  BY <1>2, <1>5 DEF AsDue
<1>7. \A t, T, B : TableFits(t, T, B)' <=> TableFits(t, T, B)
  BY <1>2, <1>5 DEF TableFits
<1>8. \A t, T, B : FileLoaded(t, T, B)' <=> FileLoaded(t, T, B)
  BY <1>6 DEF FileLoaded
<1> QED
  BY <1>1, <1>6, <1>7, <1>8

(* Before the first statement of a file, or when no command runs.          *)
LEMMA AtStart ==
  ASSUME dir \in Directories, dir' = dir, command.files' \subseteq DOMAIN dir,
         command.sent' = 0, command.counts' = <<0, 0>>, DOMAIN written' = {}
  PROVE  WrittenTyped' /\ WrittenFits' /\ CountsAsTold'
<1>1. SentIds' = {}
  BY DEF SentIds
<1>2. Directory!Running' => command.sent' =< Len(dir'[Directory!Table'])
  BY NextTableIs, DirectoryFacts
<1>3. WrittenTyped'
  BY <1>1, <1>2 DEF WrittenTyped
<1>4. WrittenFits'
  BY DEF WrittenFits
<1>5. CountsAsTold'
  BY DEF CountsAsTold
<1> QED
  BY <1>3, <1>4, <1>5

(* While the tables rest.                                                  *)
LEMMA Unmoved ==
  ASSUME DirectoryInv, dir' = dir, table' = table, base' = base, DOMAIN told' = DOMAIN told
  PROVE  /\ TablesTyped' /\ TablesFit' /\ Directory!WholeFiles'
         /\ \A t : Directory!Counts(t)' = Directory!Counts(t)
         /\ \A t : FileLoaded(t, table[t], base[t]) => FileLoaded(t, table[t], base[t])'
<1>1. TablesTyped'
  BY DEF DirectoryInv, DirectoryTypes, TablesTyped
<1>2. TablesFit'
  BY SameFiles DEF DirectoryInv, TablesFit
<1>3. Directory!WholeFiles'
  BY DEF DirectoryInv, Directory!WholeFiles
<1>4. \A t : Directory!Counts(t)' = Directory!Counts(t)
  <2>1. \A t : There(t)' = There(t)
    BY SameFiles DEF There
  <2>2. \A t : Directory!Counts(t)' = <<Len(Directory!Records(t)') - Cardinality(There(t)'),
                                         Cardinality(There(t)')>>
    BY CountsAre
  <2> QED
    BY <2>1, <2>2, SameFiles, CountsAre
<1>5. \A t : FileLoaded(t, table[t], base[t]) => FileLoaded(t, table[t], base[t])'
  BY SameFiles
<1> QED
  BY <1>1, <1>2, <1>3, <1>4, <1>5

(* A command begins.                                                       *)
LEMMA CommandBegins ==
  ASSUME DirectoryInv,
         \E dry \in BOOLEAN : \/ Directory!ImportElectionData(dry)
                              \/ \E t \in Directory!Tables : Directory!ImportFile(t, dry)
  PROVE  DirectoryInv'
<1>1. /\ ~Directory!Running /\ DOMAIN written = {}
      /\ UNCHANGED <<dir, table, written, told, base>>
  BY DEF DirectoryInv, DirectoryTypes, WrittenTyped, Directory!ImportElectionData, Directory!ImportFile
<1>2. /\ DOMAIN command' = CommandFields /\ command'.files \subseteq DOMAIN dir
      /\ command'.sent = 0 /\ command'.counts = <<0, 0>>
      /\ command'.dry \in BOOLEAN /\ command'.whole \in BOOLEAN /\ command'.loaded = FALSE
      /\ command'.dry => ~command'.whole
      /\ command'.whole => command'.files = DOMAIN dir
  <2>1. DOMAIN Directory!NoRun = CommandFields
    BY DEF Directory!NoRun, CommandFields
  <2>2. /\ Directory!NoRun.sent = 0 /\ Directory!NoRun.counts = <<0, 0>>
        /\ Directory!NoRun.whole = FALSE /\ Directory!NoRun.loaded = FALSE
    BY DEF Directory!NoRun
  <2>3. PICK dry \in BOOLEAN : \/ Directory!ImportElectionData(dry)
                               \/ \E t \in Directory!Tables : Directory!ImportFile(t, dry)
    OBVIOUS
  <2>4. CASE Directory!ImportElectionData(dry)
    <3>1. command' = [Directory!NoRun EXCEPT !.files = DOMAIN dir, !.dry = dry, !.whole = ~dry,
                                             !.n = command.n + 1]
      BY <2>4 DEF Directory!ImportElectionData
    <3> QED
      BY <2>1, <2>2, <2>3, <3>1 DEF CommandFields
  <2>5. ASSUME NEW t \in Directory!Tables, Directory!ImportFile(t, dry)
        PROVE  <1>2!:
    <3>1. /\ command' = [Directory!NoRun EXCEPT !.files = {t}, !.dry = dry, !.n = command.n + 1]
          /\ t \in DOMAIN dir
      BY <2>5 DEF Directory!ImportFile
    <3> QED
      BY <2>1, <2>2, <2>3, <3>1 DEF CommandFields
  <2> QED
    BY <2>3, <2>4, <2>5
<1>3. dir \in Directories
  BY DEF DirectoryInv, DirectoryTypes, TablesTyped
<1>4. WrittenTyped' /\ WrittenFits' /\ CountsAsTold'
  BY <1>1, <1>2, <1>3, AtStart
<1>5. /\ TablesTyped' /\ TablesFit' /\ Directory!WholeFiles'
      /\ \A t : Directory!Counts(t)' = Directory!Counts(t)
  BY <1>1, Unmoved
<1>6. CommandTyped'
  <2>1. DOMAIN command' = CommandFields /\ command.files' \subseteq DOMAIN dir' /\ command.sent' \in Nat
    BY <1>1, <1>2
  <2>2. /\ command.dry' \in BOOLEAN /\ command.whole' \in BOOLEAN /\ command.loaded' \in BOOLEAN
        /\ command.dry' => ~command.whole'
        /\ ~command.loaded' /\ command.sent' = 0
    BY <1>2
  <2>3. ~Directory!Running' \/ command.dry' => command.sent' = 0
    BY <2>2
  <2>4. command.loaded' => command.whole' /\ ~Directory!Running'
    BY <2>2
  <2> QED
    BY <2>1, <2>2, <2>3, <2>4, Zenon DEF CommandTyped
<1>7. Progressed'
  BY <1>1, <1>2 DEF Progressed
<1>8. ToldRight'
  BY <1>1, <1>5 DEF DirectoryInv, ToldRight, Directory!Unsaid
<1> QED
  BY <1>4, <1>5, <1>6, <1>7, <1>8 DEF DirectoryInv, DirectoryTypes

(* The command ends where it is: nothing of its file stays.                *)
LEMMA CommandFails ==
  ASSUME DirectoryInv, Directory!Fail
  PROVE  DirectoryInv'
<1>1. /\ UNCHANGED <<dir, table, told, base>> /\ Directory!Running
      /\ command' = [command EXCEPT !.files = {}, !.sent = 0, !.counts = <<0, 0>>]
      /\ written' = Directory!Nothing
  BY DEF Directory!Fail, Directory!Stop
<1>2. /\ DOMAIN command = CommandFields /\ dir \in Directories
      /\ command.dry \in BOOLEAN /\ command.whole \in BOOLEAN /\ command.loaded \in BOOLEAN
      /\ command.dry => ~command.whole
      /\ ~command.loaded
  BY <1>1 DEF DirectoryInv, DirectoryTypes, TablesTyped, CommandTyped
<1>3. /\ DOMAIN command' = CommandFields /\ command'.files = {} /\ command'.sent = 0
      /\ command'.counts = <<0, 0>> /\ command'.dry = command.dry
      /\ command'.whole = command.whole /\ command'.loaded = command.loaded
  BY <1>1, <1>2 DEF CommandFields
<1>4. DOMAIN written' = {}
  BY <1>1 DEF Directory!Nothing
<1>5. WrittenTyped' /\ WrittenFits' /\ CountsAsTold'
  BY <1>1, <1>2, <1>3, <1>4, AtStart
<1>6. /\ TablesTyped' /\ TablesFit' /\ Directory!WholeFiles'
      /\ \A t : Directory!Counts(t)' = Directory!Counts(t)
  BY <1>1, Unmoved
<1>7. ~Directory!Running'
  BY <1>3 DEF Directory!Running
<1>8. CommandTyped'
  BY <1>2, <1>3 DEF CommandTyped
<1>9. Progressed'
  BY <1>2, <1>3, <1>7 DEF Progressed
<1>10. ToldRight'
  BY <1>1, <1>6 DEF DirectoryInv, ToldRight, Directory!Unsaid
<1> QED
  BY <1>5, <1>6, <1>8, <1>9, <1>10 DEF DirectoryInv, DirectoryTypes

(* The next file, or the end of the command.                               *)
LEMMA CommandAdvances ==
  ASSUME DirectoryInv, Directory!Running, Directory!Advance, dir' = dir, DOMAIN written' = {}
  PROVE  /\ CommandTyped' /\ WrittenTyped' /\ WrittenFits' /\ CountsAsTold'
         /\ command.files' = command.files \ {Directory!Table}
         /\ command.whole' = command.whole
<1> DEFINE t == Directory!Table
           l == command.whole /\ command.files = {t}
<1>1. command' = [command EXCEPT !.files = @ \ {t}, !.sent = 0, !.counts = <<0, 0>>, !.loaded = l]
  BY DEF Directory!Advance
<1>2. /\ DOMAIN command = CommandFields /\ dir \in Directories /\ command.files \subseteq DOMAIN dir
      /\ command.dry \in BOOLEAN /\ command.whole \in BOOLEAN
      /\ command.dry => ~command.whole
  BY DEF DirectoryInv, DirectoryTypes, TablesTyped, CommandTyped
<1>3. l \in BOOLEAN /\ (l => command.whole /\ command.files = {t})
  BY <1>2
<1> HIDE DEF t, l
<1>4. /\ DOMAIN command' = CommandFields /\ command'.files = command.files \ {t} /\ command'.sent = 0
      /\ command'.counts = <<0, 0>> /\ command'.dry = command.dry
      /\ command'.whole = command.whole /\ command'.loaded = l
  BY <1>1, <1>2 DEF CommandFields
<1>5. command.files' \subseteq DOMAIN dir
  BY <1>2, <1>4
<1>6. WrittenTyped' /\ WrittenFits' /\ CountsAsTold'
  BY <1>2, <1>4, <1>5, AtStart
<1>7. command.loaded' => command.whole' /\ ~Directory!Running'
  BY <1>3, <1>4 DEF Directory!Running
<1>8. CommandTyped'
  BY <1>2, <1>3, <1>4, <1>5, <1>7 DEF CommandTyped
<1> QED
  BY <1>4, <1>6, <1>8 DEF t

(* A dry run counts.                                                       *)
LEMMA DryRunCounts ==
  ASSUME DirectoryInv, Directory!DryRun
  PROVE  DirectoryInv'
<1> DEFINE t == Directory!Table
<1>1. /\ Directory!Running /\ command.dry /\ Directory!Advance /\ Directory!Records(t) # <<>>
      /\ UNCHANGED <<dir, table, written, base>>
      /\ told' = [told EXCEPT ![t] = Directory!Counts(t)]
  BY DEF Directory!DryRun
<1>2. t \in DOMAIN dir /\ dir \in Directories /\ t \in DOMAIN told
  BY <1>1, TableIs, DirectoryFacts DEF DirectoryInv, DirectoryTypes, TablesTyped, CommandTyped
<1>3. command.sent = 0 /\ command.whole = FALSE
  BY <1>1 DEF DirectoryInv, DirectoryTypes, CommandTyped
<1>4. DOMAIN written' = {}
  <2>1. SentIds = {}
    BY <1>3 DEF SentIds
  <2> QED
    BY <1>1, <2>1 DEF DirectoryInv, DirectoryTypes, WrittenTyped
<1>5. CommandTyped' /\ WrittenTyped' /\ WrittenFits' /\ CountsAsTold' /\ command.whole' = FALSE
  BY <1>1, <1>3, <1>4, CommandAdvances
<1>6. DOMAIN told' = DOMAIN told
  BY <1>1
<1>7. /\ TablesTyped' /\ TablesFit' /\ Directory!WholeFiles'
      /\ \A u : Directory!Counts(u)' = Directory!Counts(u)
  BY <1>1, <1>6, Unmoved
<1>8. Len(dir[t]) > 0
  <2>1. Directory!Records(t) \in Seq({Directory!Prepare(t, dir[t][n]) : n \in DOMAIN dir[t]})
        /\ Len(Directory!Records(t)) = Len(dir[t])
    BY <1>2, RecordsAre
  <2>2. Len(dir[t]) \in Nat
    BY <1>2, DirectoryFacts
  <2>3. Len(dir[t]) # 0
    BY <1>1, <2>1, EmptySeq
  <2> QED
    BY <2>2, <2>3
<1> HIDE DEF t
<1>9. ToldRight'
  <2> SUFFICES ASSUME NEW u \in DOMAIN dir, told'[u] # Directory!Unsaid
               PROVE  told'[u] = Directory!Counts(u) /\ Len(dir[u]) > 0
    BY <1>1, <1>7 DEF ToldRight, Directory!Unsaid
  <2>1. CASE u = t
    BY <1>1, <1>2, <1>8, <2>1
  <2>2. CASE u # t
    BY <1>1, <2>2 DEF DirectoryInv, ToldRight
  <2> QED
    BY <2>1, <2>2
<1>10. Progressed'
  BY <1>5 DEF Progressed
<1> QED
  BY <1>5, <1>7, <1>9, <1>10 DEF DirectoryInv, DirectoryTypes

(* A file is committed: its rows are what its records ask for.             *)
LEMMA FileCommitted ==
  ASSUME DirectoryInv, Directory!CommitFile
  PROVE  DirectoryInv'
<1> DEFINE t == Directory!Table
           T == Directory!Over(written, table[t])
           asked == {dir[t][n].id : n \in DOMAIN dir[t]}
<1>1. /\ Directory!Running /\ Directory!Advance /\ UNCHANGED <<dir, base>>
      /\ command.sent = Len(Directory!Records(t))
      /\ table' = [table EXCEPT ![t] = T]
      /\ written' = Directory!Nothing /\ told' = [u \in Directory!Tables |-> Directory!Unsaid]
  BY DEF Directory!CommitFile
<1>2. /\ t \in DOMAIN dir /\ t \in command.files /\ dir \in Directories /\ t \in Directory!Tables
      /\ DOMAIN dir \subseteq Directory!Tables
      /\ DOMAIN table = Directory!Tables /\ DOMAIN base = Directory!Tables
  BY <1>1, TableIs, DirectoryFacts DEF DirectoryInv, DirectoryTypes, TablesTyped, CommandTyped
<1>3. DOMAIN written = asked
  <2>1. command.sent = Len(dir[t]) /\ DOMAIN dir[t] = 1 .. Len(dir[t])
    BY <1>1, <1>2, RecordsAre, DirectoryFacts
  <2>2. DOMAIN written = SentIds
    BY <1>1 DEF DirectoryInv, DirectoryTypes, WrittenTyped
  <2> QED
    BY <2>1, <2>2 DEF SentIds
<1>4. /\ DOMAIN T = DOMAIN written \cup DOMAIN table[t]
      /\ \A i \in DOMAIN written : T[i] = written[i]
      /\ \A i \in DOMAIN table[t] \ DOMAIN written : T[i] = table[t][i]
  BY DEF Directory!Over
<1>5. /\ TableFits(t, table[t], base[t])
      /\ \A i \in DOMAIN written : AsDue(t, i, written[i], table[t]) /\ RowIsOf(t, written[i])
  BY <1>1, <1>2 DEF DirectoryInv, TablesFit, WrittenFits, DirectoryTypes, WrittenTyped
<1>6. \A i \in DOMAIN table[t] : RowIsOf(t, table[t][i])
  BY <1>2 DEF DirectoryInv, DirectoryTypes, TablesTyped
<1>7. table'[t] = T /\ \A u \in Directory!Tables \ {t} : table'[u] = table[u]
  BY <1>1, <1>2
<1>8. DOMAIN written' = {} /\ DOMAIN table' = Directory!Tables
  BY <1>1, <1>2 DEF Directory!Nothing
<1>9. /\ CommandTyped' /\ WrittenTyped' /\ WrittenFits' /\ CountsAsTold'
      /\ command.files' = command.files \ {t} /\ command.whole' = command.whole
  BY <1>1, <1>8, CommandAdvances
<1> HIDE DEF t, T, asked
<1>10. TablesTyped'
  <2>1. \A u \in Directory!Tables : \A i \in DOMAIN table'[u] : RowIsOf(u, table'[u][i])
    <3>1. \A i \in DOMAIN T : RowIsOf(t, T[i])
      BY <1>4, <1>5, <1>6
    <3> QED
      BY <1>7, <3>1 DEF DirectoryInv, DirectoryTypes, TablesTyped
  <2>2. DOMAIN told' = Directory!Tables
    BY <1>1
  <2>3. \A u, row : RowIsOf(u, row)' <=> RowIsOf(u, row)
    BY DEF RowIsOf, Tied, Directory!Columns, Directory!Null
  <2>4. Directory!Tables' = Directory!Tables
    BY DEF Directory!Tables, Directory!Pipeline
  <2> QED
    BY <1>1, <1>2, <1>8, <2>1, <2>2, <2>3, <2>4 DEF TablesTyped
<1>11. ASSUME NEW i \in DOMAIN written
       PROVE  AsDue(t, i, written[i], base[t])
  <2> SUFFICES ASSUME NEW n \in DOMAIN dir[t], Directory!RecordsOf(t, i) = {n},
                      NEW c \in Directory!Columns[t]
               PROVE  written[i][c] \in Directory!Due(t, i, c, Directory!Held(base[t], i, c))
    BY DEF AsDue
  <2> DEFINE g == Directory!Held(table[t], i, c)
             h == Directory!Held(base[t], i, c)
             v == written[i][c]
  <2>1. v \in Directory!Due(t, i, c, g)
    BY <1>5, <1>11 DEF AsDue
  <2>2. g \in Directory!Due(t, i, c, h) \cup {h}
    <3>1. CASE i \in DOMAIN table[t]
      <4>1. g = table[t][i][c]
        BY <3>1 DEF Directory!Held
      <4>2. g \in Directory!Due(t, i, c, h) \/ (i \in DOMAIN base[t] /\ g = base[t][i][c])
        BY <1>5, <3>1, <4>1 DEF TableFits
      <4> QED
        BY <4>2 DEF Directory!Held
    <3>2. CASE i \notin DOMAIN table[t]
      BY <1>5, <3>2 DEF TableFits, Directory!Held
    <3> QED
      BY <3>1, <3>2
  <2> HIDE DEF g, h, v
  <2>3. v \in Directory!Due(t, i, c, h)
    BY <2>1, <2>2, DueAgain
  <2> QED
    BY <2>3 DEF v, h
<1>12. FileLoaded(t, T, base[t])
  <2> SUFFICES ASSUME NEW n \in DOMAIN dir[t], NEW i, i = dir[t][n].id
               PROVE  i \in DOMAIN T /\ AsDue(t, i, T[i], base[t])
    BY DEF FileLoaded
  <2>1. i \in DOMAIN written
    BY <1>3 DEF asked
  <2> QED
    BY <1>4, <1>11, <2>1
<1>13. TableFits(t, T, base[t])
  <2>1. DOMAIN base[t] \subseteq DOMAIN T
    BY <1>4, <1>5 DEF TableFits
  <2>2. ASSUME NEW i \in DOMAIN T, Directory!RecordsOf(t, i) = {}
        PROVE  i \in DOMAIN base[t]
    <3>1. i \notin DOMAIN written
      BY <1>3, <2>2 DEF asked, Directory!RecordsOf
    <3> QED
      BY <1>4, <1>5, <2>2, <3>1 DEF TableFits
  <2>3. ASSUME NEW i \in DOMAIN T, NEW n \in DOMAIN dir[t], Directory!RecordsOf(t, i) = {n}
        PROVE  \A c \in Directory!Columns[t] : T[i][c] \in Directory!Due(t, i, c, Directory!Held(base[t], i, c))
    <3>1. i \in DOMAIN written
      BY <1>3, <2>3 DEF asked, Directory!RecordsOf
    <3>2. T[i] = written[i] /\ AsDue(t, i, T[i], base[t])
      BY <1>4, <1>11, <3>1
    <3> QED
      BY <2>3, <3>2 DEF AsDue
  <2> QED
    BY <2>1, <2>2, <2>3 DEF TableFits
<1>14. TablesFit'
  <2>1. \A u \in DOMAIN dir : TableFits(u, table'[u], base'[u])
    BY <1>1, <1>2, <1>7, <1>13 DEF DirectoryInv, TablesFit
  <2> QED
    BY <1>1, <2>1, SameFiles DEF TablesFit
<1>15. Progressed'
  <2> SUFFICES ASSUME command.whole'
               PROVE  \A u \in DOMAIN dir \ command.files' : FileLoaded(u, table'[u], base'[u])
    BY <1>1, SameFiles DEF Progressed
  <2>1. \A u \in DOMAIN dir \ command.files : FileLoaded(u, table[u], base[u])
    BY <1>1, <1>9 DEF DirectoryInv, Progressed
  <2> QED
    BY <1>1, <1>2, <1>7, <1>9, <1>12, <2>1
<1>16. ToldRight'
  BY <1>1, <1>2 DEF ToldRight, Directory!Unsaid
<1>17. Directory!WholeFiles'
  <2>1. \A u \in DOMAIN dir : {dir[u][n].id : n \in DOMAIN dir[u]} \subseteq DOMAIN table'[u]
                              \/ DOMAIN table'[u] = DOMAIN base[u]
    <3>1. asked \subseteq DOMAIN T
      BY <1>3, <1>4
    <3> QED
      BY <1>2, <1>7, <3>1 DEF DirectoryInv, Directory!WholeFiles, asked
  <2> QED
    BY <1>1, <2>1 DEF Directory!WholeFiles
<1> QED
  BY <1>9, <1>10, <1>14, <1>15, <1>16, <1>17 DEF DirectoryInv, DirectoryTypes

(* An edit beside a command leaves alone the rows the command has written. *)
Beside ==
  Directory!Running => \A i \in DOMAIN written :
    LET T == table[Directory!Table]
        N == table'[Directory!Table]
    IN /\ i \in DOMAIN N <=> i \in DOMAIN T
       /\ i \in DOMAIN T => N[i] = T[i]

(* An edit that spares the command's rows keeps the invariant.             *)
LEMMA EditKeeps ==
  ASSUME DirectoryInv, Directory!Edited, Beside, DOMAIN table' = Directory!Tables,
         \A t \in Directory!Tables : \A i \in DOMAIN table'[t] : RowIsOf(t, table'[t][i])
  PROVE  DirectoryInv'
<1>1. /\ UNCHANGED <<dir, written>> /\ base' = table'
      /\ command' = [command EXCEPT !.whole = FALSE, !.loaded = FALSE]
      /\ told' = [t \in Directory!Tables |-> Directory!Unsaid]
  BY DEF Directory!Edited, Directory!Changed
<1>2. /\ DOMAIN command' = CommandFields /\ command'.files = command.files
      /\ command'.sent = command.sent /\ command'.counts = command.counts
      /\ command'.dry = command.dry /\ command'.whole = FALSE /\ command'.loaded = FALSE
  BY <1>1 DEF DirectoryInv, DirectoryTypes, CommandTyped, CommandFields
<1>3. /\ Directory!Running' <=> Directory!Running
      /\ Directory!Table' = Directory!Table
      /\ SentIds' = SentIds
  <2>1. Directory!Running' <=> Directory!Running
    BY <1>2 DEF Directory!Running
  <2>2. Directory!Table' = Directory!Table
    BY <1>2 DEF Directory!Table
  <2>3. SentIds' = SentIds
    BY <1>1, <1>2, <2>2 DEF SentIds
  <2> QED
    BY <2>1, <2>2, <2>3
<1>4. /\ \A u, row : RowIsOf(u, row)' <=> RowIsOf(u, row)
      /\ Directory!Tables' = Directory!Tables /\ Directory!Unsaid' = Directory!Unsaid
  BY DEF RowIsOf, Tied, Directory!Columns, Directory!Null, Directory!Tables, Directory!Pipeline,
         Directory!Unsaid
<1>5. TablesTyped'
  BY <1>1, <1>4 DEF DirectoryInv, DirectoryTypes, TablesTyped
<1>6. CommandTyped'
  <2>1. /\ command.files' \subseteq DOMAIN dir' /\ command.sent' \in Nat
        /\ command.dry' \in BOOLEAN
        /\ ~Directory!Running' \/ command.dry' => command.sent' = 0
    BY <1>1, <1>2, <1>3 DEF DirectoryInv, DirectoryTypes, CommandTyped
  <2>2. command.whole' \in BOOLEAN /\ command.loaded' \in BOOLEAN /\ ~command.whole' /\ ~command.loaded'
    BY <1>2
  <2> QED
    BY <1>2, <2>1, <2>2 DEF CommandTyped
<1>7. WrittenTyped'
  BY <1>1, <1>2, <1>3, <1>4 DEF DirectoryInv, DirectoryTypes, WrittenTyped
<1>8. TablesFit'
  <2>1. \A t \in DOMAIN dir : TableFits(t, table'[t], table'[t])
    BY DEF TableFits
  <2> QED
    BY <1>1, <2>1, SameFiles DEF TablesFit
<1>9. WrittenFits'
  <2> SUFFICES ASSUME Directory!Running, NEW i \in DOMAIN written
               PROVE  AsDue(Directory!Table, i, written[i], table'[Directory!Table])
    BY <1>1, <1>3, SameFiles DEF WrittenFits
  <2> DEFINE t == Directory!Table
  <2>1. AsDue(t, i, written[i], table[t])
    BY DEF DirectoryInv, WrittenFits
  <2>2. \A c : Directory!Held(table'[t], i, c) = Directory!Held(table[t], i, c)
    BY DEF Beside, Directory!Held
  <2> HIDE DEF t
  <2>3. AsDue(t, i, written[i], table'[t])
    BY <2>1, <2>2 DEF AsDue
  <2> QED
    BY <2>3 DEF t
<1>10. Progressed'
  BY <1>2 DEF Progressed
<1>11. ToldRight'
  <2>1. DOMAIN dir \subseteq Directory!Tables
    BY DirectoryFacts DEF DirectoryInv, DirectoryTypes, TablesTyped
  <2> QED
    BY <1>1, <2>1 DEF ToldRight, Directory!Unsaid
<1>12. CountsAsTold'
  <2>1. Directory!Running => Directory!Table \in Directory!Tables
    BY TableIs, DirectoryFacts DEF DirectoryInv, DirectoryTypes, TablesTyped, CommandTyped
  <2>2. Directory!Running => told'[Directory!Table] = Directory!Unsaid
    BY <1>1, <2>1
  <2> QED
    BY <1>1, <1>2, <1>3, <1>4, <2>2 DEF DirectoryInv, CountsAsTold
<1>13. Directory!WholeFiles'
  BY <1>1 DEF Directory!WholeFiles
<1> QED
  BY <1>5, <1>6, <1>7, <1>8, <1>9, <1>10, <1>11, <1>12, <1>13 DEF DirectoryInv, DirectoryTypes

(* An admin edits a row.                                                   *)
LEMMA RowEdited ==
  ASSUME DirectoryInv, NEW t \in Directory!Tables, NEW i, NEW c, NEW v, Directory!EditRow(t, i, c, v)
  PROVE  DirectoryInv'
<1>1. /\ i \in DOMAIN table[t] /\ ~(Directory!Running /\ Directory!Table = t /\ i \in DOMAIN written)
      /\ c \in Directory!Columns[t] \ (Directory!Unique(t) \cup DOMAIN Directory!Refers(t))
      /\ table' = [table EXCEPT ![t][i][c] = v] /\ Directory!Edited
  BY DEF Directory!EditRow
<1>2. /\ DOMAIN table = Directory!Tables
      /\ \A u \in Directory!Tables : \A k \in DOMAIN table[u] : RowIsOf(u, table[u][k])
  BY DEF DirectoryInv, DirectoryTypes, TablesTyped
<1>3. /\ DOMAIN table' = Directory!Tables
      /\ \A u \in Directory!Tables \ {t} : table'[u] = table[u]
      /\ DOMAIN table'[t] = DOMAIN table[t]
      /\ \A k \in DOMAIN table[t] \ {i} : table'[t][k] = table[t][k]
      /\ table'[t][i] = [table[t][i] EXCEPT ![c] = v]
  BY <1>1, <1>2
<1>4. t = "candidacies" => c # "candidate" /\ c # "election"
  <2>1. Directory!Unique("candidacies") = {"candidate", "election"}
    BY DEF Directory!Unique
  <2> QED
    BY <1>1, <2>1
<1>5. RowIsOf(t, table'[t][i])
  <2>1. RowIsOf(t, table[t][i])
    BY <1>1, <1>2
  <2>2. DOMAIN table'[t][i] = Directory!Columns[t]
    BY <1>3, <2>1 DEF RowIsOf
  <2>3. \A x \in Directory!Columns[t] \ {c} : table'[t][i][x] = table[t][i][x]
    BY <1>3, <2>1 DEF RowIsOf
  <2>4. t = "candidacies" => Tied(table'[t][i])
    <3>1. t = "candidacies" => {"candidate", "election"} \subseteq Directory!Columns[t] \ {c}
      BY <1>4, ColumnsAre
    <3> QED
      BY <2>1, <2>3, <3>1 DEF RowIsOf, Tied
  <2> QED
    BY <2>2, <2>4 DEF RowIsOf
<1>6. \A u \in Directory!Tables : \A k \in DOMAIN table'[u] : RowIsOf(u, table'[u][k])
  BY <1>2, <1>3, <1>5
<1>7. Beside
  <2>1. Directory!Running => Directory!Table \in Directory!Tables
    BY TableIs, DirectoryFacts DEF DirectoryInv, DirectoryTypes, TablesTyped, CommandTyped
  <2> QED
    BY <1>1, <1>3, <2>1 DEF Beside
<1> QED
  BY <1>1, <1>3, <1>6, <1>7, EditKeeps

(* An election is added under an id of its own.                            *)
LEMMA ElectionInserted ==
  ASSUME DirectoryInv, NEW i, NEW name, Directory!AddElection(i, name)
  PROVE  DirectoryInv'
<1> DEFINE t == "elections"
           row == [c \in Directory!Columns[t] |-> IF c = "name" THEN name ELSE Directory!Default(c)]
           f == [x \in {i} |-> row]
           T == Directory!Over(f, table[t])
<1>1. i \notin DOMAIN Directory!Elections /\ table' = [table EXCEPT ![t] = T] /\ Directory!Edited
  BY DEF Directory!AddElection
<1>2. /\ i \notin DOMAIN table[t]
      /\ Directory!Running /\ Directory!Table = t => i \notin DOMAIN written
  BY <1>1 DEF Directory!Elections, Directory!Seen, Directory!Over
<1>3. /\ DOMAIN table = Directory!Tables /\ t \in Directory!Tables
      /\ \A u \in Directory!Tables : \A k \in DOMAIN table[u] : RowIsOf(u, table[u][k])
  BY DEF DirectoryInv, DirectoryTypes, TablesTyped, Directory!Tables, Directory!Pipeline
<1>4. RowIsOf(t, row)
  BY DEF RowIsOf
<1>5. DOMAIN f = {i} /\ f[i] = row
  OBVIOUS
<1> HIDE DEF row, f
<1>6. /\ DOMAIN T = {i} \cup DOMAIN table[t] /\ T[i] = row
      /\ \A k \in DOMAIN table[t] : T[k] = table[t][k]
  BY <1>2, <1>5 DEF Directory!Over
<1> HIDE DEF T
<1>7. /\ DOMAIN table' = Directory!Tables /\ table'[t] = T
      /\ \A u \in Directory!Tables \ {t} : table'[u] = table[u]
  BY <1>1, <1>3
<1>8. \A u \in Directory!Tables : \A k \in DOMAIN table'[u] : RowIsOf(u, table'[u][k])
  <2>1. \A k \in DOMAIN T : RowIsOf(t, T[k])
    BY <1>3, <1>4, <1>6
  <2> QED
    BY <1>3, <1>7, <2>1
<1>9. Beside
  <2>1. Directory!Running => Directory!Table \in Directory!Tables
    BY TableIs, DirectoryFacts DEF DirectoryInv, DirectoryTypes, TablesTyped, CommandTyped
  <2>2. CASE Directory!Running /\ Directory!Table # t
    BY <1>7, <2>1, <2>2 DEF Beside
  <2>3. CASE Directory!Running /\ Directory!Table = t
    BY <1>2, <1>6, <1>7, <2>3 DEF Beside
  <2> QED
    BY <2>2, <2>3 DEF Beside
<1> QED
  BY <1>1, <1>7, <1>8, <1>9, EditKeeps

(* The directory is converted anew: nothing runs, and the rows stay.       *)
LEMMA Converted ==
  ASSUME DirectoryInv, NEW d \in Directories, Directory!Convert(d)
  PROVE  DirectoryInv'
<1>1. /\ ~Directory!Running /\ dir' = d /\ UNCHANGED <<table, written>> /\ base' = table
      /\ command' = [command EXCEPT !.whole = FALSE, !.loaded = FALSE]
      /\ told' = [t \in Directory!Tables |-> Directory!Unsaid]
  BY DEF Directory!Convert, Directory!Changed
<1>2. /\ DOMAIN command' = CommandFields /\ command'.files = command.files
      /\ command'.sent = command.sent /\ command'.counts = command.counts
      /\ command'.dry = command.dry /\ command'.whole = FALSE /\ command'.loaded = FALSE
  BY <1>1 DEF DirectoryInv, DirectoryTypes, CommandTyped, CommandFields
<1>3. command.files = {} /\ ~Directory!Running'
  BY <1>1, <1>2 DEF Directory!Running
<1>4. /\ \A u, row : RowIsOf(u, row)' <=> RowIsOf(u, row)
      /\ Directory!Tables' = Directory!Tables /\ Directory!Unsaid' = Directory!Unsaid
  BY DEF RowIsOf, Tied, Directory!Columns, Directory!Null, Directory!Tables, Directory!Pipeline,
         Directory!Unsaid
<1>5. TablesTyped'
  BY <1>1, <1>4 DEF DirectoryInv, DirectoryTypes, TablesTyped
<1>6. CommandTyped'
  <2>1. /\ command.files' \subseteq DOMAIN dir' /\ command.sent' \in Nat
        /\ command.dry' \in BOOLEAN
        /\ ~Directory!Running' \/ command.dry' => command.sent' = 0
    BY <1>1, <1>2, <1>3 DEF DirectoryInv, DirectoryTypes, CommandTyped
  <2>2. command.whole' \in BOOLEAN /\ command.loaded' \in BOOLEAN /\ ~command.whole' /\ ~command.loaded'
    BY <1>2
  <2> QED
    BY <1>2, <2>1, <2>2 DEF CommandTyped
<1>7. WrittenTyped'
  BY <1>1, <1>2, <1>3, <1>4 DEF DirectoryInv, DirectoryTypes, WrittenTyped
<1>8. TablesFit'
  BY <1>1 DEF TablesFit, TableFits
<1>9. WrittenFits'
  BY <1>3 DEF WrittenFits
<1>10. Progressed'
  BY <1>2 DEF Progressed
<1>11. ToldRight'
  <2>1. \A t \in DOMAIN d : t \in Directory!Tables
    BY ImportsAssumption DEF Directory!DirectoryAssumption
  <2> QED
    BY <1>1, <2>1 DEF ToldRight, Directory!Unsaid
<1>12. CountsAsTold'
  BY <1>1, <1>2, <1>3 DEF DirectoryInv, CountsAsTold
<1>13. Directory!WholeFiles'
  BY <1>1 DEF Directory!WholeFiles
<1> QED
  BY <1>5, <1>6, <1>7, <1>8, <1>9, <1>10, <1>11, <1>12, <1>13 DEF DirectoryInv, DirectoryTypes

(* A statement upserts the records it holds.                               *)
LEMMA BatchUpserted ==
  ASSUME DirectoryInv, Directory!UpsertBatch
  PROVE  DirectoryInv'
<1> DEFINE t == Directory!Table
           s == command.sent
           b == Directory!Batch
           L == Len(dir[t])
           A == Directory!After(t, b)
           old == Directory!Seen(t)
           new == {n \in DOMAIN b : b[n].id \notin DOMAIN old}
<1>1. /\ Directory!Running /\ ~command.dry /\ s < Len(Directory!Records(t)) /\ ~Directory!Refused
      /\ written' = [i \in DOMAIN written \cup BatchIds |-> A[i]]
      /\ command' = [command EXCEPT !.sent = @ + Len(b),
                        !.counts = <<@[1] + Directory!Cardinality(new),
                                     @[2] + Len(b) - Directory!Cardinality(new)>>]
      /\ UNCHANGED <<dir, table, told, base>>
  BY DEF Directory!UpsertBatch, BatchIds
<1>2. /\ t \in DOMAIN dir /\ dir \in Directories /\ t \in Directory!Tables
      /\ L \in Nat /\ DOMAIN dir[t] = 1 .. L /\ s \in Nat
  BY <1>1, TableIs, DirectoryFacts DEF DirectoryInv, DirectoryTypes, TablesTyped, CommandTyped
<1>3. Len(Directory!Records(t)) = L /\ s < L
  BY <1>1, <1>2, RecordsAre
<1>4. /\ Upto \in Nat /\ s < Upto /\ Upto =< L /\ (Upto = L \/ Upto = s + SubBatch)
      /\ SubBatch \in Nat /\ Len(b) = Upto - s /\ DOMAIN b = 1 .. Upto - s
      /\ \A m \in DOMAIN b : s + m \in DOMAIN dir[t] /\ b[m] = Directory!Records(t)[s + m]
  BY <1>1, <1>3, BatchIs DEF DirectoryInv
<1>5. /\ DOMAIN A = BatchIds \cup DOMAIN old
      /\ \A i \in DOMAIN old \ BatchIds : A[i] = old[i]
      /\ \A i \in BatchIds : RowIsOf(t, A[i]) /\ AsDue(t, i, A[i], old)
  <2>1. ~Directory!NullIn(t, b)
    BY <1>1 DEF Directory!Refused
  <2> QED
    BY <1>1, <1>3, <2>1, AfterIs DEF DirectoryInv
<1>6. /\ DOMAIN old = DOMAIN written \cup DOMAIN table[t]
      /\ \A i \in DOMAIN written : old[i] = written[i]
      /\ \A i \in DOMAIN table[t] \ DOMAIN written : old[i] = table[t][i]
  BY DEF Directory!Seen, Directory!Over
<1> DEFINE p == command.counts[1] + Directory!Cardinality(new)
           q == command.counts[2] + Len(b) - Directory!Cardinality(new)
<1>7. /\ DOMAIN command' = CommandFields /\ command'.files = command.files
      /\ command'.sent = s + Len(b) /\ command'.counts = <<p, q>>
      /\ command'.dry = command.dry /\ command'.whole = command.whole
      /\ command'.loaded = command.loaded
  <2> HIDE DEF b, new
  <2>1. DOMAIN command = CommandFields
    BY DEF DirectoryInv, DirectoryTypes, CommandTyped
  <2>2. command' = [command EXCEPT !.sent = s + Len(b), !.counts = <<p, q>>]
    BY <1>1
  <2> HIDE DEF p, q
  <2> QED
    BY <2>1, <2>2 DEF CommandFields
<1>20. t = Directory!Table /\ s = command.sent /\ L = Len(dir[t])
  OBVIOUS
<1> HIDE DEF p, q, A, old, b, new, s, L, t
<1>8. command'.sent = Upto
  <2>1. \A x \in Nat, y \in Nat : x + (y - x) = y
    OBVIOUS
  <2> QED
    BY <1>2, <1>4, <1>7, <2>1
<1>9. /\ Directory!Running' <=> Directory!Running
      /\ Directory!Table' = t
  BY <1>7 DEF Directory!Running, Directory!Table, t
<1>10. /\ \A m \in DOMAIN b : b[m].id = dir[t][s + m].id
       /\ BatchIds = {dir[t][n].id : n \in (s + 1) .. Upto}
  <2>1. \A m \in DOMAIN b : b[m].id = dir[t][s + m].id
    BY <1>2, <1>4, RecordsAre
  <2>2. BatchIds = {dir[t][s + m].id : m \in 1 .. Upto - s}
    BY <1>4, <2>1 DEF BatchIds, b
  <2>3. ASSUME NEW n \in (s + 1) .. Upto
        PROVE  n - s \in 1 .. Upto - s /\ n = s + (n - s)
    BY <1>2, <1>4
  <2>4. \A m \in 1 .. Upto - s : s + m \in (s + 1) .. Upto
    BY <1>2, <1>4
  <2>5. \A n \in (s + 1) .. Upto : dir[t][n].id \in BatchIds
    BY <2>2, <2>3
  <2>6. \A x \in BatchIds : \E n \in (s + 1) .. Upto : x = dir[t][n].id
    BY <2>2, <2>4
  <2> QED
    BY <2>1, <2>5, <2>6
<1>11. DOMAIN written = {dir[t][n].id : n \in 1 .. s}
  BY <1>1, <1>20 DEF DirectoryInv, DirectoryTypes, WrittenTyped, SentIds
<1>12. /\ DOMAIN written' = DOMAIN written \cup BatchIds
       /\ \A i \in DOMAIN written \ BatchIds : written'[i] = written[i]
       /\ \A i \in BatchIds : written'[i] = A[i]
  BY <1>1, <1>5, <1>6
<1>13. /\ TablesTyped' /\ TablesFit' /\ Directory!WholeFiles'
       /\ \A u : Directory!Counts(u)' = Directory!Counts(u)
       /\ \A u : FileLoaded(u, table[u], base[u]) => FileLoaded(u, table[u], base[u])'
  BY <1>1, Unmoved
<1>14. CommandTyped'
  BY <1>1, <1>7, <1>8, <1>9, <1>4 DEF DirectoryInv, DirectoryTypes, CommandTyped
<1>15. WrittenTyped'
  <2>1. DOMAIN written' = SentIds'
    <3>1. SentIds' = {dir[t][n].id : n \in 1 .. Upto}
      BY <1>1, <1>8, <1>9 DEF SentIds
    <3>2. 1 .. Upto = (1 .. s) \cup ((s + 1) .. Upto)
      BY <1>2, <1>4
    <3> QED
      BY <1>10, <1>11, <1>12, <3>1, <3>2
  <2>2. \A i \in DOMAIN written' : RowIsOf(t, written'[i])
    BY <1>5, <1>12 DEF DirectoryInv, DirectoryTypes, WrittenTyped, t
  <2>3. \A u, row : RowIsOf(u, row)' <=> RowIsOf(u, row)
    BY DEF RowIsOf, Tied, Directory!Columns, Directory!Null
  <2>4. command.sent' =< Len(dir'[Directory!Table'])
    BY <1>1, <1>4, <1>8, <1>9, <1>20
  <2> QED
    BY <1>1, <1>9, <2>1, <2>2, <2>3, <2>4 DEF WrittenTyped
<1>16. WrittenFits'
  <2> SUFFICES ASSUME NEW i \in DOMAIN written'
               PROVE  AsDue(t, i, written'[i], table[t])
    BY <1>1, <1>9, SameFiles DEF WrittenFits
  <2>1. CASE i \notin BatchIds
    BY <1>1, <1>12, <2>1 DEF DirectoryInv, WrittenFits, t
  <2>2. CASE i \in BatchIds
    <3> SUFFICES ASSUME NEW n \in DOMAIN dir[t], Directory!RecordsOf(t, i) = {n},
                        NEW c \in Directory!Columns[t]
                 PROVE  A[i][c] \in Directory!Due(t, i, c, Directory!Held(table[t], i, c))
      BY <1>12, <2>2 DEF AsDue
    <3>1. A[i][c] \in Directory!Due(t, i, c, Directory!Held(old, i, c))
      BY <1>5, <2>2 DEF AsDue
    <3>2. i \notin DOMAIN written
      <4>1. PICK k \in (s + 1) .. Upto : dir[t][k].id = i
        BY <1>10, <2>2
      <4>2. k \in Directory!RecordsOf(t, i)
        BY <1>2, <1>4, <4>1 DEF Directory!RecordsOf
      <4>3. ASSUME NEW m \in 1 .. s, dir[t][m].id = i
            PROVE  FALSE
        <5>1. m \in Directory!RecordsOf(t, i)
          BY <1>2, <1>3, <4>3 DEF Directory!RecordsOf
        <5>2. m = k
          BY <4>2, <5>1
        <5> QED
          BY <1>2, <1>4, <4>1, <5>2
      <4> QED
        BY <1>11, <4>3
    <3>3. Directory!Held(old, i, c) = Directory!Held(table[t], i, c)
      BY <1>6, <3>2 DEF Directory!Held
    <3> QED
      BY <3>1, <3>3
  <2> QED
    BY <2>1, <2>2
<1>17. Progressed'
  BY <1>1, <1>7, <1>9, <1>13 DEF DirectoryInv, Progressed
<1>18. ToldRight'
  BY <1>1, <1>13 DEF DirectoryInv, ToldRight, Directory!Unsaid
<1>19. CountsAsTold'
  <2> SUFFICES ASSUME L =< SubBatch
               PROVE  /\ Upto = L
                      /\ told[t] # Directory!Unsaid => <<p, q>> = told[t]
    <3>1. Upto # 0
      BY <1>2, <1>4
    <3> QED
      <4>1. /\ command.sent' = Upto /\ command.counts' = <<p, q>>
            /\ told'[Directory!Table'] = told[t] /\ Len(dir'[Directory!Table']) = L
        BY <1>1, <1>7, <1>8, <1>9, <1>20
      <4>2. Directory!Unsaid' = Directory!Unsaid
        BY DEF Directory!Unsaid
      <4> QED
        BY <3>1, <4>1, <4>2 DEF CountsAsTold
  <2>1. s = 0
    BY <1>1, <1>2, <1>3, <1>20 DEF DirectoryInv, CountsAsTold
  <2>2. Upto = L
    BY <1>2, <1>4, <2>1
  <2>3. Directory!Records(t) \in Seq({Directory!Prepare(t, dir[t][n]) : n \in DOMAIN dir[t]})
        /\ DOMAIN Directory!Records(t) = 1 .. L
    BY <1>2, RecordsAre
  <2>4. DOMAIN b = 1 .. L /\ Len(b) = L /\ \A m \in 1 .. L : b[m] = Directory!Records(t)[m]
    BY <1>2, <1>4, <2>1, <2>2
  <2>5. DOMAIN old = DOMAIN table[t]
    BY <1>2, <1>6, <1>11, <2>1
  <2> DEFINE th == There(t)
  <2>6. th \subseteq 1 .. L /\ new = (1 .. L) \ th
    BY <2>3, <2>4, <2>5 DEF There, new
  <2> HIDE DEF th, L
  <2>7. /\ Cardinality(th) \in Nat /\ Cardinality(new) = L - Cardinality(th)
    <3>1. IsFiniteSet(1 .. L) /\ Cardinality(1 .. L) = L
      BY <1>2, FS_Interval
    <3>2. IsFiniteSet(th)
      BY <2>6, <3>1, FS_Subset
    <3>3. Cardinality((1 .. L) \ th) = L - Cardinality((1 .. L) \cap th)
      BY <3>1, FS_Difference
    <3>4. (1 .. L) \cap th = th
      BY <2>6
    <3> QED
      BY <2>6, <3>2, <3>3, <3>4, FS_CardinalityType
  <2>8. Directory!Counts(t) = <<L - Cardinality(th), Cardinality(th)>>
    BY <1>3, CountsAre DEF th
  <2>9. command.counts = <<0, 0>>
    BY <2>1 DEF DirectoryInv, CountsAsTold, s
  <2>10. Directory!Cardinality(new) = L - Cardinality(th)
    BY <2>7, DirectoryCards
  <2>11. p = L - Cardinality(th) /\ q = Cardinality(th)
    <3> DEFINE x == Cardinality(th)
    <3>1. p = 0 + Directory!Cardinality(new) /\ q = 0 + Len(b) - Directory!Cardinality(new)
      BY <2>9 DEF p, q
    <3>2. x \in Nat /\ L \in Nat /\ Len(b) = L
      BY <1>2, <2>4, <2>7
    <3>3. p = 0 + (L - x) /\ q = 0 + L - (L - x)
      BY <2>10, <3>1, <3>2
    <3> HIDE DEF x
    <3>4. p = L - x /\ q = x
      BY <3>2, <3>3
    <3> QED
      BY <3>4 DEF x
  <2>12. told[t] # Directory!Unsaid => told[t] = Directory!Counts(t)
    BY <1>2 DEF DirectoryInv, ToldRight
  <2> QED
    BY <2>2, <2>8, <2>11, <2>12
<1> QED
  BY <1>13, <1>14, <1>15, <1>16, <1>17, <1>18, <1>19 DEF DirectoryInv, DirectoryTypes

-----------------------------------------------------------------------------
(* Before the first command.                                               *)
LEMMA DirectoryInit ==
  ASSUME Directory!Init
  PROVE  DirectoryInv
<1>1. /\ dir \in Directories /\ table = [t \in Directory!Tables |-> Directory!Nothing]
      /\ base = table /\ written = Directory!Nothing /\ command = Directory!NoRun
      /\ told = [t \in Directory!Tables |-> Directory!Unsaid]
  BY DEF Directory!Init
<1>2. DOMAIN written = {} /\ \A t \in Directory!Tables : DOMAIN table[t] = {}
  BY <1>1 DEF Directory!Nothing
<1>3. DOMAIN dir \subseteq Directory!Tables
  BY <1>1, DirectoryFacts
<1>4. /\ DOMAIN command = CommandFields /\ command.files = {} /\ command.sent = 0
      /\ command.counts = <<0, 0>> /\ command.dry = FALSE /\ command.whole = FALSE
      /\ command.loaded = FALSE
  BY <1>1 DEF Directory!NoRun, CommandFields
<1>5. ~Directory!Running
  BY <1>4 DEF Directory!Running
<1>6. TablesTyped
  BY <1>1, <1>2 DEF TablesTyped
<1>7. CommandTyped
  <2>1. command.files \subseteq DOMAIN dir /\ command.sent \in Nat
    BY <1>4
  <2>3. command.dry \in BOOLEAN /\ command.whole \in BOOLEAN /\ command.loaded \in BOOLEAN
    BY <1>4, Zenon
  <2>2. ~command.dry /\ ~command.whole /\ ~command.loaded
    BY <1>4
  <2> QED
    BY <1>4, <2>1, <2>2, <2>3, Zenon DEF CommandTyped
<1>8. WrittenTyped
  BY <1>2, <1>5 DEF WrittenTyped
<1>9. TablesFit
  BY <1>1, <1>2, <1>3 DEF TablesFit, TableFits
<1>10. WrittenFits /\ Progressed
  BY <1>4, <1>5 DEF WrittenFits, Progressed
<1>11. ToldRight
  BY <1>1, <1>3 DEF ToldRight
<1>12. CountsAsTold
  BY <1>4, <1>5 DEF CountsAsTold
<1>13. Directory!WholeFiles
  BY <1>1 DEF Directory!WholeFiles
<1> QED
  BY <1>6, <1>7, <1>8, <1>9, <1>10, <1>11, <1>12, <1>13 DEF DirectoryInv, DirectoryTypes

(* While the others move.                                                  *)
LEMMA DirectoryRest ==
  ASSUME DirectoryInv, UNCHANGED <<dir, table, written, command, told, base>>
  PROVE  DirectoryInv'
<1>1. /\ dir' = dir /\ table' = table /\ written' = written /\ command' = command
      /\ told' = told /\ base' = base
  OBVIOUS
<1>2. /\ TablesTyped' /\ TablesFit' /\ Directory!WholeFiles'
      /\ \A t : Directory!Counts(t)' = Directory!Counts(t)
      /\ \A t : FileLoaded(t, table[t], base[t]) => FileLoaded(t, table[t], base[t])'
  BY <1>1, Unmoved
<1>3. /\ Directory!Running' <=> Directory!Running
      /\ Directory!Table' = Directory!Table
      /\ Directory!Unsaid' = Directory!Unsaid
  BY <1>1 DEF Directory!Running, Directory!Table, Directory!Unsaid
<1>4. SentIds' = SentIds
  BY <1>1, <1>3 DEF SentIds
<1>5. \A u, row : RowIsOf(u, row)' <=> RowIsOf(u, row)
  BY DEF RowIsOf, Tied, Directory!Columns, Directory!Null
<1>6. CommandTyped'
  BY <1>1, <1>3 DEF DirectoryInv, DirectoryTypes, CommandTyped
<1>7. WrittenTyped'
  BY <1>1, <1>3, <1>4, <1>5 DEF DirectoryInv, DirectoryTypes, WrittenTyped
<1>8. WrittenFits'
  BY <1>1, <1>3, SameFiles DEF DirectoryInv, WrittenFits
<1>9. Progressed'
  BY <1>1, <1>2, <1>3 DEF DirectoryInv, Progressed
<1>10. ToldRight'
  BY <1>1, <1>2, <1>3 DEF DirectoryInv, ToldRight
<1>11. CountsAsTold'
  BY <1>1, <1>3 DEF DirectoryInv, CountsAsTold
<1> QED
  BY <1>2, <1>6, <1>7, <1>8, <1>9, <1>10, <1>11 DEF DirectoryInv, DirectoryTypes

(* Every step of the directory keeps the invariant.                        *)
LEMMA DirectoryStep ==
  ASSUME DirectoryInv, [Directory!Next]_directory
  PROVE  DirectoryInv'
<1>1. CASE \E dry \in BOOLEAN : \/ Directory!ImportElectionData(dry)
                                \/ \E t \in Directory!Tables : Directory!ImportFile(t, dry)
  BY <1>1, CommandBegins
<1>2. CASE Directory!DryRun
  BY <1>2, DryRunCounts
<1>3. CASE Directory!UpsertBatch
  BY <1>3, BatchUpserted
<1>4. CASE Directory!CommitFile
  BY <1>4, FileCommitted
<1>5. CASE Directory!Fail
  BY <1>5, CommandFails
<1>6. ASSUME NEW t \in Directory!Tables, NEW i \in Ids,
             NEW c \in {"url", "status", "bio", "incumbent", "party"},
             NEW v \in Values, Directory!EditRow(t, i, c, v)
      PROVE  DirectoryInv'
  BY <1>6, RowEdited
<1>7. ASSUME NEW i \in Ids, NEW v \in Values, Directory!AddElection(i, v)
      PROVE  DirectoryInv'
  BY <1>7, ElectionInserted
<1>8. CASE UNCHANGED directory
  BY <1>8, DirectoryRest DEF directory
<1>9. ASSUME NEW d \in Directories, Directory!Convert(d)
      PROVE  DirectoryInv'
  BY <1>9, Converted
<1> QED
  BY <1>1, <1>2, <1>3, <1>4, <1>5, <1>6, <1>7, <1>8, <1>9 DEF Directory!Next

(* What the invariant says, the property does.                             *)
LEMMA DirectoryHolds ==
  ASSUME DirectoryInv
  PROVE  Directory!FilesHold
<1>1. dir \in Directories /\ DOMAIN dir \subseteq Directory!Tables
  BY DirectoryFacts DEF DirectoryInv, DirectoryTypes, TablesTyped
<1>2. ASSUME command.loaded, NEW t \in DOMAIN dir, NEW i, Directory!RecordsOf(t, i) = {}
      PROVE  i \in DOMAIN table[t] <=> i \in DOMAIN base[t]
  BY <1>2 DEF DirectoryInv, TablesFit, TableFits
<1>3. ASSUME command.loaded, NEW t \in DOMAIN dir, NEW i, Directory!RecordsOf(t, i) # {}
      PROVE  i \in DOMAIN table[t] /\ AsDue(t, i, table[t][i], base[t])
  <2>1. command.whole /\ command.files = {}
    BY <1>3 DEF DirectoryInv, DirectoryTypes, CommandTyped, Directory!Running
  <2>2. FileLoaded(t, table[t], base[t])
    BY <1>3, <2>1 DEF DirectoryInv, Progressed
  <2>3. PICK n \in DOMAIN dir[t] : dir[t][n].id = i
    BY <1>3 DEF Directory!RecordsOf
  <2> QED
    BY <2>2, <2>3 DEF FileLoaded
<1>4. ASSUME NEW t \in DOMAIN dir, NEW i, Directory!Cardinality(Directory!RecordsOf(t, i)) = 1
      PROVE  \E n \in DOMAIN dir[t] : Directory!RecordsOf(t, i) = {n}
  <2>1. DOMAIN dir[t] = 1 .. Len(dir[t]) /\ Len(dir[t]) \in Nat
    BY <1>1, DirectoryFacts
  <2>2. IsFiniteSet(DOMAIN dir[t])
    BY <2>1, FS_Interval
  <2>3. Directory!RecordsOf(t, i) \subseteq DOMAIN dir[t]
    BY DEF Directory!RecordsOf
  <2>4. IsFiniteSet(Directory!RecordsOf(t, i))
    BY <2>2, <2>3, FS_Subset
  <2>5. Cardinality(Directory!RecordsOf(t, i)) = 1
    BY <1>4, DirectoryCards
  <2>6. \E n : Directory!RecordsOf(t, i) = {n}
    BY <2>4, <2>5, FS_Singleton
  <2> QED
    BY <2>3, <2>6
<1>5. Directory!LoadedAsAsked
  <2> SUFFICES ASSUME command.loaded, NEW t \in DOMAIN dir, NEW i \in Ids
               PROVE  IF Directory!RecordsOf(t, i) = {} THEN i \in DOMAIN table[t] <=> i \in DOMAIN base[t]
                      ELSE /\ i \in DOMAIN table[t]
                           /\ Directory!Cardinality(Directory!RecordsOf(t, i)) = 1 =>
                                \A c \in Directory!Columns[t] :
                                  table[t][i][c] \in Directory!Due(t, i, c, Directory!Held(base[t], i, c))
    BY DEF Directory!LoadedAsAsked
  <2>1. CASE Directory!RecordsOf(t, i) = {}
    BY <1>2, <2>1
  <2>2. CASE Directory!RecordsOf(t, i) # {}
    <3>1. i \in DOMAIN table[t] /\ AsDue(t, i, table[t][i], base[t])
      BY <1>3, <2>2
    <3>2. Directory!Cardinality(Directory!RecordsOf(t, i)) = 1 =>
            \A c \in Directory!Columns[t] :
              table[t][i][c] \in Directory!Due(t, i, c, Directory!Held(base[t], i, c))
      BY <1>4, <3>1 DEF AsDue
    <3> QED
      BY <2>2, <3>1, <3>2
  <2> QED
    BY <2>1, <2>2
<1>6. Directory!DryRunTells
  <2> DEFINE t == Directory!Table
             L == Len(Directory!Records(t))
  <2> SUFFICES ASSUME Directory!Running, ~command.dry, command.sent = L,
                      told[t] # Directory!Unsaid, L =< SubBatch
               PROVE  command.counts = told[t]
    BY DEF Directory!DryRunTells
  <2>1. t \in DOMAIN dir
    BY <1>1, TableIs DEF DirectoryInv, DirectoryTypes, CommandTyped
  <2>2. L = Len(dir[t])
    BY <1>1, <2>1, RecordsAre
  <2>3. Len(dir[t]) > 0
    BY <2>1 DEF DirectoryInv, ToldRight
  <2> HIDE DEF L
  <2> QED
    BY <2>2, <2>3 DEF DirectoryInv, CountsAsTold
<1> QED
  BY <1>5, <1>6 DEF Directory!FilesHold, DirectoryInv

(* Whatever is loaded, refused, cut short, edited or converted anew, once  *)
(* the directory is loaded its rows hold what the records and the rows of  *)
(* before ask for; a file is loaded whole or not at all, and a dry run     *)
(* counts right.                                                           *)
THEOREM DirectoryTheorem == ImportsSpec => []FilesHold
<1> DEFINE Inv == part = "directory" => DirectoryInv
<1>1. ImportsInit => Inv
  BY DirectoryInit DEF ImportsInit
<1>2. Inv /\ [ImportsNext]_<<part, vars, imported>> => Inv'
  <2> SUFFICES ASSUME Inv, [ImportsNext]_<<part, vars, imported>>, part' = "directory"
               PROVE  DirectoryInv'
    OBVIOUS
  <2>1. part = "directory" /\ [Directory!Next]_directory
    BY DEF ImportsNext, imported
  <2> QED
    BY <2>1, DirectoryStep
<1>3. Inv => FilesHold
  BY DirectoryHolds DEF FilesHold
<1> QED
  BY <1>1, <1>2, <1>3, PTL DEF ImportsSpec

-----------------------------------------------------------------------------
(* Results.  The invariant is stated of what is committed, b, of the jobs  *)
(* that completed, by job, and of one job's record r, savepoint m and      *)
(* draft d.                                                                *)
JobFields == {"status", "pc", "pos", "cache", "target", "seen", "took", "errors", "succeeded"}
Traced == {"elections", "candidate", "result", "county"}
Past == [k \in Counts!Completed |-> job[k]]

(* A job is at an item of its file, and has taken each item before it or   *)
(* has reported it.                                                        *)
Placed(j, r) ==
  /\ DOMAIN r = JobFields /\ r.pos \in Nat \ {0}
  /\ r.status \in {"none", "pending", "running", "completed", "failed"}
  /\ r.pc # "idle" => r.status = "running" /\ r.pos =< Len(Returns[j]) + 1
  /\ r.pc \notin {"idle", "match"} => r.pos =< Len(Returns[j])
  /\ r.status \in {"none", "pending"} =>
       r.pos = 1 /\ DOMAIN r.took = {} /\ r.errors = {} /\ DOMAIN r.cache = {}
  /\ r.status = "completed" => r.pos = Len(Returns[j]) + 1
  /\ r.pc # "idle" \/ r.status = "completed" =>
       /\ r.errors \subseteq 1 .. (r.pos - 1)
       /\ DOMAIN r.took = (1 .. (r.pos - 1)) \ r.errors
Follows(r, m, d) ==
  /\ DOMAIN m["candidate"] \subseteq DOMAIN d["candidate"] /\ m["result"] = d["result"]
  /\ r.pc \in {"idle", "match"} => d = m
  /\ r.pc = "idle" => d = Counts!Empty

(* The tables of D are complete, and so are their rows.                    *)
TablesOf(D) ==
  /\ DOMAIN D = Counts!Tables
  /\ \A e \in DOMAIN D["elections"] : DOMAIN D["elections"][e] = Counts!ElectionFields
  /\ \A c \in DOMAIN D["candidate"] :
       /\ DOMAIN D["candidate"][c] = {"party", "incumbent", "last"}
       /\ D["candidate"][c].incumbent \in BOOLEAN

(* Who wrote a row: nobody, an item that a completed job took, or an item  *)
(* of the job itself.                                                      *)
Done(past, l) == l[1] \in DOMAIN past /\ l[2] \notin past[l[1]].errors
WrittenBy(past, l) == l = Counts!Nobody \/ Done(past, l)
CommittedRows(b, past) ==
  \A t \in Traced : \A k \in DOMAIN b[t] : WrittenBy(past, b[t][k].last)
OwnRows(j, D, past, own) ==
  \A t \in Traced : \A k \in DOMAIN D[t] :
    WrittenBy(past, D[t][k].last) \/ \E n \in own : D[t][k].last = <<j, n>>

(* A result is that of the item that wrote it, but for votes that another  *)
(* job changed meanwhile, with its candidates and its counties.            *)
Moved(past, e, j, i) ==
  \E k \in DOMAIN past \ {j} : \E m \in DOMAIN past[k].took :
    past[k].took[m] = e /\ ~Counts!Shares(Returns[k][m], i)
ItemIn(D, b, past, e, j, n) ==
  LET i == Returns[j][n]
  IN /\ D["result"][e].last = <<j, n>>
     /\ e \in DOMAIN D["elections"] \cup DOMAIN b["elections"]
     /\ \A o \in DOMAIN i.options : <<e, i.options[o].who>> \in DOMAIN D["candidate"]
     /\ \A c \in i.counties : /\ <<e, c>> \in DOMAIN D["county"]
                              /\ D["county"][<<e, c>>] = [votes |-> i.votes, last |-> <<j, n>>]
     /\ D["result"][e].votes = i.votes \/ Moved(past, e, j, i)
CountiesOf(D) == \A x \in DOMAIN D["county"] : x[1] \in DOMAIN D["result"]
OwnResults(j, D, b, past, took) ==
  /\ CountiesOf(D)
  /\ \A e \in DOMAIN D["result"] : \E n \in DOMAIN took : took[n] = e /\ ItemIn(D, b, past, e, j, n)
CommittedResults(b, past) ==
  /\ CountiesOf(b)
  /\ \A e \in DOMAIN b["result"] :
       \E j \in DOMAIN past : \E n \in DOMAIN past[j].took : ItemIn(b, b, past, e, j, n)

(* Elections of before stay so, with what was known of their candidates.   *)
BeforeFiles(b) == {e \in DOMAIN b["elections"] : b["elections"][e].last = Counts!Nobody}
KeptOf(c, row) ==
  /\ Known[c].incumbent => row.incumbent
  /\ Known[c].party # Counts!Null => row.party = Known[c].party
KnownIn(D, b) ==
  /\ \A e \in DOMAIN D["elections"] : D["elections"][e].last = Counts!Nobody <=> e \in BeforeFiles(b)
  /\ \A c \in DOMAIN D["candidate"] :
       c \in DOMAIN Known /\ c[1] \in BeforeFiles(b) => KeptOf(c, D["candidate"][c])
KnownThere(b) == \A c \in DOMAIN Known : c[1] \in BeforeFiles(b) => c \in DOMAIN b["candidate"]

(* Where an id stands for one contest, a job takes an election only for an *)
(* item of a contest the election is meant for.                            *)
IdsAgree == \A i, k \in Counts!Items : i.id = k.id => Counts!Contest(i) = Counts!Contest(k)
Claims(e, i) == \E k \in Counts!Meant(e) : Counts!Contest(k) = Counts!Contest(i)
Names(row, i) == row.item = i.id \/ (i.district.type # Counts!Null /\ row.type = i.district.type)
RowsClaimed(D) ==
  IdsAgree => \A e \in DOMAIN D["elections"] : \A i \in Counts!Items :
                Names(D["elections"][e], i) => Claims(e, i)
JobClaims(j, r) ==
  IdsAgree =>
    /\ \A id \in DOMAIN r.cache : \A i \in Counts!Items : i.id = id => Claims(r.cache[id], i)
    /\ r.pc \in {"candidates", "persist", "write"} => Claims(r.target, Returns[j][r.pos])
    /\ \A n \in DOMAIN r.took : n \in DOMAIN Returns[j] => Claims(r.took[n], Returns[j][n])

(* An item about to be written has its election and candidates, and, if it *)
(* has read votes, they are what it sees or another job has moved them.    *)
Prepared(j, r, d, b, past) ==
  LET i    == Returns[j][r.pos]
      seen == Counts!Over(d["result"], b["result"])
  IN /\ r.pc \in {"persist", "write"} =>
          /\ r.target \in DOMAIN d["elections"] \cup DOMAIN b["elections"]
          /\ \A o \in DOMAIN i.options : <<r.target, i.options[o].who>> \in DOMAIN d["candidate"]
     /\ r.pc = "write" /\ r.seen # Counts!Null =>
          \/ r.target \in DOMAIN seen /\ seen[r.target].votes = r.seen
          \/ Moved(past, r.target, j, i)

(* What a job has taken has a result.                                      *)
Taken(r, D) == \A n \in DOMAIN r.took : r.took[n] \in DOMAIN D["result"]

RowsFit(j, D, own, took, b, past) ==
  /\ TablesOf(D) /\ OwnRows(j, D, past, own) /\ OwnResults(j, D, b, past, took)
  /\ KnownIn(D, b) /\ RowsClaimed(D)
JobFits(j, r, m, d, b, past) ==
  /\ Placed(j, r) /\ Follows(r, m, d)
  /\ RowsFit(j, m, DOMAIN r.took, r.took, b, past)
  /\ RowsFit(j, d, DOMAIN r.took \cup {r.pos}, r.took, b, past)
  /\ JobClaims(j, r) /\ Prepared(j, r, d, b, past)
  /\ r.pc # "idle" => Taken(r, m)
BaseFits(b, past) ==
  /\ TablesOf(b) /\ CommittedRows(b, past) /\ CommittedResults(b, past)
  /\ KnownIn(b, b) /\ KnownThere(b) /\ RowsClaimed(b)
  /\ \A k \in DOMAIN past : Taken(past[k], b)
DraftsApart(drafts) == \A i, j \in Jobs : i # j =>
                   DOMAIN drafts[i]["candidate"] \cap DOMAIN drafts[j]["candidate"] = {}
ReturnsInv ==
  /\ DOMAIN job = Jobs /\ DOMAIN mark = Jobs /\ DOMAIN draft = Jobs
  /\ BaseFits(db, Past)
  /\ \A j \in Jobs : JobFits(j, job[j], mark[j], draft[j], db, Past)
  /\ DraftsApart(draft)

-----------------------------------------------------------------------------
(* What the files and the tables before are.                               *)
LEMMA ReturnFacts ==
  /\ \A j \in Jobs : Len(Returns[j]) \in Nat /\ DOMAIN Returns[j] = 1 .. Len(Returns[j])
  /\ \A j \in Jobs : \A n \in DOMAIN Returns[j] :
       /\ Returns[j][n].votes # Counts!Null
       /\ \A o \in DOMAIN Returns[j][n].options : Returns[j][n].options[o].incumbent \in BOOLEAN
       /\ Returns[j][n] \in Counts!Items
  /\ \A e \in Existing : \A n \in DOMAIN e :
       DOMAIN e[n] = Counts!ElectionFields /\ e[n].last = Counts!Nobody
  /\ \A c \in DOMAIN Known : Known[c].incumbent \in BOOLEAN
<1>1. Counts!ResultsAssumption
  BY ImportsAssumption
<1>2. ASSUME NEW j \in Jobs
      PROVE  Len(Returns[j]) \in Nat /\ DOMAIN Returns[j] = 1 .. Len(Returns[j])
  <2> DEFINE S == {Returns[j][n] : n \in DOMAIN Returns[j]}
  <2>1. Returns[j] \in Seq(S)
    BY <1>1 DEF Counts!ResultsAssumption
  <2> HIDE DEF S
  <2> QED
    BY <2>1
<1>3. ASSUME NEW j \in Jobs, NEW n \in DOMAIN Returns[j]
      PROVE  Returns[j][n] \in Counts!Items
  BY DEF Counts!Items
<1>4. /\ \A j \in Jobs : \A n \in DOMAIN Returns[j] :
           /\ Returns[j][n].votes # Counts!Null
           /\ \A o \in DOMAIN Returns[j][n].options : Returns[j][n].options[o].incumbent \in BOOLEAN
      /\ \A e \in Existing : \A n \in DOMAIN e :
           DOMAIN e[n] = Counts!ElectionFields /\ e[n].last = Counts!Nobody
      /\ \A c \in DOMAIN Known : Known[c].incumbent \in BOOLEAN
  BY <1>1, Zenon DEF Counts!ResultsAssumption
<1> QED
  BY <1>2, <1>3, <1>4

(* One table over another, and a table of one row.                         *)
LEMMA OverIs ==
  ASSUME NEW f, NEW g
  PROVE  /\ DOMAIN Counts!Over(f, g) = DOMAIN f \cup DOMAIN g
         /\ \A x \in DOMAIN f : Counts!Over(f, g)[x] = f[x]
         /\ \A x \in DOMAIN g \ DOMAIN f : Counts!Over(f, g)[x] = g[x]
  BY DEF Counts!Over

LEMMA OnlyIs ==
  ASSUME NEW x, NEW v
  PROVE  DOMAIN Counts!Only(x, v) = {x} /\ Counts!Only(x, v)[x] = v
  BY DEF Counts!Only

LEMMA NoTablesIs ==
  /\ DOMAIN Counts!Empty = Counts!Tables
  /\ \A t \in Counts!Tables : DOMAIN Counts!Empty[t] = {}
  BY DEF Counts!Empty, Counts!Nothing

LEMMA TracedAre ==
  /\ Traced \subseteq Counts!Tables
  /\ "elections" \in Traced /\ "candidate" \in Traced /\ "result" \in Traced /\ "county" \in Traced
  BY DEF Traced, Counts!Tables

(* What a job writes.                                                      *)
LEMMA Puts ==
  ASSUME NEW j \in Jobs, NEW t \in Counts!Tables, NEW new, DOMAIN draft = Jobs,
         DOMAIN draft[j] = Counts!Tables, Counts!Put(j, t, new)
  PROVE  /\ DOMAIN draft' = Jobs /\ \A i \in Jobs \ {j} : draft'[i] = draft[i]
         /\ DOMAIN draft'[j] = Counts!Tables
         /\ draft'[j][t] = Counts!Over(new, draft[j][t])
         /\ \A u \in Counts!Tables \ {t} : draft'[j][u] = draft[j][u]
  BY DEF Counts!Put

(* Of a job that neither completes nor has completed nobody else takes     *)
(* notice.                                                                 *)
LEMMA OneJobMoves ==
  ASSUME ReturnsInv, NEW j \in Jobs, db' = db,
         DOMAIN job' = Jobs, DOMAIN mark' = Jobs, DOMAIN draft' = Jobs,
         \A i \in Jobs \ {j} : job'[i] = job[i] /\ mark'[i] = mark[i] /\ draft'[i] = draft[i],
         job[j].status # "completed", job'[j].status # "completed",
         JobFits(j, job'[j], mark'[j], draft'[j], db, Past),
         \A i \in Jobs \ {j} :
           DOMAIN draft'[j]["candidate"] \cap DOMAIN draft[i]["candidate"] = {}
  PROVE  ReturnsInv'
<1>1. Counts!Completed' = Counts!Completed
  BY DEF Counts!Completed
<1>2. \A k \in Counts!Completed : k \in Jobs \ {j}
  BY DEF Counts!Completed
<1>3. Past' = Past
  BY <1>1, <1>2 DEF Past
<1>4. DraftsApart(draft')
  BY DEF ReturnsInv, DraftsApart
<1>5. \A i \in Jobs : JobFits(i, job'[i], mark'[i], draft'[i], db, Past)
  BY DEF ReturnsInv
<1>6. BaseFits(db, Past)
  BY DEF ReturnsInv
<1>7. (\A i \in Jobs : JobFits(i, job[i], mark[i], draft[i], db, Past))'
  BY <1>3, <1>5
<1>8. BaseFits(db, Past)'
  BY <1>3, <1>6
<1> QED
  BY <1>4, <1>7, <1>8 DEF ReturnsInv

(* A job goes on within an item.                                           *)
LEMMA Onward ==
  ASSUME NEW j \in Jobs, NEW r, NEW r2, NEW m, NEW d, NEW d2, NEW b, NEW past,
         JobFits(j, r, m, d, b, past), r.pc # "idle", r.pos =< Len(Returns[j]),
         DOMAIN r2 = JobFields, r2.pos = r.pos, r2.took = r.took, r2.errors = r.errors,
         r2.status = r.status, r2.pc \in {"event", "create", "candidates", "persist", "write"},
         DOMAIN d["candidate"] \subseteq DOMAIN d2["candidate"], d2["result"] = d["result"],
         RowsFit(j, d2, DOMAIN r.took \cup {r.pos}, r.took, b, past),
         JobClaims(j, r2), Prepared(j, r2, d2, b, past)
  PROVE  JobFits(j, r2, m, d2, b, past)
<1>1. Placed(j, r2)
  <2>1. Placed(j, r) /\ r.status = "running"
    BY DEF JobFits, Placed
  <2>2. Len(Returns[j]) \in Nat
    BY ReturnFacts
  <2>3. /\ DOMAIN r2.took = (1 .. (r2.pos - 1)) \ r2.errors
        /\ r2.errors \subseteq 1 .. (r2.pos - 1)
    BY <2>1 DEF Placed
  <2>4. r2.pos \in Nat \ {0} /\ r2.pos =< Len(Returns[j]) /\ r2.pos =< Len(Returns[j]) + 1
    BY <2>1, <2>2 DEF Placed
  <2> QED
    BY <2>1, <2>3, <2>4 DEF Placed
<1>2. Follows(r2, m, d2)
  BY DEF JobFits, Follows
<1>3. Taken(r2, m)
  BY DEF JobFits, Taken
<1> QED
  BY <1>1, <1>2, <1>3 DEF JobFits

(* Elections and candidates are added to what results rest on.             *)
LEMMA ResultsRest ==
  ASSUME NEW j, NEW d, NEW d2, NEW b, NEW past, NEW took, OwnResults(j, d, b, past, took),
         d2["result"] = d["result"], d2["county"] = d["county"],
         DOMAIN d["elections"] \subseteq DOMAIN d2["elections"],
         DOMAIN d["candidate"] \subseteq DOMAIN d2["candidate"]
  PROVE  OwnResults(j, d2, b, past, took)
<1>1. CountiesOf(d2)
  BY DEF OwnResults, CountiesOf
<1>2. ASSUME NEW e \in DOMAIN d2["result"]
      PROVE  \E n \in DOMAIN took : took[n] = e /\ ItemIn(d2, b, past, e, j, n)
  <2>1. PICK n \in DOMAIN took : took[n] = e /\ ItemIn(d, b, past, e, j, n)
    BY <1>2 DEF OwnResults
  <2>2. ItemIn(d2, b, past, e, j, n)
    BY <2>1 DEF ItemIn
  <2> QED
    BY <2>1, <2>2
<1> QED
  BY <1>1, <1>2 DEF OwnResults

(* An election is written.                                                 *)
LEMMA ElectionPut ==
  ASSUME NEW j, NEW d, NEW d2, NEW b, NEW past, NEW took, NEW own, NEW e, NEW row,
         RowsFit(j, d, own, took, b, past), DOMAIN d2 = Counts!Tables,
         d2["elections"] = Counts!Over(Counts!Only(e, row), d["elections"]),
         \A t \in Counts!Tables \ {"elections"} : d2[t] = d[t],
         DOMAIN row = Counts!ElectionFields,
         row.last = Counts!Nobody <=> e \in BeforeFiles(b),
         WrittenBy(past, row.last) \/ \E n \in own : row.last = <<j, n>>,
         IdsAgree => \A i \in Counts!Items : Names(row, i) => Claims(e, i)
  PROVE  /\ RowsFit(j, d2, own, took, b, past)
         /\ DOMAIN d["candidate"] \subseteq DOMAIN d2["candidate"]
<1>1. /\ DOMAIN d2["elections"] = {e} \cup DOMAIN d["elections"]
      /\ d2["elections"][e] = row
      /\ \A x \in DOMAIN d["elections"] \ {e} : d2["elections"][x] = d["elections"][x]
  <2> DEFINE f == Counts!Only(e, row)
             g == d["elections"]
  <2>1. DOMAIN f = {e} /\ f[e] = row
    BY OnlyIs
  <2>2. /\ DOMAIN Counts!Over(f, g) = DOMAIN f \cup DOMAIN g
        /\ \A x \in DOMAIN f : Counts!Over(f, g)[x] = f[x]
        /\ \A x \in DOMAIN g \ DOMAIN f : Counts!Over(f, g)[x] = g[x]
    BY OverIs
  <2>3. d2["elections"] = Counts!Over(f, g)
    OBVIOUS
  <2> HIDE DEF f, g
  <2>4. g = d["elections"]
    BY DEF g
  <2> QED
    BY <2>1, <2>2, <2>3, <2>4
<1>2. d2["candidate"] = d["candidate"] /\ d2["result"] = d["result"] /\ d2["county"] = d["county"]
  BY DEF Counts!Tables
<1>3. \A t \in Traced : t # "elections" => d2[t] = d[t]
  BY <1>2 DEF Traced
<1>4. TablesOf(d2)
  BY <1>1, <1>2 DEF TablesOf, RowsFit
<1>5. OwnRows(j, d2, past, own)
  <2> SUFFICES ASSUME NEW t \in Traced, NEW k \in DOMAIN d2[t]
               PROVE  WrittenBy(past, d2[t][k].last) \/ \E n \in own : d2[t][k].last = <<j, n>>
    BY DEF OwnRows
  <2>1. CASE t # "elections"
    BY <1>3, <2>1 DEF OwnRows, RowsFit
  <2>2. CASE t = "elections" /\ k = e
    BY <1>1, <2>2
  <2>3. CASE t = "elections" /\ k # e
    BY <1>1, <2>3 DEF OwnRows, RowsFit
  <2> QED
    BY <2>1, <2>2, <2>3
<1>6. OwnResults(j, d2, b, past, took)
  BY <1>1, <1>2, ResultsRest DEF RowsFit
<1>7. KnownIn(d2, b)
  BY <1>1, <1>2 DEF KnownIn, RowsFit
<1>8. RowsClaimed(d2)
  BY <1>1 DEF RowsClaimed, RowsFit
<1> QED
  BY <1>2, <1>4, <1>5, <1>6, <1>7, <1>8 DEF RowsFit

-----------------------------------------------------------------------------
(* The job's steps within an item.                                         *)
LEMMA WithinItem ==
  ASSUME ReturnsInv, NEW j \in Jobs, job[j].pc # "idle", job[j].pos =< Len(Returns[j]),
         db' = db, mark' = mark,
         DOMAIN job' = Jobs, \A i \in Jobs \ {j} : job'[i] = job[i],
         DOMAIN draft' = Jobs, \A i \in Jobs \ {j} : draft'[i] = draft[i],
         DOMAIN job'[j] = JobFields, job'[j].pos = job[j].pos, job'[j].took = job[j].took,
         job'[j].errors = job[j].errors, job'[j].status = job[j].status,
         job'[j].pc \in {"event", "create", "candidates", "persist", "write"},
         DOMAIN draft[j]["candidate"] \subseteq DOMAIN draft'[j]["candidate"],
         draft'[j]["result"] = draft[j]["result"],
         RowsFit(j, draft'[j], DOMAIN job[j].took \cup {job[j].pos}, job[j].took, db, Past),
         JobClaims(j, job'[j]), Prepared(j, job'[j], draft'[j], db, Past),
         \A i \in Jobs \ {j} :
           DOMAIN draft'[j]["candidate"] \cap DOMAIN draft[i]["candidate"] = {}
  PROVE  ReturnsInv'
<1>1. JobFits(j, job[j], mark[j], draft[j], db, Past)
  BY DEF ReturnsInv
<1>2. JobFits(j, job'[j], mark[j], draft'[j], db, Past)
  BY <1>1, Onward
<1>3. job[j].status = "running"
  BY <1>1 DEF JobFits, Placed
<1>4. job[j].status # "completed" /\ job'[j].status # "completed"
  BY <1>3
<1>5. DOMAIN mark' = Jobs /\ mark'[j] = mark[j] /\ \A i \in Jobs \ {j} : mark'[i] = mark[i]
  BY DEF ReturnsInv
<1>6. JobFits(j, job'[j], mark'[j], draft'[j], db, Past)
  BY <1>2, <1>5
<1> QED
  BY <1>4, <1>5, <1>6, OneJobMoves

(* While an item is open, it is one of its file.                           *)
LEMMA ItemIs ==
  ASSUME ReturnsInv, NEW j \in Jobs, job[j].pc # "idle", job[j].pos =< Len(Returns[j])
  PROVE  /\ job[j].pos \in DOMAIN Returns[j] /\ Counts!Item(j) \in Counts!Items
         /\ Counts!Item(j) = Returns[j][job[j].pos]
         /\ JobFits(j, job[j], mark[j], draft[j], db, Past)
         /\ DOMAIN job = Jobs /\ DOMAIN draft = Jobs /\ DOMAIN draft[j] = Counts!Tables
         /\ DOMAIN job[j] = JobFields
         /\ RowsFit(j, draft[j], DOMAIN job[j].took \cup {job[j].pos}, job[j].took, db, Past)
         /\ JobClaims(j, job[j])
<1>1. JobFits(j, job[j], mark[j], draft[j], db, Past)
  BY DEF ReturnsInv
<1>2. job[j].pos \in Nat \ {0} /\ DOMAIN job[j] = JobFields
  BY <1>1 DEF JobFits, Placed
<1>3. job[j].pos \in DOMAIN Returns[j]
  BY <1>2, ReturnFacts
<1>4. RowsFit(j, draft[j], DOMAIN job[j].took \cup {job[j].pos}, job[j].took, db, Past)
  BY <1>1 DEF JobFits
<1>5. DOMAIN draft[j] = Counts!Tables
  BY <1>4 DEF RowsFit, TablesOf
<1> QED
  BY <1>1, <1>2, <1>3, <1>4, <1>5, ReturnFacts DEF ReturnsInv, Counts!Item, JobFits

LEMMA StillApart ==
  ASSUME ReturnsInv, NEW j \in Jobs, NEW i \in Jobs \ {j}
  PROVE  DOMAIN draft[j]["candidate"] \cap DOMAIN draft[i]["candidate"] = {}
  BY DEF ReturnsInv, DraftsApart

(* The job goes to another statement of the item.                          *)
LEMMA GoesTo ==
  ASSUME NEW j \in Jobs, NEW pc0, DOMAIN job = Jobs, DOMAIN job[j] = JobFields,
         job' = Counts!Goto(j, pc0)
  PROVE  /\ DOMAIN job' = Jobs /\ \A i \in Jobs \ {j} : job'[i] = job[i]
         /\ DOMAIN job'[j] = JobFields /\ job'[j].pc = pc0
         /\ \A f \in JobFields \ {"pc"} : job'[j][f] = job[j][f]
         /\ job'[j].pos = job[j].pos /\ job'[j].took = job[j].took
         /\ job'[j].errors = job[j].errors /\ job'[j].status = job[j].status
         /\ job'[j].target = job[j].target /\ job'[j].cache = job[j].cache
         /\ job'[j].seen = job[j].seen
  BY DEF Counts!Goto, JobFields

(* It takes an election.                                                   *)
LEMMA TakeIs ==
  ASSUME NEW j \in Jobs, NEW e, DOMAIN job = Jobs, DOMAIN job[j] = JobFields,
         Counts!Take(j, e)
  PROVE  /\ DOMAIN job' = Jobs /\ \A i \in Jobs \ {j} : job'[i] = job[i]
         /\ DOMAIN job'[j] = JobFields /\ job'[j].pc = "candidates" /\ job'[j].target = e
         /\ job'[j].cache = Counts!Over(Counts!Only(Counts!Item(j).id, e), job[j].cache)
         /\ job'[j].pos = job[j].pos /\ job'[j].took = job[j].took
         /\ job'[j].errors = job[j].errors /\ job'[j].status = job[j].status
<1> DEFINE c  == Counts!Over(Counts!Only(Counts!Item(j).id, e), job[j].cache)
           n  == job[j].succeeded + 1
           r2 == [[[[job[j] EXCEPT !.cache = c] EXCEPT !.target = e] EXCEPT !.succeeded = n]
                    EXCEPT !.pc = "candidates"]
<1>1. job' = [job EXCEPT ![j].cache = c, ![j].target = e, ![j].succeeded = n, ![j].pc = "candidates"]
  BY DEF Counts!Take
<1> HIDE DEF c, n
<1>2. job' = [job EXCEPT ![j] = r2]
  BY <1>1
<1>3. /\ DOMAIN r2 = JobFields /\ r2.pc = "candidates" /\ r2.target = e /\ r2.cache = c
      /\ r2.pos = job[j].pos /\ r2.took = job[j].took
      /\ r2.errors = job[j].errors /\ r2.status = job[j].status
  BY DEF JobFields
<1> HIDE DEF r2
<1> QED
  BY <1>2, <1>3 DEF c

LEMMA ItemTakes ==
  ASSUME ReturnsInv, NEW j \in Jobs, NEW e, job[j].pc # "idle", job[j].pos =< Len(Returns[j]),
         Counts!Take(j, e), db' = db, mark' = mark,
         IdsAgree => Claims(e, Counts!Item(j)),
         DOMAIN draft' = Jobs, \A i \in Jobs \ {j} : draft'[i] = draft[i],
         DOMAIN draft'[j]["candidate"] = DOMAIN draft[j]["candidate"],
         draft'[j]["result"] = draft[j]["result"],
         RowsFit(j, draft'[j], DOMAIN job[j].took \cup {job[j].pos}, job[j].took, db, Past)
  PROVE  ReturnsInv'
<1> DEFINE it == Counts!Item(j)
<1>1. /\ job[j].pos \in DOMAIN Returns[j] /\ it \in Counts!Items /\ it = Returns[j][job[j].pos]
      /\ DOMAIN job = Jobs /\ DOMAIN job[j] = JobFields /\ JobClaims(j, job[j])
  BY ItemIs
<1>2. /\ DOMAIN job' = Jobs /\ \A i \in Jobs \ {j} : job'[i] = job[i]
      /\ DOMAIN job'[j] = JobFields /\ job'[j].pc = "candidates" /\ job'[j].target = e
      /\ job'[j].cache = Counts!Over(Counts!Only(it.id, e), job[j].cache)
      /\ job'[j].pos = job[j].pos /\ job'[j].took = job[j].took
      /\ job'[j].errors = job[j].errors /\ job'[j].status = job[j].status
  BY <1>1, TakeIs
<1> HIDE DEF it
<1>3. JobClaims(j, job'[j])
  <2> SUFFICES ASSUME IdsAgree PROVE JobClaims(j, job'[j])
    BY DEF JobClaims
  <2>1. ASSUME NEW id \in DOMAIN job'[j].cache, NEW i \in Counts!Items, i.id = id
        PROVE  Claims(job'[j].cache[id], i)
    <3> DEFINE f == Counts!Only(it.id, e)
               g == job[j].cache
    <3>1. DOMAIN f = {it.id} /\ f[it.id] = e
      BY OnlyIs
    <3>2. /\ DOMAIN Counts!Over(f, g) = DOMAIN f \cup DOMAIN g
          /\ \A x \in DOMAIN f : Counts!Over(f, g)[x] = f[x]
          /\ \A x \in DOMAIN g \ DOMAIN f : Counts!Over(f, g)[x] = g[x]
      BY OverIs
    <3>3. job'[j].cache = Counts!Over(f, g)
      BY <1>2
    <3>5. g = job[j].cache
      OBVIOUS
    <3> HIDE DEF f, g
    <3>4. CASE id = it.id
      <4>1. job'[j].cache[id] = e
        BY <3>1, <3>2, <3>3, <3>4
      <4>2. Counts!Contest(i) = Counts!Contest(it)
        BY <1>1, <2>1, <3>4 DEF IdsAgree
      <4>3. Claims(e, it)
        BY DEF it
      <4> QED
        BY <4>1, <4>2, <4>3 DEF Claims
    <3>6. CASE id # it.id
      <4>1. id \in DOMAIN g /\ job'[j].cache[id] = g[id]
        BY <2>1, <3>1, <3>2, <3>3, <3>6
      <4> QED
        BY <1>1, <2>1, <3>5, <4>1 DEF JobClaims
    <3> QED
      BY <3>4, <3>6
  <2>2. Claims(job'[j].target, Returns[j][job'[j].pos])
    BY <1>1, <1>2 DEF it
  <2>3. \A n \in DOMAIN job'[j].took : n \in DOMAIN Returns[j] => Claims(job'[j].took[n], Returns[j][n])
    BY <1>1, <1>2 DEF JobClaims
  <2> QED
    BY <2>1, <2>2, <2>3 DEF JobClaims
<1>4. Prepared(j, job'[j], draft'[j], db, Past)
  BY <1>2 DEF Prepared
<1>5. \A i \in Jobs \ {j} :
        DOMAIN draft'[j]["candidate"] \cap DOMAIN draft[i]["candidate"] = {}
  BY StillApart
<1> QED
  BY <1>2, <1>3, <1>4, <1>5, WithinItem

(* What a job sees is its own, or else committed.                          *)
LEMMA JobViewIs ==
  ASSUME NEW j
  PROVE  /\ DOMAIN Counts!View(j, "elections") = DOMAIN draft[j]["elections"] \cup DOMAIN db["elections"]
         /\ \A x \in DOMAIN draft[j]["elections"] :
              Counts!View(j, "elections")[x] = draft[j]["elections"][x]
         /\ \A x \in DOMAIN db["elections"] \ DOMAIN draft[j]["elections"] :
              Counts!View(j, "elections")[x] = db["elections"][x]
  BY DEF Counts!View, Counts!Over

LEMMA SeenClaims ==
  ASSUME ReturnsInv, NEW j \in Jobs, NEW e \in DOMAIN Counts!View(j, "elections"),
         NEW i \in Counts!Items, Names(Counts!View(j, "elections")[e], i), IdsAgree
  PROVE  Claims(e, i)
<1>1. RowsClaimed(draft[j]) /\ RowsClaimed(db)
  BY DEF ReturnsInv, JobFits, BaseFits, RowsFit
<1>2. CASE e \in DOMAIN draft[j]["elections"]
  <2>1. Counts!View(j, "elections")[e] = draft[j]["elections"][e]
    BY <1>2, JobViewIs
  <2> QED
    BY <1>1, <1>2, <2>1 DEF RowsClaimed
<1>3. CASE e \notin DOMAIN draft[j]["elections"]
  <2>1. e \in DOMAIN db["elections"] /\ Counts!View(j, "elections")[e] = db["elections"][e]
    BY <1>3, JobViewIs
  <2> QED
    BY <1>1, <2>1 DEF RowsClaimed
<1> QED
  BY <1>2, <1>3

LEMMA CachedTaken ==
  ASSUME ReturnsInv, NEW j \in Jobs, Counts!MatchCached(j)
  PROVE  ReturnsInv'
<1> DEFINE it == Counts!Item(j)
           e  == job[j].cache[it.id]
<1>1. /\ job[j].pc # "idle" /\ job[j].pos =< Len(Returns[j]) /\ it.id \in DOMAIN job[j].cache
      /\ Counts!Take(j, e) /\ db' = db /\ draft' = draft /\ mark' = mark
  BY DEF Counts!MatchCached, Counts!More, Counts!At
<1>2. /\ it \in Counts!Items /\ JobClaims(j, job[j]) /\ DOMAIN draft = Jobs
      /\ RowsFit(j, draft[j], DOMAIN job[j].took \cup {job[j].pos}, job[j].took, db, Past)
  BY <1>1, ItemIs
<1>3. IdsAgree => Claims(e, it)
  BY <1>1, <1>2 DEF JobClaims
<1> HIDE DEF e, it
<1>4. it = Counts!Item(j)
  BY DEF it
<1> QED
  BY <1>1, <1>2, <1>3, <1>4, ItemTakes

LEMMA IdTaken ==
  ASSUME ReturnsInv, NEW j \in Jobs, Counts!MatchById(j)
  PROVE  ReturnsInv'
<1>1. PICK e \in Counts!Preferred(j) : Counts!Take(j, e)
  BY DEF Counts!MatchById
<1>2. /\ job[j].pc # "idle" /\ job[j].pos =< Len(Returns[j])
      /\ db' = db /\ draft' = draft /\ mark' = mark
  BY DEF Counts!MatchById, Counts!More, Counts!At
<1>3. e \in Counts!ById(j)
  BY <1>1 DEF Counts!Preferred
<1>4. e \in DOMAIN Counts!View(j, "elections") /\ Counts!View(j, "elections")[e].item = Counts!Item(j).id
  BY <1>3 DEF Counts!ById
<1>5. /\ Counts!Item(j) \in Counts!Items /\ DOMAIN draft = Jobs
      /\ RowsFit(j, draft[j], DOMAIN job[j].took \cup {job[j].pos}, job[j].took, db, Past)
  BY <1>2, ItemIs
<1>6. Names(Counts!View(j, "elections")[e], Counts!Item(j))
  BY <1>4 DEF Names
<1>7. IdsAgree => Claims(e, Counts!Item(j))
  BY <1>4, <1>5, <1>6, SeenClaims
<1> QED
  BY <1>1, <1>2, <1>5, <1>7, ItemTakes

(* The row an item takes by its district gets the item's id, and nothing   *)
(* else.                                                                   *)
LEMMA DistrictTaken ==
  ASSUME ReturnsInv, NEW j \in Jobs, Counts!MatchDistrict(j)
  PROVE  ReturnsInv'
<1> DEFINE it  == Counts!Item(j)
           V   == Counts!View(j, "elections")
           own == DOMAIN job[j].took \cup {job[j].pos}
<1>1. PICK e \in Counts!ByDistrict(j) :
        /\ Counts!Put(j, "elections", Counts!Only(e, [V[e] EXCEPT !.item = it.id]))
        /\ Counts!Take(j, e)
  BY DEF Counts!MatchDistrict
<1> DEFINE row == [V[e] EXCEPT !.item = it.id]
<1>2. /\ job[j].pc # "idle" /\ job[j].pos =< Len(Returns[j]) /\ db' = db /\ mark' = mark
  BY DEF Counts!MatchDistrict, Counts!More, Counts!At
<1>3. it.district.type # Counts!Null /\ e \in DOMAIN V /\ V[e].type = it.district.type
  <2>1. it.district.type # Counts!Null
    BY DEF Counts!ByDistrict
  <2> QED
    BY <2>1 DEF Counts!ByDistrict
<1>4. /\ it \in Counts!Items /\ DOMAIN draft = Jobs /\ DOMAIN draft[j] = Counts!Tables
      /\ RowsFit(j, draft[j], own, job[j].took, db, Past)
  BY <1>2, ItemIs
<1>5. /\ DOMAIN draft' = Jobs /\ \A i \in Jobs \ {j} : draft'[i] = draft[i]
      /\ DOMAIN draft'[j] = Counts!Tables
      /\ draft'[j]["elections"] = Counts!Over(Counts!Only(e, row), draft[j]["elections"])
      /\ \A u \in Counts!Tables \ {"elections"} : draft'[j][u] = draft[j][u]
  BY <1>1, <1>4, Puts DEF Counts!Tables
<1>6. /\ DOMAIN V[e] = Counts!ElectionFields
      /\ V[e].last = Counts!Nobody <=> e \in BeforeFiles(db)
      /\ WrittenBy(Past, V[e].last) \/ \E n \in own : V[e].last = <<j, n>>
  <2>1. CASE e \in DOMAIN draft[j]["elections"]
    <3>1. V[e] = draft[j]["elections"][e]
      BY <2>1, JobViewIs
    <3> QED
      BY <1>4, <2>1, <3>1 DEF RowsFit, TablesOf, KnownIn, OwnRows, Traced
  <2>2. CASE e \notin DOMAIN draft[j]["elections"]
    <3>1. e \in DOMAIN db["elections"] /\ V[e] = db["elections"][e]
      BY <1>3, <2>2, JobViewIs
    <3>2. TablesOf(db) /\ KnownIn(db, db) /\ CommittedRows(db, Past)
      BY DEF ReturnsInv, BaseFits
    <3> QED
      BY <3>1, <3>2 DEF TablesOf, KnownIn, CommittedRows, Traced
  <2> QED
    BY <2>1, <2>2
<1>7. /\ DOMAIN row = Counts!ElectionFields /\ row.last = V[e].last
      /\ row.item = it.id /\ row.type = V[e].type
  BY <1>6 DEF Counts!ElectionFields
<1>8. IdsAgree => Claims(e, it)
  BY <1>3, <1>4, SeenClaims DEF Names
<1>9. ASSUME IdsAgree, NEW i \in Counts!Items, Names(row, i)
      PROVE  Claims(e, i)
  <2>1. CASE row.item = i.id
    <3>1. Counts!Contest(i) = Counts!Contest(it)
      BY <1>4, <1>7, <1>9, <2>1 DEF IdsAgree
    <3> QED
      BY <1>8, <1>9, <3>1 DEF Claims
  <2>2. CASE row.item # i.id
    <3>1. Names(V[e], i)
      BY <1>7, <1>9, <2>2 DEF Names
    <3> QED
      BY <1>3, <1>9, <3>1, SeenClaims
  <2> QED
    BY <2>1, <2>2
<1>10. RowsFit(j, draft'[j], own, job[j].took, db, Past)
  <2> HIDE DEF row, V, own
  <2> DEFINE d  == draft[j]
             d2 == draft'[j]
             k  == job[j].took
  <2>1. /\ RowsFit(j, d, own, k, db, Past) /\ DOMAIN d2 = Counts!Tables
        /\ d2["elections"] = Counts!Over(Counts!Only(e, row), d["elections"])
        /\ \A u \in Counts!Tables \ {"elections"} : d2[u] = d[u]
    BY <1>4, <1>5
  <2>2. /\ DOMAIN row = Counts!ElectionFields
        /\ row.last = Counts!Nobody <=> e \in BeforeFiles(db)
        /\ WrittenBy(Past, row.last) \/ \E n \in own : row.last = <<j, n>>
    BY <1>6, <1>7
  <2> HIDE DEF d, d2, k
  <2>3. RowsFit(j, d2, own, k, db, Past)
    BY <1>9, <2>1, <2>2, ElectionPut
  <2> QED
    BY <2>3 DEF d2, k
<1>11. /\ DOMAIN draft'[j]["candidate"] = DOMAIN draft[j]["candidate"]
       /\ draft'[j]["result"] = draft[j]["result"]
  BY <1>5 DEF Counts!Tables
<1> QED
  BY <1>1, <1>2, <1>5, <1>8, <1>10, <1>11, ItemTakes DEF own

(* Within an item the cache stays.                                         *)
LEMMA GoneTo ==
  ASSUME ReturnsInv, NEW j \in Jobs, NEW pc0 \in {"event", "create"},
         job[j].pc # "idle", job[j].pos =< Len(Returns[j]),
         job' = Counts!Goto(j, pc0), db' = db, mark' = mark,
         DOMAIN draft' = Jobs, \A i \in Jobs \ {j} : draft'[i] = draft[i],
         DOMAIN draft'[j]["candidate"] = DOMAIN draft[j]["candidate"],
         draft'[j]["result"] = draft[j]["result"],
         RowsFit(j, draft'[j], DOMAIN job[j].took \cup {job[j].pos}, job[j].took, db, Past)
  PROVE  ReturnsInv'
<1>1. DOMAIN job = Jobs /\ DOMAIN job[j] = JobFields /\ JobClaims(j, job[j])
  BY ItemIs
<1>2. /\ DOMAIN job' = Jobs /\ \A i \in Jobs \ {j} : job'[i] = job[i]
      /\ DOMAIN job'[j] = JobFields /\ job'[j].pc = pc0
      /\ job'[j].pos = job[j].pos /\ job'[j].took = job[j].took
      /\ job'[j].errors = job[j].errors /\ job'[j].status = job[j].status
      /\ job'[j].target = job[j].target /\ job'[j].cache = job[j].cache
  BY <1>1, GoesTo
<1>3. JobClaims(j, job'[j])
  BY <1>1, <1>2 DEF JobClaims
<1>4. Prepared(j, job'[j], draft'[j], db, Past)
  BY <1>2 DEF Prepared
<1>5. \A i \in Jobs \ {j} :
        DOMAIN draft'[j]["candidate"] \cap DOMAIN draft[i]["candidate"] = {}
  BY StillApart
<1> QED
  BY <1>2, <1>3, <1>4, <1>5, WithinItem

LEMMA NotMatched ==
  ASSUME ReturnsInv, NEW j \in Jobs, Counts!NoMatch(j)
  PROVE  ReturnsInv'
<1>1. /\ job[j].pc # "idle" /\ job[j].pos =< Len(Returns[j])
      /\ job' = Counts!Goto(j, "event") /\ db' = db /\ draft' = draft /\ mark' = mark
  BY DEF Counts!NoMatch, Counts!More, Counts!At
<1> QED
  BY <1>1, ItemIs, GoneTo

(* What is not traced may change.                                          *)
LEMMA TracedFit ==
  ASSUME NEW j, NEW d, NEW d2, NEW b, NEW past, NEW took, NEW own,
         RowsFit(j, d, own, took, b, past), DOMAIN d2 = Counts!Tables,
         \A t \in Traced : d2[t] = d[t]
  PROVE  RowsFit(j, d2, own, took, b, past)
<1>1. /\ d2["elections"] = d["elections"] /\ d2["candidate"] = d["candidate"]
      /\ d2["result"] = d["result"] /\ d2["county"] = d["county"]
  BY DEF Traced
<1>2. TablesOf(d2)
  BY <1>1 DEF RowsFit, TablesOf
<1>3. OwnRows(j, d2, past, own)
  BY DEF RowsFit, OwnRows
<1>4. OwnResults(j, d2, b, past, took)
  BY <1>1, ResultsRest DEF RowsFit
<1>5. KnownIn(d2, b)
  BY <1>1 DEF RowsFit, KnownIn
<1>6. RowsClaimed(d2)
  BY <1>1 DEF RowsFit, RowsClaimed
<1> QED
  BY <1>2, <1>3, <1>4, <1>5, <1>6 DEF RowsFit

(* An open item's statement, by where the job is.                          *)
LEMMA AtItem ==
  ASSUME ReturnsInv, NEW j \in Jobs, job[j].pc \notin {"idle", "match"}
  PROVE  job[j].pc # "idle" /\ job[j].pos =< Len(Returns[j])
  BY DEF ReturnsInv, JobFits, Placed

LEMMA EventCreated ==
  ASSUME ReturnsInv, NEW j \in Jobs, Counts!CreateEvent(j)
  PROVE  ReturnsInv'
<1> DEFINE own == DOMAIN job[j].took \cup {job[j].pos}
           n   == Counts!Only(Counts!Item(j).event, Counts!Self(j))
<1>1. /\ job[j].pc \notin {"idle", "match"} /\ job' = Counts!Goto(j, "create")
      /\ db' = db /\ mark' = mark /\ (draft' = draft \/ Counts!Put(j, "events", n))
  BY DEF Counts!CreateEvent, Counts!At
<1>2. job[j].pc # "idle" /\ job[j].pos =< Len(Returns[j])
  BY <1>1, AtItem
<1>3. /\ DOMAIN draft = Jobs /\ DOMAIN draft[j] = Counts!Tables
      /\ RowsFit(j, draft[j], own, job[j].took, db, Past)
  BY <1>2, ItemIs
<1>4. CASE draft' = draft
  BY <1>1, <1>2, <1>3, <1>4, GoneTo
<1>5. CASE Counts!Put(j, "events", n)
  <2> HIDE DEF n
  <2>1. /\ DOMAIN draft' = Jobs /\ \A i \in Jobs \ {j} : draft'[i] = draft[i]
        /\ DOMAIN draft'[j] = Counts!Tables
        /\ \A u \in Counts!Tables \ {"events"} : draft'[j][u] = draft[j][u]
    BY <1>3, <1>5, Puts DEF Counts!Tables
  <2>2. \A u \in Traced : draft'[j][u] = draft[j][u]
    BY <2>1 DEF Traced, Counts!Tables
  <2> HIDE DEF own
  <2>3. RowsFit(j, draft'[j], own, job[j].took, db, Past)
    BY <1>3, <2>1, <2>2, TracedFit
  <2>4. draft'[j]["candidate"] = draft[j]["candidate"] /\ draft'[j]["result"] = draft[j]["result"]
    BY <2>2 DEF Traced
  <2> QED
    BY <1>1, <1>2, <2>1, <2>3, <2>4, GoneTo DEF own
<1> QED
  BY <1>1, <1>4, <1>5

(* An item without an election of its own makes one, or takes that of its  *)
(* name.                                                                   *)
LEMMA ElectionCreated ==
  ASSUME ReturnsInv, NEW j \in Jobs, Counts!CreateElection(j)
  PROVE  ReturnsInv'
<1> DEFINE it  == Counts!Item(j)
           e   == it.name
           row == [item |-> it.id, type |-> it.district.type, party |-> it.district.party,
                   county |-> Counts!Null, recount |-> it.recount, last |-> Counts!Self(j)]
           own == DOMAIN job[j].took \cup {job[j].pos}
<1>1. /\ job[j].pc \notin {"idle", "match"} /\ Counts!Take(j, e)
      /\ db' = db /\ mark' = mark
      /\ IF e \in DOMAIN Counts!View(j, "elections") THEN draft' = draft
         ELSE Counts!Put(j, "elections", Counts!Only(e, row))
  BY DEF Counts!CreateElection, Counts!At
<1>2. job[j].pc # "idle" /\ job[j].pos =< Len(Returns[j])
  BY <1>1, AtItem
<1>3. /\ it \in Counts!Items /\ DOMAIN draft = Jobs /\ DOMAIN draft[j] = Counts!Tables
      /\ RowsFit(j, draft[j], own, job[j].took, db, Past)
      /\ job[j].pos \in Nat \ {0}
  BY <1>2, ItemIs DEF JobFits, Placed
<1>4. Claims(e, it)
  BY <1>3 DEF Claims, Counts!Meant
<1>5. CASE e \in DOMAIN Counts!View(j, "elections")
  <2> HIDE DEF row
  <2>1. draft' = draft
    BY <1>1, <1>5
  <2> QED
    BY <1>1, <1>2, <1>3, <1>4, <2>1, ItemTakes
<1>6. CASE e \notin DOMAIN Counts!View(j, "elections")
  <2>1. /\ DOMAIN row = Counts!ElectionFields /\ row.last = <<j, job[j].pos>>
        /\ row.item = it.id /\ row.type = it.district.type
    BY DEF Counts!ElectionFields, Counts!Self
  <2>2. ASSUME IdsAgree, NEW i \in Counts!Items, Names(row, i)
        PROVE  Claims(e, i)
    <3>1. Counts!Contest(i) = Counts!Contest(it)
      BY <1>3, <2>1, <2>2 DEF Names, IdsAgree, Counts!Contest
    <3> QED
      BY <1>4, <3>1 DEF Claims
  <2>3. Counts!Put(j, "elections", Counts!Only(e, row))
    BY <1>1, <1>6
  <2> HIDE DEF row
  <2>4. /\ DOMAIN draft' = Jobs /\ \A i \in Jobs \ {j} : draft'[i] = draft[i]
        /\ DOMAIN draft'[j] = Counts!Tables
        /\ draft'[j]["elections"] = Counts!Over(Counts!Only(e, row), draft[j]["elections"])
        /\ \A u \in Counts!Tables \ {"elections"} : draft'[j][u] = draft[j][u]
    BY <1>3, <2>3, Puts DEF Counts!Tables
  <2>5. row.last # Counts!Nobody
    BY <1>3, <2>1 DEF Counts!Nobody
  <2>6. e \notin BeforeFiles(db)
    BY <1>6, JobViewIs DEF BeforeFiles
  <2>7. row.last = Counts!Nobody <=> e \in BeforeFiles(db)
    BY <2>5, <2>6
  <2>8. \E n \in own : row.last = <<j, n>>
    BY <2>1
  <2>9. RowsFit(j, draft'[j], own, job[j].took, db, Past)
    <3> DEFINE d  == draft[j]
               d2 == draft'[j]
               k  == job[j].took
    <3>1. /\ RowsFit(j, d, own, k, db, Past) /\ DOMAIN d2 = Counts!Tables
          /\ d2["elections"] = Counts!Over(Counts!Only(e, row), d["elections"])
          /\ \A u \in Counts!Tables \ {"elections"} : d2[u] = d[u]
      BY <1>3, <2>4
    <3> HIDE DEF d, d2, k, own, e
    <3>3. RowsFit(j, d2, own, k, db, Past)
      BY <2>1, <2>2, <2>7, <2>8, <3>1, ElectionPut
    <3> QED
      BY <3>3 DEF d2, k
  <2>10. draft'[j]["candidate"] = draft[j]["candidate"] /\ draft'[j]["result"] = draft[j]["result"]
    BY <2>4 DEF Counts!Tables
  <2> QED
    BY <1>1, <1>2, <1>4, <2>4, <2>9, <2>10, ItemTakes
<1> QED
  BY <1>5, <1>6

-----------------------------------------------------------------------------
(* Candidates and results.                                                 *)
CandidateRow(j, own, b, c, row) ==
  /\ DOMAIN row = {"party", "incumbent", "last"} /\ row.incumbent \in BOOLEAN
  /\ \E n \in own : row.last = <<j, n>>
  /\ c \in DOMAIN Known /\ c[1] \in BeforeFiles(b) => KeptOf(c, row)

LEMMA CandidatesPut ==
  ASSUME NEW j, NEW d, NEW d2, NEW b, NEW past, NEW took, NEW own, NEW new,
         RowsFit(j, d, own, took, b, past), DOMAIN d2 = Counts!Tables,
         d2["candidate"] = Counts!Over(new, d["candidate"]),
         \A t \in Counts!Tables \ {"candidate"} : d2[t] = d[t],
         \A c \in DOMAIN new : CandidateRow(j, own, b, c, new[c])
  PROVE  /\ RowsFit(j, d2, own, took, b, past)
         /\ DOMAIN d2["candidate"] = DOMAIN new \cup DOMAIN d["candidate"]
<1>1. /\ DOMAIN d2["candidate"] = DOMAIN new \cup DOMAIN d["candidate"]
      /\ \A x \in DOMAIN new : d2["candidate"][x] = new[x]
      /\ \A x \in DOMAIN d["candidate"] \ DOMAIN new : d2["candidate"][x] = d["candidate"][x]
  BY DEF Counts!Over
<1>2. d2["elections"] = d["elections"] /\ d2["result"] = d["result"] /\ d2["county"] = d["county"]
  BY DEF Counts!Tables
<1>3. \A t \in Traced : t # "candidate" => d2[t] = d[t]
  BY <1>2 DEF Traced
<1>4. TablesOf(d2)
  <2>1. ASSUME NEW c \in DOMAIN d2["candidate"]
        PROVE  /\ DOMAIN d2["candidate"][c] = {"party", "incumbent", "last"}
               /\ d2["candidate"][c].incumbent \in BOOLEAN
    <3>1. CASE c \in DOMAIN new
      <4>1. d2["candidate"][c] = new[c]
        BY <1>1, <3>1
      <4> QED
        BY <3>1, <4>1, Zenon DEF CandidateRow
    <3>2. CASE c \notin DOMAIN new
      <4>1. c \in DOMAIN d["candidate"] /\ d2["candidate"][c] = d["candidate"][c]
        BY <1>1, <3>2
      <4> QED
        BY <4>1, Zenon DEF RowsFit, TablesOf
    <3> QED
      BY <3>1, <3>2
  <2>2. \A e \in DOMAIN d2["elections"] : DOMAIN d2["elections"][e] = Counts!ElectionFields
    BY <1>2 DEF RowsFit, TablesOf
  <2> QED
    BY <2>1, <2>2, Zenon DEF TablesOf
<1>5. OwnRows(j, d2, past, own)
  <2> SUFFICES ASSUME NEW t \in Traced, NEW k \in DOMAIN d2[t]
               PROVE  WrittenBy(past, d2[t][k].last) \/ \E n \in own : d2[t][k].last = <<j, n>>
    BY DEF OwnRows
  <2>1. CASE t # "candidate"
    BY <1>3, <2>1 DEF OwnRows, RowsFit
  <2>2. CASE t = "candidate" /\ k \in DOMAIN new
    BY <1>1, <2>2 DEF CandidateRow
  <2>3. CASE t = "candidate" /\ k \notin DOMAIN new
    BY <1>1, <2>3 DEF OwnRows, RowsFit
  <2> QED
    BY <2>1, <2>2, <2>3
<1>6. OwnResults(j, d2, b, past, took)
  <2>1. DOMAIN d["candidate"] \subseteq DOMAIN d2["candidate"]
    BY <1>1
  <2> QED
    BY <1>2, <2>1, ResultsRest DEF RowsFit
<1>7. KnownIn(d2, b)
  <2>1. ASSUME NEW c \in DOMAIN d2["candidate"], c \in DOMAIN Known, c[1] \in BeforeFiles(b)
        PROVE  KeptOf(c, d2["candidate"][c])
    <3>1. CASE c \in DOMAIN new
      BY <1>1, <2>1, <3>1 DEF CandidateRow
    <3>2. CASE c \notin DOMAIN new
      BY <1>1, <2>1, <3>2 DEF RowsFit, KnownIn
    <3> QED
      BY <3>1, <3>2
  <2> QED
    BY <1>2, <2>1 DEF RowsFit, KnownIn
<1>8. RowsClaimed(d2)
  BY <1>2 DEF RowsClaimed, RowsFit
<1> QED
  BY <1>1, <1>4, <1>5, <1>6, <1>7, <1>8 DEF RowsFit

(* What a candidate was known for is seen and is kept.                     *)
LEMMA SeenCandidate ==
  ASSUME ReturnsInv, NEW j \in Jobs, NEW c,
         c \in DOMAIN Counts!View(j, "candidate")
  PROVE  LET old == Counts!View(j, "candidate")[c]
         IN /\ DOMAIN old = {"party", "incumbent", "last"} /\ old.incumbent \in BOOLEAN
            /\ c \in DOMAIN Known /\ c[1] \in BeforeFiles(db) => KeptOf(c, old)
<1> DEFINE old == Counts!View(j, "candidate")[c]
<1>1. /\ DOMAIN Counts!View(j, "candidate") = DOMAIN draft[j]["candidate"] \cup DOMAIN db["candidate"]
      /\ c \in DOMAIN draft[j]["candidate"] => old = draft[j]["candidate"][c]
      /\ c \notin DOMAIN draft[j]["candidate"] => old = db["candidate"][c]
  BY DEF Counts!View, Counts!Over
<1>2. /\ TablesOf(draft[j]) /\ KnownIn(draft[j], db) /\ TablesOf(db) /\ KnownIn(db, db)
  BY DEF ReturnsInv, JobFits, BaseFits, RowsFit
<1> HIDE DEF old
<1>3. CASE c \in DOMAIN draft[j]["candidate"]
  <2>1. old = draft[j]["candidate"][c]
    BY <1>1, <1>3
  <2>2. DOMAIN old = {"party", "incumbent", "last"} /\ old.incumbent \in BOOLEAN
    BY <1>2, <1>3, <2>1, Zenon DEF TablesOf
  <2>3. c \in DOMAIN Known /\ c[1] \in BeforeFiles(db) => KeptOf(c, old)
    BY <1>2, <1>3, <2>1 DEF KnownIn
  <2> QED
    BY <2>2, <2>3 DEF old
<1>4. CASE c \notin DOMAIN draft[j]["candidate"]
  <2>1. c \in DOMAIN db["candidate"] /\ old = db["candidate"][c]
    BY <1>1, <1>4
  <2>2. DOMAIN old = {"party", "incumbent", "last"} /\ old.incumbent \in BOOLEAN
    BY <1>2, <2>1, Zenon DEF TablesOf
  <2>3. c \in DOMAIN Known /\ c[1] \in BeforeFiles(db) => KeptOf(c, old)
    BY <1>2, <2>1 DEF KnownIn
  <2> QED
    BY <2>2, <2>3 DEF old
<1> QED
  BY <1>3, <1>4

LEMMA KeptByUpdate ==
  ASSUME NEW j \in Jobs, NEW c, NEW old, DOMAIN old = {"party", "incumbent", "last"},
         old.incumbent \in BOOLEAN, Counts!OptionOf(j, c).incumbent \in BOOLEAN,
         NEW kept0 \in BOOLEAN, kept0 => KeptOf(c, old)
  PROVE  LET row == Counts!Conservative(j, old, c)
         IN /\ DOMAIN row = {"party", "incumbent", "last"} /\ row.incumbent \in BOOLEAN
            /\ row.last = Counts!Self(j) /\ (kept0 => KeptOf(c, row))
<1> DEFINE row == Counts!Conservative(j, old, c)
           o   == Counts!OptionOf(j, c)
<1>1. CASE c \notin Listed
  <2>1. row = [old EXCEPT !.last = Counts!Self(j)]
    BY <1>1 DEF Counts!Conservative
  <2> HIDE DEF row
  <2>2. /\ DOMAIN row = {"party", "incumbent", "last"} /\ row.incumbent = old.incumbent
        /\ row.party = old.party /\ row.last = Counts!Self(j)
    BY <2>1
  <2>3. row.incumbent \in BOOLEAN
    BY <2>2, Zenon
  <2>4. kept0 => KeptOf(c, row)
    BY <2>2 DEF KeptOf
  <2> QED
    BY <2>2, <2>3, <2>4 DEF row
<1>2. CASE c \in Listed
  <2> DEFINE p == IF old.party = Counts!Null THEN o.party ELSE old.party
             q == old.incumbent \/ o.incumbent
  <2>1. row = [party |-> p, incumbent |-> q, last |-> Counts!Self(j)]
    BY <1>2 DEF Counts!Conservative
  <2>2. q \in BOOLEAN /\ (old.incumbent => q)
    BY Zenon
  <2>3. old.party # Counts!Null => p = old.party
    OBVIOUS
  <2> HIDE DEF row, p, q
  <2>4. /\ DOMAIN row = {"party", "incumbent", "last"} /\ row.incumbent = q
        /\ row.party = p /\ row.last = Counts!Self(j)
    BY <2>1
  <2>5. row.incumbent \in BOOLEAN
    BY <2>2, <2>4, Zenon
  <2>6. kept0 => KeptOf(c, row)
    BY <2>2, <2>3, <2>4 DEF KeptOf
  <2> QED
    BY <2>4, <2>5, <2>6 DEF row
<1> QED
  BY <1>1, <1>2

(* What an option says of a candidate.                                     *)
LEMMA OptionIs ==
  ASSUME ReturnsInv, NEW j \in Jobs, job[j].pc # "idle", job[j].pos =< Len(Returns[j]),
         NEW c \in Counts!Rows(j)
  PROVE  Counts!OptionOf(j, c).incumbent \in BOOLEAN
<1>1. PICK o \in Counts!Options(j) : c = <<job[j].target, o.who>>
  BY DEF Counts!Rows
<1>2. c[2] = o.who
  BY <1>1
<1>3. Counts!OptionOf(j, c) \in Counts!Options(j)
  BY <1>2 DEF Counts!OptionOf
<1>4. PICK n \in DOMAIN Counts!Item(j).options : Counts!OptionOf(j, c) = Counts!Item(j).options[n]
  BY <1>3 DEF Counts!Options
<1>5. job[j].pos \in DOMAIN Returns[j] /\ Counts!Item(j) = Returns[j][job[j].pos]
  BY ItemIs
<1>6. Counts!Item(j).options[n].incumbent \in BOOLEAN
  BY <1>4, <1>5, ReturnFacts, Zenon
<1> QED
  BY <1>4, <1>6, Zenon

LEMMA CandidatesUpserted ==
  ASSUME ReturnsInv, NEW j \in Jobs, Counts!UpsertCandidates(j)
  PROVE  ReturnsInv'
<1> DEFINE own == DOMAIN job[j].took \cup {job[j].pos}
           V   == Counts!View(j, "candidate")
           new == [c \in Counts!Rows(j) |->
                     IF c \in DOMAIN V THEN Counts!Conservative(j, V[c], c)
                     ELSE [party |-> Counts!OptionOf(j, c).party,
                           incumbent |-> Counts!OptionOf(j, c).incumbent, last |-> Counts!Self(j)]]
<1>1. /\ job[j].pc = "candidates" /\ job[j].target \in DOMAIN Counts!View(j, "elections")
      /\ \A c \in Counts!Rows(j) : ~Counts!Locked(j, "candidate", c)
      /\ Counts!Put(j, "candidate", new)
      /\ job' = Counts!Goto(j, "persist") /\ db' = db /\ mark' = mark
  BY DEF Counts!UpsertCandidates, Counts!At
<1>2. job[j].pc # "idle" /\ job[j].pos =< Len(Returns[j])
  BY <1>1, AtItem
<1>3. /\ DOMAIN job = Jobs /\ DOMAIN job[j] = JobFields /\ JobClaims(j, job[j])
      /\ DOMAIN draft = Jobs /\ DOMAIN draft[j] = Counts!Tables
      /\ RowsFit(j, draft[j], own, job[j].took, db, Past)
      /\ Counts!Item(j) = Returns[j][job[j].pos]
  BY <1>2, ItemIs
<1>4. /\ DOMAIN job' = Jobs /\ \A i \in Jobs \ {j} : job'[i] = job[i]
      /\ DOMAIN job'[j] = JobFields /\ job'[j].pc = "persist"
      /\ job'[j].pos = job[j].pos /\ job'[j].took = job[j].took
      /\ job'[j].errors = job[j].errors /\ job'[j].status = job[j].status
      /\ job'[j].target = job[j].target /\ job'[j].cache = job[j].cache
  BY <1>1, <1>3, GoesTo
<1>5. ASSUME NEW c \in Counts!Rows(j)
      PROVE  /\ DOMAIN new[c] = {"party", "incumbent", "last"} /\ new[c].incumbent \in BOOLEAN
             /\ new[c].last = <<j, job[j].pos>>
             /\ c \in DOMAIN Known /\ c[1] \in BeforeFiles(db) => KeptOf(c, new[c])
  <2>1. Counts!OptionOf(j, c).incumbent \in BOOLEAN
    BY <1>2, OptionIs
  <2>2. CASE c \in DOMAIN V
    <3> DEFINE row == Counts!Conservative(j, V[c], c)
               k   == c \in DOMAIN Known /\ c[1] \in BeforeFiles(db)
    <3>1. /\ DOMAIN V[c] = {"party", "incumbent", "last"} /\ V[c].incumbent \in BOOLEAN
          /\ k => KeptOf(c, V[c])
      BY <2>2, SeenCandidate
    <3>2. k \in BOOLEAN
      OBVIOUS
    <3>3. new[c] = row
      BY <2>2
    <3> HIDE DEF k, V, new
    <3>4. /\ DOMAIN row = {"party", "incumbent", "last"} /\ row.incumbent \in BOOLEAN
          /\ row.last = Counts!Self(j) /\ (k => KeptOf(c, row))
      BY <2>1, <3>1, <3>2, KeptByUpdate
    <3> HIDE DEF row
    <3>5. /\ DOMAIN new[c] = {"party", "incumbent", "last"} /\ new[c].incumbent \in BOOLEAN
          /\ new[c].last = Counts!Self(j) /\ (k => KeptOf(c, new[c]))
      BY <3>3, <3>4, Zenon
    <3> QED
      BY <3>5, Zenon DEF k, Counts!Self
  <2>3. CASE c \notin DOMAIN V
    <3> DEFINE o == Counts!OptionOf(j, c)
    <3>1. new[c] = [party |-> o.party, incumbent |-> o.incumbent, last |-> <<j, job[j].pos>>]
      BY <2>3 DEF Counts!Self
    <3> HIDE DEF new
    <3>2. /\ DOMAIN new[c] = {"party", "incumbent", "last"} /\ new[c].incumbent = o.incumbent
          /\ new[c].last = <<j, job[j].pos>>
      BY <3>1
    <3>3. new[c].incumbent \in BOOLEAN
      BY <2>1, <3>2, Zenon
    <3>4. c \notin DOMAIN db["candidate"]
      BY <2>3 DEF Counts!View, Counts!Over
    <3>5. ~(c \in DOMAIN Known /\ c[1] \in BeforeFiles(db))
      BY <3>4 DEF ReturnsInv, BaseFits, KnownThere
    <3> QED
      BY <3>2, <3>3, <3>5
  <2> QED
    BY <2>2, <2>3
<1>6. DOMAIN new = Counts!Rows(j)
  OBVIOUS
<1> HIDE DEF new, V
<1>7. /\ DOMAIN draft' = Jobs /\ \A i \in Jobs \ {j} : draft'[i] = draft[i]
      /\ DOMAIN draft'[j] = Counts!Tables
      /\ draft'[j]["candidate"] = Counts!Over(new, draft[j]["candidate"])
      /\ \A u \in Counts!Tables \ {"candidate"} : draft'[j][u] = draft[j][u]
  BY <1>1, <1>3, Puts DEF Counts!Tables
<1>8. /\ RowsFit(j, draft'[j], own, job[j].took, db, Past)
      /\ DOMAIN draft'[j]["candidate"] = Counts!Rows(j) \cup DOMAIN draft[j]["candidate"]
      /\ draft'[j]["result"] = draft[j]["result"]
  <2> DEFINE d  == draft[j]
             d2 == draft'[j]
             k  == job[j].took
             n  == job[j].pos
  <2>1. /\ RowsFit(j, d, own, k, db, Past) /\ DOMAIN d2 = Counts!Tables
        /\ d2["candidate"] = Counts!Over(new, d["candidate"])
        /\ \A u \in Counts!Tables \ {"candidate"} : d2[u] = d[u]
    BY <1>3, <1>7
  <2>2. n \in own
    OBVIOUS
  <2>3. \A c \in DOMAIN new :
           /\ DOMAIN new[c] = {"party", "incumbent", "last"} /\ new[c].incumbent \in BOOLEAN
           /\ new[c].last = <<j, n>>
           /\ c \in DOMAIN Known /\ c[1] \in BeforeFiles(db) => KeptOf(c, new[c])
    BY <1>5, <1>6, Zenon
  <2> HIDE DEF d, d2, k, own, n
  <2>4. \A c \in DOMAIN new : CandidateRow(j, own, db, c, new[c])
    BY <2>2, <2>3, Zenon DEF CandidateRow
  <2>5. /\ RowsFit(j, d2, own, k, db, Past)
        /\ DOMAIN d2["candidate"] = DOMAIN new \cup DOMAIN d["candidate"]
    BY <2>1, <2>4, CandidatesPut
  <2> QED
    BY <1>6, <1>7, <2>5 DEF d2, k, d, Counts!Tables
<1>9. JobClaims(j, job'[j])
  BY <1>1, <1>3, <1>4 DEF JobClaims
<1>10. Prepared(j, job'[j], draft'[j], db, Past)
  <2>1. job[j].target \in DOMAIN draft'[j]["elections"] \cup DOMAIN db["elections"]
    BY <1>1, <1>7, JobViewIs DEF Counts!Tables
  <2>2. \A o \in DOMAIN Returns[j][job[j].pos].options :
          <<job[j].target, Returns[j][job[j].pos].options[o].who>> \in DOMAIN draft'[j]["candidate"]
    BY <1>3, <1>8 DEF Counts!Rows, Counts!Options
  <2> QED
    BY <1>4, <2>1, <2>2 DEF Prepared
<1>11. \A i \in Jobs \ {j} :
        DOMAIN draft'[j]["candidate"] \cap DOMAIN draft[i]["candidate"] = {}
  <2>1. \A i \in Jobs \ {j} : DOMAIN draft[j]["candidate"] \cap DOMAIN draft[i]["candidate"] = {}
    BY StillApart
  <2>2. \A i \in Jobs \ {j} : Counts!Rows(j) \cap DOMAIN draft[i]["candidate"] = {}
    BY <1>1 DEF Counts!Locked
  <2> QED
    BY <1>8, <2>1, <2>2
<1> QED
  BY <1>1, <1>2, <1>4, <1>7, <1>8, <1>9, <1>10, <1>11, WithinItem

(* The result is read: what is seen then is what the job remembers.        *)
LEMMA ResultRead ==
  ASSUME ReturnsInv, NEW j \in Jobs, Counts!ReadResult(j)
  PROVE  ReturnsInv'
<1> DEFINE V == Counts!View(j, "result")
           s == IF job[j].target \in DOMAIN V THEN V[job[j].target].votes ELSE Counts!Null
<1>1. /\ job[j].pc = "persist" /\ db' = db /\ mark' = mark /\ draft' = draft
      /\ job' = [job EXCEPT ![j].pc = "write", ![j].seen = s]
  BY DEF Counts!ReadResult, Counts!At
<1>2. job[j].pc # "idle" /\ job[j].pos =< Len(Returns[j])
  BY <1>1, AtItem
<1>3. /\ DOMAIN job = Jobs /\ DOMAIN job[j] = JobFields /\ JobClaims(j, job[j])
      /\ DOMAIN draft = Jobs
      /\ RowsFit(j, draft[j], DOMAIN job[j].took \cup {job[j].pos}, job[j].took, db, Past)
      /\ Prepared(j, job[j], draft[j], db, Past)
  BY <1>2, ItemIs DEF JobFits
<1>4. s # Counts!Null => job[j].target \in DOMAIN V /\ V[job[j].target].votes = s
  OBVIOUS
<1>5. V = Counts!Over(draft[j]["result"], db["result"])
  BY DEF Counts!View
<1> HIDE DEF s, V
<1>6. /\ DOMAIN job' = Jobs /\ \A i \in Jobs \ {j} : job'[i] = job[i]
      /\ DOMAIN job'[j] = JobFields /\ job'[j].pc = "write" /\ job'[j].seen = s
      /\ job'[j].pos = job[j].pos /\ job'[j].took = job[j].took
      /\ job'[j].errors = job[j].errors /\ job'[j].status = job[j].status
      /\ job'[j].target = job[j].target /\ job'[j].cache = job[j].cache
  BY <1>1, <1>3 DEF JobFields
<1>7. JobClaims(j, job'[j])
  BY <1>1, <1>3, <1>6 DEF JobClaims
<1>8. Prepared(j, job'[j], draft[j], db, Past)
  BY <1>1, <1>3, <1>4, <1>5, <1>6 DEF Prepared
<1>9. \A i \in Jobs \ {j} :
        DOMAIN draft[j]["candidate"] \cap DOMAIN draft[i]["candidate"] = {}
  BY StillApart
<1> QED
  BY <1>1, <1>2, <1>3, <1>6, <1>7, <1>8, <1>9, WithinItem

LEMMA MoreOwn ==
  ASSUME NEW j, NEW D, NEW own, NEW own2, NEW took, NEW b, NEW past,
         RowsFit(j, D, own, took, b, past), own \subseteq own2
  PROVE  RowsFit(j, D, own2, took, b, past)
  BY DEF RowsFit, OwnRows

(* A result is written with its counties, by item n.                       *)
ResultWrites(j, d, d2, b, past, took, took2, e, n, row, crow, g) ==
  LET i == Returns[j][n]
  IN /\ DOMAIN d2 = Counts!Tables
     /\ d2["elections"] = d["elections"] /\ d2["candidate"] = d["candidate"]
     /\ d2["result"] = Counts!Over(Counts!Only(e, row), d["result"])
     /\ d2["county"] = Counts!Over(g, d["county"])
     /\ DOMAIN g = {e} \X i.counties /\ (\A x \in DOMAIN g : g[x] = crow)
     /\ row.last = <<j, n>> /\ crow = [votes |-> i.votes, last |-> <<j, n>>]
     /\ n \notin DOMAIN took /\ took2 = Counts!Over(Counts!Only(n, e), took)
     /\ e \in DOMAIN d["elections"] \cup DOMAIN b["elections"]
     /\ \A o \in DOMAIN i.options : <<e, i.options[o].who>> \in DOMAIN d["candidate"]
     /\ (row.votes = i.votes \/ Moved(past, e, j, i))

LEMMA ResultPut ==
  ASSUME NEW j, NEW d, NEW d2, NEW b, NEW past, NEW took, NEW took2, NEW e, NEW n,
         NEW row, NEW crow, NEW g,
         RowsFit(j, d, DOMAIN took \cup {n}, took, b, past),
         ResultWrites(j, d, d2, b, past, took, took2, e, n, row, crow, g)
  PROVE  RowsFit(j, d2, DOMAIN took2, took2, b, past)
<1> DEFINE i == Returns[j][n]
           own == DOMAIN took \cup {n}
<1>0. /\ DOMAIN d2 = Counts!Tables
      /\ d2["elections"] = d["elections"] /\ d2["candidate"] = d["candidate"]
      /\ d2["result"] = Counts!Over(Counts!Only(e, row), d["result"])
      /\ d2["county"] = Counts!Over(g, d["county"])
      /\ DOMAIN g = {e} \X i.counties /\ (\A x \in DOMAIN g : g[x] = crow)
      /\ row.last = <<j, n>> /\ crow = [votes |-> i.votes, last |-> <<j, n>>]
      /\ n \notin DOMAIN took /\ took2 = Counts!Over(Counts!Only(n, e), took)
      /\ e \in DOMAIN d["elections"] \cup DOMAIN b["elections"]
      /\ \A o \in DOMAIN i.options : <<e, i.options[o].who>> \in DOMAIN d["candidate"]
      /\ (row.votes = i.votes \/ Moved(past, e, j, i))
      /\ RowsFit(j, d, own, took, b, past)
  BY DEF ResultWrites
<1> HIDE DEF own
<1>1. /\ DOMAIN d2["result"] = {e} \cup DOMAIN d["result"] /\ d2["result"][e] = row
      /\ \A x \in DOMAIN d["result"] \ {e} : d2["result"][x] = d["result"][x]
  BY <1>0 DEF Counts!Over, Counts!Only
<1>5. /\ DOMAIN took2 = {n} \cup DOMAIN took /\ took2[n] = e
      /\ \A x \in DOMAIN took : took2[x] = took[x]
  BY <1>0 DEF Counts!Over, Counts!Only
<1>2. crow.last = <<j, n>> /\ own \subseteq DOMAIN took2
  BY <1>0, <1>5 DEF own
<1>4. /\ DOMAIN d2["county"] = ({e} \X i.counties) \cup DOMAIN d["county"]
      /\ \A x \in {e} \X i.counties : d2["county"][x] = crow
      /\ \A x \in DOMAIN d["county"] \ ({e} \X i.counties) : d2["county"][x] = d["county"][x]
  BY <1>0 DEF Counts!Over
<1>6. TablesOf(d2)
  BY <1>0 DEF RowsFit, TablesOf
<1>7. OwnRows(j, d2, past, DOMAIN took2)
  <2> SUFFICES ASSUME NEW t \in Traced, NEW k \in DOMAIN d2[t]
               PROVE  WrittenBy(past, d2[t][k].last) \/ \E x \in DOMAIN took2 : d2[t][k].last = <<j, x>>
    BY DEF OwnRows
  <2>1. CASE t = "elections" \/ t = "candidate"
    BY <1>0, <1>2, <2>1 DEF RowsFit, OwnRows
  <2>2. CASE t = "result"
    <3>1. CASE k = e
      BY <1>0, <1>1, <1>5, <2>2, <3>1
    <3>2. CASE k # e
      <4>1. k \in DOMAIN d["result"] /\ d2["result"][k] = d["result"][k]
        BY <1>1, <2>2, <3>2
      <4> QED
        BY <1>0, <1>2, <2>2, <4>1 DEF RowsFit, OwnRows
    <3> QED
      BY <3>1, <3>2
  <2>3. CASE t = "county"
    <3>1. CASE k \in {e} \X i.counties
      <4>1. d2["county"][k] = crow
        BY <1>4, <3>1
      <4> QED
        BY <1>2, <1>5, <2>3, <4>1
    <3>2. CASE k \notin {e} \X i.counties
      <4>1. k \in DOMAIN d["county"] /\ d2["county"][k] = d["county"][k]
        BY <1>4, <2>3, <3>2
      <4> QED
        BY <1>0, <1>2, <2>3, <4>1 DEF RowsFit, OwnRows
    <3> QED
      BY <3>1, <3>2
  <2> QED
    BY <2>1, <2>2, <2>3 DEF Traced
<1>8. CountiesOf(d2)
  BY <1>0, <1>1, <1>4 DEF RowsFit, OwnResults, CountiesOf
<1>9. ItemIn(d2, b, past, e, j, n)
  <2>1. \A c \in i.counties : <<e, c>> \in DOMAIN d2["county"] /\ d2["county"][<<e, c>>] = crow
    BY <1>4
  <2>2. d2["result"][e] = row
    BY <1>1
  <2> QED
    BY <1>0, <2>1, <2>2 DEF ItemIn
<1>10. ASSUME NEW x \in DOMAIN d2["result"], x # e
       PROVE  \E y \in DOMAIN took2 : took2[y] = x /\ ItemIn(d2, b, past, x, j, y)
  <2>1. x \in DOMAIN d["result"] /\ d2["result"][x] = d["result"][x]
    BY <1>1, <1>10
  <2>2. PICK y \in DOMAIN took : took[y] = x /\ ItemIn(d, b, past, x, j, y)
    BY <1>0, <2>1 DEF RowsFit, OwnResults
  <2>3. \A c : <<x, c>> \notin {e} \X i.counties
    BY <1>10
  <2>4. \A c : <<x, c>> \in DOMAIN d["county"] =>
          <<x, c>> \in DOMAIN d2["county"] /\ d2["county"][<<x, c>>] = d["county"][<<x, c>>]
    BY <1>4, <2>3
  <2>5. ItemIn(d2, b, past, x, j, y)
    BY <1>0, <2>1, <2>2, <2>4 DEF ItemIn
  <2> QED
    BY <1>5, <2>2, <2>5
<1>11. OwnResults(j, d2, b, past, took2)
  BY <1>5, <1>8, <1>9, <1>10 DEF OwnResults
<1>12. KnownIn(d2, b) /\ RowsClaimed(d2)
  BY <1>0 DEF RowsFit, KnownIn, RowsClaimed
<1> QED
  BY <1>6, <1>7, <1>11, <1>12 DEF RowsFit

(* What the end of an item leaves.                                         *)
LEMMA EndItemIs ==
  ASSUME NEW j \in Jobs, DOMAIN job = Jobs, DOMAIN job[j] = JobFields,
         job' = Counts!EndItem(j)
  PROVE  /\ DOMAIN job' = Jobs /\ \A i \in Jobs \ {j} : job'[i] = job[i]
         /\ DOMAIN job'[j] = JobFields /\ job'[j].pc = "match"
         /\ job'[j].pos = job[j].pos + 1
         /\ job'[j].took = Counts!Over(Counts!Only(job[j].pos, job[j].target), job[j].took)
         /\ job'[j].errors = job[j].errors /\ job'[j].status = job[j].status
         /\ job'[j].cache = job[j].cache
<1> DEFINE n == job[j].pos + 1
           k == Counts!Over(Counts!Only(job[j].pos, job[j].target), job[j].took)
           r2 == [[[[[job[j] EXCEPT !.pc = "match"] EXCEPT !.pos = n] EXCEPT !.target = Counts!Null]
                    EXCEPT !.seen = Counts!Null] EXCEPT !.took = k]
<1>1. job' = [job EXCEPT ![j].pc = "match", ![j].pos = n, ![j].target = Counts!Null,
                         ![j].seen = Counts!Null, ![j].took = k]
  BY DEF Counts!EndItem
<1> HIDE DEF n, k
<1>2. job' = [job EXCEPT ![j] = r2]
  BY <1>1
<1>3. /\ DOMAIN r2 = JobFields /\ r2.pc = "match" /\ r2.pos = n /\ r2.took = k
      /\ r2.errors = job[j].errors /\ r2.status = job[j].status /\ r2.cache = job[j].cache
  BY DEF JobFields
<1> HIDE DEF r2
<1> QED
  BY <1>2, <1>3 DEF n, k

LEMMA ResultWritten ==
  ASSUME ReturnsInv, NEW j \in Jobs, Counts!WriteResult(j)
  PROVE  ReturnsInv'
<1> DEFINE it  == Counts!Item(j)
           V   == Counts!View(j, "result")
           e   == job[j].target
           n   == job[j].pos
           own == DOMAIN job[j].took \cup {n}
           v   == IF it.votes = job[j].seen THEN V[e].votes ELSE it.votes
           row == [votes |-> v, last |-> <<j, n>>]
           crow == [votes |-> it.votes, last |-> <<j, n>>]
           f   == Counts!Only(e, row)
           g   == [c \in {e} \X it.counties |-> crow]
           took2 == Counts!Over(Counts!Only(n, e), job[j].took)
<1>1. /\ job[j].pc = "write" /\ db' = db /\ job' = Counts!EndItem(j)
      /\ draft' = [draft EXCEPT ![j]["result"] = Counts!Over(f, @), ![j]["county"] = Counts!Over(g, @)]
      /\ mark' = [mark EXCEPT ![j] = draft'[j]]
  BY DEF Counts!WriteResult, Counts!At, Counts!Self
<1>2. job[j].pc # "idle" /\ job[j].pos =< Len(Returns[j])
  BY <1>1, AtItem
<1>3. /\ DOMAIN job = Jobs /\ DOMAIN job[j] = JobFields /\ JobClaims(j, job[j])
      /\ DOMAIN draft = Jobs /\ DOMAIN draft[j] = Counts!Tables /\ DOMAIN mark = Jobs
      /\ RowsFit(j, draft[j], own, job[j].took, db, Past)
      /\ it = Returns[j][n] /\ n \in DOMAIN Returns[j]
      /\ Prepared(j, job[j], draft[j], db, Past) /\ Placed(j, job[j]) /\ Taken(job[j], mark[j])
      /\ Follows(job[j], mark[j], draft[j])
  BY <1>2, ItemIs DEF JobFits, ReturnsInv
<1>4. /\ DOMAIN job' = Jobs /\ \A i \in Jobs \ {j} : job'[i] = job[i]
      /\ DOMAIN job'[j] = JobFields /\ job'[j].pc = "match" /\ job'[j].pos = n + 1
      /\ job'[j].took = took2
      /\ job'[j].errors = job[j].errors /\ job'[j].status = job[j].status
      /\ job'[j].cache = job[j].cache
  BY <1>1, <1>3, EndItemIs
<1>5. it.votes # Counts!Null
  BY <1>3, ReturnFacts
<1>6. /\ e \in DOMAIN draft[j]["elections"] \cup DOMAIN db["elections"]
      /\ \A o \in DOMAIN it.options : <<e, it.options[o].who>> \in DOMAIN draft[j]["candidate"]
      /\ v = it.votes \/ Moved(Past, e, j, it)
  <2>1. V = Counts!Over(draft[j]["result"], db["result"])
    BY DEF Counts!View
  <2>2. job[j].seen # Counts!Null =>
          \/ e \in DOMAIN V /\ V[e].votes = job[j].seen
          \/ Moved(Past, e, j, it)
    BY <1>1, <1>3, <2>1 DEF Prepared
  <2>3. v = it.votes \/ Moved(Past, e, j, it)
    BY <1>5, <2>2
  <2> QED
    BY <1>1, <1>3, <2>3 DEF Prepared
<1>7. n \in Nat \ {0} /\ n \notin DOMAIN job[j].took /\ n \notin job[j].errors
  <2>1. /\ n \in Nat \ {0} /\ job[j].errors \subseteq 1 .. (n - 1)
        /\ DOMAIN job[j].took = (1 .. (n - 1)) \ job[j].errors
    BY <1>2, <1>3 DEF Placed
  <2> HIDE DEF n
  <2> QED
    BY <2>1
<1>8. /\ DOMAIN took2 = {n} \cup DOMAIN job[j].took /\ took2[n] = e
      /\ \A x \in DOMAIN job[j].took : took2[x] = job[j].took[x]
  <2> HIDE DEF n, e
  <2> QED
    BY <1>7 DEF Counts!Over, Counts!Only
<1> DEFINE d  == draft[j]
           d2 == draft'[j]
<1>9. /\ DOMAIN draft' = Jobs /\ \A i \in Jobs \ {j} : draft'[i] = draft[i]
      /\ DOMAIN d2 = Counts!Tables
      /\ d2["result"] = Counts!Over(f, d["result"]) /\ d2["county"] = Counts!Over(g, d["county"])
      /\ d2["elections"] = d["elections"] /\ d2["candidate"] = d["candidate"]
  <2> HIDE DEF f, g
  <2> QED
    BY <1>1, <1>3 DEF Counts!Tables
<1>10. RowsFit(j, d2, DOMAIN took2, took2, db, Past)
  <2> DEFINE k == job[j].took
  <2>1. /\ d2["result"] = Counts!Over(Counts!Only(e, row), d["result"])
        /\ d2["county"] = Counts!Over(g, d["county"])
    BY <1>9
  <2>7. /\ row.last = <<j, n>> /\ row.votes = v /\ crow = [votes |-> it.votes, last |-> <<j, n>>]
        /\ DOMAIN g = {e} \X it.counties /\ \A x \in DOMAIN g : g[x] = crow
    OBVIOUS
  <2>2. took2 = Counts!Over(Counts!Only(n, e), k) /\ own \subseteq DOMAIN took2 /\ n \notin DOMAIN k
    BY <1>7, <1>8
  <2>3. RowsFit(j, d, own, k, db, Past) /\ it = Returns[j][n]
    BY <1>3
  <2>4. /\ e \in DOMAIN d["elections"] \cup DOMAIN db["elections"]
        /\ \A o \in DOMAIN it.options : <<e, it.options[o].who>> \in DOMAIN d["candidate"]
    BY <1>6
  <2>5. /\ DOMAIN d2 = Counts!Tables
        /\ d2["elections"] = d["elections"] /\ d2["candidate"] = d["candidate"]
    BY <1>9
  <2>6. v = it.votes \/ Moved(Past, e, j, it)
    BY <1>6
  <2> HIDE DEF it, V, e, n, own, v, f, g, took2, d, d2, k, row, crow
  <2>8. row.votes = it.votes \/ Moved(Past, e, j, it)
    BY <2>6, <2>7
  <2>9. ResultWrites(j, d, d2, db, Past, k, took2, e, n, row, crow, g)
    BY <2>1, <2>2, <2>3, <2>4, <2>5, <2>7, <2>8 DEF ResultWrites
  <2>10. RowsFit(j, d, DOMAIN k \cup {n}, k, db, Past)
    BY <2>3 DEF own, k
  <2> QED
    BY <2>9, <2>10, ResultPut
<1>11. /\ DOMAIN mark' = Jobs /\ mark'[j] = d2 /\ \A i \in Jobs \ {j} : mark'[i] = mark[i]
  BY <1>1, <1>3
<1>12. Placed(j, job'[j])
  <2> DEFINE L == Len(Returns[j])
             T == DOMAIN job[j].took
             E == job[j].errors
             T2 == DOMAIN took2
  <2>1. /\ n \in Nat \ {0} /\ n =< L /\ E \subseteq 1 .. (n - 1) /\ T = (1 .. (n - 1)) \ E
        /\ L \in Nat /\ T2 = {n} \cup T
    BY <1>2, <1>3, <1>8, ReturnFacts DEF Placed
  <2>2. job[j].status = "running"
    BY <1>2, <1>3 DEF Placed
  <2> HIDE DEF L, T, E, T2, n
  <2>3. /\ n + 1 \in Nat \ {0} /\ n + 1 =< L + 1 /\ E \subseteq 1 .. ((n + 1) - 1)
        /\ T2 = (1 .. ((n + 1) - 1)) \ E
    BY <2>1
  <2>4. /\ job'[j].pos = n + 1 /\ job'[j].errors = E /\ DOMAIN job'[j].took = T2
        /\ job'[j].pc = "match" /\ job'[j].status = "running" /\ DOMAIN job'[j] = JobFields
    BY <1>4, <2>2 DEF E, T2
  <2> QED
    BY <2>3, <2>4 DEF Placed, L
<1>13. Follows(job'[j], d2, d2)
  BY <1>4 DEF Follows
<1>14. JobClaims(j, job'[j])
  <2> SUFFICES ASSUME IdsAgree PROVE JobClaims(j, job'[j])
    BY DEF JobClaims
  <2>1. \A id \in DOMAIN job'[j].cache : \A i \in Counts!Items : i.id = id => Claims(job'[j].cache[id], i)
    BY <1>3, <1>4 DEF JobClaims
  <2>2. ASSUME NEW x \in DOMAIN took2, x \in DOMAIN Returns[j]
        PROVE  Claims(took2[x], Returns[j][x])
    <3>1. CASE x = n
      BY <1>1, <1>3, <1>8, <3>1 DEF JobClaims
    <3>2. CASE x # n
      <4>1. x \in DOMAIN job[j].took /\ took2[x] = job[j].took[x]
        BY <1>8, <2>2, <3>2
      <4> HIDE DEF took2
      <4> QED
        BY <1>3, <2>2, <4>1 DEF JobClaims
    <3> QED
      BY <3>1, <3>2
  <2> HIDE DEF took2
  <2> QED
    BY <1>4, <2>1, <2>2 DEF JobClaims
<1>15. Prepared(j, job'[j], d2, db, Past)
  BY <1>4 DEF Prepared
<1>16. Taken(job'[j], d2)
  <2>1. DOMAIN d2["result"] = {e} \cup DOMAIN d["result"]
    BY <1>9 DEF Counts!Over, Counts!Only
  <2>2. \A x \in DOMAIN job[j].took : job[j].took[x] \in DOMAIN d["result"]
    BY <1>3 DEF Taken, Follows
  <2> HIDE DEF d, d2, took2, e
  <2> QED
    BY <1>4, <1>8, <2>1, <2>2 DEF Taken
<1>17. RowsFit(j, d2, DOMAIN took2 \cup {n + 1}, took2, db, Past)
  <2> HIDE DEF d2, took2, n
  <2> QED
    BY <1>10, MoreOwn
<1>18. JobFits(j, job'[j], mark'[j], draft'[j], db, Past)
  <2>1. mark'[j] = d2 /\ draft'[j] = d2
    BY <1>11
  <2> HIDE DEF d2, took2, n
  <2>2. RowsFit(j, d2, DOMAIN job'[j].took, job'[j].took, db, Past)
    BY <1>4, <1>10
  <2>3. RowsFit(j, d2, DOMAIN job'[j].took \cup {job'[j].pos}, job'[j].took, db, Past)
    BY <1>4, <1>17
  <2> QED
    BY <1>12, <1>13, <1>14, <1>15, <1>16, <2>1, <2>2, <2>3 DEF JobFits
<1>19. \A i \in Jobs \ {j} :
        DOMAIN draft'[j]["candidate"] \cap DOMAIN draft[i]["candidate"] = {}
  <2>1. DOMAIN draft'[j]["candidate"] = DOMAIN draft[j]["candidate"]
    BY <1>9
  <2> QED
    BY <2>1, StillApart
<1>20. job[j].status # "completed" /\ job'[j].status # "completed"
  BY <1>2, <1>3, <1>4 DEF Placed
<1>21. \A i \in Jobs \ {j} : job'[i] = job[i] /\ mark'[i] = mark[i] /\ draft'[i] = draft[i]
  BY <1>4, <1>9, <1>11
<1>22. db' = db /\ DOMAIN job' = Jobs /\ DOMAIN mark' = Jobs /\ DOMAIN draft' = Jobs
  BY <1>1, <1>4, <1>9, <1>11
<1> HIDE DEF it, V, e, n, own, v, f, g, took2, d, d2, row, crow
<1> QED
  BY <1>18, <1>19, <1>20, <1>21, <1>22, OneJobMoves

(* An item that fails leaves the rows of its savepoint.                    *)
LEMMA ItemFailed ==
  ASSUME ReturnsInv, NEW j \in Jobs, Counts!FailItem(j)
  PROVE  ReturnsInv'
<1> DEFINE n == job[j].pos
           n2 == job[j].pos + 1
           E2 == job[j].errors \cup {n}
           r2 == [[[[[job[j] EXCEPT !.errors = E2] EXCEPT !.pos = n2] EXCEPT !.pc = "match"]
                    EXCEPT !.target = Counts!Null] EXCEPT !.seen = Counts!Null]
           m  == mark[j]
           k  == job[j].took
<1>1. /\ db' = db /\ mark' = mark /\ draft' = [draft EXCEPT ![j] = m]
      /\ job' = [job EXCEPT ![j].errors = E2, ![j].pos = n2, ![j].pc = "match",
                            ![j].target = Counts!Null, ![j].seen = Counts!Null]
  BY DEF Counts!FailItem
<1>2. job[j].pc # "idle" /\ n =< Len(Returns[j])
  <2>1. Counts!More(j) \/ job[j].pc \in {"event", "create", "candidates", "persist", "write"}
    BY DEF Counts!FailItem
  <2>2. CASE Counts!More(j)
    BY <2>2 DEF Counts!More, Counts!At
  <2>3. CASE job[j].pc \in {"event", "create", "candidates", "persist", "write"}
    BY <2>3, AtItem
  <2> QED
    BY <2>1, <2>2, <2>3
<1>3. /\ DOMAIN job = Jobs /\ DOMAIN job[j] = JobFields /\ JobClaims(j, job[j])
      /\ DOMAIN draft = Jobs /\ DOMAIN mark = Jobs
      /\ RowsFit(j, m, DOMAIN k, k, db, Past)
      /\ Placed(j, job[j]) /\ Taken(job[j], m) /\ Follows(job[j], m, draft[j])
  BY <1>2, ItemIs DEF JobFits, ReturnsInv
<1>4. /\ DOMAIN r2 = JobFields /\ r2.pc = "match" /\ r2.pos = n2 /\ r2.errors = E2
      /\ r2.took = k /\ r2.status = job[j].status /\ r2.cache = job[j].cache
  <2> HIDE DEF n2, E2
  <2> QED
    BY <1>3 DEF JobFields
<1>5. job' = [job EXCEPT ![j] = r2]
  <2> HIDE DEF n2, E2
  <2> QED
    BY <1>1, <1>3
<1> HIDE DEF r2
<1>6. DOMAIN job' = Jobs /\ job'[j] = r2 /\ \A i \in Jobs \ {j} : job'[i] = job[i]
  BY <1>3, <1>5
<1>7. DOMAIN draft' = Jobs /\ draft'[j] = m /\ \A i \in Jobs \ {j} : draft'[i] = draft[i]
  BY <1>1, <1>3
<1>8. Placed(j, r2)
  <2> DEFINE L == Len(Returns[j])
             T == DOMAIN k
             E == job[j].errors
  <2>1. /\ n \in Nat \ {0} /\ n =< L /\ E \subseteq 1 .. (n - 1) /\ T = (1 .. (n - 1)) \ E
        /\ L \in Nat /\ E2 = E \cup {n} /\ n2 = n + 1
    BY <1>2, <1>3, ReturnFacts DEF Placed
  <2>2. job[j].status = "running"
    BY <1>2, <1>3 DEF Placed
  <2> HIDE DEF L, T, E, E2, n, n2
  <2>3. /\ n2 \in Nat \ {0} /\ n2 =< L + 1 /\ E2 \subseteq 1 .. (n2 - 1)
        /\ T = (1 .. (n2 - 1)) \ E2
    BY <2>1
  <2>4. DOMAIN r2.took = T /\ r2.status = "running"
    BY <1>4, <2>2 DEF T
  <2> QED
    BY <1>4, <2>3, <2>4 DEF Placed, L
<1>9. Follows(r2, m, m) /\ Taken(r2, m)
  BY <1>2, <1>3, <1>4 DEF Follows, Taken
<1>10. JobClaims(j, r2)
  BY <1>3, <1>4 DEF JobClaims
<1>11. Prepared(j, r2, m, db, Past)
  BY <1>4 DEF Prepared
<1>12. RowsFit(j, m, DOMAIN k \cup {n2}, k, db, Past)
  <2> HIDE DEF m, k, n2
  <2> QED
    BY <1>3, MoreOwn
<1>13. JobFits(j, job'[j], mark'[j], draft'[j], db, Past)
  <2>1. mark'[j] = m /\ draft'[j] = m /\ job'[j] = r2
    BY <1>1, <1>6, <1>7
  <2> HIDE DEF m, k, n2
  <2>2. JobFits(j, r2, m, m, db, Past)
    BY <1>3, <1>4, <1>8, <1>9, <1>10, <1>11, <1>12 DEF JobFits
  <2> QED
    BY <2>1, <2>2
<1>14. \A i \in Jobs \ {j} :
        DOMAIN draft'[j]["candidate"] \cap DOMAIN draft[i]["candidate"] = {}
  <2>1. DOMAIN draft'[j]["candidate"] \subseteq DOMAIN draft[j]["candidate"]
    BY <1>3, <1>7 DEF Follows
  <2> QED
    BY <2>1, StillApart
<1>15. job[j].status # "completed" /\ job'[j].status # "completed"
  BY <1>2, <1>3, <1>4, <1>6 DEF Placed
<1>16. \A i \in Jobs \ {j} : job'[i] = job[i] /\ mark'[i] = mark[i] /\ draft'[i] = draft[i]
  BY <1>1, <1>6, <1>7
<1>17. db' = db /\ DOMAIN job' = Jobs /\ DOMAIN mark' = Jobs /\ DOMAIN draft' = Jobs
  BY <1>1, <1>3, <1>6, <1>7
<1> HIDE DEF n, n2, E2, m, k
<1> QED
  BY <1>13, <1>14, <1>15, <1>16, <1>17, OneJobMoves

(* A job that is not at work has no rows.                                  *)
LEMMA NoRows ==
  ASSUME NEW j \in Jobs, NEW own, NEW took, NEW b, NEW past
  PROVE  RowsFit(j, Counts!Empty, own, took, b, past)
  BY NoTablesIs, TracedAre DEF RowsFit, TablesOf, OwnRows, OwnResults, CountiesOf, KnownIn, RowsClaimed,
       Counts!Tables, Traced

LEMMA Quiet ==
  ASSUME NEW j \in Jobs, NEW r, NEW b, NEW past, Placed(j, r), JobClaims(j, r),
         r.pc = "idle" \/ (r.pc = "match" /\ DOMAIN r.took = {})
  PROVE  JobFits(j, r, Counts!Empty, Counts!Empty, b, past)
<1>1. Follows(r, Counts!Empty, Counts!Empty)
  BY DEF Follows
<1>2. Prepared(j, r, Counts!Empty, b, past)
  BY DEF Prepared
<1>3. r.pc # "idle" => Taken(r, Counts!Empty)
  BY DEF Taken
<1> QED
  BY <1>1, <1>2, <1>3, NoRows DEF JobFits

(* A job is created, begins, is refused, or is given up.                   *)
LEMMA StatusMoves ==
  ASSUME ReturnsInv, NEW j \in Jobs, db' = db, job[j].status # "completed",
         job'[j].status # "completed", DOMAIN job' = Jobs, \A i \in Jobs \ {j} : job'[i] = job[i],
         DOMAIN draft' = Jobs, draft'[j] = Counts!Empty, \A i \in Jobs \ {j} : draft'[i] = draft[i],
         DOMAIN mark' = Jobs, mark'[j] = Counts!Empty, \A i \in Jobs \ {j} : mark'[i] = mark[i],
         Placed(j, job'[j]), JobClaims(j, job'[j]),
         job'[j].pc = "idle" \/ (job'[j].pc = "match" /\ DOMAIN job'[j].took = {})
  PROVE  ReturnsInv'
<1>1. \A i \in Jobs \ {j} : job'[i] = job[i] /\ mark'[i] = mark[i] /\ draft'[i] = draft[i]
  OBVIOUS
<1>2. JobFits(j, job'[j], mark'[j], draft'[j], db, Past)
  BY <1>1, Quiet
<1>3. \A i \in Jobs \ {j} :
        DOMAIN draft'[j]["candidate"] \cap DOMAIN draft[i]["candidate"] = {}
  BY <1>1, NoTablesIs DEF Counts!Tables
<1> QED
  BY <1>1, <1>2, <1>3, OneJobMoves

LEMMA JobStarts ==
  ASSUME ReturnsInv, NEW j \in Jobs, Counts!CreateJob(j) \/ Counts!StartJob(j)
  PROVE  ReturnsInv'
<1>1. /\ db' = db /\ draft' = draft /\ mark' = mark /\ job[j].status \in {"none", "pending"}
  BY DEF Counts!CreateJob, Counts!StartJob
<1>2. /\ DOMAIN job = Jobs /\ DOMAIN draft = Jobs /\ DOMAIN mark = Jobs
      /\ Placed(j, job[j]) /\ JobClaims(j, job[j]) /\ Follows(job[j], mark[j], draft[j])
  BY DEF ReturnsInv, JobFits
<1>3. /\ job[j].pc = "idle" /\ job[j].pos = 1 /\ DOMAIN job[j].took = {} /\ job[j].errors = {}
      /\ DOMAIN job[j] = JobFields
  BY <1>1, <1>2 DEF Placed
<1>4. draft[j] = Counts!Empty /\ mark[j] = Counts!Empty
  BY <1>2, <1>3 DEF Follows
<1>5. /\ DOMAIN draft' = Jobs /\ draft'[j] = Counts!Empty /\ \A i \in Jobs \ {j} : draft'[i] = draft[i]
      /\ DOMAIN mark' = Jobs /\ mark'[j] = Counts!Empty /\ \A i \in Jobs \ {j} : mark'[i] = mark[i]
  BY <1>1, <1>2, <1>4
<1>6. PICK s \in {"pending", "failed", "running"}, p \in {"idle", "match"} :
        /\ job' = [job EXCEPT ![j].status = s, ![j].pc = p] /\ (p = "match" => s = "running")
        /\ (s = "running" => p = "match")
  <2>1. CASE Counts!CreateJob(j)
    <3>1. job' = [job EXCEPT ![j].status = "pending"]
      BY <2>1 DEF Counts!CreateJob
    <3>2. job' = [job EXCEPT ![j].status = "pending", ![j].pc = "idle"]
      BY <1>2, <1>3, <3>1 DEF JobFields
    <3> QED
      BY <3>2
  <2>2. CASE Counts!StartJob(j)
    <3>1. CASE job' = [job EXCEPT ![j].status = "failed"]
      <4>1. job' = [job EXCEPT ![j].status = "failed", ![j].pc = "idle"]
        BY <1>2, <1>3, <3>1 DEF JobFields
      <4> QED
        BY <4>1
    <3>2. CASE job' = [job EXCEPT ![j].status = "running", ![j].pc = "match"]
      BY <3>2
    <3> QED
      BY <2>2, <3>1, <3>2 DEF Counts!StartJob
  <2> QED
    BY <2>1, <2>2
<1>7. /\ DOMAIN job' = Jobs /\ \A i \in Jobs \ {j} : job'[i] = job[i]
      /\ DOMAIN job'[j] = JobFields /\ job'[j].pc = p /\ job'[j].status = s
      /\ job'[j].pos = job[j].pos /\ job'[j].took = job[j].took
      /\ job'[j].errors = job[j].errors /\ job'[j].cache = job[j].cache
  BY <1>2, <1>3, <1>6 DEF JobFields
<1>8. Placed(j, job'[j])
  <2> DEFINE L == Len(Returns[j])
  <2>1. L \in Nat /\ 1 =< L + 1
    BY ReturnFacts
  <2>2. DOMAIN job'[j].took = (1 .. (1 - 1)) \ job'[j].errors /\ job'[j].errors \subseteq 1 .. (1 - 1)
    BY <1>3, <1>7
  <2> HIDE DEF L
  <2>3. job'[j].pos = 1 /\ (DOMAIN job'[j].cache = {} \/ s \in {"failed", "running"})
    BY <1>1, <1>2, <1>3, <1>7 DEF Placed
  <2> QED
    BY <1>3, <1>6, <1>7, <2>1, <2>2, <2>3 DEF Placed, L
<1>9. JobClaims(j, job'[j])
  BY <1>2, <1>6, <1>7 DEF JobClaims
<1>10. job'[j].pc = "idle" \/ (job'[j].pc = "match" /\ DOMAIN job'[j].took = {})
  BY <1>3, <1>7
<1>11. job[j].status # "completed" /\ job'[j].status # "completed"
  BY <1>1, <1>7
<1> QED
  BY <1>1, <1>5, <1>7, <1>8, <1>9, <1>10, <1>11, StatusMoves

LEMMA JobAborts ==
  ASSUME ReturnsInv, NEW j \in Jobs, Counts!Abort(j)
  PROVE  ReturnsInv'
<1>1. /\ db' = db /\ draft' = [draft EXCEPT ![j] = Counts!Empty]
      /\ mark' = [mark EXCEPT ![j] = Counts!Empty] /\ job[j].pc # "idle"
  BY DEF Counts!Abort, Counts!Release, Counts!Running
<1>2. PICK s \in {"failed", "running"} : job' = [job EXCEPT ![j].status = s, ![j].pc = "idle"]
  BY DEF Counts!Abort
<1>3. DOMAIN job = Jobs /\ Placed(j, job[j]) /\ JobClaims(j, job[j])
  BY DEF ReturnsInv, JobFits
<1>4. DOMAIN job[j] = JobFields /\ job[j].status = "running" /\ job[j].pos \in Nat \ {0}
  BY <1>1, <1>3 DEF Placed
<1>5. /\ DOMAIN job' = Jobs /\ \A i \in Jobs \ {j} : job'[i] = job[i]
      /\ DOMAIN job'[j] = JobFields /\ job'[j].pc = "idle" /\ job'[j].status = s
      /\ job'[j].pos = job[j].pos /\ job'[j].took = job[j].took
      /\ job'[j].errors = job[j].errors /\ job'[j].cache = job[j].cache
  BY <1>2, <1>3, <1>4 DEF JobFields
<1>6. Placed(j, job'[j])
  BY <1>4, <1>5 DEF Placed
<1>7. JobClaims(j, job'[j])
  BY <1>3, <1>5 DEF JobClaims
<1>8. job[j].status # "completed" /\ job'[j].status # "completed"
  BY <1>4, <1>5
<1>9. /\ DOMAIN draft' = Jobs /\ draft'[j] = Counts!Empty /\ \A i \in Jobs \ {j} : draft'[i] = draft[i]
      /\ DOMAIN mark' = Jobs /\ mark'[j] = Counts!Empty /\ \A i \in Jobs \ {j} : mark'[i] = mark[i]
  BY <1>1 DEF ReturnsInv
<1>10. job'[j].pc = "idle" \/ (job'[j].pc = "match" /\ DOMAIN job'[j].took = {})
  BY <1>5
<1>11. db' = db /\ DOMAIN job' = Jobs /\ \A i \in Jobs \ {j} : job'[i] = job[i]
  BY <1>1, <1>5
<1> QED
  BY <1>6, <1>7, <1>8, <1>9, <1>10, <1>11, StatusMoves

(* What is committed grows, and so does the past.                          *)
PastGrows(past, past2) ==
  DOMAIN past \subseteq DOMAIN past2 /\ \A k \in DOMAIN past : past2[k] = past[k]
BaseGrows(b, b2) ==
  DOMAIN b["elections"] \subseteq DOMAIN b2["elections"] /\ BeforeFiles(b2) = BeforeFiles(b)

LEMMA StillWritten ==
  ASSUME NEW past, NEW past2, PastGrows(past, past2), NEW l, WrittenBy(past, l)
  PROVE  WrittenBy(past2, l)
  BY DEF PastGrows, WrittenBy, Done

LEMMA StillMoved ==
  ASSUME NEW past, NEW past2, PastGrows(past, past2), NEW e, NEW j, NEW i, Moved(past, e, j, i)
  PROVE  Moved(past2, e, j, i)
<1>1. PICK k \in DOMAIN past \ {j} : \E m \in DOMAIN past[k].took :
             past[k].took[m] = e /\ ~Counts!Shares(Returns[k][m], i)
  BY DEF Moved
<1>2. k \in DOMAIN past2 \ {j} /\ past2[k] = past[k]
  BY <1>1 DEF PastGrows
<1> QED
  BY <1>1, <1>2 DEF Moved

LEMMA StillFits ==
  ASSUME NEW j, NEW D, NEW own, NEW took, NEW b, NEW past, NEW b2, NEW past2,
         PastGrows(past, past2), BaseGrows(b, b2), RowsFit(j, D, own, took, b, past)
  PROVE  RowsFit(j, D, own, took, b2, past2)
<1>1. OwnRows(j, D, past2, own)
  BY StillWritten DEF RowsFit, OwnRows
<1>2. ASSUME NEW e \in DOMAIN D["result"]
      PROVE  \E n \in DOMAIN took : took[n] = e /\ ItemIn(D, b2, past2, e, j, n)
  <2>1. PICK n \in DOMAIN took : took[n] = e /\ ItemIn(D, b, past, e, j, n)
    BY <1>2 DEF RowsFit, OwnResults
  <2>2. e \in DOMAIN D["elections"] \cup DOMAIN b2["elections"]
    BY <2>1 DEF ItemIn, BaseGrows
  <2>3. D["result"][e].votes = Returns[j][n].votes \/ Moved(past2, e, j, Returns[j][n])
    BY <2>1, StillMoved DEF ItemIn
  <2>4. ItemIn(D, b2, past2, e, j, n)
    BY <2>1, <2>2, <2>3 DEF ItemIn
  <2> QED
    BY <2>1, <2>4
<1>3. OwnResults(j, D, b2, past2, took)
  BY <1>2 DEF RowsFit, OwnResults
<1>4. KnownIn(D, b2)
  BY DEF RowsFit, KnownIn, BaseGrows
<1> QED
  BY <1>1, <1>3, <1>4 DEF RowsFit

(* A file is committed: its rows are those of the tables now.              *)
Commits(j, r, d, b, past, b2, past2) ==
  /\ JobFits(j, r, d, d, b, past) /\ BaseFits(b, past)
  /\ r.pc = "match" /\ j \notin DOMAIN past
  /\ b2 = [t \in Counts!Tables |-> Counts!Over(d[t], b[t])]
  /\ PastGrows(past, past2) /\ DOMAIN past2 = DOMAIN past \cup {j}
  /\ past2[j].took = r.took /\ past2[j].errors = r.errors

LEMMA CommitsOver ==
  ASSUME NEW j, NEW r, NEW d, NEW b, NEW past, NEW b2, NEW past2,
         Commits(j, r, d, b, past, b2, past2), NEW t \in Counts!Tables
  PROVE  /\ DOMAIN b2[t] = DOMAIN d[t] \cup DOMAIN b[t]
         /\ \A x \in DOMAIN d[t] : b2[t][x] = d[t][x]
         /\ \A x \in DOMAIN b[t] \ DOMAIN d[t] : b2[t][x] = b[t][x]
<1> DEFINE f == d[t]
           g == b[t]
<1>1. b2[t] = Counts!Over(f, g)
  BY DEF Commits
<1>2. /\ DOMAIN Counts!Over(f, g) = DOMAIN f \cup DOMAIN g
      /\ \A x \in DOMAIN f : Counts!Over(f, g)[x] = f[x]
      /\ \A x \in DOMAIN g \ DOMAIN f : Counts!Over(f, g)[x] = g[x]
  BY OverIs
<1> QED
  BY <1>1, <1>2

LEMMA CommitFits ==
  ASSUME NEW j, NEW r, NEW d, NEW b, NEW past, NEW b2, NEW past2,
         Commits(j, r, d, b, past, b2, past2)
  PROVE  /\ RowsFit(j, d, DOMAIN r.took, r.took, b, past)
         /\ BaseFits(b, past) /\ Placed(j, r) /\ JobClaims(j, r) /\ Taken(r, d)
         /\ r.pc = "match" /\ PastGrows(past, past2) /\ DOMAIN past2 = DOMAIN past \cup {j}
         /\ past2[j].took = r.took /\ past2[j].errors = r.errors
         /\ DOMAIN b2 = Counts!Tables
  BY DEF Commits, JobFits

LEMMA CommitsGrow ==
  ASSUME NEW j, NEW r, NEW d, NEW b, NEW past, NEW b2, NEW past2,
         Commits(j, r, d, b, past, b2, past2)
  PROVE  BaseGrows(b, b2)
<1>1. "elections" \in Counts!Tables
  BY DEF Counts!Tables
<1>2. /\ DOMAIN b2["elections"] = DOMAIN d["elections"] \cup DOMAIN b["elections"]
      /\ \A x \in DOMAIN d["elections"] : b2["elections"][x] = d["elections"][x]
      /\ \A x \in DOMAIN b["elections"] \ DOMAIN d["elections"] :
           b2["elections"][x] = b["elections"][x]
  BY <1>1, CommitsOver
<1>3. KnownIn(d, b)
  BY CommitFits DEF RowsFit
<1> QED
  BY <1>2, <1>3 DEF BaseGrows, BeforeFiles, KnownIn

LEMMA CommittedRowsFit ==
  ASSUME NEW j, NEW r, NEW d, NEW b, NEW past, NEW b2, NEW past2,
         Commits(j, r, d, b, past, b2, past2)
  PROVE  CommittedRows(b2, past2)
<1> SUFFICES ASSUME NEW t \in Traced, NEW k \in DOMAIN b2[t]
             PROVE  WrittenBy(past2, b2[t][k].last)
  BY DEF CommittedRows
<1>1. t \in Counts!Tables
  BY TracedAre
<1>2. /\ DOMAIN b2[t] = DOMAIN d[t] \cup DOMAIN b[t]
      /\ \A x \in DOMAIN d[t] : b2[t][x] = d[t][x]
      /\ \A x \in DOMAIN b[t] \ DOMAIN d[t] : b2[t][x] = b[t][x]
  BY <1>1, CommitsOver
<1>3. /\ PastGrows(past, past2) /\ DOMAIN past2 = DOMAIN past \cup {j}
      /\ past2[j].took = r.took /\ past2[j].errors = r.errors
      /\ RowsFit(j, d, DOMAIN r.took, r.took, b, past) /\ Placed(j, r) /\ r.pc = "match"
  BY DEF Commits, JobFits
<1>4. CASE k \in DOMAIN d[t]
  <2>1. WrittenBy(past, d[t][k].last) \/ \E n \in DOMAIN r.took : d[t][k].last = <<j, n>>
    BY <1>3, <1>4 DEF RowsFit, OwnRows
  <2>2. ASSUME NEW n \in DOMAIN r.took, d[t][k].last = <<j, n>>
        PROVE  WrittenBy(past2, d[t][k].last)
    <3>1. j \in DOMAIN past2 /\ past2[j].errors = r.errors
      BY <1>3
    <3>2. n \notin r.errors
      BY <1>3 DEF Placed
    <3> QED
      BY <2>2, <3>1, <3>2 DEF WrittenBy, Done
  <2> QED
    BY <1>2, <1>3, <1>4, <2>1, <2>2, StillWritten
<1>5. CASE k \notin DOMAIN d[t]
  <2>1. k \in DOMAIN b[t] /\ b2[t][k] = b[t][k]
    BY <1>2, <1>5
  <2>2. WrittenBy(past, b[t][k].last)
    BY <2>1, CommitFits DEF BaseFits, CommittedRows
  <2> QED
    BY <1>3, <2>1, <2>2, StillWritten
<1> QED
  BY <1>4, <1>5

(* What an item wrote is there after the commit.                           *)
LEMMA ItemCommitted ==
  ASSUME NEW D, NEW b, NEW past, NEW e, NEW i, NEW n, NEW b2, NEW past2,
         ItemIn(D, b, past, e, i, n), PastGrows(past, past2), BaseGrows(b, b2),
         DOMAIN D["elections"] \subseteq DOMAIN b2["elections"],
         DOMAIN D["candidate"] \subseteq DOMAIN b2["candidate"],
         b2["result"][e] = D["result"][e],
         \A c : <<e, c>> \in DOMAIN D["county"] =>
           <<e, c>> \in DOMAIN b2["county"] /\ b2["county"][<<e, c>>] = D["county"][<<e, c>>]
  PROVE  ItemIn(b2, b2, past2, e, i, n)
<1>1. D["result"][e].votes = Returns[i][n].votes \/ Moved(past2, e, i, Returns[i][n])
  BY StillMoved DEF ItemIn
<1>2. e \in DOMAIN b2["elections"]
  BY DEF ItemIn, BaseGrows
<1> QED
  BY <1>1, <1>2 DEF ItemIn

LEMMA CommittedResultsFit ==
  ASSUME NEW j, NEW r, NEW d, NEW b, NEW past, NEW b2, NEW past2,
         Commits(j, r, d, b, past, b2, past2)
  PROVE  CommittedResults(b2, past2)
<1>1. /\ PastGrows(past, past2) /\ DOMAIN past2 = DOMAIN past \cup {j} /\ past2[j].took = r.took
      /\ OwnResults(j, d, b, past, r.took) /\ CountiesOf(d)
      /\ CommittedResults(b, past) /\ CountiesOf(b)
  BY DEF Commits, JobFits, RowsFit, BaseFits, OwnResults, CommittedResults
<1>2. BaseGrows(b, b2)
  BY CommitsGrow
<1>3. "result" \in Counts!Tables /\ "county" \in Counts!Tables /\ "candidate" \in Counts!Tables
      /\ "elections" \in Counts!Tables
  BY DEF Counts!Tables
<1>4. /\ DOMAIN b2["result"] = DOMAIN d["result"] \cup DOMAIN b["result"]
      /\ \A x \in DOMAIN d["result"] : b2["result"][x] = d["result"][x]
      /\ \A x \in DOMAIN b["result"] \ DOMAIN d["result"] : b2["result"][x] = b["result"][x]
  BY <1>3, CommitsOver
<1>5. /\ DOMAIN b2["county"] = DOMAIN d["county"] \cup DOMAIN b["county"]
      /\ \A x \in DOMAIN d["county"] : b2["county"][x] = d["county"][x]
      /\ \A x \in DOMAIN b["county"] \ DOMAIN d["county"] : b2["county"][x] = b["county"][x]
  BY <1>3, CommitsOver
<1>6. DOMAIN b2["candidate"] = DOMAIN d["candidate"] \cup DOMAIN b["candidate"]
  BY <1>3, CommitsOver
<1>7. DOMAIN b2["elections"] = DOMAIN d["elections"] \cup DOMAIN b["elections"]
  BY <1>3, CommitsOver
<1>8. CountiesOf(b2)
  BY <1>1, <1>4, <1>5 DEF CountiesOf
<1>9. ASSUME NEW e \in DOMAIN d["result"]
      PROVE  \E n \in DOMAIN past2[j].took : ItemIn(b2, b2, past2, e, j, n)
  <2>1. PICK n \in DOMAIN r.took : r.took[n] = e /\ ItemIn(d, b, past, e, j, n)
    BY <1>1, <1>9 DEF OwnResults
  <2>2. \A c : <<e, c>> \in DOMAIN d["county"] =>
          <<e, c>> \in DOMAIN b2["county"] /\ b2["county"][<<e, c>>] = d["county"][<<e, c>>]
    BY <1>5
  <2>3. /\ b2["result"][e] = d["result"][e]
        /\ DOMAIN d["elections"] \subseteq DOMAIN b2["elections"]
        /\ DOMAIN d["candidate"] \subseteq DOMAIN b2["candidate"]
    BY <1>4, <1>6, <1>7, <1>9
  <2>4. ItemIn(b2, b2, past2, e, j, n)
    BY <1>1, <1>2, <2>1, <2>2, <2>3, ItemCommitted
  <2> QED
    BY <1>1, <2>4
<1>10. ASSUME NEW e \in DOMAIN b["result"], e \notin DOMAIN d["result"]
       PROVE  \E k \in DOMAIN past2 : \E n \in DOMAIN past2[k].took : ItemIn(b2, b2, past2, e, k, n)
  <2>1. PICK k \in DOMAIN past : \E n \in DOMAIN past[k].took : ItemIn(b, b, past, e, k, n)
    BY <1>1, <1>10 DEF CommittedResults
  <2>2. PICK n \in DOMAIN past[k].took : ItemIn(b, b, past, e, k, n)
    BY <2>1
  <2>3. ASSUME NEW c, <<e, c>> \in DOMAIN b["county"]
        PROVE  <<e, c>> \in DOMAIN b2["county"] /\ b2["county"][<<e, c>>] = b["county"][<<e, c>>]
    <3>1. <<e, c>> \notin DOMAIN d["county"]
      <4>1. <<e, c>>[1] = e
        OBVIOUS
      <4> QED
        BY <1>1, <1>10, <4>1 DEF CountiesOf
    <3> QED
      BY <1>5, <2>3, <3>1
  <2>4. /\ b2["result"][e] = b["result"][e]
        /\ DOMAIN b["elections"] \subseteq DOMAIN b2["elections"]
        /\ DOMAIN b["candidate"] \subseteq DOMAIN b2["candidate"]
    BY <1>4, <1>6, <1>7, <1>10
  <2>5. ItemIn(b2, b2, past2, e, k, n)
    BY <1>1, <1>2, <2>2, <2>3, <2>4, ItemCommitted
  <2>6. k \in DOMAIN past2 /\ past2[k] = past[k]
    BY <1>1, <2>1 DEF PastGrows
  <2> QED
    BY <2>2, <2>5, <2>6
<1>11. j \in DOMAIN past2
  BY <1>1
<1> QED
  BY <1>4, <1>8, <1>9, <1>10, <1>11 DEF CommittedResults

LEMMA BaseCommitted ==
  ASSUME NEW j, NEW r, NEW d, NEW b, NEW past, NEW b2, NEW past2,
         Commits(j, r, d, b, past, b2, past2)
  PROVE  BaseFits(b2, past2)
<1>1. /\ PastGrows(past, past2) /\ DOMAIN past2 = DOMAIN past \cup {j} /\ past2[j].took = r.took
      /\ DOMAIN b2 = Counts!Tables /\ Taken(r, d) /\ r.pc = "match"
      /\ TablesOf(d) /\ KnownIn(d, b) /\ RowsClaimed(d)
      /\ TablesOf(b) /\ KnownIn(b, b) /\ RowsClaimed(b) /\ KnownThere(b)
      /\ \A k \in DOMAIN past : Taken(past[k], b)
  BY DEF Commits, JobFits, RowsFit, BaseFits
<1>2. BeforeFiles(b2) = BeforeFiles(b)
  BY CommitsGrow DEF BaseGrows
<1>3. "result" \in Counts!Tables /\ "candidate" \in Counts!Tables /\ "elections" \in Counts!Tables
  BY DEF Counts!Tables
<1>4. DOMAIN b2["result"] = DOMAIN d["result"] \cup DOMAIN b["result"]
  BY <1>3, CommitsOver
<1>5. /\ DOMAIN b2["candidate"] = DOMAIN d["candidate"] \cup DOMAIN b["candidate"]
      /\ \A x \in DOMAIN d["candidate"] : b2["candidate"][x] = d["candidate"][x]
      /\ \A x \in DOMAIN b["candidate"] \ DOMAIN d["candidate"] :
           b2["candidate"][x] = b["candidate"][x]
  BY <1>3, CommitsOver
<1>6. /\ DOMAIN b2["elections"] = DOMAIN d["elections"] \cup DOMAIN b["elections"]
      /\ \A x \in DOMAIN d["elections"] : b2["elections"][x] = d["elections"][x]
      /\ \A x \in DOMAIN b["elections"] \ DOMAIN d["elections"] :
           b2["elections"][x] = b["elections"][x]
  BY <1>3, CommitsOver
<1>7. TablesOf(b2)
  BY <1>1, <1>5, <1>6 DEF TablesOf
<1>8. KnownIn(b2, b2)
  BY <1>1, <1>2, <1>5 DEF KnownIn, BeforeFiles
<1>9. KnownThere(b2)
  BY <1>1, <1>2, <1>5 DEF KnownThere
<1>10. RowsClaimed(b2)
  BY <1>1, <1>6 DEF RowsClaimed
<1>11. \A k \in DOMAIN past2 : Taken(past2[k], b2)
  BY <1>1, <1>4 DEF Taken, PastGrows
<1> QED
  BY <1>7, <1>8, <1>9, <1>10, <1>11, CommittedRowsFit, CommittedResultsFit DEF BaseFits

(* To a job at an item the commit changes the votes only of an election    *)
(* whose candidates the item does not have.                                *)
LEMMA OthersPrepared ==
  ASSUME NEW j, NEW r, NEW d, NEW b, NEW past, NEW b2, NEW past2,
         Commits(j, r, d, b, past, b2, past2),
         NEW i, i # j, NEW ri, NEW di, Prepared(i, ri, di, b, past),
         DOMAIN d["candidate"] \cap DOMAIN di["candidate"] = {}
  PROVE  Prepared(i, ri, di, b2, past2)
<1> DEFINE it    == Returns[i][ri.pos]
           e     == ri.target
           saw   == Counts!Over(di["result"], b["result"])
           sees  == Counts!Over(di["result"], b2["result"])
<1>1. /\ PastGrows(past, past2) /\ DOMAIN past2 = DOMAIN past \cup {j} /\ past2[j].took = r.took
      /\ OwnResults(j, d, b, past, r.took)
  BY DEF Commits, JobFits, RowsFit
<1>2. DOMAIN b["elections"] \subseteq DOMAIN b2["elections"]
  BY CommitsGrow DEF BaseGrows
<1>3. "result" \in Counts!Tables
  BY DEF Counts!Tables
<1>4. /\ DOMAIN b2["result"] = DOMAIN d["result"] \cup DOMAIN b["result"]
      /\ \A x \in DOMAIN b["result"] \ DOMAIN d["result"] : b2["result"][x] = b["result"][x]
  BY <1>3, CommitsOver
<1>5. ri.pc \in {"persist", "write"} =>
        /\ e \in DOMAIN di["elections"] \cup DOMAIN b["elections"]
        /\ \A o \in DOMAIN it.options : <<e, it.options[o].who>> \in DOMAIN di["candidate"]
  BY DEF Prepared
<1>6. ASSUME ri.pc = "write", ri.seen # Counts!Null
      PROVE  \/ e \in DOMAIN sees /\ sees[e].votes = ri.seen
             \/ Moved(past2, e, i, it)
  <2>1. \/ e \in DOMAIN saw /\ saw[e].votes = ri.seen
        \/ Moved(past, e, i, it)
    BY <1>6 DEF Prepared
  <2>2. /\ DOMAIN saw = DOMAIN di["result"] \cup DOMAIN b["result"]
        /\ \A x \in DOMAIN di["result"] : saw[x] = di["result"][x]
        /\ \A x \in DOMAIN b["result"] \ DOMAIN di["result"] : saw[x] = b["result"][x]
    BY DEF Counts!Over
  <2>3. /\ DOMAIN sees = DOMAIN di["result"] \cup DOMAIN b2["result"]
        /\ \A x \in DOMAIN di["result"] : sees[x] = di["result"][x]
        /\ \A x \in DOMAIN b2["result"] \ DOMAIN di["result"] : sees[x] = b2["result"][x]
    BY DEF Counts!Over
  <2>4. CASE Moved(past, e, i, it)
    BY <1>1, <2>4, StillMoved
  <2>5. CASE e \in DOMAIN saw /\ saw[e].votes = ri.seen /\ e \notin DOMAIN d["result"]
    <3> HIDE DEF saw, sees, e
    <3>1. e \in DOMAIN sees /\ sees[e] = saw[e]
      BY <1>4, <2>2, <2>3, <2>5
    <3> QED
      BY <2>5, <3>1
  <2>6. CASE e \in DOMAIN d["result"]
    <3>1. PICK n \in DOMAIN r.took : r.took[n] = e /\ ItemIn(d, b, past, e, j, n)
      BY <1>1, <2>6 DEF OwnResults
    <3>2. \A o \in DOMAIN Returns[j][n].options :
            <<e, Returns[j][n].options[o].who>> \in DOMAIN d["candidate"]
      BY <3>1 DEF ItemIn
    <3>3. \A o \in DOMAIN it.options : <<e, it.options[o].who>> \in DOMAIN di["candidate"]
      BY <1>5, <1>6
    <3> HIDE DEF it, e
    <3>4. ~Counts!Shares(Returns[j][n], it)
      BY <3>2, <3>3 DEF Counts!Shares
    <3>5. j \in DOMAIN past2 \ {i} /\ past2[j].took[n] = e /\ n \in DOMAIN past2[j].took
      BY <1>1, <3>1
    <3> QED
      BY <3>4, <3>5 DEF Moved
  <2> QED
    BY <2>1, <2>4, <2>5, <2>6
<1> QED
  BY <1>2, <1>5, <1>6 DEF Prepared

LEMMA ReturnCommitted ==
  ASSUME ReturnsInv, NEW j \in Jobs, Counts!CommitFile(j)
  PROVE  ReturnsInv'
<1>1. /\ job[j].pc = "match" /\ job[j].pos > Len(Returns[j])
      /\ db' = [t \in Counts!Tables |-> Counts!Over(draft[j][t], db[t])]
      /\ draft' = [draft EXCEPT ![j] = Counts!Empty] /\ mark' = [mark EXCEPT ![j] = Counts!Empty]
      /\ job' = [job EXCEPT ![j].status = "completed", ![j].pc = "idle"]
  BY DEF Counts!CommitFile, Counts!At, Counts!Release
<1>2. /\ DOMAIN job = Jobs /\ DOMAIN mark = Jobs /\ DOMAIN draft = Jobs
      /\ BaseFits(db, Past) /\ DraftsApart(draft)
      /\ \A i \in Jobs : JobFits(i, job[i], mark[i], draft[i], db, Past)
  BY DEF ReturnsInv
<1>3. /\ Placed(j, job[j]) /\ JobClaims(j, job[j]) /\ mark[j] = draft[j]
      /\ job[j].status = "running" /\ DOMAIN job[j] = JobFields
  BY <1>1, <1>2 DEF JobFits, Placed, Follows
<1>4. /\ DOMAIN job' = Jobs /\ \A i \in Jobs \ {j} : job'[i] = job[i]
      /\ DOMAIN job'[j] = JobFields /\ job'[j].pc = "idle" /\ job'[j].status = "completed"
      /\ job'[j].pos = job[j].pos /\ job'[j].took = job[j].took
      /\ job'[j].errors = job[j].errors /\ job'[j].cache = job[j].cache
  BY <1>1, <1>2, <1>3 DEF JobFields
<1>5. /\ DOMAIN draft' = Jobs /\ draft'[j] = Counts!Empty /\ \A i \in Jobs \ {j} : draft'[i] = draft[i]
      /\ DOMAIN mark' = Jobs /\ mark'[j] = Counts!Empty /\ \A i \in Jobs \ {j} : mark'[i] = mark[i]
  BY <1>1, <1>2
<1>6. j \notin DOMAIN Past /\ Counts!Completed' = Counts!Completed \cup {j}
  BY <1>3, <1>4 DEF Past, Counts!Completed
<1>7. /\ DOMAIN Past' = DOMAIN Past \cup {j} /\ PastGrows(Past, Past')
      /\ Past'[j] = job'[j]
  BY <1>4, <1>6 DEF Past, PastGrows, Counts!Completed
<1>8. JobFits(j, job[j], draft[j], draft[j], db, Past)
  BY <1>2, <1>3
<1>9. Commits(j, job[j], draft[j], db, Past, db', Past')
  BY <1>1, <1>2, <1>4, <1>6, <1>7, <1>8 DEF Commits
<1>10. BaseFits(db', Past') /\ BaseGrows(db, db')
  BY <1>9, BaseCommitted, CommitsGrow
<1>11. JobFits(j, job'[j], mark'[j], draft'[j], db', Past')
  <2>1. Placed(j, job'[j])
    <3> DEFINE L == Len(Returns[j])
               n == job[j].pos
    <3>1. L \in Nat
      BY ReturnFacts
    <3>2. n \in Nat /\ n > L /\ n =< L + 1
      BY <1>1, <1>3 DEF Placed
    <3> HIDE DEF L, n
    <3>3. n = L + 1
      BY <3>1, <3>2
    <3>4. /\ job[j].errors \subseteq 1 .. (n - 1)
          /\ DOMAIN job[j].took = (1 .. (n - 1)) \ job[j].errors
      BY <1>1, <1>3 DEF Placed, n
    <3> QED
      BY <1>3, <1>4, <3>3, <3>4 DEF Placed, L, n
  <2>2. JobClaims(j, job'[j])
    BY <1>3, <1>4 DEF JobClaims
  <2> QED
    BY <1>4, <1>5, <2>1, <2>2, Quiet
<1>12. ASSUME NEW i \in Jobs \ {j}
       PROVE  JobFits(i, job'[i], mark'[i], draft'[i], db', Past')
  <2>1. JobFits(i, job[i], mark[i], draft[i], db, Past)
    BY <1>2
  <2>2. RowsFit(i, mark[i], DOMAIN job[i].took, job[i].took, db', Past')
    BY <1>7, <1>10, <2>1, StillFits DEF JobFits
  <2>3. RowsFit(i, draft[i], DOMAIN job[i].took \cup {job[i].pos}, job[i].took, db', Past')
    BY <1>7, <1>10, <2>1, StillFits DEF JobFits
  <2>4. DOMAIN draft[j]["candidate"] \cap DOMAIN draft[i]["candidate"] = {}
    BY <1>2 DEF DraftsApart
  <2>5. Prepared(i, job[i], draft[i], db', Past')
    BY <1>9, <2>1, <2>4, OthersPrepared DEF JobFits
  <2>6. JobFits(i, job[i], mark[i], draft[i], db', Past')
    BY <2>1, <2>2, <2>3, <2>5 DEF JobFits
  <2> QED
    BY <1>4, <1>5, <2>6
<1>13. DraftsApart(draft')
  BY <1>2, <1>5, NoTablesIs DEF DraftsApart, Counts!Tables
<1>14. \A i \in Jobs : JobFits(i, job'[i], mark'[i], draft'[i], db', Past')
  BY <1>11, <1>12
<1>15. (\A i \in Jobs : JobFits(i, job[i], mark[i], draft[i], db, Past))'
  BY <1>14
<1>16. BaseFits(db, Past)' /\ DraftsApart(draft)'
  BY <1>10, <1>13
<1> QED
  BY <1>4, <1>5, <1>15, <1>16 DEF ReturnsInv

(* Before any file no item has written a row, and of the elections there    *)
(* is known what the tables say.                                            *)
LEMMA ReturnsBegin ==
  ASSUME Counts!Init
  PROVE  ReturnsInv
<1>1. PICK e \in Existing :
        db = [Counts!Empty EXCEPT
                !["elections"] = e,
                !["candidate"] = [c \in {k \in DOMAIN Known : k[1] \in DOMAIN e} |->
                   [party |-> Known[c].party, incumbent |-> Known[c].incumbent,
                    last |-> Counts!Nobody]]]
  BY DEF Counts!Init
<1> DEFINE F == [c \in {k \in DOMAIN Known : k[1] \in DOMAIN e} |->
                   [party |-> Known[c].party, incumbent |-> Known[c].incumbent,
                    last |-> Counts!Nobody]]
<1>2. /\ draft = [j \in Jobs |-> Counts!Empty] /\ mark = draft
      /\ job = [j \in Jobs |-> Counts!NoJob]
  BY DEF Counts!Init
<1>3. /\ DOMAIN db = Counts!Tables /\ db["elections"] = e /\ db["candidate"] = F
      /\ DOMAIN db["result"] = {} /\ DOMAIN db["county"] = {}
  <2>1. db = [Counts!Empty EXCEPT !["elections"] = e, !["candidate"] = F]
    BY <1>1
  <2> HIDE DEF F
  <2>2. /\ "elections" \in Counts!Tables /\ "candidate" \in Counts!Tables
        /\ "result" \in Counts!Tables /\ "county" \in Counts!Tables
    BY DEF Counts!Tables
  <2>3. /\ DOMAIN db = Counts!Tables /\ db["elections"] = e /\ db["candidate"] = F
        /\ db["result"] = Counts!Empty["result"] /\ db["county"] = Counts!Empty["county"]
    BY <2>1, <2>2, NoTablesIs
  <2> QED
    BY <2>2, <2>3, NoTablesIs
<1>4. /\ DOMAIN F = {k \in DOMAIN Known : k[1] \in DOMAIN e}
      /\ \A c \in DOMAIN F : /\ DOMAIN F[c] = {"party", "incumbent", "last"}
                             /\ F[c].party = Known[c].party /\ F[c].incumbent = Known[c].incumbent
                             /\ F[c].last = Counts!Nobody
  OBVIOUS
<1> HIDE DEF F
<1>5. \A n \in DOMAIN e : DOMAIN e[n] = Counts!ElectionFields /\ e[n].last = Counts!Nobody
  BY ReturnFacts
<1>6. DOMAIN Past = {}
  BY <1>2 DEF Past, Counts!Completed, Counts!NoJob
<1>7. TablesOf(db)
  BY <1>3, <1>4, <1>5, ReturnFacts DEF TablesOf
<1>8. CommittedRows(db, Past)
  BY <1>3, <1>4, <1>5 DEF CommittedRows, Traced, WrittenBy
<1>9. CommittedResults(db, Past)
  BY <1>3 DEF CommittedResults, CountiesOf
<1>10. BeforeFiles(db) = DOMAIN e
  BY <1>3, <1>5 DEF BeforeFiles
<1>11. KnownIn(db, db) /\ KnownThere(db)
  BY <1>3, <1>4, <1>5, <1>10 DEF KnownIn, KnownThere, KeptOf
<1>12. RowsClaimed(db)
  <2> SUFFICES ASSUME NEW n \in DOMAIN e, NEW i \in Counts!Items, Names(e[n], i)
               PROVE  Claims(n, i)
    BY <1>3 DEF RowsClaimed
  <2>1. i \in Counts!Meant(n)
    BY DEF Names, Counts!Meant
  <2> QED
    BY <2>1 DEF Claims
<1>13. BaseFits(db, Past)
  BY <1>6, <1>7, <1>8, <1>9, <1>11, <1>12 DEF BaseFits
<1>14. ASSUME NEW j \in Jobs
       PROVE  JobFits(j, job[j], mark[j], draft[j], db, Past)
  <2>1. /\ DOMAIN job[j] = JobFields /\ job[j].pc = "idle" /\ job[j].pos = 1
        /\ job[j].status = "none" /\ DOMAIN job[j].took = {} /\ DOMAIN job[j].cache = {}
        /\ job[j].errors = {}
    BY <1>2 DEF Counts!NoJob, Counts!Nothing, JobFields
  <2>2. Placed(j, job[j])
    BY <2>1 DEF Placed
  <2>3. JobClaims(j, job[j])
    BY <2>1 DEF JobClaims
  <2> QED
    BY <1>2, <2>1, <2>2, <2>3, Quiet
<1>15. DraftsApart(draft)
  BY <1>2, NoTablesIs DEF DraftsApart, Counts!Tables
<1> QED
  BY <1>2, <1>13, <1>14, <1>15 DEF ReturnsInv

(* A calendar import writes no column that a results file has.             *)
LEMMA ReturnsRest ==
  ASSUME ReturnsInv, UNCHANGED <<db, draft, mark, job>>
  PROVE  ReturnsInv'
<1>1. Past' = Past
  BY DEF Past, Counts!Completed
<1>2. BaseFits(db, Past)' /\ DraftsApart(draft)'
  BY <1>1 DEF ReturnsInv
<1>3. (\A j \in Jobs : JobFits(j, job[j], mark[j], draft[j], db, Past))'
  BY <1>1 DEF ReturnsInv
<1> QED
  BY <1>2, <1>3 DEF ReturnsInv

LEMMA ReturnsStep ==
  ASSUME ReturnsInv, [Counts!Next]_results
  PROVE  ReturnsInv'
<1>1. ASSUME NEW j \in Jobs,
             \/ Counts!CreateJob(j) \/ Counts!StartJob(j)
             \/ Counts!MatchCached(j) \/ Counts!MatchById(j) \/ Counts!MatchDistrict(j)
             \/ Counts!NoMatch(j) \/ Counts!CreateEvent(j) \/ Counts!CreateElection(j)
             \/ Counts!UpsertCandidates(j) \/ Counts!ReadResult(j) \/ Counts!WriteResult(j)
             \/ Counts!FailItem(j) \/ Counts!CommitFile(j) \/ Counts!Abort(j)
      PROVE  ReturnsInv'
  BY <1>1, JobStarts, CachedTaken, IdTaken, DistrictTaken, NotMatched, EventCreated,
     ElectionCreated, CandidatesUpserted, ResultRead, ResultWritten, ItemFailed, ReturnCommitted,
     JobAborts
<1>2. ASSUME NEW entries, Counts!ImportCalendar(entries)
      PROVE  ReturnsInv'
  BY <1>2, ReturnsRest DEF Counts!ImportCalendar
<1>3. CASE UNCHANGED results
  BY <1>3, ReturnsRest DEF results
<1> QED
  BY <1>1, <1>2, <1>3 DEF Counts!Next

-----------------------------------------------------------------------------
(* What the invariant says of a result that is there.                      *)
LEMMA ItemsAreWhole ==
  ASSUME ReturnsInv
  PROVE  Counts!ItemsWhole
<1>1. CommittedRows(db, Past) /\ CommittedResults(db, Past)
  BY DEF ReturnsInv, BaseFits
<1>2. DOMAIN Past = Counts!Completed /\ \A k \in Counts!Completed : Past[k] = job[k]
  BY DEF Past
<1>3. ASSUME NEW l \in Counts!Traces \ {Counts!Nobody}
      PROVE  l[1] \in Counts!Completed /\ l[2] \notin job[l[1]].errors
  <2>1. PICK t \in Traced : \E k \in DOMAIN db[t] : l = db[t][k].last
    BY DEF Counts!Traces, Traced
  <2>2. WrittenBy(Past, l)
    BY <1>1, <2>1 DEF CommittedRows
  <2> QED
    BY <1>2, <2>2 DEF WrittenBy, Done
<1>4. ASSUME NEW e \in DOMAIN db["result"]
      PROVE  LET l == db["result"][e].last
                 i == Returns[l[1]][l[2]]
             IN /\ e \in DOMAIN db["elections"]
                /\ \A n \in DOMAIN i.options : <<e, i.options[n].who>> \in DOMAIN db["candidate"]
                /\ \A c \in i.counties : db["county"][<<e, c>>] = [votes |-> i.votes, last |-> l]
                /\ \/ db["result"][e].votes = i.votes
                   \/ \E k \in Counts!Completed \ {l[1]} : \E m \in DOMAIN job[k].took :
                        job[k].took[m] = e /\ ~Counts!Shares(Returns[k][m], i)
  <2>1. PICK j \in DOMAIN Past : \E n \in DOMAIN Past[j].took : ItemIn(db, db, Past, e, j, n)
    BY <1>1 DEF CommittedResults
  <2>2. PICK n : ItemIn(db, db, Past, e, j, n)
    BY <2>1
  <2> DEFINE i == Returns[j][n]
  <2>3. db["result"][e].last = <<j, n>>
    BY <2>2 DEF ItemIn
  <2>4. /\ e \in DOMAIN db["elections"]
        /\ \A o \in DOMAIN i.options : <<e, i.options[o].who>> \in DOMAIN db["candidate"]
        /\ \A c \in i.counties : db["county"][<<e, c>>] = [votes |-> i.votes, last |-> <<j, n>>]
    BY <2>2 DEF ItemIn
  <2>5. \/ db["result"][e].votes = i.votes
        \/ \E k \in Counts!Completed \ {j} : \E m \in DOMAIN job[k].took :
             job[k].took[m] = e /\ ~Counts!Shares(Returns[k][m], i)
    BY <1>2, <2>2 DEF ItemIn, Moved
  <2> QED
    BY <2>3, <2>4, <2>5
<1> QED
  BY <1>3, <1>4 DEF Counts!ItemsWhole

LEMMA ElectionsAreOwn ==
  ASSUME ReturnsInv
  PROVE  Counts!OwnElection
<1> SUFFICES ASSUME NEW j \in Counts!Completed
             PROVE  /\ DOMAIN job[j].took = (DOMAIN Returns[j]) \ job[j].errors
                    /\ \A n \in DOMAIN job[j].took : job[j].took[n] \in DOMAIN db["result"]
                    /\ \A n, m \in DOMAIN job[j].took :
                         Counts!Contest(Returns[j][n]) # Counts!Contest(Returns[j][m])
                           /\ job[j].took[n] = job[j].took[m]
                         => Counts!Confused(job[j].took[n])
  BY DEF Counts!OwnElection
<1>1. j \in Jobs /\ job[j].status = "completed"
  BY DEF Counts!Completed
<1>2. Placed(j, job[j]) /\ JobClaims(j, job[j])
  BY <1>1 DEF ReturnsInv, JobFits
<1>3. DOMAIN job[j].took = (DOMAIN Returns[j]) \ job[j].errors
  <2> DEFINE L == Len(Returns[j])
  <2>1. L \in Nat /\ DOMAIN Returns[j] = 1 .. L
    BY <1>1, ReturnFacts
  <2>2. /\ job[j].pos = L + 1
        /\ DOMAIN job[j].took = (1 .. (job[j].pos - 1)) \ job[j].errors
    BY <1>1, <1>2 DEF Placed
  <2> HIDE DEF L
  <2>3. job[j].pos - 1 = L
    BY <2>1, <2>2
  <2> QED
    BY <2>1, <2>2, <2>3
<1>4. \A n \in DOMAIN job[j].took : job[j].took[n] \in DOMAIN db["result"]
  BY DEF ReturnsInv, BaseFits, Taken, Past
<1>5. ASSUME NEW n \in DOMAIN job[j].took, NEW m \in DOMAIN job[j].took,
             Counts!Contest(Returns[j][n]) # Counts!Contest(Returns[j][m]),
             job[j].took[n] = job[j].took[m]
      PROVE  Counts!Confused(job[j].took[n])
  <2>1. CASE ~IdsAgree
    BY <2>1 DEF IdsAgree, Counts!Confused
  <2>2. CASE IdsAgree
    <3>1. n \in DOMAIN Returns[j] /\ m \in DOMAIN Returns[j]
      BY <1>3
    <3>2. Claims(job[j].took[n], Returns[j][n]) /\ Claims(job[j].took[m], Returns[j][m])
      BY <1>2, <2>2, <3>1 DEF JobClaims
    <3> QED
      BY <1>5, <3>2 DEF Claims, Counts!Confused
  <2> QED
    BY <2>1, <2>2
<1> QED
  BY <1>3, <1>4, <1>5

LEMMA KnownStays ==
  ASSUME ReturnsInv
  PROVE  Counts!KnownKept
<1> SUFFICES ASSUME NEW c \in DOMAIN Known, c[1] \in DOMAIN db["elections"],
                    db["elections"][c[1]].last = Counts!Nobody
             PROVE  /\ Known[c].incumbent => db["candidate"][c].incumbent
                    /\ Known[c].party # Counts!Null => db["candidate"][c].party = Known[c].party
  BY DEF Counts!KnownKept
<1>1. KnownIn(db, db) /\ KnownThere(db)
  BY DEF ReturnsInv, BaseFits
<1>2. c[1] \in BeforeFiles(db)
  BY DEF BeforeFiles
<1>3. KeptOf(c, db["candidate"][c])
  BY <1>1, <1>2 DEF KnownIn, KnownThere
<1> QED
  BY <1>3 DEF KeptOf

(* What is left of a results file is its items, each as a whole or not at  *)
(* all; the items of different contests took different elections, unless   *)
(* an id, a name or the tables before confuse them; and what was known of  *)
(* a candidate stays.  For any files, elections and candidates before, and *)
(* any number of imports at once that fail or die (process_results_import, *)
(* services/results_import_service.py).                                    *)
THEOREM ResultsTheorem == ImportsSpec => []ResultsHold
<1> DEFINE Inv == part = "results" => ReturnsInv
<1>1. ImportsInit => Inv
  BY ReturnsBegin DEF ImportsInit
<1>2. Inv /\ [ImportsNext]_<<part, vars, imported>> => Inv'
  <2> SUFFICES ASSUME Inv, [ImportsNext]_<<part, vars, imported>>, part' = "results"
               PROVE  ReturnsInv'
    OBVIOUS
  <2>1. part = "results" /\ [Counts!Next]_results
    BY DEF ImportsNext, imported
  <2> QED
    BY <2>1, ReturnsStep
<1>3. Inv => ResultsHold
  BY ItemsAreWhole, ElectionsAreOwn, KnownStays DEF ResultsHold, Counts!ResultsHold
<1> QED
  BY <1>1, <1>2, <1>3, PTL DEF ImportsSpec

(* The directory, the results and the voters linked to elections together. *)
THEOREM ElectionDataTheorem == ImportsSpec => []ElectionDataHolds
<1>1. FilesHold /\ ResultsHold /\ ResolutionHolds => ElectionDataHolds
  BY DEF ElectionDataHolds
<1> QED
  BY <1>1, DirectoryTheorem, ResultsTheorem, ResolutionTheorem, PTL
================================================================================
