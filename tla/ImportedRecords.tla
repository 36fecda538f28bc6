---------------------------- MODULE ImportedRecords ----------------------------
(***************************************************************************)
(* What is imported: voter history (extended), and candidates, the JSONL   *)
(* directory, results and calendars, boundaries, absentee ballots, and the *)
(* resolution that links elections and voter history (instanced).  They    *)
(* share no state here, so that they are looked at side by side: part says *)
(* which of them a behaviour is of, and the variables of the others rest   *)
(* at Nil.                                                                 *)
(***************************************************************************)
EXTENDS VoterHistoryImport, Sequences

CONSTANTS
  Nil,
  Races, Forms, People, Loads, Lines, Lists, MaxCorrections,        \* candidates
  Ids, Values, Directories, SubBatch, MaxCommands, MaxRevisions,    \* the directory
  Existing, Known, Listed, Calendars, Jobs, Returns,                \* results, calendars
  Contests, Votes, Voters, PscCounties, Polls, Runs, Modes, MaxEdits, \* resolution
  ShapeFiles, CountyOptions, Surveys, Legacy, MaxShapes,                    \* boundaries
  Applications, BallotFiles, Intakes, Statement, MaxBallots         \* absentee ballots

VARIABLES
  part,
  contested, gone, candidate, candidacy, link, loading, fresh, corrected,
  dir, table, written, command, told, base, revised,
  db, draft, mark, job, calendar,
  election, vote, event, pending, run, settled, edits,
  shape, meta, drawn, survey, last, overlapped,
  ballot, entered, intake, latest, stats

roster    == <<contested, gone, candidate, candidacy, link, loading, fresh, corrected>>
directory == <<dir, table, written, command, told, base, revised>>
results   == <<db, draft, mark, job, calendar>>
linked    == <<election, vote, event, pending, run, settled, edits>>
surveyed  == <<shape, meta, drawn, survey, last, overlapped>>
ballots   == <<ballot, entered, intake, latest, stats>>
imported  == <<roster, directory, results, linked, surveyed, ballots>>

Roster    == INSTANCE CandidateImport WITH
               Contests <- Races, Jobs <- Loads, Records <- Lines, Files <- Lists,
               MaxEdits <- MaxCorrections,
               elections <- contested, job <- loading, new <- fresh, edits <- corrected
Directory == INSTANCE JsonlImport WITH
               MaxRuns <- MaxCommands, MaxEdits <- MaxRevisions,
               rows <- table, draft <- written, run <- command, edits <- revised
Counts    == INSTANCE ResultsImport WITH Files <- Returns
Linking   == INSTANCE ElectionResolution WITH
               Present <- Polls,
               elections <- election, rows <- vote, events <- event, draft <- pending
Shapes    == INSTANCE BoundaryImports WITH
               Files <- ShapeFiles, Options <- CountyOptions, Imports <- Surveys, None <- Nil,
               MaxRows <- MaxShapes,
               rows <- shape, draft <- drawn, import <- survey
Absentee  == INSTANCE AbsenteeBallots WITH
               Records <- Applications, Files <- BallotFiles, Imports <- Intakes,
               SubBatch <- Statement, None <- Nil, MaxRows <- MaxBallots,
               rows <- ballot, draft <- entered, import <- intake

ASSUME ImportsAssumption ==
  /\ Roster!CandidateAssumption /\ Linking!ResolutionAssumption /\ Shapes!BoundaryAssumption
  /\ Absentee!AbsenteeAssumption /\ Directory!DirectoryAssumption /\ Counts!ResultsAssumption

-----------------------------------------------------------------------------
(* A part begins and moves; the others and the voter history rest.         *)
RosterRests    == /\ contested = Nil /\ gone = Nil /\ candidate = Nil /\ candidacy = Nil /\ link = Nil
                  /\ loading = Nil /\ fresh = Nil /\ corrected = Nil
DirectoryRests == /\ dir = Nil /\ table = Nil /\ written = Nil /\ command = Nil /\ told = Nil
                  /\ base = Nil /\ revised = Nil
CountsRest     == db = Nil /\ draft = Nil /\ mark = Nil /\ job = Nil /\ calendar = Nil
LinkingRests   == /\ election = Nil /\ vote = Nil /\ event = Nil /\ pending = Nil /\ run = Nil
                  /\ settled = Nil /\ edits = Nil
ShapesRest     == /\ shape = Nil /\ meta = Nil /\ drawn = Nil /\ survey = Nil /\ last = Nil
                  /\ overlapped = Nil
AbsenteeRests  == /\ ballot = Nil /\ entered = Nil /\ intake = Nil /\ latest = Nil /\ stats = Nil

ImportsInit ==
  /\ Init
  /\ part \in {"history", "candidates", "directory", "results", "resolution", "boundaries",
               "absentee"}
  /\ IF part = "candidates" THEN Roster!Init    ELSE RosterRests
  /\ IF part = "directory"  THEN Directory!Init ELSE DirectoryRests
  /\ IF part = "results"    THEN Counts!Init    ELSE CountsRest
  /\ IF part = "resolution" THEN Linking!Init   ELSE LinkingRests
  /\ IF part = "boundaries" THEN Shapes!Init    ELSE ShapesRest
  /\ IF part = "absentee"   THEN Absentee!Init  ELSE AbsenteeRests

ImportsNext ==
  \/ /\ part = "history" /\ Next
     /\ UNCHANGED <<part, imported>>
  \/ /\ part = "candidates" /\ Roster!Next
     /\ UNCHANGED <<part, vars, directory, results, linked, surveyed, ballots>>
  \/ /\ part = "directory" /\ Directory!Next
     /\ UNCHANGED <<part, vars, roster, results, linked, surveyed, ballots>>
  \/ /\ part = "results" /\ Counts!Next
     /\ UNCHANGED <<part, vars, roster, directory, linked, surveyed, ballots>>
  \/ /\ part = "resolution" /\ Linking!Next
     /\ UNCHANGED <<part, vars, roster, directory, results, surveyed, ballots>>
  \/ /\ part = "boundaries" /\ Shapes!Next
     /\ UNCHANGED <<part, vars, roster, directory, results, linked, ballots>>
  \/ /\ part = "absentee" /\ Absentee!Next
     /\ UNCHANGED <<part, vars, roster, directory, results, linked, surveyed>>

ImportsSpec == ImportsInit /\ [][ImportsNext]_<<part, vars, imported>>

-----------------------------------------------------------------------------
(* What is in the tables is what the files and the edits before say, as    *)
(* the module of each import states it.                                    *)
RosterHolds     == part = "candidates" => Roster!RosterHolds
FilesHold       == part = "directory"  => Directory!FilesHold
ResultsHold     == part = "results"    => Counts!ResultsHold
AgainHolds      == part = "results"    => Counts!AgainHolds
BoundariesHold  == part = "boundaries" => Shapes!BoundariesHold
AbsenteeHold    == part = "absentee"   => Absentee!AbsenteeHold

(* Voter history rows are linked to the elections their voters voted in.   *)
ResolutionHolds == part = "resolution" => Linking!ResolutionHolds

(* The registers that are kept by upserts (candidates, boundaries and      *)
(* absentee ballots) have what their imports and the edits between them    *)
(* say, once for each key.                                                 *)
RegistersHold == RosterHolds /\ BoundariesHold /\ AbsenteeHold

(* The data of elections (the directory, the results and the voters linked *)
(* to them) is that of the files and runs, each as a whole.                *)
ElectionDataHolds == FilesHold /\ ResultsHold /\ ResolutionHolds
================================================================================
