----------------------------- MODULE PublicAnswers -----------------------------
(***************************************************************************)
(* Batch geocoding jobs (extended) and what the system gives out: geocodes *)
(* and address suggestions, published files and the redirects to them,     *)
(* exports, election results and filters, and precinct maps (instanced).   *)
(* They share no state here, so that they are looked at side by side: part *)
(* says which of them a behaviour is of, and the variables of the others   *)
(* rest at Nil.                                                            *)
(***************************************************************************)
EXTENDS GeocodingJobs

CONSTANTS
  Nil,
  Providers, Orders, Enabled, Single, Answers, Requests, KindOf, PrimaryOf,   \* geocodes
  Household,
  Boundaries, TypeOf, PlaceOf, Combined, Commands, MaxRuns,                   \* publishing
  Voters, Runs, Exported, Cli, MaxWrites, MaxFaults,                          \* exports
  Elections, DateOf, DistrictOf, MaxEdits,                                    \* elections
  Readers, MaxVersion,                                                        \* of both
  Feeds, UpperOf, NormalOf, Shapes, Records                                   \* precinct maps

VARIABLES
  part,
  order, fallback, turn, cached, address, draft, req,
  table, store, manifest, command, cache, fetched, torn, runs,
  voter, results, job, file, export, rows, asked, since, faults,
  election, answer, options, edits,
  votes, meta, request

geocodes == <<order, fallback, turn, cached, address, draft, req>>
datasets == <<table, store, manifest, command, cache, fetched, torn, runs>>
exports  == <<voter, results, job, file, export, rows, asked, since, faults>>
ballots  == <<election, answer, options, edits>>
maps     == <<votes, meta, request>>
given    == <<geocodes, datasets, exports, ballots, maps>>

Geocodes == INSTANCE GeocoderAnswers WITH Names <- Providers, None <- Nil, cache <- cached
Datasets == INSTANCE Publishing WITH None <- Nil
Files    == INSTANCE Exports WITH Jobs <- Exported, None <- Nil, MaxVersion <- MaxWrites,
                                  pc <- export
Results  == INSTANCE ElectionAnswers WITH TypeOf <- DistrictOf, None <- Nil
Maps     == INSTANCE PrecinctMaps WITH Boundaries <- Shapes, None <- Nil, results <- votes

ASSUME GivenAssumption ==
  /\ Geocodes!AnswersAssumption /\ Datasets!PublishingAssumption /\ Files!ExportsAssumption
  /\ Results!AnswersAssumption /\ Maps!PrecinctAssumption

-----------------------------------------------------------------------------
(* A part begins and moves; the others and the jobs rest.                  *)
GeocodesRest == /\ order = Nil /\ fallback = Nil /\ turn = Nil /\ cached = Nil /\ address = Nil
                /\ draft = Nil /\ req = Nil
DatasetsRest == /\ table = Nil /\ store = Nil /\ manifest = Nil /\ command = Nil /\ cache = Nil
                /\ fetched = Nil /\ torn = Nil /\ runs = Nil
FilesRest    == /\ voter = Nil /\ results = Nil /\ job = Nil /\ file = Nil /\ export = Nil
                /\ rows = Nil /\ asked = Nil /\ since = Nil /\ faults = Nil
ResultsRest  == election = Nil /\ answer = Nil /\ options = Nil /\ edits = Nil
MapsRest     == votes = Nil /\ meta = Nil /\ request = Nil

AnswersInit ==
  /\ Init
  /\ part \in {"jobs", "geocodes", "datasets", "files", "results", "maps"}
  /\ IF part = "geocodes" THEN Geocodes!Init ELSE GeocodesRest
  /\ IF part = "datasets" THEN Datasets!Init ELSE DatasetsRest
  /\ IF part = "files"    THEN Files!Init    ELSE FilesRest
  /\ IF part = "results"  THEN Results!Init  ELSE ResultsRest
  /\ IF part = "maps"     THEN Maps!Init     ELSE MapsRest

AnswersNext ==
  \/ /\ part = "jobs" /\ Next
     /\ UNCHANGED <<part, given>>
  \/ /\ part = "geocodes" /\ Geocodes!Next
     /\ UNCHANGED <<part, vars, datasets, exports, ballots, maps>>
  \/ /\ part = "datasets" /\ Datasets!Next
     /\ UNCHANGED <<part, vars, geocodes, exports, ballots, maps>>
  \/ /\ part = "files" /\ Files!Next
     /\ UNCHANGED <<part, vars, geocodes, datasets, ballots, maps>>
  \/ /\ part = "results" /\ Results!Next
     /\ UNCHANGED <<part, vars, geocodes, datasets, exports, maps>>
  \/ /\ part = "maps" /\ Maps!Next
     /\ UNCHANGED <<part, vars, geocodes, datasets, exports, ballots>>

AnswersSpec == AnswersInit /\ [][AnswersNext]_<<part, vars, given>>

-----------------------------------------------------------------------------
(* A file that is downloaded, or redirected to, is one the tables and the  *)
(* manifest stand for.                                                     *)
PublishedHold ==
  /\ part = "datasets" => Datasets!PublishedHold
  /\ part = "files"    => Files!ExportsHold

(* An answer agrees with the rows it was read from, whoever wrote to them  *)
(* meanwhile, as the module of each answer states it.                      *)
AnswersHold ==
  /\ part = "geocodes" => Geocodes!GeocodesHold
  /\ part = "results"  => Results!AnswersHold
  /\ part = "maps"     => Maps!MapsHold
================================================================================
