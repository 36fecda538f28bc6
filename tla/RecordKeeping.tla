----------------------------- MODULE RecordKeeping -----------------------------
(***************************************************************************)
(* The task runner (extended) and the components that keep records:        *)
(* analysis runs, district checks, meetings, accounts, officials and       *)
(* election results (instanced).  They share no state, so that they are    *)
(* looked at side by side: part says which of them a behaviour is of, and  *)
(* the variables of the others rest at Nil.                                *)
(***************************************************************************)
EXTENDS TaskRunner

CONSTANTS
  Nil,
  Voters, Runs, Cli, BatchSize, MaxChanges, MaxFaults, MaxCrashes,  \* analysis runs
  Points, Numbers, Widths, Labels, Homes,                           \* district checks
  Bodies, Meetings, Items, Attachments, Embeds, Trees, Admins, Contributors, Orders,
  Requests,                                                         \* of meetings and accounts
  Emails, Invites, MaxSerial,                                       \* accounts
  People, Provider, Syncs, Seats, Persons, Cases, MaxRows,          \* officials
  Elections, Sourced, Urls, Counties, Covers, Askers, MaxVersion, MaxAsks, \* elections
  MaxEdits                                                          \* of both

VARIABLES
  part,
  verdict, flag, status, results, row, pc, cursor, page, tally, steady, spent,
  boundaries, registered, home, located, point, compared, checked,
  entry, approval, order, files, req, raced,
  user, creds, codes, tokens, invite, made, mailed, linked, session, serial, faults,
  record, source, official, sync, edited,
  election, statewide, county, version, task, used

runs      == <<verdict, flag, status, results, row, pc, cursor, page, tally, steady, spent>>
answers   == <<boundaries, registered, home, located, point, compared, checked>>
meetings  == <<entry, approval, order, files, req, raced>>
accounts  == <<user, creds, codes, tokens, invite, made, mailed, linked, session, serial, faults>>
officials == <<record, source, official, sync, edited>>
tracked   == <<election, statewide, county, version, task, used>>
kept      == <<runs, answers, meetings, accounts, officials, tracked>>

Analysis == INSTANCE AnalysisRuns
Checks   == INSTANCE DistrictChecks WITH None <- Nil, Names <- Labels, Counties <- Homes,
                                         official <- point
Agenda   == INSTANCE Meetings WITH None <- Nil, row <- entry
Users    == INSTANCE Accounts WITH task <- session
Elected  == INSTANCE Officials WITH Records <- People, Districts <- Seats, spent <- edited
Tracking == INSTANCE ElectionRefresh WITH Requests <- Askers, spent <- used

ASSUME RecordsAssumption ==
  /\ Analysis!RunsAssumption /\ Checks!ChecksAssumption /\ Users!AccountsAssumption
  /\ Elected!ProvidersAssumption /\ Agenda!MeetingsAssumption

-----------------------------------------------------------------------------
(* A part begins and moves; the others and the runner rest.                *)
AnalysisRests == /\ verdict = Nil /\ flag = Nil /\ status = Nil /\ results = Nil /\ row = Nil
                 /\ pc = Nil /\ cursor = Nil /\ page = Nil /\ tally = Nil /\ steady = Nil
                 /\ spent = Nil
ChecksRest    == /\ boundaries = Nil /\ registered = Nil /\ home = Nil /\ located = Nil
                 /\ point = Nil /\ compared = Nil /\ checked = Nil
AgendaRests   == /\ entry = Nil /\ approval = Nil /\ order = Nil /\ files = Nil /\ req = Nil
                 /\ raced = Nil
UsersRest     == /\ user = Nil /\ creds = Nil /\ codes = Nil /\ tokens = Nil /\ invite = Nil
                 /\ made = Nil /\ mailed = Nil /\ linked = Nil /\ session = Nil /\ serial = Nil
                 /\ faults = Nil
ElectedRest   == record = Nil /\ source = Nil /\ official = Nil /\ sync = Nil /\ edited = Nil
TrackingRests == /\ election = Nil /\ statewide = Nil /\ county = Nil /\ version = Nil
                 /\ task = Nil /\ used = Nil

RecordsInit ==
  /\ Init
  /\ part \in {"runner", "analysis", "checks", "meetings", "accounts", "officials", "elections"}
  /\ IF part = "analysis"  THEN Analysis!Init ELSE AnalysisRests
  /\ IF part = "checks"    THEN Checks!Init   ELSE ChecksRest
  /\ IF part = "meetings"  THEN Agenda!Init   ELSE AgendaRests
  /\ IF part = "accounts"  THEN Users!Init    ELSE UsersRest
  /\ IF part = "officials" THEN Elected!Init  ELSE ElectedRest
  /\ IF part = "elections" THEN Tracking!Init ELSE TrackingRests

RecordsNext ==
  \/ /\ part = "runner" /\ Next
     /\ UNCHANGED <<part, kept>>
  \/ /\ part = "analysis" /\ Analysis!Next
     /\ UNCHANGED <<part, vars, answers, meetings, accounts, officials, tracked>>
  \/ /\ part = "checks" /\ Checks!Next
     /\ UNCHANGED <<part, vars, runs, meetings, accounts, officials, tracked>>
  \/ /\ part = "meetings" /\ Agenda!Next
     /\ UNCHANGED <<part, vars, runs, answers, accounts, officials, tracked>>
  \/ /\ part = "accounts" /\ Users!Next
     /\ UNCHANGED <<part, vars, runs, answers, meetings, officials, tracked>>
  \/ /\ part = "officials" /\ Elected!Next
     /\ UNCHANGED <<part, vars, runs, answers, meetings, accounts, tracked>>
  \/ /\ part = "elections" /\ Tracking!Next
     /\ UNCHANGED <<part, vars, runs, answers, meetings, accounts, officials>>

RecordsSpec == RecordsInit /\ [][RecordsNext]_<<part, vars, kept>>

-----------------------------------------------------------------------------
(* What each part must keep, as its module states it.                      *)
RunsHold       == part = "analysis"  => Analysis!RunsHold
AnswersAgree   == part = "checks"    => Checks!AnswersAgree
RecordsHold    == part = "meetings"  => Agenda!RecordsHold
AccountsHold   == part = "accounts"  => Users!AccountsHold
CountiesAgree  == part = "elections" => Tracking!CountiesAgree
ReorderAsAsked == [][part = "meetings"  => Agenda!AsAsked]_<<part, meetings>>
SyncedLinked   == [][part = "officials" => Elected!EndsLinked]_<<part, officials>>
================================================================================
