----------------------------- MODULE ElectionRefresh -----------------------------
(***************************************************************************)
(* Election results.  A background loop, and refreshes that an admin or a  *)
(* feed import asks for, fetch the feed of an election and write one       *)
(* statewide row and one row per county; admins edit, link, finalize and   *)
(* delete elections and submit results by hand meanwhile.                  *)
(*                                                                         *)
(* The ORM writes a column only if it differs from the value it loaded,    *)
(* and it loads the statewide row before the fetch: writing back what was  *)
(* loaded leaves a newer value in place.                                   *)
(***************************************************************************)
EXTENDS Naturals, FiniteSets

CONSTANTS Elections,
          Sourced,    \* elections created from a feed; the others are manual
          Urls,
          Counties,
          Covers,     \* the counties that a feed has for the race, by URL
          Requests,   \* refreshes and submissions of admins
          MaxVersion, \* bound on versions a feed goes through
          MaxEdits,   \* bound on edits of elections
          MaxAsks     \* bound on requests of admins

Loop   == "loop"
NoUrl  == "none"
Nothing == [url |-> NoUrl, n |-> 0]   \* no row
ByHand == [url |-> "manual", n |-> 0] \* results submitted by an admin
Workers  == Requests \cup {Loop}

VARIABLES
  election,  \* elections: [live, active, source, url]; source "none" if no row
  statewide, \* election_results of an election: the version it holds
  county,    \* election_county_results, by county
  version,   \* the version that a feed has now, by URL
  task,      \* the loop and the requests: [pc, todo, seen, e, base, got]
  spent      \* history: edits and requests used up

vars == <<election, statewide, county, version, task, spent>>

Idle        == [pc |-> "idle", todo |-> {}, seen |-> [e \in Elections |-> NoUrl], e |-> NoUrl,
                base |-> Nothing, got |-> Nothing]
Fresh(u)    == [url |-> u, n |-> version[u]]
Live(e)     == election[e].live
Due(e)      == Live(e) /\ election[e].active /\ election[e].url # NoUrl
Set(t, r)   == task' = [task EXCEPT ![t] = r]
Spend(kind) == spent' = [spent EXCEPT ![kind] = @ + 1]

(* A task is done with an election: the loop takes the next one.           *)
Done(t)     == IF t = Loop /\ task[t].todo # {} THEN [task[t] EXCEPT !.pc = "next"] ELSE Idle

Init == /\ election = [e \in Elections |-> [live |-> FALSE, active |-> FALSE, source |-> "none",
                                            url |-> NoUrl]]
        /\ statewide = [e \in Elections |-> Nothing]
        /\ county = [e \in Elections |-> [c \in Counties |-> Nothing]]
        /\ version = [u \in Urls |-> 1]
        /\ task = [t \in Workers |-> Idle]
        /\ spent = [edits |-> 0, asks |-> 0]

-----------------------------------------------------------------------------
(* What admins do to elections.                                            *)
Edit(e, row) == /\ spent.edits < MaxEdits /\ Spend("edits")
                /\ election' = [election EXCEPT ![e] = row]
                /\ UNCHANGED <<statewide, county, version, task>>

Create(e, u) == /\ election[e].source = "none"
                /\ (u = NoUrl) <=> (e \notin Sourced)
                /\ election' = [election EXCEPT ![e] =
                     [live |-> TRUE, active |-> TRUE, url |-> u,
                      source |-> IF u = NoUrl THEN "manual" ELSE "sos_feed"]]
                /\ UNCHANGED <<statewide, county, version, task, spent>>

(* Any live election may get a URL or another one, a manual one too.       *)
UpdateUrl(e, u)   == Live(e) /\ election[e].url # u /\ Edit(e, [election[e] EXCEPT !.url = u])
UpdateStatus(e)   == Live(e) /\ Edit(e, [election[e] EXCEPT !.active = ~@])
SoftDelete(e)     == Live(e) /\ Edit(e, [election[e] EXCEPT !.live = FALSE])
LinkElection(e, u) == /\ Live(e) /\ election[e].source = "manual"
                      /\ Edit(e, [election[e] EXCEPT !.source = "linked", !.url = u])

(* The source publishes more precincts.                                    *)
Publish(u) == /\ version[u] < MaxVersion
              /\ version' = [version EXCEPT ![u] = @ + 1]
              /\ UNCHANGED <<election, statewide, county, task, spent>>

-----------------------------------------------------------------------------
(* A cycle of the loop loads the elections that are due, once, and goes on *)
(* to see them as they were then.                                          *)
StartCycle == /\ task[Loop].pc = "idle" /\ \E e \in Elections : Due(e)
              /\ Set(Loop, [Idle EXCEPT !.pc = "next", !.todo = {e \in Elections : Due(e)},
                                        !.seen = [e \in Elections |-> election[e].url]])
              /\ UNCHANGED <<election, statewide, county, version, spent>>

(* One that was deleted since is passed over.                              *)
LoadNext(e) ==
  /\ task[Loop].pc = "next" /\ e \in task[Loop].todo
  /\ LET rest == [task[Loop] EXCEPT !.todo = @ \ {e}]
     IN Set(Loop, IF Live(e) THEN [rest EXCEPT !.pc = "fetch", !.e = e, !.base = statewide[e]]
                  ELSE IF rest.todo = {} THEN Idle ELSE rest)
  /\ UNCHANGED <<election, statewide, county, version, spent>>

(* An admin, a feed import or a command asks for one, active or not.       *)
Ask(t, e) ==
  /\ task[t].pc = "idle" /\ t # Loop /\ Live(e) /\ election[e].url # NoUrl
  /\ spent.asks < MaxAsks /\ Spend("asks")
  /\ Set(t, [Idle EXCEPT !.pc = "fetch", !.seen[e] = election[e].url, !.e = e,
                         !.base = statewide[e]])
  /\ UNCHANGED <<election, statewide, county, version>>

(* A feed import creates a race that is not there yet, final if its date   *)
(* is past, and may fill it in: by a refresh, or from the feed in hand.    *)
ImportRace(t, e, u) ==
  /\ task[t].pc = "idle" /\ t # Loop /\ e \in Sourced /\ election[e].source = "none"
  /\ spent.asks < MaxAsks /\ Spend("asks")
  /\ \E active \in BOOLEAN, refresh \in BOOLEAN :
       /\ election' = [election EXCEPT ![e] = [live |-> TRUE, active |-> active, url |-> u,
                                              source |-> "sos_feed"]]
       /\ Set(t, IF ~refresh THEN Idle
                 ELSE [Idle EXCEPT !.pc = IF active THEN "fetch" ELSE "persist",
                                   !.seen[e] = u, !.e = e, !.got = Fresh(u)])
  /\ UNCHANGED <<statewide, county, version>>

Fetch(t) == /\ task[t].pc = "fetch"
            /\ Set(t, [task[t] EXCEPT !.pc = "persist", !.got = Fresh(task[t].seen[task[t].e])])
            /\ UNCHANGED <<election, statewide, county, version, spent>>

(* A time-out, a bad answer, a race that is not in it: nothing is written. *)
FetchFails(t) == /\ task[t].pc = "fetch"
                 /\ Set(t, Done(t))
                 /\ UNCHANGED <<election, statewide, county, version, spent>>

(* Where no row was loaded the row is looked for again.                    *)
Lookup(t) == /\ task[t].pc = "persist"
             /\ Set(t, [task[t] EXCEPT !.pc = "flush",
                                       !.base = IF @ = Nothing THEN statewide[task[t].e] ELSE @])
             /\ UNCHANGED <<election, statewide, county, version, spent>>

(* Another task inserted the row since: the flush fails, which breaks the  *)
(* session, and with it the rest of the loop's cycle.                      *)
Collides(t) == task[t].base = Nothing /\ statewide[task[t].e] # Nothing

(* Wrong variant: the exception ends the loop for good.                    *)
ConflictEnds(t) == /\ task[t].pc \in {"flush", "insert"} /\ Collides(t)
                   /\ Set(t, [Idle EXCEPT !.pc = "ended"])
                   /\ UNCHANGED <<election, statewide, county, version, spent>>

Conflict(t) == /\ task[t].pc \in {"flush", "insert"} /\ Collides(t)
               /\ Set(t, Idle)
               /\ UNCHANGED <<election, statewide, county, version, spent>>

(* Wrong variant: the counties of a feed commit one at a time.             *)
PersistPiecemeal(t) ==
  /\ task[t].pc = "flush" /\ ~Collides(t)
  /\ LET r == task[t]
     IN /\ statewide' = IF r.got = r.base THEN statewide ELSE [statewide EXCEPT ![r.e] = r.got]
        /\ \E c \in Covers[r.got.url] : county' = [county EXCEPT ![r.e][c] = r.got]
        /\ Set(t, Done(t))
  /\ UNCHANGED <<election, version, spent>>

(* The statewide row is written, and locked, first (fetched_at differs at  *)
(* any rate), so the counties are read and written behind it: one commit.  *)
Persist(t) ==
  /\ task[t].pc = "flush" /\ ~Collides(t)
  /\ LET r == task[t]
     IN /\ statewide' = IF r.got = r.base THEN statewide ELSE [statewide EXCEPT ![r.e] = r.got]
        /\ county' = [county EXCEPT ![r.e] = [c \in Counties |-> IF c \in Covers[r.got.url]
                                                                 THEN r.got ELSE @[c]]]
        /\ Set(t, Done(t))
  /\ UNCHANGED <<election, version, spent>>

-----------------------------------------------------------------------------
(* Submission by hand: the source is checked first, the row locked later.  *)
(* A row that came in between is found and locked all the same, and        *)
(* nothing gets between the lock and the commit; where there is still none *)
(* to lock, another task may insert it before this one does.               *)
CheckManual(t, e) == /\ task[t].pc = "idle" /\ t # Loop
                     /\ Live(e) /\ election[e].source = "manual"
                     /\ spent.asks < MaxAsks /\ Spend("asks")
                     /\ Set(t, [Idle EXCEPT !.pc = "submit", !.e = e, !.base = statewide[e]])
                     /\ UNCHANGED <<election, statewide, county, version>>

NoRowToLock(t) == /\ task[t].pc = "submit" /\ statewide[task[t].e] = Nothing
                  /\ Set(t, [task[t] EXCEPT !.pc = "insert"])
                  /\ UNCHANGED <<election, statewide, county, version, spent>>

SubmitManual(t) ==
  /\ \/ task[t].pc = "submit" /\ statewide[task[t].e] # Nothing
     \/ task[t].pc = "insert" /\ ~Collides(t)
  /\ LET r == task[t]
     IN statewide' = IF r.base = ByHand THEN statewide ELSE [statewide EXCEPT ![r.e] = ByHand]
  /\ Set(t, Idle)
  /\ UNCHANGED <<election, county, version, spent>>

(* The server goes down: its tasks are cancelled wherever they wait.       *)
Restart == /\ spent.edits < MaxEdits /\ Spend("edits")
           /\ task' = [t \in Workers |-> Idle]
           /\ UNCHANGED <<election, statewide, county, version>>

Refresh(t) == Fetch(t) \/ Lookup(t) \/ Persist(t) \/ Conflict(t)
LoopStep   == StartCycle \/ (\E e \in Elections : LoadNext(e)) \/ Refresh(Loop) \/ FetchFails(Loop)

Next == \/ \E e \in Elections, u \in Urls \cup {NoUrl} : Create(e, u)
        \/ \E e \in Elections : UpdateStatus(e) \/ SoftDelete(e)
        \/ \E e \in Elections, u \in Urls :
             \/ UpdateUrl(e, u) \/ LinkElection(e, u)
             \/ \E t \in Requests : ImportRace(t, e, u)
        \/ \E u \in Urls : Publish(u)
        \/ LoopStep
        \/ \E t \in Requests : \/ Refresh(t) \/ FetchFails(t) \/ NoRowToLock(t) \/ SubmitManual(t)
                               \/ \E e \in Elections : Ask(t, e) \/ CheckManual(t, e)
        \/ Restart

Spec == Init /\ [][Next]_vars

(* The loop sleeps and works on, and the source answers now and then for   *)
(* every election that it is asked for again and again.                    *)
Fairness == /\ WF_vars(LoopStep)
            /\ \A e \in Elections : SF_vars(task[Loop].e = e /\ Fetch(Loop))
FairSpec == Spec /\ Fairness

-----------------------------------------------------------------------------
(* However refreshes overlap, the counties of an election that both feeds  *)
(* of its history cover hold one version of one feed: no commit mixes two. *)
CountiesAgree ==
  \A e \in Elections : \A c, d \in {k \in Counties : \A u \in Urls : k \in Covers[u]} :
    county[e][c] = county[e][d]

(* An active election ends up with the last version of its feed, statewide *)
(* and by county, whatever overtook, failed or was cut short before.       *)
Current(e, u) == /\ statewide[e] = [url |-> u, n |-> MaxVersion]
                 /\ \A c \in Covers[u] : county[e][c] = [url |-> u, n |-> MaxVersion]
Settled(e, u) == /\ Due(e) /\ election[e].url = u /\ version[u] = MaxVersion
                 /\ \A t \in Requests : task[t].pc = "idle"
CatchesUp == \A e \in Elections, u \in Urls : <>[]Settled(e, u) => <>[]Current(e, u)

-----------------------------------------------------------------------------
(* What the documents say and the code does not do.                        *)

(* specs/004-election-tracking/spec.md:109: "The system replaces the full  *)
(* result set on each refresh (JSONB upsert)."                             *)
RefreshReplacesAll ==
  [][\A t \in Workers : task[t].pc = "flush" /\ task'[t].pc # "flush" /\ county # county'
       => LET e == task[t].e
          IN \A c \in Counties : county'[e][c] \in {Nothing, task[t].got}]_vars
=============================================================================
