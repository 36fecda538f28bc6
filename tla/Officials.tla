------------------------------- MODULE Officials -------------------------------
(***************************************************************************)
(* Elected officials.  A sync fetches a provider's records, stores them as *)
(* sources in one commit, and then, district by district, makes officials  *)
(* for the sources that no official matches.  Admins create, rename,       *)
(* approve and delete officials meanwhile, and the syncs of several        *)
(* providers overlap.  Names match whatever their case.                    *)
(***************************************************************************)
EXTENDS Naturals, FiniteSets

CONSTANTS Records,   \* records of all providers
          Provider,  \* the records that a sync may fetch: those of a chamber, of Congress
          Syncs,     \* commands that fetch, one provider each
          Districts,
          Persons,
          Cases,     \* ways to write a person's name
          MaxRows,   \* bound on officials ever made
          MaxEdits   \* bound on what admins change, and on what providers change

(* No two commands that fetch the same provider run at the same time.      *)
ProvidersAssumption ==
  /\ \A s \in Syncs : Provider[s] \subseteq Records
  /\ \A s, t \in Syncs : s # t => Provider[s] \cap Provider[t] = {}

None  == 0
Ids   == 1..MaxRows
Names == [who : Persons, as : Cases]

VARIABLES
  record,   \* what the provider says: [district, name]
  source,   \* elected_official_sources: [there, district, name, link]
  official, \* elected_officials: [there, district, name, status]
  sync,     \* the commands: [pc, got, todo, district, plan]
  spent     \* history: edits, changes of records

vars == <<record, source, official, sync, spent>>

NoSource   == [there |-> FALSE, district |-> CHOOSE d \in Districts : TRUE,
               name |-> CHOOSE n \in Names : TRUE, link |-> None]
NoOfficial == [there |-> FALSE, district |-> CHOOSE d \in Districts : TRUE,
               name |-> CHOOSE n \in Names : TRUE, status |-> "auto"]
NoPlan     == [r \in {} |-> None]
Idle       == [pc |-> "idle", got |-> NoPlan, todo |-> {}, district |-> CHOOSE d \in Districts : TRUE,
               plan |-> NoPlan]

Init == /\ record \in [Records -> [district : Districts, name : Names]]
        /\ source = [r \in Records |-> NoSource]
        /\ official = [o \in Ids |-> NoOfficial]
        /\ sync = [s \in Syncs |-> Idle]
        /\ spent = [edits |-> 0, changes |-> 0]

Spend(kind, bound) == spent[kind] < bound /\ spent' = [spent EXCEPT ![kind] = @ + 1]
Free               == {o \in Ids : ~official[o].there}
NextId             == CHOOSE o \in Free : \A p \in Free : o <= p

(* The officials with a name in a district, and those that only differ in  *)
(* case from it; the table is unique on the name as it is written.         *)
Matching(d, n) == {o \in Ids : official[o].there /\ official[o].district = d
                               /\ official[o].name.who = n.who}
Taken(d, n)    == \E o \in Matching(d, n) : official[o].name = n

-----------------------------------------------------------------------------
(* Admins.                                                                 *)
CreateOfficial(d, n) ==
  /\ Spend("edits", MaxEdits) /\ Free # {} /\ ~Taken(d, n)
  /\ official' = [official EXCEPT ![NextId] =
       [there |-> TRUE, district |-> d, name |-> n, status |-> "manual"]]
  /\ UNCHANGED <<record, source, sync>>

UpdateOfficial(o, n) ==
  /\ Spend("edits", MaxEdits) /\ official[o].there /\ ~Taken(official[o].district, n)
  /\ official' = [official EXCEPT ![o].name = n]
  /\ UNCHANGED <<record, source, sync>>

(* The sources that are linked to it are deleted with it.                  *)
DeleteOfficial(o) ==
  /\ Spend("edits", MaxEdits) /\ official[o].there
  /\ official' = [official EXCEPT ![o] = NoOfficial]
  /\ source' = [r \in Records |-> IF source[r].link = o THEN NoSource ELSE source[r]]
  /\ UNCHANGED <<record, sync>>

(* Approval may take over what one of its sources says, but not to where.  *)
ApproveOfficial(o, name) ==
  /\ Spend("edits", MaxEdits) /\ official[o].there
  /\ name \in {official[o].name} \cup {source[r].name : r \in {q \in Records : source[q].link = o}}
  /\ name = official[o].name \/ ~Taken(official[o].district, name)
  /\ official' = [official EXCEPT ![o].status = "approved", ![o].name = name]
  /\ UNCHANGED <<record, source, sync>>

(* A provider corrects a name or moves somebody to another seat.           *)
Correct(r, d, n) == /\ Spend("changes", MaxEdits)
                    /\ record' = [record EXCEPT ![r] = [district |-> d, name |-> n]]
                    /\ UNCHANGED <<source, official, sync>>

-----------------------------------------------------------------------------
(* Syncs.                                                                  *)
Set(s, t) == sync' = [sync EXCEPT ![s] = t]

(* A provider lists those in office now: people come and go, and the       *)
(* sources of those who left stay as they are (nothing clears is_current). *)
Fetch(s, listed) ==
  /\ sync[s].pc = "idle" /\ listed \subseteq Provider[s]
  /\ Set(s, [Idle EXCEPT !.pc = "upsert", !.got = [r \in listed |-> record[r]]])
  /\ UNCHANGED <<record, source, official, spent>>

(* The districts that a command goes through.                              *)
Visited(s) == {sync[s].got[r].district : r \in DOMAIN sync[s].got}

(* The link that a source gets if it has none: the one official that       *)
(* matches.  Two of them are an error, as is a source that another command *)
(* has inserted since this one looked.                                     *)
Ambiguous(s) == LET got == sync[s].got
                IN \E r \in DOMAIN got : /\ source[r].link = None
                     /\ Cardinality(Matching(got[r].district, got[r].name)) > 1

LinkFor(d, n) == IF Matching(d, n) = {} THEN None ELSE CHOOSE o \in Matching(d, n) : TRUE

UpsertSources(s) ==
  /\ sync[s].pc = "upsert" /\ ~Ambiguous(s)
  /\ LET got == sync[s].got
     IN /\ source' = [r \in Records |->
             IF r \notin DOMAIN got THEN source[r]
             ELSE [there |-> TRUE, district |-> got[r].district, name |-> got[r].name,
                   link |-> IF source[r].link # None THEN source[r].link
                            ELSE LinkFor(got[r].district, got[r].name)]]
        /\ Set(s, IF DOMAIN got = {} THEN Idle
                  ELSE [sync[s] EXCEPT !.pc = "districts", !.todo = Visited(s)])
  /\ UNCHANGED <<record, official, spent>>

(* Wrong variant: a source whose person the district has already is not    *)
(* looked at again.                                                        *)
UnlinkedUnknown(d) == {r \in Records : source[r].there /\ source[r].district = d
                                       /\ source[r].link = None /\ Matching(d, source[r].name) = {}}

Unlinked(d) == {r \in Records : source[r].there /\ source[r].district = d /\ source[r].link = None}

(* What the district's sources without an official will get: the official   *)
(* that matches now, or a new one; more than one match is an error.  All   *)
(* is read in one transaction, here at its start.                          *)
PlanFor(todo) == [r \in todo |-> [name |-> source[r].name,
                                  old  |-> LinkFor(source[r].district, source[r].name)]]
Clear(d, todo) == \A r \in todo : Cardinality(Matching(d, source[r].name)) <= 1

(* Every source of the district without an official, whoever stored it.    *)
ReadUnlinked(s, d) ==
  /\ sync[s].pc = "districts" /\ d \in sync[s].todo
  /\ LET todo == Unlinked(d)
     IN Clear(d, todo) /\ Set(s, [sync[s] EXCEPT !.pc = "create", !.todo = @ \ {d},
                                  !.district = d, !.plan = PlanFor(todo)])
  /\ UNCHANGED <<record, source, official, spent>>

(* One commit for the district: a new official for each person that has    *)
(* none, made from the first of the person's sources, and every link.  It  *)
(* fails when somebody has made that name, or deleted a match, meanwhile.  *)
AutoCreate(s) ==
  /\ sync[s].pc = "create"
  /\ LET plan == sync[s].plan
         d    == sync[s].district
         new  == {r \in DOMAIN plan : plan[r].old = None}
     IN \E link \in [DOMAIN plan -> Ids], first \in SUBSET new :
          /\ \A r \in DOMAIN plan \ new : link[r] = plan[r].old /\ official[link[r]].there
          /\ \A r \in new : link[r] \in Free /\ ~Taken(d, plan[r].name)
          /\ \A r, q \in new : (link[r] = link[q]) <=> (plan[r].name.who = plan[q].name.who)
          /\ \A r \in new : \E q \in first : link[q] = link[r]
          /\ \A q, r \in first : link[q] = link[r] => q = r
          /\ official' = [o \in Ids |->
               IF \E q \in first : link[q] = o
               THEN [there |-> TRUE, district |-> d, status |-> "auto",
                     name |-> plan[CHOOSE q \in first : link[q] = o].name]
               ELSE official[o]]
          /\ source' = [r \in Records |-> IF r \in DOMAIN plan /\ source[r].there
                                          THEN [source[r] EXCEPT !.link = link[r]] ELSE source[r]]
  /\ Set(s, IF sync[s].todo = {} THEN Idle
            ELSE [sync[s] EXCEPT !.pc = "districts", !.plan = NoPlan])
  /\ UNCHANGED <<record, spent>>

(* An error, or the end of the process, rolls back what is not committed   *)
(* and ends the command: a clash of names, two matches, a provider's fault.*)
Fail(s) == /\ sync[s].pc # "idle"
           /\ Set(s, Idle)
           /\ UNCHANGED <<record, source, official, spent>>

Next == \/ \E d \in Districts, n \in Names : CreateOfficial(d, n)
        \/ \E o \in Ids, n \in Names : UpdateOfficial(o, n) \/ ApproveOfficial(o, n)
        \/ \E o \in Ids : DeleteOfficial(o)
        \/ \E r \in Records, d \in Districts, n \in Names : Correct(r, d, n)
        \/ \E s \in Syncs : UpsertSources(s) \/ AutoCreate(s) \/ Fail(s)
        \/ \E s \in Syncs, listed \in SUBSET Records : Fetch(s, listed)
        \/ \E s \in Syncs, d \in Districts : ReadUnlinked(s, d)

Spec == Init /\ [][Next]_vars

-----------------------------------------------------------------------------
(* A sync that gets to its end leaves an official to each source that it   *)
(* stored, and to those that earlier runs stored in the same districts     *)
(* before they failed, whatever the admins and the other syncs do; what    *)
(* they stored in districts that nobody is listed for any more is left.    *)
Ends(s)      == sync[s].pc = "create" /\ sync[s].todo = {} /\ AutoCreate(s)
AllLinked(s) == \A r \in Provider[s] :
                  source'[r].there /\ (r \in DOMAIN sync[s].got \/ source'[r].district \in Visited(s))
                    => source'[r].link # None
EndsLinked   == \A s \in Syncs : Ends(s) => AllLinked(s)
SyncedLinked == [][EndsLinked]_vars

(* models/elected_official.py:39: "One record per seat/district at a time".*)
OnePerSeat == \A d \in Districts :
                Cardinality({o \in Ids : official[o].there /\ official[o].district = d}) <= 1
================================================================================
