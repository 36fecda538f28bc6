---------------------------- MODULE GeocoderAnswers ----------------------------
(***************************************************************************)
(* What a geocoding request gives out for one normalized address: the      *)
(* providers in their configured order, the cache they share, the public   *)
(* request for a single address, the administrator's request to all        *)
(* providers, a batch of a job, and the suggestions of address             *)
(* verification.  Each request is a transaction of its own, and so is a    *)
(* batch, whatever number of its voters live at the address: they are      *)
(* taken one after another and committed together.                         *)
(***************************************************************************)
EXTENDS Integers, Sequences, FiniteSets

CONSTANTS Names,     \* providers of the registry
          Orders,    \* fallback orders a deployment may have configured
          Enabled,   \* providers that are enabled and have their keys
          Single,    \* the provider of the single-address request
          Answers,   \* what providers answer: [rank, inside, score]
          Requests,  \* requests and batches at work on the address
          KindOf,    \* each one's kind: "single", "all", "batch" or "verify"
          PrimaryOf, \* the provider of each batch's job
          Household, \* bound on voters of the address in a batch
          None       \* no row, no answer

AnswersAssumption ==
  /\ Single \in Names /\ Enabled \subseteq Names /\ None \notin Answers
  /\ \A a \in Answers : a.rank \in 0..2 /\ a.inside \in BOOLEAN /\ a.score \in Nat
  /\ KindOf \in [Requests -> {"single", "all", "batch", "verify"}]
  /\ \A r \in Requests : KindOf[r] = "batch" => PrimaryOf[r] \in Names
  /\ Household \in Nat
  /\ \A o \in Orders : o \in Seq({o[i] : i \in DOMAIN o})

VARIABLES
  order,    \* the configured fallback order
  fallback, \* batches of jobs that were asked to fall back
  turn,     \* the voter of the address that each batch is at
  cache,    \* geocoder_cache, committed: the row of each provider
  address,  \* the address has its row in addresses
  draft,    \* rows a request has upserted and not committed
  req       \* the requests

setting == <<order, fallback, turn>>
vars    == <<setting, cache, address, draft, req>>

-----------------------------------------------------------------------------
NoRows == [p \in Names |-> None]
Fresh  == [pc |-> "idle", todo |-> <<>>, tries |-> 0, got |-> None, heard |-> <<>>,
           told |-> <<>>, asked |-> <<>>, answer |-> "none"]

(* The elements of a sequence that are at some of its places.              *)
At(seq, places) ==
  LET f[i \in 0..Len(seq)] == IF i = 0 THEN <<>>
                              ELSE IF i \in places THEN Append(f[i - 1], seq[i]) ELSE f[i - 1]
  IN  f[Len(seq)]

(* Each enabled name of the order, once, where it comes first.             *)
get_configured_providers ==
  At(order, {i \in DOMAIN order : order[i] \in Enabled /\ \A k \in 1..(i - 1) : order[k] # order[i]})

Remaining(r) ==
  LET all == get_configured_providers
  IN  At(all, {i \in DOMAIN all : all[i] # PrimaryOf[r]})

(* The providers a request goes through.                                   *)
Path(r) == CASE KindOf[r] = "single" -> <<Single>>
             [] KindOf[r] = "batch"  -> IF r \in fallback THEN <<PrimaryOf[r]>> \o Remaining(r)
                                        ELSE <<PrimaryOf[r]>>
             [] OTHER -> get_configured_providers

(* The sort key of a result, and the first of the smallest.                *)
Better(a, b) == a.rank < b.rank \/ (a.rank = b.rank /\ a.score > b.score)
select_best_result(heard) ==
  LET best == CHOOSE i \in DOMAIN heard :
        /\ \A k \in DOMAIN heard : ~Better(heard[k].result, heard[i].result)
        /\ \A k \in 1..(i - 1) : Better(heard[i].result, heard[k].result)
  IN  IF heard = <<>> THEN <<>> ELSE <<heard[best]>>

Current(r)  == Head(req[r].todo)
OnPrimary(r) == KindOf[r] = "batch" /\ req[r].asked = <<>>
Attempts(r) == IF KindOf[r] = "single" THEN 2 ELSE IF OnPrimary(r) THEN 3 ELSE 1
Seen(r, p)  == IF draft[r][p] # None THEN draft[r][p] ELSE cache[p]
Row(result, linked) == [result |-> result, linked |-> linked]
Of(p, result) == [provider |-> p, result |-> result]

(* A row another transaction has upserted is locked until it ends.         *)
Waits(r) == IF req[r].pc # "storing" THEN {}
            ELSE {q \in Requests \ {r} : draft[q][Current(r)] # None}
Cycle(S) == \A r \in S : Waits(r) \cap S # {} /\ \E q \in S : r \in Waits(q)

-----------------------------------------------------------------------------
Init ==
  /\ order \in Orders /\ fallback \in SUBSET {r \in Requests : KindOf[r] = "batch"}
  /\ turn = [r \in Requests |-> 1]
  /\ cache = NoRows /\ address = FALSE
  /\ draft = [r \in Requests |-> NoRows] /\ req = [r \in Requests |-> Fresh]

Move(r, new) == req' = [req EXCEPT ![r] = new]

(* The request ends: what it told its caller, and what it leaves behind.   *)
Ending(r, this, told, answer) ==
  [this EXCEPT !.pc = "commit", !.todo = <<>>, !.told = told, !.answer = answer]

(* On to the next provider; when none is left, a batch voter takes the     *)
(* best of what was heard and geocode-all answers with all of it.          *)
Onward(r, this) ==
  LET rest == Tail(this.todo)
      told == IF KindOf[r] = "batch" THEN select_best_result(this.heard) ELSE this.heard
      next == [this EXCEPT !.pc = "looking", !.todo = rest, !.got = None,
                           !.asked = Append(@, Head(this.todo))]
  IN  IF rest # <<>> THEN next
      ELSE Ending(r, next, told, IF told = <<>> THEN "none" ELSE "ok")

(* A result in hand, stored or found: an EXACT one ends the search of a    *)
(* batch voter.  One found under the primary ends it whatever its quality. *)
Take(r, result, found) ==
  LET p    == Current(r)
      kept == [req[r] EXCEPT !.heard = Append(@, Of(p, result))]
      ends == KindOf[r] = "batch" /\ (result.rank = 0 \/ (found /\ OnPrimary(r)))
  IN  IF KindOf[r] = "single" \/ ends
      THEN Ending(r, [kept EXCEPT !.asked = Append(@, p)], <<Of(p, result)>>, "ok")
      ELSE Onward(r, kept)

(* A request starts; a batch's job has made sure that its own provider is  *)
(* configured.                                                             *)
Start(r) ==
  /\ req[r].pc = "idle" /\ KindOf[r] # "verify"
  /\ KindOf[r] = "batch" => \E i \in DOMAIN get_configured_providers :
                               get_configured_providers[i] = PrimaryOf[r]
  /\ Move(r, IF Path(r) = <<>> THEN Ending(r, req[r], <<>>, "none")
             ELSE [req[r] EXCEPT !.pc = "looking", !.todo = Path(r)])
  /\ UNCHANGED <<setting, cache, address, draft>>

(* The batch goes on to the next voter of the address.                     *)
NextVoter(r) ==
  /\ KindOf[r] = "batch" /\ req[r].pc = "commit" /\ turn[r] < Household
  /\ turn' = [turn EXCEPT ![r] = @ + 1]
  /\ Move(r, [Fresh EXCEPT !.pc = "looking", !.todo = Path(r)])
  /\ UNCHANGED <<order, fallback, cache, address, draft>>

(* A place outside Georgia ends the single request; the others go on.      *)
Refused(r) == IF KindOf[r] = "single" THEN Ending(r, req[r], <<>>, "outside")
              ELSE Onward(r, req[r])

(* As if the single request trusted what the cache holds.                  *)
CachedAsIs(r) ==
  LET row == Seen(r, Current(r))
  IN  /\ req[r].pc = "looking" /\ row # None
      /\ Move(r, Take(r, row.result, TRUE))
      /\ UNCHANGED <<setting, cache, address, draft>>

(* The cache knows.  The single request and geocode-all refuse a place     *)
(* outside Georgia; the batch job does not look.                           *)
Found(r) ==
  LET row == Seen(r, Current(r))
  IN  /\ req[r].pc = "looking" /\ row # None
      /\ Move(r, IF row.result.inside \/ KindOf[r] = "batch" THEN Take(r, row.result, TRUE)
                 ELSE Refused(r))
      /\ UNCHANGED <<setting, cache, address, draft>>

Miss(r) ==
  /\ req[r].pc = "looking" /\ Seen(r, Current(r)) = None
  /\ Move(r, [req[r] EXCEPT !.pc = "asking", !.tries = Attempts(r)])
  /\ UNCHANGED <<setting, cache, address, draft>>

(* The provider fails: once more while attempts are left, and then the     *)
(* single request and the batch voter give up, the others go on.           *)
ProviderError(r) ==
  /\ req[r].pc = "asking"
  /\ Move(r, CASE req[r].tries > 1 -> [req[r] EXCEPT !.tries = @ - 1]
               [] req[r].tries = 1 /\ (KindOf[r] = "single" \/ OnPrimary(r)) ->
                    Ending(r, req[r], <<>>, "unavailable")
               [] OTHER -> Onward(r, req[r]))
  /\ UNCHANGED <<setting, cache, address, draft>>

NoMatch(r) ==
  /\ req[r].pc = "asking"
  /\ Move(r, Onward(r, req[r]))
  /\ UNCHANGED <<setting, cache, address, draft>>

Answered(r) ==
  /\ req[r].pc = "asking"
  /\ \E a \in Answers :
       Move(r, IF a.inside \/ KindOf[r] = "batch"
               THEN [req[r] EXCEPT !.pc = "storing", !.got = a] ELSE Refused(r))
  /\ UNCHANGED <<setting, cache, address, draft>>

(* The upsert of the cache row, link and all; the single request has       *)
(* upserted the address just before.  It waits for a lock.                 *)
Store(r) ==
  /\ req[r].pc = "storing" /\ Waits(r) = {}
  /\ draft' = [draft EXCEPT ![r][Current(r)] = Row(req[r].got, KindOf[r] = "single")]
  /\ Move(r, Take(r, req[r].got, FALSE))
  /\ UNCHANGED <<setting, cache, address>>

Commit(r) ==
  /\ req[r].pc = "commit"
  /\ cache' = [p \in Names |-> Seen(r, p)]
  /\ address' = (address \/ \E p \in Names : draft[r][p] # None /\ draft[r][p].linked)
  /\ draft' = [draft EXCEPT ![r] = NoRows]
  /\ Move(r, [req[r] EXCEPT !.pc = "done"])
  /\ UNCHANGED setting

(* PostgreSQL breaks a cycle of waits by aborting one of its transactions. *)
Abort(r) ==
  /\ \E S \in SUBSET Requests : r \in S /\ Cycle(S)
  /\ draft' = [draft EXCEPT ![r] = NoRows]
  /\ Move(r, [req[r] EXCEPT !.pc = "done", !.answer = "aborted", !.todo = <<>>])
  /\ UNCHANGED <<setting, cache, address>>

(* As if suggestions joined the cache on the text of the address.          *)
AnySuggestion ==
  {Of(p, cache[p].result) : p \in {q \in Names : address /\ cache[q] # None}}

(* The suggestion for the address: its best linked row.                    *)
prefix_search ==
  LET rows == {p \in Names : address /\ cache[p] # None /\ cache[p].linked}
      best == {p \in rows : \A q \in rows : cache[q].result.score <= cache[p].result.score}
  IN  {Of(p, cache[p].result) : p \in best}

verify_address(r) ==
  /\ req[r].pc = "idle" /\ KindOf[r] = "verify"
  /\ \/ /\ prefix_search = {}
        /\ Move(r, [req[r] EXCEPT !.pc = "done"])
     \/ \E s \in prefix_search :
          Move(r, [req[r] EXCEPT !.pc = "done", !.told = <<s>>, !.answer = "ok"])
  /\ UNCHANGED <<setting, cache, address, draft>>

Next == \E r \in Requests :
  \/ Start(r) \/ NextVoter(r) \/ Found(r) \/ Miss(r) \/ ProviderError(r)
  \/ NoMatch(r) \/ Answered(r) \/ Store(r) \/ Commit(r) \/ Abort(r) \/ verify_address(r)

Spec == Init /\ [][Next]_vars

-----------------------------------------------------------------------------
Told(r) == {req[r].told[i] : i \in DOMAIN req[r].told}
Ended(r) == req[r].pc \in {"commit", "done"}

(* What the public endpoints and geocode-all give out lies in Georgia,     *)
(* although the batch job fills the same cache without looking.            *)
ServedInGeorgia ==
  \A r \in Requests : KindOf[r] # "batch" => \A t \in Told(r) : t.result.inside

(* A batch voter gets the best of all that was heard for it, asks no       *)
(* provider twice, and stops early only with an EXACT result, with what    *)
(* the cache holds under its own provider, or when that provider is down.  *)
BestIsTold ==
  \A r \in Requests : KindOf[r] = "batch" /\ Ended(r) /\ req[r].answer # "aborted" =>
    /\ \A t \in Told(r), i \in DOMAIN req[r].heard : ~Better(req[r].heard[i].result, t.result)
    /\ req[r].heard # <<>> => req[r].told # <<>>
    /\ \A i, k \in DOMAIN req[r].asked : i # k => req[r].asked[i] # req[r].asked[k]
    /\ req[r].answer = "none" => Len(req[r].asked) = Len(Path(r))

(* A batch that falls back may lock rows out of their order: its provider  *)
(* is not the first of the order, or an earlier voter of the address has   *)
(* left rows of later providers locked.                                    *)
OutOfOrder(r) ==
  /\ KindOf[r] = "batch" /\ r \in fallback
  /\ \/ get_configured_providers = <<>> \/ PrimaryOf[r] # Head(get_configured_providers)
     \/ turn[r] > 1

(* Requests that lock each other out on the rows of an address have such a *)
(* batch among them: all others lock in one order, or a single row.        *)
OneOrder == \A S \in (SUBSET Requests) \ {{}} : Cycle(S) => \E r \in S : OutOfOrder(r)

GeocodesHold == ServedInGeorgia /\ BestIsTold /\ OneOrder

(* Not so: where every batch asks first the provider that is first in the  *)
(* order, no requests lock each other out.  Of two voters of an address    *)
(* the first may find nothing at the first provider and store an answer of *)
(* the second, and the second one store an answer of the first: against    *)
(* geocode-all, which has stored the first's and waits for the second's.   *)
FirstIsEnough ==
  (\A r \in Requests : KindOf[r] = "batch" => PrimaryOf[r] = Head(get_configured_providers))
  => \A S \in (SUBSET Requests) \ {{}} : ~Cycle(S)

(* Not so: with fallback on, a voter whose result is not EXACT has had     *)
(* every provider asked (a row cached under the primary ends the search).  *)
FallbackUsed ==
  \A r \in Requests : r \in fallback /\ Ended(r) /\ req[r].answer = "ok" =>
    \/ \E t \in Told(r) : t.result.rank = 0
    \/ Len(req[r].asked) = Len(Path(r))

(* Not so: a linked row stays linked (a store without link overwrites it). *)
LinkKept == [][\A p \in Names : cache[p] # None /\ cache[p].linked
                 => cache'[p].linked]_vars
================================================================================
