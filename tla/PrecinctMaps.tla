------------------------------ MODULE PrecinctMaps ------------------------------
(***************************************************************************)
(* The precinct map of an election in one county.  The row of results has, *)
(* for every candidate, the votes of each precinct as the feed names them; *)
(* the request turns it round, one entry per precinct, and then looks for  *)
(* the shape of each among the county's precinct metadata: by precinct_id, *)
(* by sos_id, and by name among the records the first two left.  Metadata  *)
(* are imported and results refreshed between the request's statements.    *)
(***************************************************************************)
EXTENDS Naturals, Sequences

CONSTANTS
  Feeds,        \* rows of results: sequences of candidates, each a sequence of [id, name, votes]
  UpperOf,      \* the id in upper case, by id; None of an empty one
  NormalOf,     \* the normalized name, by name; None when nothing is left of it
  Boundaries,   \* precinct shapes
  Records,      \* what the metadata of a shape may say: [pid, sos, name], sos None if unknown
  None

PrecinctAssumption ==
  /\ \A f \in Feeds : \A c \in DOMAIN f : \A k \in DOMAIN f[c] :
       f[c][k].id \in DOMAIN UpperOf /\ f[c][k].name \in DOMAIN NormalOf /\ f[c][k].votes \in Nat
  /\ \A r \in Records : r.name \in DOMAIN NormalOf

VARIABLES
  results,   \* the county's row of results
  meta,      \* the metadata of each shape, or None
  request    \* the answer being made

vars == <<results, meta, request>>

NoRequest == [step |-> "none", row |-> <<>>, precincts |-> {}, shape |-> <<>>, metas |-> {}]

Init ==
  /\ results \in Feeds
  /\ meta = [b \in Boundaries |-> None]
  /\ request = NoRequest

RefreshResults ==
  /\ \E f \in Feeds \ {results} : results' = f
  /\ UNCHANGED <<meta, request>>

ImportMetadata ==
  /\ \E b \in Boundaries, r \in Records : meta[b] # r /\ meta' = [meta EXCEPT ![b] = r]
  /\ UNCHANGED <<results, request>>

-----------------------------------------------------------------------------
(* _transpose_precinct_results: the entries of the row, and the precincts  *)
(* they are of, each with the name it is first listed with.  An entry with *)
(* no id is passed over.                                                   *)
Entries(row) ==
  UNION {{[c |-> c, k |-> k, at |-> row[c][k]] : k \in DOMAIN row[c]} : c \in DOMAIN row}
Key(entry)   == UpperOf[entry.at.id]
Counted(row) == {e \in Entries(row) : Key(e) # None}
Transpose(row) ==
  {[key |-> key, from |-> {e \in Counted(row) : Key(e) = key}] : key \in {Key(e) : e \in Counted(row)}}
First(p)  == CHOOSE e \in p.from : \A d \in p.from : e.c < d.c \/ (e.c = d.c /\ e.k <= d.k)
NameOf(p) == First(p).at.name

ReadResults ==
  /\ request.step = "none"
  /\ request' = [NoRequest EXCEPT !.step = "match", !.row = results,
                              !.precincts = Transpose(results)]
  /\ UNCHANGED <<results, meta>>

-----------------------------------------------------------------------------
(* get_precinct_metadata_by_county_multi_strategy.  Of several records with *)
(* one id the index has the one that is read last: any.                    *)
Known == {b \in Boundaries : meta[b] # None}
ById(keys, id) ==
  {shape \in [{k \in keys : \E b \in Known : id[b] = k} -> Known] :
     \A k \in DOMAIN shape : id[shape[k]] = k}
Pid == [b \in Known |-> meta[b].pid]
Sos == [b \in Known |-> meta[b].sos]

(* The records a name may still be matched with.                           *)
AnyRecord(taken) == Known
NotMatched(taken) == Known \ taken

Named(p, taken) ==
  LET normal == NormalOf[NameOf(p)]
  IN  {b \in NotMatched(taken) : normal # None /\ NormalOf[meta[b].name] = normal}
ByName(ps, taken) ==
  [k \in {p.key : p \in {q \in ps : \E b \in Boundaries : Named(q, taken) = {b}}} |->
     CHOOSE b \in Named(CHOOSE p \in ps : p.key = k, taken) : TRUE]

Merge(f, g) == [k \in DOMAIN f \cup DOMAIN g |-> IF k \in DOMAIN f THEN f[k] ELSE g[k]]
Left(matched) == {p \in request.precincts : p.key \notin DOMAIN matched}
KeysOf(ps)  == {p.key : p \in ps}
Image(f)    == {f[k] : k \in DOMAIN f}

Match ==
  /\ request.step = "match"
  /\ \E exact \in ById(KeysOf(request.precincts), Pid) :
       \E sos \in ById(KeysOf(Left(exact)), Sos) :
         LET ids == Merge(exact, sos)
         IN  request' = [request EXCEPT !.step = "done",
                                                !.metas = {[of |-> b, is |-> meta[b]] : b \in Known},
                                        !.shape = Merge(ids, ByName(Left(ids), Image(ids)))]
  /\ UNCHANGED <<results, meta>>

Answered ==
  /\ request.step = "done"
  /\ request' = NoRequest
  /\ UNCHANGED <<results, meta>>

Next == RefreshResults \/ ImportMetadata \/ ReadResults \/ Match \/ Answered

Spec == Init /\ [][Next]_vars

-----------------------------------------------------------------------------
(* The features: the precincts that have a shape.                          *)
Features == {p \in request.precincts : p.key \in DOMAIN request.shape}
RecordOf(b) == (CHOOSE m \in request.metas : m.of = b).is

(* Turned round and matched, no vote is lost or counted twice: however the *)
(* candidates spell a precinct, an entry whose precinct has a record of    *)
(* its id is on the map, and what is on the map is in the one feature of   *)
(* its key.                                                                *)
VotesKept ==
  /\ \A e \in Entries(request.row), m \in request.metas :
       Key(e) # None /\ Key(e) \in {m.is.pid, m.is.sos} => \E p \in Features : e \in p.from
  /\ \A p \in Features : p.from = {e \in Entries(request.row) : Key(e) = p.key}
  /\ \A p, q \in Features : p # q => p.from \cap q.from = {} /\ p.key # q.key

(* A precinct with a record of its id gets one of its id, and a shape that *)
(* was found by an id is not given to another precinct for its name.       *)
ByIdOf(k) == RecordOf(request.shape[k]).pid = k \/ RecordOf(request.shape[k]).sos = k
IdsComeFirst ==
  \A k \in DOMAIN request.shape :
    /\ (\E m \in request.metas : m.is.pid = k) => RecordOf(request.shape[k]).pid = k
    /\ ~ByIdOf(k) => \A j \in DOMAIN request.shape \ {k} :
         ByIdOf(j) => request.shape[j] # request.shape[k]

MapsHold == request.step = "done" => VotesKept /\ IdsComeFirst

(* Not so: two precincts never share a shape.  One may have found it by    *)
(* precinct_id and the other by sos_id, or both by their name.             *)
OneShapeEach ==
  \A j, k \in DOMAIN request.shape : request.shape[j] = request.shape[k] => j = k
================================================================================
