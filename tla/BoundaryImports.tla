----------------------------- MODULE BoundaryImports -----------------------------
(***************************************************************************)
(* Importing boundary files.  An import goes through its records in one    *)
(* transaction: it looks for the row of the record's type, identifier and  *)
(* county, takes over a row from before counties were stored when there is *)
(* none, and updates or inserts; each query first flushes the record       *)
(* before.  After the commit, an import of precincts writes the precincts' *)
(* metadata in a second transaction.  Several imports run at a time (one   *)
(* command imports all its files in parallel); rows are locked by who has  *)
(* written them, and the unique constraint does not compare NULL counties. *)
(***************************************************************************)
EXTENDS Naturals, Sequences, FiniteSets

CONSTANTS
  Files,      \* sequences of records, [ident, county (of its properties, or None), data, full]
  Options,    \* what may be given with --county, None included
  Imports,    \* imports
  Legacy,     \* idents whose row has no county, from before counties were stored
  None,
  MaxRows     \* bound: rows ever made

BoundaryAssumption ==
  /\ None \in Options /\ None \notin Imports \cup Nat
  /\ MaxRows \in Nat /\ Cardinality(Legacy) \in 0 .. MaxRows
  /\ \A f \in Files : /\ f \in Seq({f[k] : k \in DOMAIN f})
                      /\ \A k \in DOMAIN f : DOMAIN f[k] = {"ident", "county", "data", "full"}

VARIABLES
  rows,       \* the committed boundaries of a type, by number
  meta,       \* the committed precinct metadata: the data it was taken from, by row
  draft,      \* what each import's transaction has written, by row
  import,     \* where each import is
  last,       \* the import that committed its boundaries last
  overlapped  \* two imports were running at a time, or one ended between its two commits

vars == <<rows, meta, draft, import, last, overlapped>>

Numbers == 1 .. MaxRows
Empty   == [n \in {} |-> None]
NoImport == [pc |-> "none", file |-> <<>>, county |-> None, at |-> 1, target |-> None,
             adopt |-> FALSE, touched |-> Empty, new |-> {}]

(* What a transaction sees: its own writes over what is committed.         *)
Over(f, g) == [x \in DOMAIN f \cup DOMAIN g |-> IF x \in DOMAIN f THEN f[x] ELSE g[x]]
View(i) == Over(draft[i], rows)
Running(i) == import[i].pc \notin {"none", "done", "failed"}
Record(i)  == import[i].file[import[i].at]

Init ==
  /\ \E ident \in [1 .. Cardinality(Legacy) -> Legacy] :
       /\ \A m, n \in DOMAIN ident : ident[m] = ident[n] => m = n
       /\ rows = [n \in DOMAIN ident |->
                    [ident |-> ident[n], county |-> None, data |-> "old", full |-> FALSE]]
  /\ meta = Empty /\ draft = [i \in Imports |-> Empty]
  /\ import = [i \in Imports |-> NoImport]
  /\ last = None /\ overlapped = FALSE

Begin(i) ==
  /\ import[i].pc = "none"
  /\ \E f \in Files, c \in Options :
       import' = [import EXCEPT ![i] = [NoImport EXCEPT !.pc = "look", !.file = f, !.county = c]]
  /\ overlapped' = (overlapped \/ \E j \in Imports \ {i} : Running(j))
  /\ UNCHANGED <<rows, meta, draft, last>>

-----------------------------------------------------------------------------
(* The county of record k of an import: the command's, or that of its      *)
(* properties.                                                             *)
CountyFor(s, k) == IF s.county # None THEN s.county ELSE s.file[k].county
CountyOf(i)     == CountyFor(import[i], import[i].at)

(* As if the query always compared the county, as a NULL never is equal.   *)
SameCountyAlways(i, c) ==
  {n \in DOMAIN View(i) :
     c # None /\ View(i)[n].ident = Record(i).ident /\ View(i)[n].county = c}
SameCounty(i, c) ==
  {n \in DOMAIN View(i) : View(i)[n].ident = Record(i).ident /\ View(i)[n].county = c}

(* The query for the row and, failing that, for a row without a county.    *)
(* With two rows for one key scalar_one_or_none raises.                    *)
Look(i) ==
  /\ import[i].pc = "look" /\ import[i].at <= Len(import[i].file)
  /\ LET c == CountyOf(i)
         exact == SameCounty(i, c)
         old == IF exact = {} /\ c # None THEN SameCounty(i, None) ELSE {}
         found == exact \cup old
     IN  import' = [import EXCEPT ![i].pc = IF Cardinality(found) > 1 THEN "failed" ELSE "write",
                                  ![i].target = IF found = {} THEN None
                                                ELSE CHOOSE n \in found : TRUE,
                                  ![i].adopt = old # {}]
  /\ draft' = [draft EXCEPT ![i] = IF import'[i].pc = "failed" THEN Empty ELSE @]
  /\ UNCHANGED <<rows, meta, last, overlapped>>

(* The flush of the record, at the next query or the commit: an UPDATE by  *)
(* id of the columns that were set, or an INSERT.                          *)
Taken == DOMAIN rows \cup UNION {DOMAIN draft[j] : j \in Imports}
Written(i, n) ==
  LET r == Record(i)
  IN  IF import[i].target = None
      THEN [ident |-> r.ident, county |-> CountyOf(i), data |-> r.data, full |-> r.full]
      ELSE [View(i)[n] EXCEPT !.data = r.data, !.full = r.full,
                              !.county = IF import[i].adopt THEN CountyOf(i) ELSE @]

(* The constraint on type, identifier and county: a committed row stands   *)
(* in the way, one of another transaction has to be waited for.            *)
SameKey(a, b) == a.county # None /\ a.ident = b.ident /\ a.county = b.county
Stands(i, n, w) == \E m \in DOMAIN View(i) \ {n} : SameKey(View(i)[m], w)
MustWait(i, n, w) ==
  \E j \in Imports \ {i} :
    n \in DOMAIN draft[j] \/ \E m \in DOMAIN draft[j] : SameKey(draft[j][m], w)

Write(i) ==
  /\ import[i].pc = "write"
  /\ \E n \in IF import[i].target = None THEN Numbers \ Taken ELSE {import[i].target} :
       LET w == Written(i, n)
       IN  /\ import[i].target = None => \A m \in Numbers \ Taken : n <= m
           /\ ~MustWait(i, n, w)
           /\ IF Stands(i, n, w)
              THEN /\ import' = [import EXCEPT ![i].pc = "failed"]
                   /\ draft' = [draft EXCEPT ![i] = Empty]
              ELSE /\ import' = [import EXCEPT
                        ![i].pc = "look", ![i].at = @ + 1,
                        ![i].touched = Over([m \in {n} |-> import[i].at], @)]
                   /\ draft' = [draft EXCEPT ![i] = Over([m \in {n} |-> w], @)]
  /\ UNCHANGED <<rows, meta, last, overlapped>>

Commit(i) ==
  /\ import[i].pc = "look" /\ import[i].at > Len(import[i].file)
  /\ rows' = View(i)
  /\ draft' = [draft EXCEPT ![i] = Empty]
  /\ import' = [import EXCEPT ![i].pc = "describe"]
  /\ last' = i
  /\ UNCHANGED <<meta, overlapped>>

-----------------------------------------------------------------------------
(* upsert_precinct_metadata for each imported row whose properties have    *)
(* the required fields: which of them have metadata already is read first. *)
(* The object in the session still has what this import wrote.             *)
Properties(i, n) == import[i].file[import[i].touched[n]]
Described(i) == {n \in DOMAIN import[i].touched : Properties(i, n).full}

Describe(i) ==
  /\ import[i].pc = "describe"
  /\ import' = [import EXCEPT ![i].pc = "store", ![i].new = Described(i) \ DOMAIN meta]
  /\ UNCHANGED <<rows, meta, draft, last, overlapped>>

(* The second commit; a row another import has described since fails it.   *)
Store(i) ==
  /\ import[i].pc = "store"
  /\ IF import[i].new \cap DOMAIN meta = {}
     THEN /\ meta' = Over([n \in Described(i) |-> Properties(i, n).data], meta)
          /\ import' = [import EXCEPT ![i].pc = "done"]
          /\ UNCHANGED overlapped
     ELSE /\ import' = [import EXCEPT ![i].pc = "failed"]
          /\ overlapped' = TRUE
          /\ UNCHANGED meta
  /\ UNCHANGED <<rows, draft, last>>

(* The database, a deadlock or the operator ends an import: its open       *)
(* transaction is rolled back.                                             *)
Fail(i) ==
  /\ Running(i)
  /\ import' = [import EXCEPT ![i].pc = "failed"]
  /\ draft' = [draft EXCEPT ![i] = Empty]
  /\ overlapped' = (overlapped \/ import[i].pc \in {"describe", "store"})
  /\ UNCHANGED <<rows, meta, last>>

Next == \E i \in Imports : \/ Begin(i) \/ Look(i) \/ Write(i) \/ Commit(i)
                           \/ Describe(i) \/ Store(i) \/ Fail(i)

Spec == Init /\ [][Next]_vars

-----------------------------------------------------------------------------
Key(n) == <<rows[n].ident, rows[n].county>>

(* A boundary has one row: the constraint sees to it where the county is   *)
(* stored; where it is not, the import's query does, unless imports        *)
(* overlapped.                                                             *)
OneRow ==
  \A m, n \in DOMAIN rows : m # n /\ Key(m) = Key(n) => rows[m].county = None /\ overlapped

(* While imports run one at a time, the last to commit has every record of *)
(* its file in the table, under the record's county, or, having none, as   *)
(* what a later record of the same name has taken over.                    *)
Placed(seen, s, k) ==
  \E m \in DOMAIN s.file :
    /\ k <= m /\ (m = k \/ CountyFor(s, k) = None) /\ s.file[m].ident = s.file[k].ident
    /\ \E n \in DOMAIN seen : seen[n].ident = s.file[m].ident /\ seen[n].county = CountyFor(s, m)
FileIsThere ==
  ~overlapped /\ last # None =>
    \A k \in DOMAIN import[last].file : Placed(rows, import[last], k)

(* Metadata is that of the boundary as it is, unless imports overlapped or *)
(* one ended between its commits.                                          *)
MetaAgrees ==
  ~overlapped /\ (\A i \in Imports : ~Running(i)) =>
    \A n \in DOMAIN rows : rows[n].full => n \in DOMAIN meta /\ meta[n] = rows[n].data

BoundariesHold == OneRow /\ FileIsThere /\ MetaAgrees

(* Not so: a completed import's boundaries stay.  A later import with a    *)
(* county takes over the row of one without, and of two that overlap and   *)
(* take over the same row the later one's county replaces the earlier's.   *)
CompletedStays ==
  \A i \in Imports : import[i].pc = "done" =>
    \A k \in DOMAIN import[i].file : Placed(rows, import[i], k)
================================================================================
