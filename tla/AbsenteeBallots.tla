----------------------------- MODULE AbsenteeBallots -----------------------------
(***************************************************************************)
(* Importing absentee ballot applications, and the statistics over them.   *)
(* A file is read in chunks; the valid records of a chunk are upserted in  *)
(* sub-batches, one INSERT ... ON CONFLICT DO UPDATE statement each, and   *)
(* committed with the job's checkpoint.  The conflict is on the voter, the *)
(* application date and the ballot style: a record without a date never    *)
(* conflicts, and a statement that meets a key of its own a second time    *)
(* fails.  Two imports may run at a time, each waits for the rows the      *)
(* other has written and not committed.                                    *)
(***************************************************************************)
EXTENDS Naturals, Sequences, FiniteSets

CONSTANTS
  Records,    \* what a line may say: [key, dated, data, ok]
  Files,      \* sequences of chunks, a chunk is a sequence of records
  Imports,
  SubBatch,   \* records in one statement
  None,
  MaxRows     \* bound: rows ever made

AbsenteeAssumption ==
  /\ SubBatch \in Nat \ {0} /\ MaxRows \in Nat /\ None \notin {"running", "completed", "failed"}
  /\ Files \subseteq Seq(Seq(Records))
  /\ \A r \in Records : DOMAIN r = {"key", "dated", "data", "ok"} /\ {r.dated, r.ok} \subseteq BOOLEAN

VARIABLES
  rows,       \* the committed rows, by number: the key and data, and the import that wrote it last
  draft,      \* what the open transaction of each import has written
  import,     \* each import: its job row and where its task is
  latest,     \* the data last committed for each dated key
  stats       \* a reader of the statistics

vars == <<rows, draft, import, latest, stats>>

Empty == [n \in {} |-> None]
NoImport == [status |-> None, file |-> <<>>, offset |-> 0, at |-> 1, fresh |-> 0, changed |-> 0,
             invalid |-> 0,
             inserted |-> None, updated |-> None, failed |-> None]

Init ==
  /\ rows = Empty /\ draft = [i \in Imports |-> Empty]
  /\ import = [i \in Imports |-> NoImport]
  /\ latest = Empty
  /\ stats = [total |-> None, counties |-> None]

Over(f, g) == [x \in DOMAIN f \cup DOMAIN g |-> IF x \in DOMAIN f THEN f[x] ELSE g[x]]
View(i) == Over(draft[i], rows)
Set(i, new) == import' = [import EXCEPT ![i] = new]

(* process_absentee_import marks the job running. *)
Begin(i) ==
  /\ import[i].status = None
  /\ \E f \in Files : Set(i, [NoImport EXCEPT !.status = "running", !.file = f])
  /\ UNCHANGED <<rows, draft, latest, stats>>

-----------------------------------------------------------------------------
(* The valid records of the chunk in hand, by place; those of one          *)
(* statement.                                                              *)
Running(i) == import[i].status = "running" /\ import[i].at > 0
Unread(i)  == import[i].offset < Len(import[i].file)
Chunk(i)   == import[i].file[import[i].offset + 1]
Valid(c)   == {k \in DOMAIN c : c[k].ok}
Left(i)    == {k \in Valid(Chunk(i)) : import[i].at <= k}
Batch(c, k) == Cardinality({m \in Valid(c) : m < k}) \div SubBatch
SameKey(a, b) == a.dated /\ b.dated /\ a.key = b.key

Twice(c, k) ==
  \E m \in Valid(c) : m < k /\ Batch(c, m) = Batch(c, k) /\ SameKey(c[m], c[k])
Conflicts(i, r) == {n \in DOMAIN View(i) : SameKey(View(i)[n], r)}
Waits(i, r) == \E j \in Imports \ {i} : \E n \in DOMAIN draft[j] : SameKey(draft[j][n], r)
Taken == DOMAIN rows \cup UNION {DOMAIN draft[j] : j \in Imports}
NextRow(n) == n \in (1 .. MaxRows) \ Taken /\ \A m \in (1 .. MaxRows) \ Taken : n <= m

(* ON CONFLICT DO UPDATE: all columns but the key's; not DO NOTHING.       *)
OnConflictNothing(old, new) == old
OnConflict(old, new) == new

(* One row of _upsert_absentee_batch.                                      *)
Upsert(i) ==
  /\ Running(i) /\ Unread(i)
  /\ \E k \in Left(i) :
       LET r == Chunk(i)[k]
           row == [key |-> r.key, dated |-> r.dated, data |-> r.data, of |-> i]
           old == Conflicts(i, r)
       IN  /\ \A m \in Left(i) : k <= m
           /\ ~Twice(Chunk(i), k) /\ ~Waits(i, r)
           /\ \E n \in 1 .. MaxRows :
                /\ IF old = {} THEN NextRow(n) ELSE n \in old
                /\ LET written == IF old = {} THEN row ELSE OnConflict(View(i)[n], row)
                   IN  draft' = [draft EXCEPT ![i] = Over([m \in {n} |-> written], @)]
           /\ Set(i, [import[i] EXCEPT !.at = k + 1, !.fresh = IF old = {} THEN @ + 1 ELSE @,
                                       !.changed = IF old = {} THEN @ ELSE @ + 1])
  /\ UNCHANGED <<rows, latest, stats>>

(* The rows of a chunk and its checkpoint are committed together.          *)
Dated(c) == {k \in Valid(c) : c[k].dated}
Newest(c, key) ==
  CHOOSE k \in Dated(c) : c[k].key = key /\ \A m \in Dated(c) : c[m].key = key => m <= k

CommitChunk(i) ==
  /\ Running(i) /\ Unread(i) /\ Left(i) = {}
  /\ rows' = View(i)
  /\ draft' = [draft EXCEPT ![i] = Empty]
  /\ LET c == Chunk(i)
     IN  latest' = Over([key \in {c[k].key : k \in Dated(c)} |-> c[Newest(c, key)].data], latest)
  /\ Set(i, [import[i] EXCEPT !.offset = @ + 1, !.at = 1,
                 !.invalid = @ + Cardinality((DOMAIN Chunk(i)) \ Valid(Chunk(i)))])
  /\ UNCHANGED stats

Complete(i) ==
  /\ Running(i) /\ ~Unread(i)
  /\ Set(i, [import[i] EXCEPT !.status = "completed", !.inserted = import[i].fresh,
                          !.updated = import[i].changed,
                              !.failed = import[i].invalid])
  /\ UNCHANGED <<rows, draft, latest, stats>>

(* A statement fails (a key twice in it, a deadlock, the connection), or   *)
(* the next chunk cannot be read: the open chunk is rolled back.           *)
Fail(i) ==
  /\ Running(i)
  /\ draft' = [draft EXCEPT ![i] = Empty]
  /\ Set(i, [import[i] EXCEPT !.status = "failed"])
  /\ UNCHANGED <<rows, latest, stats>>

(* The process dies: the row of the job stays running, its task is gone.   *)
Die(i) ==
  /\ Running(i)
  /\ draft' = [draft EXCEPT ![i] = Empty]
  /\ Set(i, [import[i] EXCEPT !.at = 0])
  /\ UNCHANGED <<rows, latest, stats>>

-----------------------------------------------------------------------------
(* get_absentee_stats: the total, and then, in a statement of its own, the *)
(* number in each county (here in all).                                    *)
CountTotal ==
  /\ stats.total = None
  /\ stats' = [stats EXCEPT !.total = Cardinality(DOMAIN rows)]
  /\ UNCHANGED <<rows, draft, import, latest>>

CountCounties ==
  /\ stats.total # None /\ stats.counties = None
  /\ stats' = [stats EXCEPT !.counties = Cardinality(DOMAIN rows)]
  /\ UNCHANGED <<rows, draft, import, latest>>

Next ==
  \/ CountTotal \/ CountCounties
  \/ \E i \in Imports : Begin(i) \/ Upsert(i) \/ CommitChunk(i) \/ Complete(i) \/ Fail(i) \/ Die(i)

Spec == Init /\ [][Next]_vars

-----------------------------------------------------------------------------
(* However two imports interleave, an application with a date has one row, *)
(* with what the chunk committed last said of it last.                     *)
LatestCommitted ==
  /\ \A m, n \in DOMAIN rows : SameKey(rows[m], rows[n]) => m = n
  /\ \A k \in DOMAIN latest : \E n \in DOMAIN rows :
       rows[n].dated /\ rows[n].key = k /\ rows[n].data = latest[k]

(* Completed, failed or dead, an import has left the chunks before its     *)
(* checkpoint in the table and nothing of those after it.                  *)
Before(i) ==
  LET f == import[i].file
  IN  UNION {{f[c][k] : k \in Valid(f[c])} : c \in 1 .. import[i].offset}
CheckpointTells ==
  \A i \in Imports :
    /\ \A r \in Before(i) : \E n \in DOMAIN rows : rows[n].key = r.key /\ rows[n].dated = r.dated
    /\ \A n \in DOMAIN rows : rows[n].of = i =>
         \E r \in Before(i) :
           rows[n].key = r.key /\ rows[n].dated = r.dated /\ rows[n].data = r.data

(* A completed job accounts for every record of its file.                  *)
Places(f, n) == UNION {{c} \X DOMAIN f[c] : c \in 1 .. n}
CountsAddUp ==
  \A i \in Imports : import[i].status = "completed" =>
    LET f == import[i].file
    IN  import[i].inserted + import[i].updated + import[i].failed = Cardinality(Places(f, Len(f)))

(* The counties' numbers, read later, never add up to less than the total. *)
StatsCover == stats.counties # None => stats.total <= stats.counties

AbsenteeHold == LatestCommitted /\ CheckpointTells /\ CountsAddUp /\ StatsCover

(* Not so: an application is there once.  The records without a date are   *)
(* inserted again whenever their file is imported again.                   *)
OnceImported ==
  \A m, n \in DOMAIN rows : rows[m].key = rows[n].key /\ rows[m].dated = rows[n].dated => m = n
================================================================================
