------------------------------- MODULE Publishing -------------------------------
(***************************************************************************)
(* Publishing the boundaries as static GeoJSON files and redirecting the   *)
(* API's readers to them.  A publish command reads the boundaries table,   *)
(* uploads one file per boundary type (and, when it publishes everything,  *)
(* a combined one), and uploads the manifest last; a publish of some types *)
(* merges its entries into the manifest it finds.  Objects are replaced    *)
(* whole, but nothing orders two commands, and a command can end at any    *)
(* point.  The server keeps the manifest in a cache that expires, fetches  *)
(* it again in a thread, and redirects by what it has cached.              *)
(*                                                                         *)
(* A file is the set of the rows in it, <<boundary, version>>; an entry of *)
(* the manifest is what its count and size say of the file: the same set.  *)
(***************************************************************************)
EXTENDS Naturals, FiniteSets, Functions, FiniteSetsExt

CONSTANTS
  Boundaries,     \* rows of the boundaries table; a row is never deleted
  TypeOf,         \* the boundary_type of each, a number: files are uploaded in this order
  PlaceOf,        \* the county (or the source) of each
  Combined,       \* the name of the combined file, all-boundaries
  None,
  Commands,       \* publish commands that may run
  Readers,        \* requests whose refresh of the cache may overlap
  MaxVersion,     \* bound: times a row is imported
  MaxRuns         \* bound: commands given

PublishingAssumption ==
  /\ TypeOf \in [Boundaries -> Nat] /\ Combined \notin Range(TypeOf)
  /\ DOMAIN PlaceOf = Boundaries
  /\ MaxVersion \in Nat /\ MaxRuns \in Nat

Types   == Range(TypeOf)
Places  == Range(PlaceOf)
Filters ==
  [by : {"all"}, of : {None}] \cup [by : {"type"}, of : Types] \cup [by : {"place"}, of : Places]

VARIABLES
  table,      \* the version of each row, 0 before its first import
  store,      \* the uploaded files, by name
  manifest,   \* the uploaded manifest: an entry by name, or None
  command,    \* each publish command
  cache,      \* the server's manifest cache: data and whether its TTL has passed
  fetched,    \* what each reader's refresh has fetched and not yet cached
  torn,       \* files may differ from their entries: commands overlapped or one broke off
  runs        \* how many commands were given

vars == <<table, store, manifest, command, cache, fetched, torn, runs>>

Rows(bs)   == {<<b, table[b]>> : b \in {c \in bs : table[c] > 0}}
OfType(t)  == {b \in Boundaries : TypeOf[b] = t}
TypesIn(rows) == {TypeOf[row[1]] : row \in rows}
Content(name, rows) == IF name = Combined THEN rows ELSE {row \in rows : TypeOf[row[1]] = name}

Running(c) == command[c].pc # "idle"
Empty    == [n \in {} |-> {}]
(* New entries over those there were: they replace the ones of their names. *)
Over(new, old) ==
  [n \in DOMAIN new \cup DOMAIN old |-> IF n \in DOMAIN new THEN new[n] ELSE old[n]]
Idle     == [pc |-> "idle", whole |-> FALSE, types |-> {}, rows |-> {},
             alone |-> TRUE, left |-> {}, entries |-> Empty, base |-> None]

Init ==
  /\ table = [b \in Boundaries |-> 0]
  /\ store = Empty /\ manifest = None
  /\ command = [c \in Commands |-> Idle]
  /\ cache = [data |-> None, stale |-> TRUE]
  /\ fetched = [r \in Readers |-> None]
  /\ torn = "no"
  /\ runs = 0

(* import_boundaries: a file brings rows of one type and commits them together. *)
ImportBoundaries ==
  \E t \in Types : \E bs \in SUBSET OfType(t) \ {{}} :
    /\ \A b \in bs : table[b] < MaxVersion
    /\ table' = [b \in Boundaries |-> IF b \in bs THEN table[b] + 1 ELSE table[b]]
    /\ UNCHANGED <<store, manifest, command, cache, fetched, torn, runs>>

-----------------------------------------------------------------------------
(* The publish command.                                                    *)
Set(c, new) == command' = [command EXCEPT ![c] = new]

TypesToRegenerate(f) ==
  IF f.by = "type" THEN {f.of}
  ELSE {TypeOf[b] : b \in {d \in Boundaries : table[d] > 0 /\ PlaceOf[d] = f.of}}

(* A command that begins while another runs: neither is alone.             *)
Others(c) == {d \in Commands \ {c} : Running(d)}
Begin(c, new) ==
  command' = [d \in Commands |-> IF d = c THEN [new EXCEPT !.alone = Others(c) = {}]
                                 ELSE IF Running(d) THEN [command[d] EXCEPT !.alone = FALSE]
                                 ELSE command[d]]

(* publish_datasets decides which types it regenerates; a county without   *)
(* boundaries ends it.                                                     *)
Start(c) ==
  /\ command[c].pc = "idle"
  /\ \E f \in Filters :
       IF f.by = "all"
       THEN Begin(c, [Idle EXCEPT !.pc = "reading", !.whole = TRUE, !.types = {Combined}])
       ELSE LET types == TypesToRegenerate(f)
            IN  IF types = {} THEN Set(c, Idle)
                ELSE Begin(c, [Idle EXCEPT !.pc = "reading", !.types = types])
  /\ runs < MaxRuns /\ runs' = runs + 1
  /\ torn' = IF Others(c) # {} /\ torn = "no" THEN "overlapped" ELSE torn
  /\ UNCHANGED <<table, store, manifest, cache, fetched>>

(* One SELECT for everything, or one for each type: what is imported in    *)
(* between is seen by the later ones.                                      *)
Read(c) ==
  /\ command[c].pc = "reading" /\ command[c].types # {}
  /\ \E t \in command[c].types :
       Set(c, [command[c] EXCEPT !.types = @ \ {t},
                                 !.rows = @ \cup Rows(IF t = Combined THEN Boundaries ELSE OfType(t))])
  /\ UNCHANGED <<table, store, manifest, cache, fetched, torn, runs>>

(* Group the features by type; with no boundaries nothing is published.    *)
Generate(c) ==
  LET found == TypesIn(command[c].rows)
  IN  /\ command[c].pc = "reading" /\ command[c].types = {}
      /\ Set(c, IF found = {} THEN Idle
                ELSE [command[c] EXCEPT !.pc = "uploading",
                                        !.left = found \cup IF command[c].whole THEN {Combined} ELSE {}])
      /\ UNCHANGED <<table, store, manifest, cache, fetched, torn, runs>>

(* The files go up in the order of their types, the combined one last.     *)
NextFile(left) == IF left = {Combined} THEN Combined ELSE Min(left \ {Combined})

Upload(c) ==
  /\ command[c].pc = "uploading" /\ command[c].left # {}
  /\ LET name == NextFile(command[c].left)
         file == Content(name, command[c].rows)
         entry == [n \in {name} |-> file]
     IN  /\ store' = Over(entry, store)
         /\ Set(c, [command[c] EXCEPT !.left = @ \ {name}, !.entries = Over(entry, @)])
  /\ UNCHANGED <<table, manifest, cache, fetched, torn, runs>>

(* A filtered publish fetches the manifest it will merge into.             *)
FetchManifest(c) ==
  /\ command[c].pc = "uploading" /\ command[c].left = {}
  /\ Set(c, [command[c] EXCEPT !.pc = "merging",
                           !.base = IF command[c].whole THEN None ELSE manifest])
  /\ UNCHANGED <<table, store, manifest, cache, fetched, torn, runs>>

(* build_manifest: the new entries replace the fetched ones of their names. *)
MergeNothing(base, entries) == entries
Merge(base, entries) == IF base = None THEN entries ELSE Over(entries, base)

UploadManifest(c) ==
  /\ command[c].pc = "merging"
  /\ manifest' = Merge(command[c].base, command[c].entries)
  /\ Set(c, Idle)
  /\ torn' = IF command[c].whole /\ command[c].alone THEN "no" ELSE torn
  /\ UNCHANGED <<table, store, cache, fetched, runs>>

(* The database, the storage or the operator ends the command.             *)
Fail(c) ==
  /\ Running(c)
  /\ Set(c, Idle)
  /\ torn' = IF command[c].entries # Empty THEN "broken" ELSE torn
  /\ UNCHANGED <<table, store, manifest, cache, fetched, runs>>

-----------------------------------------------------------------------------
(* The server.                                                             *)
Expire ==
  /\ ~cache.stale
  /\ cache' = [cache EXCEPT !.stale = TRUE]
  /\ UNCHANGED <<table, store, manifest, command, fetched, torn, runs>>

(* _try_redirect with a stale cache fetches the manifest in a thread; with *)
(* no manifest, or when the storage fails, the cache stays as it is.       *)
Refresh(r) ==
  /\ cache.stale /\ fetched[r] = None /\ manifest # None
  /\ fetched' = [fetched EXCEPT ![r] = manifest]
  /\ UNCHANGED <<table, store, manifest, command, cache, torn, runs>>

CacheManifest(r) ==
  /\ fetched[r] # None
  /\ cache' = [data |-> fetched[r], stale |-> FALSE]
  /\ fetched' = [fetched EXCEPT ![r] = None]
  /\ UNCHANGED <<table, store, manifest, command, torn, runs>>

(* get_redirect_url: the file a reader with these filters is sent to.      *)
Redirect(data, type, place) ==
  LET name == IF type = None THEN Combined ELSE type
  IN  IF data = None \/ place # None THEN None
      ELSE IF name \in DOMAIN data THEN name ELSE None

(* list_boundaries: what the database answers the same reader.             *)
Answer(type, place) ==
  Rows({b \in Boundaries :
          (type = None \/ TypeOf[b] = type) /\ (place = None \/ PlaceOf[b] = place)})

Next ==
  \/ ImportBoundaries \/ Expire
  \/ \E c \in Commands : \/ Start(c) \/ Read(c) \/ Generate(c) \/ Upload(c) \/ FetchManifest(c)
                         \/ UploadManifest(c) \/ Fail(c)
  \/ \E r \in Readers : Refresh(r) \/ CacheManifest(r)

Spec == Init /\ [][Next]_vars

-----------------------------------------------------------------------------
(* A manifest that was uploaded, is cached or is about to be cached names  *)
(* only files that are there: the manifest goes up last.                   *)
FilesExist ==
  \A data \in {manifest, cache.data} \cup Range(fetched) :
    data # None => DOMAIN data \subseteq DOMAIN store

(* A reader who is redirected gets boundaries the database has or had for  *)
(* his filters, and only a reader without a county or source is.           *)
RedirectIsAnswer ==
  \A type \in Types \cup {None}, place \in Places \cup {None} :
    LET name == Redirect(cache.data, type, place)
    IN  name # None =>
          {row[1] : row \in store[name]} \subseteq {row[1] : row \in Answer(type, place)}

(* Unless a command ended half way or two overlapped, once nobody is       *)
(* publishing every file is listed and is the one its entry describes.     *)
ManifestDescribes ==
  torn = "no" /\ (\A c \in Commands : ~Running(c)) =>
    manifest = (IF store = Empty THEN None ELSE store)

PublishedHold == FilesExist /\ RedirectIsAnswer /\ ManifestDescribes

(* Not so: a filtered publish keeps the entries of the other types.  Two   *)
(* that overlap merge into the same manifest, and the later one's loses    *)
(* the entry of the earlier (publish_service.py:269).                      *)
NobodysEntryLost ==
  torn # "broken" /\ (\A c \in Commands : ~Running(c)) /\ manifest # None
    => DOMAIN manifest = DOMAIN store
================================================================================
