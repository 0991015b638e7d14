-------------------------------- MODULE Startup --------------------------------
(***************************************************************************)
(* The start of the server: init_db and the two repairs of app/db.py, then *)
(* migrate of app/migrate.py, one committed transaction at a time, with    *)
(* crashes in between; and what users do with sites and results while the  *)
(* server is up.  The database is SQLite.  A result names its site twice,  *)
(* in config_json and in a column of its own, and old results do not name  *)
(* it at all.                                                              *)
(***************************************************************************)
EXTENDS Integers, FiniteSets

CONSTANTS Site, Url,
          File, NewResult,     \* results: of old files or rows, and new ones (bound)
          OldSites,            \* the sites of config.yaml: [Site -> Url or ""]
          OldResults           \* the old results: [File -> [url, name]]

ASSUME StartupAssumption ==
  /\ "" \notin Site \cup Url
  /\ OldSites \in [Site -> Url \cup {""}]
  /\ OldResults \in [File -> [url: Url \cup {""}, name: Site \cup {""}]]
  /\ File \cap NewResult = {}

VARIABLES
  disk,       \* what is there before the first start: "unknown", then "empty", "files", "database"
  schema,     \* the columns: "none", "early" (no scheduled_task_id), "old", "current"
  boot,       \* how far the start has come
  users,      \* count_users()
  sites,      \* profiles: base_url or ""
  results,    \* rows: config_json's base_url and profile_name, the column; or "none"
  todo,       \* what this migration has left to do: sites, files
  backup,     \* config.yaml.bak is there
  stored      \* history: how often a file was saved as a result

startupVars == <<disk, schema, boot, users, sites, results, todo, backup, stored>>

ResultId == File \cup NewResult
Row(url, name, column, first) == {[url |-> url, name |-> name, profile_name |-> column, first |-> first]}

\* a result: the empty set or its row; first: the first site of its schedule.
StartupTypeOK ==
  /\ disk \in {"unknown", "empty", "files", "database"}
  /\ schema \in {"none", "early", "old", "current"}
  /\ boot \in {"off", "names", "columns", "schema", "backfill", "check", "migrate", "up"}
  /\ users \in Nat /\ sites \in [Site -> Url \cup {""}] /\ backup \in BOOLEAN
  /\ results \in [ResultId -> SUBSET [url: Url \cup {""}, name: Site \cup {""},
                                   profile_name: Site \cup {""}, first: Site \cup {""}]]
  /\ todo \subseteq Site \cup File
  /\ stored \in [File -> Nat]
--------------------------------------------------------------------------------
Known(s) == sites[s] # ""

\* An installation is new, or has files of the time before the database, or a database of
\* an earlier version; schedules of that time did not save the names of sites.
Install(kind, version, first) ==
  /\ disk = "unknown"
  /\ disk' = kind
  /\ IF kind = "database"
     THEN /\ users' = 1 /\ sites' = OldSites /\ schema' = version
          /\ results' = [r \in ResultId |-> IF r \in File
               THEN Row(OldResults[r].url, OldResults[r].name, "", first) ELSE {}]
     ELSE UNCHANGED <<users, sites, schema, results>>
  /\ UNCHANGED <<boot, todo, backup, stored>>

\* init_db creates what is missing.  It cannot index a column that only _migrate_schema
\* would add: a database without scheduled_task_id is never opened.
init_db ==
  /\ disk # "unknown" /\ boot = "off" /\ schema # "early"
  /\ boot' = "names"
  /\ schema' = IF schema = "none" THEN "current" ELSE schema
  /\ UNCHANGED <<disk, users, sites, results, todo, backup, stored>>

\* _migrate_schedule_results_profile_name: unnamed results get the first site of their
\* schedule, whichever site they are of; those without a schedule get NULL.
Named(row) == [row EXCEPT !.name = IF @ = "" THEN row.first ELSE @]

_migrate_schedule_results_profile_name ==
  /\ boot = "names" /\ boot' = "columns"
  /\ results' = [r \in ResultId |-> {Named(row) : row \in results[r]}]
  /\ UNCHANGED <<disk, schema, users, sites, todo, backup, stored>>

\* _backfill_redundant_columns.
Copied(row) ==
  IF row.profile_name = "" \/ row.url = "" THEN [row EXCEPT !.profile_name = row.name] ELSE row

_backfill_redundant_columns ==
  /\ boot = "columns" /\ boot' = "schema"
  /\ results' = [r \in ResultId |-> {Copied(row) : row \in results[r]}]
  /\ UNCHANGED <<disk, schema, users, sites, todo, backup, stored>>

_migrate_schema ==
  /\ boot = "schema" /\ boot' = "backfill"
  /\ schema' = "current"
  /\ UNCHANGED <<disk, users, sites, results, todo, backup, stored>>

\* _backfill_profile_name: an unnamed result gets the name of the only site with its
\* base_url; otherwise it is deleted.
SitesAt(url) == IF url = "" THEN {} ELSE {s \in Site : sites[s] = url}

_backfill_profile_name ==
  /\ boot = "backfill" /\ boot' = "check"
  /\ results' = [r \in ResultId |->
       {row \in results[r] : row.name # ""}
       \cup {[p[1] EXCEPT !.name = p[2]] :
               p \in {q \in results[r] \X Site : q[1].name = "" /\ SitesAt(q[1].url) = {q[2]}}}]
  /\ UNCHANGED <<disk, schema, users, sites, todo, backup, stored>>

\* Mutant: a migration that did not come to its end is done again.
BackedUp == backup \/ disk # "files"

HasData == users > 0

\* migrate: with users in the database nothing is migrated; otherwise the admin is
\* created first, whatever else is to be done.
migrate ==
  /\ boot = "check"
  /\ IF HasData THEN boot' = "up" /\ UNCHANGED <<users, todo>>
     ELSE /\ users' = users + 1
          /\ boot' = IF disk = "files" THEN "migrate" ELSE "up"
          /\ todo' = IF disk = "files" THEN {s \in Site : OldSites[s] # ""} \cup File ELSE {}
  /\ UNCHANGED <<disk, schema, sites, results, backup, stored>>

MigrateProfile(s) ==
  /\ boot = "migrate" /\ s \in todo
  /\ sites' = [sites EXCEPT ![s] = OldSites[s]]
  /\ todo' = todo \ {s}
  /\ UNCHANGED <<disk, schema, boot, users, results, backup, stored>>

\* Results follow when all profiles are there; a file that cannot be read is skipped.
MigrateResult(f, readable) ==
  /\ boot = "migrate" /\ f \in todo /\ todo \cap Site = {}
  /\ todo' = todo \ {f}
  /\ IF readable
     THEN /\ results' = [results EXCEPT ![f] =
               Row(OldResults[f].url, OldResults[f].name, OldResults[f].name, "")]
          /\ stored' = [stored EXCEPT ![f] = @ + 1]
     ELSE UNCHANGED <<results, stored>>
  /\ UNCHANGED <<disk, schema, boot, users, sites, backup>>

BackUp ==
  /\ boot = "migrate" /\ todo = {}
  /\ backup' = TRUE /\ boot' = "up"
  /\ UNCHANGED <<disk, schema, users, sites, results, todo, stored>>

\* Also an ordinary stop.
CrashServer ==
  /\ boot # "off"
  /\ boot' = "off" /\ todo' = {}
  /\ UNCHANGED <<disk, schema, users, sites, results, backup, stored>>
--------------------------------------------------------------------------------
\* While the server is up: save_result, which copies the name into the column, ...
SaveNamedResult(r, s) ==
  /\ boot = "up" /\ Known(s) /\ results[r] = {}
  /\ results' = [results EXCEPT ![r] = Row(sites[s], s, s, "")]
  /\ UNCHANGED <<disk, schema, boot, users, sites, todo, backup, stored>>

\* ... delete_result, upsert_profile (url) and delete_profile ("": a site without base_url
\* cannot be benchmarked and is not told from none), ...
DeleteResult(r) ==
  /\ boot = "up" /\ results[r] # {}
  /\ results' = [results EXCEPT ![r] = {}]
  /\ UNCHANGED <<disk, schema, boot, users, sites, todo, backup, stored>>

SaveSite(s, url) ==
  /\ boot = "up" /\ sites' = [sites EXCEPT ![s] = url]
  /\ UNCHANGED <<disk, schema, boot, users, results, todo, backup, stored>>

\* Mutant: only the column is renamed.
RenamedColumn(row, old, new) ==
  [row EXCEPT !.profile_name = IF @ = old THEN new ELSE @]

\* ... and rename_profile, which looks for the old name in both places.
Renamed(row, old, new) ==
  [row EXCEPT !.profile_name = IF @ = old THEN new ELSE @, !.name = IF @ = old THEN new ELSE @]

RenameSite(old, new) ==
  /\ boot = "up" /\ Known(old) /\ ~Known(new)
  /\ sites' = [sites EXCEPT ![new] = sites[old], ![old] = ""]
  /\ results' = [r \in ResultId |->
       {[Renamed(row, old, new) EXCEPT !.first = IF @ = old THEN new ELSE @] : row \in results[r]}]
  /\ UNCHANGED <<disk, schema, boot, users, todo, backup, stored>>

StartupInit ==
  /\ disk = "unknown" /\ schema = "none" /\ boot = "off" /\ users = 0
  /\ sites = [s \in Site |-> ""] /\ results = [r \in ResultId |-> {}]
  /\ todo = {} /\ backup = FALSE /\ stored = [f \in File |-> 0]

StartupNext ==
  \/ \E kind \in {"empty", "files", "database"}, version \in {"early", "old", "current"},
        first \in Site \cup {""} : Install(kind, version, first)
  \/ init_db \/ _migrate_schedule_results_profile_name \/ _backfill_redundant_columns
  \/ _migrate_schema \/ _backfill_profile_name \/ migrate \/ BackUp \/ CrashServer
  \/ \E s \in Site : MigrateProfile(s)
  \/ \E f \in File, readable \in BOOLEAN : MigrateResult(f, readable)
  \/ \E r \in NewResult, s \in Site : SaveNamedResult(r, s)
  \/ \E r \in ResultId : DeleteResult(r)
  \/ \E s \in Site, url \in Url \cup {""} : SaveSite(s, url)
  \/ \E old, new \in Site : RenameSite(old, new)

StartupSpec == StartupInit /\ [][StartupNext]_startupVars
--------------------------------------------------------------------------------
\* migrate.py:41: however often the first start is cut short, no old result becomes two.
MigratedOnce == \A f \in File : stored[f] <= 1

\* db.py:428 and 732: the two names of a result agree, or the column waits for the next
\* start, whatever was renamed and however often the server was restarted.
NamesAgree == \A r \in ResultId : \A row \in results[r] : row.profile_name \in {"", row.name}
================================================================================
