----------------------------- MODULE Migrations -----------------------------
(***************************************************************************)
(* Start-up of the server's database and creation of a tenant: initDb,     *)
(* applyMigrations and createTenantSchema (shared/db/init.ts) over the     *)
(* lists PUBLIC_MIGRATIONS and TENANT_MIGRATIONS (shared/db/               *)
(* migrations-pg.ts).  A schema's version is only the number of statements *)
(* it has run, so a statement inserted in the middle of a list is skipped  *)
(* by the databases that are past it; the list repairs this by repeating   *)
(* the statement at its end.  The databases enumerated initially are those *)
(* a past build of the list can have left: a list that ended after any of  *)
(* today's sections, without the statements that were inserted before its  *)
(* end and not yet repaired.                                               *)
(*                                                                         *)
(* Everything a start-up or a creation does is one transaction under one   *)
(* advisory lock; mgTx is the working copy of the one that holds it.       *)
(***************************************************************************)
EXTENDS Naturals, Sequences, FiniteSets

CONSTANTS
    MgServers,      \* server processes that share the database
    MgTenants,      \* slugs of tenants other than "default"
    MgPastEnds,     \* bound: sections after which a past build's list ended
    MaxMgRuns       \* bound: start-ups and creations

\* No tenant has the slug of the default tenant, whose schema is public.
ASSUME MigrationsAssumption ==
    /\ IsFiniteSet(MgTenants) /\ MgTenants \cap {"default", "platform", "none"} = {}
    /\ "nobody" \notin MgServers /\ MgPastEnds \subseteq 0..21 /\ MaxMgRuns \in Nat

VARIABLES
    mgDb,       \* committed: schemas, schema_migrations, tenants.schema_name
    mgTx,       \* the transaction that holds the advisory lock
    mgServer,   \* server -> "down", "waiting", "up", "failed" or a creation
    mgSlug,     \* tenant -> how its slug looks: "simple", "dashed" or "long"
    mgRuns      \* start-ups and creations so far

mgVars == <<mgDb, mgTx, mgServer, mgSlug, mgRuns>>

-----------------------------------------------------------------------------
(* The lists.  A statement adds objects; one without IF NOT EXISTS may run  *)
(* only once.  Sections that add objects of one feature are one statement.  *)

Sql(does, adds, once) == [does |-> does, adds |-> adds, once |-> once]

\* Global tables; registered ioBOX models; pairing claims; deleted_kiosk_keys.
PUBLIC_MIGRATIONS ==
    << Sql("ddl", {"tenants", "global_admins", "iobox_models", "iobox_serials"}, FALSE),
       Sql("ddl", {"wifi", "ethernet"}, FALSE),
       Sql("ddl", {"iobox_pairing_claims"}, FALSE),
       Sql("ddl", {"deleted_kiosk_keys"}, TRUE) >>

BaseTables ==
    Sql("ddl", {"users", "sessions", "api_keys", "setup_state", "displays",
                "cameras", "camera_streams"}, FALSE)
KioskTables ==
    Sql("ddl", {"kiosks", "layouts", "display_layouts", "layout_cells", "labels",
                "kiosk_labels", "camera_labels", "layout_labels", "pairing_codes"}, FALSE)
ReleaseTables ==
    Sql("ddl", {"event_log", "entities", "firmware_releases", "firmware_rollouts",
                "os_update_releases", "os_update_rollouts", "audit_log",
                "kiosk_gpio_bindings", "kiosk_logs", "cloud_accounts",
                "camera_event_subscriptions"}, FALSE)
PartitionsColumn == Sql("ddl", {"partitions_json"}, FALSE)
LoggingColumn == Sql("ddl", {"logging_json"}, FALSE)
AddForeignKeys == Sql("ddl", {"_bf_add_fk"}, FALSE)
ConvertIds == Sql("convert", {}, FALSE)
BackfillIds == Sql("backfill", {}, FALSE)
AbleSignTables ==
    Sql("ddl", {"ablesign_accounts", "ablesign_screens", "ablesign_screen_id",
                "managed", "event_source", "event_sink", "subscribed_at"}, FALSE)
AudioColumns ==
    Sql("ddl", {"audio_default_volume_percent", "idle_timeout_seconds"}, FALSE)
IoBoxTables ==
    Sql("ddl", {"ioboxes", "iobox_input_mappings", "iobox_firmware_releases",
                "iobox_firmware_rollouts", "source_iobox_id", "input_options_json"}, FALSE)
TargetColumns ==
    Sql("ddl", {"firmware_target", "os_update_compatibility", "event_callback",
                "os_update_state", "telemetry", "recording", "operator_console",
                "simple_vms"}, FALSE)
DeviceTables == Sql("ddl", {"camera_devices"}, FALSE)
DeviceLabels == Sql("ddl", {"device_labels"}, FALSE)
DeviceBackfill == Sql("ddl", {"device_id", "device_channel_id", "ingress_path"}, FALSE)
LogIndexes == Sql("ddl", {"event_id"}, FALSE)
ShortKeys == Sql("ddl", {"local_short_keys"}, TRUE)
PushColumn == Sql("ddl", {"windows_update_push"}, FALSE)

TENANT_MIGRATIONS ==
    << BaseTables, KioskTables, ReleaseTables, PartitionsColumn, LoggingColumn,
       AddForeignKeys, ConvertIds, BackfillIds, AbleSignTables, LoggingColumn,
       AudioColumns, IoBoxTables, AudioColumns, TargetColumns, DeviceTables,
       DeviceLabels, DeviceBackfill, DeviceLabels, LogIndexes, ShortKeys, PushColumn >>

\* Statements inserted into a list that was already longer, and their repairs.
Inserted == {5, 11, 16}
RepairedAt == [i \in Inserted |-> CASE i = 5 -> 10 [] i = 11 -> 13 [] i = 16 -> 18]

\* A build's list ended after the first "last" statements of today's, without
\* an inserted one whose insertion it precedes.
PastLists ==
    { l \in [last : MgPastEnds, missing : SUBSET Inserted] :
        \A i \in l.missing : i <= l.last /\ l.last < RepairedAt[i] }

AllObjects(list) == UNION { list[i].adds : i \in 1..Len(list) }

-----------------------------------------------------------------------------
(* Schemas.  A row's id is an integer, the same number as text, or a UUID;  *)
(* fk is a column that a foreign key binds to it (kiosk_labels.kiosk_id),   *)
(* plain a column that names it without one (displays.kiosk_id), and bound  *)
(* says whether the foreign key is there.  owner is the tenant whose rows   *)
(* the schema holds.                                                        *)

Global == <<"public_global">>
Public == <<"public">>
Cut == <<"cut">>        \* what PostgreSQL keeps of two overlong names

Names == {Global, Public, Cut} \cup ({"ok", "dash", "long", "hash"} \X MgTenants)

Absent == [objs |-> {}, ids |-> "uuid", fk |-> "uuid", plain |-> "uuid",
           bound |-> TRUE, admins |-> FALSE, owner |-> "none"]

NoTenantName == <<"unregistered">>

\* The registrations of older builds: tenant_<slug>, whatever the slug.
OldName(t) ==
    CASE mgSlug[t] = "simple" -> <<"ok", t>>
      [] mgSlug[t] = "dashed" -> <<"dash", t>>
      [] mgSlug[t] = "long" -> <<"long", t>>

legacyTenantSchemaName(t) == <<"hash", t>>

tenantSchemaName(t) ==
    IF mgSlug[t] = "simple" THEN <<"ok", t>> ELSE legacyTenantSchemaName(t)

storedPostgresIdentifier(name) == IF name[1] = "long" THEN Cut ELSE name

ValidName(name) == name[1] \in {"ok", "hash"}

ListOf(name) == IF name = Global THEN PUBLIC_MIGRATIONS ELSE TENANT_MIGRATIONS

-----------------------------------------------------------------------------
(* The statements.                                                          *)

convertIdsUnbound(c) ==
    IF c.ids # "int" THEN c
    ELSE [c EXCEPT !.ids = "text", !.fk = "text", !.plain = "text", !.bound = FALSE]

\* DO $$: integer keys become text, foreign keys are dropped and re-added.
convertIds(c) ==
    IF c.ids # "int" THEN c
    ELSE [c EXCEPT !.ids = "text", !.fk = "text", !.plain = "text", !.bound = TRUE]

\* DO $$: numeric text ids become UUIDs, in the columns foreign keys bind too.
backfillIds(c) ==
    IF c.ids # "text" THEN c
    ELSE [c EXCEPT !.ids = "uuid", !.fk = IF c.bound THEN "uuid" ELSE @]

runStatement(c, sql) ==
    CASE sql.does = "convert" -> convertIds(c)
      [] sql.does = "backfill" -> backfillIds(c)
      [] OTHER -> [c EXCEPT !.objs = @ \cup sql.adds]

MigrationFails(c, sql) == sql.once /\ sql.adds \subseteq c.objs

-----------------------------------------------------------------------------
(* Initial states: the databases past builds can have left.                 *)

IdsAfter(last) ==
    IF last < 7 THEN {"int", "uuid"} ELSE IF last < 8 THEN {"text", "uuid"} ELSE {"uuid"}

PastContent(l, ids, owner) ==
    [Absent EXCEPT !.objs = UNION { TENANT_MIGRATIONS[i].adds : i \in (1..l.last) \ l.missing },
                   !.ids = ids, !.fk = ids, !.plain = ids, !.owner = owner]

\* held: tenants whose schema was created; a registration may lack one.
PastDb(l, ids, global, registered, held) ==
    [tenants |-> [t \in MgTenants |-> IF t \in registered THEN OldName(t) ELSE NoTenantName],
     schema |-> [n \in Names |->
        CASE n = Global ->
               [Absent EXCEPT !.objs = UNION { PUBLIC_MIGRATIONS[i].adds : i \in 1..global },
                              !.owner = "platform"]
          [] n = Public -> PastContent(l, ids, "default")
          [] \E t \in held : storedPostgresIdentifier(OldName(t)) = n ->
               PastContent(l, ids, CHOOSE t \in held : storedPostgresIdentifier(OldName(t)) = n)
          [] OTHER -> Absent],
     version |-> [n \in Names |->
        CASE n = Global -> global
          [] n = Public -> l.last - Cardinality(l.missing)
          [] \E t \in held : OldName(t) = n -> l.last - Cardinality(l.missing)
          [] OTHER -> 0]]

NoSlug == "none"
At(at, slug) == [at |-> at, slug |-> slug]

NoTx == [by |-> "nobody", db |-> <<>>, todo |-> <<>>]

MgInit ==
    /\ mgSlug \in [MgTenants -> {"simple", "dashed", "long"}]
    /\ \E l \in PastLists, ids \in {"int", "text", "uuid"}, global \in {0, 2, 4},
          registered \in SUBSET MgTenants, held \in SUBSET MgTenants :
        /\ ids \in IdsAfter(l.last)
        /\ (global = 0) <=> (l.last = 0)
        /\ held \subseteq registered
        /\ l.last = 0 => registered = {}
        /\ mgDb = PastDb(l, ids, global, registered, held)
    /\ mgTx = NoTx
    /\ mgServer = [s \in MgServers |-> At("down", NoSlug)]
    /\ mgRuns = 0

-----------------------------------------------------------------------------
(* A start-up.                                                              *)

\* initDb: the transaction asks for the lock before it reads anything.
StartUp(s) ==
    /\ mgServer[s].at \in {"down", "failed"}
    /\ mgRuns < MaxMgRuns
    /\ mgServer' = [mgServer EXCEPT ![s] = At("waiting", NoSlug)]
    /\ mgRuns' = mgRuns + 1
    /\ UNCHANGED <<mgDb, mgTx, mgSlug>>

StartLock(s) ==
    /\ mgServer[s].at = "waiting"
    /\ mgTx = NoTx
    /\ mgTx' = [by |-> s, db |-> mgDb,
                todo |-> <<<<"migrate", Global>>, <<"migrate", Public>>, <<"tenants">>>>]
    /\ UNCHANGED <<mgDb, mgServer, mgSlug, mgRuns>>

Doing(what) == mgTx # NoTx /\ mgTx.todo # <<>> /\ Head(mgTx.todo)[1] = what

Goes(db, todo) ==
    /\ mgTx' = [mgTx EXCEPT !.db = db, !.todo = todo]
    /\ UNCHANGED <<mgDb, mgServer, mgSlug, mgRuns>>

\* The transaction rolls back; a start-up exits, a creation is refused.
RollBack ==
    /\ mgServer' = [mgServer EXCEPT ![mgTx.by] =
                      IF @.at = "waiting" THEN At("failed", NoSlug) ELSE At("up", NoSlug)]
    /\ mgTx' = NoTx
    /\ UNCHANGED <<mgDb, mgSlug, mgRuns>>

\* applyMigrations: the next statement after the recorded version, with its row.
applyMigrations ==
    /\ Doing("migrate")
    /\ LET name == Head(mgTx.todo)[2]
           list == ListOf(name)
           version == mgTx.db.version[name]
           sql == list[version + 1]
       IN  IF version >= Len(list)
           THEN Goes(mgTx.db, Tail(mgTx.todo))
           ELSE IF MigrationFails(mgTx.db.schema[name], sql)
           THEN RollBack
           ELSE Goes([mgTx.db EXCEPT !.schema[name] = runStatement(@, sql),
                                     !.version[name] = version + 1], mgTx.todo)

Registered(db) == { t \in MgTenants : db.tenants[t] # NoTenantName }

\* Two registrations that PostgreSQL stored under one name.
Ambiguous(db) ==
    \E t, u \in Registered(db) :
        /\ t # u
        /\ storedPostgresIdentifier(db.tenants[t]) = storedPostgresIdentifier(db.tenants[u])

ListTenants ==
    /\ Doing("tenants")
    /\ IF Ambiguous(mgTx.db)
       THEN RollBack
       ELSE \E order \in [1..Cardinality(Registered(mgTx.db)) -> Registered(mgTx.db)] :
              /\ \A i, j \in DOMAIN order : i # j => order[i] # order[j]
              /\ Goes(mgTx.db, [i \in DOMAIN order |-> <<"tenant", order[i]>>])

\* ALTER SCHEMA ... RENAME and the rows of schema_migrations with it.
renameSchema(db, t) ==
    LET raw == db.tenants[t]
        stored == storedPostgresIdentifier(raw)
        repaired == legacyTenantSchemaName(t)
    IN  IF db.schema[stored].owner = "none" THEN db
        ELSE [db EXCEPT !.schema[repaired] = db.schema[stored],
                        !.schema[stored] = Absent,
                        !.version[repaired] = IF db.version[raw] > db.version[stored]
                                              THEN db.version[raw] ELSE db.version[stored],
                        !.version[raw] = 0, !.version[stored] = 0]

\* CREATE SCHEMA IF NOT EXISTS.
createSchema(db, name, t) ==
    IF db.schema[name].owner # "none" THEN db
    ELSE [db EXCEPT !.schema[name] = [Absent EXCEPT !.owner = t]]

RepairTenant ==
    /\ Doing("tenant")
    /\ LET t == Head(mgTx.todo)[2]
           repaired == IF ValidName(mgTx.db.tenants[t]) THEN mgTx.db
                       ELSE [renameSchema(mgTx.db, t) EXCEPT !.tenants[t] = legacyTenantSchemaName(t)]
           name == repaired.tenants[t]
       IN  Goes(createSchema(repaired, name, t),
                <<<<"migrate", name>>, <<"mirror", name>>>> \o Tail(mgTx.todo))

\* The platform's administrators are copied into the schema's users.
mirrorPlatformAdmins ==
    /\ Doing("mirror")
    /\ Goes([mgTx.db EXCEPT !.schema[Head(mgTx.todo)[2]].admins = TRUE], Tail(mgTx.todo))

MigrationCommits ==
    /\ mgTx # NoTx /\ mgTx.todo = <<>>
    /\ mgDb' = mgTx.db
    /\ mgServer' = [mgServer EXCEPT ![mgTx.by] = At("up", NoSlug)]
    /\ mgTx' = NoTx
    /\ UNCHANGED <<mgSlug, mgRuns>>

\* The process dies: PostgreSQL rolls back and frees the lock.
ServerCrash(s) ==
    /\ mgServer[s].at \notin {"down", "failed"}
    /\ mgServer' = [mgServer EXCEPT ![s] = At("down", NoSlug)]
    /\ mgTx' = IF mgTx # NoTx /\ mgTx.by = s THEN NoTx ELSE mgTx
    /\ UNCHANGED <<mgDb, mgSlug, mgRuns>>

-----------------------------------------------------------------------------
(* Creation and deletion of tenants by a running server.                    *)

\* POST /admin/tenants: no tenant has the slug yet.
CreateCheck(s, t) ==
    /\ mgServer[s].at = "up"
    /\ mgRuns < MaxMgRuns
    /\ mgDb.tenants[t] = NoTenantName
    /\ mgServer' = [mgServer EXCEPT ![s] = At("checked", t)]
    /\ mgRuns' = mgRuns + 1
    /\ UNCHANGED <<mgDb, mgTx, mgSlug>>

\* createTenant's INSERT waits for another of the slug, and fails after it.
CreateInsert(s) ==
    /\ mgServer[s].at = "checked"
    /\ \A other \in MgServers \ {s} :
          mgServer[other] # At("inserted", mgServer[s].slug)
    /\ mgServer' = [mgServer EXCEPT ![s] =
                      IF mgDb.tenants[@.slug] = NoTenantName
                      THEN At("inserted", @.slug) ELSE At("up", NoSlug)]
    /\ UNCHANGED <<mgDb, mgTx, mgSlug, mgRuns>>

createTenantSchema(s) ==
    /\ mgServer[s].at = "inserted"
    /\ mgTx = NoTx
    /\ LET t == mgServer[s].slug
           name == tenantSchemaName(t)
       IN  mgTx' = [by |-> s,
                    db |-> createSchema([mgDb EXCEPT !.tenants[t] = name], name, t),
                    todo |-> <<<<"migrate", name>>, <<"mirror", name>>>>]
    /\ UNCHANGED <<mgDb, mgServer, mgSlug, mgRuns>>

\* deleteTenant removes the registration and keeps the schema.
DeleteTenant(s, t) ==
    /\ mgServer[s].at = "up"
    /\ mgTx = NoTx
    /\ mgDb.tenants[t] # NoTenantName
    /\ mgDb' = [mgDb EXCEPT !.tenants[t] = NoTenantName]
    /\ UNCHANGED <<mgTx, mgServer, mgSlug, mgRuns>>

MgNext ==
    \/ applyMigrations \/ ListTenants \/ RepairTenant \/ mirrorPlatformAdmins \/ MigrationCommits
    \/ \E s \in MgServers :
         \/ StartUp(s) \/ StartLock(s) \/ ServerCrash(s)
         \/ CreateInsert(s) \/ createTenantSchema(s)
         \/ \E t \in MgTenants : CreateCheck(s, t) \/ DeleteTenant(s, t)

MgSpec == MgInit /\ [][MgNext]_mgVars

-----------------------------------------------------------------------------
(* Properties.                                                              *)

Up == \E s \in MgServers : mgServer[s].at \notin {"down", "failed", "waiting"}

\* While a server runs, the schema of every registered tenant (and public)
\* holds every object of the list, whichever build made it, although the
\* version counts statements and some were inserted below it.
SchemasComplete ==
    Up => \A n \in {Public} \cup { mgDb.tenants[t] : t \in Registered(mgDb) } :
            /\ mgDb.schema[n].objs = AllObjects(TENANT_MIGRATIONS)
            /\ n # Public => mgDb.schema[n].admins

\* A start-up gives up only for ambiguous registrations: no statement that
\* may run once is run again on a database of a past build.
StartupSucceeds ==
    \A s \in MgServers : mgServer[s].at = "failed" => Ambiguous(mgDb)

\* While a server runs, a registered tenant's schema holds its own rows, and
\* no other schema does: a repaired name never takes another tenant's schema
\* and never leaves the tenant's rows behind.
OwnSchema ==
    Up => \A t \in Registered(mgDb) :
            { n \in Names : mgDb.schema[n].owner = t } = {mgDb.tenants[t]}

\* Columns bound by a foreign key still name their row after the ids were
\* converted and replaced.
ReferencesKept == \A n \in Names : mgDb.schema[n].fk = mgDb.schema[n].ids

\* Startup migrations as a whole: the claims above.
MigrationsSafe ==
  SchemasComplete /\ StartupSucceeds /\ OwnSchema /\ ReferencesKept
=============================================================================
