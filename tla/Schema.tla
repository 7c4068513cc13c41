------------------------------- MODULE Schema -------------------------------
(***************************************************************************)
(* The database schema and what fills it before anyone visits: the seven   *)
(* Alembic revisions, up and down, as lists of DDL operations that fail    *)
(* where PostgreSQL would refuse them; the seed script, which may run      *)
(* twice at once; and the events, which one of the revisions cleans up.    *)
(* env.py runs every revision of a command in one transaction, so that a   *)
(* command either takes the schema all the way or leaves it as it was.     *)
(***************************************************************************)
EXTENDS Naturals, Sequences, Functions

CONSTANT Seeder         \* runs of scripts/seed.py

VARIABLES
    revision,           \* alembic_version: how many revisions are applied
    db,                 \* the tables, the enum types and the rows
    seeder,             \* of each run of the seed: where it is
    added,              \*   and the rows that it has not yet committed
    visited             \* history: a visit was recorded in the present table

schemaVars == <<revision, db, seeder, added, visited>>

-----------------------------------------------------------------------------
(* DDL. A table has columns, some of an enum type, and foreign keys.       *)

Table(columns, enums, refs) == [columns |-> columns, enums |-> enums, refs |-> refs]
None == [c \in {} |-> ""]

CreateTable(name, columns, enums, refs) ==
    [op |-> "create_table", name |-> name, table |-> Table(columns, enums, refs)]
DropTable(name) == [op |-> "drop_table", name |-> name]
CreateType(name, labels, checkfirst) ==
    [op |-> "create_type", name |-> name, labels |-> labels, checkfirst |-> checkfirst]
DropType(name, checkfirst) ==
    [op |-> "drop_type", name |-> name, checkfirst |-> checkfirst]
RenameType(name, to) == [op |-> "rename_type", name |-> name, to |-> to]
AddColumn(name, column) == [op |-> "add_column", name |-> name, column |-> column]
AddEnumColumn(name, column, type) ==
    [op |-> "add_enum_column", name |-> name, column |-> column, type |-> type]
DropColumn(name, column) == [op |-> "drop_column", name |-> name, column |-> column]
AlterType(name, column, type) ==
    [op |-> "alter_type", name |-> name, column |-> column, type |-> type]
DeleteRows(name, rows) == [op |-> "delete_rows", name |-> name, rows |-> rows]
MarkInDevelopment(name, slugs) == [op |-> "mark", name |-> name, slugs |-> slugs]

InUse(d, type) ==
    \E t \in DOMAIN d.tables : type \in Range(d.tables[t].enums)

\* CREATE TABLE creates the types of its columns that this command has not
\* created yet, without looking whether they exist.
NewTypes(d, table) == Range(table.enums) \ d.memo

\* Whether PostgreSQL carries the operation out.
Possible(d, o) ==
    CASE o.op = "create_table" ->
            /\ o.name \notin DOMAIN d.tables
            /\ o.table.refs \subseteq DOMAIN d.tables
            /\ NewTypes(d, o.table) \cap DOMAIN d.types = {}
      [] o.op = "drop_table" ->
            /\ o.name \in DOMAIN d.tables
            /\ \A t \in DOMAIN d.tables : o.name \notin d.tables[t].refs
      [] o.op = "create_type" -> o.checkfirst \/ o.name \notin DOMAIN d.types
      [] o.op = "drop_type" ->
            (o.checkfirst \/ o.name \in DOMAIN d.types) /\ ~InUse(d, o.name)
      [] o.op = "rename_type" -> o.name \in DOMAIN d.types /\ o.to \notin DOMAIN d.types
      [] o.op \in {"add_column", "add_enum_column"} ->
            /\ o.name \in DOMAIN d.tables
            /\ o.column \notin d.tables[o.name].columns
            /\ o.op = "add_enum_column" => o.type \in DOMAIN d.types
      [] o.op = "alter_type" ->
            /\ o.column \in d.tables[o.name].columns
            /\ o.type \in DOMAIN d.types
            /\ d.rows[o.name] = {}
      [] o.op = "drop_column" -> o.column \in d.tables[o.name].columns
      [] OTHER -> o.name \in DOMAIN d.tables

\* The labels of the enums that are created with their tables.
OLD_VALUES == {"programming", "embedded_systems", "electronics", "automation", "web_dev",
               "ml_data", "cybersecurity", "linux_devops", "engineering_tools"}
NEW_VALUES == {"programming", "embedded_systems", "hardware_design", "robotics",
               "networks", "web_backend", "linux_devops", "data_ml"}
InitialLabels ==
    [project_category |-> {"featured", "software", "embedded", "electronics", "robotics",
                           "ml_data", "cybersecurity", "devops_infra", "academic_research"},
     skill_category |-> OLD_VALUES,
     tech_category |-> OLD_VALUES,
     analytics_event_type |-> {"page_view", "project_view", "project_link_click",
                               "github_click", "cv_download", "contact_click",
                               "language_change"},
     locale_type |-> {"en", "es"}]

WithTypes(types, new) ==
    [t \in DOMAIN types \cup new |->
        IF t \in DOMAIN types THEN types[t] ELSE InitialLabels[t]]

Extend(f, k, v) == [x \in DOMAIN f \cup {k} |-> IF x = k THEN v ELSE f[x]]
Without(f, k) == Restrict(f, DOMAIN f \ {k})
WithColumn(table, column) == [table EXCEPT !.columns = @ \cup {column}]
WithEnum(table, column, type) ==
    [WithColumn(table, column) EXCEPT !.enums = Extend(@, column, type)]
WithoutColumn(table, column) ==
    [table EXCEPT !.columns = @ \ {column}, !.enums = Without(@, column)]
OfType(table, column, type) == [table EXCEPT !.enums[column] = type]

\* A project's row is its slug with its status.
Project(slug, status) == [slug |-> slug, status |-> status]

Marked(projects, slugs) ==
    {IF p.slug \in slugs THEN Project(p.slug, "in_development") ELSE p : p \in projects}

\* The columns of an enum type follow its name.
Retyped(tables, type, to) ==
    [t \in DOMAIN tables |-> [tables[t] EXCEPT !.enums =
        [c \in DOMAIN @ |-> IF @[c] = type THEN to ELSE @[c]]]]

Effect(d, o) ==
    CASE o.op = "create_table" ->
            [d EXCEPT !.tables = Extend(@, o.name, o.table),
                      !.types = WithTypes(@, NewTypes(d, o.table)),
                      !.memo = @ \cup NewTypes(d, o.table),
                      !.rows = Extend(@, o.name, {})]
      [] o.op = "drop_table" ->
            [d EXCEPT !.tables = Without(@, o.name), !.rows = Without(@, o.name)]
      [] o.op = "create_type" ->
            [d EXCEPT !.types = IF o.name \in DOMAIN @ THEN @
                                ELSE Extend(@, o.name, o.labels)]
      [] o.op = "drop_type" -> [d EXCEPT !.types = Without(@, o.name)]
      [] o.op = "rename_type" ->
            [d EXCEPT !.types = Extend(Without(@, o.name), o.to, @[o.name]),
                      !.tables = Retyped(@, o.name, o.to)]
      [] o.op = "add_column" -> [d EXCEPT !.tables[o.name] = WithColumn(@, o.column)]
      [] o.op = "add_enum_column" ->
            [d EXCEPT !.tables[o.name] = WithEnum(@, o.column, o.type),
                      !.rows[o.name] = {Project(p.slug, "complete") : p \in @}]
      [] o.op = "drop_column" ->
            [d EXCEPT !.tables[o.name] = WithoutColumn(@, o.column),
                      !.rows[o.name] = IF o.column = "status"
                                         THEN {Project(p.slug, "-") : p \in @} ELSE @]
      [] o.op = "alter_type" -> [d EXCEPT !.tables[o.name] = OfType(@, o.column, o.type)]
      [] o.op = "delete_rows" -> [d EXCEPT !.rows[o.name] = @ \ o.rows]
      [] o.op = "mark" ->
            [d EXCEPT !.rows[o.name] = Marked(@, o.slugs)]

\* After an operation that is refused the transaction does nothing more.
Step(d, o) ==
    IF d.ok /\ Possible(d, o) THEN Effect(d, o) ELSE [d EXCEPT !.ok = FALSE]

Perform(d, ops) ==
    LET after[n \in 0..Len(ops)] == IF n = 0 THEN d ELSE Step(after[n - 1], ops[n])
    IN  after[Len(ops)]

-----------------------------------------------------------------------------
(* The revisions.                                                          *)

InitialSchema == <<
    CreateTable("admin_users",
        {"id", "username", "password_hash", "created_at", "last_login"}, None, {}),
    CreateTable("projects",
        {"id", "slug", "category", "github_url", "demo_url", "featured", "sort_order",
         "created_at", "updated_at"}, [category |-> "project_category"], {}),
    CreateTable("skills",
        {"id", "name", "category", "proficiency", "sort_order", "icon_url"},
        [category |-> "skill_category"], {}),
    CreateTable("technologies", {"id", "name", "category", "icon_url"},
        [category |-> "tech_category"], {}),
    CreateTable("analytics_events",
        {"id", "event_type", "session_id", "project_id", "project_slug", "locale",
         "metadata", "user_agent_hash", "ip_hash", "created_at"},
        [event_type |-> "analytics_event_type", locale |-> "locale_type"], {"projects"}),
    CreateTable("project_images",
        {"id", "project_id", "url", "alt_text", "is_hero", "sort_order", "created_at"},
        None, {"projects"}),
    CreateTable("project_technologies", {"project_id", "technology_id"}, None,
        {"projects", "technologies"}),
    CreateTable("project_translations",
        {"id", "project_id", "locale", "title", "short_desc", "overview", "problem",
         "requirements", "architecture", "implementation", "decisions", "challenges",
         "testing_desc", "results", "lessons"}, [locale |-> "locale_type"], {"projects"}) >>

DropInitialSchema == <<
    DropTable("project_translations"), DropTable("project_technologies"),
    DropTable("project_images"), DropTable("analytics_events"),
    DropTable("technologies"), DropTable("skills"), DropTable("projects"),
    DropTable("admin_users"),
    DropType("project_category", TRUE), DropType("skill_category", TRUE),
    DropType("tech_category", TRUE), DropType("analytics_event_type", TRUE),
    DropType("locale_type", TRUE) >>

AddAdminSessions == <<
    CreateTable("login_attempts", {"id", "ip_hash", "success", "created_at"}, None, {}),
    CreateTable("admin_sessions", {"session_id", "user_id", "expires_at", "created_at"},
        None, {"admin_users"}) >>

DropAdminSessions == << DropTable("admin_sessions"), DropTable("login_attempts") >>

\* locale_type is there already: create_type=False.
AddCertifications == <<
    CreateTable("certifications",
        {"id", "slug", "issuer", "issue_date", "expiry_date", "credential_url",
         "badge_image_url", "featured", "sort_order", "created_at", "updated_at"}, None, {}),
    CreateTable("certification_translations",
        {"id", "certification_id", "title", "description"}, None, {"certifications"}),
    AddEnumColumn("certification_translations", "locale", "locale_type") >>

DropCertifications ==
    << DropTable("certification_translations"), DropTable("certifications") >>

\* Mutant: a column of the model has no migration.
HealthWithoutErrors == <<
    CreateTable("network_health_samples",
        {"id", "sampled_at", "services", "internet_targets", "packet_loss_pct",
         "cpu_percent", "memory_percent", "disk_percent", "requests_count"}, None, {}) >>

AddNetworkHealth == <<
    CreateTable("network_health_samples",
        {"id", "sampled_at", "services", "internet_targets", "packet_loss_pct",
         "cpu_percent", "memory_percent", "disk_percent", "requests_count",
         "errors_count"}, None, {}) >>

DropNetworkHealth == << DropTable("network_health_samples") >>

\* Mutants: one of the slugs is forgotten; the type stays behind.
OneSlugMarked == {"electrodynamic-tether-deorbit"}
DropStatusOnly == << DropColumn("projects", "status") >>

IN_DEVELOPMENT_SLUGS == {"electrodynamic-tether-deorbit", "fedora-linux-environment"}

AddProjectStatus == <<
    CreateType("project_status", {"complete", "in_development"}, TRUE),
    AddEnumColumn("projects", "status", "project_status"),
    MarkInDevelopment("projects", IN_DEVELOPMENT_SLUGS) >>

DropProjectStatus ==
    << DropColumn("projects", "status"), DropType("project_status", TRUE) >>

AllSkills == {"skill"}

\* The type is rebuilt, as its labels cannot be removed, on an empty table.
SwapEnum(values) == <<
    DeleteRows("skills", AllSkills),
    RenameType("skill_category", "skill_category_old"),
    CreateType("skill_category", values, FALSE),
    AlterType("skills", "category", "skill_category"),
    DropType("skill_category_old", FALSE) >>

ReworkSkills ==
    SwapEnum(NEW_VALUES) \o << AddColumn("skills", "featured_rank"),
        DropColumn("skills", "proficiency"), DropColumn("skills", "icon_url") >>

RestoreSkills == << AddColumn("skills", "icon_url"), AddColumn("skills", "proficiency"),
                    DropColumn("skills", "featured_rank") >> \o SwapEnum(OLD_VALUES)

\* Mutant: every event is deleted.
DeviceAndNoEvents == <<
    AddColumn("analytics_events", "device_class"),
    AddColumn("analytics_events", "referrer_host"),
    DeleteRows("analytics_events", {"demo", "visit"}) >>

\* The seeded events are those without an ip_hash.
DeviceAndReferrer == <<
    AddColumn("analytics_events", "device_class"),
    AddColumn("analytics_events", "referrer_host"),
    DeleteRows("analytics_events", {"demo"}) >>

DropDeviceAndReferrer == << DropColumn("analytics_events", "referrer_host"),
                            DropColumn("analytics_events", "device_class") >>

Upgrades == << InitialSchema, AddAdminSessions, AddCertifications, AddNetworkHealth,
               AddProjectStatus, ReworkSkills, DeviceAndReferrer >>
Downgrades == << DropInitialSchema, DropAdminSessions, DropCertifications,
                 DropNetworkHealth, DropProjectStatus, RestoreSkills,
                 DropDeviceAndReferrer >>

Latest == Len(Upgrades)

\* The types that one command has created are nothing to the next one.
Forget(d) == [d EXCEPT !.memo = {}]

\* `alembic upgrade` and `alembic downgrade` from one revision to another.
Execute(d, from, to) ==
    LET up[n \in from..to] ==
            IF n = from THEN Forget(d) ELSE Perform(up[n - 1], Upgrades[n])
        down[n \in to..from] ==
            IF n = from THEN Forget(d) ELSE Perform(down[n + 1], Downgrades[n + 1])
    IN  IF from <= to THEN up[to] ELSE down[to]

\* The operations of which these commands consist.
Operations(from, to) ==
    UNION ({Range(Upgrades[n]) : n \in (from + 1)..to}
              \cup {Range(Downgrades[n]) : n \in (to + 1)..from})

EmptyDb == [ok |-> TRUE, tables |-> [t \in {} |-> {}], types |-> [t \in {} |-> {}],
            memo |-> {}, rows |-> [t \in {} |-> {}]]

-----------------------------------------------------------------------------
(* What the models of the application expect.                              *)

AdminModels ==
    [admin_users |-> Table({"id", "username", "password_hash", "created_at", "last_login"},
        None, {}),
     admin_sessions |-> Table({"session_id", "user_id", "expires_at", "created_at"},
        None, {"admin_users"}),
     login_attempts |-> Table({"id", "ip_hash", "success", "created_at"}, None, {})]

ProjectModels ==
    [projects |-> Table(
        {"id", "slug", "category", "status", "github_url", "demo_url", "featured",
         "sort_order", "created_at", "updated_at"},
        [category |-> "project_category", status |-> "project_status"], {}),
     project_translations |-> Table(
        {"id", "project_id", "locale", "title", "short_desc", "overview", "problem",
         "requirements", "architecture", "implementation", "decisions", "challenges",
         "testing_desc", "results", "lessons"}, [locale |-> "locale_type"], {"projects"}),
     project_images |-> Table(
        {"id", "project_id", "url", "alt_text", "is_hero", "sort_order", "created_at"},
        None, {"projects"}),
     technologies |-> Table({"id", "name", "category", "icon_url"},
        [category |-> "tech_category"], {}),
     project_technologies |-> Table({"project_id", "technology_id"}, None,
        {"projects", "technologies"})]

SkillModels ==
    [skills |-> Table({"id", "name", "category", "featured_rank", "sort_order"},
        [category |-> "skill_category"], {})]

CertificationModels ==
    [certifications |-> Table(
        {"id", "slug", "issuer", "issue_date", "expiry_date", "credential_url",
         "badge_image_url", "featured", "sort_order", "created_at", "updated_at"}, None, {}),
     certification_translations |-> Table(
        {"id", "certification_id", "locale", "title", "description"},
        [locale |-> "locale_type"], {"certifications"})]

AnalyticsModels ==
    [analytics_events |-> Table(
        {"id", "event_type", "session_id", "project_id", "project_slug", "locale",
         "metadata", "user_agent_hash", "ip_hash", "device_class", "referrer_host",
         "created_at"},
        [event_type |-> "analytics_event_type", locale |-> "locale_type"], {"projects"})]

HealthModels ==
    [network_health_samples |-> Table(
        {"id", "sampled_at", "services", "internet_targets", "packet_loss_pct",
         "cpu_percent", "memory_percent", "disk_percent", "requests_count",
         "errors_count"}, None, {})]

ModelFiles == {AdminModels, ProjectModels, SkillModels, CertificationModels,
               AnalyticsModels, HealthModels}

Models ==
    [t \in UNION {DOMAIN tables : tables \in ModelFiles} |->
        (CHOOSE tables \in ModelFiles : t \in DOMAIN tables)[t]]

ModelLabels ==
    [locale_type |-> {"en", "es"},
     project_category |-> {"featured", "software", "embedded", "electronics", "robotics",
                           "ml_data", "cybersecurity", "devops_infra", "academic_research"},
     project_status |-> {"complete", "in_development"},
     tech_category |-> {"programming", "embedded_systems", "electronics", "automation",
                        "web_dev", "ml_data", "cybersecurity", "linux_devops",
                        "engineering_tools"},
     skill_category |-> {"programming", "embedded_systems", "hardware_design", "robotics",
                         "networks", "web_backend", "linux_devops", "data_ml"},
     analytics_event_type |-> {"page_view", "project_view", "project_link_click",
                               "github_click", "cv_download", "contact_click",
                               "language_change"}]

\* A query of the model finds its columns, and its enums know its values.
Works(t) ==
    /\ t \in DOMAIN db.tables
    /\ Models[t].columns \subseteq db.tables[t].columns
    /\ \A type \in Range(Models[t].enums) : ModelLabels[type] \subseteq db.types[type]

\* What the seed plants, in its order: a row or two for each of its lists.
Row(table, key) == [table |-> table, key |-> key]
Entries == << Row("admin_users", "admin"), Row("certifications", "certification"),
              Row("technologies", "technology"), Row("skills", "skill"),
              Row("projects", "pokebot"), Row("projects", "electrodynamic-tether-deorbit"),
              Row("projects", "fedora-linux-environment") >>

\* `status` of an entry of PROJECTS, complete unless it says otherwise.
SeededStatus(slug) ==
    IF slug \in {"electrodynamic-tether-deorbit", "fedora-linux-environment"}
      THEN "in_development" ELSE "complete"

SeededRow(e) ==
    IF e.table = "projects" THEN Project(e.key, SeededStatus(e.key)) ELSE e.key

\* The rows are matched by their unique key.
Exists(e) ==
    IF e.table = "projects" THEN \E p \in db.rows["projects"] : p.slug = e.key
                            ELSE e.key \in db.rows[e.table]

SchemaInit ==
    /\ revision = 0
    /\ db = EmptyDb
    /\ seeder = [w \in Seeder |-> [phase |-> "idle", entry |-> 1]]
    /\ added = [w \in Seeder |-> {}]
    /\ visited = FALSE

-----------------------------------------------------------------------------
(* Operations.                                                             *)

Seeding(w) == seeder[w].phase \in {"select", "insert"}

\* A transaction keeps the locks on the tables that it has read or written ...
TouchedBy(w) ==
    LET last == IF seeder[w].phase = "insert" THEN seeder[w].entry
                ELSE seeder[w].entry - 1
    IN  IF Seeding(w) THEN {Entries[i].table : i \in 1..last} ELSE {}

\* ... and the stronger ones on those that it has written.
WrittenBy(w) == {e.table : e \in added[w]}

\* The tables that the foreign keys refer to which come or go with ops.
ReferredTo(ops, op) == UNION {Models[o.name].refs : o \in {o \in ops : o.op = op}}

\* What is altered or dropped is locked against readers too, and so is what a
\* dropped foreign key refers to ...
AccessExclusive(ops) == {o.name : o \in ops} \cup ReferredTo(ops, "drop_table")

\* ... but what a new one refers to only against writers.
ShareRowExclusive(ops) == ReferredTo(ops, "create_table")

\* A command waits for the seed to let go of the tables that it locks, and
\* takes effect at its commit. (visited is about the present events' table.)
Migrate(to) ==
    LET result == Execute(db, revision, to)
        ops == Operations(revision, to)
    IN  /\ to # revision
        /\ \A w \in Seeder : /\ TouchedBy(w) \cap AccessExclusive(ops) = {}
                              /\ WrittenBy(w) \cap ShareRowExclusive(ops) = {}
        /\ result.ok
        /\ revision' = to
        /\ db' = Forget(result)
        /\ visited' = (visited /\ to > 0)
        /\ UNCHANGED <<seeder, added>>

SeedStart(w) ==
    /\ ~Seeding(w)
    /\ seeder' = [seeder EXCEPT ![w] = [phase |-> "select", entry |-> 1]]
    /\ UNCHANGED <<revision, db, added, visited>>

\* A statement raises, or the operator interrupts: everything is rolled back.
SeedFails(w) ==
    /\ Seeding(w)
    /\ seeder' = [seeder EXCEPT ![w] = [phase |-> "failed", entry |-> 1]]
    /\ added' = [added EXCEPT ![w] = {}]
    /\ UNCHANGED <<revision, db, visited>>

Advance(w) == [seeder EXCEPT ![w] = [phase |-> "select", entry |-> @.entry + 1]]

\* The SELECT by which an existing row is left alone.
SeedSelect(w) ==
    LET e == Entries[seeder[w].entry] IN
    /\ seeder[w].phase = "select"
    /\ seeder[w].entry <= Len(Entries)
    /\ Works(e.table)
    /\ seeder' = IF Exists(e) THEN Advance(w)
                  ELSE [seeder EXCEPT ![w].phase = "insert"]
    /\ UNCHANGED <<revision, db, added, visited>>

\* The flush of the new row: the unique index makes it wait for another run
\* that has added the same key, and refuses it once that run has committed.
SeedInsert(w) ==
    LET e == Entries[seeder[w].entry] IN
    /\ seeder[w].phase = "insert"
    /\ \A v \in Seeder \ {w} : e \notin added[v]
    /\ Works(e.table)
    /\ ~Exists(e)
    /\ seeder' = Advance(w)
    /\ added' = [added EXCEPT ![w] = @ \cup {e}]
    /\ UNCHANGED <<revision, db, visited>>

WithRows(d, entries) ==
    [d EXCEPT !.rows = [t \in DOMAIN @ |->
        @[t] \cup {SeededRow(e) : e \in {e \in entries : e.table = t}}]]

\* Mutant: the content is committed although the last project is not added.
SeedCommitEarly(w) ==
    /\ seeder[w].phase = "select"
    /\ seeder[w].entry >= Len(Entries)
    /\ db' = WithRows(db, added[w])
    /\ seeder' = [seeder EXCEPT ![w] = [phase |-> "done", entry |-> 1]]
    /\ added' = [added EXCEPT ![w] = {}]
    /\ UNCHANGED <<revision, visited>>

SeedCommit(w) ==
    /\ seeder[w].phase = "select"
    /\ seeder[w].entry > Len(Entries)
    /\ db' = WithRows(db, added[w])
    /\ seeder' = [seeder EXCEPT ![w] = [phase |-> "done", entry |-> 1]]
    /\ added' = [added EXCEPT ![w] = {}]
    /\ UNCHANGED <<revision, visited>>

WithEvent(d, event) == [d EXCEPT !.rows["analytics_events"] = @ \cup {event}]

\* A visitor's event is recorded; and, by the seed of earlier times, a made-up
\* one, which has no ip_hash.
RecordVisit ==
    /\ Works("analytics_events")
    /\ db' = WithEvent(db, "visit")
    /\ visited' = TRUE
    /\ UNCHANGED <<revision, seeder, added>>

PlantDemo ==
    /\ revision \in 1..(Latest - 1)
    /\ db' = WithEvent(db, "demo")
    /\ UNCHANGED <<revision, seeder, added, visited>>

SchemaNext ==
    \/ \E to \in 0..Latest : Migrate(to)
    \/ \E w \in Seeder : SeedStart(w) \/ SeedSelect(w) \/ SeedInsert(w)
                           \/ SeedCommit(w) \/ SeedFails(w)
    \/ RecordVisit
    \/ PlantDemo

SchemaSpec == SchemaInit /\ [][SchemaNext]_schemaVars

-----------------------------------------------------------------------------
(* Properties.                                                             *)

\* The schema of a revision is the same however it was reached, nothing of
\* a downgraded revision is left behind, and every revision can be reached
\* from every other one whatever the tables hold.
SchemaIsItsRevision ==
    LET fresh == Execute(EmptyDb, 0, revision)
    IN  /\ db.tables = fresh.tables
        /\ db.types = fresh.types
        /\ \A to \in 0..Latest : Execute(db, revision, to).ok

\* At the latest revision the database is what the models of the application
\* expect (the indexes aside).
LatestMatchesModels ==
    revision = Latest => db.tables = Models /\ db.types = ModelLabels

\* The migrations delete no visit, as long as the table exists, and the latest
\* revision holds nothing but visits.
EventsAreReal ==
    /\ visited => "visit" \in db.rows["analytics_events"]
    /\ revision = Latest => "demo" \notin db.rows["analytics_events"]

\* A project has the status that the seed gives it, whichever way up and down
\* the revisions its row has come.
StatusAsSeeded ==
    "projects" \in DOMAIN db.tables /\ "status" \in db.tables["projects"].columns
        => \A p \in db.rows["projects"] : p.status = SeededStatus(p.slug)

\* A run of the seed that commits leaves nothing missing, although other runs
\* and migrations go on beside it; one that fails leaves nothing behind.
SeedIsComplete ==
    [][\A w \in Seeder :
          /\ seeder'[w].phase = "done" /\ seeder[w].phase # "done"
                => \A i \in DOMAIN Entries : Exists(Entries[i])'
          /\ seeder'[w].phase = "failed" /\ seeder[w].phase # "failed"
                => db' = db]_schemaVars

=============================================================================
