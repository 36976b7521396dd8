------------------------- MODULE UpgradeStatements --------------------------
(***************************************************************************)
(* The statements of database_upgrade_1() to database_upgrade_35(), and    *)
(* what they do to the objects of the database on PostgreSQL: schemas,     *)
(* tables, columns, constraints and rows of the table catalog, each a pair *)
(* of a kind and a name.  The objects of the system and the configuration  *)
(* schema, which upgrade 18 renames, are called sys and config throughout. *)
(* Grants change no object; those that follow the CREATE TABLE of their    *)
(* table are left out.                                                     *)
(*                                                                         *)
(* In the lists of upgrades 1, 2, 6, 10 and 11, two tables stand for 89.   *)
(* The columns of a main table, but for id, data, row_id and tenant_id,    *)
(* are not modelled: an update replaces the table.                         *)
(***************************************************************************)
EXTENDS Naturals, Sequences, SequencesExt

Latest == 35

FirstTables == <<"circulation_cancellation_reasons", "user_users">>

\* make_default_schema()
DefaultTables ==
    FirstTables \o
    <<"course_copyrightstatuses", "course_courselistings", "course_courses",
      "course_coursetypes", "course_departments", "course_processingstatuses",
      "course_reserves", "course_roles", "course_terms", "email_email",
      "circulation_request_preference", "user_addresstypes",
      "user_departments", "user_proxiesfor", "configuration_entries", "finance_expense_classes", "notes", "srs_marc",
      "circulation_check_ins", "audit_circulation_logs", "srs_records",
      "inventory_holdings_sources", "perm_permissions", "perm_users", "srs_error",
      "patron_blocks_user_summary", "template_engine_template",
      "inventory_bound_with_part", "acquisition_method", "notes_link",
      "notes_note_link">>

\* The tables that every upgrade from the 13th on adds.
Added(v) ==
    CASE v = 13 -> <<"course_copyrightstatuses", "course_courselistings",
                     "course_courses", "course_coursetypes", "course_departments",
                     "course_processingstatuses", "course_reserves", "course_roles",
                     "course_terms">>
      [] v = 14 -> <<"email_email">>
      [] v = 20 -> <<"circulation_request_preference", "finance_ledger_fiscal_years",
                     "user_addresstypes", "user_departments", "user_proxiesfor">>
      [] v = 21 -> <<"configuration_entries">>
      [] v = 22 -> <<"finance_expense_classes", "notes">>
      [] v = 23 -> <<"srs_marc">>
      [] v = 24 -> <<"circulation_check_ins">>
      [] v = 25 -> <<"audit_circulation_logs">>
      [] v = 26 -> <<"srs_records">>
      [] v = 28 -> <<"inventory_holdings_sources">>
      [] v = 29 -> <<"perm_permissions", "perm_users", "srs_error">>
      [] v = 30 -> <<"patron_blocks_user_summary">>
      [] v = 31 -> <<"template_engine_template">>
      [] v = 32 -> <<"inventory_bound_with_part">>
      [] v = 33 -> <<"acquisition_method">>
      [] v = 35 -> <<"notes_link", "notes_note_link">>
      [] OTHER -> <<>>

\* What upgrade 20 adds although it is commented out in make_default_schema().  No
\* later upgrade visits the table.
Unlisted == {"finance_ledger_fiscal_years"}

-----------------------------------------------------------------------------
(* SQL statements                                                          *)

\* A statement is refused unless all of "needs" and none of "forbids" exists;
\* it has no effect if any of "unless" exists.  "rows" are tables that get a row
\* in the catalog, "alters" tables of which a column is changed or dropped.  The
\* code ignores the refusal of a "try".
Nothing == [needs |-> {}, forbids |-> {}, unless |-> {}, takes |-> {}, puts |-> {},
            rows |-> {}, alters |-> {}, try |-> FALSE]

Use(S) == [Nothing EXCEPT !.needs = S]
Create(x, parts) == [Nothing EXCEPT !.forbids = {x}, !.puts = {x} \cup parts]
CreateIfMissing(x, parts) == [Nothing EXCEPT !.unless = {x}, !.puts = {x} \cup parts]
AddPart(x, part) == [Nothing EXCEPT !.needs = {x}, !.forbids = {part}, !.puts = {part}]
Drop(x, parts) == [Nothing EXCEPT !.needs = {x}, !.takes = {x} \cup parts]
DropIfExists(x, parts) == [Nothing EXCEPT !.takes = {x} \cup parts]
Rename(x, y) == [Nothing EXCEPT !.needs = {x}, !.forbids = {y}, !.takes = {x}, !.puts = {y}]
InsertRow(t) == [Nothing EXCEPT !.rows = {t}]
DropColumn(x, t) == [Drop(x, {}) EXCEPT !.alters = {t}]
AlterColumn(x, t, parts) ==
    [Nothing EXCEPT !.needs = {x}, !.alters = {t}, !.puts = parts]
Try(statement) == [statement EXCEPT !.try = TRUE]

Skipped(objects, s) == s.unless \cap objects # {}

Refused(objects, s) ==
    /\ ~ Skipped(objects, s)
    /\ ~ s.needs \subseteq objects \/ s.forbids \cap objects # {}

\* The catalog has no primary key: a second row is a duplicate.
CatalogRows(objects, s) ==
    {<<"catalog", t>> : t \in s.rows} \cup
    {<<"duplicate catalog row", t>> : t \in {u \in s.rows : <<"catalog", u>> \in objects}}

Executed(objects, s) ==
    IF Refused(objects, s) \/ Skipped(objects, s)
    THEN objects
    ELSE (objects \ s.takes) \cup s.puts \cup CatalogRows(objects, s)

ExecutedAll(objects, statements) ==
    LET after[k \in 0..Len(statements)] ==
            IF k = 0 THEN objects
            ELSE UNION {Executed(S, statements[k]) : S \in {after[k - 1]}}
    IN  after[Len(statements)]

\* The statements that the code executes for each of the tables.
ForEach(statements(_), tables) ==
    FlattenSeq([k \in DOMAIN tables |-> statements(tables[k])])

-----------------------------------------------------------------------------
(* The objects                                                             *)

Schema(n) == <<"schema", n>>
Sys(n) == <<"sys", n>>
Config(n) == <<"config", n>>
Column(n) == <<"column", n>>
Main(t) == <<"main", t>>
MainPart(n, t) == <<"main " \o n, t>>
History(t) == <<"history", t>>
HistoryPart(n, t) == <<"history " \o n, t>>

HistoryParts(t) ==
    {HistoryPart(n, t) : n \in {"sk", "tenant_id", "uuid", "id_updated_key", "pkey",
                                "pkey (sk, updated)", "pkey (id, updated)"}}

\* create_main_table_sql() and create_history_table_sql()
CreateMain(t) == Create(Main(t), {MainPart("uuid", t)})
CreateHistory(t) ==
    CreateIfMissing(History(t),
        {HistoryPart(n, t) : n \in {"uuid", "pkey", "pkey (id, updated)"}})

\* upgrade_add_new_table_ldpsystem() and upgrade_add_new_table_dbsystem()
AddNewTable(t) ==
    <<CreateMain(t), CreateHistory(t), InsertRow(t)>>

\* What a database of version 0 holds, as far as the upgrades rely on it.
Version0 ==
    {Schema(n) : n \in {"ldpsystem", "ldpconfig", "history", "local"}} \cup
    {Sys(n) : n \in {"main", "log", "server_lock"}} \cup
    {Config("general")} \cup
    {Column(n) : n \in {"main.ldp_schema_version", "log.level",
                        "general.full_update_enabled", "general.next_full_update"}}

\* init_database_all()
Fresh ==
    {Schema(n) : n \in {"dbsystem", "dbconfig", "history", "local"}} \cup
    {Sys(n) : n \in {"main", "log", "tables", "suggested_foreign_keys",
                     "foreign_key_constraints"}} \cup
    {Config(n) : n \in {"general", "update_tables", "foreign_keys"}} \cup
    {Column("main." \o n) : n \in {"database_version", "anonymize"}} \cup
    {Column("log.level")} \cup
    {Column("tables." \o n) : n \in {"updated", "row_count", "history_row_count",
                                     "documentation", "documentation_url"}} \cup
    {Column("general." \o n) : n \in {"update_all_tables", "enable_full_updates",
        "next_full_update", "detect_foreign_keys", "enable_foreign_key_warnings",
        "force_foreign_key_constraints"}} \cup
    UNION {{<<"catalog", t>>, Main(t), MainPart("uuid", t), History(t)} \cup
           {HistoryPart(n, t) : n \in {"uuid", "pkey", "pkey (id, updated)"}} :
           t \in Range(DefaultTables)}

-----------------------------------------------------------------------------
(* The upgrades                                                            *)

IdmapKeys == {Sys("idmap_pkey"), Sys("idmap_id_key")}

UpgradeTable1(t) ==
    <<InsertRow(t),
      CreateIfMissing(Main(t), {MainPart("row_id", t), MainPart("tenant_id", t)}),
      DropIfExists(History(t), HistoryParts(t)),
      CreateIfMissing(History(t),
          {HistoryPart(n, t) : n \in {"sk", "tenant_id", "id_updated_key", "pkey"}}),
      DropColumn(MainPart("row_id", t), t)>>

Upgrade1 ==
    <<Create(Sys("tables"), {})>>
    \o ForEach(UpgradeTable1, FirstTables)
    \o <<Create(Sys("idmap"), IdmapKeys)>>

UpgradeTable2(t) ==
    <<Drop(HistoryPart("pkey", t), {HistoryPart("pkey (sk, updated)", t)}),
      Create(HistoryPart("pkey", t), {HistoryPart("pkey (sk, updated)", t)})>>

Upgrade2 == ForEach(UpgradeTable2, FirstTables)

Upgrade3 ==
    <<AddPart(Config("general"), Column("general.log_referential_analysis")),
      AddPart(Config("general"), Column("general.force_referential_constraints"))>>

Upgrade4 ==
    <<Drop(Column("log.level"), {}),
      AddPart(Sys("log"), Column("log.level")),
      AddPart(Sys("idmap"), Column("idmap.table_name")),
      Create(Sys("referential_constraints"), {})>>

Upgrade5 ==
    <<Drop(Sys("idmap_pkey"), {}),
      Drop(Sys("idmap_id_key"), {}),
      Rename(Sys("idmap"), Sys("idmap_old")),
      Create(Sys("idmap"), IdmapKeys),
      Use({Sys("idmap"), Sys("idmap_old")}),
      Drop(Sys("idmap_old"), {Column("idmap.table_name")})>>

Upgrade6 ==
    <<Use({Sys(n) : n \in {"idmap", "log", "main", "referential_constraints", "tables"}}),
      Use({Config("general")}),
      Use({History(FirstTables[k]) : k \in DOMAIN FirstTables})>>

Upgrade7 ==
    [k \in 1..5 |-> AddPart(Sys("tables"), Column("tables." \o
        <<"updated", "row_count", "history_row_count", "documentation",
          "documentation_url">>[k]))]
    \o <<AddPart(Config("general"), Column("general.disable_anonymization"))>>

Upgrade8 == <<>>

Upgrade9 ==
    <<Drop(Sys("referential_constraints"), {}),
      Create(Sys("foreign_key_constraints"), {}),
      Rename(Column("general.full_update_enabled"), Column("general.enable_full_updates")),
      Rename(Column("general.log_referential_analysis"),
             Column("general.detect_foreign_keys")),
      Drop(Column("general.force_referential_constraints"), {}),
      AddPart(Config("general"), Column("general.force_foreign_key_constraints")),
      AddPart(Config("general"), Column("general.enable_foreign_key_warnings")),
      Create(Config("foreign_keys"), {})>>

DropUniqueKey(t) == <<Drop(HistoryPart("id_updated_key", t), {})>>
ShortenId(t) == <<AlterColumn(History(t), t, {})>>
AddUniqueKey(t) == <<AddPart(History(t), HistoryPart("id_updated_key", t))>>

Upgrade10 ==
    ForEach(DropUniqueKey, FirstTables)
    \o ForEach(ShortenId, FirstTables)
    \o ForEach(AddUniqueKey, FirstTables)

\* DROP COLUMN sk CASCADE drops the primary key as well.
UpgradeTable11(t) ==
    <<Drop(HistoryPart("sk", t),
           {HistoryPart("pkey", t), HistoryPart("pkey (sk, updated)", t)}),
      Drop(HistoryPart("id_updated_key", t), {}),
      Create(HistoryPart("pkey", t), {HistoryPart("pkey (id, updated)", t)})>>

Upgrade11 == <<Drop(Sys("idmap"), IdmapKeys)>> \o ForEach(UpgradeTable11, FirstTables)

Upgrade12 ==
    <<AddPart(Config("general"), Column("general.update_all_tables")),
      Use({Column("general.update_all_tables")}),
      Create(Config("update_tables"), {})>>

Upgrade15 ==
    <<Use({Column("general.disable_anonymization")}),
      Use({Column("general.update_all_tables")})>>

Upgrade16 ==
    <<Drop(Column("general.update_all_tables"), {}),
      AddPart(Config("general"), Column("general.update_all_tables"))>>

Upgrade17 == <<Create(Sys("suggested_foreign_keys"), {})>>

Upgrade18 ==
    <<Rename(Schema("ldpsystem"), Schema("dbsystem")),
      Drop(Sys("server_lock"), {}),
      Rename(Column("main.ldp_schema_version"), Column("main.database_version")),
      Rename(Schema("ldpconfig"), Schema("dbconfig"))>>

Upgrade19 ==
    <<Drop(Column("general.disable_anonymization"), {}),
      AddPart(Sys("main"), Column("main.anonymize"))>>

DropTenant(t) ==
    <<Try(DropColumn(MainPart("tenant_id", t), t)),
      Try(DropColumn(HistoryPart("tenant_id", t), t))>>

Upgrade27 == ForEach(DropTenant, DefaultTables)

\* ALTER TABLE ... ALTER COLUMN id TYPE uuid
ConvertToUuid(t) ==
    <<Try(AlterColumn(Main(t), t, {MainPart("uuid", t)})),
      Try(AlterColumn(History(t), t, {HistoryPart("uuid", t)}))>>

Upgrade34 == ForEach(ConvertToUuid, DefaultTables)

AddNewTables(v) == ForEach(AddNewTable, Added(v))

\* The last statement of every upgrade.
RecordVersion(v) ==
    IF v < 18
    THEN Use({Schema("ldpsystem"), Column("main.ldp_schema_version")})
    ELSE Use({Schema("dbsystem"), Column("main.database_version")})

\* The array database_upgrades.
Upgrade(v) ==
    Append(CASE v = 1 -> Upgrade1
             [] v = 2 -> Upgrade2
             [] v = 3 -> Upgrade3
             [] v = 4 -> Upgrade4
             [] v = 5 -> Upgrade5
             [] v = 6 -> Upgrade6
             [] v = 7 -> Upgrade7
             [] v = 8 -> Upgrade8
             [] v = 9 -> Upgrade9
             [] v = 10 -> Upgrade10
             [] v = 11 -> Upgrade11
             [] v = 12 -> Upgrade12
             [] v = 15 -> Upgrade15
             [] v = 16 -> Upgrade16
             [] v = 17 -> Upgrade17
             [] v = 18 -> Upgrade18
             [] v = 19 -> Upgrade19
             [] v = 27 -> Upgrade27
             [] v = 34 -> Upgrade34
             [] OTHER -> AddNewTables(v),
           RecordVersion(v))

Statements == [v \in 1..Latest |-> Upgrade(v)]

\* The upgrades between BEGIN and COMMIT.
Transactional == (16..26) \cup (28..33) \cup {35}

=============================================================================
