------------------------- MODULE MCDatabaseUpgrade --------------------------
(***************************************************************************)
(* Instances of DatabaseUpgrade for TLC.                                   *)
(***************************************************************************)
EXTENDS RepeatedUpgrades

AnyVersion == (0..Latest) \cup {NoVersion}
RecentVersions == 14..Latest

NoTables == {}
OneTable == {"user_users"}

=============================================================================
