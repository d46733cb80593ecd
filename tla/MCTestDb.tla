------------------------------- MODULE MCTestDb -------------------------------
(***************************************************************************)
(* Two packages of one application; a third binary whose prefix is shorter *)
(* and whose name has what is missing of it, capitals and a hyphen, so     *)
(* that its schema is the first's; and one with capitals in its prefix.    *)
(***************************************************************************)
EXTENDS TestDbFixture

CONSTANTS auth, Auth, web, Web   \* the binaries

Binaries == {auth, Auth, web, Web}
OneBinary == {auth}
Prefixes == [b \in Binary |-> CASE b = Auth -> <<"c">> [] b = Web -> <<"C">>
                                [] OTHER -> <<"c", "_", "t">>]
Names == [b \in Binary |-> CASE b = auth -> <<"a">> [] b = Auth -> <<"T", "-", "A">>
                             [] OTHER -> <<"w">>]
LowerCase == [c \in {"a", "A", "c", "C", "t", "T", "w"} |->
                CASE c = "A" -> "a" [] c = "C" -> "c" [] c = "T" -> "t" [] OTHER -> c]

(* The lock derived from the schema's name, as SchemaName's comment asks.  *)
DerivedLock == [b \in Binary |-> SchemaName(b)]

PublicSchema == <<"p", "u", "b", "l", "i", "c">>

Pools == {"c1", "c2"}

(* Posts and settings belong to users; plans and settings are kept.        *)
Tables == {"users", "posts", "plans", "settings"}
ForeignKeys == {<<"posts", "users">>, <<"settings", "users">>}
Kept == {"plans", "settings"}
Versions == {1, 2}
Migrations == [v \in Versions |-> IF v = 1 THEN {"users", "plans"} ELSE {"posts", "settings"}]

(* The build of Auth.test is older: it lacks the second migration.         *)
Builds == [b \in Binary |-> IF b = Auth THEN {1} ELSE Versions]

Fixtures == <<"users", "posts">>
ServiceTables == {"plans", "posts"}
SettingsToo == {"settings"}
=============================================================================
