-------------------------- MODULE StatementRouting --------------------------
(***************************************************************************)
(* Whether a statement is answered here or by the host, and the passes     *)
(* that say which object its names mean.                                   *)
(*                                                                         *)
(* A statement names one thing in FROM: s is the schema it is written with *)
(* ("" when bare), n the name, call whether it has arguments, place where  *)
(* it stands, alias and cols whether it has an alias and a column list,    *)
(* cte whether a CTE of that name is in scope.  Its projection may call a  *)
(* function (func), cast to an object-identifier type (cast) or spell a    *)
(* session identity (spell).  path is the session's search_path, and valid *)
(* says whether the text parses at all.                                    *)
(***************************************************************************)
EXTENDS Naturals, Sequences, FiniteSets, SequencesExt

CONSTANTS Tables,           \* <<schema, name>> registered in the default catalog
          TableFunctions,   \* names registered as table functions, all bare
          ScalarFunctions   \* <<schema, name>> registered as functions

default_schema == "public"
CatalogSchemas == {"pg_catalog", "information_schema"}

Spelling(n, q, paren, quoted) == [n |-> n, q |-> q, paren |-> paren, quoted |-> quoted]
NoSpelling == Spelling("", FALSE, FALSE, FALSE)

---------------------------------------------------------------------------
(* normalize_session_identity_spellings                                    *)

PARENTHESIS_LESS_TO_SQLPARSER == {"current_user", "session_user"}

\* Mutant: the catalog's row is a copy of the schema's.
SPELLINGS_copied_row ==
    [current_role |-> [n |-> "current_role", paren |-> TRUE],
     current_schema |-> [n |-> "current_schema", paren |-> TRUE],
     user |-> [n |-> "current_user", paren |-> FALSE],
     current_catalog |-> [n |-> "current_schema", paren |-> TRUE]]

SPELLINGS ==   \* what a keyword is written as, and whether with parentheses
    [current_role |-> [n |-> "current_role", paren |-> TRUE],
     current_schema |-> [n |-> "current_schema", paren |-> TRUE],
     user |-> [n |-> "current_user", paren |-> FALSE],
     current_catalog |-> [n |-> "current_database", paren |-> TRUE]]

drop_parentheses_after_a_parenthesis_less_keyword(w) ==
    IF w.paren /\ ~w.quoted /\ w.n \in PARENTHESIS_LESS_TO_SQLPARSER
    THEN [w EXCEPT !.paren = FALSE] ELSE w

spelling_written_as(w) == ~w.quoted /\ ~w.q /\ ~w.paren /\ w.n \in DOMAIN SPELLINGS

rewrite_keywords_to_registered_calls(w) ==
    IF spelling_written_as(w)
    THEN [w EXCEPT !.n = SPELLINGS[w.n].n, !.paren = SPELLINGS[w.n].paren,
                   !.quoted = FALSE] ELSE w

Parses(w) == ~(w.paren /\ ~w.quoted /\ w.n \in PARENTHESIS_LESS_TO_SQLPARSER)

normalize_session_identity_spellings(st) ==
    [st EXCEPT !.spell = rewrite_keywords_to_registered_calls(
                           drop_parentheses_after_a_parenthesis_less_keyword(@))]

(* A keyword left as an identifier is a column; one read as a call is the   *)
(* function of that name.                                                  *)
IsCall(w) == w.n # "" /\ ~w.quoted /\ (w.paren \/ w.n \in PARENTHESIS_LESS_TO_SQLPARSER)

---------------------------------------------------------------------------
(* The routing decision.                                                   *)

\* Mutant: pg_catalog is searched only where the path lists it.
parse_listed_path(path) == path

parse_search_path(path) ==
    IF "pg_catalog" \in ToSet(path) THEN path ELSE <<"pg_catalog">> \o path

table_exists(s, n) == <<s, n>> \in Tables

(* A written schema is taken at its word; a bare name is the first of the  *)
(* search path that has it.                                               *)
resolve_schema(st) ==
    LET path == parse_search_path(st.path)
        Schema(i) == IF path[i] = "$user" THEN default_schema ELSE path[i]
        found == {i \in DOMAIN path : table_exists(Schema(i), st.n)}
    IN  CASE st.s # "" -> IF table_exists(st.s, st.n) THEN st.s ELSE ""
          [] st.s = "" /\ found # {} -> Schema(Min(found))
          [] OTHER -> ""

schema_is_catalog(s) == s \in CatalogSchemas
object_is_catalog(st) == schema_is_catalog(resolve_schema(st))

(* FROM clauses of the body, of derived tables, set operations and CTEs;   *)
(* sub-queries inside expressions are not looked into.                     *)
InFrom == {"from", "join", "derived", "union", "cte"}
query_has_catalog(st) == st.place \in InFrom /\ object_is_catalog(st)

function_is_catalog(s, n) ==
    IF s # "" THEN schema_is_catalog(s) /\ <<s, n>> \in ScalarFunctions
    ELSE \E c \in CatalogSchemas : <<c, n>> \in ScalarFunctions

(* Bare regclass is a keyword of the parser, not a custom type.            *)
statement_casts_to_an_object_identifier_type(st) == st.cast = "custom"

statement_has_catalog(st) ==
    \/ query_has_catalog(st)
    \/ statement_casts_to_an_object_identifier_type(st)
    \/ st.func # "" /\ function_is_catalog("", st.func)
    \/ IsCall(st.spell) /\ function_is_catalog(IF st.spell.q THEN "pg_catalog" ELSE "", st.spell.n)

qualify_catalog_tables(st) ==
    IF st.place \in InFrom /\ st.s = "" /\ object_is_catalog(st)
    THEN [st EXCEPT !.s = resolve_schema(st)] ELSE st

(* The host gets what the client wrote; the catalog gets the normalised    *)
(* statement with its tables qualified.                                    *)
dispatch_query(st) ==
    LET routable == normalize_session_identity_spellings(st)
    IN  CASE ~st.valid \/ ~Parses(routable.spell) -> [st EXCEPT !.route = "error"]
          [] st.valid /\ Parses(routable.spell) /\ statement_has_catalog(routable)
               -> [qualify_catalog_tables(routable) EXCEPT !.route = "catalog"]
          [] OTHER -> [st EXCEPT !.route = "host"]

---------------------------------------------------------------------------
(* The passes over FROM items.                                             *)

UnprefixedNames == {"pg_get_keywords", "pg_postmaster_start_time", "generate_series", "unnest"}

(* Any call in the FROM of the body, of its derived tables and of a scalar *)
(* sub-query loses its prefix; the known names lose it everywhere.         *)
strip_table_function_factors(st) ==
    IF st.call /\ st.s = "pg_catalog" /\ st.place \in {"from", "join", "derived", "subquery"}
    THEN [st EXCEPT !.s = ""] ELSE st

rewrite_schema_qualified_udtfs(st) ==
    strip_table_function_factors(
        IF st.s = "pg_catalog" /\ st.n \in UnprefixedNames THEN [st EXCEPT !.s = ""] ELSE st)

SINGLE_COLUMN_SET_RETURNING_FUNCTIONS == {"unnest", "generate_series"}

name_set_returning_function_column_after_its_alias(st) ==
    IF /\ st.call /\ st.alias /\ ~st.cols
       /\ st.n \in SINGLE_COLUMN_SET_RETURNING_FUNCTIONS
       /\ st.place \in {"from", "join", "subquery", "exists"}
    THEN [st EXCEPT !.cols = TRUE] ELSE st

rewrite_available_extension_versions_source(st) ==
    IF /\ st.call /\ st.n = "pg_available_extension_versions"
       /\ st.s \in {"", "pg_catalog"}
    THEN [st EXCEPT !.s = "", !.n = "available_extension_versions"] ELSE st

\* Mutant: calls are qualified like tables.
alias_subquery_calls(st) ==
    IF st.place \notin {"subquery", "exists", "in"} THEN st
    ELSE [st EXCEPT !.s = IF @ = "" THEN "pg_catalog" ELSE @, !.alias = TRUE]

alias_subquery_tables(st) ==
    IF st.place \notin {"subquery", "exists", "in"} THEN st
    ELSE [st EXCEPT !.s = IF @ = "" /\ ~st.call THEN "pg_catalog" ELSE @,
                    !.alias = TRUE]

---------------------------------------------------------------------------
(* The object a name denotes.                                              *)

Object(k, s, n) == [k |-> k, s |-> s, n |-> n]
Nothing == Object("nothing", "", "")

(* To the planner a bare table is one of the default schema, and a         *)
(* qualified table function does not exist.                                *)
PlannedObject(st) ==
    CASE st.call /\ st.s = "" /\ st.n \in TableFunctions
           -> Object("function", "pg_catalog", IF st.n = "available_extension_versions"
                                     THEN "pg_available_extension_versions" ELSE st.n)
      [] ~st.call /\ table_exists(IF st.s = "" THEN default_schema ELSE st.s, st.n)
           -> Object("table", IF st.s = "" THEN default_schema ELSE st.s, st.n)
      [] OTHER -> Nothing

(* To PostgreSQL it is the first of the search path, pg_catalog before all *)
(* of it unless it is listed; its functions are all in pg_catalog.         *)
PostgresFunctions ==   \* the set-returning ones
    (UnprefixedNames \ {"pg_postmaster_start_time"})
      \cup {"pg_available_extensions", "pg_available_extension_versions"}

PostgresObject(st) ==
    LET implicit == IF "pg_catalog" \in ToSet(st.path) THEN {} ELSE {"pg_catalog"}
        At(i) == IF st.path[i] = "$user" THEN default_schema ELSE st.path[i]
        hits == {i \in DOMAIN st.path : table_exists(At(i), st.n)}
    IN  CASE st.call -> IF st.s \in {"", "pg_catalog"} /\ st.n \in PostgresFunctions
                        THEN Object("function", "pg_catalog", st.n) ELSE Nothing
          [] ~st.call /\ st.s # "" -> IF table_exists(st.s, st.n) THEN Object("table", st.s, st.n) ELSE Nothing
          [] ~st.call /\ st.s = "" /\ (\E s \in implicit : table_exists(s, st.n))
               -> Object("table", "pg_catalog", st.n)
          [] ~st.call /\ st.s = "" /\ ~(\E s \in implicit : table_exists(s, st.n)) /\ hits # {}
               -> Object("table", At(Min(hits)), st.n)
          [] OTHER -> Nothing

(* The value a session identity has, by the spellings PostgreSQL accepts.  *)
IdentityValue ==
    [current_user |-> "role", session_user |-> "role", current_role |-> "role",
     user |-> "role", current_catalog |-> "database", current_database |-> "database",
     current_schema |-> "schema"]

PostgresIdentity(w) ==
    CASE w.n = "" -> "none"
      [] w.n # "" /\ w.quoted -> "column"
      [] w.n # "" /\ ~w.quoted /\ w.q -> IF w.paren /\ w.n \in {"current_user", "session_user", "current_schema", "current_database"}
                             THEN IdentityValue[w.n] ELSE "error"
      [] w.n # "" /\ ~w.quoted /\ ~w.q /\ w.paren -> IF w.n \in {"current_schema", "current_database"}
                                         THEN IdentityValue[w.n] ELSE "error"
      [] OTHER -> IF w.n = "current_database" THEN "error" ELSE IdentityValue[w.n]

AnsweredIdentity(w) ==
    CASE w.quoted -> "column"
      [] ~w.quoted /\ IsCall(w) /\ Parses(w) /\ <<"pg_catalog", w.n>> \in ScalarFunctions
           -> IdentityValue[w.n]
      [] OTHER -> "error"

(* What a client can send: a spelling is one of a session identity.        *)
IsSpelling(w) ==
    /\ w = Spelling(w.n, w.q, w.paren, w.quoted)
    /\ w.n \in DOMAIN IdentityValue \cup {""}
    /\ {w.q, w.paren, w.quoted} \subseteq BOOLEAN

IsNaming(st) ==
    /\ st = [s |-> st.s, n |-> st.n, call |-> st.call, place |-> st.place, alias |-> st.alias,
             cols |-> st.cols, cte |-> st.cte, func |-> st.func, cast |-> st.cast,
             spell |-> st.spell, path |-> st.path, valid |-> st.valid, route |-> st.route]
    /\ {st.call, st.alias, st.cols, st.cte, st.valid} \subseteq BOOLEAN
    /\ st.place \in InFrom \cup {"subquery", "exists", "in"}
    /\ IsSpelling(st.spell)
    /\ st.path \in Seq(STRING)

---------------------------------------------------------------------------
(* The passes that look at names, in the order they run: those            *)
(* rewrite_and_execute_sql runs before rewrite_filters, and rewrite_filters. *)

names_before_filters(st) == normalize_session_identity_spellings(st)

names_in_filters(st) ==
    alias_subquery_tables(
      rewrite_available_extension_versions_source(
        name_set_returning_function_column_after_its_alias(
          rewrite_schema_qualified_udtfs(
            normalize_session_identity_spellings(st)))))
=============================================================================
