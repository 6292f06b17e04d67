------------------------------ MODULE Accounts ------------------------------
(***************************************************************************)
(* The account tables as they are filled by the snapshot and queried       *)
(* through the API: the columns schema.rs promotes, the values writer.rs   *)
(* extracts for them, and the filters of api/filters.rs that queries.rs    *)
(* turns into a WHERE clause.  Queries are functions of the rows.          *)
(*                                                                         *)
(* The content of an account is [data, lamports], its bytes and balance.   *)
(* A name is a sequence of segments, an underscore beginning each but the  *)
(* first: <<"amount", "_in">> is amount_in.                                *)
(***************************************************************************)
EXTENDS Snapshot, Decoder

CONSTANTS
    MaxTypeResolutionDepth, \* MAX_TYPE_RESOLUTION_DEPTH
    Sanitize(_),            \* sanitize_identifier
    PgSize,                 \* bytes of SMALLINT, INTEGER and BIGINT
    FilterValue             \* the integers of the requests

NoPg == "none"

-----------------------------------------------------------------------------
(* Promoted columns.                                                       *)

PgScalar ==
    [bool |-> "BOOLEAN", u8 |-> "SMALLINT", i8 |-> "SMALLINT", i16 |-> "SMALLINT",
     u16 |-> "INTEGER", u32 |-> "INTEGER", i32 |-> "INTEGER", u64 |-> "BIGINT",
     i64 |-> "BIGINT", f32 |-> "REAL", f64 |-> "DOUBLE PRECISION", u128 |-> "NUMERIC",
     i128 |-> "NUMERIC", u256 |-> "NUMERIC", i256 |-> "NUMERIC", string |-> "TEXT",
     pubkey |-> "TEXT", bytes |-> "BYTEA"]

RECURSIVE MapIdlTypeToPg(_, _)

\* map_idl_type_to_pg_inner and resolve_defined_type, which costs two levels.
MapIdlTypeToPg(ty, depth) ==
    LET i == SelectInSeq(Idl.types, LAMBDA d : d.name = ty.name)
    IN  CASE depth > MaxTypeResolutionDepth -> NoPg
          [] ty.k \in DOMAIN PgScalar -> PgScalar[ty.k]
          [] ty.k = "option" -> MapIdlTypeToPg(ty.of, depth + 1)
          [] ty.k = "array" -> IF ty.of.k = "u8" THEN "BYTEA" ELSE NoPg
          [] ty.k = "defined" ->
                IF depth < MaxTypeResolutionDepth /\ i # 0 /\ Idl.types[i].form = "alias"
                THEN MapIdlTypeToPg(Idl.types[i].alias, depth + 2) ELSE NoPg
          [] OTHER -> NoPg

PgType(ty) == MapIdlTypeToPg(ty, 0)

\* get_account_fields: the named fields of the type named like the account.
GetAccountFields(type) ==
    LET i == SelectInSeq(Idl.types, LAMBDA d : d.name = type)
        def == Idl.types[i]
    IN  IF i # 0 /\ def.form = "struct" /\ def.fields.shape = "named" THEN Range(def.fields.of) ELSE {}

Column(name, pg) == [name |-> name, pg |-> pg]

\* The columns of every account table, of which a request may name four.
AccountFixedColumns ==
    {Column(<<"pubkey">>, "TEXT"), Column(<<"slot", "_updated">>, "BIGINT"),
     Column(<<"lamports">>, "BIGINT"), Column(<<"is", "_closed">>, "BOOLEAN")}

ReservedAccountColumns ==
    AccountFixedColumns \cup
    {Column(<<"write", "_version">>, "BIGINT"), Column(<<"data">>, "JSONB"),
     Column(<<"updated", "_at">>, "TIMESTAMPTZ")}

IsReserved(name) == \E c \in ReservedAccountColumns : c.name = name

AccountType == {e.name : e \in Range(Idl.accounts)}

\* generate_account_table: the columns of a type's table next to the reserved
\* ones; discover_promoted_columns reads them back.
PromotedColumns ==
    [type \in AccountType |->
        {Column(Sanitize(f.name), PgType(f.ty)) :
            f \in {f \in GetAccountFields(type) :
                    PgType(f.ty) # NoPg /\ ~IsReserved(Sanitize(f.name))}}]

\* The fields as the filters see them.
FieldColumns ==
    [type \in AccountType |->
        {Column(f.name, PgType(f.ty)) : f \in GetAccountFields(type)}]

\* data->>'name' of a row's value, an object: {} when there is no such key.
JsonField(value, name) == {p[2] : p \in {p \in Range(value[2]) : p[1] = name}}

Limit(pg) == Base ^ PgSize[pg] \div 2
Fits(n, pg) == -Limit(pg) <= n /\ n < Limit(pg)

\* The number a NUMERIC is read from: a decimal string, or hex digits, which
\* PostgreSQL accepts from version 16 on.  They are in the order of the bytes,
\* so the number is big-endian.
Numeric(v) == <<"num", IF v[1] = "hex" THEN LittleEndian(Reverse(v[2])) ELSE v[2]>>

\* build_promoted_extract_expr: {} when the cast fails, {v} otherwise; a
\* BIGINT that is too large becomes NULL, a BYTEA always is.
BuildPromotedExtract(value, column) ==
    LET json == JsonField(value, column.name)
        v == CHOOSE v \in json : TRUE
    IN  CASE json \subseteq {Null} \/ column.pg = "BYTEA" -> {Null}
          [] column.pg = "BIGINT" -> {IF Fits(v[2], "BIGINT") THEN v ELSE Null}
          [] column.pg \in {"INTEGER", "SMALLINT"} -> IF Fits(v[2], column.pg) THEN {v} ELSE {}
          [] column.pg = "NUMERIC" -> {Numeric(v)}
          [] OTHER -> {v}

\* The upsert of a value fails when one of its casts does.
Extractable(data) ==
    \A column \in PromotedColumns[data[1]] : BuildPromotedExtract(data[2], column) # {}

-----------------------------------------------------------------------------
(* Filters.  A request's parameter is [key, value] with a name as its key; *)
(* the value is a JSON scalar, or a set of them (the list of _in).         *)

FilterOp == {"_eq", "_ne", "_gt", "_gte", "_lt", "_lte", "_contains", "_in"}

\* extract_field_and_op; the variant knows no suffix after another one.
FieldAndOpAtFirst(key) ==
    LET i == SelectInSeq(key, LAMBDA s : s \in FilterOp)
    IN  IF i > 1 THEN [field |-> SubSeq(key, 1, i - 1), op |-> key[i]]
        ELSE [field |-> key, op |-> "_eq"]
ExtractFieldAndOp(key) ==
    IF Len(key) > 1 /\ Last(key) \in FilterOp THEN [field |-> Front(key), op |-> Last(key)]
    ELSE [field |-> key, op |-> "_eq"]

\* resolve_filters: a fixed column, a promoted one, or a key of the JSON.
ResolveFilter(type, filter) ==
    LET fixed == {c \in AccountFixedColumns : c.name = filter.field}
        fields == {c \in FieldColumns[type] : c.name = filter.field}
        columns == IF fixed # {} THEN fixed ELSE fields
        column == CHOOSE c \in columns : TRUE
    IN  IF columns = {} THEN Err("invalid_filter")
        ELSE IF column.pg # NoPg /\ filter.op = "_contains" THEN Err("invalid_filter")
        ELSE Ok(column, 0)

\* The value of a column in a row.  No statement sets is_closed or write_version.
\* The time of the write is nothing a request names.
ColumnValue(r, column) ==
    CASE column.name = <<"pubkey">> -> {<<"str", r.key>>}
      [] column.name = <<"slot", "_updated">> -> {<<"num", r.slot>>}
      [] column.name = <<"lamports">> -> {<<"num", r.content.lamports>>}
      [] column.name = <<"is", "_closed">> -> {<<"bool", FALSE>>}
      [] column.name = <<"write", "_version">> -> {<<"num", 0>>}
      [] column.name = <<"data">> -> {r.data[2]}
      [] column.name = <<"updated", "_at">> -> {<<"time", 0>>}
      [] OTHER -> UNION {BuildPromotedExtract(r.data[2], c) :
                            c \in {c \in PromotedColumns[r.data[1]] : c.name = column.name}}

Compare(op, a, b) ==
    CASE op = "_eq" -> a = b
      [] op = "_ne" -> a # b
      [] op = "_gt" -> a > b
      [] op = "_gte" -> a >= b
      [] op = "_lt" -> a < b
      [] op = "_lte" -> a <= b

\* append_filter_clause: does the row pass?  NULL passes no comparison.
\* Comparisons of JSON text other than equality are left out.
AppendFilterClause(r, column, op, value) ==
    CASE column.pg = NoPg /\ op \in {"_eq", "_contains"} -> value \in JsonField(r.data[2], column.name)
      [] column.pg = NoPg /\ op = "_in" -> JsonField(r.data[2], column.name) \cap value # {}
      [] OTHER -> \E v \in ColumnValue(r, column) :
                    v # Null /\ IF op = "_in" THEN v \in value ELSE Compare(op, v[2], value[2])

\* A comparison casts the value to the column's type.
ValueFits(column, op, value) ==
    op = "_in" \/ column.pg \notin DOMAIN PgSize \/ Fits(value[2], column.pg)

NumericPg == DOMAIN PgSize \cup {"NUMERIC", "REAL", "DOUBLE PRECISION"}

\* The statement is accepted: the table has a column of the name, reserved ones
\* included, and there is an operator for it and the type the value is cast to.
\* The list of _in is compared with the column's text.
HasColumn(type, column, op) ==
    \/ column.pg = NoPg
    \/ \E c \in ReservedAccountColumns \cup PromotedColumns[type] :
            /\ c.name = column.name
            /\ op = "_in" \/ c.pg = column.pg \/ {c.pg, column.pg} \subseteq NumericPg

\* query_accounts: the rows that match, before LIMIT and OFFSET.
QueryAccounts(type, key, value) ==
    LET filter == ExtractFieldAndOp(key)
    IN  Try(ResolveFilter(type, filter), LAMBDA resolved :
            IF ~HasColumn(type, resolved.val, filter.op) THEN Err("query_failed")
            ELSE IF ~ValueFits(resolved.val, filter.op, value) THEN Err("invalid_value")
            ELSE Ok({r \in rows : /\ r.data[1] = type
                                  /\ AppendFilterClause(r, resolved.val, filter.op, value)}, 0))

-----------------------------------------------------------------------------
(* Properties.                                                             *)

\* The integer fields of a type that are not named like a column of every table.
IntegerFields(type) == {c \in FieldColumns[type] : c.pg \in DOMAIN PgSize /\ ~IsReserved(c.name)}

\* The JSON of a row satisfies a comparison, as far as a BIGINT can hold its value.
Satisfies(r, name, op, n) ==
    \E v \in JsonField(r.data[2], name) :
        v # Null /\ Fits(v[2], "BIGINT") /\ Compare(IF op = "_in" THEN "_eq" ELSE op, v[2], n)

Refused(answer, err) == ~answer.ok /\ answer.err = err

\* The answer to a filter on a field is the right one.
AnswerAgrees(answer, r, field, op, n) ==
    CASE op = "_contains" -> Refused(answer, "invalid_filter")
      [] op # "_contains" /\ Sanitize(field.name) # field.name -> Refused(answer, "query_failed")
      [] op \notin {"_contains", "_in"} /\ ~Fits(n, field.pg) -> Refused(answer, "invalid_value")
      [] OTHER -> answer.ok /\ (r \in answer.val <=> Satisfies(r, field.name, op, n))

\* A filter on an integer field, with any operator or none, selects a row exactly
\* if the JSON of the row satisfies it: the operator is taken off the right name,
\* the promoted column holds the value, and only absent values and those beyond
\* i64::MAX are missed (extract_field_and_op, build_promoted_extract_expr,
\* append_filter_clause).  It is refused, and never answered wrongly, for
\* _contains, for a value the column's type cannot hold, and for a field whose
\* name is not that of its column (sanitize_identifier).  Without an operator a
\* field whose own name ends like one (amount_in) is taken for another field,
\* and refused if there is none.
FiltersAgreeWithData ==
    \A r \in rows : \A field \in IntegerFields(r.data[1]), n \in FilterValue :
        LET Query(key, value) == QueryAccounts(r.data[1], key, value)
            num == <<"num", n>>
        IN  /\ \A op \in FilterOp :
                AnswerAgrees(Query(Append(field.name, op), IF op = "_in" THEN {num} ELSE num),
                             r, field, op, n)
            /\ IF Last(field.name) \notin FilterOp
               THEN AnswerAgrees(Query(field.name, num), r, field, "_eq", n)
               ELSE (\A other \in FieldColumns[r.data[1]] : other.name # Front(field.name))
                        => Refused(Query(field.name, num), "invalid_filter")

=============================================================================
