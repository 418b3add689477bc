------------------------------ MODULE NameTables ------------------------------
(* The name tables of a data bin and its headers (name_tab.c): constants and   *)
(* name equivalences are parsed from a format file or an .eqv file, tables are *)
(* merged, and values are asked for and put by their GeoVu names, whatever     *)
(* name, place and wording the user's own files give them.                     *)
(*                                                                            *)
(* A table and a header are alike: variables that lie one after another in a   *)
(* buffer.  Names and values are texts, sequences of cells; a text in a table  *)
(* ends with NUL.  Numbers are text here: their conversion is another matter.  *)
EXTENDS Integers, Sequences, FiniteSets, SequencesExt, FiniteSetsExt

CONSTANTS
    Sections,   \* name table sections, each a sequence of lines, a line its tokens
    Headers,    \* the headers there are at the beginning: <<direction, kind>> -> header
    Env,        \* the environment: name -> value
    Names, Values,
    MaxSteps,   \* how many sections and values are added
    Nil

VARIABLES
    tables,     \* dbin->table_list: direction -> table, or Nil
    headers,    \* <<direction, kind>> -> header, or Nil
    offset,     \* where the data begins that follows the headers in the same file, by direction
    stored,     \* what has been stored last: place -> name -> value
    last,       \* the last call of nt_put, or Nil
    steps

vars == <<tables, headers, offset, stored, last, steps>>

Nul == "0"
Dirs == {"in", "out"}
Kinds == {"rec", "file"}

-----------------------------------------------------------------------------
(* Tables and headers *)

\* nt_create
Empty == [vars |-> <<>>, buf |-> <<>>]

\* ff_find_variable: 0 if there is none
Find(t, name) ==
    LET at == {i \in DOMAIN t.vars : t.vars[i].name = name}
    IN  IF at = {} THEN 0 ELSE Min(at)
Length(v) == v.end - v.start + 1
Text(t, i) == SelectSeq(SubSeq(t.buf, t.vars[i].start, t.vars[i].end), LAMBDA c : c # Nul)
Has(t, name, flag) == t # Nil /\ Find(t, name) # 0 /\ flag \in t.vars[Find(t, name)].flags

\* update_format_var: what lies behind the variable moves
Resized(vs, i, diff) ==
    [k \in DOMAIN vs |->
        IF k = i THEN [vs[k] EXCEPT !.end = @ + diff]
        ELSE IF vs[k].start > vs[i].start THEN [vs[k] EXCEPT !.start = @ + diff, !.end = @ + diff]
        ELSE vs[k]]

\* nt_add_constant: bytes are the value, with its NUL in a table.  A variable that is there
\* already gets a new type, without what the old one said of equivalents and translators
AddConstant(t, name, flags, bytes) ==
    LET i == Find(t, name)
        v == t.vars[i]
        moved == Resized(t.vars, i, Len(bytes) - Length(v))
    IN  IF i = 0
        THEN [vars |-> Append(t.vars, [name |-> name, flags |-> flags, start |-> Len(t.buf) + 1,
                                       end |-> Len(t.buf) + Len(bytes), trans |-> <<>>]),
              buf |-> t.buf \o bytes]
        ELSE [vars |-> SubSeq(moved, 1, i - 1) \o <<[moved[i] EXCEPT !.flags = flags]>>
                       \o SubSeq(moved, i + 1, Len(moved)),
              buf |-> SubSeq(t.buf, 1, v.start - 1) \o bytes \o SubSeq(t.buf, v.end + 1, Len(t.buf))]

\* dll_last(variables)
FlagLast(t, flags) ==
    LET v == Last(t.vars) IN [t EXCEPT !.vars = Append(Front(@), [v EXCEPT !.flags = @ \cup flags])]

-----------------------------------------------------------------------------
(* nt_parse *)

Begin(what) == <<<<"begin">>, <<what>>>>
End(what) == <<<<"end">>, <<what>>>>
\* The state of the parser: in which table it is, the table so far, and whether the
\* next translator begins a list; a line it cannot make sense of is an error
Start == [in |-> "never", table |-> Empty, dir |-> "in", fresh |-> TRUE, error |-> FALSE]
Wrong(p) == [p EXCEPT !.error = TRUE]

OutsideTables(p, line) ==
    CASE line = Begin("equiv") -> [p EXCEPT !.in = "equiv"]
      [] line = Begin("constant") -> [p EXCEPT !.in = "constant"]
      [] line = <<<<"output_eqv">>>> -> [p EXCEPT !.dir = "out"]
      [] OTHER -> p
\* A user's name for a value; that translators follow is seen from the next line
Equivalent(p, line, next) ==
    LET t == AddConstant(p.table, line[1], {"equiv"}, line[2] \o <<Nul>>)
    IN  [p EXCEPT !.fresh = TRUE,
                  !.table = IF Len(next) = 4 THEN FlagLast(t, {"translator"}) ELSE t]
Translator(p, line) ==
    LET pair == [g |-> line[2], u |-> line[4]]
    IN  [p EXCEPT !.fresh = FALSE,
                  !.table.vars[Len(p.table.vars)].trans = IF p.fresh THEN <<pair>> ELSE Append(@, pair)]
InsideEquiv(p, line, next) ==
    CASE line = End("equiv") -> [p EXCEPT !.in = "outside"]
      [] line \in {End("constant"), Begin("equiv"), Begin("constant")} -> Wrong(p)
      [] Len(line) = 0 -> p
      [] Len(line) = 2 -> Equivalent(p, line, next)
      [] Len(line) = 4 /\ p.table.vars # <<>> -> Translator(p, line)
      [] OTHER -> Wrong(p)
InsideConstant(p, line) ==
    CASE line = End("constant") -> [p EXCEPT !.in = "outside"]
      [] line \in {End("equiv"), Begin("equiv"), Begin("constant")} -> Wrong(p)
      [] Len(line) = 0 -> p
      [] Len(line) = 3 ->
            [p EXCEPT !.table = AddConstant(@, line[1], {"constant"}, line[3] \o <<Nul>>)]
      [] OTHER -> Wrong(p)
Parsed(lines) ==
    LET step(p, i) ==
            LET next == IF i < Len(lines) THEN lines[i + 1] ELSE <<>> IN
            IF p.error THEN p
            ELSE IF p.in = "equiv" THEN InsideEquiv(p, lines[i], next)
            ELSE IF p.in = "constant" THEN InsideConstant(p, lines[i])
            ELSE OutsideTables(p, lines[i])
        end == FoldLeft(step, Start, [i \in DOMAIN lines |-> i])
    IN  [end EXCEPT !.error = @ \/ end.in # "outside"]

-----------------------------------------------------------------------------
(* nt_merge: one after another the variables are added, and the last one of the *)
(* table gets the flags and the translators                                    *)

CopyTranslators(t, v) ==
    LET n == Len(t.vars)
    IN  IF "translator" \in t.vars[n].flags /\ v.trans # <<>> THEN [t EXCEPT !.vars[n].trans = v.trans] ELSE t
Merged(update, t) ==
    LET add(s, i) ==
            LET v == update.vars[i] IN
            CopyTranslators(FlagLast(AddConstant(s, v.name, {}, Text(update, i) \o <<Nul>>), v.flags), v)
    IN  FoldLeft(add, t, [i \in DOMAIN update.vars |-> i])

\* nt_merge_name_table: into the table of its direction, or as that table
MergedIn(ts, dir, t) == [ts EXCEPT ![dir] = IF @ = Nil THEN t ELSE Merged(t, @)]

StoredFrom(s, t, place) ==
    LET names == {t.vars[i].name : i \in DOMAIN t.vars}
    IN  [s EXCEPT ![place] = [n \in DOMAIN @ \cup names |->
                                IF n \in names THEN Text(t, Find(t, n)) ELSE @[n]]]

AddSection ==
    /\ steps < MaxSteps
    /\ \E lines \in Sections :
         LET p == Parsed(lines) IN
         /\ tables' = IF p.error THEN tables ELSE MergedIn(tables, p.dir, p.table)
         /\ stored' = IF p.error THEN stored ELSE StoredFrom(stored, p.table, <<p.dir, "table">>)
    /\ last' = Nil /\ steps' = steps + 1
    /\ UNCHANGED <<headers, offset>>

-----------------------------------------------------------------------------
(* nt_ask *)

\* nt_find_user_name
UserName(t, name) == IF Has(t, name, "equiv") THEN Text(t, Find(t, name)) ELSE name

\* nt_get_geovu_value and nt_get_user_value: the first translator that fits, or the value as it is
FirstPair(t, name, Fits(_)) ==
    IF Has(t, name, "translator") THEN SelectSeq(t.vars[Find(t, name)].trans, Fits) ELSE <<>>
Geovu(t, name, value) ==
    LET pairs == FirstPair(t, name, LAMBDA p : p.u = value)
    IN  IF pairs = <<>> THEN value ELSE pairs[1].g
UserValue(t, name, value) ==
    LET pairs == FirstPair(t, name, LAMBDA p : p.g = value)
    IN  IF pairs = <<>> THEN value ELSE pairs[1].u

\* nt_askcore: from the record header, the file header, the table, the environment
Holds(place, name) ==
    LET t == IF place[2] = "table" THEN tables[place[1]] ELSE headers[place]
    IN  t # Nil /\ t.buf # <<>> /\ Find(t, name) # 0
Read(place, name) ==
    LET t == IF place[2] = "table" THEN tables[place[1]] ELSE headers[place]
    IN  Text(t, Find(t, name))
Searched == <<"rec", "file", "table">>
Ask(dir, scope, name) ==
    LET user == UserName(tables[dir], name)
        holding == SelectSeq(Searched, LAMBDA k : k \in scope /\ Holds(<<dir, k>>, user))
    IN  IF holding # <<>> THEN Geovu(tables[dir], name, Read(<<dir, holding[1]>>, user))
        ELSE IF user \in DOMAIN Env THEN Geovu(tables[dir], name, Env[user])
        ELSE <<"undefined">>

-----------------------------------------------------------------------------
(* nt_put *)

\* The name and the value are translated by the input's table, whatever the direction
PutName(name) == UserName(tables["in"], name)
PutValue(name, value) == IF Has(tables["in"], name, "equiv") THEN UserValue(tables["in"], name, value) ELSE value

\* Into a header: the variable takes the place of its value, and what follows moves
\* (adjust_for_new_header_size)
Moved_Never(dir, diff) == offset[dir]
Moved(dir, diff) == offset[dir] + diff
PutHeader(place, name, value) ==
    LET user == PutName(name)
        h == headers[place]
        new == AddConstant(h, user, {}, PutValue(name, value))
        there == Find(h, user) # 0
    IN  /\ headers' = IF there THEN [headers EXCEPT ![place] = new] ELSE headers
        /\ stored' = IF there THEN [stored EXCEPT ![place][user] = PutValue(name, value)] ELSE stored
        /\ offset' = IF there THEN [offset EXCEPT ![place[1]] = Moved(place[1], Len(new.buf) - Len(h.buf))]
                              ELSE offset
        /\ last' = IF there THEN [dir |-> place[1], scope |-> {place[2]}, name |-> name, value |-> value] ELSE Nil
        /\ UNCHANGED tables

\* Into a table; if the output has none a new one is made, which is the input's
PutTable(dir, name, value) ==
    LET user == PutName(name)
        bytes == PutValue(name, value) \o <<Nul>>
        target == IF tables[dir] = Nil THEN "in" ELSE dir
    IN  /\ tables' = IF tables[dir] # Nil
                     THEN [tables EXCEPT ![dir] = AddConstant(@, user, {}, bytes)]
                     ELSE MergedIn(tables, "in", AddConstant(Empty, user, {}, bytes))
        /\ stored' = [stored EXCEPT ![<<target, "table">>] = [n \in DOMAIN @ \cup {user} |->
                                        IF n = user THEN PutValue(name, value) ELSE @[n]]]
        /\ last' = [dir |-> dir, scope |-> {"table"}, name |-> name, value |-> value]
        /\ UNCHANGED <<headers, offset>>

Put ==
    /\ steps < MaxSteps
    /\ \E dir \in Dirs, scope \in {{"table"}, {"file"}, {"rec", "file"}}, name \in Names, value \in Values :
         LET kinds == SelectSeq(<<"rec", "file">>, LAMBDA k : k \in scope /\ headers[<<dir, k>>] # Nil)
         IN  IF kinds # <<>> THEN PutHeader(<<dir, kinds[1]>>, name, value) ELSE PutTable(dir, name, value)
    /\ steps' = steps + 1

HeaderBytes(place) == IF headers[place] = Nil THEN 0 ELSE Len(headers[place].buf)
Init ==
    /\ tables = [d \in Dirs |-> Nil]
    /\ headers \in Headers
    /\ offset = [d \in Dirs |-> HeaderBytes(<<d, "rec">>) + HeaderBytes(<<d, "file">>)]
    /\ stored = [p \in Dirs \X {"rec", "file", "table"} |->
                    IF p[2] = "table" \/ headers[p] = Nil THEN [n \in {} |-> <<>>]
                    ELSE [n \in {headers[p].vars[i].name : i \in DOMAIN headers[p].vars} |->
                              Text(headers[p], Find(headers[p], n))]]
    /\ last = Nil /\ steps = 0
Next == AddSection \/ Put
Spec == Init /\ [][Next]_vars

-----------------------------------------------------------------------------
(* Properties *)

\* The variables of a table or header lie one after another, and each holds what
\* has been stored under its name last, whatever has been stored elsewhere.
Intact(t, values) ==
    /\ {t.vars[i].name : i \in DOMAIN t.vars} = DOMAIN values
    /\ \A i \in DOMAIN t.vars : Text(t, i) = values[t.vars[i].name]
    /\ \A i \in 1 .. Len(t.buf) : Cardinality({k \in DOMAIN t.vars : t.vars[k].start <= i /\ i <= t.vars[k].end}) = 1
AllIntact ==
    /\ \A d \in Dirs : tables[d] # Nil => Intact(tables[d], stored[<<d, "table">>])
    /\ \A p \in DOMAIN headers : headers[p] # Nil => Intact(headers[p], stored[p])

\* The data of a file lies behind its headers, however long they have become.
Behind == \A d \in Dirs : offset[d] = HeaderBytes(<<d, "rec">>) + HeaderBytes(<<d, "file">>)

\* What nt_put has put nt_ask finds, under the same GeoVu name and in GeoVu's wording,
\* if the direction's table says of the name what the input's does, if that wording can
\* be undone, and if what is put in a table is put in a table that there is.
PutIsAsked ==
    last # Nil =>
        LET t == tables[last.dir]
            user == PutName(last.name)
        IN  /\ UserName(t, last.name) = user
            /\ Geovu(t, last.name, PutValue(last.name, last.value)) = last.value
            /\ last.scope = {"table"} => t # Nil
            => Ask(last.dir, last.scope, last.name) = last.value

NamesRight == AllIntact /\ Behind /\ PutIsAsked
=============================================================================
