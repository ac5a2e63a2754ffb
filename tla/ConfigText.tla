----------------------------- MODULE ConfigText -----------------------------
(***************************************************************************)
(* The configuration as text.  TOML reads it as a whole; `config set` and  *)
(* `config patch` edit it line by line without parsing it                  *)
(* (cmd/inferctl/config_write.go).                                         *)
(***************************************************************************)
EXTENDS Integers, FiniteSets, Sequences, SequencesExt

CONSTANTS
    String,     \* the strings there may be, without quotation marks and `#`
    Expansion   \* of << value, line, whether the line ends in a newline >>, where the value's
                \* text holds a `$`: the value that a regexp template makes of it on the line

\* A key is a path of names.  A value is << type, datum >>; the type "null" is what
\* --type null writes, which TOML does not know, and any other text that is no value.
Types == {"string", "int", "bool", "array", "null"}

Path == Seq(String)

Value ==
    ({"string"} \X String) \cup ({"int"} \X Int) \cup ({"bool"} \X BOOLEAN)
    \cup ({"array"} \X Seq(String)) \cup ({"null"} \X {""})

Junk == << "null", "" >>

\* A template that has the newline of its line in it makes two lines, here << >>.
ASSUME ExpansionAssumption ==
    \A e \in DOMAIN Expansion :
        /\ e[1] \in Value /\ e[1][1] \in {"string", "array"}
        /\ \/ Expansion[e] = Junk
           \/ Expansion[e] \in Value /\ Expansion[e][1] = e[1][1]
           \/ Expansion[e] = << >> /\ e[3]

ASSUME WordAssumption == {"meta", "quoted"} \subseteq String

\* A line opens a table, assigns to a key or is blank, and may end in a comment; a
\* text is its lines and whether the last of them ends in a newline.
Line(kind, path, value) == [kind |-> kind, path |-> path, value |-> value, comment |-> FALSE]
Header(table)      == Line("header", table, << >>)
Assign(key, value) == Line("key", << key >>, value)
Blank              == Line("blank", << >>, << >>)
Garbage            == Line("garbage", << >>, << >>)
Commented(line)    == [line EXCEPT !.comment = TRUE]

Text(lines) == [lines |-> lines, closed |-> TRUE]
Open(lines) == [lines |-> lines, closed |-> FALSE]

LineSet ==
    { l \in [kind : {"header", "key", "blank", "garbage"}, path : Path,
             value : Value \cup {<< >>}, comment : BOOLEAN] :
        /\ l.kind \in {"header", "key"} => l.path # << >>
        /\ l.kind = "key" => l.value \in Value }

\* A text that does not end in a newline has a last line.
IsText(t) ==
    /\ t \in [lines : Seq(LineSet), closed : BOOLEAN]
    /\ ~t.closed => t.lines # << >>

Kind(lines, kind) == { i \in DOMAIN lines : lines[i].kind = kind }

FirstOfLines(S) == IF S = {} THEN 0 ELSE Min(S)

-----------------------------------------------------------------------------
(* What TOML reads (toml.Unmarshal, without the types of the schema). *)

\* The table a line is in: that of the last header above it.
TableAt(lines, i) ==
    LET above == { h \in Kind(lines, "header") : h <= i }
    IN  IF above = {} THEN << >> ELSE lines[Max(above)].path

PathAt(lines, i) == TableAt(lines, i) \o lines[i].path

Parents(path) == { SubSeq(path, 1, n) : n \in 1 .. Len(path) - 1 }

\* Tables that a dotted key makes in the table it is in.
Dotted(lines) ==
    UNION { { TableAt(lines, i) \o p : p \in Parents(lines[i].path) } : i \in Kind(lines, "key") }

Tables(lines) == { lines[i].path : i \in Kind(lines, "header") }

Keys(lines) == { PathAt(lines, i) : i \in Kind(lines, "key") }

\* No table and no key is defined twice, a dotted key's table has no header, and
\* nothing is in a table that is a value.
WellFormed(lines) ==
    LET keys == Keys(lines) IN
    /\ Kind(lines, "garbage") = {}
    /\ \A i \in Kind(lines, "key") : lines[i].value[1] # "null"
    /\ Cardinality(Tables(lines)) = Cardinality(Kind(lines, "header"))
    /\ Cardinality(keys) = Cardinality(Kind(lines, "key"))
    /\ Tables(lines) \cap (Dotted(lines) \cup keys) = {}
    /\ \A p \in Tables(lines) \cup keys : Parents(p) \cap keys = {}

\* The values of a well-formed text.
Values(lines) ==
    LET path == [i \in Kind(lines, "key") |-> PathAt(lines, i)]
    IN  [p \in Keys(lines) |-> lines[CHOOSE i \in DOMAIN path : path[i] = p].value]

-----------------------------------------------------------------------------
(* One edit. *)

\* splitConfigEditKey: a key without a dot is put into the table "meta".
TableOf(path) == IF Len(path) < 2 THEN << "meta" >> ELSE Front(path)

\* tableRange: from below the first header that names the table to the next header or
\* past the end; 0 .. 0 without one.  A header spelled otherwise is not found.
RangeToEnd(lines, table) ==
    LET start == FirstOfLines({ i \in Kind(lines, "header") : lines[i].path = table })
    IN  IF start = 0 THEN << 0, 0 >> ELSE << start + 1, Len(lines) + 1 >>

tableRange(lines, table) ==
    LET start == FirstOfLines({ i \in Kind(lines, "header") : lines[i].path = table })
        next  == { i \in Kind(lines, "header") : i > start }
    IN  IF start = 0 THEN << 0, 0 >>
        ELSE << start + 1, IF next = {} THEN Len(lines) + 1 ELSE Min(next) >>

\* The value that comes of a value on a line, and the line: keyRE.ReplaceAllString.
Expand(value, line, ended) ==
    LET e == << value, line, ended >> IN IF e \in DOMAIN Expansion THEN Expansion[e] ELSE value

Replaced(line, value, ended) ==
    IF Expand(value, line, ended) = << >> THEN Garbage
    ELSE [line EXCEPT !.value = Expand(value, line, ended)]

\* What a line becomes that does not end in a newline and has another appended.  That
\* of a key is still one of the key, for keyRE, with a value that is none.
Glued(line, insert) ==
    IF line.comment THEN line
    ELSE IF line.kind = "blank" THEN insert
    ELSE IF line.kind = "key" THEN [line EXCEPT !.value = Junk]
    ELSE Garbage

\* applyConfigEdit.  A key that is there keeps its comment, and its new value goes
\* through a regexp template; another is inserted at the end of its table; a table
\* that is not there is appended.
applyConfigEdit(text, edit) ==
    LET lines  == text.lines
        insert == Assign(Last(edit.path), edit.value)
        range  == tableRange(lines, TableOf(edit.path))
        there  == FirstOfLines({ i \in Kind(lines, "key") :
                                   /\ range[1] <= i /\ i < range[2]
                                   /\ lines[i].path = insert.path })
    IN  IF range[1] = 0
        THEN Text(lines \o << Blank, Header(TableOf(edit.path)), insert >>)
        ELSE IF there # 0
        THEN [text EXCEPT !.lines[there] =
                              Replaced(@, edit.value, there < Len(lines) \/ text.closed)]
        ELSE IF range[2] = Len(lines) + 1 /\ ~text.closed
        THEN Text(Front(lines) \o << Glued(Last(lines), insert) >>)
        ELSE [text EXCEPT !.lines = InsertAt(@, range[2], insert)]

\* runConfigMutation's loop.
ApplyEdits(text, edits) ==
    LET after[n \in 0 .. Len(edits)] ==
            IF n = 0 THEN text ELSE applyConfigEdit(after[n - 1], edits[n])
    IN  after[Len(edits)]

-----------------------------------------------------------------------------
(* Where edits come from. *)

Edit(path, value) == [path |-> path, value |-> value]

\* collectPatchEdits: each assignment of the fragment under the last header above it.
collectPatchEdits(lines) ==
    FlattenSeq([i \in DOMAIN lines |->
                   IF lines[i].kind = "key" THEN << Edit(PathAt(lines, i), lines[i].value) >>
                   ELSE << >>])

\* encodeConfigValue, inferValueType: an argument that reads as a value of its own
\* type is that value, or a string if --type says so.  What is not of the type asked
\* for is refused, here << >>.
encodeConfigValue(raw, type) ==
    IF type \in {"", raw[1]} THEN raw
    ELSE IF type = "string" THEN << "string", "quoted" >>
    ELSE << >>
=============================================================================
