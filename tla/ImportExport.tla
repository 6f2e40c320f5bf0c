---------------------------- MODULE ImportExport ----------------------------
(* CSV export and import of tasks: exportTasks, parseCsvText,                *)
(* csvRowsToObjects, normalizeImportRow and importTasks of                   *)
(* services/tasks.service.ts, and the handlers of controllers/               *)
(* tasks.controller.ts that call them.                                       *)
(*                                                                           *)
(* A text is a sequence of characters; the name of a column, a status and an *)
(* id are one character each.  The parser's loop is modelled turn by turn.   *)
(* Priority, due date and recurrence go the way of the status; a key that    *)
(* was used before is answered as module Idempotency has it.                 *)
EXTENDS Naturals, Sequences, SequencesExt

CONSTANTS
    Stored,         \* exported lists of tasks, as the database has them
    Texts,          \* other texts that are sent to POST /tasks/import
    Alias,          \* CSV_HEADER_ALIASES, in lower case and in any other
    Statuses,       \* TASK_STATUSES
    MaxTitle,       \* 200
    MaxDescription, \* 2000
    MaxTags,        \* 5
    MaxImportRows,  \* MAX_IMPORT_ROWS
    Absent          \* undefined

ASSUME ImportExportAssumption ==
    /\ {MaxTitle, MaxDescription, MaxTags, MaxImportRows} \subseteq Nat \ {0}
    /\ \A t \in Texts : t \in Seq(ToSet(t))

VARIABLES
    source,         \* history: the tasks that text is the export of, or Absent
    text, i,        \* what is parsed, and the next character
    inQuotes, field, row, rows,
    pc,
    docs, failed    \* what is inserted, and the rows that are not

importVars == <<source, text, i, inQuotes, field, row, rows, pc, docs, failed>>

-----------------------------------------------------------------------------
Quote == "\""
Comma == ","
Semi  == ";"
LF    == "\n"
CR    == "\r"
Bom   == "BOM"
White == {" ", LF, CR, Bom}

Has(s, C) == \E k \in DOMAIN s : s[k] \in C

(* String.prototype.trim *)
Trim(s) ==
    IF ~\E k \in DOMAIN s : s[k] \notin White THEN <<>>
    ELSE LET inner == {k \in DOMAIN s : s[k] \notin White}
             least == CHOOSE k \in inner : \A l \in inner : k <= l
             most  == CHOOSE k \in inner : \A l \in inner : k >= l
         IN  SubSeq(s, least, most)

ASSUME ColumnsExist ==
    /\ \A c \in {"title", "description", "status", "tags"} : c \in DOMAIN Alias /\ Alias[c] = c /\ c # Absent
    /\ "_id" \notin DOMAIN Alias
    /\ "pending" \in Statuses /\ Statuses \cap White = {}
    /\ Absent \notin {Quote, LF}

(* What the schemas and the model accept of a task: texts are trimmed. *)
ASSUME StoredAreTasks ==
    \A tasks \in Stored : tasks \in Seq(ToSet(tasks)) /\ \A t \in ToSet(tasks) :
        /\ \A s \in {t.title, t.description} \cup ToSet(t.tags) : s \in Seq(ToSet(s)) /\ Trim(s) = s
        /\ t.title # <<>> /\ Len(t.title) <= MaxTitle /\ Len(t.description) <= MaxDescription
        /\ t.tags \in Seq(ToSet(t.tags)) /\ Len(t.tags) <= MaxTags /\ <<>> \notin ToSet(t.tags)
        /\ t.status \in Statuses

Joined(seqs, sep) ==
    FlattenSeq([k \in DOMAIN seqs |-> IF k = 1 THEN seqs[k] ELSE <<sep>> \o seqs[k]])

Distinct(seq) ==
    FlattenSeq([k \in DOMAIN seq |-> IF \E l \in 1..(k - 1) : seq[l] = seq[k] THEN <<>> ELSE <<seq[k]>>])

(* Seeded fault: only a comma or a quote is a reason for quotes. *)
CsvEscape_OneLine(s) ==
    LET twice(c) == IF c = Quote THEN <<Quote, Quote>> ELSE <<c>>
    IN  IF Has(s, {Quote, Comma})
        THEN <<Quote>> \o FlattenSeq([k \in DOMAIN s |-> twice(s[k])]) \o <<Quote>> ELSE s

CsvEscape(s) ==
    LET twice(c) == IF c = Quote THEN <<Quote, Quote>> ELSE <<c>>
    IN  IF Has(s, {Quote, Comma, LF})
        THEN <<Quote>> \o FlattenSeq([k \in DOMAIN s |-> twice(s[k])]) \o <<Quote>> ELSE s

Header == << <<"_id">>, <<"title">>, <<"description">>, <<"status">>, <<"tags">> >>
Cells(t) == << <<t.id>>, t.title, t.description, <<t.status>>, Joined(t.tags, Semi) >>
Table(tasks) == <<Header>> \o [k \in DOMAIN tasks |-> Cells(tasks[k])]

ExportTasks(tasks) ==
    LET line(r) == Joined([k \in DOMAIN r |-> CsvEscape(r[k])], Comma)
        table   == Table(tasks)
    IN  Joined([k \in DOMAIN table |-> line(table[k])], LF)

ImportOff == /\ source = Absent /\ text = <<>> /\ i = 1 /\ inQuotes = FALSE /\ field = <<>>
             /\ row = <<>> /\ rows = <<>> /\ pc = "off" /\ docs = <<>> /\ failed = <<>>

ImportInit ==
    /\ source \in Stored \cup {Absent}
    /\ IF source = Absent THEN text \in Texts ELSE text = ExportTasks(source)
    /\ i = IF text # <<>> /\ text[1] = Bom THEN 2 ELSE 1
    /\ inQuotes = FALSE /\ field = <<>> /\ row = <<>> /\ rows = <<>>
    /\ pc = "parse" /\ docs = <<>> /\ failed = <<>>

-----------------------------------------------------------------------------
(* One turn of the loop of parseCsvText: the character at i, and in two      *)
(* cases the one after it.                                                   *)
Char == pc = "parse" /\ i <= Len(text)
Peek == IF i < Len(text) THEN text[i + 1] ELSE Absent
Skip(n) == i' = i + n

Escaped ==
    /\ Char /\ inQuotes /\ text[i] = Quote /\ Peek = Quote
    /\ field' = Append(field, Quote) /\ Skip(2)
    /\ UNCHANGED <<source, text, inQuotes, row, rows, pc, docs, failed>>

Unquote ==
    /\ Char /\ inQuotes /\ text[i] = Quote /\ Peek # Quote
    /\ inQuotes' = FALSE /\ Skip(1)
    /\ UNCHANGED <<source, text, field, row, rows, pc, docs, failed>>

(* a quote opens a quotation wherever it is in a field *)
OpenQuote ==
    /\ Char /\ ~inQuotes /\ text[i] = Quote
    /\ inQuotes' = TRUE /\ Skip(1)
    /\ UNCHANGED <<source, text, field, row, rows, pc, docs, failed>>

Plain ==
    /\ Char /\ IF inQuotes THEN text[i] # Quote ELSE text[i] \notin {Quote, Comma, LF, CR}
    /\ field' = Append(field, text[i]) /\ Skip(1)
    /\ UNCHANGED <<source, text, inQuotes, row, rows, pc, docs, failed>>

EndField ==
    /\ Char /\ ~inQuotes /\ text[i] = Comma
    /\ row' = Append(row, field) /\ field' = <<>> /\ Skip(1)
    /\ UNCHANGED <<source, text, inQuotes, rows, pc, docs, failed>>

(* a line with nothing on it is not a row *)
Keep(r) == rows' = IF Len(r) > 1 \/ Trim(r[1]) # <<>> THEN Append(rows, r) ELSE rows

EndRow ==
    /\ Char /\ ~inQuotes /\ text[i] \in {LF, CR}
    /\ Keep(Append(row, field)) /\ row' = <<>> /\ field' = <<>>
    /\ Skip(IF text[i] = CR /\ Peek = LF THEN 2 ELSE 1)
    /\ UNCHANGED <<source, text, inQuotes, pc, docs, failed>>

(* Seeded fault: a text that does not end with a line break loses its end. *)
EndText_Cut ==
    /\ pc = "parse" /\ i > Len(text)
    /\ UNCHANGED rows
    /\ pc' = "import" /\ row' = <<>> /\ field' = <<>>
    /\ UNCHANGED <<source, text, i, inQuotes, docs, failed>>

(* the end of the text, also in the middle of a quotation *)
EndText ==
    /\ pc = "parse" /\ i > Len(text)
    /\ IF field # <<>> \/ row # <<>> THEN Keep(Append(row, field)) ELSE UNCHANGED rows
    /\ pc' = "import" /\ row' = <<>> /\ field' = <<>>
    /\ UNCHANGED <<source, text, i, inQuotes, docs, failed>>

-----------------------------------------------------------------------------
(* the column of a header cell; one that is unknown is left out *)
ColumnOf(cell) ==
    LET name == Trim(cell) IN IF Len(name) = 1 /\ name[1] \in DOMAIN Alias THEN Alias[name[1]] ELSE Absent

(* The object of a row: of each column its last cell that is not blank, and  *)
(* nothing if there is none.                                                 *)
CsvRowToObject(fields) ==
    [c \in {Alias[a] : a \in DOMAIN Alias} |->
        LET at == {k \in DOMAIN rows[1] : /\ ColumnOf(rows[1][k]) = c
                                          /\ k <= Len(fields) /\ Trim(fields[k]) # <<>>}
        IN  IF at = {} THEN <<>> ELSE Trim(fields[CHOOSE k \in at : \A l \in at : k >= l])]

(* The parts of a text between separators, trimmed, without blanks: a part   *)
(* ends at each separator, and at the end of the text.                       *)
Parts(s, separators) ==
    LET ends == {k \in DOMAIN s : s[k] \in separators} \cup {Len(s) + 1}
        from(k) == CHOOSE l \in {0} \cup ends : l < k /\ \A m \in ends : m < k => m <= l
        part(k) == Trim(SubSeq(s, from(k) + 1, k - 1))
    IN  FlattenSeq([k \in 1..(Len(s) + 1) |-> IF k \in ends /\ part(k) # <<>> THEN <<part(k)>> ELSE <<>>])

(* Seeded fault: tags are split at commas only. *)
Tags_Comma(s) == Distinct(Parts(s, {Comma}))

(* tags.split(/[;,]/), trimmed, without blanks and repetitions *)
Tags(s) == Distinct(Parts(s, {Semi, Comma}))

(* Seeded fault: the tags are not counted. *)
NormalizeImportRow_Uncounted(o) ==
    IF \/ o["title"] = <<>> \/ Len(o["title"]) > MaxTitle \/ Len(o["description"]) > MaxDescription
       \/ o["status"] # <<>> /\ (Len(o["status"]) > 1 \/ o["status"][1] \notin Statuses)
    THEN <<>>
    ELSE << [title |-> o["title"], description |-> o["description"], tags |-> Tags(o["tags"]),
             status |-> IF o["status"] = <<>> THEN "pending" ELSE o["status"][1]] >>

(* what normalizeImportRow makes of an object: the doc, or nothing: an error *)
NormalizeImportRow(o) ==
    IF \/ o["title"] = <<>> \/ Len(o["title"]) > MaxTitle \/ Len(o["description"]) > MaxDescription
       \/ o["status"] # <<>> /\ (Len(o["status"]) > 1 \/ o["status"][1] \notin Statuses)
       \/ Len(Tags(o["tags"])) > MaxTags
    THEN <<>>
    ELSE << [title |-> o["title"], description |-> o["description"], tags |-> Tags(o["tags"]),
             status |-> IF o["status"] = <<>> THEN "pending" ELSE o["status"][1]] >>

(* the rows are answered one by one, and inserted with one command *)
ImportTasks ==
    /\ pc = "import" /\ Len(rows) >= 2 /\ Len(rows) - 1 <= MaxImportRows
    /\ LET outcome == [k \in 1..(Len(rows) - 1) |-> NormalizeImportRow(CsvRowToObject(rows[k + 1]))]
       IN  /\ docs' = FlattenSeq(outcome)
           /\ failed' = FlattenSeq([k \in DOMAIN outcome |-> IF outcome[k] = <<>> THEN <<k - 1>> ELSE <<>>])
    /\ pc' = "done"
    /\ UNCHANGED <<source, text, i, inQuotes, field, row, rows>>

(* 400: no header and row, or too many rows *)
Refuse ==
    /\ pc = "import" /\ (Len(rows) < 2 \/ Len(rows) - 1 > MaxImportRows)
    /\ pc' = "refused"
    /\ UNCHANGED <<source, text, i, inQuotes, field, row, rows, docs, failed>>

ImportNext ==
    \/ Escaped \/ Unquote \/ OpenQuote \/ Plain \/ EndField \/ EndRow \/ EndText
    \/ ImportTasks \/ Refuse

-----------------------------------------------------------------------------
(* Types: where the parser is in its text, and what an imported task holds. *)
ImportTypeOK ==
    /\ i \in 1..(Len(text) + 1) /\ inQuotes \in BOOLEAN
    /\ pc \in {"off", "parse", "import", "done", "refused"}
    /\ \A k \in DOMAIN rows : \A l \in DOMAIN rows[k] : rows[k][l] \in Seq({text[n] : n \in DOMAIN text})
    /\ \A k \in DOMAIN docs : /\ Len(docs[k].title) \in 1..MaxTitle /\ Len(docs[k].description) <= MaxDescription
                              /\ docs[k].status \in Statuses /\ Len(docs[k].tags) <= MaxTags
    /\ pc = "done" => Len(docs) + Len(failed) = Len(rows) - 1

(* the characters that are no separators, quotes or blanks *)
Content(s) == FlattenSeq([k \in DOMAIN s |-> IF s[k] \in {Quote, Comma} \cup White THEN <<>> ELSE <<s[k]>>])

(* The parser drops nothing but separators, quotes and blanks: the letters   *)
(* it has gone over are the letters of its rows, in their order, however     *)
(* quotes are opened, left open or put in the middle of a field.             *)
NothingLost ==
    Content(SubSeq(text, 1, i - 1)) =
        Content(FlattenSeq([k \in DOMAIN rows |-> FlattenSeq(rows[k])]) \o FlattenSeq(row) \o field)

(* What is exported is read back cell by cell, unless a carriage return      *)
(* stands in a cell that no other character had put into quotes.             *)
Unprotected(tasks) ==
    \E k \in DOMAIN tasks : \E c \in DOMAIN Header :
        Has(Cells(tasks[k])[c], {CR}) /\ ~Has(Cells(tasks[k])[c], {Quote, Comma, LF})

ExportIsReadBack ==
    pc \in {"import", "done"} /\ source # Absent =>
        rows = Table(source) \/ Unprotected(source)

(* An export that is imported again makes the same tasks again, unless a     *)
(* cell was torn, or a tag has a separator in it.                            *)
ImportRestores ==
    pc = "done" /\ source # Absent =>
        \/ /\ failed = <<>> /\ Len(docs) = Len(source)
           /\ \A k \in DOMAIN docs : /\ docs[k].title = source[k].title /\ docs[k].description = source[k].description
                                     /\ docs[k].status = source[k].status /\ docs[k].tags = Distinct(source[k].tags)
        \/ Unprotected(source)
        \/ \E k \in DOMAIN source : \E n \in DOMAIN source[k].tags : Has(source[k].tags[n], {Semi, Comma})

(* A text, from the export through the parser to the tasks made of it. *)
ImportSafety == ImportTypeOK /\ NothingLost /\ ExportIsReadBack /\ ImportRestores
=============================================================================
