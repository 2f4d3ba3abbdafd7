--------------------------- MODULE FlattenRegistry ---------------------------
(***************************************************************************)
(* The columns of a row's table over its runs, which may change their body  *)
(* format: the registry that names a column per JSON path, the              *)
(* body_unmapped cell for the paths that have no column yet, the output     *)
(* table with its columns fixed when it is opened, and the row state that   *)
(* carries the registry to the next run.  A job may fail at any step; its   *)
(* table is imported if write_always was armed, its state never is.         *)
(***************************************************************************)
EXTENDS Integers, Sequences, FiniteSets, SequencesExt

CONSTANTS
    Paths,          \* JSON paths (their hashes)
    Names,          \* column names
    ColumnNameFor,  \* the base name of a path; two paths may share one
    Suffixed,       \* Suffixed[b][n]: b cut to length, with "_n"; may be a base name,
                    \* or the suffixed name of another base, too
    Reserved,       \* metadata_column_names()
    Unmapped,       \* UNMAPPED_COLUMN
    BodyColumn,     \* BODY_COLUMN: may be the name of a path, too
    MaxColumns,     \* MAX_FLATTEN_COLUMNS
    CellLimit,      \* CELL_LIMIT_BYTES
    Messages,       \* what is received: see NamesAssumption
    BatchSize,
    MaxReceived, MaxRuns   \* bounds: messages of a run, runs of the row

\* What the loop over n can try: one number more than there are names to avoid
\* (the reserved names, body_unmapped and a name per path).
SuffixNumbers == 2..(Cardinality(Reserved) + Cardinality(Paths) + 3)

Bases == {ColumnNameFor[p] : p \in Paths}

ASSUME NamesAssumption ==
    /\ IsFiniteSet(Paths) /\ IsFiniteSet(Reserved)
    /\ ColumnNameFor \in [Paths -> Names]
    /\ Suffixed \in [Bases -> [SuffixNumbers -> Names]]
    /\ \A b \in Bases : \A m, n \in SuffixNumbers : Suffixed[b][m] = Suffixed[b][n] => m = n
    /\ Reserved \subseteq Names /\ Unmapped \in Names \ Reserved /\ BodyColumn \in Names
    /\ {MaxColumns, CellLimit, BatchSize, MaxReceived, MaxRuns} \subseteq Nat \ {0}
    /\ \A m \in Messages :
          /\ m.access \in {"ok", "raises"} /\ m.type \in {"DATA", "VALUE"}
          /\ m.json \in BOOLEAN                 \* raw bytes that parse as JSON
          /\ m.fields \in Seq(Paths) /\ IsInjective(m.fields)
          /\ m.size \in Nat                     \* bytes of each field's cell

VARIABLES
    saved,      \* flatten_columns of the row's state
    columns,    \* columns the destination table has, but for the metadata columns
    made,       \* body_format of the last import into it, "none" without a table
    cells,      \* its cells: which path's value is in which column
    promised,   \* body_unmapped of jobs whose state was saved: key and path
    runs,
    phase,      \* "ready" between two batches, then "batch" and "written"
    mode,       \* settlement_mode, as far as write_always goes
    format,     \* body_format (base64 has the columns of text)
    registry,   \* the run's FlattenRegistry
    received,   \* messages of this run
    batch,      \* the batch's readable rows
    failing,    \* the unreadable handler has a failure to raise
    armed,      \* write_always in the manifest
    out         \* the output table: cells and body_unmapped entries

table == <<columns, made, cells>>
durable == <<saved, table, promised, runs>>
job == <<mode, format>>
vars == <<durable, phase, job, registry, received, batch, failing, armed, out>>

Empty == [p \in {} |-> p]
NoRegistry == [columns |-> Empty, provisional |-> Empty]
Nothing == [cells |-> {}, unmapped |-> {}]
Formats == {"text", "json_flatten"}
NamesIn(f, S) == DOMAIN f \subseteq S /\ Range(f) \subseteq Names

\* Types; the registry starts from the saved columns and never exceeds the cap.
TypeOK ==
    /\ NamesIn(saved, Paths) /\ Cardinality(DOMAIN saved) <= MaxColumns
    /\ columns \subseteq Names /\ made \in Formats \cup {"none"}
    /\ cells \subseteq Names \X Paths /\ promised \subseteq Names \X Paths
    /\ runs \in 0..MaxRuns /\ phase \in {"idle", "ready", "batch", "written", "failed", "finished"}
    /\ mode \in {"complete", "receive_and_delete", "defer_commit", "peek"} /\ format \in Formats
    /\ NamesIn(registry.columns, Paths) /\ Cardinality(DOMAIN registry.columns) <= MaxColumns
    /\ NamesIn(registry.provisional, Paths \ DOMAIN registry.columns)
    /\ phase # "idle" /\ format = "json_flatten" => DOMAIN saved \subseteq DOMAIN registry.columns
    /\ received \in 0..MaxReceived /\ ToSet(batch) \subseteq Messages /\ Len(batch) <= BatchSize
    /\ failing \in BOOLEAN /\ armed \in BOOLEAN
    /\ out.cells \subseteq Names \X Paths /\ out.unmapped \subseteq Names \X Paths

Init ==
    /\ saved = Empty /\ columns = {} /\ made = "none" /\ cells = {} /\ promised = {} /\ runs = 0
    /\ phase = "idle" /\ mode = "peek" /\ format = "text" /\ registry = NoRegistry
    /\ received = 0 /\ batch = <<>> /\ failing = FALSE /\ armed = FALSE /\ out = Nothing

(***************************************************************************)
(* The registry.                                                           *)
(***************************************************************************)

\* Mutation of Taken: provisional names are not reserved for the run.
TakenWithoutProvisional(r) == Reserved \cup {Unmapped} \cup Range(r.columns)

Taken(r) == Reserved \cup {Unmapped} \cup Range(r.columns) \cup Range(r.provisional)

UniqueName(r, path) ==
    LET base == ColumnNameFor[path]
        free == {n \in SuffixNumbers : Suffixed[base][n] \notin Taken(r)}
    IN  IF base \notin Taken(r) THEN base
        ELSE Suffixed[base][CHOOSE n \in free : \A m \in free : n <= m]

Full(r) == Cardinality(DOMAIN r.columns) >= MaxColumns

Extended(f, path, name) == [p \in DOMAIN f \cup {path} |-> IF p = path THEN name ELSE f[p]]

Register(r, path) ==
    IF path \in DOMAIN r.columns \cup DOMAIN r.provisional THEN r
    ELSE LET name == UniqueName(r, path) IN
         IF Full(r) THEN [r EXCEPT !.provisional = Extended(@, path, name)]
                    ELSE [r EXCEPT !.columns = Extended(@, path, name)]

\* The fields of a body in order, each registered on top of the ones before.
RegisterAll(r, m) ==
    LET after[i \in 0..Len(m.fields)] ==
            IF i = 0 THEN r ELSE Register(after[i - 1], m.fields[i])
    IN  after[Len(m.fields)]

\* `overflowed` is set by the first provisional name and never reset.
Overflowed(r) == r.provisional # Empty

NameOf(r, p) == IF p \in DOMAIN r.columns THEN r.columns[p] ELSE r.provisional[p]

\* The input columns: those of the state the run started from, which nothing
\* changes while the run is on.
HasColumn(p) == p \in DOMAIN saved

\* Mutation of Split: the value goes to the column of the path's base name.
SplitByBaseName(r, m) ==
    [cells |-> {<<ColumnNameFor[p], p>> : p \in {q \in ToSet(m.fields) : HasColumn(q)}},
     unmapped |-> {<<NameOf(r, p), p>> : p \in {q \in ToSet(m.fields) : ~HasColumn(q)}}]

Split(r, m) ==
    [cells |-> {<<NameOf(r, p), p>> : p \in {q \in ToSet(m.fields) : HasColumn(q)}},
     unmapped |-> {<<NameOf(r, p), p>> : p \in {q \in ToSet(m.fields) : ~HasColumn(q)}}]

UnmappedTooLarge(r, m) == m.size * Cardinality(Split(r, m).unmapped) > CellLimit

\* encode_body: the error it raises, "none" if the message has a body.
EncodeBody(m) ==
    IF m.access = "raises" THEN "BodyDecodeError"
    ELSE IF format = "json_flatten" /\ m.type = "DATA" /\ ~m.json THEN "NotJsonError"
    ELSE IF \/ format = "json_flatten" /\ m.fields # <<>> /\ m.size > CellLimit
            \/ format = "text" /\ m.size * Len(m.fields) > CellLimit
    THEN "BodyTooLargeError" ELSE "none"

(***************************************************************************)
(* A run.                                                                  *)
(***************************************************************************)

StartRun ==
    /\ phase = "idle" /\ runs < MaxRuns
    /\ mode' \in {"complete", "receive_and_delete", "defer_commit", "peek"}
    /\ format' \in Formats
    /\ registry' = IF format' = "json_flatten" THEN [NoRegistry EXCEPT !.columns = saved] ELSE NoRegistry
    /\ armed' = (mode' = "receive_and_delete")
    /\ runs' = runs + 1
    /\ phase' = "ready"
    /\ UNCHANGED <<saved, table, promised, received, batch, failing, out>>

Receives ==
    /\ phase \in {"ready", "batch"} /\ Len(batch) < BatchSize
    /\ received < MaxReceived /\ received' = received + 1
    /\ phase' = "batch"

\* _to_row: every path is registered, then the split checks the unmapped cell.
ToRow(m) ==
    /\ Receives /\ EncodeBody(m) = "none"
    /\ registry' = IF format = "json_flatten" THEN RegisterAll(registry, m) ELSE registry
    /\ format = "json_flatten" => ~UnmappedTooLarge(registry', m)
    /\ batch' = Append(batch, m)
    /\ UNCHANGED <<durable, job, failing, armed, out>>

\* A body that does not decode: left, dead-lettered, or (policy `fail`) the
\* end of the run once the batch is written.
ToRowFails(m) ==
    /\ Receives /\ EncodeBody(m) # "none"
    /\ failing' \in {failing, TRUE}
    /\ UNCHANGED <<durable, job, registry, batch, armed, out>>

\* The combined unmapped cell is too large: the paths stay registered.
ToRowTooLarge(m) ==
    /\ Receives /\ EncodeBody(m) = "none" /\ format = "json_flatten"
    /\ registry' = RegisterAll(registry, m)
    /\ UnmappedTooLarge(registry', m)
    /\ failing' \in {failing, TRUE}
    /\ UNCHANGED <<durable, job, batch, armed, out>>

\* write_rows: every row is split again, with the registry as it is now.
WriteRows ==
    /\ phase = "batch"
    /\ out' = IF format = "text" THEN out
              ELSE LET rows == {Split(registry, batch[i]) : i \in DOMAIN batch}
                   IN  [cells |-> out.cells \cup UNION {row.cells : row \in rows},
                        unmapped |-> out.unmapped \cup UNION {row.unmapped : row \in rows}]
    /\ phase' = "written"
    /\ UNCHANGED <<durable, job, registry, received, batch, failing, armed>>

\* Mutation of Raises: the flatten cap does not fail the run.
RaisesButForTheCap == failing

Raises == failing \/ Overflowed(registry)

\* The rows are settled; a C1 settler arms write_always before its first
\* complete.  Then the batch's failure, if any, is raised.
Settle ==
    /\ phase = "written"
    /\ armed' = (armed \/ (mode = "complete" /\ batch # <<>>))
    /\ batch' = <<>>
    /\ phase' = IF Raises THEN "failed" ELSE "ready"
    /\ UNCHANGED <<durable, job, registry, received, failing, out>>

\* The state file is written.
Finish ==
    /\ phase = "ready"
    /\ phase' = "finished"
    /\ UNCHANGED <<durable, job, registry, received, batch, failing, armed, out>>

\* _projected_state: a flatten run owns flatten_columns, any other carries them.
Projected == IF format = "json_flatten" THEN registry.columns ELSE saved

(***************************************************************************)
(* The platform.  The row has one table, whatever its body format:          *)
(* _open_output names it by the configuration or the entity.                *)
(***************************************************************************)

\* Mutation of TableColumns: the run's new columns are materialised at once.
TableColumnsWithNew ==
    IF format = "json_flatten" THEN Range(registry.columns) \cup {Unmapped} ELSE {BodyColumn}

\* The columns open() fixed, but for the metadata columns.
TableColumns == IF format = "json_flatten" THEN Range(saved) \cup {Unmapped} ELSE {BodyColumn}

\* Storage adds the columns that are new, and rejects an import without a column
\* the table has.
Import ==
    /\ columns \subseteq TableColumns
    /\ columns' = TableColumns /\ made' = format
    /\ cells' = cells \cup out.cells

\* The user drops the table, as the README asks of one who changes the format.
DropTable ==
    /\ made # "none"
    /\ columns' = {} /\ made' = "none" /\ cells' = {}
    /\ UNCHANGED <<saved, promised, runs, phase, job, registry, received, batch, failing,
                   armed, out>>

\* The process is gone.
JobOver ==
    /\ phase' = "idle" /\ mode' = "peek" /\ format' = "text" /\ registry' = NoRegistry
    /\ received' = 0 /\ batch' = <<>> /\ failing' = FALSE /\ armed' = FALSE /\ out' = Nothing

JobSucceeds ==
    /\ phase = "finished"
    /\ Import
    /\ promised' = promised \cup out.unmapped
    /\ saved' = Projected
    /\ JobOver /\ UNCHANGED runs

\* The job fails, is killed or has its import rejected, and nothing of it is kept.
JobIsLost ==
    /\ phase # "idle"
    /\ JobOver /\ UNCHANGED durable

\* The job fails but its table is imported: write_always, or the state of a
\* finished run could not be saved.
JobLosesState ==
    /\ (phase \notin {"idle", "finished"} /\ armed) \/ phase = "finished"
    /\ Import
    /\ JobOver /\ UNCHANGED <<saved, promised, runs>>

Next ==
    \/ StartRun
    \/ \E m \in Messages : ToRow(m) \/ ToRowFails(m) \/ ToRowTooLarge(m)
    \/ WriteRows \/ Settle \/ Finish
    \/ JobSucceeds \/ JobIsLost \/ JobLosesState \/ DropTable

Spec == Init /\ [][Next]_vars

(***************************************************************************)
(* Properties.                                                             *)
(***************************************************************************)

\* No field of a row is overwritten by another: the names `register` gives in
\* one run, those over the cap included, are all different, and none is a
\* metadata column or body_unmapped.
OneFieldPerName ==
    LET registered == DOMAIN registry.columns \cup DOMAIN registry.provisional
    IN  \A p \in registered :
            /\ NameOf(registry, p) \notin Reserved \cup {Unmapped}
            /\ \A q \in registered : NameOf(registry, p) = NameOf(registry, q) => p = q

\* A column of the destination table holds the values of one path, whatever
\* runs, failed ones too, wrote them.
ColumnKeepsItsPath ==
    LET written == cells \cup out.cells
    IN  \A x \in written : \A y \in written : x[1] = y[1] => x[2] = y[2]

\* Once a run of a body format made the table, no import of a run of that format
\* misses a column of it, whatever became of the runs between and of their states:
\* only a run that changed the format, of a table that was not dropped, is
\* rejected.  And however the cap was reached, the state never brings more columns
\* than it allows.
ImportFits ==
    /\ phase # "idle" /\ made \in {"none", format} => columns \subseteq TableColumns
    /\ Cardinality(DOMAIN saved) <= MaxColumns

\* What a run whose state was saved left in body_unmapped under a name has that
\* name as its column from the next run on.
UnmappedBecomesColumn == \A u \in promised : u[2] \in DOMAIN saved /\ saved[u[2]] = u[1]
==============================================================================
