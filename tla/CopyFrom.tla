------------------------------- MODULE CopyFrom -------------------------------
(***************************************************************************)
(* A statement that reads files: `COPY ... FROM` (fixedformat-worker/src/   *)
(* copy_from.rs, read_all in reader.rs) from its path to the batches that   *)
(* DuckDB inserts into the table, and `read_fixed` (table/read_fixed.rs) up *)
(* to the sources of its producer, which StreamingScan goes on with.  Files *)
(* and objects may appear, change and disappear between the steps.          *)
(*                                                                         *)
(* A job is [call, paths, args, layout, columns, world]: paths is the path *)
(* of a copy and the argument of a scan, columns the types of the table.    *)
(* What a file or an object says of itself is beside its bytes: the field  *)
(* `rows`, NotRows where its bytes are no records of the layout.            *)
(***************************************************************************)
EXTENDS Arrow, Locations

F == INSTANCE Framing WITH Base <- 256, CR <- 13, LF <- 10

CONSTANTS
    Jobs,        \* the statements
    Arrivals,    \* the files that an object may be replaced with
    BatchRows,   \* BATCH_ROWS (2048 in the code)
    MaxRecord,   \* max_record_bytes
    MaxChanges   \* bound: files that appear, change or disappear

NotRows == <<"none">>

VARIABLES
    job,
    files,       \* the objects there are, with their contents
    phase,
    secrets,     \* the secrets that DuckDB handed over
    sources,     \* what the paths were resolved to
    found,       \* the objects there were when they were
    opened,      \* the contents of the sources read so far, as they were then
    rows, batches,
    changes

vars == <<job, files, phase, secrets, sources, found, opened, rows, batches, changes>>

Loaded == FlattenSeq(batches)

TypeOK ==
    /\ phase \in {"new", "bound", "reading", "loading", "planned", "loaded", "failed"}
    /\ secrets \subseteq job.world.secrets
    /\ Len(opened) =< Len(sources)
    /\ Len(Loaded) =< Len(rows)
    /\ \A i \in 1 .. Len(rows) : Len(rows[i]) = Len(Columns(job.layout))
    /\ changes \in 0 .. MaxChanges

Init ==
    /\ job \in Jobs
    /\ files = job.world.objects
    /\ phase = "new"
    /\ secrets = {} /\ sources = <<>> /\ found = {} /\ opened = <<>>
    /\ rows = <<>> /\ batches = <<>>
    /\ changes = 0

World == [objects |-> DOMAIN files, secrets |-> secrets] @@ job.world

Fail == phase' = "failed"

Change ==
    /\ phase \in {"bound", "reading"} /\ changes < MaxChanges
    /\ changes' = changes + 1
    /\ \/ \E o \in DOMAIN files : files' = [p \in DOMAIN files \ {o} |-> files[p]]
       \/ \E o \in job.world.places, f \in Arrivals : files' = o :> f @@ files
    /\ UNCHANGED <<job, phase, secrets, sources, found, opened, rows, batches>>

-----------------------------------------------------------------------------
(* Binding *)

Paths == IF job.call = "copy" THEN Ok(<<job.paths>>) ELSE PathsArgument(job.paths)

(* read_fixed looks for local files, and for what no scheme is known of.    *)
LocalFound(path) ==
    IsRemote(path) \/ (path.scheme \in {"none", "a_b"} /\ IsOk(ResolveLocal(World, path.key)))

(* secret_lookups and on_bind.  DuckDB answers each lookup with the secrets *)
(* of its scope.                                                            *)
Bind ==
    /\ phase = "new"
    /\ LET paths   == IF IsOk(Paths) THEN Paths.ok ELSE <<>>
           lookups == SecretLookups(paths)
       IN  /\ secrets' = UNION {ForScope(job.world.secrets, lookups[i]) : i \in 1 .. Len(lookups)}
           /\ IF job.call = "scan"
                 /\ (~IsOk(Paths) \/ \E i \in 1 .. Len(paths) : ~LocalFound(paths[i]))
              THEN Fail ELSE phase' = "bound"
    /\ UNCHANGED <<job, files, sources, found, opened, rows, batches, changes>>

-----------------------------------------------------------------------------
(* The arguments, and the sources of all paths *)

Framed    == FramingOption(job.args)
RecLen    == RecordLength(job.args, RecordLen(job.layout))
Limit     == ReadLimit(job.args, 1000)
Overrides == CloudOverrides(job.args)

Understood == IsOk(EncodingOption(job.args)) /\ IsOk(Framed) /\ IsOk(CompressionOption(job.args)) /\ IsOk(Limit)

(* check_variable_framing *)
Delimited == Variable(job.layout) => Framed.ok # "fixed"

(* The places of every path in turn, an error where one has none. *)
AllLocations(paths) ==
    LET one(i) == ResolveLocations(World, paths[i], Overrides)
    IN  IF \E i \in 1 .. Len(paths) : ~IsOk(one(i)) THEN Err
        ELSE Ok(FlattenSeq([i \in 1 .. Len(paths) |-> one(i).ok]))

Plan ==
    /\ phase = "bound"
    /\ \E s \in {IF ~Understood \/ ~Delimited THEN Err
                 ELSE Then(AllLocations(Paths.ok), LAMBDA ls : ResolveSources(World, ls, Overrides))} :
          IF ~IsOk(s) THEN Fail /\ UNCHANGED sources
          ELSE sources' = s.ok /\ phase' = IF job.call = "copy" THEN "reading" ELSE "planned"
    /\ found' = DOMAIN files
    /\ UNCHANGED <<job, files, secrets, opened, rows, batches, changes>>

-----------------------------------------------------------------------------
(* read_all *)

(* The records of a file: open_stream, and RecordStream to its end.        *)
RecordsOf(file) ==
    IF Framed.ok = "fixed" /\ RecLen \notin 1 .. MaxRecord THEN Err
    ELSE Then(Decompress(file, CompressionOption(job.args).ok, Limit.ok), LAMBDA bytes :
              LET split == F!Records(bytes, Framed.ok, RecLen)
              IN  IF split.ok THEN Ok(split.recs) ELSE Err)

(* The values of a file's records, without their names, if all decode.     *)
RowsOf(file) ==
    LET row(rec)   == DecodeRecord(job.layout, rec, EncodingOption(job.args).ok)
        value(pairs) == [j \in 1 .. Len(pairs) |-> pairs[j][2]]
    IN  Then(RecordsOf(file), LAMBDA recs :
            LET decoded == [i \in 1 .. Len(recs) |-> row(recs[i])]
            IN  IF \E i \in 1 .. Len(recs) : ~IsOk(decoded[i]) THEN Err
                ELSE Ok([i \in 1 .. Len(recs) |-> value(decoded[i].ok)]))

Place(source) == [host |-> source.host, key |-> source.key]

ReadSource ==
    /\ phase = "reading" /\ Len(opened) < Len(sources)
    /\ LET place == Place(sources[Len(opened) + 1])
       IN  IF place \notin DOMAIN files THEN Fail /\ UNCHANGED <<opened, rows>>
           ELSE /\ opened' = Append(opened, files[place])
                /\ \E r \in {RowsOf(files[place])} :
                      IF IsOk(r) THEN rows' = rows \o r.ok /\ UNCHANGED phase
                      ELSE Fail /\ UNCHANGED rows
    /\ UNCHANGED <<job, files, secrets, sources, found, batches, changes>>

Natural == StructType(job.layout)

(* All are read: the columns are counted before any is cast. *)
Match ==
    /\ phase = "reading" /\ Len(opened) = Len(sources)
    /\ IF ~IsOk(Natural) THEN Fail
       ELSE IF Len(Natural.ok.fields) # Len(job.columns) THEN Fail
       ELSE phase' = "loading"
    /\ UNCHANGED <<job, files, secrets, sources, found, opened, rows, batches, changes>>

(* arrow_cast, of integers and texts (external).                           *)
Castable(from, to) ==
    from = to \/ (from.t \in {"int", "text"} /\ to.t \in {"int", "tiny", "text"})

IntegerOf(v) ==
    IF Is(v, "int") THEN Ok(v.int) ELSE IF v.text = <<>> THEN Err ELSE Parse(v.text)

(* Slip of CastCell: what does not fit wraps. *)
CastCellWraps(from, to, v) ==
    LET n == IntegerOf(v)
    IN  IF v = Null \/ from = to THEN v
        ELSE IF to.t = "text" THEN TextVal(DisplayScalar(v))
        ELSE IF ~IsOk(n) THEN Null
        ELSE IntVal(IF to.t = "tiny" THEN ((n.ok + 128) % 256) - 128 ELSE n.ok)

(* A value that the type does not have becomes NULL. *)
CastCell(from, to, v) ==
    LET n == IntegerOf(v)
    IN  IF v = Null \/ from = to THEN v
        ELSE IF to.t = "text" THEN TextVal(DisplayScalar(v))
        ELSE IF ~IsOk(n) \/ (to.t = "tiny" /\ n.ok \notin -128 .. 127) THEN Null
        ELSE IntVal(n.ok)

(* One column of a chunk, as the table wants it. *)
ColumnOf(j, chunk) ==
    LET from == Natural.ok.fields[j][2]
        to   == job.columns[j]
    IN  Then(BuildArray(from, [i \in 1 .. Len(chunk) |-> chunk[i][j]]), LAMBDA array :
            IF ~Castable(from, to) THEN Err
            ELSE Ok([i \in 1 .. Len(chunk) |-> CastCell(from, to, ValueAt(array, i))]))

(* Slip of Chunk: the batch after the last row is cut by the size alone. *)
ChunkBeyond ==
    /\ phase = "loading" /\ Len(Loaded) < Len(rows)
    /\ LET from    == Len(Loaded)
           chunk   == [i \in 1 .. BatchRows |-> rows[Min({Len(rows), from + i})]]
           columns == [j \in 1 .. Len(job.columns) |-> ColumnOf(j, chunk)]
       IN  IF \E j \in 1 .. Len(job.columns) : ~IsOk(columns[j]) THEN Fail /\ UNCHANGED batches
           ELSE /\ batches' = Append(batches, [i \in 1 .. Len(chunk) |->
                                                   [j \in 1 .. Len(columns) |-> columns[j].ok[i]]])
                /\ UNCHANGED phase
    /\ UNCHANGED <<job, files, secrets, sources, found, opened, rows, changes>>

Chunk ==
    /\ phase = "loading" /\ Len(Loaded) < Len(rows)
    /\ LET from    == Len(Loaded)
           chunk   == SubSeq(rows, from + 1, Min({Len(rows), from + BatchRows}))
           columns == [j \in 1 .. Len(job.columns) |-> ColumnOf(j, chunk)]
       IN  IF \E j \in 1 .. Len(job.columns) : ~IsOk(columns[j]) THEN Fail /\ UNCHANGED batches
           ELSE /\ batches' = Append(batches, [i \in 1 .. Len(chunk) |->
                                                   [j \in 1 .. Len(columns) |-> columns[j].ok[i]]])
                /\ UNCHANGED phase
    /\ UNCHANGED <<job, files, secrets, sources, found, opened, rows, changes>>

(* The batches are handed over when all are made. *)
Return ==
    /\ phase = "loading" /\ Len(Loaded) = Len(rows)
    /\ phase' = "loaded"
    /\ UNCHANGED <<job, files, secrets, sources, found, opened, rows, batches, changes>>

Read == ReadSource \/ Match \/ Chunk \/ Return

Next == Bind \/ Plan \/ Read \/ Change

Spec == Init /\ [][Next]_vars

-----------------------------------------------------------------------------
(* What a statement should read, said without the code's steps. *)

IsS3(path) == path.scheme \in {"s3", "s3a"}

(* The places there are: what was found, and directories. *)
ThereWas == found \cup {[host |-> "", key |-> d] : d \in job.world.directories}
IsDirectory(o) == o.host = "" /\ o.key \in job.world.directories

(* The places a path stands for, among those there were, in the order of   *)
(* their names: of a bucket the objects that match, of local names those of *)
(* files and directories, if they may be seen.  HTTP knows no patterns, and *)
(* what is asked of a place is no part of it.                              *)
StandsFor(path) ==
    LET host    == IF path.scheme \in {"none", "a_b"} THEN "" ELSE path.host
        listed  == {o \in ThereWas : /\ o.host = host /\ GlobMatches(path.key, o.key)
                                     /\ host = "" => Visible(job.world, o.key)
                                     /\ host = "" /\ Last(path.key) = "**" => IsDirectory(o)}
        name(o) == IF IsS3(path) THEN EncodeKey(o.key) ELSE o.key
        asked   == {i \in 1 .. Len(path.key) : path.key[i] \in {"?", "#"}}
    IN  IF path.scheme \in {"http", "https"}
        THEN <<[host |-> host, key |-> SubSeq(path.key, 1, Min({Len(path.key) + 1} \cup asked) - 1)]>>
        ELSE IF HasGlob(path.key) THEN SetToSortSeq(listed, LAMBDA o, p : Precedes(name(o), name(p)))
        ELSE <<[host |-> host, key |-> path.key]>>

AsPathsSay ==
    [i \in 1 .. Len(sources) |-> Place(sources[i])] =
        FlattenSeq([i \in 1 .. Len(Paths.ok) |-> StandsFor(Paths.ok[i])])

(* No object of the bucket, nor the pattern, has an escape in its name. *)
Unescaped(path) ==
    IsS3(path) /\ HasGlob(path.key) =>
        /\ Range(path.key) \cap {"%", "#"} = {}
        /\ \A o \in found : o.host = path.host => Decoded(o.key) = o.key

(* The secret for a bucket: its own, or the one for all buckets.           *)
SecretFields(host) ==
    LET for(scope) == {s \in job.world.secrets : s.scope = scope}
    IN  UNION {{<<f, s.fields[f]>> : f \in DOMAIN s.fields} :
                  s \in IF for(host) # {} THEN for(host) ELSE for("")}

(* What is set for a bucket: what the call says, or else its secret. *)
Wanted(host, option) ==
    IF option \in DOMAIN job.args THEN {job.args[option]}
    ELSE {p[2] : p \in {q \in SecretFields(host) : q[1] = option /\ ~IsEmpty(option, q[2])}}

HasSettings(source) ==
    LET config   == source.store.config
        value(k) == IF k \in DOMAIN config THEN {config[k]} ELSE {}
    IN  /\ value("aws_region") = Wanted(source.host, "region")
        /\ value("aws_access_key_id") = Wanted(source.host, "key_id")
        /\ {e.host : e \in value("aws_endpoint")} = {e.host : e \in Wanted(source.host, "endpoint")}

(* The first two bytes of the addresses of internal networks, and the words *)
(* their other addresses begin with.                                       *)
InternalV4 ==
    UNION {256 * n .. 256 * n + 255 : n \in {0, 10, 127}} \cup
    (256 * 172 + 16 .. 256 * 172 + 31) \cup (256 * 100 + 64 .. 256 * 100 + 127) \cup
    {256 * 192 + 168, 256 * 169 + 254}
Loopback == <<0, 0, 0, 0, 0, 0, 0, 1>>
Nowhere  == <<0, 0, 0, 0, 0, 0, 0, 0>>

Internal(ip) ==
    IF "v4" \in DOMAIN ip THEN 256 * ip.v4[1] + ip.v4[2] \in InternalV4 \/ ip.v4 = <<255, 255, 255, 255>>
    ELSE \/ ip.v6 \in {Loopback, Nowhere}
         \/ ip.v6[1] \in (64512 .. 65023) \cup (65152 .. 65215)
         \/ SubSeq(ip.v6, 1, 6) = <<0, 0, 0, 0, 0, 65535>> /\ ip.v6[7] \in InternalV4

(* The addresses a host is known by: the IPv4 address that it is, or those *)
(* of its name.  Nothing is said of an IPv6 address in brackets.           *)
AddressesOf(host) ==
    IF IsLiteral(job.world, host) THEN {job.world.literals[host]} ELSE Named(job.world.addresses, host, {})

(* A text or a number of the table's type that reads as the value does.    *)
SameText(cell, v, to) ==
    LET alike == {n \in -999 .. 999 : Numeral(n) = DisplayScalar(v)}
    IN  CASE to.t = "text" -> cell = TextVal(DisplayScalar(v))
          [] to.t = "int"  -> cell = IF alike = {} THEN Null ELSE IntVal(CHOOSE n \in alike : TRUE)
          [] to.t = "tiny" -> cell = IF alike \cap (-128 .. 127) = {} THEN Null
                                     ELSE IntVal(CHOOSE n \in alike : TRUE)
          [] to.t = "list" -> cell = v

Asked         == CompressionOption(job.args).ok
Compressed(f) == f.codec # "none"

(* A file cannot be read in the way that was asked.  Its records are as     *)
(* long as its layout.                                                     *)
Unreadable(f) ==
    \/ f.rows = NotRows
    \/ Framed.ok = "fixed" /\ RecLen # RecordLen(job.layout)
    \/ Compressed(f) /\ (~f.whole \/ Asked \notin {"auto", f.codec}
                           \/ Len(f.plain) > Named(job.args, "max_decompressed_bytes", 1000))
    \/ ~Compressed(f) /\ (Asked \in {"gzip", "zstd"} \/ (Asked = "auto" /\ Detect(f.raw) # "none"))

NoPlace(path) ==
    \/ path.scheme \notin {"none", "a_b", "s3", "s3a", "http", "https"}
    \/ /\ path.scheme \in {"none", "a_b"} /\ ~HasGlob(path.key)
       /\ [host |-> "", key |-> path.key] \notin DOMAIN files /\ path.key \notin job.world.directories
    \/ path.scheme \in {"http", "https"} /\ ~job.world.allow /\ \E ip \in AddressesOf(path.host) : Internal(ip)

-----------------------------------------------------------------------------
(* Correctness *)

(* What is loaded into a table are the rows of every file the path stands  *)
(* for, in order, each as it was when it was opened and cut into batches   *)
(* nowhere else than by their size; a value in a column of another type    *)
(* reads as it did or is NULL.  A statement that fails does so because of  *)
(* its arguments, a path without a place, a file that has gone or cannot   *)
(* be read, or a table of other columns (copy_from.rs, read_all).          *)
RowsLoaded ==
    /\ phase = "loaded" =>
          LET expected == FlattenSeq([i \in 1 .. Len(opened) |-> opened[i].rows])
          IN  /\ Len(opened) = Len(sources)
              /\ \A i \in 1 .. Len(opened) : ~Unreadable(opened[i])
              /\ Len(Loaded) = Len(expected)
              /\ \A i \in 1 .. Len(expected), j \in 1 .. Len(job.columns) :
                    SameText(Loaded[i][j], expected[i][j], job.columns[j])
              /\ \A i \in 1 .. Len(batches) : Len(batches[i]) = IF i < Len(batches) THEN BatchRows
                                                              ELSE Len(expected) - BatchRows * (i - 1)
    /\ phase = "failed" =>
          \/ ~Understood \/ ~Delimited \/ ~IsOk(Paths)
          \/ \E i \in 1 .. Len(Paths.ok) : NoPlace(Paths.ok[i])
          \/ \E i \in 1 .. Len(opened) : Unreadable(opened[i])
          \/ Len(opened) < Len(sources) /\ Place(sources[Len(opened) + 1]) \notin DOMAIN files
          \/ Len(job.columns) # Len(Columns(job.layout))
          \/ \E j \in 1 .. Len(job.columns) :
                (job.columns[j].t = "list") # (ColumnType(Columns(job.layout)[j]).ok.t = "list")

(* The sources of a statement are those its paths stand for, one path      *)
(* after the other: a pattern all that match it and are there, in the      *)
(* order of their names, whatever characters these have as long as a name  *)
(* in a bucket does not read as an escaped one.  A bucket has the region,  *)
(* the key and the endpoint of the call before those of its secret, and    *)
(* nothing is fetched by HTTP from a name or an IPv4 address of an internal *)
(* network unless that is allowed (list_glob, resolve_locations,           *)
(* secret_lookups, build_store).                                           *)
PlacesFound ==
    phase \in {"planned", "reading", "loading", "loaded"} =>
        /\ (\A i \in 1 .. Len(Paths.ok) : Unescaped(Paths.ok[i])) => AsPathsSay
        /\ \A i \in 1 .. Len(sources) :
              "store" \in DOMAIN sources[i] =>
                  IF sources[i].store.url.scheme \in {"http", "https"}
                  THEN job.world.allow \/ \A ip \in AddressesOf(sources[i].host) : ~Internal(ip)
                  ELSE HasSettings(sources[i])
=============================================================================
