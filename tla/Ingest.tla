------------------------------- MODULE Ingest -------------------------------
(***************************************************************************)
(* The readers of usage logs (services/ingest): what a line of an export   *)
(* of OpenAI, of Anthropic or of a CSV file becomes, which lines are       *)
(* refused, and when a file is too poor to be audited.  Two writers make   *)
(* such files: the SDK, whose records pass a door of their own, and the    *)
(* collector, which turns the transcripts of a coding session into an      *)
(* export.                                                                 *)
(*                                                                         *)
(* A value of an export is NoValue where the key is absent, or a record    *)
(* [kind, n]: an "int", a number written as "text", a "null" or "junk".  A *)
(* line carries the shape of its keys; a reader finds in a line of another *)
(* shape only the keys that the shapes share.  Prompt text stands for the  *)
(* hash of its prefix.  Left out: file names, user messages, latency,      *)
(* endpoints and extra columns, which nothing downstream computes with.    *)
(***************************************************************************)
EXTENDS Integers, FiniteSets, Sequences

CONSTANTS
    NoValue,     \* an absent key, an unreadable value
    SampleSize,  \* _sample_lines, n
    MaxSize,     \* settings.max_upload_mb
    MaxCount     \* routes_ingest._MAX_COUNT

MinValidPct == 95

\* normalizer._coerce_int: numbers, and numbers written as text
Coerced(v) == IF v = NoValue THEN NoValue ELSE IF v.kind \in {"int", "text"} THEN v.n ELSE NoValue

\* anthropic_jsonl._intlike: numbers only
Intlike(v) == IF v = NoValue THEN NoValue ELSE IF v.kind = "int" THEN v.n ELSE NoValue

Num(n) == [kind |-> "int", n |-> n]
Present(v) == IF v = NoValue THEN FALSE ELSE v.kind # "null"

\* normalizer._cache_field: an absent count is zero, an unreadable one is not.
CacheField(v) == IF Present(v) THEN Coerced(v) ELSE 0

-----------------------------------------------------------------------------
(* The readers *)

Wears(l, shape, v) == IF l.shape = shape THEN v ELSE NoValue

\* OpenAIJsonlParser._extract: the prompt includes what was cached.
OpenAIRow(l) ==
    [model |-> l.model, ts |-> l.ts, id |-> l.id, tag |-> l.tag,
     hash |-> l.hash, text |-> l.text, max |-> l.max,
     prompt |-> Wears(l, "openai", l.in),
     completion |-> Wears(l, "openai", l.out),
     cached |-> Wears(l, "openai", l.cached),
     written |-> Wears(l, "openai", l.written)]

\* An absent cache count of Anthropic's is zero, a null one is not.
Part(v) == Intlike(IF v = NoValue THEN Num(0) ELSE v)

\* Mutant of PromptTotal: the total forgets what was written to the cache.
PromptTotalWithoutWrites(l) ==
    IF NoValue \in {Intlike(Wears(l, "anthropic", l.in)), Part(l.cached), Part(l.written)} THEN NoValue
    ELSE Num(Intlike(l.in) + Part(l.cached))

\* Three disjoint counts make the prompt, and one that is no number spoils it.
PromptTotal(l) ==
    IF NoValue \in {Intlike(Wears(l, "anthropic", l.in)), Part(l.cached), Part(l.written)} THEN NoValue
    ELSE Num(Intlike(l.in) + Part(l.cached) + Part(l.written))

\* AnthropicJsonlParser._extract
AnthropicRow(l) ==
    LET number(n) == IF n = NoValue THEN [kind |-> "null", n |-> 0] ELSE Num(n)
    IN  [OpenAIRow(l) EXCEPT
            !.prompt = PromptTotal(l),
            !.completion = Wears(l, "anthropic", l.out),
            !.cached = number(Part(l.cached)),
            !.written = number(Part(l.written))]

\* GenericCsvParser.parse: an empty cell is an absent key, text is never read.
CsvRow(l) == [OpenAIRow([l EXCEPT !.shape = "openai"]) EXCEPT !.text = NoValue]

-----------------------------------------------------------------------------
(* The normalizer *)

IsCount(n) == IF n = NoValue THEN FALSE ELSE n >= 0

\* The tests of normalize that refuse a row
Refused(d) ==
    \/ IF Coerced(d.ts) = NoValue THEN TRUE ELSE Coerced(d.ts) <= 0
    \/ d.model = NoValue
    \/ ~IsCount(Coerced(d.prompt))
    \/ ~IsCount(Coerced(d.completion))
    \/ ~IsCount(CacheField(d.cached))
    \/ ~IsCount(CacheField(d.written))

\* The record normalize makes of a row it does not refuse
Record(d, line) ==
    [row |-> line, ts |-> Coerced(d.ts), model |-> d.model,
     id |-> IF d.id = NoValue THEN <<"row", line>> ELSE <<"id", d.id>>,
     tag |-> IF d.tag = NoValue THEN "" ELSE d.tag,
     hash |-> IF d.text # NoValue THEN d.text ELSE d.hash,
     max |-> Coerced(d.max),
     prompt |-> Coerced(d.prompt), completion |-> Coerced(d.completion),
     cached |-> CacheField(d.cached), written |-> CacheField(d.written)]

-----------------------------------------------------------------------------
(* Files *)

\* base.check_file
Acceptable(file) == file.ext \in {".jsonl", ".json", ".csv"} /\ file.size \in 1 .. MaxSize

\* base._sample_lines: the shapes of the first lines that are not blank
Sample(file) ==
    LET seen == {i \in DOMAIN file.lines : file.lines[i].shape # "blank"}
    IN  {file.lines[i].shape : i \in {k \in seen : Cardinality({j \in seen : j <= k}) <= SampleSize}}

\* base.detect_format: the reader of the whole file, Anthropic's asked first
Reader(file) ==
    IF file.ext = ".csv" THEN "csv"
    ELSE IF "anthropic" \in Sample(file) THEN "anthropic"
    ELSE IF "openai" \in Sample(file) THEN "openai" ELSE NoValue

\* What the reader makes of a line; a line that is no object is refused as it is
Parsed(reader, l) ==
    CASE reader = "csv" -> CsvRow(l)
      [] reader = "anthropic" -> AnthropicRow(l)
      [] reader = "openai" -> OpenAIRow(l)

\* ingest.load: records and refused lines, or a refused file
Load(file) ==
    LET reader == Reader(file)
        lines == {i \in 1 .. Len(file.lines) : file.lines[i].shape # "blank"}
        bad == {i \in lines : file.lines[i].shape = "broken"
                                \/ Refused(Parsed(reader, file.lines[i]))}
    IN  IF ~Acceptable(file) \/ reader = NoValue
        THEN [ok |-> FALSE, records |-> {}, refused |-> {}]
        ELSE [ok |-> TRUE,
              records |-> {Record(Parsed(reader, file.lines[i]), i) : i \in lines \ bad},
              refused |-> bad]

\* validator.enforce: the file is audited
Enforced(r) ==
    LET valid == Cardinality(r.records)
        total == valid + Cardinality(r.refused)
    IN  r.ok /\ total > 0 /\ 100 * valid >= MinValidPct * total

-----------------------------------------------------------------------------
(* The SDK *)

\* extract._int: what is no count, and what is below zero, counts as nothing.
Tally(v) == IF IsCount(Coerced(v)) THEN Coerced(v) ELSE 0

\* extract_openai and extract_anthropic: the counts of a provider's answer, the
\* time it is read and the tag of init, and nothing else of it
Extracted(l, now, tag) ==
    LET disjoint == l.shape = "anthropic"
        prompt == Tally(l.in) + IF disjoint THEN Tally(l.cached) + Tally(l.written) ELSE 0
    IN  [shape |-> "sdk", model |-> l.model, ts |-> [kind |-> "text", n |-> now], tag |-> tag,
         id |-> NoValue, hash |-> NoValue, text |-> NoValue, max |-> NoValue,
         in |-> Num(prompt), out |-> Num(Tally(l.out)), cached |-> Num(Tally(l.cached)),
         written |-> IF disjoint THEN Num(Tally(l.written)) ELSE NoValue]

\* routes_ingest._validate_record: what is required is there, counts are whole
\* and bounded numbers, and a null is not an absent field.
Admitted(l) ==
    /\ NoValue \notin {l.ts, l.model, l.in, l.out}
    /\ l.ts.kind = "text"
    /\ \A v \in {l.in, l.out, l.cached, l.written, l.max} :
          v = NoValue \/ (v.kind = "int" /\ v.n \in 0 .. MaxCount)

\* A cell of the file that ingest writes
Cell(v) == IF v = NoValue THEN NoValue ELSE [v EXCEPT !.kind = "text"]

\* routes_ingest.ingest: one bad record turns the batch away; a good batch is
\* kept as a CSV file and read like any other.
Received(batch) ==
    LET written(l) == [l EXCEPT !.shape = "csv", !.in = Cell(@), !.out = Cell(@),
                                !.cached = Cell(@), !.written = Cell(@), !.max = Cell(@)]
    IN  IF \A i \in DOMAIN batch : Admitted(batch[i])
        THEN Load([ext |-> ".csv", size |-> 1, lines |-> [i \in DOMAIN batch |-> written(batch[i])]])
        ELSE [ok |-> FALSE, records |-> {}, refused |-> {}]

-----------------------------------------------------------------------------
(* The collector *)

\* transcripts.extract_records: a count that int cannot read raises, and ends the export.
Raises(e) ==
    \E v \in {e.in, e.cached, e.written, e.out} : Present(v) /\ Coerced(v) = NoValue

\* ... and the row of an event that reports usage
EventRow(e) ==
    LET count(v) == Num(IF Present(v) THEN v.n ELSE 0)
    IN  [shape |-> "anthropic", model |-> e.model, ts |-> e.ts, id |-> e.id, tag |-> e.session,
         hash |-> NoValue, text |-> NoValue, max |-> NoValue,
         in |-> count(e.in), cached |-> count(e.cached), written |-> count(e.written), out |-> count(e.out)]

Completeness(r) == r.in.n + r.cached.n + r.written.n + r.out.n

\* transcripts.dedupe_records: of the rows of one call the most complete is kept,
\* of equals the last; rows without an id all stay.
Deduped(rows) ==
    LET outranks(i, j) == \/ Completeness(rows[i]) > Completeness(rows[j])
                          \/ Completeness(rows[i]) = Completeness(rows[j]) /\ i > j
        kept == {i \in DOMAIN rows :
                    \/ rows[i].id = NoValue
                    \/ \A j \in DOMAIN rows \ {i} : rows[j].id = rows[i].id => outranks(i, j)}
    IN  [k \in 1 .. Cardinality(kept) |->
            rows[CHOOSE i \in kept : k = Cardinality({j \in kept : j <= i})]]

\* transcripts.export: the file the collector ships; an event that raises leaves none
Transcript(events) ==
    LET raised == \E i \in DOMAIN events : Raises(events[i])
    IN  [ext |-> ".jsonl", size |-> IF raised THEN 0 ELSE 1,
         lines |-> IF raised THEN <<>> ELSE Deduped([i \in DOMAIN events |-> EventRow(events[i])])]
=============================================================================
