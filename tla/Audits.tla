------------------------------- MODULE Audits -------------------------------
(***************************************************************************)
(* The table at work (Pricing) and the audits that read it: a log is read  *)
(* (Ingest) and analysed (Detectors) at the rates of the table, or the     *)
(* totals of an account are pulled from its provider (UsageClients).       *)
(*                                                                         *)
(* An audit changes nothing: it is a function of the log and of the table. *)
(* A behaviour is therefore either one of the table, with no audit, or a   *)
(* single state with one piece of work for the readers or the detectors    *)
(* and the table it is done with.                                          *)
(***************************************************************************)
EXTENDS Pricing, Detectors, UsageClients

CONSTANTS
    Made,        \* calls an application made, as records
    UsageLogs,   \* sets of records
    Pulls,       \* what a pull meets, and the rows it finds
    Overlays,    \* overlays of the table that audits meet
    LogDays      \* the days of the logs

IsRate(e) == \A k \in {"input", "output", "read", "write"} : e[k] \in Nat

\* A record of the normaliser's, and what it lets through
IsRecord(r) ==
    r = [row |-> r.row, ts |-> r.ts, model |-> r.model, id |-> r.id, tag |-> r.tag, hash |-> r.hash,
         max |-> r.max, prompt |-> r.prompt, completion |-> r.completion, cached |-> r.cached,
         written |-> r.written]
IsCall(r) ==
    /\ r.row \in Nat /\ r.ts \in Nat /\ r.model \in Models /\ DayOf(r) \in LogDays
    /\ {r.prompt, r.completion, r.cached, r.written} \subseteq Nat

\* The rows of a log are numbered; rates are not negative, and what has no rate on the
\* table has none on the card; d1_model_map leads to models; and the prompts of a day
\* count what they read from the cache, as the usage clients add it.
ASSUME AuditsAssumption ==
    /\ NoRate = NoValue
    /\ DayLength \in Nat \ {0} /\ HashSpan \in Nat
    /\ MinDays \in Nat /\ SpikeMult \in Nat /\ SpikeMult > 1
    /\ \A d \in LogDays : d \in Int
    /\ \A m \in DOMAIN Downgrade : Downgrade[m] \in Models
    /\ \A S \in UsageLogs :
          /\ IsFiniteSet(S) /\ \A r \in S : IsRecord(r) /\ IsCall(r) /\ \A q \in S : q.row = r.row => q = r
          /\ \A b \in Buckets(S) : b.cached <= b.prompt
    /\ \A b \in BaseRows : IsRate(b.rate)
    /\ \A o \in Overlays, m \in Models : \A r \in o[m] :
          r.from \in Int /\ r.rate # NoRate /\ IsRate(r.rate)

\* A call is the first of its file, was answered with a token or more, and counts in its
\* prompt what it read from the cache and wrote to it; the counts are within what the
\* SDK's door lets through, and the files within what the upload does.
ASSUME CallsAssumption ==
    /\ NoValue \notin {"openai", "anthropic", "csv"} /\ NoValue \notin Int
    /\ NoValue \notin [kind : {"int", "text", "null", "junk"}, n : Int]
    /\ SampleSize \in Nat \ {0} /\ MaxSize \in Nat \ {0} /\ MaxCount \in Nat
    /\ \A c \in Made :
          /\ IsRecord(c) /\ c.row = 1 /\ c.ts \in Nat \ {0}
          /\ c.id = <<"id", c.id[2]>> /\ NoValue \notin {c.id[2], c.model, c.tag}
          /\ c.max = NoValue \/ c.max \in Nat
          /\ c.cached \in Nat /\ c.written \in Nat
          /\ c.prompt \in (c.cached + c.written) .. MaxCount /\ c.completion \in 1 .. MaxCount

\* The use of a model on a day is reported once under each name, and comes to a token or
\* more.  A pull meets no more pages than a client follows; whole totals are on one page;
\* and a token on the last page is one the client has followed, of which Bedrock has none.
ASSUME PullsAssumption ==
    /\ QueryLimit \in Nat \ {0} /\ MaxPages \in Nat \ {0} /\ NoToken \notin Int
    /\ \A x \in Pulls :
          /\ x.provider \in Providers /\ IsFiniteSet(x.used)
          /\ \A u \in x.used :
                /\ u = [day |-> u.day, id |-> u.id, calls |-> u.calls, input |-> u.input,
                        read |-> u.read, write |-> u.write, output |-> u.output]
                /\ {u.calls, u.input, u.read, u.write, u.output} \subseteq Nat
                /\ u.input + u.read + u.write + u.output > 0
                /\ \A w \in x.used : w.day = u.day /\ w.id = u.id => w = u
                /\ \A b \in BOOLEAN : x.page[<<u.day, b>>] \in DOMAIN x.answers
                /\ x.provider \in WholeTotals => x.page[<<u.day, TRUE>>] = x.page[<<u.day, FALSE>>]
          /\ Len(x.answers) \in 1 .. MaxPages /\ DOMAIN x.answers = 1 .. Len(x.answers)
          /\ x.provider = "azure" => Len(x.answers) = 1
          /\ \/ x.stray = NoToken
             \/ x.provider # "bedrock" /\ x.stray \in 2 .. Len(x.answers)

VARIABLE work    \* [kind, of], or NoValue

auditVars == <<pricingVars, work>>

AuditInit ==
    \/ PricingInit /\ work = NoValue
    \/ /\ over \in Overlays
       /\ streak = NoStreak /\ sightings = NoStreak
       /\ feed = [m \in Models |-> NoRate]
       /\ usage = {} /\ day = FirstDay /\ slot = 1 /\ moves = 0 /\ failures = 0
       /\ work \in {[kind |-> "call", of |-> c] : c \in Made}
              \cup {[kind |-> "log", of |-> s] : s \in UsageLogs}
              \cup {[kind |-> "pull", of |-> x] : x \in Pulls}

AuditNext == work = NoValue /\ PricingNext /\ work' = work

AuditSpec == AuditInit /\ [][AuditNext]_auditVars

\* PricingTable.rate for the models and days of the logs
Card == [m \in Models |-> [d \in LogDays |-> Rate(Table(over), m, d)]]

Has(kind) == IF work = NoValue THEN FALSE ELSE work.kind = kind

-----------------------------------------------------------------------------
(* The same call, as the providers' exports and a CSV file write it *)

Shapes == {"openai", "anthropic", "csv"}

Export(c, shape) ==
    LET number(n) == [kind |-> IF shape = "csv" THEN "text" ELSE "int", n |-> n]
    IN  [shape |-> shape, model |-> c.model, ts |-> number(c.ts), id |-> c.id[2], tag |-> c.tag,
         hash |-> IF shape = "csv" THEN c.hash ELSE NoValue,
         text |-> IF shape = "csv" THEN NoValue ELSE c.hash,
         max |-> IF c.max = NoValue THEN NoValue ELSE number(c.max),
         in |-> number(IF shape = "anthropic" THEN c.prompt - c.cached - c.written ELSE c.prompt),
         out |-> number(c.completion), cached |-> number(c.cached), written |-> number(c.written)]

FileOf(line) ==
    [ext |-> IF line.shape = "csv" THEN ".csv" ELSE ".jsonl", size |-> 1, lines |-> <<line>>]

\* The events a transcript may hold of one call: the call while it is streamed, the
\* finished call, and the finished call again in the session that continues it
Events(c) ==
    LET whole == [model |-> c.model, ts |-> [kind |-> "text", n |-> c.ts], id |-> c.id[2], session |-> c.tag,
                  in |-> Num(c.prompt - c.cached - c.written), out |-> Num(c.completion),
                  cached |-> Num(c.cached), written |-> Num(c.written)]
        early == [whole EXCEPT !.ts.n = @ - 1, !.out = Num(0)]
        empty == [early EXCEPT !.out = [kind |-> "null", n |-> 0]]
    IN  {<<whole>>, <<early, whole>>, <<empty, whole, whole>>, <<whole, early>>, <<whole, empty, whole>>}

\* What was used is read the same whoever reports it.  One call gives one record,
\* whichever export it is in, whether the SDK saw the provider's answer, and however
\* often a transcript repeats it, as far as each of them can tell; with a count that
\* cannot be read it gives none, never a zero; and calls without writes to the cache,
\* which totals do not report, cost what the account's totals cost (openai_jsonl,
\* anthropic_jsonl, generic_csv, normalizer, sdk/extract, collector/transcripts,
\* coster.apply, source_audit.run_source_audit).
ReadAlike ==
    /\ Has("call") =>
        LET c == work.of
            counted == [c EXCEPT !.hash = NoValue, !.max = NoValue]
            seen(shape) == [counted EXCEPT !.id = <<"row", 1>>,
                                           !.written = IF shape = "openai" THEN 0 ELSE @]
            junk(shape, k) == [Export(c, shape) EXCEPT ![k] = [kind |-> "junk", n |-> 0]]
            unread(es, i, k) == [es EXCEPT ![i] = [@ EXCEPT ![k] = [kind |-> "junk", n |-> 0]]]
        IN  /\ \A s \in Shapes : Load(FileOf(Export(c, s))).records = {c}
            /\ \A s \in {"openai", "anthropic"} :
                  Received(<<Extracted(Export(c, s), c.ts, c.tag)>>).records = {seen(s)}
            /\ \A es \in Events(c) : Load(Transcript(es)).records = {counted}
            /\ \A k \in {"in", "out", "cached", "written"} :
                  /\ \A s \in Shapes : ~Enforced(Load(FileOf(junk(s, k))))
                  /\ \A es \in Events(c) : \A i \in DOMAIN es : ~Enforced(Load(Transcript(unread(es, i, k))))
    /\ Has("log") =>
        ((\A r \in work.of : r.written = 0 /\ r.cached <= r.prompt) =>
            Spend(work.of, Card) = AccountSpend(Buckets(work.of), Card))

\* A pull that succeeds leaves every day and model with the totals that were used,
\* however they were paged, named, cut into calls and repeated, as far as the
\* provider tells them, and pulling again changes nothing
\* (the fetch_usage of the five clients, pull.run_pull).
PullsCountOnce ==
    Has("pull") =>
        LET x == work.of
            new == Pull(x.rows, x)
            of(key) == {u \in x.used : <<u.day, Normal(x.provider, u.id)>> = key}
            sum(key, f(_)) == MapThenSumSet(f, of(key))
        IN  Outcome(x) = "read" =>
                /\ Pull(new, x) = new
                /\ \A key \in {<<u.day, Normal(x.provider, u.id)>> : u \in x.used} :
                       new[key] =
                         [calls |-> IF x.provider = "vertex" THEN 0 ELSE sum(key, LAMBDA u : u.calls),
                          prompt |-> sum(key, LAMBDA u : u.input + u.read + u.write),
                          completion |-> sum(key, LAMBDA u : u.output),
                          cached |-> IF x.provider \in {"azure", "vertex"} THEN 0
                                     ELSE sum(key, LAMBDA u : u.read)]

-----------------------------------------------------------------------------
(* Findings *)

\* No claim exceeds what the calls it names have cost, for a log and for the
\* totals of an account (the detectors' notes on conservative estimates).  D6
\* is left out: its median may count calls that sent less than it.
ClaimsWithinRows ==
    Has("log") =>
        /\ \A c \in Findings(work.of, Card) : c.by # "d6" => c.waste <= Unit * Spend(c.rows, Card)
        /\ LET B == Buckets(work.of)
           IN  \A c \in AccountFindings(B, Card, FALSE) : c.waste <= Unit * AccountSpend(c.rows, Card)

\* What is noise to a detector hides nothing from it.  A call that the log shows
\* twice under its request id is no retry and changes nothing that D4 finds; as long
\* as most days cost the same, every day of several times that is reported, and when
\* one of the reported days costs even more, all of them still are
\* (d4_retry_storm, d10_spend_anomaly).
NoiseHidesNothing ==
    Has("log") =>
        LET next == 1 + Max({r.row : r \in work.of})
            echo(r) == [r EXCEPT !.row = next, !.ts = r.ts + 1]
            days == DailySpend(work.of, Card)
            spikes == SpikeDays(work.of, Card)
            usual(c) == 2 * Cardinality({d \in days : d.spend = c}) > Cardinality(days)
            model(d) == CHOOSE m \in Models : Card[m][d] # NoRate
            more(d) == [(CHOOSE r \in work.of : DayOf(r) = d) EXCEPT
                            !.row = next, !.model = model(d), !.completion = 90]
        IN  /\ \A r \in work.of : D4(work.of \cup {echo(r)}, Card) = D4(work.of, Card)
            /\ \A c \in {d.spend : d \in days} :
                   (usual(c) /\ c > 0 /\ Cardinality(days) >= MinDays) =>
                       {d.row : d \in {x \in days : x.spend >= SpikeMult * c}} \subseteq spikes
            /\ \A d \in spikes : spikes \subseteq SpikeDays(work.of \cup {more(d)}, Card)
=============================================================================
