----------------------------- MODULE Detectors -----------------------------
(***************************************************************************)
(* What an audit computes from the records of a log: the cost of every     *)
(* call (services/pricing/coster.py), the waste the detectors D1 .. D10    *)
(* claim (services/rules), the totals of the report                        *)
(* (services/report/model.py), and the same for the daily totals of a      *)
(* connected account (rules/aggregate.py, connectors/source_audit.py).     *)
(*                                                                         *)
(* A log is a set of records with a row number of their own.  A card t     *)
(* gives the rates [input, output, read, write] of a model on a day, or    *)
(* NoValue.  Money is an integer: a claim is counted in Unit-ths of the    *)
(* currency, rounded down.  The factor from the observed days to a month   *)
(* is common to all claims and to the spend, and is left out, as are the   *)
(* texts, the severities and the evidence of a finding; tag stands for the *)
(* route (tag and endpoint), model for provider and model.                 *)
(***************************************************************************)
EXTENDS Ingest, FiniteSetsExt

CONSTANTS
    DayLength,     \* timestamps in a day
    Downgrade,     \* settings.d1_model_map, a function on the mapped models
    Frontier,      \* the frontier models: its domain and D1_FRONTIER_MODELS
    ShortCompletion,            \* d1_short_completion_t
    MinRepeats, MinPrompt, HashSpan, TtlWindow,   \* d2_*
    BloatMult,                  \* d3_bloat_mult
    StormWindow, DupMin,        \* d4_*
    MaxRatio,                   \* d5_max_ratio
    LoopMin, BatchSize, SmallCompletion, RunWindow, SessionGap, \* d6_*
    MinShare,                   \* d8_concentration_min_share, in per cent
    MinWritten,                 \* d9_min_cache_write_tokens
    MinDays, SpikeMult,         \* d10_*
    Floor                       \* min_finding_monthly_usd, in Units

Unit == 60

DayOf(r) == r.ts \div DayLength
RateOf(t, r) == t[r.model][DayOf(r)]

Groups(S, key(_)) == {{r \in S : key(r) = k} : k \in {key(r) : r \in S}}

\* The rows of S by the number f, then by row number
Sorted(S, f(_)) ==
    [i \in 1 .. Cardinality(S) |-> CHOOSE r \in S :
        i = Cardinality({q \in S : f(q) < f(r) \/ (f(q) = f(r) /\ q.row <= r.row)})]

\* 20 times the q/20 quantile of f over S, by linear interpolation (pandas)
Quantile(S, f(_), q) ==
    LET s == Sorted(S, f)
        at == q * (Len(s) - 1)
        lo == f(s[1 + at \div 20])
        hi == IF at % 20 = 0 THEN lo ELSE f(s[2 + at \div 20])
    IN  20 * lo + (at % 20) * (hi - lo)

-----------------------------------------------------------------------------
(* Costs: coster.apply *)

NotNegative(n) == IF n > 0 THEN n ELSE 0
Uncached(r) == NotNegative(r.prompt - r.cached - r.written)

\* What the prompt of r cost at a rate
PromptCost(r, rate) ==
    Uncached(r) * rate.input + r.cached * rate.read + r.written * rate.write

CostAt(r, rate) == PromptCost(r, rate) + r.completion * rate.output

Priced(S, t) == {r \in S : RateOf(t, r) # NoValue}
Spend(S, t) == MapThenSumSet(LAMBDA r : CostAt(r, RateOf(t, r)), Priced(S, t))

-----------------------------------------------------------------------------
(* Claims: [by, rows, waste] *)

Claim(by, rows, waste) == [by |-> by, rows |-> rows, waste |-> waste]
Claims(by, S, waste(_)) == {c \in {Claim(by, g, waste(g)) : g \in S} : c.waste > 0}
Pointers(by, S) == {Claim(by, g, 0) : g \in S}

\* D1: short answers of a frontier model, repriced one tier down.
D1Suspects(S) ==
    {g \in Groups(S, LAMBDA r : <<r.tag, r.model>>) :
        /\ \A r \in g : r.model \in Frontier /\ r.cached = 0 /\ r.written = 0
        /\ Quantile(g, LAMBDA r : r.completion, 10) < 20 * ShortCompletion}

\* Both cards are known for every row of a bucket
Repriceable(g, t) ==
    \A r \in g : /\ r.model \in DOMAIN Downgrade
                 /\ RateOf(t, r) # NoValue
                 /\ t[Downgrade[r.model]][DayOf(r)] # NoValue

D1(S, t) ==
    LET cheaper(r) == t[Downgrade[r.model]][DayOf(r)]
    IN  Claims("d1", {g \in D1Suspects(S) : Repriceable(g, t)},
               LAMBDA g : Unit * (Spend(g, t) - MapThenSumSet(LAMBDA r : CostAt(r, cheaper(r)), g)))
        \cup Pointers("d1", {g \in D1Suspects(S) : ~Repriceable(g, t)})

\* D2: a prefix sent again and again without caching it.
D2Suspects(S) ==
    LET fit == {r \in S : r.cached = 0 /\ r.written = 0 /\ r.prompt >= MinPrompt}
        same(r) == IF r.hash # NoValue THEN <<r.model, "hash", r.hash>> ELSE <<r.model, "size", r.prompt>>
    IN  {g \in Groups(fit, same) : Cardinality(g) >= MinRepeats}

\* Tokens of the prefix, in fifths: a hash vouches for its span, a size for 0.8.
Cacheable(g) ==
    LET least == Min({r.prompt : r \in g})
    IN  IF \A r \in g : r.hash # NoValue THEN 5 * Min({least, HashSpan}) ELSE 4 * least

\* The first call of every window of the cache's life pays for a write.
Writes(g) ==
    {r \in g : \A q \in g : q.ts \div TtlWindow = r.ts \div TtlWindow =>
                    (q.ts > r.ts \/ (q.ts = r.ts /\ q.row >= r.row))}

D2(S, t) ==
    LET gain(g) == MapThenSumSet(LAMBDA r : RateOf(t, r).input - RateOf(t, r).read, g \ Writes(g))
        loss(g) == MapThenSumSet(LAMBDA r : RateOf(t, r).write - RateOf(t, r).input, Writes(g))
    IN  Claims("d2", {g \in D2Suspects(S) : g = Priced(g, t) /\ g # Writes(g)},
               LAMBDA g : (Unit * Cacheable(g) * (gain(g) - loss(g))) \div 5)

\* D3: a route whose prompts are far above those of answers of the same size.
SizeBin(r) == CHOOSE k \in 0 .. r.completion : 2^k <= Max({r.completion, 1}) /\ Max({r.completion, 1}) < 2^(k + 1)
Norm(S, r) == Quantile({q \in S : SizeBin(q) = SizeBin(r)}, LAMBDA q : q.prompt, 10)
Excess(S, r) == NotNegative(20 * r.prompt - Norm(S, r))

\* Mutant of Removable: tokens read from the cache count at the full rate.
RemovableFlat(S, r, t) == (Unit * Excess(S, r) * RateOf(t, r).input) \div 40

\* Half of the excess, at what the row paid for a prompt token
Removable(S, r, t) == (Unit * Excess(S, r) * PromptCost(r, RateOf(t, r))) \div (40 * r.prompt)

D3(S, t) ==
    LET above(g) == {r \in g : Excess(S, r) > 0}
        bloated == {g \in Groups(S, LAMBDA r : <<r.tag, SizeBin(r)>>) :
                        \E r \in g : /\ Norm(S, r) > 0
                                     /\ Quantile(g, LAMBDA q : q.prompt, 18) > BloatMult * Norm(S, r)}
    IN  Claims("d3", {g \in bloated : above(g) = Priced(above(g), t)},
               LAMBDA g : MapThenSumSet(LAMBDA r : Removable(S, r, t), above(g)))

\* base.split_on_gap: sessions of a route, parted by silence
Sessions(S) ==
    LET first(g) == {r \in g : ~\E q \in g : q.ts < r.ts /\ r.ts - q.ts <= SessionGap}
        since(g, s) == {r \in g : s <= r.ts /\ ~\E q \in first(g) : s < q.ts /\ q.ts <= r.ts}
    IN  UNION {{since(g, r.ts) : r \in first(g)} : g \in Groups(S, LAMBDA r : r.tag)}

\* Rows that follow the first of them within the window, then the next of the rest
Bursts(S, window) ==
    LET s == Sorted(S, LAMBDA r : r.ts)
        head[i \in 1 .. Len(s)] ==
            IF i = 1 THEN 1
            ELSE IF s[i].ts - s[head[i - 1]].ts > window THEN i ELSE head[i - 1]
    IN  {{s[i] : i \in {j \in 1 .. Len(s) : head[j] = h}} : h \in {head[i] : i \in 1 .. Len(s)}}

\* Mutant of Calls: every line of the log is a call of its own.
CallsEachLine(S) == {r \in S : r.cached = 0 /\ r.written = 0}

\* D4 looks at calls without cache activity, and once at each request id.
Calls(S) ==
    LET blind == {r \in S : r.cached = 0 /\ r.written = 0}
    IN  {r \in blind : ~\E q \in blind : q.id = r.id /\ q.row < r.row}

\* D4: near-identical calls in a burst, all but one of them wasted.
D4(S, t) ==
    LET identity(r) == IF r.hash # NoValue THEN <<r.model, "hash", r.hash>>
                       ELSE <<r.model, "size", r.prompt, r.completion>>
        waste(b) == LET n == Cardinality(Priced(b, t)) IN (Unit * (n - 1) * Spend(b, t)) \div n
        storms(session) ==
            {b \in UNION {Bursts(g, StormWindow) : g \in Groups(session, identity)} :
                Cardinality(b) >= DupMin /\ Cardinality(Priced(b, t)) > 1 /\ Spend(b, t) > 0}
    IN  {c \in {Claim("d4", UNION storms(x), MapThenSumSet(waste, storms(x))) : x \in Sessions(Calls(S))} :
            c.waste > 0}

\* D5: a declared maximum far above what is ever answered.
D5(S) ==
    LET declared == {r \in S : r.max # NoValue}
        most(g) == Quantile(g, LAMBDA r : r.completion, 19)
    IN  Pointers("d5", {g \in Groups(declared, LAMBDA r : r.tag) :
            most(g) > 0 /\ Quantile(g, LAMBDA r : r.max, 10) >= MaxRatio * most(g)})

\* findings.effective_prompt_rate, as a fraction
Effective(r, rate) == IF r.prompt = 0 THEN <<rate.input, 1>> ELSE <<PromptCost(r, rate), r.prompt>>

\* D6: small calls in a row that could share their context; runs that save nothing
\* are left out.
D6(S, t) ==
    LET saved(b) == Cardinality(b) - (Cardinality(b) + BatchSize - 1) \div BatchSize
        rates(b) == {Effective(r, RateOf(t, r)) : r \in b}
        least(b) == CHOOSE e \in rates(b) : \A d \in rates(b) : e[1] * d[2] <= d[1] * e[2]
        shared(b) == saved(b) * Quantile(b, LAMBDA r : r.prompt, 10) * least(b)[1]
        waste(b) == (Unit * shared(b)) \div (20 * least(b)[2])
        runs(x) == {b \in Bursts({r \in x : r.completion < SmallCompletion}, RunWindow) :
                        Cardinality(b) >= LoopMin /\ b = Priced(b, t) /\ shared(b) > 0}
    IN  {c \in {Claim("d6", UNION runs(x), MapThenSumSet(waste, runs(x))) : x \in Sessions(S)} : c.waste > 0}

\* D8: a named route with most of the spend, if there is another.
D8(S, t) ==
    LET routes == {g \in Groups(Priced(S, t), LAMBDA r : r.tag) : \A r \in g : r.tag # ""}
    IN  IF Spend(S, t) = 0 \/ Cardinality(routes) < 2 THEN {}
        ELSE Pointers("d8", {g \in routes : 100 * Spend(g, t) >= MinShare * Spend(S, t)})

\* D9: writes to the cache that the reads do not pay back.
D9(S, t) ==
    LET active == {r \in S : r.written > 0}
        written(g) == MapThenSumSet(LAMBDA r : r.written, g)
        loss(r) == LET e == RateOf(t, r)
                   IN  (e.write - e.input) * r.written - (e.input - e.read) * r.cached
    IN  Claims("d9", {g \in Groups(active, LAMBDA r : <<r.model, r.tag>>) :
                        written(g) >= MinWritten /\ g = Priced(g, t)},
               LAMBDA g : Unit * MapThenSumSet(loss, g))

\* The spend of every day that has a priced row
DailySpend(S, t) ==
    {[row |-> DayOf(CHOOSE r \in g : TRUE), spend |-> Spend(g, t)] :
        g \in Groups(Priced(S, t), LAMBDA r : DayOf(r))}

\* 20 times the median day
Typical(days) == Quantile(days, LAMBDA d : d.spend, 10)

\* 20 times what a day is above the median day, and how far it is from it
Above(days, d) == 20 * d.spend - Typical(days)
Deviation(days, d) == IF Above(days, d) < 0 THEN -Above(days, d) ELSE Above(days, d)

\* D10: days at least 3.5 robust deviations (3.5 * 1.4826 = 5.189 MADs) above
\* the median and a multiple of it; with no deviation at all the multiple decides.
SpikeDays(S, t) ==
    LET days == DailySpend(S, t)
        mad == Quantile(days, LAMBDA d : Deviation(days, d), 10)    \* 400 MADs
    IN  IF Cardinality(days) < MinDays THEN {}
        ELSE IF Typical(days) = 0 THEN {}
        ELSE {d.row : d \in {x \in days : /\ Above(days, x) > 0
                                          /\ mad > 0 => 20000 * Above(days, x) >= 5189 * mad
                                          /\ 20 * x.spend >= SpikeMult * Typical(days)}}
D10(S, t) == Pointers("d10", {{r \in Priced(S, t) : DayOf(r) = d} : d \in SpikeDays(S, t)})

-----------------------------------------------------------------------------
(* The report *)

\* registry.run_all: dust is dropped, pointers stay.
Findings(S, t) ==
    {c \in UNION {D1(S, t), D2(S, t), D3(S, t), D4(S, t), D5(S), D6(S, t), D8(S, t), D9(S, t), D10(S, t)} :
        c.waste = 0 \/ c.waste >= Floor}

-----------------------------------------------------------------------------
(* A connected account: totals per day and model instead of calls *)

\* What the provider reports of the calls S
Buckets(S) ==
    {LET r == CHOOSE r \in g : TRUE
     IN  [row |-> DayOf(r), ts |-> DayOf(r) * DayLength, model |-> r.model, calls |-> Cardinality(g),
          prompt |-> MapThenSumSet(LAMBDA q : q.prompt, g),
          completion |-> MapThenSumSet(LAMBDA q : q.completion, g),
          cached |-> MapThenSumSet(LAMBDA q : q.cached, g)] :
        g \in Groups(S, LAMBDA r : <<r.model, DayOf(r)>>)}

\* aggregate._bucket_cost and the spend of source_audit.run_source_audit
BucketPrompt(b, rate) == NotNegative(b.prompt - b.cached) * rate.input + b.cached * rate.read
BucketCost(b, rate) == BucketPrompt(b, rate) + b.completion * rate.output
AccountSpend(B, t) == MapThenSumSet(LAMBDA b : BucketCost(b, RateOf(t, b)), Priced(B, t))

ByModel(B) == Groups(B, LAMBDA b : b.model)

\* d1_aggregate: answers short on the average
D1A(B, t) ==
    LET total(g, f(_)) == MapThenSumSet(f, g)
        cheaper(b) == t[Downgrade[b.model]][DayOf(b)]
    IN  Claims("d1", {g \in ByModel(B) :
                        /\ \A b \in g : b.model \in DOMAIN Downgrade
                        /\ total(g, LAMBDA b : b.completion)
                             < ShortCompletion * total(g, LAMBDA b : b.calls)
                        /\ Repriceable(g, t)},
               LAMBDA g : Unit * (AccountSpend(g, t) - total(g, LAMBDA b : BucketCost(b, cheaper(b)))))

\* d2_aggregate: the days below the best share of cached tokens
D2A(B, t) ==
    LET asked(g) == {b \in g : b.prompt > 0}
        best(g) == CHOOSE b \in asked(g) : \A c \in asked(g) : c.cached * b.prompt <= b.cached * c.prompt
        short(g, b) == NotNegative(best(g).cached * b.prompt - b.cached * best(g).prompt)
        gain(g, b) == LET e == RateOf(t, b)
                      IN  (Unit * 4 * short(g, b) * (e.input - e.read)) \div (5 * best(g).prompt)
    IN  Claims("d2", {g \in ByModel(B) : asked(g) # {}},
               LAMBDA g : MapThenSumSet(LAMBDA b : gain(g, b), Priced(asked(g), t)))

\* d3_aggregate: the days whose average prompt is far above the median day's
D3A(B, t) ==
    LET average(b) == (Unit * b.prompt) \div b.calls
        base(g) == Quantile(g, average, 10)
        bloated(g) == {b \in Priced(g, t) : b.prompt > 0 /\ 20 * average(b) > BloatMult * base(g)}
        gain(g, b) == ((20 * average(b) - base(g)) * b.calls * BucketPrompt(b, RateOf(t, b)))
                        \div (20 * b.prompt)
    IN  Claims("d3", {g \in ByModel(B) : Cardinality(g) >= 3 /\ base(g) > 0},
               LAMBDA g : MapThenSumSet(LAMBDA b : gain(g, b), bloated(g)))

\* run_aggregate_detectors; a provider that reports no cached tokens has no D2.
AccountFindings(B, t, cacheBlind) ==
    D1A(B, t) \cup (IF cacheBlind THEN {} ELSE D2A(B, t)) \cup D3A(B, t)
=============================================================================
