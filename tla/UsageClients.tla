---------------------------- MODULE UsageClients ----------------------------
(***************************************************************************)
(* The clients of the providers' usage APIs (services/connectors): how the *)
(* five of them log in, read page after page, and turn the answers into    *)
(* totals per day and model, and how a pull writes those totals into the   *)
(* rows of its source (pull.py).                                           *)
(*                                                                         *)
(* A usage [day, id, calls, input, read, write, output] is what a model    *)
(* was used for on a day, under a name the provider gives it.  A figure    *)
(* [day, id, field, n] is one number of an answer; input counts what was   *)
(* neither read from the cache nor written to it.  Left out: the signing   *)
(* of requests, time zones, and the rounding of sums sent as floats.       *)
(***************************************************************************)
EXTENDS Integers, Sequences, FiniteSets, SequencesExt

CONSTANTS
    NameOf,      \* names of models -> the name the price table knows
    QueryLimit,  \* queries in one call of GetMetricData
    MaxPages,    \* vertex_usage._MAX_PAGES
    NoToken

Providers == {"openai", "anthropic", "azure", "bedrock", "vertex"}

-----------------------------------------------------------------------------
(* What the APIs report *)

\* Three of them report all of a prompt as input.  OpenAI tells what was cached,
\* Azure does not, and Vertex does not count the calls either.
Shown(provider, u) ==
    LET whole == [u EXCEPT !.input = u.input + u.read + u.write, !.write = 0]
    IN  CASE provider = "openai" -> whole
          [] provider = "azure" -> [whole EXCEPT !.read = 0]
          [] provider = "vertex" -> [whole EXCEPT !.read = 0, !.calls = 0]
          [] OTHER -> u

Figures(provider, used) ==
    {[day |-> u.day, id |-> u.id, field |-> f, n |-> Shown(provider, u)[f]] :
        u \in used, f \in {"calls", "input", "read", "write", "output"}}

-----------------------------------------------------------------------------
(* Logging in *)

\* The parts of a stored credential, all of them needed: parse_credential
Required(provider) ==
    CASE provider = "azure" -> {"tenant_id", "client_id", "client_secret", "resource_id"}
      [] provider = "bedrock" -> {"access_key_id", "secret_access_key", "region"}
      [] provider = "vertex" -> {"client_email", "private_key", "token_uri", "project_id"}
      [] OTHER -> {"api_key"}

\* An answer [status, type] is read, or it refuses the credential (a
\* ConnectorAuthError), or it is an error of some other kind.
KeyAnswer(a) ==
    IF a.status = 200 THEN "read" ELSE IF a.status \in {401, 403} THEN "refused" ELSE "failed"

\* bedrock_usage._call: AWS says by a type what a 400 is about.
SignedAnswer(a) ==
    IF a.status = 200 THEN "read"
    ELSE IF a.status = 403 \/ (a.status = 400 /\ a.type # "other") THEN "refused" ELSE "failed"

\* The exchange of Azure's and of Google's grants for a token
TokenAnswer(a) ==
    IF a.status = 400 \/ (a.status = 200 /\ a.type = "no token") THEN "refused" ELSE KeyAnswer(a)

Answer(provider, a) == IF provider = "bedrock" THEN SignedAnswer(a) ELSE KeyAnswer(a)

\* What comes before the figures: a token, or Bedrock's list of names
Login(provider, a) ==
    CASE provider \in {"azure", "vertex"} -> TokenAnswer(a)
      [] provider = "bedrock" -> SignedAnswer(a)
      [] OTHER -> "read"

-----------------------------------------------------------------------------
(* Reading page after page *)

\* The providers that send whole totals, and say whether there are more
WholeTotals == {"openai", "anthropic"}

\* Mutant of Unheard: a token that was followed before is followed again.
UnheardOrNot(seen, token) == Len(seen) < MaxPages

\* vertex_usage._fetch breaks on a repeated token, and at the page limit.
Unheard(seen, token) == token \notin Range(Tail(seen)) /\ Len(seen) < MaxPages

\* After the pages seen, the last of them page, the client asks for another.
GoesOn(provider, seen, page) ==
    /\ provider # "azure"
    /\ page.next # NoToken
    /\ provider \in WholeTotals => page.more
    /\ provider = "vertex" => Unheard(seen, page.next)

\* The pages a client reads: a token is the number of a page, the first of which
\* needs none.  "pages" is finite and only Vertex's tokens may repeat.
Seen(provider, pages) ==
    LET walk[k \in 1 .. MaxPages] ==
            IF k = 1 THEN <<1>>
            ELSE LET seen == walk[k - 1]
                     page == pages[Last(seen)]
                 IN  IF /\ Len(seen) = k - 1
                        /\ Answer(provider, page.answer) = "read"
                        /\ GoesOn(provider, seen, page)
                     THEN Append(seen, page.next) ELSE seen
    IN  walk[MaxPages]

\* What is heard on the pages: a figure on two of them is heard twice.
Heard(pages, seen) ==
    UNION {{[figure |-> f, at |-> i] : f \in pages[seen[i]].figures} : i \in 1 .. Len(seen)}

\* _list_model_ids: the names that have figures, which only Bedrock has to ask for
NamesListed(x) == {u.id : u \in x.used}

\* bedrock_usage._fetch: five queries for every listed name, sent QueryLimit at a
\* time; the others ask for everything at once.
Metrics == <<"calls", "input", "output", "read", "write">>
Chunks(provider, ids) ==
    LET names == SetToSeq(ids)
        query(i) == <<names[1 + i \div 5], Metrics[1 + (i % 5)]>>
        queries == 0 .. 5 * Cardinality(ids) - 1
    IN  IF provider = "bedrock"
        THEN {{query(i) : i \in {j \in queries : j \div QueryLimit = c}} :
                c \in {j \div QueryLimit : j \in queries}}
        ELSE {ids \X Range(Metrics)}

-----------------------------------------------------------------------------
(* Totals *)

\* normalize_model_id: regions, paths and versions are no part of a name.
Normal(provider, id) == IF provider \in {"bedrock", "vertex"} THEN NameOf[id] ELSE id

\* The last of whole totals wins (run_pull); the figures of the others add up.
Tallied(provider, heard) ==
    IF provider \in WholeTotals THEN {h \in heard : \A g \in heard : g.at <= h.at} ELSE heard

\* openai_usage.parse_page: its prompts include what was cached.
OpenAIBucket(sum) ==
    [calls |-> sum.calls, prompt |-> sum.input, completion |-> sum.output,
     cached |-> sum.read]

\* anthropic_usage.parse_page: three disjoint counts make the prompt.
AnthropicBucket(sum) ==
    [OpenAIBucket(sum) EXCEPT !.prompt = sum.input + sum.read + sum.write]

\* azure_usage.parse_metrics: three metrics, none of them about caching
AzureBucket(sum) == [OpenAIBucket(sum) EXCEPT !.cached = 0]

\* vertex_usage.parse_series: one metric, split into input and output
VertexBucket(sum) == [AzureBucket(sum) EXCEPT !.calls = 0]

\* A UsageBucket, from everything heard for one day and model
Bucket(provider, heard) ==
    LET figures(f) == {h \in Tallied(provider, heard) : h.figure.field = f}
        sum == [f \in Range(Metrics) |-> MapThenSumSet(LAMBDA h : h.figure.n, figures(f))]
    IN  CASE provider = "openai" -> OpenAIBucket(sum)
          [] provider \in {"anthropic", "bedrock"} -> AnthropicBucket(sum)
          [] provider = "azure" -> AzureBucket(sum)
          [] provider = "vertex" -> VertexBucket(sum)

\* parse_metric_data and the other parsers: a figure of zero makes no bucket.
Telling(provider, heard) == {h \in heard : provider \in WholeTotals \/ h.figure.n > 0}

BucketsOf(provider, heard) ==
    LET key(h) == <<h.figure.day, Normal(provider, h.figure.id)>>
    IN  [k \in {key(h) : h \in Telling(provider, heard)} |-> Bucket(provider, {h \in heard : key(h) = k})]

-----------------------------------------------------------------------------
(* A pull: the client's fetch_usage and run_pull *)

\* What a pull x meets: the parts of its credential, the answer to its login (to
\* Bedrock's list of names), and the pages that the figures of a chunk are sent on.
Served(x, chunk) ==
    LET figures == {f \in Figures(x.provider, x.used) : <<f.id, f.field>> \in chunk}
        last == Len(x.answers)
    IN  [i \in 1 .. last |->
            [figures |-> {f \in figures : x.page[<<f.day, f.field = "output">>] = i},
             answer |-> x.answers[i],
             next |-> IF i < last THEN i + 1 ELSE x.stray,
             more |-> i < last]]

\* "read", "refused" (a ConnectorAuthError) or "failed"
Outcome(x) ==
    LET pages == UNION {LET served == Served(x, c)
                        IN  {served[i] : i \in Range(Seen(x.provider, served))} :
                            c \in Chunks(x.provider, NamesListed(x))}
        answers == {Answer(x.provider, p.answer) : p \in pages}
    IN  IF ~(Required(x.provider) \subseteq x.credential) THEN "refused"
        ELSE IF Login(x.provider, x.login) # "read" THEN Login(x.provider, x.login)
        ELSE IF answers \subseteq {"read"} THEN "read" ELSE CHOOSE a \in answers : a # "read"

\* The rows of the source afterwards: each bucket replaces the row of its day and
\* model, and a fetch that raises leaves them all.
Pull(rows, x) ==
    LET heard == UNION {LET served == Served(x, c)
                        IN  {[figure |-> h.figure, at |-> h.at] :
                                h \in Heard(served, Seen(x.provider, served))} :
                            c \in Chunks(x.provider, NamesListed(x))}
        buckets == BucketsOf(x.provider, heard)
    IN  IF Outcome(x) # "read" THEN rows
        ELSE [key \in DOMAIN buckets \cup DOMAIN rows |->
                IF key \in DOMAIN buckets THEN buckets[key] ELSE rows[key]]
=============================================================================
