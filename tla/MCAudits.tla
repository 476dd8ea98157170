------------------------------ MODULE MCAudits ------------------------------
EXTENDS Audits

Ids == {"gpt", "mini", "mini-2024"}
Family == [m \in Ids |-> IF m = "mini-2024" THEN "mini" ELSE m]
R(p, c) == [input |-> p, output |-> 2 * p, read |-> c, write |-> p + 1]
BaseCard == {[model |-> "gpt", from |-> 1, rate |-> R(10, 1)],
             [model |-> "gpt", from |-> 5, rate |-> R(12, 1)]}
FeedRates == [m \in Ids |->
    CASE m = "gpt" -> {R(12, 2), R(30, 1), R(50, 1)}
      [] m = "mini" -> {R(5, 1), R(12, 1)}
      [] m = "mini-2024" -> {NoRate, R(6, 1), R(20, 1)}]
Day == <<"cover", "refresh", "cover">>

MiniFrom(d) == [m \in Ids |-> IF m = "mini" THEN {[from |-> d, rate |-> R(5, 1)]} ELSE {}]
Covers == {MiniFrom(4)}
LogDates == 3 .. 7
Downgrades == [m \in {"gpt"} |-> "mini"]
Frontiers == {"gpt", "mini-2024"}

\* Calls: what a call is like, and when it was made
Kind(m, p, c, ca, w, h, t) ==
    [model |-> m, prompt |-> p, completion |-> c, cached |-> ca, written |-> w, hash |-> h,
     tag |-> t, max |-> IF t = "a" THEN 90 ELSE NoValue]
Kinds == {Kind("gpt", 4, 1, 0, 0, "h", "a"), Kind("gpt", 4, 1, 0, 0, NoValue, "a"),
          Kind("gpt", 20, 1, 18, 0, "h", "a"), Kind("gpt", 6, 8, 0, 4, NoValue, "b"),
          Kind("mini", 2, 1, 0, 0, NoValue, "a"), Kind("mini-2024", 20, 1, 0, 0, "h", "b"),
          Kind("mini", 3, 9, 1, 2, NoValue, "")}
Call(i, k, at, n) ==
    [row |-> i, ts |-> at, id |-> <<"id", n>>, tag |-> k.tag, hash |-> k.hash, max |-> k.max,
     model |-> k.model, prompt |-> k.prompt, completion |-> k.completion,
     cached |-> k.cached, written |-> k.written]
Ats == {60, 61, 70, 80}
Mixed == {{Call(i, ks[i], ts[i], i) : i \in 1 .. 3} :
            ks \in [1 .. 3 -> Kinds], ts \in {<<60, 60, 61>>, <<60, 61, 80>>, <<60, 70, 80>>, <<61, 80, 100>>}}
Bursty == {{Call(i, IF i = odd THEN b ELSE a, ts[i], IF i = twin THEN 1 ELSE i) : i \in 1 .. 5} :
            a \in Kinds, b \in Kinds, odd \in {3, 5}, twin \in {2, 6},
            ts \in {<<60, 61, 62, 70, 80>>, <<60, 60, 61, 61, 62>>, <<60, 64, 68, 69, 75>>, <<78, 79, 80, 81, 82>>}}
Daily == {{Call(d, [Kind("gpt", 1, f[d], 0, 0, NoValue, "a") EXCEPT !.tag = IF d = 1 THEN "a" ELSE "b"],
                20 * (d + 2), d) : d \in 1 .. 5} : f \in [1 .. 5 -> {0, 1, 30}]}
AllLogs == Mixed \cup Bursty \cup Daily

CallsMade == {Call(1, k, at, 1) : k \in Kinds, at \in Ats}

\* Pulls: two names of one model, two days, up to three pages, one thing wrong
Names == [i \in {"us.claude-v1", "claude", "gpt"} |-> IF i = "gpt" THEN i ELSE "claude"]
Usage(d, i, n) == [day |-> d, id |-> i, calls |-> n, input |-> 2 * n, read |-> 10 * n, write |-> 3, output |-> 5]
Useds == {{Usage(4, "gpt", 1), Usage(4, "claude", 2), Usage(5, "gpt", 1)},
          {Usage(4, "us.claude-v1", 1), Usage(4, "claude", 2), Usage(5, "claude", 4)},
          {Usage(5, "us.claude-v1", 1), Usage(5, "claude", 1)}}
Good == [status |-> 200, type |-> ""]
Bad(s, t) == [status |-> s, type |-> t]
OneWrong == {Bad(400, "other"), Bad(400, "AccessDenied"), Bad(401, ""), Bad(403, ""), Bad(500, "")}
Replies == {<<Good>>, <<Good, Good>>, <<Good, Good, Good>>} \cup {<<Good, f, Good>> : f \in OneWrong}
Cuts(n) == {[k \in (4 .. 5) \X BOOLEAN |-> 1],
            [k \in (4 .. 5) \X BOOLEAN |-> IF k[1] = 5 THEN n ELSE 1],
            [k \in (4 .. 5) \X BOOLEAN |-> IF k[2] /\ n > 1 THEN 2 ELSE n]}
Before == [k \in {<<4, "gpt">>, <<3, "claude">>} |-> [calls |-> 1, prompt |-> 9, completion |-> 9, cached |-> 0]]
Served1(p, u, a) ==
    {[provider |-> p, used |-> u, credential |-> Required(p), login |-> Good, answers |-> a, page |-> g,
      stray |-> s, rows |-> Before] :
        g \in {c \in Cuts(Len(a)) : p \in {"openai", "anthropic"} => \A d \in 4 .. 5 : c[<<d, TRUE>>] = c[<<d, FALSE>>]},
        s \in IF p # "bedrock" /\ Len(a) > 1 THEN {NoToken, 2} ELSE {NoToken}}
AllServed == UNION {Served1(p, u, a) : p \in Providers \ {"azure"}, u \in Useds, a \in Replies}
               \cup UNION {Served1("azure", u, <<a>>) : u \in Useds, a \in OneWrong \cup {Good}}
TurnedAway == {[x EXCEPT !.login = l] : x \in {y \in AllServed : y.answers = <<Good>>},
                l \in OneWrong \cup {Bad(200, "no token")}}
Partial == {[x EXCEPT !.credential = {}] : x \in {y \in AllServed : y.answers = <<Good>>}}
AllPulls == AllServed \cup TurnedAway \cup Partial
=============================================================================
