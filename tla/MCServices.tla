----------------------------- MODULE MCServices -----------------------------
(* Small instances of the programs and components that share a store or a    *)
(* connection with others of their own kind but run on their own: a          *)
(* behaviour is one of them at work, and all others stay as they began.      *)
EXTENDS EvaluationBudget, Serve, HttpProxy, HttpClient, TrendCache, Salt, Share, Gates,
        Guidance, TLC

VARIABLE subject  \* the program at work

Subjects == {"budget", "serve", "http proxy", "http client", "trends", "salt", "share",
             "gates", "guidance"}

-----------------------------------------------------------------------------
(* Serve: a probe, a query, and a request with two defects.                  *)
MCRequests ==
    {[defects |-> {}, method |-> "tools/call", tool |-> t, fits |-> TRUE] :
        t \in {"run_probe", "list_findings"}}
    \cup {[defects |-> {"garbled", "foreign_host"}, method |-> "none", tool |-> "none", fits |-> TRUE]}

(* HttpProxy: requests let in or not, and a body that is no JSON-RPC.        *)
MCBodies ==
    {[admitted |-> TRUE, kind |-> k, id |-> 1] : k \in {"request", "unparsed"}}
    \cup {[admitted |-> FALSE, kind |-> "request", id |-> 1]}

(* HttpClient: one answer as JSON, or messages before it in a stream.        *)
Sent(k, own) == [kind |-> k, own |-> own]
Json(f) == [stream |-> FALSE, frames |-> <<f>>]
Events(fs) == [stream |-> TRUE, frames |-> fs]
MCMessages ==
    {Sent(k, TRUE) : k \in {"result", "tool_error", "error", "cancelled"}}
    \cup {Sent("result", FALSE), Sent("roots", TRUE)}
MCScripts ==
    {Json(f) : f \in MCMessages} \cup {Events(<<f>>) : f \in MCMessages} \cup {Events(<<>>)}
    \cup {Events(<<Sent(k, own), Sent(r, TRUE)>>) :
             k \in {"roots", "sampling"}, own \in BOOLEAN, r \in {"result", "error"}}
    \cup {Events(<<Sent("roots", FALSE), Sent("roots", TRUE), Sent("result", TRUE)>>)}

(* TrendCache: two runs of one server.                                       *)
MCPoints == {[server |-> "a", ts |-> t] : t \in 1 .. 2}

-----------------------------------------------------------------------------
(* Gates: reports that differ from one another in one respect.               *)
\* A schema says "wide" or "narrow", directly, below a reference or in its
\* items; or hides a narrow enum, has one beside a reference, or reaches it by
\* more references than are followed.
MCAccepts(meaning) == {v \in Values : v = 1 \/ \A m \in meaning : "narrow" \notin {m.says, m.hidden}}

Object(says, hidden, ref) == [says |-> says, hidden |-> hidden, ref |-> ref]
Says(w) == Object(w, "nothing", "none")
Refers == Object("nothing", "nothing", "#/$defs/d")
Plain(w) == [p \in {<<>>} |-> Says(w)]
Hides == [p \in {<<>>} |-> Object("wide", "narrow", "none")]
Through(first, w) == [p \in {<<>>, <<"$ref">>} |-> IF p = <<>> THEN first ELSE Says(w)]
Items(w) == [p \in {<<>>, <<"items">>} |-> IF p = <<>> THEN Says("wide") ELSE Says(w)]
Far(w) == [p \in {<<>>, <<"$ref">>, <<"$ref", "$ref">>} |->
              IF Len(p) < 2 THEN Refers ELSE Says(w)]
MCSchemas ==
    {Plain("narrow"), Items("narrow"), Hides, Far("wide"), Far("narrow"),
     Through(Object("narrow", "nothing", "#/$defs/d"), "wide")}
    \cup {Through(Refers, w) : w \in {"wide", "narrow"}}

Contract == [class |-> "unannotated", required |-> {"p"},
             parameters |-> [x \in {"p"} |-> Plain("wide")], output |-> Plain("wide")]
WithQ == [x \in {"p", "q"} |-> Plain(IF x = "p" THEN "wide" ELSE "narrow")]
Contracts ==
    {[Contract EXCEPT !.class = c] : c \in Classes}
    \cup {[Contract EXCEPT !.output = o] : o \in {NoOutput, Plain("narrow"), Hides}}
    \cup {[Contract EXCEPT !.parameters["p"] = s] : s \in MCSchemas}
    \cup {[Contract EXCEPT !.required = {}], [Contract EXCEPT !.required = {"p", "q"}],
          [Contract EXCEPT !.parameters = WithQ],
          [Contract EXCEPT !.parameters = WithQ, !.required = {"p", "q"}],
          [Contract EXCEPT !.parameters = <<>>, !.required = {}]}

Report == [server |-> "a", catalog |-> [t \in {"t"} |-> Contract],
           cases |-> [k \in {"x"} |-> "none"], score |-> 90, withoutLatency |-> 95,
           standard |-> "s", profile |-> "p"]
Scored(score, withoutLatency) ==
    [Report EXCEPT !.score = score, !.withoutLatency = withoutLatency]
MCReports ==
    {[Report EXCEPT !.catalog["t"] = c] : c \in Contracts}
    \cup {[Report EXCEPT !.catalog = c] : c \in {NoCatalog, <<>>}}
    \cup {[Report EXCEPT !.server = s] : s \in {"b", "none"}}
    \cup {[Report EXCEPT !.cases["x"] = v] : v \in Reasons} \cup {[Report EXCEPT !.cases = <<>>]}
    \cup {Scored(85, 95), Scored(85, 89), Scored(80, 84), Scored(90, NoScore)}
    \cup {[Report EXCEPT !.profile = "q"],
          [Scored(NoScore, NoScore) EXCEPT !.standard = "none", !.profile = "none"]}

NoGate == [regression |-> FALSE, change |-> FALSE, breaking |-> FALSE, dropped |-> FALSE,
           maxDrop |-> 5, excludeLatency |-> FALSE]
MCOptions ==
    {[NoGate EXCEPT !.regression = TRUE], [NoGate EXCEPT !.breaking = TRUE]}
    \cup {[NoGate EXCEPT !.dropped = TRUE, !.excludeLatency = e] : e \in BOOLEAN}
    \cup {[NoGate EXCEPT !.regression = TRUE, !.change = TRUE, !.breaking = TRUE,
                         !.dropped = TRUE]}

GatesIdle ==
    /\ options = NoGate /\ origin = Report /\ baseline = Report
    /\ accepted = 0 /\ missing = {} /\ reviewed = FALSE /\ exit = "none"

(* Guidance: one tool or two, listed at once, page by page or without end.   *)
MCPages ==
    {[tools |-> ts, next |-> c] : ts \in {<<"t">>, <<"u">>}, c \in {NoCursor, "c", "d"}}
    \cup {[tools |-> <<"t", "u">>, next |-> NoCursor], [tools |-> <<"u", "u">>, next |-> NoCursor],
          [tools |-> <<>>, next |-> BadCursor], [tools |-> <<>>, next |-> "d"]}

ShareIdle ==
    /\ output = Nothing /\ backup = [s \in Shares |-> Nothing]
    /\ share = [s \in Shares |-> [pc |-> "begin", force |-> FALSE, exists |-> FALSE]]

-----------------------------------------------------------------------------
SuiteInit ==
    /\ subject \in Subjects
    /\ Init /\ ServeInit /\ ProxyInit /\ HttpInit /\ TrendInit /\ SaltInit
    /\ GuidanceInit
    /\ IF subject = "share" THEN ShareInit ELSE ShareIdle
    /\ IF subject = "gates" THEN GatesInit ELSE GatesIdle

\* Whose steps these are; the others stand still.
OnlyBudget == subject = "budget"
    /\ UNCHANGED <<serveVars, proxyVars, httpVars, trendVars, saltVars, shareVars, gateVars, guidanceVars>>
OnlyServe == subject = "serve"
    /\ UNCHANGED <<vars, proxyVars, httpVars, trendVars, saltVars, shareVars, gateVars, guidanceVars>>
OnlyHttpProxy == subject = "http proxy"
    /\ UNCHANGED <<vars, serveVars, httpVars, trendVars, saltVars, shareVars, gateVars, guidanceVars>>
OnlyHttpClient == subject = "http client"
    /\ UNCHANGED <<vars, serveVars, proxyVars, trendVars, saltVars, shareVars, gateVars, guidanceVars>>
OnlyTrends == subject = "trends"
    /\ UNCHANGED <<vars, serveVars, proxyVars, httpVars, saltVars, shareVars, gateVars, guidanceVars>>
OnlySalt == subject = "salt"
    /\ UNCHANGED <<vars, serveVars, proxyVars, httpVars, trendVars, shareVars, gateVars, guidanceVars>>
OnlyShare == subject = "share"
    /\ UNCHANGED <<vars, serveVars, proxyVars, httpVars, trendVars, saltVars, gateVars, guidanceVars>>
OnlyGates == subject = "gates"
    /\ UNCHANGED <<vars, serveVars, proxyVars, httpVars, trendVars, saltVars, shareVars,
                   guidanceVars>>
OnlyGuidance == subject = "guidance"
    /\ UNCHANGED <<vars, serveVars, proxyVars, httpVars, trendVars, saltVars, shareVars, gateVars>>

SuiteNext ==
    /\ UNCHANGED subject
    /\ \/ OnlyBudget /\ Next
       \/ OnlyServe /\ ServeNext
       \/ OnlyHttpProxy /\ ProxyNext
       \/ OnlyHttpClient /\ HttpNext
       \/ OnlyTrends /\ TrendNext
       \/ OnlySalt /\ SaltNext
       \/ OnlyShare /\ ShareNext
       \/ OnlyGates /\ GatesNext
       \/ OnlyGuidance /\ GuidanceNext

suiteVars == <<subject, vars, serveVars, proxyVars, httpVars, trendVars, saltVars, shareVars,
               gateVars, guidanceVars>>

\* Each under the fairness of its own specification.
SuiteSpec ==
    /\ SuiteInit /\ [][SuiteNext]_suiteVars
    /\ \A w \in Workers : WF_serveVars(subject = "serve" /\ WorkerStep(w))
=============================================================================
