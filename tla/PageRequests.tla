---------------------------- MODULE PageRequests ----------------------------
(***************************************************************************)
(* A request on its way through app.js: the middleware that may answer it  *)
(* at once, the handlers of routes/ whose url pattern it matches, the      *)
(* "Finished" middleware and the error handlers.  The steps of a handler   *)
(* are those of the route modules; every call of the node or of a service  *)
(* ends in one of the ways the caller can tell apart.                      *)
(*                                                                         *)
(* Requests share no variable of this module, so one request at a time is  *)
(* followed; what they share (caches, queue, jobs, session) is in the other *)
(* modules.  The data of an answer is its kind.                            *)
(***************************************************************************)
EXTENDS BaseRoutes, ApiRoutes, AppRoutes

VARIABLES
    rpcConnected,   \* global.rpcConnected
    stage,          \* the middleware the request is at, "waiting" or "done"
    route,          \* the route it was sent to
    host,           \* whether its session has a host, after the defaults of app.js
    handler,        \* the handler that runs
    part,           \* which part of it: 1, or that of a catch block
    steps,          \* the steps of the part that are left
    follow,         \* the handlers that match the request after this one
    answers         \* the answers it was given, oldest first

vars == <<rpcConnected, stage, route, host, handler, part, steps, follow, answers>>
request == <<route, host>>
position == <<handler, part, steps, follow>>

Routes == BaseRoutes \cup ApiRoutes \cup AppRoutes
Names == {r.name : r \in Routes}

NoHandler == Handler(<< <<>> >>, "errorPage")

\* Routes the rate limiter skips: an url with "/snippet/" or "/api/" in it.
Unlimited == {r.name : r \in ApiRoutes \cup {FormatCurrencyAmount, QuoteSnippet, NextBlockSnippet, HalvingSnippet,
                                            UtxoSetSnippet, TimezoneToast, Timestamp}}

\* The requests that reach their handler without a host in the session.
ConnectPages == {Home.name, Connect.name}

Posts == {Connect.name, Search.name, RpcTerminal.name, Terminal.name}

\* Express tries the routes in the order of their registration: these urls match
\* a second pattern, which is tried when the first handler calls next.
LaterMatches(name) ==
    CASE name \in {ApiQuoteRandom.name, ApiQuotesAll.name}     -> <<NoQuoteIndex>>
      [] name \in {ApiHolidaysAll.name, ApiHolidaysToday.name} -> <<NoDay>>
      [] name = TransactionAtHeight.name                       -> <<Transaction.handlers[3]>>
      [] OTHER                                                 -> <<>>

Init ==
    /\ rpcConnected = FALSE
    /\ stage = "waiting"
    /\ route = Home.name
    /\ host = "host"
    /\ handler = NoHandler /\ part = 1 /\ steps = <<>> /\ follow = <<>>
    /\ answers = <<>>

-----------------------------------------------------------------------------
(* The middleware of app.js *)

Answer(kind) == answers' = Append(answers, kind)

\* onRpcConnectionVerified; nothing takes the flag back.
RpcConnectionVerified ==
    /\ ~rpcConnected
    /\ rpcConnected' = TRUE
    /\ UNCHANGED <<stage, request, position, answers>>

\* A request comes in; the one before it is forgotten.
Arrive ==
    /\ stage \in {"waiting", "done"}
    /\ stage' = "login"
    /\ route' \in Names
    /\ host' \in {"host", "noHost"}
    /\ answers' = <<>>
    /\ handler' = NoHandler /\ part' = 1 /\ steps' = <<>> /\ follow' = <<>>
    /\ UNCHANGED rpcConnected

\* Without authentication every request passes.  With a password or a sign-on
\* token, one that has none of them is refused or sent to the login page.
Authenticate ==
    /\ stage = "login"
    /\ \/ stage' = "body" /\ UNCHANGED answers
       \/ \E kind \in {"401", "redirect"} : stage' = "done" /\ Answer(kind)
    /\ UNCHANGED <<rpcConnected, request, position>>

\* body-parser refuses a body that is not what its type says.
ParseBody ==
    /\ stage = "body"
    /\ stage' \in {"limiter", "error"}
    /\ UNCHANGED <<rpcConnected, request, position, answers>>

RateLimit ==
    /\ stage = "limiter"
    /\ \/ stage' = "session" /\ UNCHANGED answers
       \/ route \notin Unlimited /\ stage' = "done" /\ Answer("429")
    /\ UNCHANGED <<rpcConnected, request, position>>

\* A cookie that is no JSON throws; without a host there is only the connect page.
LoadSession ==
    /\ stage = "session"
    /\ \/ stage' = "error" /\ UNCHANGED answers
       \/ IF host = "noHost" /\ route \notin ConnectPages
          THEN stage' = "done" /\ Answer("redirect")
          ELSE stage' = "connection" /\ UNCHANGED answers
    /\ UNCHANGED <<rpcConnected, request, position>>

\* Before the node is verified every url is answered with the error page.
CheckConnection ==
    /\ stage = "connection"
    /\ IF rpcConnected
       THEN stage' = "csrf" /\ UNCHANGED answers
       ELSE stage' = "done" /\ Answer("errorPage")
    /\ UNCHANGED <<rpcConnected, request, position>>

\* Starting the first part of handler h, with the handlers "later" behind it.
Enter(h, later) ==
    /\ stage' = "handler"
    /\ handler' = h /\ part' = 1 /\ steps' = h.parts[1]
    /\ follow' = later
    /\ UNCHANGED answers

\* csurf refuses a POST without its token; the routers choose the handler.
Dispatch ==
    /\ stage = "csrf"
    /\ \/ route \in Posts /\ stage' = "error" /\ UNCHANGED <<position, answers>>
       \/ \E r \in Routes : \E i \in DOMAIN r.handlers :
            /\ r.name = route
            /\ host \in r.handlers[i].when
            /\ Enter(r.handlers[i], LaterMatches(route))
    /\ UNCHANGED <<rpcConnected, request>>

-----------------------------------------------------------------------------
(* The handlers *)

Running(op) == stage = "handler" /\ steps # <<>> /\ Head(steps).op = op

Continue ==
    /\ steps' = Tail(steps)
    /\ UNCHANGED <<stage, handler, part, follow>>

\* The next catch block, or what is behind the last one.
Raise ==
    /\ IF part < Len(handler.parts)
       THEN part' = part + 1 /\ steps' = handler.parts[part + 1] /\ UNCHANGED stage
       ELSE /\ stage' = IF handler.escape = "errorPage" THEN "error" ELSE "done"
            /\ UNCHANGED <<part, steps>>
    /\ UNCHANGED <<handler, follow, answers>>

\* All calls have ended; a rejection of one that is needed raises.
AwaitSettled ==
    /\ Running("await")
    /\ \/ Continue /\ UNCHANGED answers
       \/ Head(steps).needs # {} /\ Raise
    /\ UNCHANGED <<rpcConnected, request>>

\* Nobody learns of the rejection (app.js logs it as unhandled).
AwaitUncaught ==
    /\ Running("uncaught")
    /\ \/ Continue
       \/ stage' = "done" /\ UNCHANGED position
    /\ UNCHANGED <<rpcConnected, request, answers>>

Compute ==
    /\ Running("mayRaise")
    /\ \/ Continue /\ UNCHANGED answers
       \/ Raise
    /\ UNCHANGED <<rpcConnected, request>>

Throw ==
    /\ Running("raises")
    /\ Raise
    /\ UNCHANGED <<rpcConnected, request>>

\* A view that cannot be rendered is answered with the error page before
\* res.render returns; the handler goes on either way.
Render ==
    /\ Running("page")
    /\ Answer("page") \/ Answer("errorPage")
    /\ Continue
    /\ UNCHANGED <<rpcConnected, request>>

Send ==
    /\ Running("json") \/ Running("redirect")
    /\ Answer(Head(steps).op)
    /\ Continue
    /\ UNCHANGED <<rpcConnected, request>>

\* next(): the next handler that matches, in the end the "Finished" middleware.
Next_ ==
    /\ Running("next")
    /\ IF follow # <<>>
       THEN Enter(Head(follow), Tail(follow))
       ELSE stage' = "finished" /\ UNCHANGED <<position, answers>>
    /\ UNCHANGED <<rpcConnected, request>>

\* The handler is over without having called next.
Return ==
    /\ stage = "handler" /\ steps = <<>>
    /\ stage' = "done"
    /\ UNCHANGED <<rpcConnected, request, position, answers>>

-----------------------------------------------------------------------------
(* Behind the handlers *)

\* A request that nobody answered is not found.
Finish ==
    /\ stage = "finished"
    /\ IF answers # <<>>
       THEN stage' = "done" /\ UNCHANGED answers
       ELSE stage' = "done" /\ Answer("404")
    /\ UNCHANGED <<rpcConnected, request, position>>

ErrorPage ==
    /\ stage = "error"
    /\ stage' = "done"
    /\ Answer("errorPage")
    /\ UNCHANGED <<rpcConnected, request, position>>

HandlerStep ==
    \/ AwaitSettled \/ AwaitUncaught \/ Compute \/ Throw
    \/ Render \/ Send \/ Next_ \/ Return

RequestStep ==
    \/ Authenticate \/ ParseBody \/ RateLimit \/ LoadSession \/ CheckConnection \/ Dispatch
    \/ HandlerStep
    \/ Finish \/ ErrorPage

Next == RpcConnectionVerified \/ Arrive \/ RequestStep

Spec == Init /\ [][Next]_vars

\* The event loop goes on, and every call ends: the client's timeout sees to it
\* (TimedCallsSettle of RpcQueue), except for gettxoutsetinfo, which is given none.
FairSpec == Spec /\ WF_vars(RequestStep)

-----------------------------------------------------------------------------
(* Properties *)

\* No request is answered twice, whichever of its calls fail, whichever catch
\* block runs and whichever handler next() leads to: a second res.json or
\* res.render after the headers were sent throws ERR_HTTP_HEADERS_SENT, which in
\* a promise without a catch nobody sees.
AnsweredOnce == Len(answers) <= 1

\* The handlers that may leave a request without an answer, so that the browser
\* waits for its own timeout.  Five because a promise has no catch or a catch
\* block only logs, three because they return without a word, and three because
\* they wait for a promise that need not settle.
LeftWaiting == {BlockAnalysis.name, BlockHeadersByHeight.name, BlockStatsByHeight.name, BlockTxSummaries.name,
                BuildMempoolSummary.name, ApiQuote.name, ApiHolidays.name, HeapDump.name,
                Address.name, ApiAddress.name, ApiXpubTxids.name}

\* Every request is answered in the end, whichever of its calls fail and
\* whichever handlers it passes, unless it goes to one of the eleven above: no
\* exception is lost on its way and no handler ends without answer or next().
RequestsAreAnswered == (stage = "login" /\ route \notin LeftWaiting) ~> answers # <<>>

\* A request to a route that exists is not answered with "not found", except
\* that /api/xyzpub leaves a key it cannot parse to the routes behind it.
NotFoundIsTrue == "404" \in {answers[i] : i \in DOMAIN answers} => route = ApiXpub.name
=============================================================================
