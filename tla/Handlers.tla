------------------------------ MODULE Handlers ------------------------------
(***************************************************************************)
(* The steps an Express handler of the explorer is made of.  A handler is a *)
(* sequence of parts, its body and the catch blocks that follow it; a part *)
(* is a sequence of steps.  When a step raises, the handler goes on in the *)
(* next part; after the last part "escape" says where the exception goes.  *)
(* The route modules write every handler of routes/ in these terms, and    *)
(* PageRequests runs them.                                                 *)
(***************************************************************************)
EXTENDS Naturals, Sequences

\* Waiting for calls that run together.  A rejection of one of "needs" raises:
\* it was awaited bare, or the code behind utils.awaitPromises reads what the
\* call should have stored.  A rejection of any other call is only logged.
Settle(calls, needs) == [op |-> "await", calls |-> calls, needs |-> needs]
Await(call) == Settle({call}, {call})

\* A promise without a catch, or one that a failure leaves unsettled: nobody
\* learns of the failure, and nothing that waits behind it in the handler is run.
Uncaught(call) == [op |-> "uncaught", calls |-> {call}]

MayRaise == [op |-> "mayRaise"]        \* synchronous code that throws on some inputs
Raises   == [op |-> "raises"]          \* synchronous code that throws on every input

Page(view) == [op |-> "page", view |-> view]    \* res.render
Json       == [op |-> "json"]                   \* res.json, res.send, res.write and res.end
Redirect   == [op |-> "redirect"]               \* res.redirect
PassOn     == [op |-> "next"]                   \* next()

\* What happens to an exception behind the last part: Express answers with the
\* error page (a synchronous throw, asyncHandler, .catch(next)), or nobody sees it.
Escapes == {"errorPage", "lost"}

\* "when" restricts a handler to requests that come with or without a host in
\* their session, the one input of a handler that PageRequests keeps.
Handler(parts, escape) == [when |-> {"host", "noHost"}, parts |-> parts, escape |-> escape]
OnlyWith(hosts, handler) == [handler EXCEPT !.when = hosts]

\* A route: its name and what its handler does for each class of inputs.
On(name, handlers) == [name |-> name, handlers |-> handlers]

(***************************************************************************)
(* The shapes many handlers have.                                          *)
(***************************************************************************)
\* steps; render, next.  No try block: an exception is left to Express.
PlainPage(view, steps) == Handler(<<steps \o <<Page(view), PassOn>> >>, "errorPage")

\* try { steps; render; next } catch { render the same view; next }
PageWithCatch(view, steps) ==
    Handler(<<steps \o <<Page(view), PassOn>>, <<Page(view), PassOn>> >>, "errorPage")

\* steps; res.json; next.  No try block.
PlainJson(steps) == Handler(<<steps \o <<Json, PassOn>> >>, "errorPage")

\* try { steps; res.json } catch { res.json({success: false}) }; next
JsonWithCatch(steps) == Handler(<<steps \o <<Json, PassOn>>, <<Json, PassOn>> >>, "errorPage")

\* try { res.json; next; the job } catch { log }
JsonBeforeJob == Handler(<< <<Json, PassOn>>, <<>> >>, "errorPage")

\* What the three handlers with a halving estimate look up.  The estimate reads
\* the first header of the difficulty period unless the last halving is over.
HalvingCalls == {"getBlockHeaderByHeight", "getBlocksByHeight"}
HalvingLookup(needs) == <<Await("getBlockchainInfo"), Settle(HalvingCalls, needs)>>

\* steps; the answer; the handler does not call next.
Ends(steps, answer) == Handler(<<Append(steps, answer)>>, "errorPage")
=============================================================================
