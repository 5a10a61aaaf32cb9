------------------------------ MODULE Sessions ------------------------------
(***************************************************************************)
(* The session of one browser: express-session over a MemoryStore, the     *)
(* middleware of app.js that fills in defaults and hands out the one-shot  *)
(* message, the handlers that change the session, and the user-settings    *)
(* cookie that outlives it.                                                *)
(*                                                                         *)
(* A request works on a copy of the session that was read when it came in; *)
(* the copy is stored as a whole, before the answer is sent, if it differs *)
(* from what was read.  Between reading and answering other requests of the *)
(* browser run.  One setting stands for all of them, Default is its default.*)
(* Bounds: each member of Requests is used once; the store is lost once.   *)
(***************************************************************************)
EXTENDS Naturals, Sequences, FiniteSets

CONSTANTS Requests, Values, Default

VARIABLES
    cookie,         \* the setting in the browser's user-settings cookie
    stored,         \* the session in the store, or NoSession
    visits,         \* for each request: where it is, its kind, its copies
    shown,          \* the messages the browser was shown since the last restart, in order
    overlapped,     \* whether two requests have overlapped since the last restart
    restarted

vars == <<cookie, stored, visits, shown, overlapped, restarted>>

NoMessage == "noMessage"
Unset == "unset"            \* settings that do not name the setting
NoSettings == "noSettings"  \* no userSettings in the session

\* A session: config.credentials.rpc gives the host; /disconnect empties it.
NewSession == [host |-> "null", message |-> NoMessage, setting |-> NoSettings]
NoSession == [host |-> "noSession", message |-> NoMessage, setting |-> NoSettings]
SessionStates == [host : {"null", "node", ""}, message : {NoMessage} \cup Requests,
                  setting : Values \cup {Unset, NoSettings, Default}]

\* What a request can be: a page and the homepage (which await the node), a JSON
\* answer, and the three handlers that answer in the turn they start in.
Pages == {"page", "home"}
Kinds == Pages \cup {"json", "changeSetting", "reset", "disconnect"}

NotYet == [at |-> "notYet"]
Over == [at |-> "over"]

InFlight == {r \in Requests : visits[r].at \notin {"notYet", "over"}}

Init ==
    /\ cookie = Unset
    /\ stored = NoSession
    /\ visits = [r \in Requests |-> NotYet]
    /\ shown = <<>>
    /\ overlapped = FALSE
    /\ restarted = FALSE

-----------------------------------------------------------------------------
\* The session middleware reads the store; a session that is not there is new.
Arrive(r, kind) ==
    LET session == IF stored = NoSession THEN NewSession ELSE stored
    IN  /\ visits[r] = NotYet
        /\ overlapped' = (overlapped \/ InFlight # {})
        /\ visits' = [visits EXCEPT ![r] = [at |-> "loaded", kind |-> kind, read |-> stored,
                                            session |-> session, cookie |-> cookie, message |-> NoMessage]]
        /\ UNCHANGED <<cookie, stored, shown, restarted>>

\* The host of the configuration and the settings of the cookie, where the session has none.
WithDefaults(session, sentCookie) ==
    LET known == IF session.setting = NoSettings THEN sentCookie ELSE session.setting
    IN  [session EXCEPT !.host = IF @ = "null" THEN "node" ELSE @,
                        !.setting = IF known = Unset THEN Default ELSE known]

\* Mutant: the message stays in the session.
MessageTakenKeeping(session) == session

\* The message is moved from the session to the answer.
MessageTaken(session) == [session EXCEPT !.message = NoMessage]

\* The answer: the changed session is stored first, the cookies go with it.
Respond(r, session, newCookie, message) ==
    /\ stored' = IF session = visits[r].read THEN stored ELSE session
    /\ cookie' = newCookie
    /\ shown' = IF message = NoMessage THEN shown ELSE Append(shown, message)
    /\ visits' = [visits EXCEPT ![r] = Over]
    /\ UNCHANGED <<overlapped, restarted>>

Loaded(r) == visits[r].at = "loaded"
Ready(r) == WithDefaults(visits[r].session, visits[r].cookie)

\* redirectToConnectPageIfNeeded comes before the message is taken.
NeedsHost(r) == visits[r].kind # "home" /\ Ready(r).host = ""

RedirectToConnectPage(r) ==
    /\ Loaded(r) /\ NeedsHost(r)
    /\ Respond(r, Ready(r), cookie, NoMessage)

\* A page or a JSON answer waits for the node with the message it has taken.
BeginHandler(r) ==
    /\ Loaded(r) /\ ~NeedsHost(r)
    /\ visits[r].kind \in Pages \cup {"json"}
    /\ visits' = [visits EXCEPT ![r].at = "waiting", ![r].session = MessageTaken(Ready(r)),
                                ![r].message = Ready(r).message]
    /\ UNCHANGED <<cookie, stored, shown, overlapped, restarted>>

\* Only a page shows the message; a JSON answer drops it.
EndHandler(r) ==
    /\ visits[r].at = "waiting"
    /\ Respond(r, visits[r].session, cookie, IF visits[r].kind \in Pages THEN visits[r].message ELSE NoMessage)

\* The setting is written to the session and to the cookie that came with the request.
ChangeSetting(r) ==
    /\ Loaded(r) /\ ~NeedsHost(r)
    /\ visits[r].kind = "changeSetting"
    /\ \E v \in Values : Respond(r, [MessageTaken(Ready(r)) EXCEPT !.setting = v], v, NoMessage)

\* Mutant: the cookie keeps the old settings.
ResetUserSettingsSessionOnly(r) ==
    /\ Loaded(r) /\ ~NeedsHost(r)
    /\ visits[r].kind = "reset"
    /\ Respond(r, [MessageTaken(Ready(r)) EXCEPT !.setting = Unset], cookie, NoMessage)

ResetUserSettings(r) ==
    /\ Loaded(r) /\ ~NeedsHost(r)
    /\ visits[r].kind = "reset"
    /\ Respond(r, [MessageTaken(Ready(r)) EXCEPT !.setting = Unset], Unset, NoMessage)

\* The message it posts is named after the request.
Disconnect(r) ==
    /\ Loaded(r) /\ ~NeedsHost(r)
    /\ visits[r].kind = "disconnect"
    /\ Respond(r, [MessageTaken(Ready(r)) EXCEPT !.host = "", !.message = r], cookie, NoMessage)

\* The store is in memory; requests under way are cut off.
Restart ==
    /\ ~restarted
    /\ restarted' = TRUE
    /\ stored' = NoSession
    /\ visits' = [r \in Requests |-> IF r \in InFlight THEN Over ELSE visits[r]]
    /\ shown' = <<>>
    /\ overlapped' = FALSE
    /\ UNCHANGED cookie

Handle(r) ==
    \/ RedirectToConnectPage(r) \/ BeginHandler(r) \/ EndHandler(r)
    \/ ChangeSetting(r) \/ ResetUserSettings(r) \/ Disconnect(r)

Next ==
    \/ \E r \in Requests : (\E kind \in Kinds : Arrive(r, kind)) \/ Handle(r)
    \/ Restart

Spec == Init /\ [][Next]_vars

-----------------------------------------------------------------------------
\* The sessions' state keeps its shape.
TypeOK ==
    /\ cookie \in Values \cup {Unset}
    /\ stored \in SessionStates \cup {NoSession}
    /\ \A r \in Requests : visits[r].at \in {"notYet", "loaded", "waiting", "over"}
    /\ \A r \in InFlight : visits[r].session \in SessionStates
    /\ \A i \in DOMAIN shown : shown[i] \in Requests

\* As long as no two requests overlapped, a message is shown once: the copy that
\* took it is stored before the next request reads the session.  Overlapping
\* requests may both show it, or store it again behind the back of the other.
MessageShownOnce ==
    ~overlapped => \A i, j \in DOMAIN shown : i # j => shown[i] # shown[j]

\* As long as no two requests overlapped, what the session says of the setting
\* between two requests is what the cookie says, so that the setting survives the
\* loss of the store; an overlapping page may store the old setting again.
Effective(setting) == IF setting = Unset THEN Default ELSE setting
SessionAgreesWithCookie ==
    ~overlapped /\ InFlight = {} /\ stored # NoSession => Effective(stored.setting) = Effective(cookie)
=============================================================================
