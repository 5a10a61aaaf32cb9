--------------------------- MODULE ServicesProofs ---------------------------
(***************************************************************************)
(* What is proved of the parts of Services that keep state for others: the *)
(* browser session, the single sign-on token, the saved tables, the        *)
(* startup, the lookup of a transaction, the Electrum pool, the page of a  *)
(* block and the predicted blocks; and, with the invariants of             *)
(* SeriesProofs, that the state of every part keeps its shape.             *)
(* Each part has an inductive invariant of its own; a step of another part *)
(* leaves its variables alone.                                             *)
(***************************************************************************)
EXTENDS SeriesProofs, FiniteSetTheorems, WellFoundedInduction

\* A step of the services is a step of each part, or leaves its variables alone.
LEMMA SsoRuns == [Next]_vars => [Sso!Next]_ssoVars
BY DEF Next, vars, SessionStep, StartupStep, TablesStep, ElectrumStep, SsoStep, HistoryStep, XpubStep, LookupStep,
       PredictionStep, StatisticsStep, PageStep, ChainStep

LEMMA SessionRuns == [Next]_vars => [Session!Next]_sessionVars
BY DEF Next, vars, SessionStep, StartupStep, TablesStep, ElectrumStep, SsoStep, HistoryStep, XpubStep, LookupStep,
       PredictionStep, StatisticsStep, PageStep, ChainStep

LEMMA StartupRuns == [Next]_vars => [Startup!Next]_startupVars
BY DEF Next, vars, SessionStep, StartupStep, TablesStep, ElectrumStep, SsoStep, HistoryStep, XpubStep, LookupStep,
       PredictionStep, StatisticsStep, PageStep, ChainStep

LEMMA TablesRuns == [Next]_vars => [Tables!Next]_tablesVars
BY DEF Next, vars, SessionStep, StartupStep, TablesStep, ElectrumStep, SsoStep, HistoryStep, XpubStep, LookupStep,
       PredictionStep, StatisticsStep, PageStep, ChainStep

LEMMA ElectrumRuns == [Next]_vars => [Electrum!Next]_electrumVars
BY DEF Next, vars, SessionStep, StartupStep, TablesStep, ElectrumStep, SsoStep, HistoryStep, XpubStep, LookupStep,
       PredictionStep, StatisticsStep, PageStep, ChainStep

LEMMA LookupRuns == [Next]_vars => [Lookup!Next]_lookupVars
BY DEF Next, vars, SessionStep, StartupStep, TablesStep, ElectrumStep, SsoStep, HistoryStep, XpubStep, LookupStep,
       PredictionStep, StatisticsStep, PageStep, ChainStep

LEMMA PredictionRuns == [Next]_vars => [Prediction!Next]_predictionVars
BY DEF Next, vars, SessionStep, StartupStep, TablesStep, ElectrumStep, SsoStep, HistoryStep, XpubStep, LookupStep,
       PredictionStep, StatisticsStep, PageStep, ChainStep

LEMMA PageRuns == [Next]_vars => [Page!Next]_pageVars
BY DEF Next, vars, SessionStep, StartupStep, TablesStep, ElectrumStep, SsoStep, HistoryStep, XpubStep, LookupStep,
       PredictionStep, StatisticsStep, PageStep, ChainStep

-----------------------------------------------------------------------------
(* The session *)

\* A message is posted by a request that is over, is stored or was shown, and was
\* shown once.
PostedInv ==
    /\ \A k \in DOMAIN shown : visits[shown[k]].at = "over"
    /\ stored.message # Session!NoMessage =>
         /\ visits[stored.message].at = "over"
         /\ \A k \in DOMAIN shown : shown[k] # stored.message
    /\ \A j, k \in DOMAIN shown : j # k => shown[j] # shown[k]

\* A known setting that means what the cookie means.
Agrees(setting) == setting # Session!NoSettings /\ Session!Effective(setting) = Session!Effective(cookie)

\* The request under way works on what is stored, and has taken its message.
CopyInv(r) ==
    /\ visits[r].read = stored
    /\ visits[r].at = "loaded" =>
         /\ visits[r].session = IF stored = Session!NoSession THEN Session!NewSession ELSE stored
         /\ visits[r].cookie = cookie
    /\ visits[r].at = "waiting" =>
         /\ visits[r].session \in Session!SessionStates
         /\ visits[r].session.message = Session!NoMessage
         /\ visits[r].message = stored.message
         /\ Agrees(visits[r].session.setting)

\* What a request under way holds.
Copies == [at : {"loaded", "waiting"}, kind : Session!Kinds, read : Session!SessionStates \cup {Session!NoSession},
           session : Session!SessionStates, cookie : Settings \cup {Session!Unset},
           message : Requests \cup {Session!NoMessage}]

\* The shape of the session's state, as sets a proof can use.
SessionTypes ==
    /\ cookie \in Settings \cup {Session!Unset}
    /\ stored \in Session!SessionStates \cup {Session!NoSession}
    /\ shown \in Seq(Requests)
    /\ visits \in [Requests -> Copies \cup {Session!NotYet, Session!Over}]

\* As long as no two requests overlapped: one request at most is under way, its copy is
\* of what is stored, and what is stored agrees with the cookie.
SessionInv ==
    /\ SessionTypes
    /\ ~overlapped =>
         /\ PostedInv
         /\ \A r, q \in Session!InFlight : r = q
         /\ \A r \in Session!InFlight : CopyInv(r)
         /\ stored # Session!NoSession => Agrees(stored.setting)

\* A request is under way exactly while it holds a copy of the session.
LEMMA InFlightCopies ==
    ASSUME SessionTypes, NEW r \in Requests
    PROVE  /\ r \in Session!InFlight <=> visits[r] \in Copies
           /\ r \in Session!InFlight <=> visits[r].at \in {"loaded", "waiting"}
           /\ visits[r].at \in {"notYet", "loaded", "waiting", "over"}
BY DEF SessionTypes, Copies, Session!InFlight, Session!NotYet, Session!Over

\* The settings of the session that a request works on are known.
LEMMA ReadyAgrees ==
    ASSUME SessionInv, NEW r \in Requests, Session!Loaded(r)
    PROVE  /\ Session!Ready(r) \in Session!SessionStates
           /\ Session!Ready(r).message = visits[r].session.message
           /\ ~overlapped => /\ Agrees(Session!Ready(r).setting)
                             /\ Session!Ready(r).message = stored.message
<1>1. r \in Session!InFlight /\ visits[r] \in Copies
    BY InFlightCopies DEF Session!Loaded, SessionInv
<1>2. /\ visits[r].session \in Session!SessionStates
      /\ visits[r].cookie \in Settings \cup {Session!Unset}
    BY <1>1 DEF Copies
<1> DEFINE session == visits[r].session
           known == IF session.setting = Session!NoSettings THEN visits[r].cookie ELSE session.setting
           setting == IF known = Session!Unset THEN DefaultSetting ELSE known
<1>3. setting \in Settings \cup {DefaultSetting}
    BY <1>2 DEF Session!SessionStates, Session!Unset, Session!NoSettings
<1>4. /\ Session!Ready(r) \in Session!SessionStates
      /\ Session!Ready(r).message = session.message
      /\ Session!Ready(r).setting = setting
    BY <1>2, <1>3 DEF Session!Ready, Session!WithDefaults, Session!SessionStates
<1>5. ASSUME ~overlapped
      PROVE  /\ Agrees(setting) /\ session.message = stored.message
    <2>1. /\ session = IF stored = Session!NoSession THEN Session!NewSession ELSE stored
          /\ visits[r].cookie = cookie
          /\ stored # Session!NoSession => Agrees(stored.setting)
        BY <1>1, <1>5 DEF SessionInv, CopyInv, Session!Loaded
    <2>2. setting # Session!NoSettings /\ setting # Session!Unset
        BY <1>3, SettingsAssumption DEF SettingsAssumption, Session!NoSettings, Session!Unset
    <2>3. session.message = stored.message
        BY <2>1 DEF Session!NoSession, Session!NewSession
    <2>4. CASE stored = Session!NoSession
        BY <2>1, <2>2, <2>3, <2>4 DEF Session!NewSession, Session!NoSettings, Agrees, Session!Effective
    <2>5. CASE stored # Session!NoSession
        BY <2>1, <2>2, <2>5 DEF Agrees, Session!Effective
    <2> QED BY <2>3, <2>4, <2>5
<1> QED BY <1>4, <1>5

\* An answer: the session that is stored holds a message that was there before,
\* unless it is shown with the answer, or the message the request posts itself.
LEMMA RespondKeeps ==
    ASSUME SessionInv, NEW r \in Requests, r \in Session!InFlight,
           NEW session \in Session!SessionStates, NEW newCookie \in Settings \cup {Session!Unset},
           NEW message \in Requests \cup {Session!NoMessage},
           Session!Respond(r, session, newCookie, message),
           ~overlapped =>
             /\ session.setting # Session!NoSettings
             /\ Session!Effective(session.setting) = Session!Effective(newCookie)
             /\ message \in {Session!NoMessage, stored.message}
             /\ session.message \in {Session!NoMessage, r, stored.message}
             /\ message # Session!NoMessage => session.message = Session!NoMessage
    PROVE  SessionInv'
<1>1. /\ cookie' = newCookie /\ overlapped' = overlapped
      /\ visits' = [visits EXCEPT ![r] = Session!Over]
      /\ stored' = IF session = visits[r].read THEN stored ELSE session
      /\ shown' = IF message = Session!NoMessage THEN shown ELSE Append(shown, message)
    BY DEF Session!Respond
<1>2. SessionTypes'
    BY <1>1 DEF SessionInv, SessionTypes
<1>3. ASSUME ~overlapped
      PROVE  /\ PostedInv' /\ Session!InFlight' = {}
             /\ (stored # Session!NoSession => Agrees(stored.setting))'
    <2>1. visits[r].read = stored /\ PostedInv /\ \A q \in Session!InFlight : q = r
        BY <1>3 DEF SessionInv, CopyInv
    <2>2. stored' = session
        BY <1>1, <2>1
    <2>3. Session!InFlight' = {}
        BY <1>1, <2>1 DEF SessionInv, SessionTypes, Session!InFlight, Session!Over
    <2>4. (stored # Session!NoSession => Agrees(stored.setting))'
        BY <1>1, <1>3, <2>2 DEF Agrees, Session!Effective
    <2>5. /\ visits'[r].at = "over"
          /\ \A q \in Requests : visits[q].at = "over" => visits'[q].at = "over"
          /\ visits[r].at # "over"
        BY <1>1, InFlightCopies DEF SessionInv, SessionTypes, Session!Over, Session!InFlight
    <2>6. \A k \in DOMAIN shown : shown[k] \in Requests /\ visits[shown[k]].at = "over" /\ shown[k] # r
        BY <2>1, <2>5 DEF SessionInv, SessionTypes, PostedInv
    <2>7. stored.message \in Requests \cup {Session!NoMessage}
        <3>1. CASE stored \in Session!SessionStates
            BY <3>1 DEF Session!SessionStates
        <3>2. CASE stored = Session!NoSession
            BY <3>2 DEF Session!NoSession
        <3> QED BY <3>1, <3>2 DEF SessionInv, SessionTypes
    <2>8. PostedInv'
        <3>1. CASE message = Session!NoMessage
            <4>1. shown' = shown /\ session.message \in {Session!NoMessage, r, stored.message}
                BY <1>1, <1>3, <3>1
            <4> QED BY <2>1, <2>2, <2>5, <2>6, <2>7, <4>1 DEF PostedInv
        <3>2. CASE message # Session!NoMessage
            <4>1. message = stored.message /\ session.message = Session!NoMessage
                BY <1>3, <3>2
            <4>2. /\ DOMAIN shown' = 1 .. Len(shown) + 1 /\ DOMAIN shown = 1 .. Len(shown)
                  /\ \A k \in DOMAIN shown : shown'[k] = shown[k]
                  /\ shown'[Len(shown) + 1] = message
                BY <1>1, <3>2 DEF SessionInv, SessionTypes
            <4>3. visits[message].at = "over" /\ \A k \in DOMAIN shown : shown[k] # message
                BY <2>1, <3>2, <4>1 DEF PostedInv
            <4>4. \A k \in DOMAIN shown' : k \in DOMAIN shown \/ k = Len(shown) + 1
                BY <4>2
            <4>5. \A k \in DOMAIN shown' : visits'[shown'[k]].at = "over"
                BY <2>5, <2>6, <3>2, <4>2, <4>3, <4>4
            <4> QED BY <2>1, <2>2, <4>1, <4>2, <4>3, <4>4, <4>5 DEF PostedInv
        <3> QED BY <3>1, <3>2
    <2> QED BY <2>3, <2>4, <2>8
<1> QED BY <1>1, <1>2, <1>3 DEF SessionInv

\* express-session loads what is stored into a request that arrives.
LEMMA ArriveKeeps ==
    ASSUME SessionInv, NEW r \in Requests, NEW kind \in Session!Kinds, Session!Arrive(r, kind)
    PROVE  SessionInv'
<1> DEFINE session == IF stored = Session!NoSession THEN Session!NewSession ELSE stored
           copy == [at |-> "loaded", kind |-> kind, read |-> stored, session |-> session, cookie |-> cookie,
                    message |-> Session!NoMessage]
<1>1. /\ visits' = [visits EXCEPT ![r] = copy] /\ UNCHANGED <<cookie, stored, shown>>
      /\ visits[r] = Session!NotYet
      /\ ~overlapped' => ~overlapped /\ Session!InFlight = {}
    BY DEF Session!Arrive
<1>2. copy \in Copies /\ copy.at = "loaded"
    <2>1. session \in Session!SessionStates
        BY DEF SessionInv, SessionTypes, Session!NewSession, Session!SessionStates, Session!NoMessage,
               Session!NoSettings
    <2> QED BY <2>1 DEF SessionInv, SessionTypes, Copies
<1>3. SessionTypes'
    BY <1>1, <1>2 DEF SessionInv, SessionTypes
<1>4. ASSUME ~overlapped', Session!InFlight = {}
      PROVE  /\ Session!InFlight' = {r}
             /\ CopyInv(r)'
    <2>1. Session!InFlight' = {r}
        BY <1>1, <1>2, <1>4 DEF SessionInv, SessionTypes, Session!InFlight
    <2>2. visits'[r] = copy
        BY <1>1 DEF SessionInv, SessionTypes
    <2> QED BY <1>1, <2>1, <2>2 DEF CopyInv
<1>5. ASSUME PostedInv PROVE PostedInv'
    BY <1>1, <1>5 DEF PostedInv, SessionInv, SessionTypes, Session!NotYet
<1>6. Agrees(stored.setting) => Agrees(stored.setting)'
    BY <1>1 DEF Agrees, Session!Effective
<1> QED BY <1>1, <1>3, <1>4, <1>5, <1>6 DEF SessionInv

\* The first middleware fills in the settings and takes the message, before any await.
LEMMA BeginHandlerKeeps ==
    ASSUME SessionInv, NEW r \in Requests, Session!BeginHandler(r)
    PROVE  SessionInv'
<1> DEFINE copy == [at |-> "waiting", kind |-> visits[r].kind, read |-> visits[r].read,
                    session |-> Session!MessageTaken(Session!Ready(r)), cookie |-> visits[r].cookie,
                    message |-> Session!Ready(r).message]
<1>0. Session!Loaded(r) /\ r \in Session!InFlight /\ visits[r] \in Copies
    BY InFlightCopies DEF Session!BeginHandler, Session!Loaded, SessionInv
<1>1. visits' = [visits EXCEPT ![r] = copy] /\ UNCHANGED <<cookie, stored, shown, overlapped>>
    <2>1. visits' = [visits EXCEPT ![r].at = "waiting", ![r].session = Session!MessageTaken(Session!Ready(r)),
                                   ![r].message = Session!Ready(r).message]
        BY DEF Session!BeginHandler
    <2>2. visits' = [visits EXCEPT ![r] = [visits[r] EXCEPT !.at = "waiting",
                                             !.session = Session!MessageTaken(Session!Ready(r)),
                                             !.message = Session!Ready(r).message]]
        BY <2>1 DEF SessionInv, SessionTypes
    <2> DEFINE begun == [visits[r] EXCEPT !.at = "waiting"]
               taken == [begun EXCEPT !.session = Session!MessageTaken(Session!Ready(r))]
    <2>3. begun = [at |-> "waiting", kind |-> visits[r].kind, read |-> visits[r].read,
                   session |-> visits[r].session, cookie |-> visits[r].cookie, message |-> visits[r].message]
        BY <1>0 DEF Copies
    <2> HIDE DEF begun
    <2>4. taken = [at |-> "waiting", kind |-> visits[r].kind, read |-> visits[r].read,
                   session |-> Session!MessageTaken(Session!Ready(r)), cookie |-> visits[r].cookie,
                   message |-> visits[r].message]
        BY <2>3
    <2> HIDE DEF taken
    <2>5. [taken EXCEPT !.message = Session!Ready(r).message] = copy
        BY <2>4
    <2> QED BY <2>2, <2>5, Zenon DEF Session!BeginHandler, begun, taken
<1>2. /\ Session!MessageTaken(Session!Ready(r)) \in Session!SessionStates
      /\ Session!MessageTaken(Session!Ready(r)).message = Session!NoMessage
      /\ Session!MessageTaken(Session!Ready(r)).setting = Session!Ready(r).setting
      /\ Session!Ready(r).message \in Requests \cup {Session!NoMessage}
    BY <1>0, ReadyAgrees DEF Session!MessageTaken, Session!SessionStates
<1>3. copy \in Copies /\ copy.at = "waiting"
    BY <1>0, <1>2 DEF Copies
<1>4. SessionTypes'
    BY <1>1, <1>3 DEF SessionInv, SessionTypes
<1>5. Session!InFlight' = Session!InFlight /\ visits'[r] = copy
    BY <1>0, <1>1, <1>3 DEF SessionInv, SessionTypes, Session!InFlight
<1>6. ASSUME ~overlapped
      PROVE  PostedInv' /\ CopyInv(r)'
    <2>1. PostedInv'
        BY <1>0, <1>1, <1>3, <1>6 DEF SessionInv, SessionTypes, PostedInv, Copies, Session!Loaded
    <2>2. CopyInv(r) /\ Agrees(Session!Ready(r).setting) /\ Session!Ready(r).message = stored.message
        BY <1>0, <1>6, ReadyAgrees DEF SessionInv
    <2>3. /\ copy.read = stored /\ copy.session = Session!MessageTaken(Session!Ready(r))
          /\ copy.message = stored.message
        BY <2>2 DEF CopyInv
    <2>4. Agrees(visits[r].session.setting)'
        BY <1>1, <1>2, <1>5, <2>2 DEF Agrees, Session!Effective
    <2> QED BY <1>1, <1>2, <1>3, <1>5, <2>1, <2>3, <2>4 DEF CopyInv
<1>7. \A q \in Session!InFlight : ~overlapped => q = r
    BY <1>0 DEF SessionInv
<1>8. Agrees(stored.setting) => Agrees(stored.setting)'
    BY <1>1 DEF Agrees, Session!Effective
<1> QED BY <1>1, <1>4, <1>5, <1>6, <1>7, <1>8 DEF SessionInv

\* The session a handler goes on with when it has taken the message.
LEMMA TakenAgrees ==
    ASSUME SessionInv, NEW r \in Requests, Session!Loaded(r)
    PROVE  /\ r \in Session!InFlight
           /\ Session!MessageTaken(Session!Ready(r)) \in Session!SessionStates
           /\ Session!MessageTaken(Session!Ready(r)).message = Session!NoMessage
           /\ Session!MessageTaken(Session!Ready(r)).setting = Session!Ready(r).setting
<1>1. r \in Session!InFlight
    BY InFlightCopies DEF Session!Loaded, SessionInv
<1> QED BY <1>1, ReadyAgrees DEF Session!MessageTaken, Session!SessionStates

\* Each kind of handler: it takes the message, sets the setting or posts a message of its own.
LEMMA HandleKeeps ==
    ASSUME SessionInv, NEW r \in Requests, Session!Handle(r)
    PROVE  SessionInv'
<1> DEFINE taken == Session!MessageTaken(Session!Ready(r))
<1>0. /\ cookie \in Settings \cup {Session!Unset}
      /\ \A v \in Settings : v # Session!NoSettings
      /\ Session!Unset # Session!NoSettings
    BY SettingsAssumption DEF SettingsAssumption, SessionInv, SessionTypes, Session!NoSettings, Session!Unset
<1>1. CASE Session!RedirectToConnectPage(r)
    <2>1. Session!Loaded(r) /\ Session!Respond(r, Session!Ready(r), cookie, Session!NoMessage)
        BY <1>1 DEF Session!RedirectToConnectPage
    <2> QED BY <1>0, <2>1, ReadyAgrees, TakenAgrees, RespondKeeps DEF Agrees
<1>2. CASE Session!BeginHandler(r)
    BY <1>2, BeginHandlerKeeps
<1>3. CASE Session!EndHandler(r)
    <2> DEFINE message == IF visits[r].kind \in Session!Pages THEN visits[r].message ELSE Session!NoMessage
    <2>1. visits[r].at = "waiting" /\ Session!Respond(r, visits[r].session, cookie, message)
        BY <1>3 DEF Session!EndHandler
    <2>2. r \in Session!InFlight /\ visits[r] \in Copies
        BY <2>1, InFlightCopies DEF SessionInv
    <2>3. visits[r].session \in Session!SessionStates /\ message \in Requests \cup {Session!NoMessage}
        BY <2>2 DEF Copies
    <2>4. ~overlapped => CopyInv(r)
        BY <2>2 DEF SessionInv
    <2> QED BY <1>0, <2>1, <2>2, <2>3, <2>4, RespondKeeps DEF CopyInv, Agrees
<1>4. CASE Session!ChangeSetting(r)
    <2>1. PICK v \in Settings :
            Session!Respond(r, [taken EXCEPT !.setting = v], v, Session!NoMessage)
        BY <1>4 DEF Session!ChangeSetting
    <2>2. /\ r \in Session!InFlight
          /\ [taken EXCEPT !.setting = v] \in Session!SessionStates
          /\ [taken EXCEPT !.setting = v].message = Session!NoMessage
          /\ [taken EXCEPT !.setting = v].setting = v
        BY <1>4, TakenAgrees DEF Session!ChangeSetting, Session!SessionStates
    <2> QED BY <1>0, <2>1, <2>2, RespondKeeps
<1>5. CASE Session!ResetUserSettings(r)
    <2>1. Session!Respond(r, [taken EXCEPT !.setting = Session!Unset], Session!Unset, Session!NoMessage)
        BY <1>5 DEF Session!ResetUserSettings
    <2>2. /\ r \in Session!InFlight
          /\ [taken EXCEPT !.setting = Session!Unset] \in Session!SessionStates
          /\ [taken EXCEPT !.setting = Session!Unset].message = Session!NoMessage
          /\ [taken EXCEPT !.setting = Session!Unset].setting = Session!Unset
        BY <1>5, TakenAgrees DEF Session!ResetUserSettings, Session!SessionStates
    <2> QED BY <1>0, <2>1, <2>2, RespondKeeps
<1>6. CASE Session!Disconnect(r)
    <2> DEFINE session == [taken EXCEPT !.host = "", !.message = r]
    <2>1. Session!Loaded(r) /\ Session!Respond(r, session, cookie, Session!NoMessage)
        BY <1>6 DEF Session!Disconnect
    <2>2. /\ session \in Session!SessionStates
          /\ session.message = r /\ session.setting = taken.setting
        BY <2>1, TakenAgrees DEF Session!SessionStates
    <2>3. ~overlapped => Agrees(session.setting)
        BY <2>1, <2>2, TakenAgrees, ReadyAgrees
    <2> HIDE DEF session
    <2> QED BY <1>0, <2>1, <2>2, <2>3, TakenAgrees, RespondKeeps DEF Agrees
<1> QED BY <1>1, <1>2, <1>3, <1>4, <1>5, <1>6 DEF Session!Handle

\* Every action of the session keeps its invariant; a restart forgets what is stored.
LEMMA SessionInvStep == SessionInv /\ [Session!Next]_sessionVars => SessionInv'
<1> SUFFICES ASSUME SessionInv, [Session!Next]_sessionVars PROVE SessionInv'
    OBVIOUS
<1>1. CASE UNCHANGED sessionVars
    <2>1. SessionTypes' /\ overlapped' = overlapped /\ Session!InFlight' = Session!InFlight
        BY <1>1 DEF sessionVars, SessionInv, SessionTypes, Session!InFlight
    <2>2. PostedInv => PostedInv'
        BY <1>1 DEF sessionVars, PostedInv
    <2>3. Agrees(stored.setting) => Agrees(stored.setting)'
        BY <1>1 DEF sessionVars, Agrees, Session!Effective
    <2>4. ASSUME NEW r \in Requests, CopyInv(r) PROVE CopyInv(r)'
        BY <1>1, <2>4 DEF sessionVars, CopyInv, Agrees, Session!Effective
    <2> QED BY <1>1, <2>1, <2>2, <2>3, <2>4 DEF SessionInv, Session!InFlight, sessionVars
<1>2. ASSUME NEW r \in Requests, NEW kind \in Session!Kinds, Session!Arrive(r, kind) PROVE SessionInv'
    BY <1>2, ArriveKeeps
<1>3. ASSUME NEW r \in Requests, Session!Handle(r) PROVE SessionInv'
    BY <1>3, HandleKeeps
<1>4. CASE Session!Restart
    <2>1. SessionTypes' /\ Session!InFlight' = {}
        BY <1>4 DEF Session!Restart, SessionInv, SessionTypes, Session!InFlight, Session!Over
    <2>2. stored' = Session!NoSession /\ shown' = <<>>
        BY <1>4 DEF Session!Restart
    <2>3. PostedInv'
        BY <2>2 DEF PostedInv, Session!NoSession
    <2> QED BY <2>1, <2>2, <2>3 DEF SessionInv
<1> QED BY <1>1, <1>2, <1>3, <1>4 DEF Session!Next, Session!vars, sessionVars

\* No request has been made and nothing is stored.
LEMMA SessionInvInit == Session!Init => SessionInv
<1> SUFFICES ASSUME Session!Init PROVE SessionInv
    OBVIOUS
<1>1. SessionTypes /\ Session!InFlight = {}
    BY DEF Session!Init, SessionTypes, Session!InFlight, Session!NotYet
<1>2. stored = Session!NoSession /\ shown = <<>>
    BY DEF Session!Init
<1>3. PostedInv
    BY <1>2 DEF PostedInv, Session!NoSession
<1> QED BY <1>1, <1>2, <1>3 DEF SessionInv

\* The session's invariant holds of the middlewares of app.js for every set of requests
\* and settings.
THEOREM SessionIsKept == Spec => []SessionInv
<1>1. Init => SessionInv
    BY SessionInvInit DEF Init
<1>2. SessionInv /\ [Next]_vars => SessionInv'
    BY SessionRuns, SessionInvStep
<1> QED BY <1>1, <1>2, PTL DEF Spec

\* A message of a request that did not overlap another is shown by one page only: what
\* the middleware deletes from the session is stored before the next one reads it.
THEOREM MessageOnce == Spec => []MessageShownOnce
<1>1. SessionInv => MessageShownOnce
    BY DEF SessionInv, PostedInv, MessageShownOnce, Session!MessageShownOnce
<1> QED BY <1>1, SessionIsKept, PTL

\* Between two requests the stored setting means what the cookie says, whatever requests
\* came before and however often the store was lost.
THEOREM SessionAgrees == Spec => []SessionAgreesWithCookie
<1>1. SessionInv => SessionAgreesWithCookie
    BY DEF SessionInv, Agrees, SessionAgreesWithCookie, Session!SessionAgreesWithCookie
<1> QED BY <1>1, SessionIsKept, PTL

-----------------------------------------------------------------------------
(* The single sign-on token *)

\* Tokens are numbered in the order they are made: the one that is accepted is in the file
\* and has not been used, nor has any that is still to be made.
SsoInv ==
    /\ server \in {"up", "down"} /\ leftOver \in BOOLEAN
    /\ made \in Sso!Tokens
    /\ token \in 1 .. made /\ tokenFile = token
    /\ tickets \subseteq 1 .. made /\ cookies \subseteq 1 .. made
    /\ logins \in [Sso!Tokens -> {0, 1}]
    /\ \A t \in Sso!Tokens : t >= token => logins[t] = 0

\* The explorer starts with its first token written.
LEMMA SsoInvInit == Sso!Init => SsoInv
<1> SUFFICES ASSUME Sso!Init PROVE SsoInv
    OBVIOUS
<1>0. MaxTokens \in Nat /\ MaxTokens > 0
    BY BoundsAssumption DEF BoundsAssumption
<1>1. made \in Sso!Tokens /\ token \in 1 .. made /\ tokenFile = token
    BY <1>0 DEF Sso!Init, Sso!Tokens
<1>2. logins \in [Sso!Tokens -> {0, 1}] /\ \A t \in Sso!Tokens : t >= token => logins[t] = 0
    BY DEF Sso!Init
<1>3. tickets \subseteq 1 .. made /\ cookies \subseteq 1 .. made
    BY DEF Sso!Init
<1> QED BY <1>1, <1>2, <1>3 DEF Sso!Init, SsoInv

\* However an update of the token ends, the file and the server agree on it.
LEMMA UpdateTokenKeepsFile ==
    ASSUME SsoInv, NEW fails \in BOOLEAN, Sso!UpdateToken(fails)
    PROVE  /\ made' \in Nat /\ token' \in Nat
           /\ made' \in Sso!Tokens /\ 1 .. made \subseteq 1 .. made'
           /\ token' \in 1 .. made' /\ tokenFile' = token' /\ leftOver' \in BOOLEAN
           /\ token' = token \/ token' > made
           /\ ~fails => token' > made
<1>1. MaxTokens \in Nat /\ made \in Nat /\ token \in Nat
    BY BoundsAssumption DEF BoundsAssumption, SsoInv, Sso!Tokens
<1>2. leftOver' \in BOOLEAN
    BY DEF SsoInv, Sso!UpdateToken
<1>3. made' = made + 1 /\ made < MaxTokens
    BY DEF Sso!UpdateToken
<1>4. CASE fails
    <2>1. token' = token /\ tokenFile' = tokenFile
        BY <1>4 DEF Sso!UpdateToken
    <2> QED BY <1>1, <1>2, <1>3, <1>4, <2>1 DEF SsoInv, Sso!Tokens
<1>5. CASE ~fails
    <2>1. token' = made + 1 /\ tokenFile' = made + 1
        BY <1>5 DEF Sso!UpdateToken
    <2> QED BY <1>1, <1>2, <1>3, <2>1 DEF Sso!Tokens
<1> QED BY <1>4, <1>5

\* A login uses the token up and updates it; a restart makes a new one.
LEMMA SsoInvStep == SsoInv /\ [Sso!Next]_ssoVars => SsoInv'
<1> SUFFICES ASSUME SsoInv, [Sso!Next]_ssoVars PROVE SsoInv'
    OBVIOUS
<1>0. MaxTokens \in Nat /\ made \in Nat /\ token \in Nat /\ token <= made /\ Sso!Tokens \subseteq Nat
    BY BoundsAssumption DEF BoundsAssumption, SsoInv, Sso!Tokens
<1>1. CASE UNCHANGED ssoVars
    BY <1>1 DEF ssoVars, SsoInv
<1>2. CASE Sso!ReadFile
    BY <1>0, <1>2 DEF Sso!ReadFile, SsoInv
<1>3. ASSUME NEW ticket \in tickets, NEW fails \in BOOLEAN, Sso!Login(ticket, fails) PROVE SsoInv'
    <2>1. Sso!UpdateToken(fails) /\ ticket = token /\ UNCHANGED <<server, tickets>>
        BY <1>3 DEF Sso!Login
    <2>2. cookies' \subseteq 1 .. made
        BY <1>3, <2>1 DEF SsoInv, Sso!Login
    <2>3. /\ logins' \in [Sso!Tokens -> {0, 1}]
          /\ \A t \in Sso!Tokens : t >= token' => logins'[t] = 0
        <3>1. CASE fails
            <4>1. logins' = logins /\ (token' = token \/ token' > made) /\ token' \in Nat
                BY <1>3, <2>1, <3>1, UpdateTokenKeepsFile DEF Sso!Login
            <4> QED BY <1>0, <4>1 DEF SsoInv
        <3>2. CASE ~fails
            <4>1. logins' = [logins EXCEPT ![token] = @ + 1] /\ token' > made /\ token' \in Nat
                BY <1>3, <2>1, <3>2, UpdateTokenKeepsFile DEF Sso!Login
            <4>2. logins[token] = 0
                BY <1>0 DEF SsoInv, Sso!Tokens
            <4>3. logins' = [logins EXCEPT ![token] = 1]
                BY <4>1, <4>2
            <4>4. \A t \in Sso!Tokens : t >= token' => t >= token /\ t # token
                BY <1>0, <4>1
            <4> QED BY <4>3, <4>4 DEF SsoInv
        <3> QED BY <3>1, <3>2
    <2> QED BY <2>1, <2>2, <2>3, UpdateTokenKeepsFile DEF SsoInv
<1>4. CASE Sso!Stop
    BY <1>0, <1>4 DEF Sso!Stop, SsoInv
<1>5. CASE Sso!Start
    <2>1. PICK fails \in BOOLEAN : Sso!UpdateToken(fails) /\ server' = IF fails THEN "down" ELSE "up"
        BY <1>5 DEF Sso!Start
    <2>2. UNCHANGED <<tickets, cookies, logins>>
        BY <1>5 DEF Sso!Start
    <2> QED BY <1>0, <2>1, <2>2, UpdateTokenKeepsFile DEF SsoInv
<1> QED BY <1>1, <1>2, <1>3, <1>4, <1>5 DEF Sso!Next, Sso!vars, ssoVars

\* A token of sso.js lets in one login, across restarts and failed updates, and the file
\* holds the one that is accepted while the server runs.
THEOREM TokenSingleUse == Spec => []TokenIsSingleUse
<1>1. Init => SsoInv
    BY SsoInvInit DEF Init
<1>2. SsoInv /\ [Next]_vars => SsoInv'
    BY SsoRuns, SsoInvStep
<1>3. SsoInv => TokenIsSingleUse
    BY DEF SsoInv, TokenIsSingleUse, Sso!TokenIsSingleUse
<1> QED BY <1>1, <1>2, <1>3, PTL DEF Spec

-----------------------------------------------------------------------------
(* The saved tables *)

\* A half-written file is read as an empty one, and what is not in its file is marked.
TablesInv ==
    /\ process \in {"up", "down"}
    /\ difficultyFile.state = "half" => difficultyFile.keys = {}
    /\ Tables!TablesAreSaved

\* The timers save what is marked; a lookup or a height that is learned marks its table.
LEMMA TablesInvStep == TablesInv /\ [Tables!Next]_tablesVars => TablesInv'
<1> SUFFICES ASSUME TablesInv, [Tables!Next]_tablesVars PROVE TablesInv'
    OBVIOUS
<1> USE DEF TablesInv, Tables!TablesAreSaved, Tables!Up, Tables!ipVars, Tables!difficultyVars
<1>1. CASE UNCHANGED tablesVars
    BY <1>1 DEF tablesVars
<1>2. ASSUME NEW l \in Lookups, Tables!GeoLocate(l) PROVE TablesInv'
    BY <1>2 DEF Tables!GeoLocate
<1>3. ASSUME NEW l \in Lookups, NEW ip \in Ips, Tables!RedisAnswers(l, ip) \/ Tables!ServiceFails(l, ip)
      PROVE TablesInv'
    BY <1>3 DEF Tables!RedisAnswers, Tables!ServiceFails
<1>4. ASSUME NEW l \in Lookups, NEW ip \in Ips, Tables!ServiceAnswers(l, ip) PROVE TablesInv'
    BY <1>4 DEF Tables!ServiceAnswers, Tables!Set
<1>5. CASE Tables!SaveIps
    BY <1>5 DEF Tables!SaveIps, Tables!Whole
<1>6. ASSUME NEW heights \in SUBSET Heights, Tables!AddDifficulties(heights) PROVE TablesInv'
    BY <1>6 DEF Tables!AddDifficulties
<1>7. CASE Tables!WriteDifficulties
    BY <1>7 DEF Tables!WriteDifficulties, Tables!Whole, Tables!Half
<1>8. CASE Tables!Stop
    BY <1>8 DEF Tables!Stop, Tables!Half
<1>9. CASE Tables!Start
    BY <1>9 DEF Tables!Start, Tables!NoFile
<1> QED BY <1>1, <1>2, <1>3, <1>4, <1>5, <1>6, <1>7, <1>8, <1>9
        DEF Tables!Next, Tables!AddressStep, Tables!vars, tablesVars

\* A table that is not marked to be saved is in its file, for any addresses and heights;
\* the IP table as long as no save failed.
THEOREM TablesSaved == Spec => []TablesAreSaved
<1>1. Init => TablesInv
    BY DEF Init, Tables!Init, TablesInv, Tables!TablesAreSaved, Tables!NoFile
<1>2. TablesInv /\ [Next]_vars => TablesInv'
    BY TablesRuns, TablesInvStep
<1>3. TablesInv => TablesAreSaved
    BY DEF TablesInv, TablesAreSaved
<1> QED BY <1>1, <1>2, <1>3, PTL DEF Spec

-----------------------------------------------------------------------------
(* The startup *)

\* The states of the check for the transaction index.
IndexChecks == {"none", "asking", "askingTx", "askingAgain", "retryLater", "known"}

\* Of the attempts: what Startup!TypeOK says of them, and that at most one waits,
\* for as long as the interval has run.
AttemptsInv ==
    /\ sinceFired \in 0 .. Interval
    /\ attempts \in [Attempts -> {"unused", "waiting", "over"}]
    /\ waited \in [Attempts -> 0 .. Timeout]
    /\ \A a, b \in Attempts : attempts[a] = "waiting" /\ attempts[b] = "waiting" => a = b
    /\ \A a \in Attempts : attempts[a] = "waiting" => ~activeBlockchain /\ waited[a] = sinceFired
    /\ \A a \in Attempts : attempts[a] = "unused" => waited[a] = 0

\* Of the timers and the index checks: before the node is verified there are none,
\* then there is one check, and the UTXO timer is set when its first run ends.
TimersInv ==
    /\ timersSet \in [Startup!Timers -> {0, 1}]
    /\ indexCheck \in [Attempts -> IndexChecks]
    /\ ~activeBlockchain => /\ timersSet = [t \in Startup!Timers |-> 0]
                            /\ indexCheck = [a \in Attempts |-> "none"]
    /\ \A a, b \in Attempts : indexCheck[a] # "none" /\ indexCheck[b] # "none" => a = b
    /\ \A a \in Attempts : indexCheck[a] \in {"asking", "askingTx"} => timersSet["utxo"] = 0

\* One attempt has been made, at the start.
LEMMA AttemptsInvInit == Startup!Init => AttemptsInv
<1> SUFFICES ASSUME Startup!Init PROVE AttemptsInv
    OBVIOUS
<1>1. PICK first : attempts = [a \in Attempts |-> IF a = first THEN "waiting" ELSE "unused"]
    BY DEF Startup!Init
<1>2. sinceFired = 0 /\ waited = [a \in Attempts |-> 0] /\ ~activeBlockchain
    BY DEF Startup!Init
<1> QED BY <1>1, <1>2, TimeoutAssumption DEF TimeoutAssumption, AttemptsInv

\* No timer is set.
LEMMA TimersInvInit == Startup!Init => TimersInv
BY DEF Startup!Init, TimersInv, IndexChecks, Startup!Timers

\* The interval makes an attempt after Interval ticks only, and by then the client's
\* timeout has ended the attempt before.
LEMMA AttemptsInvStep == AttemptsInv /\ [Startup!Next]_startupVars => AttemptsInv'
<1> SUFFICES ASSUME AttemptsInv, [Startup!Next]_startupVars PROVE AttemptsInv'
    OBVIOUS
<1> USE TimeoutAssumption DEF TimeoutAssumption, AttemptsInv
<1>1. CASE UNCHANGED startupVars
    BY <1>1 DEF startupVars
<1>2. CASE Startup!Tick
    BY <1>2 DEF Startup!Tick, Startup!Waiting
<1>3. ASSUME NEW a \in Attempts, Startup!VerifyRpcConnection(a) PROVE AttemptsInv'
    BY <1>3 DEF Startup!VerifyRpcConnection
<1>4. ASSUME NEW a \in Attempts, Startup!VerificationFails(a) PROVE AttemptsInv'
    BY <1>4 DEF Startup!VerificationFails, Startup!Waiting
<1>5. ASSUME NEW a \in Attempts, Startup!VerificationSucceeds(a) PROVE AttemptsInv'
    BY <1>5 DEF Startup!VerificationSucceeds, Startup!Waiting
<1>6. ASSUME NEW a \in Attempts, Startup!CheckStep(a) PROVE AttemptsInv'
    BY <1>6 DEF Startup!CheckStep, Startup!IndexInfo, Startup!KnownTransaction, Startup!Learn,
                Startup!IndexInfoFails, Startup!RetryFires, Startup!verification
<1> QED BY <1>1, <1>2, <1>3, <1>4, <1>5, <1>6 DEF Startup!Next, Startup!vars, startupVars

\* The answer that verifies the node stops the interval in the same step.
LEMMA TimersInvStep == AttemptsInv /\ TimersInv /\ [Startup!Next]_startupVars => TimersInv'
<1> SUFFICES ASSUME AttemptsInv, TimersInv, [Startup!Next]_startupVars PROVE TimersInv'
    OBVIOUS
<1> USE DEF TimersInv
<1>1. CASE UNCHANGED startupVars
    BY <1>1 DEF startupVars
<1>2. CASE Startup!Tick
    BY <1>2 DEF Startup!Tick, Startup!index
<1>3. ASSUME NEW a \in Attempts, Startup!VerifyRpcConnection(a) \/ Startup!VerificationFails(a) PROVE TimersInv'
    BY <1>3 DEF Startup!VerifyRpcConnection, Startup!VerificationFails, Startup!index
<1>4. ASSUME NEW a \in Attempts, Startup!VerificationSucceeds(a) PROVE TimersInv'
    <2>1. /\ timersSet = [t \in Startup!Timers |-> 0]
          /\ indexCheck = [b \in Attempts |-> "none"]
        BY <1>4 DEF AttemptsInv, Startup!VerificationSucceeds, Startup!Waiting
    <2> QED BY <1>4, <2>1 DEF Startup!VerificationSucceeds, Startup!Started, Startup!FirstTimers, Startup!Timers,
                              IndexChecks
<1>5. ASSUME NEW a \in Attempts, Startup!CheckStep(a) PROVE TimersInv'
    BY <1>5 DEF Startup!CheckStep, Startup!IndexInfo, Startup!KnownTransaction, Startup!Learn, Startup!FirstRunEnds,
                Startup!IndexInfoFails, Startup!RetryFires, Startup!verification, Startup!Started, IndexChecks,
                Startup!Timers
<1> QED BY <1>1, <1>2, <1>3, <1>4, <1>5 DEF Startup!Next, Startup!vars, startupVars

\* onRpcConnectionVerified of app.js runs once, for every number of attempts, as long as
\* the client's timeout is shorter than the interval: no timer is set twice.
THEOREM NodeVerifiedOnce == Spec => []VerifiedOnce
<1>1. Init => AttemptsInv /\ TimersInv
    BY AttemptsInvInit, TimersInvInit DEF Init
<1>2. AttemptsInv /\ TimersInv /\ [Next]_vars => (AttemptsInv /\ TimersInv)'
    BY StartupRuns, AttemptsInvStep, TimersInvStep
<1>3. TimersInv => VerifiedOnce
    BY DEF TimersInv, VerifiedOnce, Startup!VerifiedOnce
<1> QED BY <1>1, <1>2, <1>3, PTL DEF Spec

-----------------------------------------------------------------------------
(* The lookup of a transaction *)

\* The shape of the lookup's state.
LookupTypes ==
    /\ tip \in Nat /\ confirmedAt \in 0 .. tip /\ height \in Nat /\ lowest \in Nat
    /\ inWallet \subseteq Wallets
    /\ lookupAt \in Lookup!Steps
    /\ inMempool => confirmedAt = 0
    /\ indexKnown => nodeIndex
    /\ lookupAt \in {"idle", "direct", "electrum", "blockCount"} => height = 0
    /\ lookupAt = "nextBlock" => height > 0
    /\ lookupAt = "inBlock" => height > 0 \/ named > 0
    /\ named \in 0 .. tip
    /\ named > 0 => height = 0 /\ lookupAt \in {"inBlock", "listWallets", "wallets", "found"}

\* Once the node itself did not find the transaction it is not in the mempool, and
\* stays where it is.
NotFoundByNode ==
    lookupAt \notin {"idle", "direct", "found"} => ~inMempool /\ (nodeIndex => confirmedAt = 0)

\* The wallets that know it are among those that have not been tried, but for those
\* tried with the block the Electrum servers named, which are tried again; behind the
\* wallets no wallet knows it.
WalletsTried ==
    /\ lookupAt = "wallets" /\ named = 0 => inWallet \subseteq walletsLeft
    /\ lookupAt \in {"blockCount", "nextBlock"} => inWallet = {}
    /\ lookupAt \in {"inBlock", "listWallets", "wallets"} /\ height > 0 => inWallet = {}

\* It is in none of the blocks searched so far, and the search ends far enough down.
BlocksSearched ==
    height > 0 =>
        /\ lowest = 0 \/ lowest + Depth <= tip
        /\ lookupAt \notin {"found", "notFound"} =>
             confirmedAt < height \/ (lookupAt = "inBlock" /\ confirmedAt = height)

\* A lookup that ended with nothing was for a transaction no wallet has, and of no block
\* the search covers.
NowhereRecent ==
    lookupAt = "notFound" =>
        /\ inWallet = {} \/ indexKnown
        /\ confirmedAt = 0 \/ confirmedAt + Depth <= tip

\* As long as the node answers and lists its wallets, a lookup without a block hash misses
\* nothing on the way.
LookupInv ==
    /\ LookupTypes
    /\ blockhash = 0 /\ ~troubled /\ nodeHasWallets =>
         NotFoundByNode /\ WalletsTried /\ BlocksSearched /\ NowhereRecent

\* Nothing is looked up.
LEMMA LookupInvInit == Lookup!Init => LookupInv
BY DEF Lookup!Init, LookupInv, LookupTypes, NotFoundByNode, WalletsTried, BlocksSearched, NowhereRecent, Lookup!Steps

\* A nested call whose throw is caught goes on with the wallets or with the next block.
LEMMA NestedEnds ==
    ASSUME LookupTypes, Lookup!Nested, Lookup!CatchNested
    PROVE  /\ named' = 0
           /\ (named > 0 /\ height = 0 /\ lookupAt' = "listWallets") \/ (named = 0 /\ height > 0 /\ lookupAt' = "nextBlock")
BY DEF LookupTypes, Lookup!Nested, Lookup!CatchNested, Lookup!InSearch, Lookup!InElectrum

\* Each of the four ways getRawTransaction goes rules out what it has looked through,
\* whatever is mined or learned meanwhile.
LEMMA LookupInvStep == LookupInv /\ [Lookup!Next]_lookupVars => LookupInv'
<1> SUFFICES ASSUME LookupInv, [Lookup!Next]_lookupVars PROVE LookupInv'
    OBVIOUS
<1>0. Depth \in Nat
    BY BoundsAssumption DEF BoundsAssumption
<1> USE <1>0 DEF LookupInv, LookupTypes, NotFoundByNode, WalletsTried, BlocksSearched, NowhereRecent, Lookup!Steps,
              Lookup!node
<1>1. CASE UNCHANGED lookupVars
    BY <1>1 DEF lookupVars
<1>2. CASE Lookup!Mine
    BY <1>2 DEF Lookup!Mine
<1>3. CASE Lookup!LearnIndex
    BY <1>3 DEF Lookup!LearnIndex
<1>4. ASSUME NEW hash \in 0 .. MaxTip, Lookup!GetRawTransaction(hash) PROVE LookupInv'
    BY <1>4 DEF Lookup!GetRawTransaction
<1>5. CASE Lookup!Direct
    <2>1. CASE lookupAt' = "found" /\ troubled' = troubled
        BY <1>5, <2>1 DEF Lookup!Direct
    <2>2. CASE /\ lookupAt' = IF indexKnown THEN "notFound"
                              ELSE IF electrumTxIndex /\ blockhash = 0 THEN "electrum" ELSE "listWallets"
               /\ ~troubled' => ~Lookup!NodeFinds(blockhash)
        <3>1. blockhash = 0 /\ ~troubled' => ~inMempool /\ (nodeIndex => confirmedAt = 0)
            BY <2>2 DEF Lookup!NodeFinds
        <3>2. lookupAt = "direct" /\ UNCHANGED <<Lookup!node, blockhash, named, walletsLeft, height, lowest>>
            BY <1>5 DEF Lookup!Direct
        <3>3. lookupAt' \in {"notFound", "electrum", "listWallets"} /\ (lookupAt' = "notFound" => indexKnown)
            BY <2>2
        <3> QED BY <3>1, <3>2, <3>3
    <2> QED BY <1>5, <2>1, <2>2 DEF Lookup!Direct
<1>6. CASE Lookup!AskElectrum
    BY <1>6 DEF Lookup!AskElectrum
<1>7. CASE Lookup!ListWallets
    <2>1. lookupAt = "listWallets" /\ UNCHANGED <<Lookup!node, blockhash, height, lowest>>
        BY <1>7 DEF Lookup!ListWallets
    <2>2. CASE nodeHasWallets /\ lookupAt' = "wallets" /\ walletsLeft' = Wallets /\ UNCHANGED <<named, troubled>>
        BY <2>1, <2>2
    <2>3. CASE Lookup!Nested /\ Lookup!CatchNested /\ UNCHANGED <<walletsLeft, troubled>>
        BY <2>1, <2>3, NestedEnds
    <2>4. CASE ~Lookup!Nested /\ lookupAt' = "notFound" /\ (~troubled' => ~nodeHasWallets) /\ UNCHANGED named
        <3>1. named = 0
            BY <2>4 DEF Lookup!Nested, Lookup!InElectrum
        <3> QED BY <2>1, <2>4, <3>1
    <2> QED BY <1>7, <2>2, <2>3, <2>4 DEF Lookup!ListWallets
<1>8. ASSUME NEW w \in Wallets, Lookup!TryWallet(w) PROVE LookupInv'
    <2>1. /\ lookupAt = "wallets" /\ lookupAt' \in {"found", "wallets"}
          /\ walletsLeft' = walletsLeft \ {w}
          /\ UNCHANGED <<Lookup!node, blockhash, named, height, lowest>>
        BY <1>8 DEF Lookup!TryWallet
    <2>2. ~troubled' => ~troubled
        BY <1>8 DEF Lookup!TryWallet
    <2>3. ~troubled' /\ lookupAt' = "wallets" /\ named = 0 /\ height = 0 => w \notin inWallet
        <3>1. named = 0 /\ height = 0 => ~Lookup!Nested
            BY DEF Lookup!Nested, Lookup!InSearch, Lookup!InElectrum
        <3>2. lookupAt' = "wallets" => troubled' = (troubled \/ (w \in inWallet /\ ~Lookup!Nested))
            BY <1>8 DEF Lookup!TryWallet
        <3> QED BY <3>1, <3>2, Zenon
    <2> QED BY <2>1, <2>2, <2>3
<1>9. CASE Lookup!NoWalletLeft
    <2>1. /\ lookupAt = "wallets" /\ walletsLeft = {}
          /\ UNCHANGED <<Lookup!node, blockhash, walletsLeft, height, lowest, troubled>>
        BY <1>9 DEF Lookup!NoWalletLeft
    <2>2. CASE Lookup!Nested
        BY <1>9, <2>1, <2>2, NestedEnds DEF Lookup!NoWalletLeft
    <2>3. CASE ~Lookup!Nested
        BY <1>9, <2>1, <2>3 DEF Lookup!NoWalletLeft, Lookup!Nested, Lookup!InSearch, Lookup!InElectrum
    <2> QED BY <2>2, <2>3
<1>10. CASE Lookup!GetBlockCount
    BY <1>10 DEF Lookup!GetBlockCount, Lookup!Lowest
<1>11. CASE Lookup!NextBlock
    BY <1>11 DEF Lookup!NextBlock
<1>12. CASE Lookup!AskInBlock
    <2>1. lookupAt = "inBlock" /\ UNCHANGED <<Lookup!node, blockhash, walletsLeft, height, lowest>>
        BY <1>12 DEF Lookup!AskInBlock
    <2>2. CASE lookupAt' = "found" /\ UNCHANGED <<named, troubled>>
        BY <2>1, <2>2
    <2>3. CASE /\ IF indexKnown THEN Lookup!CatchNested ELSE lookupAt' = "listWallets" /\ UNCHANGED named
               /\ ~troubled' => ~troubled /\ (height > 0 => confirmedAt # height)
        <3>1. Lookup!Nested
            BY <2>1 DEF Lookup!Nested, Lookup!InSearch, Lookup!InElectrum
        <3>2. CASE indexKnown
            BY <2>1, <2>3, <3>1, <3>2, NestedEnds
        <3>3. CASE ~indexKnown
            BY <2>1, <2>3, <3>3
        <3> QED BY <3>2, <3>3
    <2>4. height > 0 => named = 0
        OBVIOUS
    <2>5. ASSUME ~troubled', troubled' = (troubled \/ (Lookup!InSearch /\ Lookup!NodeFinds(IF Lookup!InElectrum THEN named ELSE height)))
          PROVE  ~troubled /\ (height > 0 => confirmedAt # height)
        <3>1. height > 0 => (IF Lookup!InElectrum THEN named ELSE height) = height /\ Lookup!InSearch
            BY <2>4 DEF Lookup!InElectrum, Lookup!InSearch
        <3>2. height > 0 => Lookup!NodeFinds(height) = (confirmedAt = height)
            BY DEF Lookup!NodeFinds
        <3> QED BY <2>5, <3>1, <3>2, Zenon
    <2> QED BY <1>12, <2>2, <2>3, <2>5 DEF Lookup!AskInBlock
<1> QED BY <1>1, <1>2, <1>3, <1>4, <1>5, <1>6, <1>7, <1>8, <1>9, <1>10, <1>11, <1>12
        DEF Lookup!Next, Lookup!LookupStep, Lookup!vars, lookupVars

\* getRawTransaction finds a transaction of the last Depth blocks or of a wallet, for every
\* tip, depth and set of wallets, on a node that lists its wallets.
THEOREM TransactionFound == Spec => []TransactionIsFound
<1>1. Init => LookupInv
    BY LookupInvInit DEF Init
<1>2. LookupInv /\ [Next]_vars => LookupInv'
    BY LookupRuns, LookupInvStep
<1>3. LookupInv => TransactionIsFound
    BY BoundsAssumption DEF BoundsAssumption, LookupInv, LookupTypes, NowhereRecent, TransactionIsFound,
       Lookup!TransactionIsFound, Lookup!Missed, Lookup!Recent
<1> QED BY <1>1, <1>2, <1>3, PTL DEF Spec

-----------------------------------------------------------------------------
(* The Electrum pool *)

\* What splice takes out of a sequence leaves every other place's element in it.
LEMMA RemoveAtKeepsOthers ==
    ASSUME NEW S, NEW seq \in Seq(S), NEW index \in 1 .. Len(seq)
    PROVE  /\ Electrum!RemoveAt(seq, index) \in Seq(S)
           /\ \A i \in 1 .. Len(seq) : i # index =>
                \E j \in 1 .. Len(Electrum!RemoveAt(seq, index)) : Electrum!RemoveAt(seq, index)[j] = seq[i]
<1> DEFINE front == SubSeq(seq, 1, index - 1)
           back == SubSeq(seq, index + 1, Len(seq))
<1>1. /\ front \in Seq(S) /\ Len(front) = index - 1
      /\ \A i \in 1 .. index - 1 : front[i] = seq[i]
    BY SubSeqProperties
<1>2. /\ back \in Seq(S) /\ Len(back) = Len(seq) - index
      /\ \A i \in 1 .. Len(seq) - index : back[i] = seq[index + i]
    BY SubSeqProperties
<1> HIDE DEF front, back
<1>3. /\ front \o back \in Seq(S) /\ Len(front \o back) = Len(seq) - 1
      /\ \A i \in 1 .. Len(seq) - 1 : (front \o back)[i] = IF i <= index - 1 THEN front[i] ELSE back[i - (index - 1)]
    BY <1>1, <1>2, ConcatProperties
<1>4. ASSUME NEW i \in 1 .. Len(seq), i # index
      PROVE  \E j \in 1 .. Len(front \o back) : (front \o back)[j] = seq[i]
    <2>1. CASE i < index
        <3>1. i \in 1 .. Len(front \o back) /\ (front \o back)[i] = seq[i]
            BY <1>1, <1>3, <2>1
        <3> QED BY <3>1
    <2>2. CASE i > index
        <3>0. i - 1 \in 1 .. Len(seq) - 1 /\ ~(i - 1 <= index - 1) /\ (i - 1) - (index - 1) = i - index
            BY <1>4, <2>2
        <3>1. i - 1 \in 1 .. Len(seq) - 1 /\ (front \o back)[i - 1] = back[i - index]
            BY <1>3, <3>0
        <3>2. back[i - index] = seq[i]
            BY <1>2, <2>2
        <3> QED BY <1>3, <3>1, <3>2
    <2> QED BY <1>4, <2>1, <2>2
<1> QED BY <1>3, <1>4 DEF Electrum!RemoveAt, front, back

\* Every connected server is in the sequence.
Names(seq, connectedServers) == \A s \in connectedServers : \E i \in DOMAIN seq : seq[i] = s

\* A request under way, or one that has ended with no wrong hash.
Asking(q) ==
    /\ q.at = "asking"
    /\ q = [at |-> "asking", kind |-> q.kind, asked |-> q.asked, present |-> q.present, answers |-> q.answers]
    /\ q.asked \in Seq(Servers) /\ q.asked # <<>>
    /\ Names(q.asked, q.present)
    /\ q.kind = "blockhash" =>
         q.answers \in [{"blockhash"} -> [DOMAIN q.asked -> Hashes \cup {Electrum!Pending, Electrum!Failed}]]

\* Some hash was named by every server that was connected when it was asked for.
AgreedOn(q) ==
    q.kind = "blockhash" =>
        \E hash \in Hashes : \A s \in q.present :
            \E i \in DOMAIN q.asked : q.asked[i] = s /\ q.answers["blockhash"][i] = hash

\* A request was not made, is under way, or ended with a hash that was agreed on.
RequestInv(q) ==
    \/ q = Electrum!NotMade
    \/ Asking(q)
    \/ q.at = "rejected"
    \/ q.at = "resolved" /\ AgreedOn(q)

\* The connected servers are in the pool, so each of them is asked.
ElectrumInv ==
    /\ electrumClients \in Seq(Servers)
    /\ Names(electrumClients, connected)
    /\ requests = [l \in Lookups |-> requests[l]]
    /\ \A l \in Lookups : RequestInv(requests[l])

\* The pool is empty.
LEMMA ElectrumInvInit == Electrum!Init => ElectrumInv
BY DEF Electrum!Init, ElectrumInv, Names, RequestInv

\* A server that closes is taken out of the pool, and those that stay connected are not.
LEMMA OnCloseKeeps ==
    ASSUME ElectrumInv, NEW s \in Servers, Electrum!OnClose(s)
    PROVE  ElectrumInv'
<1>1. electrumClients' \in Seq(Servers) /\ Names(electrumClients', connected')
    <2>1. PICK place \in DOMAIN electrumClients :
            electrumClients[place] = s /\ electrumClients' = Electrum!RemoveAt(electrumClients, place)
        BY DEF Electrum!OnClose
    <2>2. DOMAIN electrumClients = 1 .. Len(electrumClients)
        BY DEF ElectrumInv
    <2>3. connected' = connected \ {s}
        BY DEF Electrum!OnClose
    <2>4. /\ electrumClients' \in Seq(Servers)
          /\ \A k \in 1 .. Len(electrumClients) : k # place =>
               \E m \in DOMAIN electrumClients' : electrumClients'[m] = electrumClients[k]
        <3>1. electrumClients \in Seq(Servers) /\ place \in 1 .. Len(electrumClients)
            BY <2>2 DEF ElectrumInv
        <3>2. /\ Electrum!RemoveAt(electrumClients, place) \in Seq(Servers)
              /\ \A k \in 1 .. Len(electrumClients) : k # place =>
                   \E m \in 1 .. Len(Electrum!RemoveAt(electrumClients, place)) :
                        Electrum!RemoveAt(electrumClients, place)[m] = electrumClients[k]
            BY ONLY <3>1, RemoveAtKeepsOthers
        <3>3. DOMAIN electrumClients' = 1 .. Len(electrumClients')
            BY <2>1, <3>2
        <3> QED BY ONLY <2>1, <3>2, <3>3
    <2>5. ASSUME NEW other \in connected, other # s
          PROVE  \E m \in DOMAIN electrumClients' : electrumClients'[m] = other
        <3>1. PICK k \in DOMAIN electrumClients : electrumClients[k] = other
            BY DEF ElectrumInv, Names
        <3> QED BY <2>1, <2>2, <2>4, <2>5, <3>1
    <2> QED BY <2>3, <2>4, <2>5 DEF Names
<1>2. requests' = [l \in Lookups |-> IF Electrum!Open(l) THEN Electrum!WithoutServer(s, requests[l]) ELSE requests[l]]
    BY DEF Electrum!OnClose
<1>3. ASSUME NEW q, Asking(q) PROVE Asking(Electrum!WithoutServer(s, q))
    <2> DEFINE failing == [part \in DOMAIN q.answers |-> [k \in DOMAIN q.answers[part] |->
                             IF q.asked[k] = s /\ q.answers[part][k] = Electrum!Pending
                             THEN Electrum!Failed ELSE q.answers[part][k]]]
               closed == Electrum!WithoutServer(s, q)
    <2>1. closed = [at |-> "asking", kind |-> q.kind, asked |-> q.asked, present |-> q.present, answers |-> failing]
        BY <1>3 DEF Asking, Electrum!WithoutServer
    <2>2. ASSUME q.kind = "blockhash"
          PROVE  failing \in [{"blockhash"} -> [DOMAIN q.asked -> Hashes \cup {Electrum!Pending, Electrum!Failed}]]
        BY <1>3, <2>2 DEF Asking
    <2> HIDE DEF failing, closed
    <2>3. /\ closed.at = "asking" /\ closed.kind = q.kind /\ closed.asked = q.asked
          /\ closed.present = q.present /\ closed.answers = failing
        BY <2>1
    <2> QED BY <1>3, <2>1, <2>2, <2>3 DEF Asking, closed
<1>4. ASSUME NEW l \in Lookups PROVE RequestInv(requests'[l])
    <2>1. CASE Electrum!Open(l)
        <3>1. Asking(requests[l])
            BY <2>1 DEF Electrum!Open, ElectrumInv, RequestInv, Electrum!NotMade
        <3> QED BY <1>2, <1>3, <2>1, <3>1 DEF RequestInv
    <2>2. CASE ~Electrum!Open(l)
        BY <1>2, <2>2 DEF ElectrumInv
    <2> QED BY <2>1, <2>2
<1> QED BY <1>1, <1>2, <1>4 DEF ElectrumInv

\* An answer is noted at the place of the server that was asked.
LEMMA AnswerKeeps ==
    ASSUME ElectrumInv, NEW l \in Lookups, NEW part, NEW k, NEW data \in Electrum!DataOf(part) \cup {Electrum!Failed},
           Electrum!Answer(l, part, k, data)
    PROVE  ElectrumInv'
<1> DEFINE q == requests[l]
           answers == [q.answers EXCEPT ![part][k] = data]
           answered == [at |-> "asking", kind |-> q.kind, asked |-> q.asked, present |-> q.present, answers |-> answers]
<1>1. Asking(q)
    BY DEF Electrum!Answer, Electrum!Open, ElectrumInv, RequestInv, Electrum!NotMade
<1>2. /\ requests' = [requests EXCEPT ![l].answers[part][k] = data]
      /\ UNCHANGED <<electrumClients, connected>>
    BY DEF Electrum!Answer
<1>3. requests' = [requests EXCEPT ![l] = answered]
    <2>1. requests' = [requests EXCEPT ![l] = [q EXCEPT !.answers = answers]]
        BY <1>2 DEF ElectrumInv
    <2>2. [q EXCEPT !.answers = answers] = answered
        BY <1>1 DEF Asking
    <2> QED BY <2>1, <2>2
<1>4. ASSUME q.kind = "blockhash"
      PROVE  answers \in [{"blockhash"} -> [DOMAIN q.asked -> Hashes \cup {Electrum!Pending, Electrum!Failed}]]
    <2>1. part = "blockhash" /\ data \in Hashes \cup {Electrum!Failed}
        BY <1>1, <1>4 DEF Electrum!Answer, Asking, Electrum!DataOf
    <2> QED BY <1>1, <1>4, <2>1 DEF Asking
<1> HIDE DEF answers
<1>5. Asking(answered)
    BY <1>1, <1>4 DEF Asking
<1> QED BY <1>2, <1>3, <1>5 DEF ElectrumInv, RequestInv

\* The answers are compared when the last one is there.
LEMMA EndBlockHashKeeps ==
    ASSUME ElectrumInv, NEW l \in Lookups, Electrum!EndBlockHash(l)
    PROVE  ElectrumInv'
<1> DEFINE q == requests[l]
           answers == q.answers["blockhash"]
           ended == [at |-> IF Electrum!Agreed(answers) THEN "resolved" ELSE "rejected", kind |-> "blockhash",
                     asked |-> q.asked, present |-> q.present, answers |-> q.answers]
<1>1. Asking(q) /\ q.kind = "blockhash"
    BY DEF Electrum!EndBlockHash, Electrum!Open, ElectrumInv, RequestInv, Electrum!NotMade
<1>2. requests' = [requests EXCEPT ![l] = ended] /\ UNCHANGED <<electrumClients, connected>>
    BY DEF Electrum!EndBlockHash
<1>3. ASSUME Electrum!Agreed(answers) PROVE AgreedOn(ended)
    <2>1. /\ DOMAIN q.asked = 1 .. Len(q.asked) /\ Len(q.asked) \in Nat \ {0}
          /\ answers \in [1 .. Len(q.asked) -> Hashes \cup {Electrum!Pending, Electrum!Failed}]
        BY <1>1 DEF Asking
    <2>2. Len(answers) = Len(q.asked)
        BY <2>1
    <2> HIDE DEF answers
    <2>3. \A k \in 1 .. Len(q.asked) : answers[k] \in Hashes /\ answers[k] = answers[1]
        <3>1. \A k \in 1 .. Len(q.asked) : answers[k] \notin {Electrum!Pending, Electrum!Failed}
            BY <1>3, <2>1 DEF Electrum!Agreed, Electrum!Resolves, Electrum!Range
        <3>2. \A k \in 1 .. Len(q.asked) : k = 1 \/ k \in 2 .. Len(answers)
            BY <2>1, <2>2
        <3>3. \A k \in 2 .. Len(answers) : answers[k] = answers[1]
            BY <1>3 DEF Electrum!Agreed
        <3> QED BY <2>1, <3>1, <3>2, <3>3
    <2>4. answers[1] \in Hashes
        BY <2>1, <2>3
    <2> QED BY <1>1, <2>1, <2>3, <2>4 DEF AgreedOn, Asking, Names, answers
<1>4. RequestInv(ended)
    <2>1. ended.at = (IF Electrum!Agreed(answers) THEN "resolved" ELSE "rejected")
        OBVIOUS
    <2> QED BY <1>3, <2>1 DEF RequestInv
<1> HIDE DEF ended
<1> QED BY <1>2, <1>4 DEF ElectrumInv

\* Servers connect, close and answer in any order.
LEMMA ElectrumInvStep == ElectrumInv /\ [Electrum!Next]_electrumVars => ElectrumInv'
<1> SUFFICES ASSUME ElectrumInv, [Electrum!Next]_electrumVars PROVE ElectrumInv'
    OBVIOUS
<1>1. CASE UNCHANGED electrumVars
    BY <1>1 DEF electrumVars, ElectrumInv
<1>2. ASSUME NEW s \in Servers, Electrum!OnConnect(s) PROVE ElectrumInv'
    <2>1. /\ electrumClients' = Append(electrumClients, s) /\ connected' = connected \cup {s}
          /\ requests' = requests
        BY <1>2 DEF Electrum!OnConnect
    <2>2. /\ electrumClients' \in Seq(Servers) /\ Len(electrumClients') = Len(electrumClients) + 1
          /\ \A k \in 1 .. Len(electrumClients) : electrumClients'[k] = electrumClients[k]
          /\ electrumClients'[Len(electrumClients) + 1] = s
          /\ DOMAIN electrumClients = 1 .. Len(electrumClients) /\ Len(electrumClients) \in Nat
          /\ DOMAIN electrumClients' = 1 .. Len(electrumClients) + 1
        BY <2>1, AppendProperties DEF ElectrumInv
    <2>3. Names(electrumClients', connected')
        BY <2>1, <2>2 DEF ElectrumInv, Names
    <2> QED BY <2>1, <2>2, <2>3 DEF ElectrumInv
<1>3. ASSUME NEW s \in Servers, Electrum!OnClose(s) PROVE ElectrumInv'
    BY <1>3, OnCloseKeeps
<1>4. ASSUME NEW l \in Lookups, NEW kind \in {"address", "blockhash"}, Electrum!Ask(l, kind) PROVE ElectrumInv'
    <2> DEFINE pending == [part \in Electrum!Parts(kind) |-> [k \in DOMAIN electrumClients |-> Electrum!Pending]]
               asking == [at |-> "asking", kind |-> kind, asked |-> electrumClients, present |-> connected,
                          answers |-> pending]
               rejected == [at |-> "rejected", kind |-> kind, asked |-> <<>>, present |-> connected, answers |-> <<>>]
    <2>1. /\ requests' = [requests EXCEPT ![l] = IF electrumClients = <<>> THEN rejected ELSE asking]
          /\ UNCHANGED <<electrumClients, connected>>
        BY <1>4 DEF Electrum!Ask
    <2>2. RequestInv(rejected)
        BY DEF RequestInv
    <2>3. kind = "blockhash" => pending \in [{"blockhash"} -> [DOMAIN electrumClients -> {Electrum!Pending}]]
        BY DEF Electrum!Parts
    <2> HIDE DEF pending
    <2>4. ASSUME electrumClients # <<>> PROVE Asking(asking)
        BY <2>3, <2>4 DEF Asking, ElectrumInv
    <2> HIDE DEF asking, rejected
    <2> QED BY <2>1, <2>2, <2>4 DEF RequestInv, ElectrumInv
<1>5. ASSUME NEW l \in Lookups, NEW part \in {"history", "balance", "blockhash"}, NEW k,
             NEW data \in Electrum!DataOf(part) \cup {Electrum!Failed}, Electrum!Answer(l, part, k, data)
      PROVE  ElectrumInv'
    BY <1>5, AnswerKeeps
<1>6. ASSUME NEW l \in Lookups, Electrum!EndAddress(l) PROVE ElectrumInv'
    <2> DEFINE ended == [at |-> "resolved", kind |-> "address", asked |-> requests[l].asked,
                         present |-> requests[l].present,
                         details |-> [part \in Electrum!Parts("address") |->
                                        Electrum!PartOf(requests[l].answers[part])]]
    <2>1. requests' = [requests EXCEPT ![l] = ended] /\ UNCHANGED <<electrumClients, connected>>
        BY <1>6 DEF Electrum!EndAddress
    <2>2. RequestInv(ended)
        BY DEF RequestInv, AgreedOn
    <2> HIDE DEF ended
    <2> QED BY <2>1, <2>2 DEF ElectrumInv
<1>7. ASSUME NEW l \in Lookups, Electrum!EndBlockHash(l) PROVE ElectrumInv'
    BY <1>7, EndBlockHashKeeps
<1> QED BY <1>1, <1>2, <1>3, <1>4, <1>5, <1>6, <1>7
        DEF Electrum!Next, Electrum!RequestStep, Electrum!vars, electrumVars

\* The block hash that electrumAddressApi.js gives out was named by every server that was
\* connected when it was asked for, for any servers and hashes.
THEOREM HashIsAgreed == Spec => []BlockHashIsAgreed
<1>1. Init => ElectrumInv
    BY ElectrumInvInit DEF Init
<1>2. ElectrumInv /\ [Next]_vars => ElectrumInv'
    BY ElectrumRuns, ElectrumInvStep
<1>3. ElectrumInv => BlockHashIsAgreed
    BY DEF ElectrumInv, RequestInv, Asking, AgreedOn, Electrum!NotMade, BlockHashIsAgreed, Electrum!BlockHashIsAgreed
<1> QED BY <1>1, <1>2, <1>3, PTL DEF Spec
-----------------------------------------------------------------------------
(* A page of a block *)

\* The smaller of two numbers.
LEMMA SmallerOfTwo ==
    ASSUME NEW a \in Int, NEW b \in Int
    PROVE  Page!Min({a, b}) = IF a <= b THEN a ELSE b
<1>1. \A x \in {a, b} : (\A y \in {a, b} : x <= y) <=> x = IF a <= b THEN a ELSE b
    OBVIOUS
<1> QED BY <1>1 DEF Page!Min

\* The block's inputs spend outputs, and no two of them the same.
BlockTypes ==
    /\ spends \in Seq(Seq(Outputs)) /\ Len(spends) > 0
    /\ txLimit \in Nat /\ pageOffset \in Nat

\* How far the page reaches.
LastOfPage == Page!Min({pageOffset + txLimit, Len(spends)})

\* The transactions that the page lists of what came of the block.
AskedFor == Page!Listed(IF headerOnly THEN <<>> ELSE Page!Transactions)

\* The transactions that are asked for while an answer is waited for.
PageIsAsked ==
    /\ pageAt \in {"idle", "block"} => page = Page!NoPage
    /\ pageAt \in {"transactions", "inputs"} => txids = AskedFor
    /\ pageAt \in {"transactions", "inputs"} =>
         page = [Page!NoPage EXCEPT !.coinbaseTx = IF headerOnly THEN Page!Undefined ELSE 1]
    /\ pageAt = "inputs" => withInputs /\ (headerOnly => pageOffset = 0)
    /\ pageAt \in {"idle", "block", "transactions", "inputs"} => ~failed

\* What is asked for is what the page lists, and what is shown is of the block.
PageInv == BlockTypes /\ PageIsAsked /\ PageIsOfBlock

\* The last transaction of a page is one of the block, or there is none.
LEMMA LastOfPageRange ==
    ASSUME BlockTypes
    PROVE  /\ Len(spends) \in Nat \ {0} /\ DOMAIN spends = 1 .. Len(spends)
           /\ LastOfPage \in Nat /\ LastOfPage <= Len(spends)
           /\ LastOfPage = IF pageOffset + txLimit <= Len(spends) THEN pageOffset + txLimit ELSE Len(spends)
<1>1. Len(spends) \in Nat \ {0} /\ DOMAIN spends = 1 .. Len(spends) /\ pageOffset + txLimit \in Nat
    BY DEF BlockTypes
<1> QED BY <1>1, SmallerOfTwo DEF LastOfPage

\* What is shown of a page's transactions: those of its range, in order.
OnPage == SubSeq(Page!Transactions, pageOffset + 1, LastOfPage)

\* What is asked for of a block that came whole.
WholeListed == Page!Listed(Page!Transactions)

\* The page's part of the block's transactions is as long as its range and in its order.
LEMMA OnPageIsRange ==
    ASSUME BlockTypes
    PROVE  /\ OnPage \in Seq(Nat)
           /\ Len(OnPage) = IF pageOffset + 1 <= LastOfPage THEN LastOfPage - pageOffset ELSE 0
           /\ \A k \in 1 .. LastOfPage - pageOffset : OnPage[k] = pageOffset + k
<1> DEFINE numbers == [t \in Page!Numbers |-> t]
<1>1. \A t \in pageOffset + 1 .. LastOfPage : numbers[t] \in Nat /\ numbers[t] = t
    BY LastOfPageRange DEF Page!Numbers, BlockTypes
<1>2. pageOffset + 1 \in Int /\ LastOfPage \in Int /\ pageOffset \in Nat
    BY LastOfPageRange DEF BlockTypes
<1> HIDE DEF numbers
<1>3. /\ SubSeq(numbers, pageOffset + 1, LastOfPage) \in Seq(Nat)
      /\ Len(SubSeq(numbers, pageOffset + 1, LastOfPage)) =
           IF pageOffset + 1 <= LastOfPage THEN LastOfPage - (pageOffset + 1) + 1 ELSE 0
      /\ \A k \in 1 .. LastOfPage - (pageOffset + 1) + 1 :
           SubSeq(numbers, pageOffset + 1, LastOfPage)[k] = numbers[pageOffset + 1 + k - 1]
    BY <1>1, <1>2, SubSeqProperties
<1> QED BY <1>1, <1>2, <1>3 DEF OnPage, numbers, Page!Transactions

\* What is asked for is the coinbase, if it is not on the page, and the page's part.
LEMMA ListedIsRange ==
    ASSUME BlockTypes
    PROVE  /\ WholeListed = IF pageOffset > 0 THEN <<1>> \o OnPage ELSE OnPage
           /\ WholeListed \in Seq(Nat)
           /\ pageOffset > 0 => Tail(WholeListed) = OnPage
           /\ WholeListed # <<>> => Head(WholeListed) = 1
           /\ pageOffset < LastOfPage => WholeListed # <<>>
           /\ \A t \in pageOffset + 1 .. LastOfPage : \E k \in DOMAIN WholeListed : WholeListed[k] = t
<1>1. WholeListed = IF pageOffset > 0 THEN <<1>> \o OnPage ELSE OnPage
    <2>1. Page!Transactions # <<>> /\ Page!Transactions[1] = 1 /\ Len(Page!Transactions) = Len(spends)
        BY LastOfPageRange DEF Page!Transactions, Page!Numbers
    <2> QED BY <2>1 DEF WholeListed, Page!Listed, OnPage, LastOfPage
<1>2. pageOffset \in Nat /\ LastOfPage \in Nat
    BY LastOfPageRange DEF BlockTypes
<1>3. CASE pageOffset > 0
    <2>1. <<1>> \in Seq(Nat) /\ Len(<<1>>) = 1 /\ <<1>>[1] = 1
        OBVIOUS
    <2>2. /\ <<1>> \o OnPage \in Seq(Nat) /\ Len(<<1>> \o OnPage) = 1 + Len(OnPage)
          /\ \A k \in 1 .. 1 + Len(OnPage) :
               (<<1>> \o OnPage)[k] = IF k <= 1 THEN <<1>>[k] ELSE OnPage[k - 1]
        BY <2>1, OnPageIsRange, ConcatProperties
    <2>3. Len(OnPage) \in Nat
        BY OnPageIsRange
    <2> DEFINE all == <<1>> \o OnPage
    <2>4. all = WholeListed
        BY <1>1, <1>3
    <2>5. all # <<>> /\ all[1] = 1 /\ Len(all) = 1 + Len(OnPage) /\ all \in Seq(Nat)
        BY <2>1, <2>2, <2>3
    <2>6. \A k \in 1 .. Len(OnPage) : all[k + 1] = OnPage[k]
        BY <2>2, <2>3
    <2> HIDE DEF all
    <2>7. Head(all) = 1
        BY <2>5
    <2>8. Tail(all) = OnPage
        <3>1. /\ Tail(all) \in Seq(Nat) /\ Len(Tail(all)) = Len(OnPage)
              /\ \A k \in 1 .. Len(Tail(all)) : Tail(all)[k] = all[k + 1]
            BY <2>3, <2>5, HeadTailProperties
        <3> QED BY <2>6, <3>1, OnPageIsRange, SeqEqual
    <2>9. ASSUME NEW t \in pageOffset + 1 .. LastOfPage PROVE \E k \in DOMAIN all : all[k] = t
        <3>1. t - pageOffset \in 1 .. Len(OnPage) /\ OnPage[t - pageOffset] = t
            BY <1>2, OnPageIsRange
        <3>2. all[t - pageOffset + 1] = t
            BY <2>6, <3>1
        <3>3. t - pageOffset + 1 \in 1 .. Len(all)
            BY <2>3, <2>5, <3>1
        <3>4. DOMAIN all = 1 .. Len(all)
            BY <2>5
        <3> QED BY <3>2, <3>3, <3>4
    <2> QED BY <1>1, <2>4, <2>5, <2>7, <2>8, <2>9
<1>4. CASE pageOffset = 0
    <2>1. WholeListed = OnPage /\ OnPage \in Seq(Nat) /\ Len(OnPage) = LastOfPage
        BY <1>1, <1>2, <1>4, OnPageIsRange
    <2>2. \A k \in 1 .. LastOfPage : OnPage[k] = k
        BY <1>2, <1>4, OnPageIsRange
    <2> HIDE DEF OnPage
    <2>3. OnPage # <<>> => Head(OnPage) = 1
        <3>1. OnPage # <<>> => Len(OnPage) > 0
            BY <1>2, <2>1
        <3> QED BY <1>2, <2>1, <2>2, <3>1
    <2>4. 0 < LastOfPage => OnPage # <<>>
        BY <2>1
    <2>5. DOMAIN OnPage = 1 .. LastOfPage
        BY <2>1
    <2> QED BY <1>1, <1>4, <2>1, <2>2, <2>3, <2>4, <2>5
<1> QED BY <1>2, <1>3, <1>4

\* Of a header nothing is asked for, or what its empty list has in the coinbase's place.
LEMMA HeaderListed ==
    ASSUME BlockTypes
    PROVE  Page!Listed(<<>>) = IF pageOffset > 0 THEN <<Page!Undefined>> ELSE <<>>
<1>1. Len(<<>>) = 0 /\ pageOffset + txLimit \in Nat /\ pageOffset \in Nat
    BY DEF BlockTypes
<1>2. Page!Min({pageOffset + txLimit, Len(<<>>)}) \in {0, pageOffset + txLimit}
      /\ Page!Min({pageOffset + txLimit, Len(<<>>)}) <= 0
    BY <1>1, SmallerOfTwo
<1>3. PICK last \in Int : last = Page!Min({pageOffset + txLimit, Len(<<>>)}) /\ last < pageOffset + 1
    BY <1>1, <1>2
<1>4. SubSeq(<<>>, pageOffset + 1, last) = <<>>
    BY <1>1, <1>3
<1>5. <<Page!Undefined>> \o <<>> = <<Page!Undefined>>
    OBVIOUS
<1> QED BY <1>3, <1>4, <1>5 DEF Page!Listed

\* An output is told from every other by its transaction and its number.
LEMMA OutputIsChosen ==
    ASSUME BlockTypes, NEW t \in DOMAIN spends, NEW n \in DOMAIN spends[t],
           NEW summarized \in SUBSET Outputs, spends[t][n] \in summarized
    PROVE  (CHOOSE o \in summarized :
              Page!Key(o[1], o[2]) = Page!Key(spends[t][n][1], spends[t][n][2])) = spends[t][n]
<1>1. \A o \in summarized :
        Page!Key(o[1], o[2]) = Page!Key(spends[t][n][1], spends[t][n][2]) => o = spends[t][n]
    BY OutputsAssumption DEF OutputsAssumption, Page!Key
<1> QED BY <1>1

\* The page lists transactions of the block only.
LEMMA ListedInBlock ==
    ASSUME BlockTypes, NEW k \in DOMAIN WholeListed
    PROVE  WholeListed[k] \in DOMAIN spends
<1>1. /\ pageOffset \in Nat /\ LastOfPage \in Nat /\ LastOfPage <= Len(spends) /\ DOMAIN spends = 1 .. Len(spends)
      /\ Len(spends) \in Nat \ {0}
    BY LastOfPageRange DEF BlockTypes
<1>2. /\ OnPage \in Seq(Nat)
      /\ Len(OnPage) = IF pageOffset + 1 <= LastOfPage THEN LastOfPage - pageOffset ELSE 0
      /\ \A n \in 1 .. LastOfPage - pageOffset : OnPage[n] = pageOffset + n
    BY OnPageIsRange
<1>3. \A n \in 1 .. Len(OnPage) : OnPage[n] \in DOMAIN spends
    <2>1. \A n \in 1 .. Len(OnPage) : n \in 1 .. LastOfPage - pageOffset
        BY <1>1, <1>2
    <2> QED BY <1>1, <1>2, <2>1
<1>4. Len(OnPage) \in Nat
    BY <1>2
<1>5. WholeListed = IF pageOffset > 0 THEN <<1>> \o OnPage ELSE OnPage
    BY ListedIsRange
<1> HIDE DEF OnPage
<1>6. CASE pageOffset > 0
    <2>1. <<1>> \in Seq(Nat) /\ Len(<<1>>) = 1 /\ <<1>>[1] = 1
        OBVIOUS
    <2>2. /\ <<1>> \o OnPage \in Seq(Nat) /\ Len(<<1>> \o OnPage) = 1 + Len(OnPage)
          /\ \A n \in 1 .. 1 + Len(OnPage) :
               (<<1>> \o OnPage)[n] = IF n <= 1 THEN <<1>>[n] ELSE OnPage[n - 1]
        BY <1>2, <2>1, ConcatProperties
    <2> DEFINE all == <<1>> \o OnPage
    <2>3. all = WholeListed
        BY <1>5, <1>6
    <2> HIDE DEF all
    <2>4. k \in 1 .. 1 + Len(OnPage)
        BY <2>2, <2>3 DEF all
    <2>5. CASE k = 1
        BY <1>1, <2>1, <2>2, <2>3, <2>4, <2>5 DEF all
    <2>6. CASE k # 1
        <3>1. k - 1 \in 1 .. Len(OnPage) /\ ~(k <= 1)
            BY <1>4, <2>4, <2>6
        <3>2. all[k] = OnPage[k - 1]
            BY <2>2, <2>4, <3>1 DEF all
        <3> QED BY <1>3, <2>3, <3>1, <3>2
    <2> QED BY <2>5, <2>6
<1>7. CASE ~(pageOffset > 0)
    BY <1>2, <1>3, <1>5, <1>7
<1> QED BY <1>6, <1>7

\* The inputs that are looked up are inputs of the transaction.
LEMMA ShownIsSpent ==
    ASSUME BlockTypes, NEW t \in DOMAIN spends, NEW n \in Page!Shown(t)
    PROVE  spends[t][n] \in Outputs
<1>1. spends[t] \in Seq(Outputs) /\ Len(spends[t]) \in Nat
    BY DEF BlockTypes
<1>2. txMaxInput \in Nat
    BY PageAssumption DEF PageAssumption
<1>3. n \in 1 .. Len(spends[t])
    BY <1>1, <1>2, SmallerOfTwo DEF Page!Shown
<1> QED BY <1>1, <1>3

\* No page has been asked for.
LEMMA PageInvInit == Page!Init => PageInv
<1> SUFFICES ASSUME Page!Init PROVE PageInv
    OBVIOUS
<1>1. PICK count \in 1 .. BlockMaxTxs :
        spends \in [1 .. count -> UNION {[1 .. k -> Outputs] : k \in 0 .. MaxSpent}]
    BY DEF Page!Init
<1>2. ASSUME NEW t \in 1 .. count PROVE spends[t] \in Seq(Outputs)
    <2>0. spends[t] \in UNION {[1 .. k -> Outputs] : k \in 0 .. MaxSpent}
        BY <1>1, <1>2, Zenon
    <2>1. PICK k \in 0 .. MaxSpent : spends[t] \in [1 .. k -> Outputs]
        BY ONLY <2>0
    <2>2. k \in Nat
        OBVIOUS
    <2> QED BY ONLY <2>1, <2>2
<1>3. count \in Nat \ {0}
    BY <1>1
<1>4. spends \in Seq(Seq(Outputs)) /\ Len(spends) = count
    BY <1>1, <1>2, <1>3
<1> QED BY <1>3, <1>4 DEF Page!Init, PageInv, BlockTypes, PageIsAsked, PageIsOfBlock, Page!PageIsOfBlock

\* What PageIsOfBlock says of a page that is shown.
PageRange == {t \in Page!Numbers : t > pageOffset /\ t <= LastOfPage}
ShowsBlock ==
    /\ Len(page.transactions) = Page!Cardinality(PageRange)
    /\ \A k \in DOMAIN page.transactions : page.transactions[k] = pageOffset + k
    /\ withInputs => \A t \in PageRange :
         /\ \A n \in DOMAIN page.inputs[t] : page.inputs[t][n] = spends[t][n]
         /\ \A n \in DOMAIN spends[t] : n <= txMaxInput => n \in DOMAIN page.inputs[t]
    /\ ~withInputs => page.inputs = <<>>

\* What it says of one without transactions.
ShowsNothing == page.transactions = <<>> /\ \A t \in DOMAIN page.inputs : page.inputs[t] = <<>>

PageShows ==
    pageAt = "shown" =>
      /\ page.coinbaseTx = IF headerOnly THEN Page!Undefined ELSE 1
      /\ headerOnly /\ pageOffset > 0 => failed
      /\ headerOnly \/ failed => ShowsNothing
      /\ ~headerOnly /\ ~failed => ShowsBlock

LEMMA PageIsShown == (PageIsOfBlock <=> PageShows) /\ (PageIsOfBlock' <=> PageShows')
BY DEF PageIsOfBlock, Page!PageIsOfBlock, PageShows, ShowsBlock, ShowsNothing, PageRange, LastOfPage

\* What is resolved shows the block.
LEMMA ResolvedShowsBlock ==
    ASSUME PageInv, NEW pageInputs, Page!Resolve(pageInputs), txids = WholeListed, ~headerOnly, page.coinbaseTx = 1,
           UNCHANGED <<Page!node, txLimit, pageOffset, headerOnly, withInputs, failed>>, ~failed,
           withInputs => \A t \in pageOffset + 1 .. LastOfPage :
                 /\ \A n \in DOMAIN pageInputs[t] : pageInputs[t][n] = spends[t][n]
                 /\ \A n \in DOMAIN spends[t] : n <= txMaxInput => n \in DOMAIN pageInputs[t],
           ~withInputs => pageInputs = <<>>
    PROVE  PageIsOfBlock'
<1>1. /\ page'.transactions = OnPage /\ page'.inputs = pageInputs
      /\ page'.coinbaseTx = IF txids = <<>> THEN page.coinbaseTx ELSE Head(txids)
    BY ListedIsRange DEF Page!Resolve, PageInv, BlockTypes
<1>2. pageOffset \in Nat /\ LastOfPage \in Nat /\ LastOfPage <= Len(spends) /\ DOMAIN spends = 1 .. Len(spends)
      /\ Len(spends) \in Nat
    BY LastOfPageRange DEF PageInv, BlockTypes
<1>3. {t \in Page!Numbers : t > pageOffset /\ t <= LastOfPage} = pageOffset + 1 .. LastOfPage
    BY <1>2 DEF Page!Numbers
<1>4. Len(OnPage) = Page!Cardinality(pageOffset + 1 .. LastOfPage)
    <2>1. Len(OnPage) = IF pageOffset + 1 <= LastOfPage THEN LastOfPage - pageOffset ELSE 0
        BY OnPageIsRange DEF PageInv
    <2>2. Cardinality(pageOffset + 1 .. LastOfPage) =
            IF pageOffset + 1 > LastOfPage THEN 0 ELSE LastOfPage - (pageOffset + 1) + 1
        BY <1>2, FS_Interval
    <2>3. Page!Cardinality(pageOffset + 1 .. LastOfPage) = Cardinality(pageOffset + 1 .. LastOfPage)
        BY DEF Page!Cardinality, Cardinality
    <2> QED BY <1>2, <2>1, <2>2, <2>3
<1>5. \A k \in DOMAIN OnPage : OnPage[k] = pageOffset + k
    <2>1. /\ OnPage \in Seq(Nat)
          /\ Len(OnPage) = IF pageOffset + 1 <= LastOfPage THEN LastOfPage - pageOffset ELSE 0
          /\ \A k \in 1 .. LastOfPage - pageOffset : OnPage[k] = pageOffset + k
        BY OnPageIsRange DEF PageInv
    <2>2. DOMAIN OnPage \subseteq 1 .. LastOfPage - pageOffset
        BY <1>2, <2>1
    <2> QED BY <2>1, <2>2
<1>6. page'.coinbaseTx = 1
    BY <1>1, ListedIsRange DEF PageInv
<1>7. UNCHANGED <<spends, txLimit, pageOffset, withInputs>>
    BY DEF Page!node
<1>8. UNCHANGED LastOfPage
    BY <1>7 DEF LastOfPage
<1> DEFINE range == pageOffset + 1 .. LastOfPage
<1>9. /\ Len(page'.transactions) = Page!Cardinality(range)
      /\ \A k \in DOMAIN page'.transactions : page'.transactions[k] = pageOffset + k
      /\ withInputs => \A t \in range :
           /\ \A n \in DOMAIN page'.inputs[t] : page'.inputs[t][n] = spends[t][n]
           /\ \A n \in DOMAIN spends[t] : n <= txMaxInput => n \in DOMAIN page'.inputs[t]
      /\ ~withInputs => page'.inputs = <<>>
    BY <1>1, <1>4, <1>5
<1>10. PageRange' = range
    <2>1. Page!Numbers' = Page!Numbers
        BY <1>7 DEF Page!Numbers
    <2> QED BY <1>3, <1>7, <1>8, <2>1 DEF PageRange
<1> HIDE DEF range
<1>11. ShowsBlock'
    BY <1>7, <1>9, <1>10 DEF ShowsBlock
<1>12. ~headerOnly' /\ ~failed'
    OBVIOUS
<1> QED BY <1>6, <1>11, <1>12, PageIsShown DEF PageShows

\* What is resolved for a header shows nothing.
LEMMA ResolvedShowsNothing ==
    ASSUME NEW pageInputs, Page!Resolve(pageInputs), \A t \in DOMAIN pageInputs : pageInputs[t] = <<>>,
           headerOnly, pageOffset = 0, txids = <<>>, page.coinbaseTx = Page!Undefined,
           UNCHANGED <<pageOffset, headerOnly>>
    PROVE  PageIsOfBlock'
<1>1. page' = [transactions |-> <<>>, inputs |-> pageInputs, coinbaseTx |-> Page!Undefined]
    BY DEF Page!Resolve
<1>2. page'.transactions = <<>> /\ page'.inputs = pageInputs /\ page'.coinbaseTx = Page!Undefined
    BY <1>1
<1>3. ShowsNothing'
    BY <1>2 DEF ShowsNothing
<1>4. headerOnly' /\ pageOffset' = 0
    OBVIOUS
<1> QED BY <1>2, <1>3, <1>4, PageIsShown DEF PageShows

\* The answers for a page with inputs: each input is looked up by the key of the
\* output it spends.
LEMMA InputsArriveShows ==
    ASSUME PageInv, Page!InputsArrive
    PROVE  PageIsOfBlock'
<1> DEFINE summarized == UNION {{spends[txids[k]][n] : n \in Page!Shown(txids[k])} : k \in DOMAIN txids}
           listedInputs == [t \in Page!Numbers |->
                              IF \E k \in DOMAIN txids : txids[k] = t THEN Page!InputsOf(t, summarized) ELSE <<>>]
<1>0. /\ Page!Resolve(listedInputs) /\ pageAt = "inputs"
      /\ UNCHANGED <<Page!node, txLimit, pageOffset, headerOnly, withInputs, failed>>
    BY DEF Page!InputsArrive
<1>a. CASE headerOnly
    <2>1. pageOffset = 0 /\ txids = <<>> /\ page.coinbaseTx = Page!Undefined
        BY <1>0, <1>a, HeaderListed DEF PageInv, PageIsAsked, AskedFor, Page!NoPage
    <2>2. \A t \in DOMAIN listedInputs : listedInputs[t] = <<>>
        BY <2>1
    <2> HIDE DEF summarized, listedInputs
    <2> QED BY <1>0, <1>a, <2>1, <2>2, ResolvedShowsNothing
<1> SUFFICES ASSUME ~headerOnly PROVE PageIsOfBlock'
    BY <1>a
<1>1. withInputs /\ txids = WholeListed /\ page.coinbaseTx = 1 /\ ~failed
    BY <1>0 DEF PageInv, PageIsAsked, AskedFor, Page!NoPage, WholeListed
<1>2. ASSUME NEW t \in pageOffset + 1 .. LastOfPage
      PROVE  /\ \A n \in DOMAIN listedInputs[t] : listedInputs[t][n] = spends[t][n]
             /\ \A n \in DOMAIN spends[t] : n <= txMaxInput => n \in DOMAIN listedInputs[t]
    <2>1. t \in DOMAIN spends /\ t \in Page!Numbers
        BY LastOfPageRange DEF PageInv, BlockTypes, Page!Numbers
    <2>2. spends[t] \in Seq(Outputs) /\ DOMAIN spends[t] = 1 .. Len(spends[t]) /\ Len(spends[t]) \in Nat
        BY <2>1 DEF PageInv, BlockTypes
    <2>3. txMaxInput \in Nat
        BY PageAssumption DEF PageAssumption
    <2>4. Page!Shown(t) = {n \in DOMAIN spends[t] : n <= txMaxInput}
        BY <2>2, <2>3, SmallerOfTwo DEF Page!Shown
    <2>5. PICK k \in DOMAIN txids : txids[k] = t
        BY <1>1, ListedIsRange DEF PageInv
    <2>6. listedInputs[t] = Page!InputsOf(t, summarized)
        BY <2>1, <2>5
    <2>7. ASSUME NEW n \in Page!Shown(t)
          PROVE  Page!InputsOf(t, summarized)[n] = spends[t][n]
        <3>1. n \in DOMAIN spends[t] /\ spends[t][n] \in Outputs
            BY <2>2, <2>4
        <3>2. spends[t][n] \in summarized
            BY <2>5, <2>7
        <3> HIDE DEF summarized, listedInputs
        <3>3. Page!InputsOf(t, summarized)[n] =
                CHOOSE o \in summarized : Page!Key(o[1], o[2]) = Page!Key(spends[t][n][1], spends[t][n][2])
            BY <2>7 DEF Page!InputsOf
        <3>4. (CHOOSE o \in summarized :
                Page!Key(o[1], o[2]) = Page!Key(spends[t][n][1], spends[t][n][2])) = spends[t][n]
            <4>1. summarized \in SUBSET Outputs
                <5>1. \A m \in DOMAIN txids : txids[m] \in DOMAIN spends
                    BY <1>1, ListedInBlock DEF PageInv
                <5>2. \A m \in DOMAIN txids : \A j \in Page!Shown(txids[m]) : spends[txids[m]][j] \in Outputs
                    BY <5>1, ShownIsSpent DEF PageInv
                <5> QED BY <5>2 DEF summarized
            <4> QED BY <2>1, <3>1, <3>2, <4>1, OutputIsChosen DEF PageInv
        <3> QED BY <3>3, <3>4
    <2>8. DOMAIN Page!InputsOf(t, summarized) = Page!Shown(t)
        BY DEF Page!InputsOf
    <2> HIDE DEF summarized, listedInputs
    <2> QED BY <2>4, <2>6, <2>7, <2>8
<1> HIDE DEF summarized, listedInputs
<1> QED BY <1>0, <1>1, <1>2, ResolvedShowsBlock

LEMMA AskedForKept ==
    ASSUME UNCHANGED <<spends, txLimit, pageOffset, headerOnly>>
    PROVE  UNCHANGED AskedFor
BY DEF AskedFor, Page!Listed, Page!Transactions, Page!Numbers

LEMMA PageIsKept ==
    ASSUME PageIsOfBlock, UNCHANGED <<spends, pageAt, txLimit, pageOffset, headerOnly, withInputs, failed, page>>
    PROVE  PageIsOfBlock'
<1>1. /\ spends' = spends /\ pageAt' = pageAt /\ txLimit' = txLimit /\ pageOffset' = pageOffset
      /\ headerOnly' = headerOnly /\ withInputs' = withInputs /\ failed' = failed /\ page' = page
    OBVIOUS
<1>2. LastOfPage' = LastOfPage
    BY <1>1, Zenon DEF LastOfPage
<1>3. PageRange' = PageRange
    BY <1>1, <1>2, Zenon DEF PageRange, Page!Numbers
<1>4. ShowsBlock => ShowsBlock'
    BY <1>1, <1>3 DEF ShowsBlock
<1>5. ShowsNothing => ShowsNothing'
    BY <1>1 DEF ShowsNothing
<1> QED BY <1>1, <1>4, <1>5, PageIsShown DEF PageShows

\* The block arrives, then its transactions, then their inputs; any of the calls may fail.
LEMMA PageInvStep == PageInv /\ [Page!Next]_pageVars => PageInv'
<1> SUFFICES ASSUME PageInv, [Page!Next]_pageVars PROVE PageInv'
    OBVIOUS
<1> USE DEF PageInv, BlockTypes, PageIsAsked, Page!node
<1>1. CASE UNCHANGED pageVars
    <2>1. UNCHANGED <<spends, txLimit, pageOffset, headerOnly>>
        BY <1>1 DEF pageVars
    <2>2. UNCHANGED AskedFor
        BY <2>1, AskedForKept
    <2>3. PageIsOfBlock'
        BY <1>1, PageIsKept DEF pageVars
    <2> QED BY <1>1, <2>2, <2>3 DEF pageVars
<1>2. CASE Page!LearnIndex
    <2>1. UNCHANGED <<spends, txLimit, pageOffset, headerOnly>>
        BY <1>2 DEF Page!LearnIndex
    <2>2. UNCHANGED AskedFor
        BY <2>1, AskedForKept
    <2>3. PageIsOfBlock'
        BY <1>2, PageIsKept DEF Page!LearnIndex
    <2> QED BY <1>2, <2>2, <2>3 DEF Page!LearnIndex
<1>3. ASSUME NEW size \in PageLimits, NEW from \in Offsets, Page!GetBlock(size, from) PROVE PageInv'
    BY <1>3, PageAssumption DEF PageAssumption, Page!GetBlock, PageIsOfBlock, Page!PageIsOfBlock
<1>4. CASE Page!BlockArrives
    <2>1. /\ pageAt' \in {"transactions", "rejected"} /\ ~failed'
          /\ UNCHANGED <<spends, txLimit, pageOffset>>
        BY <1>4 DEF Page!BlockArrives
    <2>2. pageAt' = "transactions" =>
            /\ txids' = Page!Listed(IF headerOnly' THEN <<>> ELSE Page!Transactions)
            /\ page' = [Page!NoPage EXCEPT !.coinbaseTx = IF headerOnly' THEN Page!Undefined ELSE 1]
        BY <1>4 DEF Page!BlockArrives
    <2>3. Page!Listed(IF headerOnly' THEN <<>> ELSE Page!Transactions)
            = AskedFor'
        BY <2>1 DEF AskedFor, Page!Listed, Page!Transactions, Page!Numbers
    <2>4. PageIsOfBlock'
        BY <2>1 DEF PageIsOfBlock, Page!PageIsOfBlock
    <2> QED BY <2>1, <2>2, <2>3, <2>4
<1>5. CASE Page!TransactionsArrive
    <2>1. /\ pageAt = "transactions" /\ UNCHANGED <<Page!node, txLimit, pageOffset, headerOnly, txids, withInputs, failed>>
          /\ \A k \in DOMAIN txids : txids[k] # Page!Undefined
        BY <1>5 DEF Page!TransactionsArrive
    <2>2. ASSUME headerOnly PROVE pageOffset = 0 /\ txids = <<>> /\ page.coinbaseTx = Page!Undefined
        <3>1. txids = Page!Listed(<<>>) /\ page.coinbaseTx = Page!Undefined
            BY <2>1, <2>2 DEF AskedFor, Page!NoPage
        <3>2. DOMAIN <<Page!Undefined>> = {1} /\ <<Page!Undefined>>[1] = Page!Undefined
            OBVIOUS
        <3>3. txids # <<Page!Undefined>>
            BY <2>1, <3>2
        <3> QED BY <3>1, <3>3, HeaderListed
    <2>3. PageIsAsked'
        <3>1. UNCHANGED AskedFor
            BY <2>1, AskedForKept
        <3> QED BY <1>5, <2>1, <2>2, <3>1 DEF Page!TransactionsArrive, Page!Resolve
    <2>4. CASE withInputs
        BY <1>5, <2>1, <2>3, <2>4 DEF Page!TransactionsArrive, PageIsOfBlock, Page!PageIsOfBlock
    <2>5. CASE ~withInputs /\ ~headerOnly
        <3>1. Page!Resolve(<<>>) /\ txids = WholeListed /\ page.coinbaseTx = 1 /\ ~failed
            BY <1>5, <2>1, <2>5 DEF Page!TransactionsArrive, AskedFor, WholeListed, Page!NoPage
        <3>2. PageIsOfBlock'
            BY <2>1, <2>5, <3>1, ResolvedShowsBlock
        <3> QED BY <2>1, <2>3, <3>2
    <2>6. CASE ~withInputs /\ headerOnly
        <3>1. Page!Resolve(<<>>) /\ \A t \in DOMAIN <<>> : <<>>[t] = <<>>
            BY <1>5, <2>6 DEF Page!TransactionsArrive
        <3>2. PageIsOfBlock'
            BY <2>1, <2>2, <2>6, <3>1, ResolvedShowsNothing
        <3> QED BY <2>1, <2>3, <3>2
    <2> QED BY <2>4, <2>5, <2>6
<1>6. CASE Page!InputsArrive
    <2>1. PageIsOfBlock'
        BY <1>6, InputsArriveShows
    <2> QED BY <1>6, <2>1 DEF Page!InputsArrive, Page!Resolve
<1>7. CASE Page!CallFails
    <2>1. /\ pageAt \in {"transactions", "inputs"} /\ pageAt' \in {"shown", "rejected"} /\ failed'
          /\ UNCHANGED <<Page!node, txLimit, pageOffset, headerOnly, txids, withInputs, page>>
        BY <1>7 DEF Page!CallFails
    <2>2. /\ page'.coinbaseTx = IF headerOnly' THEN Page!Undefined ELSE 1
          /\ page'.transactions = <<>> /\ page'.inputs = <<>>
        BY <2>1 DEF Page!NoPage
    <2>3. ShowsNothing'
        BY <2>2 DEF ShowsNothing
    <2>4. PageIsOfBlock'
        BY <2>1, <2>2, <2>3, PageIsShown DEF PageShows
    <2> QED BY <2>1, <2>4
<1> QED BY <1>1, <1>2, <1>3, <1>4, <1>5, <1>6, <1>7 DEF Page!Next, Page!vars, pageVars

\* A page of getBlockWithTransactions shows the transactions of its range in their order,
\* the block's own coinbase, and each input with the output it spends, for every block,
\* page size, offset and input limit.
THEOREM PageShowsBlock == Spec => []PageIsOfBlock
<1>1. Init => PageInv
    BY PageInvInit DEF Init
<1>2. PageInv /\ [Next]_vars => PageInv'
    BY PageRuns, PageInvStep
<1>3. PageInv => PageIsOfBlock
    BY DEF PageInv
<1> QED BY <1>1, <1>2, <1>3, PTL DEF Spec

-----------------------------------------------------------------------------
(* Induction over data *)

\* A set of naturals has a least member.
LEMMA LeastNatural ==
    ASSUME NEW T, T \subseteq Nat, T # {}
    PROVE  \E x \in T : \A y \in T : x <= y
<1> DEFINE R == OpToRel(<, Nat)
<1>1. IsWellFoundedOn(R, Nat)
    BY NatLessThanWellFounded
<1> HIDE DEF R
<1>2. PICK x \in T : \A y \in T : ~ (<<y, x>> \in R)
    BY <1>1, WFMin
<1>3. ASSUME NEW y \in T PROVE x <= y
    <2>1. x \in Nat /\ y \in Nat
        BY <1>3
    <2>2. y < x => <<y, x>> \in R
        BY <2>1 DEF R, OpToRel
    <2> QED BY <2>1, <2>2, <1>2
<1> QED BY <1>3

\* If a finite set has subsets that are bad in some way, it has a smallest bad one, and
\* what is smaller is good.
LEMMA SmallestSubset ==
    ASSUME NEW S, IsFiniteSet(S), NEW Bad, Bad \subseteq SUBSET S, Bad # {}
    PROVE  \E s \in Bad : \A t \in SUBSET S : Cardinality(t) < Cardinality(s) => t \notin Bad
<1> DEFINE Sizes == {Cardinality(s) : s \in Bad}
<1>1. \A s \in SUBSET S : IsFiniteSet(s) /\ Cardinality(s) \in Nat
    BY FS_Subset, FS_CardinalityType
<1>2. Sizes \subseteq Nat /\ Sizes # {}
    BY <1>1
<1> HIDE DEF Sizes
<1>3. PICK n \in Sizes : \A m \in Sizes : n <= m
    BY ONLY <1>2, LeastNatural
<1>4. PICK s \in Bad : n = Cardinality(s)
    BY <1>3 DEF Sizes
<1>5. ASSUME NEW t \in SUBSET S, Cardinality(t) < Cardinality(s), t \in Bad PROVE FALSE
    <2>1. Cardinality(t) \in Sizes
        BY <1>5 DEF Sizes
    <2>2. Cardinality(s) <= Cardinality(t)
        BY <1>3, <1>4, <2>1
    <2> QED BY <1>1, <1>4, <1>5, <2>2
<1> QED BY <1>4, <1>5

-----------------------------------------------------------------------------
(* The weight of a set of transactions *)

\* The member the fold takes first.
First(s) == CHOOSE t \in s : TRUE

\* One step of the fold.
AddFirst(w, f, s) == IF s = {} THEN 0 ELSE w[First(s)] + f[s \ {First(s)}]

\* What the fold is on S and its subsets.
IsSum(w, f, S) == f = [s \in SUBSET S |-> AddFirst(w, f, s)]

\* What the fold makes of all of S.
Sum(w, S) == (CHOOSE f : IsSum(w, f, S))[S]

\* The weight of a set of transactions is the sum that the fold computes.
LEMMA WeightIsSum ==
    ASSUME NEW S
    PROVE  Prediction!WeightOf(S) = Sum(weight, S)
BY DEF Prediction!WeightOf, Prediction!FoldSet, Prediction!MapThenFoldSet, Sum, IsSum, AddFirst, First

\* Without its first member a set is a smaller one.
LEMMA WithoutMember ==
    ASSUME NEW S, IsFiniteSet(S), NEW s \in SUBSET S, NEW t \in s
    PROVE  /\ s \ {t} \in SUBSET S
           /\ Cardinality(s \ {t}) = Cardinality(s) - 1
           /\ Cardinality(s \ {t}) \in Nat /\ Cardinality(s) \in Nat
           /\ Cardinality(s \ {t}) < Cardinality(s)
<1>1. IsFiniteSet(s) /\ IsFiniteSet(s \ {t})
    BY FS_Subset
<1>2. Cardinality(s) \in Nat /\ Cardinality(s \ {t}) \in Nat
    BY <1>1, FS_CardinalityType
<1>3. Cardinality(s \ {t}) = Cardinality(s) - 1
    BY <1>1, FS_RemoveElement
<1> QED BY <1>2, <1>3

LEMMA FirstIsIn ==
    ASSUME NEW s, s # {}
    PROVE  First(s) \in s
BY DEF First

\* f is what the fold should be on the subsets of S with up to n members.
SumsUpTo(w, f, S, n) ==
    /\ f = [s \in SUBSET S |-> f[s]]
    /\ \A s \in SUBSET S : Cardinality(s) <= n => f[s] = AddFirst(w, f, s)

LEMMA SumsOneMore ==
    ASSUME NEW S, IsFiniteSet(S), NEW w, NEW n \in Nat, NEW f, SumsUpTo(w, f, S, n)
    PROVE  SumsUpTo(w, [s \in SUBSET S |-> AddFirst(w, f, s)], S, n + 1)
<1> DEFINE g == [s \in SUBSET S |-> AddFirst(w, f, s)]
<1>1. ASSUME NEW s \in SUBSET S, Cardinality(s) <= n + 1 PROVE g[s] = AddFirst(w, g, s)
    <2>1. CASE s = {}
        BY <2>1 DEF AddFirst
    <2>2. CASE s # {}
        <3> DEFINE rest == s \ {First(s)}
        <3>1. First(s) \in s
            BY <2>2, FirstIsIn
        <3>2. rest \in SUBSET S /\ Cardinality(rest) \in Nat /\ Cardinality(s) \in Nat
              /\ Cardinality(rest) = Cardinality(s) - 1
            BY <3>1, WithoutMember
        <3>3. Cardinality(rest) <= n
            BY <1>1, <3>2
        <3>4. f[rest] = AddFirst(w, f, rest)
            BY <3>2, <3>3 DEF SumsUpTo
        <3>5. g[rest] = f[rest]
            BY <3>2, <3>4
        <3> QED BY <2>2, <3>5 DEF AddFirst
    <2> QED BY <2>1, <2>2
<1> QED BY <1>1 DEF SumsUpTo

\* The fold of a finite set exists.
LEMMA SumExists ==
    ASSUME NEW S, IsFiniteSet(S), NEW w
    PROVE  \E f : IsSum(w, f, S)
<1> DEFINE Reached == {n \in Nat : \E f : SumsUpTo(w, f, S, n)}
           Missed == Nat \ Reached
<1>1. 0 \in Reached
    <2> DEFINE f == [s \in SUBSET S |-> 0]
    <2>1. ASSUME NEW s \in SUBSET S, Cardinality(s) <= 0 PROVE f[s] = AddFirst(w, f, s)
        <3>1. IsFiniteSet(s) /\ Cardinality(s) \in Nat
            BY FS_Subset, FS_CardinalityType
        <3>2. s = {}
            BY <2>1, <3>1, FS_EmptySet
        <3> QED BY <3>2 DEF AddFirst
    <2>2. SumsUpTo(w, f, S, 0)
        BY <2>1 DEF SumsUpTo
    <2> QED BY <2>2
<1>2. ASSUME NEW n \in Reached PROVE n + 1 \in Reached
    <2>1. PICK f : SumsUpTo(w, f, S, n)
        OBVIOUS
    <2>2. n \in Nat
        OBVIOUS
    <2>3. \E g : SumsUpTo(w, g, S, n + 1)
        BY <2>1, <2>2, SumsOneMore
    <2> QED BY <2>2, <2>3
<1>3. Missed = {}
    <2> SUFFICES ASSUME Missed # {} PROVE FALSE
        OBVIOUS
    <2>1. Missed \subseteq Nat
        OBVIOUS
    <2>2. PICK n \in Missed : \A m \in Missed : n <= m
        BY ONLY <2>1, Missed # {}, LeastNatural
    <2>3. n \in Nat /\ n \notin Reached /\ n # 0
        BY <1>1, <2>2
    <2>4. n - 1 \in Nat /\ n - 1 \in Reached
        BY <2>2, <2>3
    <2>5. (n - 1) + 1 \in Reached
        BY <1>2, <2>4
    <2> QED BY <2>3, <2>5
<1>4. Cardinality(S) \in Nat
    BY FS_CardinalityType
<1>5. PICK f : SumsUpTo(w, f, S, Cardinality(S))
    BY <1>3, <1>4
<1>6. \A s \in SUBSET S : Cardinality(s) <= Cardinality(S)
    BY FS_Subset
<1>7. IsSum(w, f, S)
    BY <1>5, <1>6 DEF SumsUpTo, IsSum
<1> QED BY <1>7

\* One step of a sum.
LEMMA SumStep ==
    ASSUME NEW S, NEW w, NEW f, IsSum(w, f, S), NEW s \in SUBSET S
    PROVE  f[s] = AddFirst(w, f, s)
BY DEF IsSum

LEMMA SumIsNat ==
    ASSUME NEW S, IsFiniteSet(S), NEW w, \A t \in S : w[t] \in Nat,
           NEW f, IsSum(w, f, S)
    PROVE  \A s \in SUBSET S : f[s] \in Nat
<1> DEFINE Bad == {s \in SUBSET S : f[s] \notin Nat}
<1> SUFFICES ASSUME Bad # {} PROVE FALSE
    OBVIOUS
<1>1. Bad \subseteq SUBSET S
    OBVIOUS
<1>2. PICK s \in Bad : \A t \in SUBSET S : Cardinality(t) < Cardinality(s) => t \notin Bad
    BY ONLY IsFiniteSet(S), <1>1, Bad # {}, SmallestSubset
<1>3. s \in SUBSET S /\ f[s] \notin Nat
    OBVIOUS
<1>4. f[s] = AddFirst(w, f, s)
    BY <1>3, SumStep
<1>5. s # {}
    BY <1>3, <1>4 DEF AddFirst
<1> DEFINE t == First(s)
           rest == s \ {t}
<1>6. t \in s
    BY <1>5, FirstIsIn
<1> HIDE DEF Bad
<1>7. rest \in SUBSET S /\ Cardinality(rest) < Cardinality(s)
    BY <1>3, <1>6, WithoutMember
<1>8. f[rest] \in Nat
    BY <1>2, <1>7 DEF Bad
<1>9. w[t] \in Nat
    BY <1>3, <1>6
<1> QED BY <1>3, <1>4, <1>5, <1>8, <1>9 DEF AddFirst

\* A sum does not depend on the order of its members.
LEMMA SumOfMember ==
    ASSUME NEW S, IsFiniteSet(S), NEW w, \A t \in S : w[t] \in Nat,
           NEW f, IsSum(w, f, S)
    PROVE  \A s \in SUBSET S : \A t \in s : f[s] = w[t] + f[s \ {t}]
<1> DEFINE Bad == {s \in SUBSET S : \E t \in s : f[s] # w[t] + f[s \ {t}]}
<1> SUFFICES ASSUME Bad # {} PROVE FALSE
    OBVIOUS
<1>1. Bad \subseteq SUBSET S
    OBVIOUS
<1>2. PICK s \in Bad : \A r \in SUBSET S : Cardinality(r) < Cardinality(s) => r \notin Bad
    BY ONLY IsFiniteSet(S), <1>1, Bad # {}, SmallestSubset
<1>3. s \in SUBSET S
    OBVIOUS
<1>4. PICK t \in s : f[s] # w[t] + f[s \ {t}]
    OBVIOUS
<1> DEFINE u == First(s)
<1>5. u \in s
    BY <1>4, FirstIsIn
<1>6. f[s] = w[u] + f[s \ {u}]
    BY <1>3, <1>4, SumStep DEF AddFirst
<1> HIDE DEF Bad, u
<1>7. t # u
    BY <1>4, <1>6
<1>8. s \ {u} \in SUBSET S /\ Cardinality(s \ {u}) < Cardinality(s)
    BY <1>3, <1>5, WithoutMember
<1>9. s \ {t} \in SUBSET S /\ Cardinality(s \ {t}) < Cardinality(s)
    BY <1>3, <1>4, WithoutMember
<1>10. t \in s \ {u} /\ u \in s \ {t}
    BY <1>4, <1>5, <1>7
<1>11. f[s \ {u}] = w[t] + f[(s \ {u}) \ {t}]
    BY <1>2, <1>8, <1>10 DEF Bad
<1>12. f[s \ {t}] = w[u] + f[(s \ {t}) \ {u}]
    BY <1>2, <1>9, <1>10 DEF Bad
<1>13. f[(s \ {u}) \ {t}] = f[(s \ {t}) \ {u}]
    <2>1. (s \ {u}) \ {t} = (s \ {t}) \ {u}
        OBVIOUS
    <2> QED BY <2>1
<1>14. w[t] \in Nat /\ w[u] \in Nat
    BY <1>3, <1>4, <1>5
<1>15. f[(s \ {u}) \ {t}] \in Nat
    <2>1. (s \ {u}) \ {t} \in SUBSET S
        BY <1>8
    <2>2. \A r \in SUBSET S : f[r] \in Nat
        BY SumIsNat
    <2> QED BY <2>1, <2>2
<1> QED BY ONLY <1>4, <1>6, <1>11, <1>12, <1>13, <1>14, <1>15

\* Two sets weigh together no more than each on its own.
LEMMA SumOfTwo ==
    ASSUME NEW S, IsFiniteSet(S), NEW w, \A t \in S : w[t] \in Nat,
           NEW f, IsSum(w, f, S), NEW a \in SUBSET S
    PROVE  \A s \in SUBSET S : f[a] <= f[a \cup s] /\ f[a \cup s] <= f[a] + f[s]
<1> DEFINE Bad == {s \in SUBSET S : ~(f[a] <= f[a \cup s] /\ f[a \cup s] <= f[a] + f[s])}
<1> SUFFICES ASSUME Bad # {} PROVE FALSE
    OBVIOUS
<1>1. Bad \subseteq SUBSET S
    OBVIOUS
<1> HIDE DEF Bad
<1>2. PICK s \in Bad : \A r \in SUBSET S : Cardinality(r) < Cardinality(s) => r \notin Bad
    BY ONLY IsFiniteSet(S), <1>1, Bad # {}, SmallestSubset
<1>3. s \in SUBSET S /\ ~(f[a] <= f[a \cup s] /\ f[a \cup s] <= f[a] + f[s])
    BY DEF Bad
<1>4. \A r \in SUBSET S : f[r] \in Nat
    BY SumIsNat
<1>5. a \cup s \in SUBSET S
    BY <1>3
<1>6. s # {}
    <2> SUFFICES ASSUME s = {} PROVE FALSE
        OBVIOUS
    <2>1. a \cup s = a /\ f[s] = 0
        BY <1>3, SumStep DEF AddFirst
    <2>2. f[a] \in Nat
        BY <1>4
    <2> QED BY <1>3, <2>1, <2>2
<1>7. PICK t \in s : TRUE
    BY <1>6
<1> DEFINE rest == s \ {t}
<1>8. rest \in SUBSET S /\ Cardinality(rest) < Cardinality(s)
    BY <1>3, <1>7, WithoutMember
<1>9. f[a] <= f[a \cup rest] /\ f[a \cup rest] <= f[a] + f[rest]
    BY <1>2, <1>8 DEF Bad
<1>10. f[s] = w[t] + f[rest]
    BY <1>3, <1>7, SumOfMember
<1>11. w[t] \in Nat /\ f[rest] \in Nat /\ f[a] \in Nat /\ f[a \cup rest] \in Nat
    BY <1>3, <1>4, <1>7, <1>8
<1>12. CASE t \in a
    <2>1. a \cup s = a \cup rest
        BY <1>7, <1>12
    <2>2. f[a \cup s] = f[a \cup rest]
        BY <2>1
    <2> HIDE DEF rest
    <2> QED BY ONLY <1>3, <1>9, <1>10, <1>11, <2>2
<1>13. CASE t \notin a
    <2>1. (a \cup s) \ {t} = a \cup rest /\ t \in a \cup s
        BY <1>7, <1>13
    <2>2. f[a \cup s] = w[t] + f[a \cup rest]
        BY <1>5, <2>1, SumOfMember
    <2> QED BY ONLY <1>3, <1>9, <1>10, <1>11, <2>2
<1> QED BY <1>12, <1>13

\* The sum of a part is the same, whatever it is a part of.
LEMMA SumOfPart ==
    ASSUME NEW S, IsFiniteSet(S), NEW w, NEW f, IsSum(w, f, S),
           NEW T \in SUBSET S, NEW g, IsSum(w, g, T)
    PROVE  \A s \in SUBSET T : g[s] = f[s]
<1> DEFINE Bad == {s \in SUBSET T : g[s] # f[s]}
<1> SUFFICES ASSUME Bad # {} PROVE FALSE
    OBVIOUS
<1>0. IsFiniteSet(T)
    BY FS_Subset
<1>1. Bad \subseteq SUBSET T
    OBVIOUS
<1> HIDE DEF Bad
<1>2. PICK s \in Bad : \A r \in SUBSET T : Cardinality(r) < Cardinality(s) => r \notin Bad
    BY ONLY <1>0, <1>1, Bad # {}, SmallestSubset
<1>3. s \in SUBSET T /\ s \in SUBSET S /\ g[s] # f[s]
    BY DEF Bad
<1>4. f[s] = AddFirst(w, f, s) /\ g[s] = AddFirst(w, g, s)
    BY <1>3, SumStep
<1>5. s # {}
    BY <1>3, <1>4 DEF AddFirst
<1>6. First(s) \in s
    BY <1>5, FirstIsIn
<1>7. s \ {First(s)} \in SUBSET T /\ Cardinality(s \ {First(s)}) < Cardinality(s)
    BY <1>0, <1>3, <1>6, WithoutMember
<1>8. g[s \ {First(s)}] = f[s \ {First(s)}]
    BY <1>2, <1>7 DEF Bad
<1> QED BY <1>3, <1>4, <1>5, <1>8 DEF AddFirst

\* What the fold computes, for every part of a finite set.
LEMMA SumsOfParts ==
    ASSUME NEW S, IsFiniteSet(S), NEW w, \A t \in S : w[t] \in Nat
    PROVE  /\ \A a \in SUBSET S : Sum(w, a) \in Nat
           /\ Sum(w, {}) = 0
           /\ \A a, b \in SUBSET S : Sum(w, a) <= Sum(w, a \cup b) /\ Sum(w, a \cup b) <= Sum(w, a) + Sum(w, b)
<1>1. PICK f : IsSum(w, f, S)
    BY SumExists
<1>2. ASSUME NEW a \in SUBSET S PROVE Sum(w, a) = f[a]
    <2>1. IsFiniteSet(a)
        BY FS_Subset
    <2> DEFINE g == CHOOSE h : IsSum(w, h, a)
    <2>2. IsSum(w, g, a)
        BY <2>1, SumExists
    <2>3. Sum(w, a) = g[a]
        BY DEF Sum
    <2> HIDE DEF g
    <2>4. a \in SUBSET a
        OBVIOUS
    <2>5. g[a] = f[a]
        BY <1>1, <2>2, <2>4, SumOfPart
    <2> QED BY <2>3, <2>5
<1>3. \A a \in SUBSET S : f[a] \in Nat
    BY <1>1, SumIsNat
<1>4. {} \in SUBSET S /\ f[{}] = 0
    <2>1. {} \in SUBSET S
        OBVIOUS
    <2>2. f[{}] = AddFirst(w, f, {})
        BY <1>1, <2>1, SumStep
    <2> QED BY <2>1, <2>2 DEF AddFirst
<1>5. ASSUME NEW a \in SUBSET S, NEW b \in SUBSET S PROVE f[a] <= f[a \cup b] /\ f[a \cup b] <= f[a] + f[b]
    BY <1>1, <1>5, SumOfTwo
<1>6. \A a, b \in SUBSET S : a \cup b \in SUBSET S
    OBVIOUS
<1> QED BY <1>2, <1>3, <1>4, <1>5, <1>6

-----------------------------------------------------------------------------
(* The block prediction *)

\* A list of length m has each member of D.
Lists(kept, m, D) == kept \in [1 .. m -> D] /\ \A d \in D : \E k \in 1 .. m : kept[k] = d

\* A list of indexes in order has each of them.
LEMMA InOrderHasAll ==
    ASSUME NEW n \in Nat, NEW D \in SUBSET (1 .. n), NEW kept \in Prediction!InOrder(D)
    PROVE  \E m \in Nat : Lists(kept, m, D)
<1>1. PICK m : m = Cardinality(D)
    OBVIOUS
<1>2. IsFiniteSet(D)
    <2>1. IsFiniteSet(1 .. n)
        BY FS_Interval
    <2> QED BY <2>1, FS_Subset
<1>3. m \in Nat
    BY <1>1, <1>2, FS_CardinalityType
<1>4. kept \in [1 .. m -> D] /\ \A j, k \in 1 .. m : j < k => kept[j] < kept[k]
    <2>1. m = Prediction!Cardinality(D)
        BY <1>1 DEF Prediction!Cardinality, Cardinality
    <2>2. kept \in [1 .. m -> D] /\ \A j, k \in DOMAIN kept : j < k => kept[j] < kept[k]
        BY <2>1 DEF Prediction!InOrder
    <2> QED BY <2>2
<1>5. ASSUME NEW j \in 1 .. m, NEW k \in 1 .. m, kept[j] = kept[k] PROVE j = k
    <2>1. kept[j] \in 1 .. n /\ kept[k] \in 1 .. n
        BY <1>4
    <2>2. ~(kept[j] < kept[k]) /\ ~(kept[k] < kept[j])
        BY <1>5, <2>1
    <2>3. ~(j < k) /\ ~(k < j)
        BY <1>4, <2>2
    <2> QED BY <1>3, <2>3
<1>6. kept \in Injection(1 .. m, D)
    BY <1>4, <1>5 DEF Injection, IsInjective
<1>7. Cardinality(1 .. m) = m
    BY <1>3, FS_Interval
<1>8. kept \in Surjection(1 .. m, D)
    BY <1>1, <1>2, <1>6, <1>7, FS_Injection
<1>9. \A d \in D : \E k \in 1 .. m : kept[k] = d
    BY <1>8 DEF Surjection
<1> QED BY <1>3, <1>4, <1>9 DEF Lists

\* The shape of the prediction's state.
Blocks == [weight : Nat, leads : Seq(Prediction!Txs), txids : SUBSET Prediction!Txs]

PackingTypes ==
    /\ packingAt \in {"idle", "packing", "closing", "done"}
    /\ weight \in [Prediction!Txs -> Nat] /\ outdated \subseteq Prediction!Txs
    /\ ancestors \in [Prediction!Txs -> SUBSET Prediction!Txs] /\ Prediction!IsAncestry(ancestors)
    /\ parents \in [Prediction!Txs -> SUBSET Prediction!Txs] /\ Prediction!IsDepends(parents, ancestors)
    /\ unAdded \in Seq(Prediction!Txs) /\ packingIndex \in 1 .. Len(unAdded) + 1
    /\ indexesToRemove \subseteq 1 .. Len(unAdded)
    /\ currentBlock \in Blocks /\ blocks \in Seq(Blocks)
    /\ added \subseteq Prediction!Txs

\* A block of transactions of weights w with parents par is not too heavy, and has the
\* parents of those chosen for it.
IsSound(block, w, par) ==
    /\ Sum(w, block.txids) <= block.weight /\ block.weight <= MaxBlockWeight
    /\ \A j \in DOMAIN block.leads : block.leads[j] \in block.txids /\ par[block.leads[j]] \subseteq block.txids
    /\ \A j, k \in DOMAIN block.leads : block.leads[j] = block.leads[k] => j = k

\* No transaction was chosen for both.
Apart(block, other) ==
    \A j \in DOMAIN block.leads, k \in DOMAIN other.leads : block.leads[j] # other.leads[k]

BlocksAreSound ==
    /\ IsSound(currentBlock, weight, parents)
    /\ \A b \in 1 .. Len(blocks) :
         /\ IsSound(blocks[b], weight, parents)
         /\ Apart(blocks[b], currentBlock)
         /\ \A c \in 1 .. Len(blocks) : b # c => Apart(blocks[b], blocks[c])

\* What was added is in the blocks.
AddedIsPacked ==
    \A t \in Prediction!Txs :
        t \in added <=> t \in currentBlock.txids \/ \E b \in 1 .. Len(blocks) : t \in blocks[b].txids

\* The others are still on the list, and only what was added is taken from it.
OthersAreLeft ==
    /\ packingAt # "idle" => \A t \in Prediction!Txs : t \in added \/ \E k \in 1 .. Len(unAdded) : unAdded[k] = t
    /\ \A k \in indexesToRemove : unAdded[k] \in added

\* Nothing is packed before, and nothing is left after.
StartAndEnd ==
    /\ packingAt = "idle" =>
         /\ blocks = <<>> /\ currentBlock = Prediction!EmptyBlock /\ added = {}
         /\ unAdded = <<>> /\ packingIndex = 1 /\ indexesToRemove = {}
    /\ packingAt = "done" =>
         /\ currentBlock = Prediction!EmptyBlock
         /\ Len(blocks) < MaxBlocks => Prediction!Txs \subseteq added

PackingInv == PackingTypes /\ BlocksAreSound /\ AddedIsPacked /\ OthersAreLeft /\ StartAndEnd

LEMMA EmptyBlockIsSound ==
    ASSUME NEW w, NEW par
    PROVE  /\ Prediction!EmptyBlock \in Blocks
           /\ (\A t \in Prediction!Txs : w[t] \in Nat) => IsSound(Prediction!EmptyBlock, w, par)
           /\ \A block \in Blocks : Apart(block, Prediction!EmptyBlock)
<1>1. IsFiniteSet(Prediction!Txs)
    <2>1. Count \in Int
        BY PredictionAssumption DEF PredictionAssumption
    <2> QED BY <2>1, FS_Interval DEF Prediction!Txs
<1>2. ASSUME \A t \in Prediction!Txs : w[t] \in Nat PROVE Sum(w, {}) = 0
    BY <1>1, <1>2, SumsOfParts
<1>3. 0 <= MaxBlockWeight
    BY PredictionAssumption DEF PredictionAssumption
<1>4. Prediction!EmptyBlock = [weight |-> 0, leads |-> <<>>, txids |-> {}]
    BY DEF Prediction!EmptyBlock
<1>5. <<>> \in Seq(Prediction!Txs) /\ DOMAIN <<>> = {}
    OBVIOUS
<1> QED BY <1>2, <1>3, <1>4, <1>5 DEF IsSound, Blocks, Apart

LEMMA PackingInvInit == Prediction!Init => PackingInv
<1> SUFFICES ASSUME Prediction!Init PROVE PackingInv
    OBVIOUS
<1>1. /\ weight = [t \in Prediction!Txs |-> 0] /\ ancestors = [t \in Prediction!Txs |-> {}]
      /\ parents = [t \in Prediction!Txs |-> {}]
    BY DEF Prediction!Init
<1>2. \A t \in Prediction!Txs : weight[t] \in Nat
    BY <1>1
<1>3. /\ packingAt = "idle" /\ outdated = {} /\ unAdded = <<>> /\ packingIndex = 1 /\ indexesToRemove = {}
      /\ added = {} /\ currentBlock = Prediction!EmptyBlock /\ blocks = <<>>
    BY DEF Prediction!Init
<1>4. currentBlock \in Blocks /\ IsSound(currentBlock, weight, parents)
    BY <1>2, <1>3, EmptyBlockIsSound
<1>5. currentBlock.txids = {}
    BY <1>3 DEF Prediction!EmptyBlock
<1>6. Prediction!IsAncestry(ancestors) /\ Prediction!IsDepends(parents, ancestors)
    BY <1>1 DEF Prediction!IsAncestry, Prediction!IsDepends
<1>7. PackingTypes
    BY <1>1, <1>3, <1>4, <1>6 DEF PackingTypes
<1>8. BlocksAreSound
    BY <1>3, <1>4 DEF BlocksAreSound
<1>9. AddedIsPacked /\ OthersAreLeft /\ StartAndEnd
    BY <1>3, <1>5 DEF AddedIsPacked, OthersAreLeft, StartAndEnd
<1> QED BY <1>7, <1>8, <1>9 DEF PackingInv

\* The summaries are sorted; nothing is packed yet.
LEMMA BeginKeeps == PackingInv /\ Prediction!Begin => PackingInv'
<1> SUFFICES ASSUME PackingInv, Prediction!Begin PROVE PackingInv'
    OBVIOUS
<1>1. Count \in Nat /\ Weights \subseteq Nat
    BY PredictionAssumption DEF PredictionAssumption
<1>2. packingAt = "idle" /\ blocks = <<>> /\ currentBlock = Prediction!EmptyBlock /\ added = {}
    BY DEF Prediction!Begin, PackingInv, StartAndEnd
<1>3. /\ packingAt' = IF Count = 0 THEN "done" ELSE "packing"
      /\ weight' \in [Prediction!Txs -> Nat] /\ outdated' \subseteq Prediction!Txs
      /\ ancestors' \in [Prediction!Txs -> SUBSET Prediction!Txs] /\ Prediction!IsAncestry(ancestors')
      /\ parents' \in [Prediction!Txs -> SUBSET Prediction!Txs] /\ Prediction!IsDepends(parents', ancestors')
      /\ unAdded' = [k \in Prediction!Txs |-> k]
    BY <1>1 DEF Prediction!Begin, Prediction!Ancestries
<1>4. UNCHANGED <<packingIndex, indexesToRemove, added, currentBlock, blocks>>
    BY DEF Prediction!Begin
<1>5. unAdded' \in Seq(Prediction!Txs) /\ Len(unAdded') = Count
      /\ \A t \in Prediction!Txs : t \in 1 .. Len(unAdded') /\ unAdded'[t] = t
    BY <1>1, <1>3 DEF Prediction!Txs
<1>6. unAdded = <<>> /\ packingIndex = 1 /\ indexesToRemove = {}
    BY <1>2 DEF PackingInv, StartAndEnd
<1>7. currentBlock' \in Blocks /\ IsSound(currentBlock', weight', parents')
    BY <1>2, <1>3, <1>4, EmptyBlockIsSound
<1>8. PackingTypes'
    BY <1>1, <1>2, <1>3, <1>4, <1>5, <1>6, <1>7 DEF PackingTypes, PackingInv
<1>9. BlocksAreSound'
    BY <1>2, <1>4, <1>7 DEF BlocksAreSound
<1>10. AddedIsPacked'
    BY <1>2, <1>4 DEF AddedIsPacked, Prediction!EmptyBlock
<1>11. OthersAreLeft'
    BY <1>4, <1>5, <1>6 DEF OthersAreLeft
<1>12. StartAndEnd'
    BY <1>1, <1>2, <1>3, <1>4 DEF StartAndEnd, Prediction!Txs
<1> QED BY <1>8, <1>9, <1>10, <1>11, <1>12 DEF PackingInv

\* A transaction is passed over; what is packed stays.
LEMMA PassKeeps ==
    PackingInv /\ (Prediction!AlreadyAdded \/ Prediction!TooHeavy \/ Prediction!EndLoop) => PackingInv'
<1> SUFFICES ASSUME PackingInv, Prediction!AlreadyAdded \/ Prediction!TooHeavy \/ Prediction!EndLoop
             PROVE  PackingInv'
    OBVIOUS
<1>1. /\ UNCHANGED <<weight, ancestors, parents, outdated, unAdded, added, currentBlock, blocks>>
      /\ packingAt = "packing" /\ packingAt' \in {"packing", "closing"}
      /\ \/ packingIndex' = packingIndex + 1 /\ packingIndex <= Len(unAdded)
         \/ UNCHANGED packingIndex
      /\ \/ UNCHANGED indexesToRemove
         \/ /\ indexesToRemove' = indexesToRemove \cup {packingIndex} /\ packingIndex <= Len(unAdded)
            /\ unAdded[packingIndex] \in added
    BY DEF Prediction!AlreadyAdded, Prediction!TooHeavy, Prediction!EndLoop, Prediction!Considering,
           Prediction!mempool, Prediction!tx
<1>2. /\ Len(unAdded) \in Nat /\ packingIndex \in 1 .. Len(unAdded) + 1
      /\ indexesToRemove \subseteq 1 .. Len(unAdded)
    BY DEF PackingInv, PackingTypes
<1>3. packingIndex' \in 1 .. Len(unAdded) + 1 /\ indexesToRemove' \subseteq 1 .. Len(unAdded)
    <2>1. PICK n : n = Len(unAdded)
        OBVIOUS
    <2>2. n \in Nat /\ packingIndex \in 1 .. n + 1 /\ indexesToRemove \subseteq 1 .. n
        BY <1>2, <2>1
    <2>3. packingIndex' = packingIndex \/ (packingIndex' = packingIndex + 1 /\ packingIndex <= n)
        BY <1>1, <2>1
    <2>4. packingIndex' \in 1 .. n + 1
        BY ONLY <2>2, <2>3
    <2>5. packingIndex <= n => packingIndex \in 1 .. n
        BY ONLY <2>2
    <2> QED BY ONLY <1>1, <2>1, <2>2, <2>4, <2>5
<1>4. PackingTypes'
    BY <1>1, <1>3 DEF PackingInv, PackingTypes
<1>5. BlocksAreSound' /\ AddedIsPacked'
    BY <1>1 DEF PackingInv, BlocksAreSound, AddedIsPacked
<1>6. OthersAreLeft'
    BY <1>1 DEF PackingInv, OthersAreLeft
<1>7. StartAndEnd'
    BY <1>1 DEF StartAndEnd
<1> QED BY <1>4, <1>5, <1>6, <1>7 DEF PackingInv

\* A block stays sound when a transaction that was not added joins it with its parents.
LEMMA JoinedIsSound ==
    ASSUME NEW w, \A t \in Prediction!Txs : w[t] \in Nat,
           NEW par \in [Prediction!Txs -> SUBSET Prediction!Txs],
           NEW block \in Blocks, IsSound(block, w, par),
           NEW t \in Prediction!Txs, t \notin block.txids,
           NEW more \in Nat, Sum(w, par[t] \cup {t}) <= more, block.weight + more <= MaxBlockWeight,
           NEW joined,
           joined = [weight |-> block.weight + more, leads |-> Append(block.leads, t),
                     txids |-> block.txids \cup par[t] \cup {t}]
    PROVE  joined \in Blocks /\ IsSound(joined, w, par)
<1>1. /\ block.weight \in Nat /\ block.leads \in Seq(Prediction!Txs) /\ block.txids \subseteq Prediction!Txs
      /\ Len(block.leads) \in Nat
    BY DEF Blocks
<1>2. par[t] \cup {t} \subseteq Prediction!Txs
    OBVIOUS
<1>3. /\ joined.weight = block.weight + more /\ joined.leads = Append(block.leads, t)
      /\ joined.txids = block.txids \cup (par[t] \cup {t})
    BY Zenon
<1>4. joined \in Blocks
    <2>1. Append(block.leads, t) \in Seq(Prediction!Txs)
        BY <1>1
    <2>2. block.weight + more \in Nat
        BY <1>1
    <2> QED BY <1>1, <1>2, <2>1, <2>2 DEF Blocks
<1>5. Sum(w, joined.txids) <= joined.weight
    <2>1. IsFiniteSet(Prediction!Txs)
        <3>1. Count \in Int
            BY PredictionAssumption DEF PredictionAssumption
        <3> QED BY <3>1, FS_Interval DEF Prediction!Txs
    <2>2. PICK a, b : a = block.txids /\ b = par[t] \cup {t}
        OBVIOUS
    <2>3. a \in SUBSET Prediction!Txs /\ b \in SUBSET Prediction!Txs
        BY <1>1, <1>2, <2>2
    <2>4. Sum(w, a \cup b) <= Sum(w, a) + Sum(w, b) /\ Sum(w, a) \in Nat /\ Sum(w, b) \in Nat
        /\ Sum(w, a \cup b) \in Nat
        <3>1. a \cup b \in SUBSET Prediction!Txs
            BY <2>3
        <3>2. /\ \A c \in SUBSET Prediction!Txs : Sum(w, c) \in Nat
              /\ \A c, d \in SUBSET Prediction!Txs : Sum(w, c \cup d) <= Sum(w, c) + Sum(w, d)
            BY <2>1, SumsOfParts
        <3> QED BY ONLY <2>3, <3>1, <3>2
    <2>5. Sum(w, a) <= block.weight /\ Sum(w, b) <= more
        BY <2>2 DEF IsSound
    <2>6. Sum(w, joined.txids) = Sum(w, a \cup b)
        BY <1>3, <2>2
    <2> QED BY ONLY <1>1, <1>3, <2>4, <2>5, <2>6, more \in Nat
<1>6. joined.weight <= MaxBlockWeight
    BY <1>3
<1>7. /\ DOMAIN joined.leads = 1 .. Len(block.leads) + 1
      /\ joined.leads[Len(block.leads) + 1] = t
      /\ \A j \in 1 .. Len(block.leads) : joined.leads[j] = block.leads[j]
      /\ DOMAIN block.leads = 1 .. Len(block.leads)
    BY <1>1, <1>3
<1>8. ASSUME NEW j \in DOMAIN joined.leads
       PROVE  joined.leads[j] \in joined.txids /\ par[joined.leads[j]] \subseteq joined.txids
    <2>1. CASE j \in 1 .. Len(block.leads)
        BY <1>3, <1>7, <2>1 DEF IsSound
    <2>2. CASE j = Len(block.leads) + 1
        BY <1>3, <1>7, <2>2
    <2> QED BY <1>1, <1>7, <2>1, <2>2
<1>9. ASSUME NEW j \in DOMAIN joined.leads, NEW k \in DOMAIN joined.leads, joined.leads[j] = joined.leads[k]
       PROVE  j = k
    <2>1. ASSUME NEW i \in 1 .. Len(block.leads) PROVE joined.leads[i] # t
        <3>1. block.leads[i] \in block.txids
            BY <1>7 DEF IsSound
        <3> QED BY <1>7, <3>1
    <2>2. CASE j \in 1 .. Len(block.leads) /\ k \in 1 .. Len(block.leads)
        BY <1>7, <1>9, <2>2 DEF IsSound
    <2>3. CASE j = Len(block.leads) + 1 /\ k \in 1 .. Len(block.leads)
        BY <1>7, <1>9, <2>1, <2>3
    <2>4. CASE k = Len(block.leads) + 1 /\ j \in 1 .. Len(block.leads)
        BY <1>7, <1>9, <2>1, <2>4
    <2>5. j \in 1 .. Len(block.leads) + 1 /\ k \in 1 .. Len(block.leads) + 1
        BY <1>7
    <2> QED BY ONLY <1>1, <2>2, <2>3, <2>4, <2>5
<1> QED BY <1>4, <1>5, <1>6, <1>8, <1>9 DEF IsSound

\* The transaction the loop has come to joins the block.
LEMMA AddTxKeeps == PackingInv /\ Prediction!AddTx => PackingInv'
<1> SUFFICES ASSUME PackingInv, Prediction!AddTx PROVE PackingInv'
    OBVIOUS
<1>0. PICK n : n = Len(unAdded)
    OBVIOUS
<1>1. /\ packingAt = "packing" /\ packingIndex <= n
      /\ UNCHANGED <<packingAt, weight, ancestors, parents, outdated, unAdded, blocks>>
      /\ indexesToRemove' = indexesToRemove \cup {packingIndex} /\ packingIndex' = packingIndex + 1
    BY <1>0 DEF Prediction!AddTx, Prediction!Considering, Prediction!mempool
<1>2. n \in Nat /\ packingIndex \in 1 .. n /\ indexesToRemove \subseteq 1 .. n /\ unAdded \in Seq(Prediction!Txs)
    BY <1>0, <1>1 DEF PackingInv, PackingTypes
<1>3. PICK t : t = unAdded[packingIndex]
    OBVIOUS
<1>4. t \in Prediction!Txs
    BY <1>0, <1>2, <1>3
<1>5. PICK more : more = Prediction!WeightWithAncestors(t)
    OBVIOUS
<1>6. /\ t \notin added /\ currentBlock.weight + more <= MaxBlockWeight
      /\ currentBlock' = [weight |-> currentBlock.weight + more, leads |-> Append(currentBlock.leads, t),
                          txids |-> currentBlock.txids \cup parents[t] \cup {t}]
      /\ added' = added \cup parents[t] \cup {t}
    BY <1>3, <1>5 DEF Prediction!AddTx, Prediction!Fits, Prediction!tx
<1>7. /\ weight \in [Prediction!Txs -> Nat] /\ ancestors \in [Prediction!Txs -> SUBSET Prediction!Txs]
      /\ parents \in [Prediction!Txs -> SUBSET Prediction!Txs] /\ Prediction!IsDepends(parents, ancestors)
      /\ currentBlock \in Blocks /\ blocks \in Seq(Blocks)
      /\ added \subseteq Prediction!Txs
      /\ IsSound(currentBlock, weight, parents)
    BY DEF PackingInv, PackingTypes, BlocksAreSound
<1>8. \A p \in Prediction!Txs : weight[p] \in Nat
    BY <1>7
<1>9. more \in Nat /\ Sum(weight, parents[t] \cup {t}) <= more
    <2>1. DepartedWeight \in Nat
        BY PredictionAssumption DEF PredictionAssumption
    <2>2. IsFiniteSet(Prediction!Txs)
        <3>1. Count \in Int
            BY PredictionAssumption DEF PredictionAssumption
        <3> QED BY <3>1, FS_Interval DEF Prediction!Txs
    <2>3. PICK w, a, b : w = weight /\ a = parents[t] \cup {t} /\ b = ancestors[t] \cup {t}
        OBVIOUS
    <2>4. Sum(w, a) <= Sum(w, b) /\ Sum(w, a) \in Nat /\ Sum(w, b) \in Nat
        <3>1. a \in SUBSET Prediction!Txs /\ b \in SUBSET Prediction!Txs
            BY <1>4, <1>7, <2>3
        <3>2. a \cup b = b
            BY <1>4, <1>7, <2>3 DEF Prediction!IsDepends
        <3>3. /\ \A c \in SUBSET Prediction!Txs : Sum(w, c) \in Nat
              /\ \A c, d \in SUBSET Prediction!Txs : Sum(w, c) <= Sum(w, c \cup d)
            BY <1>8, <2>2, <2>3, SumsOfParts
        <3>4. Sum(w, a) <= Sum(w, a \cup b)
            BY ONLY <3>1, <3>3
        <3> QED BY ONLY <3>1, <3>2, <3>3, <3>4
    <2>5. more = Sum(w, b) + IF t \in outdated THEN DepartedWeight ELSE 0
        BY <1>5, <2>3, WeightIsSum DEF Prediction!WeightWithAncestors
    <2>6. Sum(weight, parents[t] \cup {t}) = Sum(w, a)
        BY <2>3
    <2> QED BY <2>1, <2>4, <2>5, <2>6
<1>10. t \notin currentBlock.txids
    BY <1>4, <1>6 DEF PackingInv, AddedIsPacked
<1>11. currentBlock' \in Blocks /\ IsSound(currentBlock', weight, parents)
    <2>1. PICK w, par, block, joined : w = weight /\ par = parents /\ block = currentBlock /\ joined = currentBlock'
        OBVIOUS
    <2>2. joined \in Blocks /\ IsSound(joined, w, par)
        BY <1>4, <1>6, <1>7, <1>8, <1>9, <1>10, <2>1, JoinedIsSound
    <2> QED BY <2>1, <2>2
<1>12. currentBlock'.txids = currentBlock.txids \cup parents[t] \cup {t}
       /\ currentBlock'.leads = Append(currentBlock.leads, t)
    BY <1>6
<1>13. PackingTypes'
    <2>1. packingIndex' \in 1 .. n + 1 /\ indexesToRemove' \subseteq 1 .. n
        BY <1>1, <1>2
    <2>2. added' \subseteq Prediction!Txs
        BY <1>4, <1>6, <1>7
    <2> QED BY <1>0, <1>1, <1>7, <1>11, <2>1, <2>2 DEF PackingInv, PackingTypes
<1>14. BlocksAreSound'
    <2>1. ASSUME NEW b \in 1 .. Len(blocks)
          PROVE  /\ IsSound(blocks[b], weight, parents) /\ Apart(blocks[b], currentBlock)
                 /\ \A c \in 1 .. Len(blocks) : b # c => Apart(blocks[b], blocks[c])
        BY DEF PackingInv, BlocksAreSound
    <2>2. ASSUME NEW b \in 1 .. Len(blocks) PROVE Apart(blocks[b], currentBlock')
        <3>1. t \notin blocks[b].txids
            BY <1>4, <1>6 DEF PackingInv, AddedIsPacked
        <3>2. \A j \in DOMAIN blocks[b].leads : blocks[b].leads[j] # t
            BY <2>1, <3>1 DEF IsSound
        <3>3. currentBlock.leads \in Seq(Prediction!Txs)
            BY <1>7 DEF Blocks
        <3>4. \A k \in DOMAIN currentBlock'.leads :
                currentBlock'.leads[k] = t \/ (k \in DOMAIN currentBlock.leads
                                               /\ currentBlock'.leads[k] = currentBlock.leads[k])
            BY <1>12, <3>3
        <3>5. Apart(blocks[b], currentBlock)
            BY <2>1
        <3> QED BY <3>2, <3>4, <3>5 DEF Apart
    <2> QED BY <1>1, <1>11, <2>1, <2>2 DEF BlocksAreSound
<1>15. AddedIsPacked'
    <2>1. ASSUME NEW p \in Prediction!Txs
          PROVE  p \in added <=> p \in currentBlock.txids \/ \E b \in 1 .. Len(blocks) : p \in blocks[b].txids
        BY DEF PackingInv, AddedIsPacked
    <2> QED BY <1>1, <1>6, <1>12, <2>1 DEF AddedIsPacked
<1>16. OthersAreLeft'
    <2>1. \A p \in Prediction!Txs : p \in added \/ \E k \in 1 .. Len(unAdded) : unAdded[k] = p
        BY <1>1 DEF PackingInv, OthersAreLeft
    <2>2. \A k \in indexesToRemove : unAdded[k] \in added
        BY DEF PackingInv, OthersAreLeft
    <2> QED BY <1>1, <1>3, <1>6, <2>1, <2>2 DEF OthersAreLeft
<1>17. StartAndEnd'
    BY <1>1 DEF StartAndEnd
<1> QED BY <1>13, <1>14, <1>15, <1>16, <1>17 DEF PackingInv

\* The block is pushed, and what was added leaves the list.
LEMMA CloseBlockKeeps == PackingInv /\ Prediction!CloseBlock => PackingInv'
<1> SUFFICES ASSUME PackingInv, Prediction!CloseBlock PROVE PackingInv'
    OBVIOUS
<1>0. PICK n : n = Len(unAdded)
    OBVIOUS
<1>1. /\ n \in Nat /\ unAdded \in [1 .. n -> Prediction!Txs] /\ indexesToRemove \subseteq 1 .. n
      /\ weight \in [Prediction!Txs -> Nat] /\ currentBlock \in Blocks /\ blocks \in Seq(Blocks)
    BY <1>0 DEF PackingInv, PackingTypes
<1>2. PICK kept \in Prediction!InOrder((1 .. n) \ indexesToRemove) :
        unAdded' = [k \in DOMAIN kept |-> unAdded[kept[k]]]
    BY <1>0, <1>1 DEF Prediction!CloseBlock
<1>3. /\ packingAt = "closing" /\ blocks' = Append(blocks, currentBlock)
      /\ packingAt' = IF unAdded' # <<>> /\ Len(blocks') < MaxBlocks THEN "packing" ELSE "done"
      /\ currentBlock' = Prediction!EmptyBlock /\ packingIndex' = 1 /\ indexesToRemove' = {}
      /\ UNCHANGED <<weight, ancestors, parents, outdated, added>>
    BY DEF Prediction!CloseBlock, Prediction!mempool
<1>4. PICK m \in Nat :
        /\ kept \in [1 .. m -> (1 .. n) \ indexesToRemove]
        /\ \A d \in (1 .. n) \ indexesToRemove : \E k \in 1 .. m : kept[k] = d
    <2>1. PICK D, list : D = (1 .. n) \ indexesToRemove /\ list = kept
        OBVIOUS
    <2>2. n \in Nat /\ D \in SUBSET (1 .. n) /\ list \in Prediction!InOrder(D)
        BY <1>1, <1>2, <2>1
    <2>3. PICK m \in Nat : Lists(list, m, D)
        BY ONLY <2>2, InOrderHasAll
    <2> QED BY <2>1, <2>3 DEF Lists
<1>5. /\ unAdded' \in Seq(Prediction!Txs) /\ Len(unAdded') = m
      /\ \A k \in 1 .. m : unAdded'[k] = unAdded[kept[k]]
    BY <1>1, <1>2, <1>4
<1>6. currentBlock' \in Blocks /\ IsSound(currentBlock', weight, parents)
    BY <1>1, <1>3, EmptyBlockIsSound
<1>7. /\ Len(blocks') = Len(blocks) + 1 /\ blocks' \in Seq(Blocks) /\ Len(blocks) \in Nat
      /\ \A b \in 1 .. Len(blocks) : blocks'[b] = blocks[b]
      /\ blocks'[Len(blocks) + 1] = currentBlock
      /\ \A b \in 1 .. Len(blocks') : b \in 1 .. Len(blocks) \/ b = Len(blocks) + 1
    BY <1>1, <1>3
<1>8. PackingTypes'
    BY <1>3, <1>5, <1>6, <1>7 DEF PackingInv, PackingTypes
<1>9. BlocksAreSound'
    <2>1. ASSUME NEW b \in 1 .. Len(blocks')
          PROVE  IsSound(blocks'[b], weight, parents) /\ Apart(blocks'[b], currentBlock')
        <3>1. IsSound(blocks'[b], weight, parents)
            BY <1>7 DEF PackingInv, BlocksAreSound
        <3>2. blocks'[b] \in Blocks
            BY <1>7
        <3> QED BY <1>3, <3>1, <3>2, EmptyBlockIsSound
    <2>2. ASSUME NEW b \in 1 .. Len(blocks'), NEW c \in 1 .. Len(blocks'), b # c
          PROVE  Apart(blocks'[b], blocks'[c])
        <3>1. CASE b \in 1 .. Len(blocks) /\ c \in 1 .. Len(blocks)
            BY <1>7, <2>2, <3>1 DEF PackingInv, BlocksAreSound
        <3>2. CASE b \in 1 .. Len(blocks) /\ c = Len(blocks) + 1
            BY <1>7, <3>2 DEF PackingInv, BlocksAreSound
        <3>3. CASE c \in 1 .. Len(blocks) /\ b = Len(blocks) + 1
            <4>1. Apart(blocks[c], currentBlock)
                BY <3>3 DEF PackingInv, BlocksAreSound
            <4>2. Apart(currentBlock, blocks[c])
                BY <4>1 DEF Apart
            <4> QED BY <1>7, <3>3, <4>2
        <3> QED BY <1>7, <2>2, <3>1, <3>2, <3>3
    <2> QED BY <1>3, <1>6, <2>1, <2>2 DEF BlocksAreSound
<1>10. AddedIsPacked'
    <2>1. ASSUME NEW p \in Prediction!Txs
          PROVE  p \in added <=> p \in currentBlock.txids \/ \E b \in 1 .. Len(blocks) : p \in blocks[b].txids
        BY DEF PackingInv, AddedIsPacked
    <2>2. ASSUME NEW p
          PROVE  (\E b \in 1 .. Len(blocks') : p \in blocks'[b].txids)
                   <=> (p \in currentBlock.txids \/ \E b \in 1 .. Len(blocks) : p \in blocks[b].txids)
        <3>1. Len(blocks) + 1 \in 1 .. Len(blocks') /\ \A b \in 1 .. Len(blocks) : b \in 1 .. Len(blocks')
            BY <1>7
        <3> QED BY <1>7, <3>1
    <2>3. currentBlock'.txids = {}
        BY <1>3 DEF Prediction!EmptyBlock
    <2> QED BY <1>3, <2>1, <2>2, <2>3 DEF AddedIsPacked
<1>11. ASSUME NEW p \in Prediction!Txs, p \notin added PROVE \E k \in 1 .. m : unAdded'[k] = p
    <2>1. PICK d \in 1 .. n : unAdded[d] = p
        BY <1>0, <1>3, <1>11 DEF PackingInv, OthersAreLeft
    <2>2. d \notin indexesToRemove
        BY <1>11, <2>1 DEF PackingInv, OthersAreLeft
    <2>3. PICK k \in 1 .. m : kept[k] = d
        BY <1>4, <2>1, <2>2
    <2> QED BY <1>5, <2>1, <2>3
<1>12. OthersAreLeft'
    BY <1>3, <1>5, <1>11 DEF OthersAreLeft
<1>13. StartAndEnd'
    <2>1. ASSUME unAdded' = <<>> PROVE Prediction!Txs \subseteq added
        <3>1. m = 0
            BY <1>5, <2>1
        <3> QED BY <1>11, <3>1
    <2>2. packingAt' # "idle"
        BY <1>3
    <2> QED BY <1>3, <2>1, <2>2 DEF StartAndEnd
<1> QED BY <1>8, <1>9, <1>10, <1>12, <1>13 DEF PackingInv

\* Each step of the prediction keeps the invariant.
LEMMA PackingInvStep == PackingInv /\ [Prediction!Next]_predictionVars => PackingInv'
<1> SUFFICES ASSUME PackingInv, [Prediction!Next]_predictionVars PROVE PackingInv'
    OBVIOUS
<1>1. CASE UNCHANGED predictionVars
    <2>1. UNCHANGED <<packingAt, weight, ancestors, parents, outdated, unAdded, packingIndex, indexesToRemove, added,
                      currentBlock, blocks>>
        BY <1>1 DEF predictionVars
    <2>2. PackingTypes'
        BY <2>1 DEF PackingInv, PackingTypes
    <2>3. BlocksAreSound' /\ AddedIsPacked'
        BY <2>1 DEF PackingInv, BlocksAreSound, AddedIsPacked
    <2>4. OthersAreLeft' /\ StartAndEnd'
        BY <2>1 DEF PackingInv, OthersAreLeft, StartAndEnd
    <2> QED BY <2>2, <2>3, <2>4 DEF PackingInv
<1> QED BY <1>1, BeginKeeps, PassKeeps, AddTxKeeps, CloseBlockKeeps DEF Prediction!Next, Prediction!vars, predictionVars

\* What a transaction counts for, with the weights w, the ancestors anc and the old summaries.
Counted(w, anc, old, t) == Sum(w, anc[t] \cup {t}) + IF t \in old THEN DepartedWeight ELSE 0

\* The list is in the order of the fee rates.
InListOrder == \A j, k \in 1 .. Len(unAdded) : j < k => unAdded[j] < unAdded[k]

\* What the loop has passed was added, or does not fit into the block any more.
PassedOver ==
    \A k \in 1 .. packingIndex - 1 :
        unAdded[k] \in added \/ currentBlock.weight + Counted(weight, ancestors, outdated, unAdded[k]) > MaxBlockWeight

\* p goes before t: its rate is the higher one, and t counts what p counts.
GoesBefore(t, p) == p < t /\ Prediction!CountedIn(t, p)

\* It is in one of the first n blocks.
IsIn(p, n) == \E c \in 1 .. n : p \in blocks[c].txids

\* What goes before a transaction that was chosen is in a block.
FirstAreIn ==
    /\ \A j \in DOMAIN currentBlock.leads : \A p \in Prediction!Txs :
         GoesBefore(currentBlock.leads[j], p) => p \in currentBlock.txids \/ IsIn(p, Len(blocks))
    /\ \A b \in 1 .. Len(blocks) : \A j \in DOMAIN blocks[b].leads : \A p \in Prediction!Txs :
         GoesBefore(blocks[b].leads[j], p) => IsIn(p, b)

OrderInv == InListOrder /\ PassedOver /\ FirstAreIn

LEMMA TxsAreFinite == IsFiniteSet(Prediction!Txs)
<1>1. Count \in Int
    BY PredictionAssumption DEF PredictionAssumption
<1> QED BY <1>1, FS_Interval DEF Prediction!Txs

\* What goes before a transaction does not weigh more.
LEMMA FirstWeighsLess ==
    ASSUME NEW w, \A x \in Prediction!Txs : w[x] \in Nat,
           NEW anc \in [Prediction!Txs -> SUBSET Prediction!Txs], Prediction!IsAncestry(anc),
           NEW old, NEW t \in Prediction!Txs, NEW p \in anc[t], p \in old => t \in old
    PROVE  Counted(w, anc, old, p) <= Counted(w, anc, old, t)
<1>1. PICK a, b : a = anc[p] \cup {p} /\ b = anc[t] \cup {t}
    OBVIOUS
<1>2. a \in SUBSET Prediction!Txs /\ b \in SUBSET Prediction!Txs /\ a \cup b = b
    BY <1>1 DEF Prediction!IsAncestry
<1>3. /\ \A c \in SUBSET Prediction!Txs : Sum(w, c) \in Nat
      /\ \A c, d \in SUBSET Prediction!Txs : Sum(w, c) <= Sum(w, c \cup d)
    BY TxsAreFinite, SumsOfParts
<1>4. Sum(w, a) <= Sum(w, a \cup b) /\ Sum(w, a) \in Nat /\ Sum(w, b) \in Nat
    BY ONLY <1>2, <1>3
<1>5. DepartedWeight \in Nat
    BY PredictionAssumption DEF PredictionAssumption
<1>6. Counted(w, anc, old, p) = Sum(w, a) + IF p \in old THEN DepartedWeight ELSE 0
    BY <1>1 DEF Counted
<1>7. Counted(w, anc, old, t) = Sum(w, b) + IF t \in old THEN DepartedWeight ELSE 0
    BY <1>1 DEF Counted
<1>8. Sum(w, a) <= Sum(w, b)
    BY <1>2, <1>4
<1> QED BY <1>4, <1>5, <1>6, <1>7, <1>8

LEMMA CountedIsWeight ==
    ASSUME PackingTypes, NEW t \in Prediction!Txs
    PROVE  /\ Prediction!WeightWithAncestors(t) = Counted(weight, ancestors, outdated, t)
           /\ Counted(weight, ancestors, outdated, t) \in Nat
<1>1. Prediction!WeightWithAncestors(t) = Counted(weight, ancestors, outdated, t)
    BY WeightIsSum DEF Prediction!WeightWithAncestors, Counted
<1>2. PICK w, b : w = weight /\ b = ancestors[t] \cup {t}
    OBVIOUS
<1>3. b \in SUBSET Prediction!Txs /\ \A x \in Prediction!Txs : w[x] \in Nat
    BY <1>2 DEF PackingTypes
<1>4. Sum(w, b) \in Nat
    <2>1. \A c \in SUBSET Prediction!Txs : Sum(w, c) \in Nat
        BY <1>3, TxsAreFinite, SumsOfParts
    <2> QED BY <1>3, <2>1
<1>5. DepartedWeight \in Nat
    BY PredictionAssumption DEF PredictionAssumption
<1>6. Counted(weight, ancestors, outdated, t) = Sum(w, b) + IF t \in outdated THEN DepartedWeight ELSE 0
    BY <1>2 DEF Counted
<1> QED BY <1>1, <1>4, <1>5, <1>6

LEMMA OrderInvInit == Prediction!Init => OrderInv
<1> SUFFICES ASSUME Prediction!Init PROVE OrderInv
    OBVIOUS
<1>1. unAdded = <<>> /\ packingIndex = 1 /\ blocks = <<>> /\ currentBlock = Prediction!EmptyBlock
    BY DEF Prediction!Init
<1>2. currentBlock.leads = <<>> /\ DOMAIN <<>> = {} /\ Len(<<>>) = 0
    BY <1>1 DEF Prediction!EmptyBlock
<1>3. InListOrder /\ PassedOver
    BY <1>1, <1>2 DEF InListOrder, PassedOver
<1>4. FirstAreIn
    BY <1>1, <1>2 DEF FirstAreIn
<1> QED BY <1>3, <1>4 DEF OrderInv

LEMMA OrderBegin == PackingInv /\ Prediction!Begin => OrderInv'
<1> SUFFICES ASSUME PackingInv, Prediction!Begin PROVE OrderInv'
    OBVIOUS
<1>1. blocks = <<>> /\ packingIndex = 1 /\ currentBlock = Prediction!EmptyBlock
    BY DEF Prediction!Begin, PackingInv, StartAndEnd
<1>2. /\ UNCHANGED <<blocks, packingIndex, currentBlock>> /\ unAdded' = [k \in Prediction!Txs |-> k]
    BY DEF Prediction!Begin
<1>3. Count \in Nat
    BY PredictionAssumption DEF PredictionAssumption
<1>4. InListOrder'
    BY <1>2, <1>3 DEF InListOrder, Prediction!Txs
<1>5. PassedOver'
    BY <1>1, <1>2 DEF PassedOver
<1>6. currentBlock'.leads = <<>> /\ DOMAIN <<>> = {} /\ Len(<<>>) = 0
    BY <1>1, <1>2 DEF Prediction!EmptyBlock
<1>7. FirstAreIn'
    BY <1>1, <1>2, <1>6 DEF FirstAreIn
<1> QED BY <1>4, <1>5, <1>7 DEF OrderInv

LEMMA OrderKeptOver ==
    ASSUME FirstAreIn, UNCHANGED <<outdated, ancestors, currentBlock, blocks>>
    PROVE  FirstAreIn'
<1>1. \A t, p : GoesBefore(t, p)' <=> GoesBefore(t, p)
    BY DEF GoesBefore, Prediction!CountedIn
<1>2. \A p, n : IsIn(p, n)' <=> IsIn(p, n)
    BY DEF IsIn
<1> QED BY <1>1, <1>2 DEF FirstAreIn

LEMMA OrderPass ==
    PackingInv /\ OrderInv /\ (Prediction!AlreadyAdded \/ Prediction!TooHeavy \/ Prediction!EndLoop) => OrderInv'
<1> SUFFICES ASSUME PackingInv, OrderInv, Prediction!AlreadyAdded \/ Prediction!TooHeavy \/ Prediction!EndLoop
             PROVE  OrderInv'
    OBVIOUS
<1>1. UNCHANGED <<weight, ancestors, outdated, unAdded, added, currentBlock, blocks>>
    BY DEF Prediction!AlreadyAdded, Prediction!TooHeavy, Prediction!EndLoop, Prediction!mempool
<1>2. packingIndex \in Nat /\ currentBlock \in Blocks
    BY DEF PackingInv, PackingTypes
<1>3. ASSUME packingIndex' = packingIndex + 1,
             \/ unAdded[packingIndex] \in added
             \/ currentBlock.weight + Counted(weight, ancestors, outdated, unAdded[packingIndex]) > MaxBlockWeight
      PROVE  PassedOver'
    <2>1. \A k \in 1 .. packingIndex + 1 - 1 : k \in 1 .. packingIndex - 1 \/ k = packingIndex
        BY <1>2
    <2>2. ASSUME NEW k \in 1 .. packingIndex + 1 - 1
          PROVE  \/ unAdded[k] \in added
                 \/ currentBlock.weight + Counted(weight, ancestors, outdated, unAdded[k]) > MaxBlockWeight
        BY <1>3, <2>1 DEF OrderInv, PassedOver
    <2>3. /\ weight' = weight /\ ancestors' = ancestors /\ outdated' = outdated
          /\ unAdded' = unAdded /\ added' = added /\ currentBlock' = currentBlock
        BY <1>1
    <2>4. PassedOver' <=>
            \A k \in 1 .. packingIndex' - 1 :
              \/ unAdded'[k] \in added'
              \/ currentBlock'.weight + Counted(weight', ancestors', outdated', unAdded'[k]) > MaxBlockWeight
        BY Zenon DEF PassedOver, Counted, Sum
    <2>5. PassedOver' <=>
            \A k \in 1 .. packingIndex + 1 - 1 :
              \/ unAdded[k] \in added
              \/ currentBlock.weight + Counted(weight, ancestors, outdated, unAdded[k]) > MaxBlockWeight
        <3>1. packingIndex' = packingIndex + 1
            BY <1>3
        <3>2. \A k : Counted(weight', ancestors', outdated', unAdded'[k]) =
                       Counted(weight, ancestors, outdated, unAdded[k])
            BY ONLY <2>3, Zenon
        <3>3. packingIndex' - 1 = packingIndex + 1 - 1
            BY <1>2, <3>1
        <3> QED BY <2>3, <2>4, <3>2, <3>3, Zenon
    <2> QED BY <2>2, <2>5, Zenon
<1>4. CASE Prediction!AlreadyAdded
    <2>1. packingIndex' = packingIndex + 1 /\ unAdded[packingIndex] \in added
        BY <1>4 DEF Prediction!AlreadyAdded, Prediction!tx
    <2> QED BY <1>1, <1>3, <2>1, OrderKeptOver DEF OrderInv, InListOrder
<1>5. CASE Prediction!TooHeavy
    <2>1. packingIndex' = packingIndex + 1 /\ packingIndex <= Len(unAdded)
        BY <1>5 DEF Prediction!TooHeavy, Prediction!Considering
    <2>2. PICK t : t = unAdded[packingIndex]
        OBVIOUS
    <2>3. t \in Prediction!Txs
        BY <1>2, <2>1, <2>2 DEF PackingInv, PackingTypes
    <2>4. ~(currentBlock.weight + Prediction!WeightWithAncestors(t) <= MaxBlockWeight)
        BY <1>5, <2>2 DEF Prediction!TooHeavy, Prediction!Fits, Prediction!tx
    <2>5. currentBlock.weight \in Nat /\ MaxBlockWeight \in Nat
        BY <1>2, PredictionAssumption DEF PredictionAssumption, Blocks
    <2>6. currentBlock.weight + Counted(weight, ancestors, outdated, t) > MaxBlockWeight
        BY <2>3, <2>4, <2>5, CountedIsWeight DEF PackingInv
    <2> QED BY <1>1, <1>3, <2>1, <2>2, <2>6, OrderKeptOver DEF OrderInv, InListOrder
<1>6. CASE Prediction!EndLoop
    <2>1. packingIndex' = packingIndex
        BY <1>6 DEF Prediction!EndLoop
    <2> QED BY <1>1, <2>1, OrderKeptOver DEF OrderInv, InListOrder, PassedOver
<1> QED BY <1>4, <1>5, <1>6

LEMMA OrderAddTx == PackingInv /\ OrderInv /\ Prediction!AddTx => OrderInv'
<1> SUFFICES ASSUME PackingInv, OrderInv, Prediction!AddTx PROVE OrderInv'
    OBVIOUS
<1>0. PICK n, i : n = Len(unAdded) /\ i = packingIndex
    OBVIOUS
<1>1. /\ packingAt = "packing" /\ i <= n /\ packingIndex' = i + 1
      /\ UNCHANGED <<weight, ancestors, outdated, unAdded, blocks>>
    BY <1>0 DEF Prediction!AddTx, Prediction!Considering, Prediction!mempool
<1>2. n \in Nat /\ i \in 1 .. n /\ \A k \in 1 .. n : unAdded[k] \in Prediction!Txs
    BY <1>0, <1>1 DEF PackingInv, PackingTypes
<1>3. PICK t : t = unAdded[i] /\ t \in Prediction!Txs
    BY <1>2
<1>4. PICK more : more = Counted(weight, ancestors, outdated, t) /\ more \in Nat
    BY <1>3, CountedIsWeight DEF PackingInv
<1>5. /\ t \notin added /\ currentBlock.weight + more <= MaxBlockWeight
      /\ currentBlock' = [weight |-> currentBlock.weight + more, leads |-> Append(currentBlock.leads, t),
                          txids |-> currentBlock.txids \cup parents[t] \cup {t}]
      /\ added' = added \cup parents[t] \cup {t}
    <2>1. more = Prediction!WeightWithAncestors(t)
        BY <1>3, <1>4, CountedIsWeight DEF PackingInv
    <2>2. t = Prediction!tx
        BY <1>0, <1>3 DEF Prediction!tx
    <2> QED BY <2>1, <2>2 DEF Prediction!AddTx, Prediction!Fits
<1>6. currentBlock.weight \in Nat /\ currentBlock.leads \in Seq(Prediction!Txs) /\ MaxBlockWeight \in Nat
    BY PredictionAssumption DEF PredictionAssumption, PackingInv, PackingTypes, Blocks
<1>7. InListOrder'
    BY <1>1 DEF OrderInv, InListOrder
<1>8. ASSUME NEW k \in 1 .. i
      PROVE  unAdded[k] \in added' \/ currentBlock'.weight + Counted(weight, ancestors, outdated, unAdded[k]) > MaxBlockWeight
    <2>1. CASE k = i
        BY <1>3, <1>5, <2>1
    <2>2. CASE k # i
        <3>1. k \in 1 .. i - 1 /\ k \in 1 .. n
            BY <1>2, <2>2
        <3>2. unAdded[k] \in added \/ currentBlock.weight + Counted(weight, ancestors, outdated, unAdded[k]) > MaxBlockWeight
            BY <1>0, <3>1 DEF OrderInv, PassedOver
        <3>3. Counted(weight, ancestors, outdated, unAdded[k]) \in Nat
            BY <1>2, <3>1, CountedIsWeight DEF PackingInv
        <3>4. currentBlock'.weight = currentBlock.weight + more
            BY <1>5
        <3> QED BY <1>4, <1>5, <1>6, <3>2, <3>3, <3>4
    <2> QED BY <2>1, <2>2
<1>9. PassedOver'
    <2>1. \A k \in 1 .. packingIndex' - 1 : k \in 1 .. i
        BY <1>1, <1>2
    <2> QED BY <1>1, <1>8, <2>1 DEF PassedOver
<1>10. ASSUME NEW p \in Prediction!Txs, GoesBefore(t, p) PROVE p \in added
    <2> SUFFICES ASSUME p \notin added PROVE FALSE
        OBVIOUS
    <2>1. PICK k \in 1 .. n : unAdded[k] = p
        BY <1>0, <1>1 DEF PackingInv, OthersAreLeft
    <2>2. p < t /\ p \in Nat /\ t \in Nat
        BY <1>3, <1>10 DEF GoesBefore, Prediction!Txs
    <2>3. ~(i < k) /\ i # k
        <3>1. i < k => unAdded[i] < unAdded[k]
            BY <1>0, <1>2 DEF OrderInv, InListOrder
        <3> QED BY <1>3, <2>1, <2>2, <3>1
    <2>4. k \in 1 .. i - 1
        BY <1>2, <2>3
    <2>5. currentBlock.weight + Counted(weight, ancestors, outdated, p) > MaxBlockWeight
        BY <1>0, <2>1, <2>4 DEF OrderInv, PassedOver
    <2>6. Counted(weight, ancestors, outdated, p) <= more
        <3>1. PICK w, anc, old : w = weight /\ anc = ancestors /\ old = outdated
            OBVIOUS
        <3>2. /\ \A x \in Prediction!Txs : w[x] \in Nat
              /\ anc \in [Prediction!Txs -> SUBSET Prediction!Txs] /\ Prediction!IsAncestry(anc)
            BY <3>1 DEF PackingInv, PackingTypes
        <3>3. p \in anc[t] /\ (p \in old => t \in old)
            BY <1>10, <3>1 DEF GoesBefore, Prediction!CountedIn
        <3>4. Counted(w, anc, old, p) <= Counted(w, anc, old, t)
            BY ONLY <1>3, <3>2, <3>3, FirstWeighsLess
        <3> QED BY <1>4, <3>1, <3>4
    <2>7. Counted(weight, ancestors, outdated, p) \in Nat
        BY CountedIsWeight DEF PackingInv
    <2> QED BY <1>4, <1>5, <1>6, <2>5, <2>6, <2>7
<1>11. \A x, p : GoesBefore(x, p)' <=> GoesBefore(x, p)
    BY <1>1 DEF GoesBefore, Prediction!CountedIn
<1>12. \A p, m : IsIn(p, m)' <=> IsIn(p, m)
    BY <1>1 DEF IsIn
<1>13. ASSUME NEW j \in DOMAIN currentBlock'.leads, NEW p \in Prediction!Txs, GoesBefore(currentBlock'.leads[j], p)
       PROVE  p \in currentBlock'.txids \/ IsIn(p, Len(blocks))
    <2>1. currentBlock.txids \subseteq currentBlock'.txids /\ currentBlock'.leads = Append(currentBlock.leads, t)
        BY <1>5
    <2>2. \/ currentBlock'.leads[j] = t
          \/ j \in DOMAIN currentBlock.leads /\ currentBlock'.leads[j] = currentBlock.leads[j]
        BY <1>6, <2>1
    <2>3. CASE currentBlock'.leads[j] = t
        <3>1. p \in added
            BY <1>10, <1>13, <2>3
        <3>2. p \in currentBlock.txids \/ \E b \in 1 .. Len(blocks) : p \in blocks[b].txids
            BY <3>1 DEF PackingInv, AddedIsPacked
        <3> QED BY <2>1, <3>2 DEF IsIn
    <2>4. CASE j \in DOMAIN currentBlock.leads /\ currentBlock'.leads[j] = currentBlock.leads[j]
        BY <1>13, <2>1, <2>4 DEF OrderInv, FirstAreIn
    <2> QED BY <2>2, <2>3, <2>4
<1>14. FirstAreIn'
    <2>1. \A b \in 1 .. Len(blocks) : \A j \in DOMAIN blocks[b].leads : \A p \in Prediction!Txs :
            GoesBefore(blocks[b].leads[j], p) => IsIn(p, b)
        BY DEF OrderInv, FirstAreIn
    <2> QED BY <1>1, <1>11, <1>12, <1>13, <2>1 DEF FirstAreIn
<1> QED BY <1>7, <1>9, <1>14 DEF OrderInv

LEMMA OrderCloseBlock == PackingInv /\ OrderInv /\ Prediction!CloseBlock => OrderInv'
<1> SUFFICES ASSUME PackingInv, OrderInv, Prediction!CloseBlock PROVE OrderInv'
    OBVIOUS
<1>0. PICK n : n = Len(unAdded)
    OBVIOUS
<1>1. n \in Nat /\ unAdded \in [1 .. n -> Prediction!Txs] /\ currentBlock \in Blocks /\ blocks \in Seq(Blocks)
    BY <1>0 DEF PackingInv, PackingTypes
<1>2. PICK kept \in Prediction!InOrder((1 .. n) \ indexesToRemove) :
        unAdded' = [k \in DOMAIN kept |-> unAdded[kept[k]]]
    BY <1>0, <1>1 DEF Prediction!CloseBlock
<1>3. /\ blocks' = Append(blocks, currentBlock)
      /\ currentBlock' = Prediction!EmptyBlock /\ packingIndex' = 1
      /\ UNCHANGED <<ancestors, outdated>>
    BY DEF Prediction!CloseBlock, Prediction!mempool
<1>4. PICK m \in Nat : kept \in [1 .. m -> (1 .. n) \ indexesToRemove]
    <2>1. PICK D, list : D = (1 .. n) \ indexesToRemove /\ list = kept
        OBVIOUS
    <2>2. n \in Nat /\ D \in SUBSET (1 .. n) /\ list \in Prediction!InOrder(D)
        BY <1>1, <1>2, <2>1
    <2>3. PICK m \in Nat : Lists(list, m, D)
        BY ONLY <2>2, InOrderHasAll
    <2> QED BY <2>1, <2>3 DEF Lists
<1>5. \A j, k \in 1 .. m : j < k => kept[j] < kept[k]
    BY <1>2, <1>4 DEF Prediction!InOrder
<1>6. InListOrder'
    <2>1. Len(unAdded') = m /\ \A k \in 1 .. m : unAdded'[k] = unAdded[kept[k]] /\ kept[k] \in 1 .. n
        BY <1>1, <1>2, <1>4
    <2>2. \A j, k \in 1 .. n : j < k => unAdded[j] < unAdded[k]
        BY <1>0 DEF OrderInv, InListOrder
    <2> QED BY <1>5, <2>1, <2>2 DEF InListOrder
<1>7. PassedOver'
    BY <1>3 DEF PassedOver
<1>8. /\ Len(blocks') = Len(blocks) + 1 /\ Len(blocks) \in Nat
      /\ \A b \in 1 .. Len(blocks) : blocks'[b] = blocks[b] /\ b \in 1 .. Len(blocks')
      /\ blocks'[Len(blocks) + 1] = currentBlock
      /\ \A b \in 1 .. Len(blocks') : b \in 1 .. Len(blocks) \/ b = Len(blocks) + 1
    BY <1>1, <1>3
<1>9. \A x, p : GoesBefore(x, p)' <=> GoesBefore(x, p)
    BY <1>3 DEF GoesBefore, Prediction!CountedIn
<1>10. ASSUME NEW p, NEW b \in 1 .. Len(blocks), IsIn(p, b) PROVE IsIn(p, b)'
    BY <1>8, <1>10 DEF IsIn
<1>11. ASSUME NEW b \in 1 .. Len(blocks'), NEW j \in DOMAIN blocks'[b].leads, NEW p \in Prediction!Txs,
              GoesBefore(blocks'[b].leads[j], p)
       PROVE  IsIn(p, b)'
    <2>1. CASE b \in 1 .. Len(blocks)
        <3>1. IsIn(p, b)
            BY <1>8, <1>11, <2>1 DEF OrderInv, FirstAreIn
        <3> QED BY <1>10, <2>1, <3>1
    <2>2. CASE b = Len(blocks) + 1
        <3>1. p \in currentBlock.txids \/ IsIn(p, Len(blocks))
            BY <1>8, <1>11, <2>2 DEF OrderInv, FirstAreIn
        <3>2. CASE p \in currentBlock.txids
            <4>1. Len(blocks) + 1 \in 1 .. Len(blocks) + 1
                BY <1>8
            <4> QED BY <1>8, <2>2, <3>2, <4>1 DEF IsIn
        <3>3. CASE IsIn(p, Len(blocks))
            <4>1. PICK c \in 1 .. Len(blocks) : p \in blocks[c].txids
                BY <3>3 DEF IsIn
            <4>2. c \in 1 .. Len(blocks) + 1 /\ p \in blocks'[c].txids
                BY <1>8, <4>1
            <4> QED BY <2>2, <4>2 DEF IsIn
        <3> QED BY <3>1, <3>2, <3>3
    <2> QED BY <1>8, <2>1, <2>2
<1>12. currentBlock'.leads = <<>> /\ DOMAIN <<>> = {}
    BY <1>3 DEF Prediction!EmptyBlock
<1>13. FirstAreIn'
    BY <1>9, <1>11, <1>12 DEF FirstAreIn
<1> QED BY <1>6, <1>7, <1>13 DEF OrderInv

LEMMA OrderInvStep == PackingInv /\ OrderInv /\ [Prediction!Next]_predictionVars => OrderInv'
<1> SUFFICES ASSUME PackingInv, OrderInv, [Prediction!Next]_predictionVars PROVE OrderInv'
    OBVIOUS
<1>1. CASE UNCHANGED predictionVars
    <2>1. UNCHANGED <<weight, ancestors, outdated, unAdded, packingIndex, added, currentBlock, blocks>>
        BY <1>1 DEF predictionVars
    <2> QED BY <2>1, OrderKeptOver DEF OrderInv, InListOrder, PassedOver
<1> QED BY <1>1, OrderBegin, OrderPass, OrderAddTx, OrderCloseBlock
        DEF Prediction!Next, Prediction!vars, predictionVars

\* In a state of the invariant the prediction is sound.
LEMMA PackedIsSound == PackingInv /\ OrderInv => PredictionIsSound
<1> SUFFICES ASSUME PackingInv, OrderInv PROVE PredictionIsSound
    OBVIOUS
<1> DEFINE UpTo(n) == UNION {blocks[b].txids : b \in 1 .. n}
<1>1. /\ blocks \in Seq(Blocks) /\ DOMAIN blocks = 1 .. Len(blocks) /\ Len(blocks) \in Nat
      /\ weight \in [Prediction!Txs -> Nat]
    BY DEF PackingInv, PackingTypes
<1>2. ASSUME NEW b \in 1 .. Len(blocks)
      PROVE  IsSound(blocks[b], weight, parents) /\ \A c \in 1 .. Len(blocks) : b # c => Apart(blocks[b], blocks[c])
    BY DEF PackingInv, BlocksAreSound
<1>3. ASSUME NEW b \in DOMAIN blocks PROVE blocks[b].weight \in Nat /\ blocks[b].txids \subseteq Prediction!Txs
    <2>1. blocks[b] \in Blocks
        BY <1>1
    <2> QED BY <2>1 DEF Blocks
<1>4. ASSUME NEW b \in DOMAIN blocks PROVE Prediction!WeightOf(blocks[b].txids) <= MaxBlockWeight
    <2>1. PICK w, a : w = weight /\ a = blocks[b].txids
        OBVIOUS
    <2>2. a \in SUBSET Prediction!Txs /\ blocks[b].weight \in Nat /\ \A t \in Prediction!Txs : w[t] \in Nat
        BY <1>1, <1>3, <2>1
    <2>3. Sum(w, a) \in Nat
        <3>1. Count \in Int
            BY PredictionAssumption DEF PredictionAssumption
        <3>2. IsFiniteSet(Prediction!Txs)
            BY <3>1, FS_Interval DEF Prediction!Txs
        <3>3. \A s \in SUBSET Prediction!Txs : Sum(w, s) \in Nat
            BY <2>2, <3>2, SumsOfParts
        <3> QED BY <2>2, <3>3
    <2>4. Sum(w, a) <= blocks[b].weight /\ blocks[b].weight <= MaxBlockWeight
        BY <1>1, <1>2, <2>1 DEF IsSound
    <2>5. MaxBlockWeight \in Nat
        BY PredictionAssumption DEF PredictionAssumption
    <2>6. Prediction!WeightOf(blocks[b].txids) = Sum(w, a)
        BY <2>1, WeightIsSum
    <2> QED BY ONLY <2>2, <2>3, <2>4, <2>5, <2>6
<1>5. ASSUME NEW b \in DOMAIN blocks, NEW j \in DOMAIN blocks[b].leads
      PROVE  /\ parents[blocks[b].leads[j]] \subseteq blocks[b].txids
             /\ \A p \in 1 .. blocks[b].leads[j] - 1 : Prediction!CountedIn(blocks[b].leads[j], p) => p \in UpTo(b)
    <2>1. blocks[b].leads[j] \in blocks[b].txids /\ parents[blocks[b].leads[j]] \subseteq blocks[b].txids
        BY <1>1, <1>2 DEF IsSound
    <2>2. PICK t : t = blocks[b].leads[j]
        OBVIOUS
    <2>3. t \in Prediction!Txs
        BY <1>3, <2>1, <2>2
    <2>4. ASSUME NEW p \in 1 .. t - 1, Prediction!CountedIn(t, p) PROVE p \in UpTo(b)
        <3>1. Count \in Nat
            BY PredictionAssumption DEF PredictionAssumption
        <3>2. p < t /\ p \in Prediction!Txs
            BY <2>3, <3>1 DEF Prediction!Txs
        <3>3. IsIn(p, b)
            BY <1>1, <2>2, <2>4, <3>2 DEF OrderInv, FirstAreIn, GoesBefore
        <3> QED BY <3>3 DEF IsIn
    <2> QED BY <2>1, <2>2, <2>4
<1>6. ASSUME NEW b \in DOMAIN blocks, NEW c \in DOMAIN blocks,
             NEW j \in DOMAIN blocks[b].leads, NEW k \in DOMAIN blocks[c].leads,
             blocks[b].leads[j] = blocks[c].leads[k]
      PROVE  b = c /\ j = k
    <2>1. b = c
        BY <1>1, <1>2, <1>6 DEF Apart
    <2> QED BY <1>1, <1>2, <1>6, <2>1 DEF IsSound
<1>7. ASSUME packingAt = "done", Len(blocks) < MaxBlocks PROVE UpTo(Len(blocks)) = Prediction!Txs
    <2>1. Prediction!Txs \subseteq added /\ currentBlock.txids = {}
        BY <1>7 DEF PackingInv, StartAndEnd, Prediction!EmptyBlock
    <2>2. \A t \in Prediction!Txs : \E b \in 1 .. Len(blocks) : t \in blocks[b].txids
        BY <2>1 DEF PackingInv, AddedIsPacked
    <2>3. \A b \in 1 .. Len(blocks) : blocks[b].txids \subseteq Prediction!Txs
        BY <1>1, <1>3
    <2> QED BY <2>2, <2>3
<1> QED BY <1>4, <1>5, <1>6, <1>7 DEF PredictionIsSound, Prediction!PredictionIsSound

\* buildPredictedBlocks predicts blocks that are not too heavy, keeps parents and what
\* goes before a transaction with it, and loses no transaction, for every mempool, every
\* ancestry in it, every weight and every limit.
THEOREM PredictionSound == Spec => []PredictionIsSound
<1>1. Init => PackingInv /\ OrderInv
    BY PackingInvInit, OrderInvInit DEF Init
<1>2. PackingInv /\ OrderInv /\ [Next]_vars => PackingInv' /\ OrderInv'
    BY PredictionRuns, PackingInvStep, OrderInvStep
<1>3. PackingInv /\ OrderInv => PredictionIsSound
    BY PackedIsSound
<1> QED BY <1>1, <1>2, <1>3, PTL DEF Spec

-----------------------------------------------------------------------------
(* The shape of the state, part by part *)

\* The session: what its invariant says of the copies covers all that TypeOK asks for.
LEMMA SessionShape == SessionInv => Session!TypeOK
<1> SUFFICES ASSUME SessionInv PROVE Session!TypeOK
    OBVIOUS
<1>1. SessionTypes
    BY DEF SessionInv
<1>2. ASSUME NEW r \in Session!InFlight PROVE visits[r].session \in Session!SessionStates
    <2>1. r \in Requests /\ visits[r] \in Copies
        BY <1>1, <1>2, InFlightCopies DEF Session!InFlight
    <2> QED BY <2>1 DEF Copies
<1>3. \A r \in Requests : visits[r].at \in {"notYet", "loaded", "waiting", "over"}
    BY <1>1, InFlightCopies
<1>4. \A k \in DOMAIN shown : shown[k] \in Requests
    BY <1>1 DEF SessionTypes
<1> QED BY <1>1, <1>2, <1>3, <1>4 DEF Session!TypeOK, SessionTypes

\* The single sign-on: the token and the one in the file are among those made.
LEMMA SsoShape == SsoInv => Sso!TypeOK
<1> SUFFICES ASSUME SsoInv PROVE Sso!TypeOK
    OBVIOUS
<1>1. MaxTokens \in Nat /\ made \in 1 .. MaxTokens
    BY BoundsAssumption DEF BoundsAssumption, SsoInv, Sso!Tokens
<1>2. 1 .. made \subseteq 1 .. MaxTokens
    BY <1>1
<1>3. {0, 1} \subseteq Nat
    OBVIOUS
<1>4. logins \in [Sso!Tokens -> Nat]
    BY <1>3 DEF SsoInv
<1> QED BY <1>1, <1>2, <1>4 DEF SsoInv, Sso!TypeOK, Sso!Tokens

\* The startup: the interval is stopped by the answer that finds the blockchain.
LEMMA StartupShapeInit == Startup!Init => Startup!TypeOK
<1> SUFFICES ASSUME Startup!Init PROVE Startup!TypeOK
    OBVIOUS
<1>1. AttemptsInv /\ TimersInv
    BY AttemptsInvInit, TimersInvInit
<1>2. indexErrors \in 0 .. MaxErrors
    BY BoundsAssumption DEF BoundsAssumption, Startup!Init
<1> QED BY <1>1, <1>2 DEF AttemptsInv, TimersInv, IndexChecks, Startup!TypeOK, Startup!Init

LEMMA StartupShapeStep ==
    Startup!TypeOK /\ AttemptsInv' /\ TimersInv' /\ [Startup!Next]_startupVars => Startup!TypeOK'
<1> SUFFICES ASSUME Startup!TypeOK, AttemptsInv', TimersInv', [Startup!Next]_startupVars PROVE Startup!TypeOK'
    OBVIOUS
<1> DEFINE Errors == indexErrors \in 0 .. MaxErrors
           Stopped == intervalRuns = ~activeBlockchain
           Known == /\ activeBlockchain \in BOOLEAN /\ rpcUp \in BOOLEAN
                    /\ txindexAvailable \in BOOLEAN /\ oldNode \in BOOLEAN
<1>0. Errors /\ Stopped /\ Known
    BY DEF Startup!TypeOK
<1>1. ASSUME UNCHANGED startupVars PROVE (Errors /\ Stopped /\ Known)'
    <2>1. UNCHANGED <<intervalRuns, activeBlockchain, rpcUp, indexErrors, txindexAvailable, oldNode>>
        BY <1>1 DEF startupVars
    <2> QED BY <1>0, <2>1
<1>2. ASSUME Startup!Tick PROVE (Errors /\ Stopped /\ Known)'
    <2>1. UNCHANGED <<intervalRuns, activeBlockchain, rpcUp, indexErrors, txindexAvailable, oldNode>>
        BY <1>2 DEF Startup!Tick, Startup!index
    <2> QED BY <1>0, <2>1
<1>3. ASSUME NEW a \in Attempts, Startup!VerifyRpcConnection(a) \/ Startup!VerificationFails(a)
      PROVE  (Errors /\ Stopped /\ Known)'
    <2>1. UNCHANGED <<intervalRuns, activeBlockchain, rpcUp, indexErrors, txindexAvailable, oldNode>>
        BY <1>3 DEF Startup!VerifyRpcConnection, Startup!VerificationFails, Startup!index
    <2> QED BY <1>0, <2>1
<1>4. ASSUME NEW a \in Attempts, Startup!VerificationSucceeds(a) PROVE (Errors /\ Stopped /\ Known)'
    <2>1. activeBlockchain' = TRUE /\ intervalRuns' = FALSE /\ rpcUp' = TRUE
        BY <1>4 DEF Startup!VerificationSucceeds
    <2>2. UNCHANGED <<indexErrors, txindexAvailable, oldNode>>
        BY <1>4 DEF Startup!VerificationSucceeds
    <2> QED BY <1>0, <2>1, <2>2
<1>5. ASSUME NEW a \in Attempts, Startup!IndexInfo(a) \/ Startup!KnownTransaction(a)
      PROVE  (Errors /\ Stopped /\ Known)'
    <2>1. PICK available \in BOOLEAN : Startup!Learn(a, available)
        BY <1>5 DEF Startup!IndexInfo, Startup!KnownTransaction
    <2>2. /\ txindexAvailable' = available
          /\ UNCHANGED <<intervalRuns, activeBlockchain, rpcUp, indexErrors, oldNode>>
        BY <2>1 DEF Startup!Learn, Startup!verification
    <2> QED BY <1>0, <2>2
<1>6. ASSUME NEW a \in Attempts, Startup!IndexInfoFails(a) PROVE (Errors /\ Stopped /\ Known)'
    <2>1. Errors'
        <3>1. MaxErrors \in Nat
            BY BoundsAssumption DEF BoundsAssumption
        <3>2. indexErrors < MaxErrors /\ indexErrors' = indexErrors + 1
            BY <1>6 DEF Startup!IndexInfoFails
        <3> QED BY <1>0, <3>1, <3>2
    <2>2. UNCHANGED <<intervalRuns, activeBlockchain, rpcUp, txindexAvailable, oldNode>>
        BY <1>6 DEF Startup!IndexInfoFails, Startup!verification
    <2> QED BY <1>0, <2>1, <2>2
<1>7. ASSUME NEW a \in Attempts, Startup!RetryFires(a) PROVE (Errors /\ Stopped /\ Known)'
    <2>1. UNCHANGED <<intervalRuns, activeBlockchain, rpcUp, indexErrors, txindexAvailable, oldNode>>
        BY <1>7 DEF Startup!RetryFires, Startup!verification
    <2> QED BY <1>0, <2>1
<1> HIDE DEF Errors, Stopped, Known
<1>8. (Errors /\ Stopped /\ Known)'
    BY <1>1, <1>2, <1>3, <1>4, <1>5, <1>6, <1>7 DEF Startup!Next, Startup!CheckStep, Startup!vars, startupVars
<1>9. {0, 1} \subseteq Nat
    OBVIOUS
<1>10. timersSet' \in [Startup!Timers -> Nat]
    BY <1>9 DEF TimersInv
<1>11. {activeBlockchain, rpcUp, txindexAvailable, oldNode}' \subseteq BOOLEAN
    BY <1>8 DEF Known
<1> QED BY <1>8, <1>10, <1>11 DEF Errors, Stopped, AttemptsInv, TimersInv, IndexChecks, Startup!TypeOK

\* A file of a table, and what one can be: whole with some of the keys, absent or half.
FileOf(file, keys) == file \in Tables!Files \cup [state : {"whole"}, keys : SUBSET keys]

LEMMA FilesOf ==
    ASSUME NEW keys
    PROVE  /\ FileOf(Tables!NoFile, keys) /\ FileOf(Tables!Half, keys)
           /\ \A part \in SUBSET keys : FileOf(Tables!Whole(part), keys)
           /\ \A file : FileOf(file, keys) => file.keys \subseteq keys
<1>1. FileOf(Tables!NoFile, keys) /\ FileOf(Tables!Half, keys)
    BY DEF FileOf, Tables!Files, Tables!NoFile, Tables!Half
<1>2. ASSUME NEW part \in SUBSET keys PROVE FileOf(Tables!Whole(part), keys)
    BY DEF FileOf, Tables!Whole
<1>3. ASSUME NEW file, FileOf(file, keys) PROVE file.keys \subseteq keys
    BY <1>3 DEF FileOf, Tables!Files
<1> QED BY <1>1, <1>2, <1>3

\* The tables: a key is stored only if it was asked for.
TablesShape ==
    /\ process \in {"up", "down"} /\ restarts \in 0 .. MaxRestarts
    /\ ipMemoryCacheNewItems \in BOOLEAN /\ ipSaveFailed \in BOOLEAN /\ difficultyCacheDirty \in BOOLEAN
    /\ ipMemoryCache \subseteq Ips /\ ipRedis \subseteq Ips /\ difficultyCache \subseteq Heights
    /\ FileOf(ipFile, Ips) /\ FileOf(difficultyFile, Heights)

Locating == locating \in [Lookups -> [Ips -> {"idle", "asksRedis", "asksService", "located", "leftOut", "cutOff"}]]

LEMMA TablesShapeInit == Tables!Init => TablesShape /\ Locating
<1> SUFFICES ASSUME Tables!Init PROVE TablesShape /\ Locating
    OBVIOUS
<1>1. Locating
    BY DEF Tables!Init, Locating
<1>2. ipFile = Tables!NoFile /\ difficultyFile = Tables!NoFile
    BY DEF Tables!Init
<1>3. FileOf(ipFile, Ips) /\ FileOf(difficultyFile, Heights)
    BY <1>2, FilesOf
<1>4. restarts \in 0 .. MaxRestarts
    BY BoundsAssumption DEF BoundsAssumption, Tables!Init
<1> QED BY <1>1, <1>3, <1>4 DEF Tables!Init, TablesShape

LEMMA TablesShapeStep == TablesShape /\ Locating /\ [Tables!Next]_tablesVars => (TablesShape /\ Locating)'
<1> SUFFICES ASSUME TablesShape, Locating, [Tables!Next]_tablesVars PROVE (TablesShape /\ Locating)'
    OBVIOUS
<1> USE DEF Tables!ipVars, Tables!difficultyVars
<1>1. CASE UNCHANGED tablesVars
    BY <1>1 DEF tablesVars, TablesShape, Locating
<1>2. ASSUME NEW l \in Lookups, Tables!GeoLocate(l) PROVE (TablesShape /\ Locating)'
    <2>1. Locating'
        BY <1>2 DEF Tables!GeoLocate, Locating
    <2> QED BY <1>2, <2>1 DEF Tables!GeoLocate, TablesShape
<1>3. ASSUME NEW l \in Lookups, NEW ip \in Ips,
             Tables!RedisAnswers(l, ip) \/ Tables!ServiceFails(l, ip) \/ Tables!ServiceAnswers(l, ip)
      PROVE  (TablesShape /\ Locating)'
    <2>1. Locating'
        BY <1>3 DEF Tables!RedisAnswers, Tables!ServiceFails, Tables!ServiceAnswers, Locating
    <2> QED BY <1>3, <2>1
            DEF Tables!RedisAnswers, Tables!ServiceFails, Tables!ServiceAnswers, Tables!Set, TablesShape
<1>4. CASE Tables!SaveIps
    <2>1. ipFile' \in {ipFile, Tables!Half, Tables!Whole(ipMemoryCache)}
        BY <1>4 DEF Tables!SaveIps
    <2>2. FileOf(ipFile', Ips)
        BY <2>1, FilesOf DEF TablesShape
    <2>3. ipSaveFailed' \in BOOLEAN /\ ipMemoryCacheNewItems' \in BOOLEAN
        BY <1>4 DEF Tables!SaveIps, TablesShape
    <2>4. UNCHANGED <<process, restarts, ipMemoryCache, ipRedis, difficultyCache, difficultyCacheDirty,
                      difficultyFile, locating>>
        BY <1>4 DEF Tables!SaveIps
    <2> QED BY <2>2, <2>3, <2>4 DEF TablesShape, Locating
<1>5. ASSUME NEW heights \in SUBSET Heights, Tables!AddDifficulties(heights) PROVE (TablesShape /\ Locating)'
    BY <1>5 DEF Tables!AddDifficulties, TablesShape, Locating
<1>6. CASE Tables!WriteDifficulties
    BY <1>6, FilesOf DEF Tables!WriteDifficulties, TablesShape, Locating
<1>7. CASE Tables!Stop
    BY <1>7, FilesOf DEF Tables!Stop, TablesShape, Locating
<1>8. CASE Tables!Start
    <2>1. Locating'
        BY <1>8 DEF Tables!Start, Locating
    <2>2. difficultyFile.keys \subseteq Heights
        BY FilesOf DEF TablesShape
    <2>3. restarts' \in 0 .. MaxRestarts
        BY <1>8, BoundsAssumption DEF BoundsAssumption, Tables!Start, TablesShape
    <2> QED BY <1>8, <2>1, <2>2, <2>3, FilesOf DEF Tables!Start, TablesShape
<1> QED BY <1>1, <1>2, <1>3, <1>4, <1>5, <1>6, <1>7, <1>8 DEF Tables!Next, Tables!AddressStep, Tables!vars, tablesVars

LEMMA TablesTypes == TablesShape /\ Locating => Tables!TypeOK
BY DEF TablesShape, Locating, FileOf, Tables!TypeOK

\* The servers: those that are connected are known ones, and they are closed no more than
\* MaxCloses times.
ElectrumShape == connected \subseteq Servers /\ closes \in 0 .. MaxCloses

LEMMA ElectrumShapeInit == Electrum!Init => ElectrumShape
BY BoundsAssumption DEF BoundsAssumption, Electrum!Init, ElectrumShape

LEMMA ElectrumShapeStep == ElectrumShape /\ [Electrum!Next]_electrumVars => ElectrumShape'
<1> SUFFICES ASSUME ElectrumShape, [Electrum!Next]_electrumVars PROVE ElectrumShape'
    OBVIOUS
<1>1. ASSUME UNCHANGED <<connected, closes>> PROVE ElectrumShape'
    BY <1>1 DEF ElectrumShape
<1>2. ASSUME NEW s \in Servers, Electrum!OnConnect(s) PROVE ElectrumShape'
    <2>1. connected' = connected \cup {s} /\ closes' = closes
        BY <1>2 DEF Electrum!OnConnect
    <2> QED BY <2>1 DEF ElectrumShape
<1>3. ASSUME NEW s \in Servers, Electrum!OnClose(s) PROVE ElectrumShape'
    <2>1. closes < MaxCloses /\ closes' = closes + 1 /\ connected' = connected \ {s}
        BY <1>3 DEF Electrum!OnClose
    <2> QED BY <2>1, BoundsAssumption DEF BoundsAssumption, ElectrumShape
<1>4. ASSUME NEW l \in Lookups, NEW kind, Electrum!Ask(l, kind) PROVE UNCHANGED <<connected, closes>>
    BY <1>4 DEF Electrum!Ask
<1>5. ASSUME Electrum!RequestStep PROVE UNCHANGED <<connected, closes>>
    BY <1>5 DEF Electrum!RequestStep, Electrum!Answer, Electrum!EndAddress, Electrum!EndBlockHash
<1>6. ASSUME UNCHANGED electrumVars PROVE UNCHANGED <<connected, closes>>
    BY <1>6 DEF electrumVars
<1> QED BY <1>1, <1>2, <1>3, <1>4, <1>5, <1>6 DEF Electrum!Next, Electrum!vars, electrumVars

\* A request is in one of the stages of its invariant.
LEMMA ElectrumTypes == ElectrumInv /\ ElectrumShape => Electrum!TypeOK
<1> SUFFICES ASSUME ElectrumInv, ElectrumShape PROVE Electrum!TypeOK
    OBVIOUS
<1>1. Electrum!ToSet(electrumClients) \subseteq Servers
    BY DEF ElectrumInv, Electrum!ToSet
<1>2. \A l \in Lookups : requests[l].at \in {"notMade", "asking", "resolved", "rejected"}
    BY DEF ElectrumInv, RequestInv, Asking, Electrum!NotMade
<1> QED BY <1>1, <1>2 DEF ElectrumShape, Electrum!TypeOK

\* The lookup of a transaction: the search is never above the block behind the tip.
LookupHeights == tip \in 1 .. MaxTip /\ height \in 0 .. MaxTip + 1
LookupFlags ==
    /\ inMempool \in BOOLEAN /\ nodeHasWallets \in BOOLEAN /\ nodeIndex \in BOOLEAN
    /\ electrumTxIndex \in BOOLEAN /\ indexKnown \in BOOLEAN /\ troubled \in BOOLEAN
    /\ walletsLeft \subseteq Wallets
LookupShape == LookupHeights /\ LookupFlags

LEMMA LookupShapeInit == Lookup!Init => LookupShape
<1> SUFFICES ASSUME Lookup!Init PROVE LookupShape
    OBVIOUS
<1>1. LookupHeights
    <2>1. MaxTip \in Nat /\ tip \in 1 .. MaxTip /\ height = 0
        BY BoundsAssumption DEF BoundsAssumption, Lookup!Init
    <2> QED BY <2>1 DEF LookupHeights
<1>2. LookupFlags
    BY DEF Lookup!Init, LookupFlags
<1> QED BY <1>1, <1>2 DEF LookupShape

LEMMA LookupHeightsStep == LookupHeights /\ LookupInv /\ [Lookup!Next]_lookupVars => LookupHeights'
<1> SUFFICES ASSUME LookupHeights, LookupInv, [Lookup!Next]_lookupVars PROVE LookupHeights'
    OBVIOUS
<1>0. MaxTip \in Nat /\ tip \in 1 .. MaxTip /\ height \in 0 .. MaxTip + 1 /\ lowest \in Nat
    BY BoundsAssumption DEF BoundsAssumption, LookupHeights, LookupInv, LookupTypes
<1>1. ASSUME tip < MaxTip, tip' = tip + 1, height' = height PROVE LookupHeights'
    BY <1>0, <1>1 DEF LookupHeights
<1>2. ASSUME tip' = tip, height' \in {height, tip + 1} PROVE LookupHeights'
    BY <1>0, <1>2 DEF LookupHeights
<1>3. ASSUME tip' = tip, height' = height - 1, height - 1 > lowest PROVE LookupHeights'
    BY <1>0, <1>3 DEF LookupHeights
<1>4. CASE UNCHANGED lookupVars
    BY <1>2, <1>4 DEF lookupVars
<1>5. CASE Lookup!Mine
    BY <1>1, <1>5 DEF Lookup!Mine
<1>6. ASSUME Lookup!LearnIndex \/ Lookup!Direct \/ Lookup!AskElectrum \/ Lookup!ListWallets
             \/ Lookup!NoWalletLeft \/ Lookup!AskInBlock \/ (\E hash \in 0 .. MaxTip : Lookup!GetRawTransaction(hash))
             \/ (\E w \in Wallets : Lookup!TryWallet(w))
      PROVE  tip' = tip /\ height' = height
    BY <1>6 DEF Lookup!LearnIndex, Lookup!Direct, Lookup!AskElectrum, Lookup!ListWallets, Lookup!NoWalletLeft,
                Lookup!AskInBlock,
                Lookup!GetRawTransaction, Lookup!TryWallet, Lookup!node
<1>7. CASE Lookup!GetBlockCount
    <2>1. tip' = tip /\ height' \in {height, tip + 1}
        BY <1>7 DEF Lookup!GetBlockCount, Lookup!node
    <2> QED BY <1>2, <2>1
<1>8. CASE Lookup!NextBlock
    <2>1. tip' = tip /\ (height' = height \/ (height' = height - 1 /\ height - 1 > lowest))
        BY <1>8 DEF Lookup!NextBlock, Lookup!node
    <2> QED BY <1>2, <1>3, <2>1
<1> QED BY <1>2, <1>4, <1>5, <1>6, <1>7, <1>8 DEF Lookup!Next, Lookup!LookupStep, Lookup!vars, lookupVars

LEMMA LookupFlagsStep == LookupFlags /\ [Lookup!Next]_lookupVars => LookupFlags'
<1> SUFFICES ASSUME LookupFlags, [Lookup!Next]_lookupVars PROVE LookupFlags'
    OBVIOUS
<1> USE DEF Lookup!node, LookupFlags
<1>1. CASE UNCHANGED lookupVars
    BY <1>1 DEF lookupVars
<1>2. CASE Lookup!Mine
    BY <1>2 DEF Lookup!Mine
<1>3. CASE Lookup!LearnIndex
    BY <1>3 DEF Lookup!LearnIndex
<1>4. ASSUME NEW hash \in 0 .. MaxTip, Lookup!GetRawTransaction(hash) PROVE LookupFlags'
    BY <1>4 DEF Lookup!GetRawTransaction
<1>5. \A block : Lookup!NodeFinds(block) \in BOOLEAN
    <2>1. \A block : block = 0 => Lookup!NodeFinds(block) = (inMempool \/ (nodeIndex /\ confirmedAt > 0))
        BY DEF Lookup!NodeFinds
    <2>2. \A block : block # 0 => Lookup!NodeFinds(block) = (confirmedAt = block)
        BY DEF Lookup!NodeFinds
    <2> QED BY <2>1, <2>2
<1>6. CASE Lookup!Direct
    BY <1>5, <1>6 DEF Lookup!Direct
<1>7. CASE Lookup!AskElectrum
    BY <1>7 DEF Lookup!AskElectrum
<1>8. CASE Lookup!ListWallets
    BY <1>8 DEF Lookup!ListWallets
<1>9. ASSUME NEW w \in Wallets, Lookup!TryWallet(w) PROVE LookupFlags'
    BY <1>9 DEF Lookup!TryWallet
<1>10. CASE Lookup!NoWalletLeft
    BY <1>10 DEF Lookup!NoWalletLeft
<1>11. CASE Lookup!GetBlockCount
    BY <1>11 DEF Lookup!GetBlockCount
<1>12. CASE Lookup!NextBlock
    BY <1>12 DEF Lookup!NextBlock
<1>13. CASE Lookup!AskInBlock
    BY <1>5, <1>13 DEF Lookup!AskInBlock
<1> QED BY <1>1, <1>2, <1>3, <1>4, <1>6, <1>7, <1>8, <1>9, <1>10, <1>11, <1>12, <1>13
        DEF Lookup!Next, Lookup!LookupStep, Lookup!vars, lookupVars

LEMMA LookupTypeOK == LookupInv /\ LookupShape => Lookup!TypeOK
<1> SUFFICES ASSUME LookupInv, LookupShape PROVE Lookup!TypeOK
    OBVIOUS
<1>1. /\ tip \in 1 .. MaxTip /\ {confirmedAt, named} \subseteq 0 .. tip /\ height \in 0 .. MaxTip + 1
      /\ inWallet \subseteq Wallets /\ lookupAt \in Lookup!Steps
    BY DEF LookupInv, LookupTypes, LookupShape, LookupHeights
<1>2. {inMempool, nodeHasWallets, nodeIndex, electrumTxIndex, indexKnown, troubled} \subseteq BOOLEAN /\ walletsLeft \subseteq Wallets
    BY DEF LookupShape, LookupFlags
<1> QED BY <1>1, <1>2 DEF Lookup!TypeOK

\* The prediction: a block is begun only while there is room for one.
RoomForBlock ==
    /\ Len(blocks) <= MaxBlocks
    /\ packingAt \in {"packing", "closing"} => Len(blocks) < MaxBlocks

LEMMA RoomInit == Prediction!Init => RoomForBlock
BY PredictionAssumption DEF PredictionAssumption, Prediction!Init, RoomForBlock

LEMMA RoomStep == RoomForBlock /\ PackingInv /\ [Prediction!Next]_predictionVars => RoomForBlock'
<1> SUFFICES ASSUME RoomForBlock, PackingInv, [Prediction!Next]_predictionVars PROVE RoomForBlock'
    OBVIOUS
<1>1. MaxBlocks \in Nat \ {0}
    BY PredictionAssumption DEF PredictionAssumption
<1>2. ASSUME blocks' = blocks, packingAt' \in {"packing", "closing"} => packingAt \in {"packing", "closing"}
      PROVE  RoomForBlock'
    BY <1>2 DEF RoomForBlock
<1>3. CASE UNCHANGED predictionVars
    BY <1>2, <1>3 DEF predictionVars
<1>4. CASE Prediction!Begin
    <2>1. blocks' = <<>>
        BY <1>4 DEF Prediction!Begin, PackingInv, StartAndEnd
    <2> QED BY <1>1, <2>1 DEF RoomForBlock
<1>5. CASE Prediction!AlreadyAdded \/ Prediction!TooHeavy \/ Prediction!AddTx \/ Prediction!EndLoop
    BY <1>2, <1>5 DEF Prediction!AlreadyAdded, Prediction!TooHeavy, Prediction!AddTx, Prediction!EndLoop
<1>6. CASE Prediction!CloseBlock
    <2>1. /\ packingAt = "closing" /\ blocks' = Append(blocks, currentBlock)
          /\ packingAt' \in {"packing", "closing"} => Len(blocks') < MaxBlocks
        BY <1>6 DEF Prediction!CloseBlock
    <2>2. Len(blocks) \in Nat /\ Len(blocks') = Len(blocks) + 1
        BY <2>1 DEF PackingInv, PackingTypes
    <2> QED BY <1>1, <2>1, <2>2 DEF RoomForBlock
<1> QED BY <1>3, <1>4, <1>5, <1>6 DEF Prediction!Next, Prediction!vars, predictionVars

LEMMA PredictionTypes == PackingInv /\ RoomForBlock => Prediction!TypeOK
<1> SUFFICES ASSUME PackingInv, RoomForBlock PROVE Prediction!TypeOK
    OBVIOUS
<1>1. /\ packingAt \in {"idle", "packing", "closing", "done"}
      /\ unAdded \in Seq(Prediction!Txs) /\ packingIndex \in 1 .. Len(unAdded) + 1
      /\ indexesToRemove \subseteq 1 .. Len(unAdded) /\ added \subseteq Prediction!Txs
    BY DEF PackingInv, PackingTypes
<1>2. Prediction!ToSet(unAdded) \subseteq Prediction!Txs /\ DOMAIN unAdded = 1 .. Len(unAdded)
    BY <1>1 DEF Prediction!ToSet
<1> QED BY <1>1, <1>2 DEF RoomForBlock, Prediction!TypeOK

\* A page of a block: what is asked for are transactions of the block.
PageShape ==
    /\ pageAt \in {"idle", "block", "transactions", "inputs", "shown", "rejected"}
    /\ prunedBlockchain \in BOOLEAN /\ pageIndexKnown \in BOOLEAN /\ headerOnly \in BOOLEAN
    /\ withInputs \in BOOLEAN /\ failed \in BOOLEAN
    /\ \A k \in DOMAIN txids : txids[k] \in DOMAIN spends \cup {Page!Undefined}

LEMMA PageShapeInit == Page!Init => PageShape
<1> SUFFICES ASSUME Page!Init PROVE PageShape
    OBVIOUS
<1>1. pageAt = "idle" /\ txids = <<>>
    BY DEF Page!Init
<1>2. prunedBlockchain \in BOOLEAN /\ pageIndexKnown = FALSE /\ headerOnly = FALSE /\ withInputs = FALSE
      /\ failed = FALSE
    BY DEF Page!Init
<1>3. DOMAIN txids = {}
    BY <1>1
<1> QED BY <1>1, <1>2, <1>3 DEF PageShape

LEMMA PageShapeStep == PageShape /\ PageInv /\ [Page!Next]_pageVars => PageShape'
<1> SUFFICES ASSUME PageShape, PageInv, [Page!Next]_pageVars PROVE PageShape'
    OBVIOUS
<1> USE DEF Page!node
<1>1. CASE UNCHANGED pageVars
    BY <1>1 DEF pageVars, PageShape
<1>2. CASE Page!LearnIndex
    BY <1>2 DEF Page!LearnIndex, PageShape
<1>3. ASSUME NEW size \in PageLimits, NEW from \in Offsets, Page!GetBlock(size, from) PROVE PageShape'
    BY <1>3 DEF Page!GetBlock, PageShape
<1>4. CASE Page!BlockArrives
    <2>1. txids' \in {txids, WholeListed, Page!Listed(<<>>)} /\ withInputs' \in {withInputs, pageIndexKnown}
          /\ headerOnly' \in BOOLEAN \cup {headerOnly} /\ pageAt' \in {"transactions", "rejected"}
          /\ UNCHANGED <<spends, prunedBlockchain, pageIndexKnown, failed>>
        BY <1>4 DEF Page!BlockArrives, WholeListed
    <2>2. \A k \in DOMAIN WholeListed : WholeListed[k] \in DOMAIN spends
        BY ListedInBlock DEF PageInv
    <2>3. \A k \in DOMAIN Page!Listed(<<>>) : Page!Listed(<<>>)[k] = Page!Undefined
        <3>1. DOMAIN <<>> = {} /\ DOMAIN <<Page!Undefined>> = {1} /\ <<Page!Undefined>>[1] = Page!Undefined
            OBVIOUS
        <3> QED BY <3>1, HeaderListed DEF PageInv
    <2> QED BY <2>1, <2>2, <2>3 DEF PageShape
<1>5. CASE Page!TransactionsArrive \/ Page!InputsArrive
    <2>1. /\ pageAt' \in {"inputs", "shown"}
          /\ UNCHANGED <<spends, prunedBlockchain, pageIndexKnown, headerOnly, txids, withInputs, failed>>
        BY <1>5 DEF Page!TransactionsArrive, Page!InputsArrive, Page!Resolve
    <2> QED BY <2>1 DEF PageShape
<1>6. CASE Page!CallFails
    BY <1>6 DEF Page!CallFails, PageShape
<1> QED BY <1>1, <1>2, <1>3, <1>4, <1>5, <1>6 DEF Page!Next, Page!vars, pageVars

LEMMA PageTypes == PageShape => Page!TypeOK
BY DEF PageShape, Page!TypeOK, Page!Numbers

\* The history: what is listed are transactions of the address.
HistoryShape ==
    /\ historyLength \in 0 .. HistoryMaxTxs /\ counted \in 0 .. HistoryMaxTxs
    /\ listed \in Seq(1 .. historyLength)

LEMMA HistoryShapeInit == History!Init => HistoryShape
<1> SUFFICES ASSUME History!Init PROVE HistoryShape
    OBVIOUS
<1>1. HistoryMaxTxs \in Nat
    BY HistoryAssumption DEF HistoryAssumption
<1>2. historyLength \in 0 .. HistoryMaxTxs /\ counted = 0 /\ listed = <<>>
    BY DEF History!Init
<1> QED BY <1>1, <1>2 DEF HistoryShape

\* A slice of a list has nothing the list has not, wherever it begins and ends.
LEMMA SliceKeepsRange ==
    ASSUME NEW S, NEW s \in Seq(S), NEW from \in Nat, NEW size \in Int
    PROVE  History!Slice(s, from, size) \in Seq(S)
<1> DEFINE stop == IF Len(s) <= from + size THEN Len(s) ELSE from + size
<1>1. Len(s) \in Nat /\ stop \in Int /\ stop <= Len(s)
    OBVIOUS
<1>2. History!Slice(s, from, size) = SubSeq(s, from + 1, stop)
    <2>1. Len(s) \in Int /\ from + size \in Int
        BY <1>1
    <2>2. History!Min({Len(s), from + size}) = stop
        BY <2>1, HistoryMin
    <2> QED BY <2>2 DEF History!Slice
<1> HIDE DEF stop
<1>3. PICK first \in Int : first = from + 1 /\ first >= 1
    BY <1>1
<1>4. \A k \in first .. stop : s[k] \in S
    BY <1>1, <1>3
<1>5. SubSeq(s, first, stop) \in Seq(S)
    BY <1>1, <1>3, <1>4, SubSeqProperties
<1> QED BY <1>2, <1>3, <1>5

\* The same of a list that is turned round.
LEMMA ReverseKeepsRange ==
    ASSUME NEW S, NEW s \in Seq(S)
    PROVE  History!Reverse(s) \in Seq(S)
<1>1. \A k \in 1 .. Len(s) : s[(Len(s) - k) + 1] \in S
    OBVIOUS
<1> QED BY <1>1 DEF History!Reverse

\* Every page an answer can hold is of transactions of the address.
LEMMA PagesAreOfAddress ==
    ASSUME HistoryTypes, addressApi # "none", NEW ids \in History!Pages
    PROVE  ids \in Seq(1 .. historyLength)
<1> DEFINE numbers == 1 .. historyLength
           newest == History!Newest(historyLength)
<1>1. historyLength \in Nat /\ limit \in Nat /\ offset \in Nat /\ counted \in Nat
      /\ BlockcypherCap \in Nat /\ BlockchairCap \in Nat
    BY HistoryAssumption DEF HistoryAssumption, HistoryTypes
<1>2. newest \in Seq(numbers) /\ History!Oldest(historyLength) \in Seq(numbers) /\ Len(newest) = historyLength
    BY <1>1 DEF History!Newest, History!Oldest
<1> HIDE DEF newest, numbers
<1>3. CASE addressApi = "electrum"
    <2>1. PICK all \in {newest, History!Oldest(historyLength)} : ids = History!Slice(all, offset, limit)
        BY <1>3 DEF History!Pages, History!ElectrumPage, newest
    <2>2. all \in Seq(numbers)
        BY <1>2
    <2> QED BY <1>1, <2>1, <2>2, SliceKeepsRange DEF numbers
<1>4. CASE addressApi = "blockcypher.com"
    <2> DEFINE asked == SubSeq(newest, 1, History!Min({historyLength, BlockcypherCap, limit + offset}))
    <2>1. ids = History!Slice(asked, offset, limit)
        BY <1>4 DEF History!Pages, History!BlockcypherPage, newest
    <2>2. asked \in Seq(numbers)
        <3>1. PICK most \in Int : most = History!Min({historyLength, BlockcypherCap, limit + offset})
                                  /\ most <= historyLength
            <4>1. PICK a \in Nat, b \in Nat, c \in Nat : a = historyLength /\ b = BlockcypherCap /\ c = limit + offset
                BY <1>1
            <4>2. \E x \in {a, b, c} : \A y \in {a, b, c} : x <= y
                BY <4>1
            <4>3. History!Min({a, b, c}) \in {a, b, c} /\ \A y \in {a, b, c} : History!Min({a, b, c}) <= y
                BY <4>2 DEF History!Min
            <4> QED BY <4>1, <4>3
        <3>2. \A k \in 1 .. most : newest[k] \in numbers
            BY <1>1, <1>2, <3>1
        <3>3. PICK first \in Int : first = 1
            OBVIOUS
        <3>4. \A k \in first .. most : newest[k] \in numbers
            BY <3>2, <3>3
        <3>5. SubSeq(newest, first, most) \in Seq(numbers)
            BY <3>1, <3>4, SubSeqProperties
        <3> QED BY <3>1, <3>3, <3>5
    <2> HIDE DEF asked
    <2> QED BY <1>1, <2>1, <2>2, SliceKeepsRange DEF numbers
<1>5. CASE addressApi = "blockchair.com"
    <2>1. ids = History!Slice(History!Slice(newest, offset, BlockchairCap), 0, limit)
        BY <1>5 DEF History!Pages, History!BlockchairPage, newest
    <2>2. History!Slice(newest, offset, BlockchairCap) \in Seq(numbers)
        BY <1>1, <1>2, SliceKeepsRange
    <2> QED BY <1>1, <2>1, <2>2, SliceKeepsRange DEF numbers
<1>6. CASE addressApi = "blockchain.com"
    <2>1. ids \in History!BlockchainPages
        BY <1>6 DEF History!Pages
    <2>2. CASE sort # "asc"
        BY <1>1, <1>2, <2>1, <2>2, SliceKeepsRange DEF History!BlockchainPages, newest, numbers
    <2>3. CASE sort = "asc"
        <3>1. PICK from \in IF History!Ascending.offset < 0 THEN 0 .. historyLength ELSE {History!Ascending.offset} :
                ids = History!Reverse(History!Slice(newest, from, History!Ascending.limit))
            BY <2>1, <2>3 DEF History!BlockchainPages, newest
        <3>2. History!Ascending.offset \in Int /\ History!Ascending.limit \in Int
            BY <1>1 DEF History!Ascending
        <3>3. from \in Nat
            BY <1>1, <3>2
        <3>4. History!Slice(newest, from, History!Ascending.limit) \in Seq(numbers)
            BY <1>2, <3>2, <3>3, SliceKeepsRange
        <3> QED BY <3>1, <3>4, ReverseKeepsRange DEF numbers
    <2> QED BY <2>2, <2>3
<1> QED BY <1>3, <1>4, <1>5, <1>6 DEF HistoryTypes, History!Apis

LEMMA HistoryShapeStep == HistoryShape /\ HistoryInv /\ [History!Next]_historyVars => HistoryShape'
<1> SUFFICES ASSUME HistoryShape, HistoryInv, [History!Next]_historyVars PROVE HistoryShape'
    OBVIOUS
<1> USE DEF History!reading
<1>0. HistoryMaxTxs \in Nat /\ historyLength \in Nat
    BY HistoryAssumption DEF HistoryAssumption, HistoryInv, HistoryTypes
<1>1. ASSUME UNCHANGED <<historyLength, counted, listed>> PROVE HistoryShape'
    BY <1>1 DEF HistoryShape
<1>2. CASE History!Receive
    <2>1. historyLength < HistoryMaxTxs /\ historyLength' = historyLength + 1 /\ UNCHANGED <<counted, listed>>
        BY <1>2 DEF History!Receive
    <2>2. 1 .. historyLength \subseteq 1 .. historyLength + 1
        BY <1>0
    <2>3. listed \in Seq(1 .. historyLength + 1)
        BY <2>2 DEF HistoryShape
    <2>4. historyLength + 1 \in 0 .. HistoryMaxTxs
        BY <1>0, <2>1
    <2> QED BY <2>1, <2>3, <2>4 DEF HistoryShape
<1>3. CASE History!OpenPage \/ History!AskAsClient \/ History!TurnPage \/ History!NoHistory \/ UNCHANGED historyVars
    BY <1>1, <1>3 DEF History!OpenPage, History!AskAsClient, History!Open, History!TurnPage, History!NoHistory, historyVars
<1>4. CASE History!CountArrives
    <2>1. counted' = historyLength /\ UNCHANGED <<historyLength, listed>>
        BY <1>4 DEF History!CountArrives
    <2> QED BY <2>1 DEF HistoryShape
<1>5. CASE History!PageArrives
    <2>1. PICK ids \in History!Pages : listed' = listed \o ids
        BY <1>5 DEF History!PageArrives
    <2>2. addressApi # "none" /\ UNCHANGED <<historyLength, counted>>
        BY <1>5 DEF History!PageArrives
    <2>3. ids \in Seq(1 .. historyLength)
        BY <2>2, PagesAreOfAddress DEF HistoryInv
    <2>4. listed \o ids \in Seq(1 .. historyLength)
        BY <2>3, ConcatProperties DEF HistoryShape
    <2> QED BY <2>1, <2>2, <2>4 DEF HistoryShape
<1> QED BY <1>2, <1>3, <1>4, <1>5 DEF History!Next, History!vars, historyVars

LEMMA HistoryTypeOK == HistoryInv /\ HistoryShape => History!TypeOK
<1> SUFFICES ASSUME HistoryInv, HistoryShape PROVE History!TypeOK
    OBVIOUS
<1>1. \A k \in DOMAIN listed : listed[k] \in 1 .. historyLength
    BY DEF HistoryShape
<1> QED BY <1>1 DEF HistoryInv, HistoryTypes, HistoryShape, History!TypeOK

\* The search of an extended key: no gap is longer than the limit, and no address behind
\* the one the search is at was asked for.
XpubShape ==
    /\ xpubAt \in {"idle", "chain", "page", "over", "failed"}
    /\ addressLimit \in AddressLimits \cup {Xpub!NoLimit}
    /\ \A c \in {0, 1} : gapCounts[c] <= GapLimit
    /\ \A c \in {0, 1} : Len(used[c]) <= addressCount + 1

LEMMA XpubShapeInit == Xpub!Init => XpubShape
<1> SUFFICES ASSUME Xpub!Init PROVE XpubShape
    OBVIOUS
<1>1. \A c \in {0, 1} : gapCounts[c] = 0 /\ used[c] = <<>>
    BY DEF Xpub!Init, Xpub!Chains
<1>2. xpubAt = "idle" /\ addressLimit = Xpub!NoLimit /\ addressCount = 0 /\ GapLimit \in Nat
    BY XpubAssumption DEF XpubAssumption, Xpub!Init
<1> QED BY <1>1, <1>2 DEF XpubShape

LEMMA XpubShapeStep == XpubShape /\ XpubInv /\ XpubInv' /\ [Xpub!Next]_xpubVars => XpubShape'
<1> SUFFICES ASSUME XpubShape, XpubInv, XpubInv', [Xpub!Next]_xpubVars PROVE XpubShape'
    OBVIOUS
<1> USE DEF Xpub!results
<1>1. /\ GapLimit \in Nat /\ addressCount \in Nat /\ receiveOrChange \in {0, 1} /\ gapCounts \in [{0, 1} -> Nat]
      /\ \A c \in {0, 1} : /\ Len(used[c]) = Len(txCounts[c]) /\ Len(used'[c]) = Len(txCounts'[c])
                           /\ Len(used[c]) \in Nat
    BY XpubAssumption DEF XpubAssumption, XpubInv, XpubTypes
<1>2. ASSUME NEW gaps, Xpub!Advance(gaps)
      PROVE  xpubAt' \in {"chain", "over"} /\ addressCount' \in {addressCount, addressCount + 1}
    BY <1>2 DEF Xpub!Advance
<1>3. ASSUME UNCHANGED <<addressLimit, txCounts>>, addressCount' \in {addressCount, addressCount + 1},
             xpubAt' \in {"idle", "chain", "page", "over", "failed"},
             \A c \in {0, 1} : gapCounts'[c] <= GapLimit
      PROVE  XpubShape'
    <2>1. \A c \in {0, 1} : Len(used'[c]) = Len(used[c])
        BY <1>1, <1>3
    <2>2. \A c \in {0, 1} : Len(used'[c]) <= addressCount' + 1
        BY <1>1, <1>3, <2>1 DEF XpubShape
    <2> QED BY <1>3, <2>2 DEF XpubShape
<1>4. \A c \in {0, 1} : gapCounts[c] <= GapLimit
    BY DEF XpubShape
<1>5. CASE UNCHANGED xpubVars
    BY <1>5 DEF xpubVars, XpubShape
<1>6. ASSUME NEW most \in AddressLimits \cup {Xpub!NoLimit}, Xpub!Begin(most) PROVE XpubShape'
    BY <1>6 DEF Xpub!Begin, XpubShape
<1>7. CASE Xpub!SkipChain
    BY <1>2, <1>3, <1>4, <1>7 DEF Xpub!SkipChain
<1>8. CASE Xpub!GetAddress
    <2>1. /\ xpubAt = "chain" /\ xpubAt' = "page" /\ gapCounts[receiveOrChange] < GapLimit
          /\ UNCHANGED <<addressLimit, addressCount, gapCounts, receiveOrChange>>
          /\ used' = [used EXCEPT ![receiveOrChange] = Append(@, 0)]
        BY <1>8 DEF Xpub!GetAddress
    <2>2. Len(used[receiveOrChange]) = addressCount
        BY <1>1, <2>1 DEF XpubInv, InStep
    <2>3. used \in [{0, 1} -> Seq(Nat)]
        BY DEF XpubInv, XpubTypes
    <2>4. Len(Append(used[receiveOrChange], 0)) = addressCount + 1
        BY <1>1, <2>2, <2>3
    <2>5. \A c \in {0, 1} : Len(used'[c]) <= addressCount + 1
        BY <1>1, <2>1, <2>3, <2>4 DEF XpubShape
    <2> QED BY <2>1, <2>5 DEF XpubShape
<1>9. CASE Xpub!EmptyPage
    <2>1. /\ xpubAt = "page" /\ Xpub!Advance(gapCounts') /\ UNCHANGED <<addressLimit, txCounts>>
          /\ gapCounts' = [gapCounts EXCEPT ![receiveOrChange] = @ + 1]
        BY <1>9 DEF Xpub!EmptyPage
    <2>2. gapCounts[receiveOrChange] < GapLimit
        BY <2>1 DEF XpubInv, InStep
    <2>3. \A c \in {0, 1} : gapCounts'[c] <= GapLimit
        BY <1>1, <1>4, <2>1, <2>2
    <2> QED BY <1>2, <1>3, <2>1, <2>3
<1>10. CASE Xpub!UsedPage
    <2>1. /\ xpubAt = "page" /\ UNCHANGED <<addressLimit, txCounts>>
          /\ gapCounts' = [gapCounts EXCEPT ![receiveOrChange] = 0]
          /\ Xpub!Advance(gapCounts') \/ UNCHANGED <<xpubAt, addressCount>>
        BY <1>10 DEF Xpub!UsedPage
    <2>2. \A c \in {0, 1} : gapCounts'[c] <= GapLimit
        BY <1>1, <1>4, <2>1
    <2> QED BY <1>2, <1>3, <2>1, <2>2
<1>11. CASE Xpub!PageWithoutTxids
    BY <1>11 DEF Xpub!PageWithoutTxids, XpubShape
<1>12. CASE Xpub!Fail
    BY <1>12 DEF Xpub!Fail, XpubShape
<1> QED BY <1>5, <1>6, <1>7, <1>8, <1>9, <1>10, <1>11, <1>12 DEF Xpub!Next, Xpub!vars, xpubVars

LEMMA XpubTypeOK == XpubInv /\ XpubShape => Xpub!TypeOK
<1> SUFFICES ASSUME XpubInv, XpubShape PROVE Xpub!TypeOK
    OBVIOUS
<1>1. gapCounts \in [{0, 1} -> Nat] /\ \A c \in {0, 1} : Len(used[c]) = Len(txCounts[c])
    BY DEF XpubInv, XpubTypes
<1>2. gapCounts \in [{0, 1} -> 0 .. GapLimit]
    BY <1>1, XpubAssumption DEF XpubAssumption, XpubShape
<1> QED BY <1>1, <1>2 DEF XpubShape, Xpub!TypeOK, Xpub!Chains

\* The statistics: the largest value is one that was measured, and no more downsamples are
\* kept than should be.
SeriesAreShort ==
    /\ tracked.max \in Measures \cup {0}
    /\ Len(downsampledAppStats) <= downsamplesToKeep

LEMMA SeriesAreShortInit == Stats!Init => SeriesAreShort
<1> SUFFICES ASSUME Stats!Init PROVE SeriesAreShort
    OBVIOUS
<1>1. tracked.max = 0 /\ downsampledAppStats = <<>>
    BY DEF Stats!Init, Stats!NoValue
<1> QED BY <1>1, StatisticsAssumption DEF StatisticsAssumption, SeriesAreShort

LEMMA SeriesAreShortStep == SeriesAreShort /\ SeriesInv /\ [Stats!Next]_statisticsVars => SeriesAreShort'
<1> SUFFICES ASSUME SeriesAreShort, SeriesInv, [Stats!Next]_statisticsVars PROVE SeriesAreShort'
    OBVIOUS
<1>1. CASE UNCHANGED statisticsVars
    BY <1>1 DEF statisticsVars, SeriesAreShort
<1>2. CASE Stats!Measure
    <2>1. PICK value \in Measures : Stats!TrackValue(value)
        BY <1>2 DEF Stats!Measure
    <2>2. /\ tracked'.max = IF tracked.seen THEN Stats!Max({tracked.max, value}) ELSE value
          /\ UNCHANGED downsampledAppStats
        BY <2>1 DEF Stats!TrackValue
    <2>3. Stats!Max({tracked.max, value}) \in {tracked.max, value}
        <3>1. PICK a \in Int, b \in Int : a = tracked.max /\ b = value
            BY StatisticsAssumption DEF StatisticsAssumption, SeriesInv
        <3>2. a >= b => Stats!Max({a, b}) = a
            BY StatsMinMax
        <3>3. b >= a => Stats!Max({a, b}) = b
            BY StatsMinMax
        <3> QED BY <3>1, <3>2, <3>3
    <2> QED BY <2>2, <2>3 DEF SeriesAreShort
<1>3. CASE Stats!ProcessAndReset
    <2>1. tracked'.max = 0
        BY <1>3 DEF Stats!ProcessAndReset, Stats!NoValue
    <2>2. PICK d, older : /\ d = downsampledAppStats
                          /\ downsampledAppStats' \in {d, Stats!Newest(Append(d, older), downsamplesToKeep)}
        <3>1. Stats!TrackAppStats(tracked.max)
            BY <1>3 DEF Stats!ProcessAndReset, Stats!HandOver
        <3>2. \E older : downsampledAppStats' \in
                {downsampledAppStats, Stats!Newest(Append(downsampledAppStats, older), downsamplesToKeep)}
            BY <3>1 DEF Stats!TrackAppStats
        <3> QED BY <3>2
    <2>3. IsSeries(d) /\ downsamplesToKeep \in Nat /\ Len(d) <= downsamplesToKeep
        BY <2>2, StatisticsAssumption DEF StatisticsAssumption, SeriesInv, SeriesOf, SeriesShape, SeriesAreShort
    <2>4. PICK all : all = Append(d, older) /\ IsSeries(all)
        BY <2>3, AppendedPoint
    <2>5. Len(all) \in Nat
        BY <2>4 DEF IsSeries
    <2>6. Len(Stats!Newest(all, downsamplesToKeep)) <= downsamplesToKeep
        BY <2>3, <2>4, <2>5, NewestOfMany, NewestOfFew
    <2> QED BY <2>1, <2>2, <2>3, <2>4, <2>6 DEF SeriesAreShort
<1> QED BY <1>1, <1>2, <1>3 DEF Stats!Next, Stats!vars, statisticsVars

LEMMA StatisticsTypeOK == SeriesInv /\ SeriesAreShort => Stats!TypeOK
BY DEF SeriesInv, SeriesAreShort, Stats!TypeOK

-----------------------------------------------------------------------------
(* All parts *)

\* What the parts' invariants leave open of their shape.
PartShapes ==
    /\ Startup!TypeOK /\ TablesShape /\ Locating /\ ElectrumShape /\ HistoryShape /\ XpubShape
    /\ LookupShape /\ RoomForBlock /\ SeriesAreShort /\ PageShape

PartInvs ==
    /\ SessionInv /\ AttemptsInv /\ TimersInv /\ ElectrumInv /\ SsoInv /\ HistoryInv /\ XpubInv
    /\ LookupInv /\ PackingInv /\ SeriesInv /\ PageInv

LEMMA PartInvsStep == PartInvs /\ [Next]_vars => PartInvs'
<1> SUFFICES ASSUME PartInvs, [Next]_vars PROVE PartInvs'
    OBVIOUS
<1>1. SessionInv' /\ SsoInv'
    BY SessionRuns, SessionInvStep, SsoRuns, SsoInvStep DEF PartInvs
<1>2. AttemptsInv' /\ TimersInv'
    BY StartupRuns, AttemptsInvStep, TimersInvStep DEF PartInvs
<1>3. ElectrumInv' /\ LookupInv' /\ PackingInv' /\ PageInv'
    BY ElectrumRuns, ElectrumInvStep, LookupRuns, LookupInvStep, PredictionRuns, PackingInvStep, PageRuns, PageInvStep
       DEF PartInvs
<1>4. HistoryInv' /\ XpubInv' /\ SeriesInv'
    BY HistoryInvStep, XpubRuns, XpubInvStep, SeriesInvStep DEF PartInvs
<1> QED BY <1>1, <1>2, <1>3, <1>4 DEF PartInvs

LEMMA PartShapesStep == PartShapes /\ PartInvs /\ PartInvs' /\ [Next]_vars => PartShapes'
<1> SUFFICES ASSUME PartShapes, PartInvs, PartInvs', [Next]_vars PROVE PartShapes'
    OBVIOUS
<1>1. Startup!TypeOK'
    BY StartupRuns, StartupShapeStep DEF PartShapes, PartInvs
<1>2. TablesShape' /\ Locating'
    BY TablesRuns, TablesShapeStep DEF PartShapes
<1>3. ElectrumShape' /\ PageShape'
    BY ElectrumRuns, ElectrumShapeStep, PageRuns, PageShapeStep DEF PartShapes, PartInvs
<1>4. HistoryShape' /\ XpubShape'
    BY HistoryRuns, HistoryShapeStep, XpubRuns, XpubShapeStep DEF PartShapes, PartInvs
<1>5. LookupShape'
    BY LookupRuns, LookupHeightsStep, LookupFlagsStep DEF PartShapes, PartInvs, LookupShape
<1>6. RoomForBlock' /\ SeriesAreShort'
    BY PredictionRuns, RoomStep, StatisticsRun, SeriesAreShortStep DEF PartShapes, PartInvs
<1> QED BY <1>1, <1>2, <1>3, <1>4, <1>5, <1>6 DEF PartShapes

LEMMA PartsInit == Init => PartInvs /\ PartShapes
<1> SUFFICES ASSUME Init PROVE PartInvs /\ PartShapes
    OBVIOUS
<1>1. /\ Session!Init /\ Startup!Init /\ Tables!Init /\ Electrum!Init /\ Sso!Init
      /\ History!Init /\ Xpub!Init /\ Lookup!Init /\ Prediction!Init /\ Stats!Init /\ Page!Init
    BY DEF Init
<1>2. PartInvs
    BY <1>1, SessionInvInit, AttemptsInvInit, TimersInvInit, ElectrumInvInit, SsoInvInit, HistoryInvInit, XpubInvInit,
       LookupInvInit, PackingInvInit, SeriesInvInit, PageInvInit DEF PartInvs
<1>3. PartShapes
    BY <1>1, StartupShapeInit, TablesShapeInit, ElectrumShapeInit, HistoryShapeInit, XpubShapeInit, LookupShapeInit,
       RoomInit, SeriesAreShortInit, PageShapeInit DEF PartShapes
<1> QED BY <1>2, <1>3

\* Every part's state keeps its shape, for all values of the constants: the servers, files,
\* pages, counters and series stay within what their code allows them.
THEOREM ServicesTypeOK == Spec => []TypeOK
<1>1. PartInvs /\ PartShapes /\ [Next]_vars => PartInvs' /\ PartShapes'
    BY PartInvsStep, PartShapesStep
<1>2. PartInvs /\ PartShapes => TypeOK
    <2> SUFFICES ASSUME PartInvs, PartShapes PROVE TypeOK
        OBVIOUS
    <2>1. Session!TypeOK /\ Startup!TypeOK /\ Tables!TypeOK /\ Electrum!TypeOK /\ Sso!TypeOK
        BY SessionShape, TablesTypes, ElectrumTypes, SsoShape DEF PartInvs, PartShapes
    <2>2. History!TypeOK /\ Xpub!TypeOK /\ Lookup!TypeOK
        BY HistoryTypeOK, XpubTypeOK, LookupTypeOK DEF PartInvs, PartShapes
    <2>3. Prediction!TypeOK /\ Stats!TypeOK /\ Page!TypeOK
        BY PredictionTypes, StatisticsTypeOK, PageTypes DEF PartInvs, PartShapes
    <2> QED BY <2>1, <2>2, <2>3 DEF TypeOK
<1> QED BY <1>1, <1>2, PartsInit, PTL DEF Spec
=============================================================================
