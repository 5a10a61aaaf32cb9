---------------------------- MODULE ElectrumPool ----------------------------
(***************************************************************************)
(* The pool of Electrum servers of app/api/electrumAddressApi.js, and the  *)
(* two requests that ask all of them: getAddressDetails, which asks for the *)
(* history and for the balance of an address, and lookupTxBlockHash.       *)
(*                                                                         *)
(* A server answers with one of the block hashes Data (servers may disagree)*)
(* or with a history or a balance, which are not told apart: nothing the   *)
(* explorer does depends on them.  The electrum-client library connects,   *)
(* notices a closed connection, fails what was asked over it and connects  *)
(* again.  Bounds: each member of Lookups is one request; connections are  *)
(* lost MaxCloses times.                                                   *)
(***************************************************************************)
EXTENDS Naturals, Sequences, SequencesExt, FiniteSets

CONSTANTS Servers, Lookups, Data, MaxCloses

VARIABLES
    electrumClients,    \* the pool, in the order of connection
    connected,          \* the servers whose connection is open
    closes,
    requests            \* the requests made, by their member of Lookups

vars == <<electrumClients, connected, closes, requests>>

\* What a request asks of every server, and what it makes of the answers.
Parts(kind) == IF kind = "address" THEN {"history", "balance"} ELSE {"blockhash"}

Answered == "answered"
DataOf(part) == IF part = "blockhash" THEN Data ELSE {Answered}

Pending == "pending"
Failed == "failed"

NotMade == [at |-> "notMade"]

Init ==
    /\ electrumClients = <<>>
    /\ connected = {}
    /\ closes = 0
    /\ requests = [l \in Lookups |-> NotMade]

Open(l) == requests[l].at = "asking"

-----------------------------------------------------------------------------
(* Connections *)

\* onConnect
OnConnect(s) ==
    /\ s \notin connected
    /\ connected' = connected \cup {s}
    /\ electrumClients' = Append(electrumClients, s)
    /\ UNCHANGED <<closes, requests>>

\* The answers of server s that have not come fail.
WithoutServer(s, request) ==
    [request EXCEPT !.answers = [part \in DOMAIN @ |->
        [i \in DOMAIN @[part] |-> IF request.asked[i] = s /\ @[part][i] = Pending THEN Failed ELSE @[part][i]]]]

\* onClose: the client, which is in the pool once, is spliced out.
OnClose(s) ==
    /\ s \in connected /\ closes < MaxCloses
    /\ closes' = closes + 1
    /\ connected' = connected \ {s}
    /\ \E index \in DOMAIN electrumClients :
         electrumClients[index] = s /\ electrumClients' = RemoveAt(electrumClients, index)
    /\ requests' = [l \in Lookups |-> IF Open(l) THEN WithoutServer(s, requests[l]) ELSE requests[l]]

-----------------------------------------------------------------------------
(* Requests *)

\* All servers of the pool are asked, for every part, in one turn.
Ask(l, kind) ==
    /\ requests[l] = NotMade
    /\ requests' = [requests EXCEPT ![l] =
            IF electrumClients = <<>>
            THEN [at |-> "rejected", kind |-> kind, asked |-> <<>>, present |-> connected, answers |-> <<>>]
            ELSE [at |-> "asking", kind |-> kind, asked |-> electrumClients, present |-> connected,
                  answers |-> [part \in Parts(kind) |-> [i \in DOMAIN electrumClients |-> Pending]]]]
    /\ UNCHANGED <<electrumClients, connected, closes>>

Answer(l, part, i, data) ==
    /\ Open(l) /\ part \in DOMAIN requests[l].answers /\ i \in DOMAIN requests[l].asked
    /\ requests[l].answers[part][i] = Pending
    /\ requests' = [requests EXCEPT ![l].answers[part][i] = data]
    /\ UNCHANGED <<electrumClients, connected, closes>>

\* runOnAllServers rejects as soon as one server fails and resolves when all answered.
Rejects(answers) == Failed \in Range(answers)
Resolves(answers) == Range(answers) \cap {Pending, Failed} = {}
Settles(answers) == Rejects(answers) \/ Resolves(answers)

\* getAddressTxids and getAddressBalance compare wrappers, never what is in
\* them, and take the first server's answer; a rejected part is left out.
PartOf(answers) == IF Rejects(answers) THEN Failed ELSE answers[1]

\* getAddressDetails resolves with what it has when both parts have settled.
EndAddress(l) ==
    /\ Open(l) /\ requests[l].kind = "address"
    /\ \A part \in Parts("address") : Settles(requests[l].answers[part])
    /\ requests' = [requests EXCEPT ![l] =
            [at |-> "resolved", kind |-> "address", asked |-> @.asked, present |-> @.present,
             details |-> [part \in Parts("address") |-> PartOf(@.answers[part])]]]
    /\ UNCHANGED <<electrumClients, connected, closes>>

\* Mutant: one agreeing server is enough.
AgreedWithSome(answers) ==
    Resolves(answers) /\ (Len(answers) = 1 \/ \E i \in 2 .. Len(answers) : answers[i] = answers[1])

Agreed(answers) == Resolves(answers) /\ \A i \in 2 .. Len(answers) : answers[i] = answers[1]

\* lookupTxBlockHash rejects when the servers do not agree.
EndBlockHash(l) ==
    LET answers == requests[l].answers["blockhash"]
    IN  /\ Open(l) /\ requests[l].kind = "blockhash"
        /\ Settles(answers)
        /\ requests' = [requests EXCEPT ![l] =
                [at |-> IF Agreed(answers) THEN "resolved" ELSE "rejected",
                 kind |-> "blockhash", asked |-> @.asked, present |-> @.present, answers |-> @.answers]]
        /\ UNCHANGED <<electrumClients, connected, closes>>

RequestStep ==
    \E l \in Lookups :
        \/ \E part \in {"history", "balance", "blockhash"}, i \in 1 .. Cardinality(Servers) :
              \E data \in DataOf(part) \cup {Failed} : Answer(l, part, i, data)
        \/ EndAddress(l) \/ EndBlockHash(l)

Next ==
    \/ \E s \in Servers : OnConnect(s) \/ OnClose(s)
    \/ \E l \in Lookups, kind \in {"address", "blockhash"} : Ask(l, kind)
    \/ RequestStep

Spec == Init /\ [][Next]_vars
-----------------------------------------------------------------------------
\* The pool's state keeps its shape.
TypeOK ==
    /\ ToSet(electrumClients) \subseteq Servers /\ connected \subseteq Servers /\ closes \in 0 .. MaxCloses
    /\ \A l \in Lookups : requests[l].at \in {"notMade", "asking", "resolved", "rejected"}

\* A block hash is given out only if every server that was connected when it
\* was asked for named it, even if servers have closed and come back before, and
\* others close before they answer.
BlockHashIsAgreed ==
    \A l \in Lookups :
        requests[l].at = "resolved" /\ requests[l].kind = "blockhash" =>
            \E hash \in Data : \A s \in requests[l].present :
                \E i \in DOMAIN requests[l].asked :
                    requests[l].asked[i] = s /\ requests[l].answers["blockhash"][i] = hash
=============================================================================
