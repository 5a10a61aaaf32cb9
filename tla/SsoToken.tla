------------------------------ MODULE SsoToken ------------------------------
(***************************************************************************)
(* Single sign-on, app/sso.js: a token in a file lets its reader in once;  *)
(* the explorer then replaces it and hands out a cookie.  Another program  *)
(* reads the file and sends its user here with the token.                  *)
(*                                                                         *)
(* Tokens and cookies are numbered in the order in which they are made: no *)
(* two are alike.  Bound: MaxTokens tokens are made.                       *)
(***************************************************************************)
EXTENDS Naturals, FiniteSets

CONSTANT MaxTokens

VARIABLES
    server,         \* "up" or "down"
    token,          \* the token that is accepted
    made,           \* how many tokens have been made
    tokenFile,      \* what is in the token file: a token, or something broken
    tickets,        \* the tokens that were read from the file, ever
    cookies,        \* the cookies that are accepted
    logins,         \* for each token, how many cookies it was exchanged for
    leftOver        \* ".tmp", the file a failed update leaves behind, is there

vars == <<server, token, made, tokenFile, tickets, cookies, logins, leftOver>>

Tokens == 1 .. MaxTokens
Broken == 0

\* Module initialisation: updateToken.
Init ==
    /\ server = "up"
    /\ token = 1 /\ made = 1 /\ tokenFile = 1
    /\ tickets = {}
    /\ cookies = {}
    /\ logins = [t \in Tokens |-> 0]
    /\ leftOver = FALSE

-----------------------------------------------------------------------------
\* Mutant: the token is written over the old one; a failed write breaks the file.
UpdateTokenInPlace(fails) ==
    /\ made < MaxTokens
    /\ made' = made + 1
    /\ tokenFile' = IF fails THEN Broken ELSE made + 1
    /\ token' = IF fails THEN token ELSE made + 1
    /\ UNCHANGED leftOver

\* updateToken: a new token is written to a temporary file, which replaces the
\* token file; if either fails it throws, and the old token stays.
UpdateToken(fails) ==
    /\ made < MaxTokens
    /\ made' = made + 1
    /\ IF fails
       THEN leftOver' \in {leftOver, TRUE} /\ UNCHANGED <<token, tokenFile>>
       ELSE leftOver' = FALSE /\ token' = made + 1 /\ tokenFile' = made + 1

\* The other program reads the file.
ReadFile ==
    /\ tokenFile # Broken
    /\ tickets' = tickets \cup {tokenFile}
    /\ UNCHANGED <<server, token, made, tokenFile, cookies, logins, leftOver>>

\* A request with a ticket that matches: the token is replaced, then the cookie
\* is made.  The order matters when the update throws: no cookie, and the ticket
\* is still good.
Login(ticket, fails) ==
    /\ server = "up"
    /\ ticket = token
    /\ UpdateToken(fails)
    /\ IF fails
       THEN UNCHANGED <<cookies, logins>>
       ELSE /\ cookies' = cookies \cup {ticket}
            /\ logins' = [logins EXCEPT ![ticket] = @ + 1]
    /\ UNCHANGED <<server, tickets>>

\* Tokens and cookies are in memory.  A start makes a new token, or fails to.
Stop ==
    /\ server = "up"
    /\ server' = "down"
    /\ cookies' = {}
    /\ UNCHANGED <<token, made, tokenFile, tickets, logins, leftOver>>

Start ==
    /\ server = "down"
    /\ \E fails \in BOOLEAN :
         /\ UpdateToken(fails)
         /\ server' = IF fails THEN "down" ELSE "up"
    /\ UNCHANGED <<tickets, cookies, logins>>

Next ==
    \/ ReadFile
    \/ \E ticket \in tickets, fails \in BOOLEAN : Login(ticket, fails)
    \/ Stop \/ Start

Spec == Init /\ [][Next]_vars

-----------------------------------------------------------------------------
\* The tokens' state keeps its shape.
TypeOK ==
    /\ server \in {"up", "down"} /\ leftOver \in BOOLEAN
    /\ token \in Tokens /\ made \in Tokens /\ tokenFile \in Tokens \cup {Broken}
    /\ tickets \subseteq Tokens /\ cookies \subseteq Tokens
    /\ logins \in [Tokens -> Nat]

\* A token is good for one login, across restarts and failed updates, and while
\* the explorer runs the file holds the token that is accepted: a failed update
\* locks nobody out.
TokenIsSingleUse ==
    /\ \A t \in Tokens : logins[t] <= 1
    /\ server = "up" => tokenFile = token
=============================================================================
