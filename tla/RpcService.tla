----------------------------- MODULE RpcService -----------------------------
(***************************************************************************)
(* What app/api/rpcApi.js promises the rest of the explorer: a caller of   *)
(* getRpcData / getRpcDataWithParams gets a promise that is settled exactly *)
(* once; before the node has been verified every call but the verifying    *)
(* ones is refused on the spot; the node never works on more than          *)
(* config.rpcConcurrency requests at a time.                               *)
(***************************************************************************)
EXTENDS Naturals, FiniteSets

CONSTANTS
    Calls,          \* every invocation is a call of its own
    ProbeCalls,     \* calls made with verifyingConnection = true
    Concurrency     \* config.rpcConcurrency

VARIABLES
    rpcConnected,   \* global.rpcConnected
    outcome,        \* outcome[c]: the promise handed to the caller of c
    inService       \* the calls the node is working on

vars == <<rpcConnected, outcome, inService>>

Settled == {"resolved", "rejected"}

Init ==
    /\ rpcConnected = FALSE
    /\ outcome = [c \in Calls |-> "idle"]
    /\ inService = {}

\* A group of calls made in one turn of the event loop is accepted together.
Accept(cs) ==
    /\ \A c \in cs : outcome[c] = "idle" /\ (c \in ProbeCalls \/ rpcConnected)
    /\ outcome' = [c \in Calls |-> IF c \in cs THEN "waiting" ELSE outcome[c]]
    /\ UNCHANGED <<rpcConnected, inService>>

Refuse(c) ==
    /\ outcome[c] = "idle"
    /\ c \notin ProbeCalls
    /\ ~rpcConnected
    /\ outcome' = [outcome EXCEPT ![c] = "rejected"]
    /\ UNCHANGED <<rpcConnected, inService>>

Serve(c) ==
    /\ outcome[c] = "waiting"
    /\ c \notin inService
    /\ Cardinality(inService) < Concurrency
    /\ inService' = inService \cup {c}
    /\ UNCHANGED <<rpcConnected, outcome>>

\* The node's answer, or its absence, settles the promise and frees the slot.
Settle(c) ==
    /\ outcome[c] = "waiting"
    /\ \E o \in Settled : outcome' = [outcome EXCEPT ![c] = o]
    /\ inService' = inService \ {c}
    /\ UNCHANGED rpcConnected

Connect ==
    /\ ~rpcConnected
    /\ \E c \in ProbeCalls : outcome[c] = "resolved"
    /\ rpcConnected' = TRUE
    /\ UNCHANGED <<outcome, inService>>

Next ==
    \/ \E cs \in SUBSET Calls : Accept(cs)
    \/ \E c \in Calls : Refuse(c) \/ Serve(c) \/ Settle(c)
    \/ Connect

Spec == Init /\ [][Next]_vars
=============================================================================
