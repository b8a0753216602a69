----------------------------- MODULE ClientList -----------------------------
(***************************************************************************)
(* What the home server promises whoever walks over its list of clients:   *)
(* clients join at the end, each at most once; one client at a time leaves, *)
(* for good, and the others keep their order.                              *)
(***************************************************************************)
EXTENDS Naturals, Sequences, SequencesExt

CONSTANTS
    Client,    \* connections
    NoClient   \* an element without a connection: its accept() had failed

VARIABLES
    hosts,  \* the list
    gone    \* the clients that were removed

vars == <<hosts, gone>>

Init == hosts = <<>> /\ gone = {}

Join(c) ==
    /\ c \in Client => c \notin ToSet(hosts) \union gone
    /\ hosts' = Append(hosts, c)
    /\ UNCHANGED gone

Leave(c) ==
    /\ \E i \in DOMAIN hosts : hosts[i] = c /\ hosts' = RemoveAt(hosts, i)
    /\ gone' = gone \union {c}

Next == Join(NoClient) \/ \E c \in Client : Join(c) \/ Leave(c)

Spec == Init /\ [][Next]_vars
============================================================================
