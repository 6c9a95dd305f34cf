------------------------------ MODULE Startup ------------------------------
(***************************************************************************)
(* How a node comes up (server.go New and Run) and what it tells clients:  *)
(* New reads or writes its identity key by key (GenerateServerIdentity)    *)
(* before Run binds an address and starts the tickers of Discovery, and    *)
(* the client responder answers every request it understands with the      *)
(* identity in memory.  A process may end between any two of the keys.     *)
(*                                                                         *)
(* A value made up anew is named by the crashes before it, so that two     *)
(* lives of a node never make up the same one.  Answering is the set of    *)
(* the nodes with a client responder, the only ones whose identity is      *)
(* followed; the others start as in Discovery.                             *)
(***************************************************************************)
EXTENDS Discovery

CONSTANT Answering

ASSUME AnsweringAssumption == Answering \subseteq Nodes

VARIABLES
  conf,   \* conf[n]: the values in server_config, in the order of the keys
  ident,  \* ident[n]: those New has read or made up so far
  told    \* history: told[n], the identities clients of n have been answered

allVars == <<vars, conf, ident, told>>

\* serverId, serverToken and serverName.
Keys == 3
Fresh == 0 .. MoveBound
Values == UNION {[1 .. k -> Fresh] : k \in 0 .. Keys}

StartupTypeOK ==
  /\ TypeOK
  /\ conf \in [Answering -> Values]
  /\ ident \in [Answering -> Values]
  /\ told \in [Answering -> SUBSET Values]
  /\ \A n \in Answering : addr[n] # Down => Len(ident[n]) = Keys

StartupInit ==
  /\ Init
  /\ conf = [n \in Answering |-> <<>>]
  /\ ident = [n \in Answering |-> <<>>]
  /\ told = [n \in Answering |-> {}]

\* A key that is made up at every start.
AlwaysFresh(n, k) ==
  /\ ident' = [ident EXCEPT ![n] = Append(@, moves)]
  /\ conf' = [conf EXCEPT ![n] = [i \in DOMAIN @ \union {k} |-> IF i = k THEN moves ELSE @[i]]]

\* One key of GenerateServerIdentity: get it, or make it up and set it.
GetOrSet(n, k) ==
  IF k \in DOMAIN conf[n]
  THEN /\ ident' = [ident EXCEPT ![n] = Append(@, conf[n][k])]
       /\ UNCHANGED conf
  ELSE /\ ident' = [ident EXCEPT ![n] = Append(@, moves)]
       /\ conf' = [conf EXCEPT ![n] = Append(@, moves)]

Identify(n) ==
  /\ addr[n] = Down
  /\ Len(ident[n]) < Keys
  /\ GetOrSet(n, Len(ident[n]) + 1)
  /\ UNCHANGED <<vars, told>>

Run(n, a) ==
  /\ n \in Answering => Len(ident[n]) = Keys
  /\ Start(n, a)
  /\ UNCHANGED <<conf, ident, told>>

\* ClientResponder: both forms of request are answered with the identity.
Answer(n) ==
  /\ addr[n] # Down
  /\ told' = [told EXCEPT ![n] = @ \union {ident[n]}]
  /\ UNCHANGED <<vars, conf, ident>>

\* The process ends while it starts, because of an error or of a crash.
StartFails(n) ==
  /\ addr[n] = Down /\ ident[n] # <<>>
  /\ moves < MoveBound /\ moves' = moves + 1
  /\ ident' = [ident EXCEPT ![n] = <<>>]
  /\ UNCHANGED <<addr, due, queue, held, seen, seenLen, reg, ago, faults, conf, told>>

Stop(n) ==
  /\ Crash(n)
  /\ ident' = [i \in Answering |-> IF i = n THEN <<>> ELSE ident[i]]
  /\ UNCHANGED <<conf, told>>

StartupNext ==
  \/ /\ \/ Tick
        \/ \E n \in Nodes : Send(n) \/ Read(n)
        \/ \E c \in held : Arrive(c)
     /\ UNCHANGED <<conf, ident, told>>
  \/ \E n \in Nodes : Stop(n)
  \/ \E n \in Nodes, a \in Addresses : Run(n, a)
  \/ \E n \in Answering : Identify(n) \/ Answer(n) \/ StartFails(n)

StartupSpec == StartupInit /\ [][StartupNext]_allVars

(***************************************************************************)
(* The properties: those of Discovery, and this one.                       *)
(***************************************************************************)

\* Clients of a node are all answered with the same identity, across restarts
\* and starts that were cut off between two keys (client_responder.go:148).
IdentitySticks == \A n \in Answering : Cardinality(told[n]) <= 1
=============================================================================
