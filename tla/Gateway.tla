------------------------------ MODULE Gateway ------------------------------
(***************************************************************************)
(* The bot's session with the pushbot gateway (bot/gateway.go): runBot     *)
(* dials, waits for HELLO, identifies, reads frames until the socket fails,*)
(* tears the session down and dials again after a growing delay.           *)
(*                                                                         *)
(* Every connection is a Gateway object of its own, numbered in the order  *)
(* of the dials.  Goroutines that were started under one (heartbeats,      *)
(* commands) keep it after the session is over.  The server is external.   *)
(***************************************************************************)
EXTENDS Integers, Sequences

CONSTANTS Inv,           \* commands and addressed messages that users send
          MaxSessions,   \* bound: successful dials
          MaxInbox       \* bound: frames in flight to the bot

ASSUME SessionBounds == MaxSessions \in Nat /\ MaxInbox \in Nat

Sessions == 1..MaxSessions

VARIABLES parent,      \* the parent context: "up" or "cancelled"
          loop,          \* where runBot is
          gen,           \* the newest Gateway, 0 before the first
          conn,          \* g.conn: "nil", "open", or "broken" and not noticed
          ctxDone,       \* Gateways whose context is cancelled
          hb,            \* Gateways whose heartbeat goroutine runs
          srv,           \* what the server has seen of a session
          inbox,         \* frames on their way to the bot
          orcaGw         \* o.gw, 0 for nil

gvars == <<parent, loop, gen, conn, ctxDone, hb, srv, inbox, orcaGw>>

Alive(g) == g # 0 /\ conn[g] = "open"

-----------------------------------------------------------------------------
(* The server (external). *)

Push(g, f) == /\ Alive(g) /\ Len(inbox[g]) < MaxInbox
              /\ inbox' = [inbox EXCEPT ![g] = Append(@, f)]

ServerHello(g) == /\ srv[g] = "accepted" /\ Push(g, <<"HELLO">>)
                  /\ srv' = [srv EXCEPT ![g] = "helloed"]
                  /\ UNCHANGED <<parent, loop, gen, conn, ctxDone, hb, orcaGw>>

ServerReady(g) == /\ srv[g] = "identified" /\ Push(g, <<"READY">>)
                  /\ srv' = [srv EXCEPT ![g] = "ready"]
                  /\ UNCHANGED <<parent, loop, gen, conn, ctxDone, hb, orcaGw>>

\* A command of a user, once the bot has registered its commands.
ServerInvoke(g, i) == /\ srv[g] = "registered" /\ Push(g, <<"INVOKE", i>>)
                      /\ UNCHANGED <<parent, loop, gen, conn, ctxDone, hb, srv, orcaGw>>

\* RECONNECT or INVALID_SESSION.
ServerReconnect(g) == /\ srv[g] \in {"identified", "ready", "registered"}
                      /\ Push(g, <<"RECONNECT">>)
                      /\ srv' = [srv EXCEPT ![g] = "leaving"]
                      /\ UNCHANGED <<parent, loop, gen, conn, ctxDone, hb, orcaGw>>

\* The server or the network ends the connection; frames in flight may be lost.
Drop(g) == /\ Alive(g)
           /\ conn' = [conn EXCEPT ![g] = "broken"]
           /\ \E n \in 0..Len(inbox[g]) : inbox' = [inbox EXCEPT ![g] = SubSeq(@, 1, n)]
           /\ UNCHANGED <<parent, loop, gen, ctxDone, hb, srv, orcaGw>>

Shutdown == /\ parent = "up" /\ parent' = "cancelled"
            /\ ctxDone' = Sessions
            /\ UNCHANGED <<loop, gen, conn, hb, srv, inbox, orcaGw>>

-----------------------------------------------------------------------------
(* runBot and connectAndRun. *)

\* dial and SetGateway(gw).
Dial == /\ loop = "dial" /\ parent = "up" /\ gen < MaxSessions
        /\ gen' = gen + 1
        /\ conn' = [conn EXCEPT ![gen + 1] = "open"]
        /\ srv' = [srv EXCEPT ![gen + 1] = "accepted"]
        /\ orcaGw' = gen + 1
        /\ loop' = "hello"
        /\ UNCHANGED <<parent, ctxDone, hb, inbox>>

DialFails == /\ loop = "dial" /\ parent = "up"
             /\ loop' = "wait"
             /\ UNCHANGED <<parent, gen, conn, ctxDone, hb, srv, inbox, orcaGw>>

Stop == /\ loop \in {"dial", "wait"} /\ parent = "cancelled"
        /\ loop' = "stopped"
        /\ UNCHANGED <<parent, gen, conn, ctxDone, hb, srv, inbox, orcaGw>>

ReadHello == /\ loop = "hello" /\ inbox[gen] # <<>>
             /\ loop' = IF Head(inbox[gen]) = <<"HELLO">> THEN "identify" ELSE "unset"
             /\ inbox' = [inbox EXCEPT ![gen] = Tail(@)]
             /\ UNCHANGED <<parent, gen, conn, ctxDone, hb, srv, orcaGw>>

\* The read fails, or its deadline of 15 seconds passes.
HelloFails == /\ loop = "hello"
              /\ loop' = "unset"
              /\ UNCHANGED <<parent, gen, conn, ctxDone, hb, srv, inbox, orcaGw>>

Identify == /\ loop = "identify"
            /\ \/ /\ loop' = "reading" /\ hb' = hb \cup {gen}
                  /\ srv' = IF Alive(gen) THEN [srv EXCEPT ![gen] = "identified"] ELSE srv
               \/ /\ ~Alive(gen) /\ loop' = "unset" /\ UNCHANGED <<hb, srv>>
            /\ UNCHANGED <<parent, gen, conn, ctxDone, inbox, orcaGw>>

\* heartbeatLoop: the context ends it, or a send that fails, which cancels it.
Heartbeat(g) == /\ g \in hb
                /\ g \in ctxDone \/ ~Alive(g)
                /\ hb' = hb \ {g}
                /\ ctxDone' = ctxDone \cup {g}
                /\ UNCHANGED <<parent, loop, gen, conn, srv, inbox, orcaGw>>

Reading(f) == loop = "reading" /\ inbox[gen] # <<>> /\ Head(inbox[gen])[1] = f

Consume == inbox' = [inbox EXCEPT ![gen] = Tail(@)]

\* handleFrame of READY: register the commands.
ReadReady == /\ Reading("READY") /\ Consume
             /\ srv' = IF Alive(gen) /\ srv[gen] = "ready"
                       THEN [srv EXCEPT ![gen] = "registered"] ELSE srv
             /\ UNCHANGED <<parent, loop, gen, conn, ctxDone, hb, orcaGw>>

\* handleFrame of RECONNECT and INVALID_SESSION: only the context is cancelled.
ReadReconnect == /\ Reading("RECONNECT") /\ Consume
                 /\ ctxDone' = ctxDone \cup {gen}
                 /\ UNCHANGED <<parent, loop, gen, conn, hb, srv, orcaGw>>

\* The part of handleInvoke and OnEvent that is the session's; the goroutine
\* that they start is BotCommands'.
ReadInvoke(i) == /\ Reading("INVOKE") /\ Head(inbox[gen])[2] = i /\ Consume
                 /\ UNCHANGED <<parent, loop, gen, conn, ctxDone, hb, srv, orcaGw>>

\* Wrong form: the error is skipped like a bad frame.
ReadFailsGoesOn == /\ loop = "reading" /\ ~Alive(gen) /\ inbox[gen] = <<>>
                   /\ UNCHANGED gvars

ReadFails == /\ loop = "reading" /\ ~Alive(gen) /\ inbox[gen] = <<>>
             /\ loop' = "unset"
             /\ UNCHANGED <<parent, gen, conn, ctxDone, hb, srv, inbox, orcaGw>>

\* Wrong form: Orca keeps the gateway.
UnsetForgets == /\ loop = "unset" /\ loop' = "close"
                /\ UNCHANGED <<parent, gen, conn, ctxDone, hb, srv, inbox, orcaGw>>

\* The deferred calls of connectAndRun: SetGateway(nil), close, cancel.
Unset == /\ loop = "unset" /\ loop' = "close"
         /\ orcaGw' = 0
         /\ UNCHANGED <<parent, gen, conn, ctxDone, hb, srv, inbox>>

Close == /\ loop = "close" /\ loop' = "cancel"
         /\ conn' = [conn EXCEPT ![gen] = "nil"]
         /\ inbox' = [inbox EXCEPT ![gen] = <<>>]
         /\ UNCHANGED <<parent, gen, ctxDone, hb, srv, orcaGw>>

Cancel == /\ loop = "cancel" /\ loop' = "wait"
          /\ ctxDone' = ctxDone \cup {gen}
          /\ UNCHANGED <<parent, gen, conn, hb, srv, inbox, orcaGw>>

\* The delay before the next dial passes; how long it is is left out.
Wait == /\ loop = "wait" /\ parent = "up"
        /\ loop' = "dial"
        /\ UNCHANGED <<parent, gen, conn, ctxDone, hb, srv, inbox, orcaGw>>

RunBot == \/ Dial \/ DialFails \/ Stop \/ ReadHello \/ HelloFails \/ Identify
          \/ ReadReady \/ ReadReconnect \/ ReadFails
          \/ Unset \/ Close \/ Cancel \/ Wait

Server == \/ \E g \in Sessions : \/ ServerHello(g) \/ ServerReady(g)
                                 \/ ServerReconnect(g) \/ Drop(g)
          \/ Shutdown

GInit == /\ parent = "up" /\ loop = "dial" /\ gen = 0
         /\ conn = [g \in Sessions |-> "nil"]
         /\ ctxDone = {} /\ hb = {}
         /\ srv = [g \in Sessions |-> "none"]
         /\ inbox = [g \in Sessions |-> <<>>]
         /\ orcaGw = 0

=============================================================================
