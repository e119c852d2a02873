------------------------------- MODULE IrcRpc -------------------------------
(***************************************************************************)
(* The requests of the HTTP server and the RPC connection to the IRC       *)
(* server that authorises uploads (irc.go, auth.go, authtoken.go).         *)
(*                                                                         *)
(* A request is served once, on a goroutine of its own, and is a record of *)
(* its handler h, where that is (pc), what it was sent (tok, on, body) and *)
(* what it has found out (auth, own, seen).  Once it is answered only what *)
(* the world still knows of it is kept.  The IRC server is external: it    *)
(* keeps the unspent tokens and spends one when it is validated, whether   *)
(* or not the answer arrives.                                              *)
(***************************************************************************)
EXTENDS Integers, FiniteSets

CONSTANTS Reqs,        \* requests
          Tokens,      \* tokens that the IRC server has minted
          Claims,      \* Claims[t]: account, and whether an operator of the channel
          MaxBreaks,   \* bound: how often the connection is lost
          Traffic,     \* bound: sets of handlers that are called in one behaviour
          None

VARIABLES proc,        \* up, or how far main has come
          traffic,     \* handlers that are called in this behaviour
          req,
          ircConn,     \* nil, live, or dead: the peer is gone
          ircMu,       \* the request that holds ircMu
          unspent,     \* tokens that the IRC server still knows
          nbreaks

rpcVars == <<ircConn, ircMu, unspent, nbreaks>>

TokenHandlers == {"upload", "userAvatar", "channelAvatar"}
OperHandlers == {"info", "createPack", "deletePack", "addEmoji", "deleteEmoji"}
KeyHandlers == {"register", "login", "update", "verify", "registerChannel",
                "updateChannel", "userMetadata", "channelMetadata", "permissions"}

NewReq(h, pc) == [h |-> h, pc |-> pc, tok |-> None, on |-> None, body |-> None,
                  auth |-> FALSE, own |-> None, seen |-> None, reply |-> "none"]
NoReq == NewReq("none", "idle")

Running(r) == req[r].pc \notin {"idle", "done", "cut"}
Step(r, pc) == req' = [req EXCEPT ![r].pc = pc]
Ended(q, pc) == [q EXCEPT !.pc = pc, !.on = None, !.body = None, !.seen = None,
                          !.tok = IF q.auth THEN @ ELSE None]
Answer(r, reply) == req' = [req EXCEPT ![r] = [Ended(@, "done") EXCEPT !.reply = reply]]

-----------------------------------------------------------------------------
(* The middlewares. *)

\* AuthTokenMiddleware has a bearer token to validate.
ArriveWithToken(r, h, t, on) ==
  /\ proc = "up" /\ req[r].pc = "idle" /\ h \in TokenHandlers \cap traffic
  /\ req' = [req EXCEPT ![r] = [NewReq(h, "auth") EXCEPT !.tok = t, !.on = on]]
  /\ UNCHANGED rpcVars

\* ServerAuthMiddleware, or AuthMiddleware for operators, has let it in, and
\* its body, unless that is a file, has been received.
Arrive(r, h, pc, on, body) ==
  /\ proc = "up" /\ req[r].pc = "idle" /\ h \in (OperHandlers \cup KeyHandlers) \cap traffic
  /\ req' = [req EXCEPT ![r] = [NewReq(h, pc) EXCEPT !.on = on, !.body = body]]
  /\ UNCHANGED rpcVars

\* A middleware refuses: no credentials, or not the ones it asks for.
TurnAway(r) ==
  /\ proc = "up" /\ req[r].pc = "idle"
  /\ req' = [req EXCEPT ![r] = [NewReq("none", "done") EXCEPT !.reply = "error"]]
  /\ UNCHANGED rpcVars

-----------------------------------------------------------------------------
(* ircQuery, called by validateBearer. *)

\* Take ircMu ...
Lock(r) ==
  /\ req[r].pc = "auth" /\ ircMu = None
  /\ ircMu' = r
  /\ Step(r, IF ircConn = "nil" THEN "dial" ELSE "query")
  /\ UNCHANGED <<ircConn, unspent, nbreaks>>

\* ... and connect if there never was a connection.
Dial(r, dialed) ==
  /\ req[r].pc = "dial"
  /\ IF dialed THEN Step(r, "query") /\ ircConn' = "live" /\ UNCHANGED ircMu
               ELSE Answer(r, "error") /\ ircMu' = None /\ UNCHANGED ircConn
  /\ UNCHANGED <<unspent, nbreaks>>

Valid(r) == req[r].tok \in unspent

\* Wrong form: refused on the second try, because the first one spent it.
AuthorizedWhenRetried(r) == Valid(r) \/ req[r].pc = "retry"

Authorized(r) == Valid(r)

\* The server spends the token or refuses it, and its answer arrives.
Query(r) ==
  /\ req[r].pc \in {"query", "retry"} /\ ircConn = "live"
  /\ unspent' = unspent \ {req[r].tok}
  /\ IF Authorized(r) THEN req' = [req EXCEPT ![r].pc = "body", ![r].auth = TRUE]
                      ELSE Answer(r, "error")
  /\ ircMu' = None
  /\ UNCHANGED <<ircConn, nbreaks>>

\* The connection is dead, or dies before the answer, with the token spent or
\* not: a connection error, after which the first try is followed by another.
QueryFails(r, spent) ==
  /\ req[r].pc \in {"query", "retry"}
  /\ \/ ircConn = "dead" /\ ~spent /\ UNCHANGED nbreaks
     \/ ircConn = "live" /\ nbreaks < MaxBreaks /\ nbreaks' = nbreaks + 1
  /\ unspent' = IF spent THEN unspent \ {req[r].tok} ELSE unspent
  /\ ircConn' = "dead"
  /\ IF req[r].pc = "query" THEN Step(r, "redial") /\ UNCHANGED ircMu
                            ELSE Answer(r, "error") /\ ircMu' = None

\* Any other error is final (isIRCConnError).
QueryRefused(r) ==
  /\ req[r].pc \in {"query", "retry"} /\ ircConn = "live"
  /\ Answer(r, "error") /\ ircMu' = None
  /\ UNCHANGED <<ircConn, unspent, nbreaks>>

\* Wrong form: what a failed dial returns is kept.
RedialForgets(r, dialed) ==
  /\ req[r].pc = "redial"
  /\ IF dialed THEN Step(r, "retry") /\ ircConn' = "live" /\ UNCHANGED ircMu
               ELSE Answer(r, "error") /\ ircConn' = "nil" /\ ircMu' = None
  /\ UNCHANGED <<unspent, nbreaks>>

\* Wrong form: the mutex is kept when the dial fails.
RedialKeepsLock(r, dialed) ==
  /\ req[r].pc = "redial"
  /\ IF dialed THEN Step(r, "retry") /\ ircConn' = "live"
               ELSE Answer(r, "error") /\ UNCHANGED ircConn
  /\ UNCHANGED <<ircMu, unspent, nbreaks>>

Redial(r, dialed) ==
  /\ req[r].pc = "redial"
  /\ IF dialed THEN Step(r, "retry") /\ ircConn' = "live" /\ UNCHANGED ircMu
               ELSE Answer(r, "error") /\ ircMu' = None /\ UNCHANGED ircConn
  /\ UNCHANGED <<unspent, nbreaks>>

\* The IRC server restarts, or drops an idle peer.
LinkLost == /\ ircConn = "live" /\ nbreaks < MaxBreaks
            /\ ircConn' = "dead" /\ nbreaks' = nbreaks + 1
            /\ UNCHANGED <<req, ircMu, unspent>>

-----------------------------------------------------------------------------
(* The five /irc/ handlers: they use ircConn without the mutex, and look at *)
(* it twice.                                                                *)

InfoCheck(r) ==
  /\ req[r].h = "info" /\ req[r].pc = "check"
  /\ IF ircConn = "nil" THEN Answer(r, "error") ELSE Step(r, "ask")
  /\ UNCHANGED rpcVars

InfoAsk(r, ok) ==
  /\ req[r].h = "info" /\ req[r].pc = "ask"
  /\ ok => ircConn = "live"
  /\ Answer(r, IF ok THEN "ok" ELSE "error")
  /\ UNCHANGED rpcVars
=============================================================================
