---------------------------- MODULE BotCommands ----------------------------
(***************************************************************************)
(* Orca's commands (orca/audit.go, scan.go, explain.go, synthban.go,       *)
(* ask.go, sentry.go, tools.go) and its answers to messages in a channel   *)
(* (chat_listen.go), each in a goroutine of its own, with the workflow     *)
(* cards that they show (bot/workflow.go), on top of the sessions of       *)
(* Gateway.  A frame that a goroutine sends reaches the server only while  *)
(* the session it belongs to is alive.                                     *)
(*                                                                         *)
(* A command is the list of its phases: "fatal" and "soft" are tool calls  *)
(* whose failure ends the command or does not, "note" is a reasoning line, *)
(* "parse" a check that may fail the command.  What the calls return and   *)
(* how it is rendered is left out.                                         *)
(***************************************************************************)
EXTENDS Gateway, FiniteSets

CONSTANTS Members,       \* bound: members that a scan looks at
          MaxCalls,      \* bound: tool calls in one answer of the model
          ToolBudget     \* maxToolIterations, chatToolBudget

ASSUME CommandBounds == /\ Members \in Nat /\ MaxCalls \in Nat /\ ToolBudget \in Nat \ {0}

VARIABLES h,             \* h[i]: the goroutine of command i
          card           \* card[i]: what users see of it

vars == <<gvars, h, card>>

-----------------------------------------------------------------------------
(* The commands as lists of phases. *)

AuditPhases == <<"fatal">>
ScanPhases == <<"fatal">> \o [m \in 1..Members |-> "soft"] \o <<"note">>
ExplainPhases == <<"note", "parse", "fatal", "note">>
SynthBanPhases == <<"fatal", "note", "fatal">>

Phases == [audit |-> AuditPhases, scan |-> ScanPhases, explain |-> ExplainPhases,
           synthban |-> SynthBanPhases]

Kinds == {"audit", "scan", "explain", "synthban", "ask", "chat", "sentry"}
Kind(i) == h[i].kind
Asks(i) == Kind(i) \in {"ask", "chat"}
Phase(i) == Phases[Kind(i)][h[i].at]

-----------------------------------------------------------------------------
(* Frames and cards: what the server, and with it the user, makes of them.  *)

Blank == [state |-> "none", open |-> 0, early |-> 0, replies |-> 0]

Show(c, e) ==
  CASE e = "start" -> [c EXCEPT !.state = "running"]
    [] e = "open" -> [c EXCEPT !.open = @ + 1]
    [] e = "close" -> [c EXCEPT !.open = @ - 1]
    [] e = "early" -> [c EXCEPT !.early = @ + 1]
    [] e = "reply" -> [c EXCEPT !.replies = @ + 1]
    [] e \in {"complete", "failed"} -> [c EXCEPT !.state = e]
    [] OTHER -> c

\* Gateway.send through inv.gw or the gateway the goroutine has read.
SendsOn(i) == Alive(h[i].gw)

Emit(i, e) == card' = IF SendsOn(i) THEN [card EXCEPT ![i] = Show(@, e)] ELSE card

Emit2(i, e, f) == card' = IF SendsOn(i) THEN [card EXCEPT ![i] = Show(Show(@, e), f)] ELSE card

Go(i, pc) == h' = [h EXCEPT ![i].pc = pc]

-----------------------------------------------------------------------------
(* Start of a goroutine. *)

NewRun(k, g) == [kind |-> k, pc |-> "check", gw |-> g, at |-> 1, iter |-> 0, calls |-> 0, terminated |-> FALSE]

\* handleInvoke keeps the session's gateway; runChatReply reads o.gw when it
\* runs, and gives up without one.
Invoke(i) == /\ h[i].pc = "idle"
             /\ ReadInvoke(i)
             /\ \E k \in Kinds : h' = [h EXCEPT ![i] = NewRun(k, gen)]
             /\ UNCHANGED card

\* handleChannelMessage ignores what is not addressed to the bot; OnInvoke and
\* the commands refuse users who are not operators, unknown commands and
\* missing options with an answer.  /ask may be told to reset its thread first.
Check(i) == /\ h[i].pc = "check"
            /\ IF Kind(i) = "chat"
               THEN \/ h' = [h EXCEPT ![i].pc = "done"]
                    \/ /\ orcaGw = 0 /\ h' = [h EXCEPT ![i].pc = "done"]
                    \/ /\ orcaGw # 0
                       /\ h' = [h EXCEPT ![i].pc = "start", ![i].gw = orcaGw]
               ELSE \/ Go(i, "answer")
                    \/ Go(i, IF Kind(i) = "sentry" THEN "answer" ELSE "start")
                    \/ Kind(i) = "ask" /\ Go(i, "reset")
            /\ UNCHANGED <<gvars, card>>

\* "(thread reset)", a response under the interaction's id like the answer that
\* follows; that it could not be sent is ignored.
Reset(i) == /\ h[i].pc = "reset"
            /\ Go(i, "start")
            /\ Emit(i, "early")
            /\ UNCHANGED gvars

\* w.Start, and w.ReasoningStart of the commands that ask the model.  A start
\* that cannot be sent ends the command; runChatReply goes on regardless.
Start(i) == /\ h[i].pc = "start"
            /\ \/ /\ ~SendsOn(i) /\ Kind(i) # "chat" /\ Go(i, "done") /\ UNCHANGED card
               \/ /\ conn[h[i].gw] # "nil" \/ Kind(i) = "chat"
                  /\ IF Asks(i) THEN Emit2(i, "start", "open") ELSE Emit(i, "start")
                  /\ Go(i, IF Asks(i) THEN "model" ELSE "phase")
            /\ UNCHANGED gvars

-----------------------------------------------------------------------------
(* Commands made of phases. *)

More(i) == h[i].pc = "phase" /\ h[i].at <= Len(Phases[Kind(i)])

Note(i) == /\ More(i) /\ Phase(i) = "note"
           /\ h' = [h EXCEPT ![i].at = @ + 1]
           /\ Emit(i, "note")
           /\ UNCHANGED gvars

Parse(i) == /\ More(i) /\ Phase(i) = "parse"
            /\ \/ h' = [h EXCEPT ![i].at = @ + 1]
               \/ Go(i, "failing")
            /\ UNCHANGED <<gvars, card>>

\* StartToolCall, then the call.
CallTool(i) == /\ More(i) /\ Phase(i) \in {"fatal", "soft"}
               /\ Go(i, "call")
               /\ Emit(i, "open")
               /\ UNCHANGED gvars

ToolResult(i) == /\ h[i].pc = "call"
                 /\ h' = [h EXCEPT ![i].pc = "phase", ![i].at = @ + 1]
                 /\ Emit(i, "close")
                 /\ UNCHANGED gvars

ToolFailed(i) == /\ h[i].pc = "call"
                 /\ h' = IF Phase(i) = "fatal" THEN [h EXCEPT ![i].pc = "failing"]
                         ELSE [h EXCEPT ![i].pc = "phase", ![i].at = @ + 1]
                 /\ Emit(i, "close")
                 /\ UNCHANGED gvars

\* WorkflowState of a terminal state.
Terminal(i, e, pc) == /\ h' = [h EXCEPT ![i].terminated = TRUE, ![i].pc = pc]
                      /\ Emit(i, e)
                      /\ UNCHANGED gvars

\* w.Complete before the answer of a command whose phases are over.
Completed(i) == /\ h[i].pc = "phase" /\ ~More(i)
                /\ Terminal(i, "complete", "answer")

Failed(i) == h[i].pc = "failing" /\ Terminal(i, "failed", "answer")

\* The last Whisper or Reply.  When it cannot be sent OnInvoke returns the
\* error and handleInvoke whispers it through the same gateway, in vain.
LastAnswer(i) == /\ h[i].pc = "answer"
                 /\ Go(i, "done")
                 /\ Emit(i, "reply")
                 /\ UNCHANGED gvars

-----------------------------------------------------------------------------
(* cmdAsk and runChatReply: rounds of the model and its tool calls. *)

\* The reasoning step ends with the first answer of the model, whatever it is.
FirstCloses(i) == IF h[i].iter = 0 THEN Emit(i, "close") ELSE UNCHANGED card

\* An error ends the card of /ask and is whispered; in a channel it is said
\* there, and the card is ended by the deferred function.
ModelFails(i) ==
  /\ h[i].pc = "model"
  /\ IF Kind(i) = "ask" THEN Go(i, "failing") /\ FirstCloses(i)
     ELSE /\ Go(i, "deferred")
          /\ IF h[i].iter = 0 THEN Emit2(i, "close", "reply") ELSE Emit(i, "reply")
  /\ UNCHANGED gvars

ModelCalls(i) == /\ h[i].pc = "model"
                 /\ \E n \in 1..MaxCalls : h' = [h EXCEPT ![i].pc = "tools", ![i].calls = n]
                 /\ FirstCloses(i)
                 /\ UNCHANGED gvars

ModelAnswers(i) == /\ h[i].pc = "model"
                   /\ Go(i, "final")
                   /\ FirstCloses(i)
                   /\ UNCHANGED gvars

\* The tools, and those whose handlers check parameters before they show a step.
LookupTools == {"user_get", "user_list", "channel_get", "channel_list", "bans_list",
                "stats", "explain_mask"}
AdminTools == {"user_kill", "channel_kick", "channel_set_topic", "channel_set_mode",
               "ban_add", "ban_del", "nick_ban_add", "nick_ban_del", "server_rehash",
               "server_list"}
MediaTools == {"play_video", "stop_video", "spamfilter_list"}
Tools == LookupTools \cup AdminTools \cup MediaTools
NoParams == {"user_list", "channel_list", "bans_list", "stats", "server_rehash",
             "server_list", "spamfilter_list"}

\* invokeAITool: an unknown tool or a missing parameter shows no step.
AskTool(i) == /\ h[i].pc = "tools" /\ h[i].calls > 0
              /\ \E t \in Tools \cup {"unknown"} :
                   \/ /\ t \notin NoParams
                      /\ h' = [h EXCEPT ![i].calls = @ - 1] /\ UNCHANGED card
                   \/ t \in Tools /\ Go(i, "tool") /\ Emit(i, "open")
              /\ UNCHANGED gvars

\* Result or Failed of the tool's step; the turn is recorded (OrcaMemory).
AskToolDone(i) == /\ h[i].pc = "tool"
                  /\ h' = [h EXCEPT ![i].pc = "tools", ![i].calls = @ - 1]
                  /\ Emit(i, "close")
                  /\ UNCHANGED gvars

\* The next round; at the end of the budget /ask fails, the channel is told
\* that there is no reply.
NextRound(i) == /\ h[i].pc = "tools" /\ h[i].calls = 0
                /\ h' = [h EXCEPT ![i].iter = @ + 1,
                           ![i].pc = IF h[i].iter + 1 < ToolBudget THEN "model"
                                     ELSE IF Kind(i) = "ask" THEN "failing" ELSE "final"]
                /\ UNCHANGED <<gvars, card>>

\* The answer carries the terminal state (TerminalReplyTags) ...
Final(i) == /\ h[i].pc = "final"
            /\ h' = [h EXCEPT ![i].pc = "trail", ![i].terminated = TRUE]
            /\ Emit2(i, "reply", "complete")
            /\ UNCHANGED gvars

\* ... and is followed by the same state on its own.
Trail(i) == h[i].pc = "trail" /\ Terminal(i, "complete", IF Kind(i) = "chat" THEN "deferred" ELSE "done")

\* Wrong form: every card counts as unfinished.
IsTerminatedNever(i) == FALSE

IsTerminated(i) == h[i].terminated

\* Wrong form: without the deferred function.
DeferredNothing(i) == h[i].pc = "deferred" /\ Go(i, "done") /\ UNCHANGED <<gvars, card>>

\* The deferred function of runChatReply.
Deferred(i) == /\ h[i].pc = "deferred"
               /\ IF IsTerminated(i) THEN Go(i, "done") /\ UNCHANGED <<gvars, card>>
                  ELSE Terminal(i, "failed", "done")

-----------------------------------------------------------------------------
Command(i) == \/ Check(i) \/ Reset(i) \/ Start(i) \/ Note(i) \/ Parse(i) \/ CallTool(i)
              \/ ToolResult(i) \/ ToolFailed(i) \/ Completed(i) \/ Failed(i)
              \/ LastAnswer(i) \/ ModelFails(i) \/ ModelCalls(i) \/ ModelAnswers(i)
              \/ AskTool(i) \/ AskToolDone(i) \/ NextRound(i) \/ Final(i) \/ Trail(i)
              \/ Deferred(i)

Idle == [NewRun("audit", 0) EXCEPT !.pc = "idle"]

Init == /\ GInit
        /\ h = [i \in Inv |-> Idle]
        /\ card = [i \in Inv |-> Blank]

Invited(g, i) == \E n \in 1..Len(inbox[g]) : inbox[g][n] = <<"INVOKE", i>>

Bot == (RunBot /\ UNCHANGED <<h, card>>) \/ \E i \in Inv : Invoke(i)
Beat(g) == Heartbeat(g) /\ UNCHANGED <<h, card>>

Next == \/ Bot
        \/ Server /\ UNCHANGED <<h, card>>
        \/ \E g \in Sessions : Beat(g)
        \/ \E g \in Sessions, i \in Inv : /\ h[i].pc = "idle" /\ ~Invited(g, i)
                                          /\ ServerInvoke(g, i) /\ UNCHANGED <<h, card>>
        \/ \E i \in Inv : Command(i)

\* A command waits for the result of a tool.
InCall(i) == h[i].pc \in {"call", "tool"}

\* The Go scheduler runs every goroutine on, and the model answers or its HTTP
\* client's timeout ends the request.  A tool may ask the IRC server, and
\* nothing limits that in time: its result is not owed.
Fairness == /\ WF_vars(Bot)
            /\ \A g \in Sessions : WF_vars(Beat(g))
            /\ \A i \in Inv : WF_vars(~InCall(i) /\ Command(i))

Spec == Init /\ [][Next]_vars /\ Fairness

-----------------------------------------------------------------------------
(* Properties. *)

\* Orca never holds a gateway whose connection is already closed, and never
\* one that a newer session has replaced (SetGateway in connectAndRun).
OrcaGwLive == orcaGw # 0 => orcaGw = gen /\ conn[orcaGw] # "nil"

\* Cards end in one state, with no step still spinning, and a command is
\* answered at most once, whenever the session is lost (bot/workflow.go).  Only
\* /ask with reset responds twice: "(thread reset)" before its card.
CardImpl == INSTANCE CardLife
CardsEnd == CardImpl!CardSpec

\* Every card that users see running comes to an end, unless its session is
\* lost or a tool never returns: no path through a command forgets it.
CardsClose == \A i \in Inv :
  (card[i].state = "running") ~>
    (card[i].state \in {"complete", "failed"} \/ ~Alive(h[i].gw) \/ []InCall(i))

\* A session that is lost is torn down and dialled again, until the bot is
\* shut down; its heartbeat goroutine ends.
SessionsReplaced == \A g \in Sessions :
  (gen = g /\ conn[g] = "broken") ~>
     (g \notin hb /\ (gen > g \/ loop \in {"dial", "wait", "stopped"}))
=============================================================================
