-------------------------- MODULE BotCommandsProofs --------------------------
(***************************************************************************)
(* Proofs about BotCommands for any number of sessions and commands: Orca  *)
(* holds a gateway only while its session lasts, and the cards of commands *)
(* implement CardLife.                                                     *)
(***************************************************************************)
EXTENDS BotCommands, TLAPS

-----------------------------------------------------------------------------
(* Sessions.  runBot is between SetGateway(gw) and the deferred calls while *)
(* Orca holds a gateway, and connections are closed after SetGateway(nil).  *)

Loops == {"dial", "wait", "stopped", "hello", "identify", "reading", "unset", "close", "cancel"}
InSession == {"hello", "identify", "reading", "unset"}

GInv ==
  /\ gen \in 0..MaxSessions
  /\ loop \in Loops
  /\ conn \in [Sessions -> {"nil", "open", "broken"}]
  /\ orcaGw # 0 => orcaGw = gen /\ loop \in InSession
  /\ loop \in InSession => gen # 0 /\ conn[gen] # "nil"
  /\ loop = "close" => gen # 0
  /\ \A g \in Sessions : g > gen => conn[g] = "nil"

LEMMA SessionInit == Init => GInv
  BY SessionBounds DEF Init, GInit, GInv, Loops, InSession, Sessions

LEMMA GatewayKept ==
  ASSUME GInv, UNCHANGED <<loop, gen, conn, orcaGw>>
  PROVE  GInv'
  BY DEF GInv

LEMMA RunBotKeeps ==
  ASSUME GInv, RunBot
  PROVE  GInv'
  <1>. USE SessionBounds DEF GInv, Loops, InSession, Sessions
  <1>1. CASE Dial
    BY <1>1 DEF Dial
  <1>2. CASE Close
    BY <1>2 DEF Close
  <1>3. CASE DialFails \/ Stop \/ ReadHello \/ HelloFails
    BY <1>3 DEF DialFails, Stop, ReadHello, HelloFails
  <1>4. CASE Identify \/ ReadFails \/ Unset \/ Cancel \/ Wait
    BY <1>4 DEF Identify, ReadFails, Unset, Cancel, Wait
  <1>5. CASE ReadReady \/ ReadReconnect
    BY <1>5, GatewayKept DEF ReadReady, ReadReconnect
  <1>. QED
    BY <1>1, <1>2, <1>3, <1>4, <1>5 DEF RunBot

LEMMA ServerKeeps ==
  ASSUME GInv, Server
  PROVE  GInv'
  <1>1. ASSUME NEW g \in Sessions, Drop(g) PROVE GInv'
    BY <1>1 DEF Drop, Alive, GInv
  <1>2. ASSUME NEW g \in Sessions, ServerHello(g) \/ ServerReady(g) \/ ServerReconnect(g)
        PROVE  GInv'
    BY <1>2, GatewayKept DEF ServerHello, ServerReady, ServerReconnect
  <1>3. CASE Shutdown
    BY <1>3, GatewayKept DEF Shutdown
  <1>. QED
    BY <1>1, <1>2, <1>3 DEF Server

-----------------------------------------------------------------------------
(* Cards.  While its session lasts, a card is where its command is; when it *)
(* is lost the card does not change any more, wherever the command goes.    *)

Pcs == {"idle", "check", "reset", "start", "phase", "call", "failing", "answer", "model", "tools",
        "tool", "final", "trail", "deferred", "done"}
Runs == [kind : Kinds, pc : Pcs, gw : 0..MaxSessions, at : Nat, iter : Nat, calls : Int,
         terminated : BOOLEAN]

Is(c, state, open, replies) == c.state = state /\ c.open = open /\ c.replies = replies

\* What the card c of a goroutine at r is like, if every frame was sent.
Match(r, c) ==
  /\ r.pc \in {"idle", "check", "reset", "start"} => Is(c, "none", 0, 0) /\ r.iter = 0
  /\ r.pc \in {"idle", "check", "reset"} => c.early = 0
  /\ r.pc \in {"phase", "failing", "tools", "final"} => Is(c, "running", 0, 0)
  /\ r.pc \in {"call", "tool"} => Is(c, "running", 1, 0)
  /\ r.pc = "model" => Is(c, "running", IF r.iter = 0 THEN 1 ELSE 0, 0)
  /\ r.pc = "answer" => c.state \in {"none", "complete", "failed"} /\ c.open = 0 /\ c.replies = 0
  /\ r.pc \in {"idle", "check", "reset", "start", "model", "tools", "tool"} => ~r.terminated
  /\ r.pc = "trail" => Is(c, "complete", 0, 1)
  /\ r.pc = "deferred" => Is(c, IF r.terminated THEN "complete" ELSE "running", 0, 1)

Local(i) ==
  /\ h[i] \in Runs /\ card[i] \in CardImpl!Shown
  /\ h[i].gw <= gen
  /\ h[i].pc \in {"idle", "check", "reset", "start"} \/ Alive(h[i].gw) => Match(h[i], card[i])

CInv ==
  /\ GInv
  /\ DOMAIN h = Inv /\ h = [i \in Inv |-> h[i]]
  /\ DOMAIN card = Inv /\ card = [i \in Inv |-> card[i]]
  /\ \A i \in Inv : Local(i)

\* A step of the goroutine of command i.
Moves(i) ==
  /\ h' = [h EXCEPT ![i] = h'[i]] /\ card' = [card EXCEPT ![i] = card'[i]]
  /\ Local(i)'
  /\ card'[i] \in CardImpl!Change(card[i]) \cup {card[i]}


LEMMA SameSession ==
  ASSUME NEW i \in Inv, CInv, UNCHANGED gvars, h'[i].gw = h[i].gw
  PROVE  Alive(h[i].gw)' <=> SendsOn(i)
  BY DEF gvars, Alive, SendsOn

\* A frame e that takes goroutine i from r = h[i] to h'[i].
LEMMA FrameSent ==
  ASSUME NEW i \in Inv, CInv, UNCHANGED gvars, NEW e,
         h' = [h EXCEPT ![i] = h'[i]], h'[i] \in Runs,
         h'[i].gw = h[i].gw, h'[i].pc \notin {"idle", "check", "reset", "start"},
         Emit(i, e),
         SendsOn(i) => /\ Match(h'[i], Show(card[i], e))
                       /\ Show(card[i], e) \in CardImpl!Change(card[i]) \cup {card[i]}
  PROVE  Moves(i)
  <1>1. card'[i] = IF SendsOn(i) THEN Show(card[i], e) ELSE card[i]
    BY DEF Emit, CInv
  <1>2. card' = [card EXCEPT ![i] = card'[i]]
    BY <1>1 DEF Emit, CInv
  <1>3. card'[i] \in CardImpl!Change(card[i]) \cup {card[i]}
    BY <1>1
  <1>4. card'[i] \in CardImpl!Shown
    BY <1>3 DEF CardImpl!Change, CInv, Local
  <1>5. h'[i].gw <= gen'
    BY DEF CInv, Local, gvars
  <1>6. Alive(h[i].gw)' => Match(h'[i], card'[i])
    BY <1>1, SameSession
  <1>. QED
    BY <1>2, <1>3, <1>4, <1>5, <1>6 DEF Moves, Local, Match, Is

LEMMA FramesSent ==
  ASSUME NEW i \in Inv, CInv, UNCHANGED gvars, NEW e, NEW f,
         h' = [h EXCEPT ![i] = h'[i]], h'[i] \in Runs,
         h'[i].gw = h[i].gw, h'[i].pc \notin {"idle", "check", "reset", "start"},
         Emit2(i, e, f),
         SendsOn(i) => /\ Match(h'[i], Show(Show(card[i], e), f))
                       /\ Show(Show(card[i], e), f) \in CardImpl!Change(card[i]) \cup {card[i]}
  PROVE  Moves(i)
  <1>1. card'[i] = IF SendsOn(i) THEN Show(Show(card[i], e), f) ELSE card[i]
    BY DEF Emit2, CInv
  <1>2. card' = [card EXCEPT ![i] = card'[i]]
    BY <1>1 DEF Emit2, CInv
  <1>3. card'[i] \in CardImpl!Change(card[i]) \cup {card[i]}
    BY <1>1
  <1>4. card'[i] \in CardImpl!Shown
    BY <1>3 DEF CardImpl!Change, CInv, Local
  <1>5. h'[i].gw <= gen'
    BY DEF CInv, Local, gvars
  <1>6. Alive(h[i].gw)' => Match(h'[i], card'[i])
    BY <1>1, SameSession
  <1>. QED
    BY <1>2, <1>3, <1>4, <1>5, <1>6 DEF Moves, Local, Match, Is

LEMMA NothingSent ==
  ASSUME NEW i \in Inv, CInv, UNCHANGED <<gvars, card>>,
         h' = [h EXCEPT ![i] = h'[i]], h'[i] \in Runs,
         h'[i].gw = h[i].gw, h'[i].pc \notin {"idle", "check", "reset", "start"},
         SendsOn(i) => Match(h'[i], card[i])
  PROVE  Moves(i)
  <1>1. Alive(h[i].gw)' => Match(h'[i], card'[i])
    BY SameSession
  <1>2. h'[i].gw <= gen' /\ card' = [card EXCEPT ![i] = card'[i]]
    BY DEF CInv, Local, gvars
  <1>. QED
    BY <1>1, <1>2 DEF Moves, Local, CInv

-----------------------------------------------------------------------------
(* One lemma per step of a command. *)

R(early, state, open, replies) ==
  [state |-> state, open |-> open, early |-> early, replies |-> replies]

\* What each frame makes of a card.
LEMMA Showing ==
  ASSUME NEW c \in CardImpl!Shown
  PROVE  /\ Show(c, "start") = R(c.early, "running", c.open, c.replies)
         /\ Show(c, "open") = R(c.early, c.state, c.open + 1, c.replies)
         /\ Show(c, "close") = R(c.early, c.state, c.open - 1, c.replies)
         /\ Show(c, "reply") = R(c.early, c.state, c.open, c.replies + 1)
         /\ Show(c, "complete") = R(c.early, "complete", c.open, c.replies)
         /\ Show(c, "failed") = R(c.early, "failed", c.open, c.replies)
         /\ Show(c, "note") = c
         /\ Show(c, "early") = [c EXCEPT !.early = @ + 1]
  BY DEF Show, R, CardImpl!Shown

\* The changes that a card may make, by the state it is in.
LEMMA Changing ==
  ASSUME NEW c \in CardImpl!Shown, NEW d \in CardImpl!Shown, d.replies >= c.replies,
         d.early = c.early,
         d.state # "running" => d.open = 0,
         \/ c.state = "none" /\ d.state \in {"none", "running"}
         \/ c.state = "running" /\ d.state \in {"running", "complete", "failed"}
         \/ d.state = c.state
  PROVE  d \in CardImpl!Change(c)
  BY DEF CardImpl!Change, CardImpl!Follows, CardImpl!Shown

LEMMA Whereabouts ==
  ASSUME NEW i \in Inv, CInv
  PROVE  /\ h[i] \in Runs /\ card[i] \in CardImpl!Shown /\ (SendsOn(i) => Match(h[i], card[i]))
         /\ h[i].pc \in {"idle", "check", "reset", "start"} => Match(h[i], card[i])
  BY DEF CInv, Local, SendsOn

\* The goroutine goes on at pc with nothing else changed.
LEMMA Going ==
  ASSUME NEW i \in Inv, CInv, NEW pc \in Pcs, Go(i, pc)
  PROVE  /\ h' = [h EXCEPT ![i] = h'[i]] /\ h'[i] = [h[i] EXCEPT !.pc = pc]
         /\ h'[i] \in Runs /\ h'[i].gw = h[i].gw /\ h'[i].pc = pc
  <1>1. h' = [h EXCEPT ![i] = h'[i]] /\ h'[i] = [h[i] EXCEPT !.pc = pc]
    BY DEF Go, CInv
  <1>. QED
    BY <1>1, Whereabouts DEF Runs

LEMMA Counters ==
  ASSUME NEW i \in Inv, CInv
  PROVE  /\ h[i] \in Runs /\ h[i].at + 1 \in Nat /\ h[i].iter \in Nat /\ h[i].iter + 1 \in Nat
         /\ h[i].calls - 1 \in Int
  BY Whereabouts DEF Runs

LEMMA CallToolMoves ==
  ASSUME NEW i \in Inv, CInv, CallTool(i)
  PROVE  Moves(i)
  <1>1. h[i].pc = "phase" /\ Go(i, "call") /\ Emit(i, "open") /\ UNCHANGED gvars
    BY DEF CallTool, More
  <1>2. /\ h' = [h EXCEPT ![i] = h'[i]] /\ h'[i] \in Runs
        /\ h'[i].gw = h[i].gw /\ h'[i].pc = "call"
    BY <1>1, Going DEF Pcs
  <1>3. SendsOn(i) => Is(card[i], "running", 0, 0)
    BY <1>1, Whereabouts DEF Match
  <1>4. SendsOn(i) => Show(card[i], "open") = R(card[i].early, "running", 1, 0)
    BY <1>3, Whereabouts, Showing DEF Is
  <1>5. SendsOn(i) => Match(h'[i], Show(card[i], "open"))
    BY <1>2, <1>4 DEF Match, Is, R
  <1>6. SendsOn(i) => Show(card[i], "open") \in CardImpl!Change(card[i])
    BY <1>3, <1>4, Whereabouts, Changing DEF Is, R, CardImpl!Shown
  <1>. QED
    BY <1>1, <1>2, <1>5, <1>6, FrameSent

LEMMA ToolResultMoves ==
  ASSUME NEW i \in Inv, CInv, ToolResult(i)
  PROVE  Moves(i)
  <1>1. /\ h[i].pc = "call" /\ h' = [h EXCEPT ![i].pc = "phase", ![i].at = @ + 1]
        /\ Emit(i, "close") /\ UNCHANGED gvars
    BY DEF ToolResult
  <1>2. PICK n \in Nat : n = h[i].at + 1
    BY Counters
  <1>3. h' = [h EXCEPT ![i] = h'[i]] /\ h'[i] = [h[i] EXCEPT !.pc = "phase", !.at = n]
    BY <1>1, <1>2 DEF CInv
  <1>4. /\ h' = [h EXCEPT ![i] = h'[i]] /\ h'[i] \in Runs
        /\ h'[i].gw = h[i].gw /\ h'[i].pc = "phase"
    BY <1>3, Whereabouts DEF Runs, Pcs
  <1>5. SendsOn(i) => Is(card[i], "running", 1, 0)
    BY <1>1, Whereabouts DEF Match
  <1>6. SendsOn(i) => Show(card[i], "close") = R(card[i].early, "running", 0, 0)
    BY <1>5, Whereabouts, Showing DEF Is
  <1>7. SendsOn(i) => Match(h'[i], Show(card[i], "close"))
    BY <1>4, <1>6 DEF Match, Is, R
  <1>8. SendsOn(i) => Show(card[i], "close") \in CardImpl!Change(card[i])
    BY <1>5, <1>6, Whereabouts, Changing DEF Is, R, CardImpl!Shown
  <1>. QED
    BY <1>1, <1>4, <1>7, <1>8, FrameSent

LEMMA ToolFailedMoves ==
  ASSUME NEW i \in Inv, CInv, ToolFailed(i)
  PROVE  Moves(i)
  <1>1. /\ h[i].pc = "call" /\ Emit(i, "close") /\ UNCHANGED gvars
        /\ \/ h' = [h EXCEPT ![i].pc = "failing"]
           \/ h' = [h EXCEPT ![i].pc = "phase", ![i].at = @ + 1]
    BY DEF ToolFailed
  <1>2. /\ h' = [h EXCEPT ![i] = h'[i]] /\ h'[i] \in Runs
        /\ h'[i].gw = h[i].gw /\ h'[i].pc \in {"phase", "failing"}
    BY <1>1, Whereabouts DEF CInv, Runs, Pcs
  <1>3. SendsOn(i) => Is(card[i], "running", 1, 0)
    BY <1>1, Whereabouts DEF Match
  <1>4. SendsOn(i) => Show(card[i], "close") = R(card[i].early, "running", 0, 0)
    BY <1>3, Whereabouts, Showing DEF Is
  <1>5. SendsOn(i) => Match(h'[i], Show(card[i], "close"))
    BY <1>2, <1>4 DEF Match, Is, R
  <1>6. SendsOn(i) => Show(card[i], "close") \in CardImpl!Change(card[i])
    BY <1>3, <1>4, Whereabouts, Changing DEF Is, R, CardImpl!Shown
  <1>. QED
    BY <1>1, <1>2, <1>5, <1>6, FrameSent

LEMMA AskToolDoneMoves ==
  ASSUME NEW i \in Inv, CInv, AskToolDone(i)
  PROVE  Moves(i)
  <1>1. /\ h[i].pc = "tool" /\ h' = [h EXCEPT ![i].pc = "tools", ![i].calls = @ - 1]
        /\ Emit(i, "close") /\ UNCHANGED gvars
    BY DEF AskToolDone
  <1>2. PICK n \in Int : n = h[i].calls - 1
    BY Counters
  <1>3. h' = [h EXCEPT ![i] = h'[i]] /\ h'[i] = [h[i] EXCEPT !.pc = "tools", !.calls = n]
    BY <1>1, <1>2 DEF CInv
  <1>4. /\ h' = [h EXCEPT ![i] = h'[i]] /\ h'[i] \in Runs
        /\ h'[i].gw = h[i].gw /\ h'[i].pc = "tools" /\ h'[i].terminated = h[i].terminated
    BY <1>3, Whereabouts DEF Runs, Pcs
  <1>5. SendsOn(i) => Is(card[i], "running", 1, 0) /\ ~h[i].terminated
    BY <1>1, Whereabouts DEF Match
  <1>6. SendsOn(i) => Show(card[i], "close") = R(card[i].early, "running", 0, 0)
    BY <1>5, Whereabouts, Showing DEF Is
  <1>7. SendsOn(i) => Match(h'[i], Show(card[i], "close"))
    BY <1>4, <1>5, <1>6 DEF Match, Is, R
  <1>8. SendsOn(i) => Show(card[i], "close") \in CardImpl!Change(card[i])
    BY <1>5, <1>6, Whereabouts, Changing DEF Is, R, CardImpl!Shown
  <1>. QED
    BY <1>1, <1>4, <1>7, <1>8, FrameSent

LEMMA CompletedMoves ==
  ASSUME NEW i \in Inv, CInv, Completed(i)
  PROVE  Moves(i)
  <1>1. /\ h[i].pc = "phase" /\ h' = [h EXCEPT ![i].terminated = TRUE, ![i].pc = "answer"]
        /\ Emit(i, "complete") /\ UNCHANGED gvars
    BY DEF Completed, Terminal
  <1>2. /\ h' = [h EXCEPT ![i] = h'[i]] /\ h'[i] \in Runs
        /\ h'[i].gw = h[i].gw /\ h'[i].pc = "answer"
    BY <1>1, Whereabouts DEF CInv, Runs, Pcs
  <1>3. SendsOn(i) => Is(card[i], "running", 0, 0)
    BY <1>1, Whereabouts DEF Match
  <1>4. SendsOn(i) => Show(card[i], "complete") = R(card[i].early, "complete", 0, 0)
    BY <1>3, Whereabouts, Showing DEF Is
  <1>5. SendsOn(i) => Match(h'[i], Show(card[i], "complete"))
    BY <1>2, <1>4 DEF Match, Is, R
  <1>6. SendsOn(i) => Show(card[i], "complete") \in CardImpl!Change(card[i])
    BY <1>3, <1>4, Whereabouts, Changing DEF Is, R, CardImpl!Shown
  <1>. QED
    BY <1>1, <1>2, <1>5, <1>6, FrameSent

LEMMA FailedMoves ==
  ASSUME NEW i \in Inv, CInv, Failed(i)
  PROVE  Moves(i)
  <1>1. /\ h[i].pc = "failing" /\ h' = [h EXCEPT ![i].terminated = TRUE, ![i].pc = "answer"]
        /\ Emit(i, "failed") /\ UNCHANGED gvars
    BY DEF Failed, Terminal
  <1>2. /\ h' = [h EXCEPT ![i] = h'[i]] /\ h'[i] \in Runs
        /\ h'[i].gw = h[i].gw /\ h'[i].pc = "answer"
    BY <1>1, Whereabouts DEF CInv, Runs, Pcs
  <1>3. SendsOn(i) => Is(card[i], "running", 0, 0)
    BY <1>1, Whereabouts DEF Match
  <1>4. SendsOn(i) => Show(card[i], "failed") = R(card[i].early, "failed", 0, 0)
    BY <1>3, Whereabouts, Showing DEF Is
  <1>5. SendsOn(i) => Match(h'[i], Show(card[i], "failed"))
    BY <1>2, <1>4 DEF Match, Is, R
  <1>6. SendsOn(i) => Show(card[i], "failed") \in CardImpl!Change(card[i])
    BY <1>3, <1>4, Whereabouts, Changing DEF Is, R, CardImpl!Shown
  <1>. QED
    BY <1>1, <1>2, <1>5, <1>6, FrameSent

LEMMA TrailMoves ==
  ASSUME NEW i \in Inv, CInv, Trail(i)
  PROVE  Moves(i)
  <1>1. /\ h[i].pc = "trail" /\ Emit(i, "complete") /\ UNCHANGED gvars
        /\ \E pc \in {"deferred", "done"} : h' = [h EXCEPT ![i].terminated = TRUE, ![i].pc = pc]
    BY DEF Trail, Terminal
  <1>2. PICK pc \in {"deferred", "done"} : h' = [h EXCEPT ![i].terminated = TRUE, ![i].pc = pc]
    BY <1>1
  <1>3. h' = [h EXCEPT ![i] = h'[i]] /\ h'[i] = [h[i] EXCEPT !.pc = pc, !.terminated = TRUE]
    BY <1>2 DEF CInv
  <1>4. /\ h' = [h EXCEPT ![i] = h'[i]] /\ h'[i] \in Runs
        /\ h'[i].gw = h[i].gw /\ h'[i].pc \in {"deferred", "done"} /\ h'[i].terminated
    BY <1>3, Whereabouts DEF Runs, Pcs
  <1>5. SendsOn(i) => Is(card[i], "complete", 0, 1)
    BY <1>1, Whereabouts DEF Match
  <1>6. SendsOn(i) => Show(card[i], "complete") = R(card[i].early, "complete", 0, 1)
    BY <1>5, Whereabouts, Showing DEF Is
  <1>7. SendsOn(i) => Match(h'[i], Show(card[i], "complete"))
    BY <1>4, <1>6 DEF Match, Is, R
  <1>8. SendsOn(i) => Show(card[i], "complete") \in CardImpl!Change(card[i])
    BY <1>5, <1>6, Whereabouts, Changing DEF Is, R, CardImpl!Shown
  <1>. QED
    BY <1>1, <1>4, <1>7, <1>8, FrameSent

LEMMA LastAnswerMoves ==
  ASSUME NEW i \in Inv, CInv, LastAnswer(i)
  PROVE  Moves(i)
  <1>1. h[i].pc = "answer" /\ Go(i, "done") /\ Emit(i, "reply") /\ UNCHANGED gvars
    BY DEF LastAnswer
  <1>2. /\ h' = [h EXCEPT ![i] = h'[i]] /\ h'[i] \in Runs
        /\ h'[i].gw = h[i].gw /\ h'[i].pc = "done"
    BY <1>1, Going DEF Pcs
  <1>3. SendsOn(i) => /\ card[i].state \in {"none", "complete", "failed"}
                      /\ card[i].open = 0 /\ card[i].replies = 0
    BY <1>1, Whereabouts DEF Match
  <1>4. SendsOn(i) => Show(card[i], "reply") = R(card[i].early, card[i].state, 0, 1)
    BY <1>3, Whereabouts, Showing
  <1>5. SendsOn(i) => Match(h'[i], Show(card[i], "reply"))
    BY <1>2 DEF Match
  <1>6. SendsOn(i) => Show(card[i], "reply") \in CardImpl!Change(card[i])
    BY <1>3, <1>4, Whereabouts, Changing DEF R, CardImpl!Shown
  <1>. QED
    BY <1>1, <1>2, <1>5, <1>6, FrameSent

LEMMA NoteMoves ==
  ASSUME NEW i \in Inv, CInv, Note(i)
  PROVE  Moves(i)
  <1>1. h[i].pc = "phase" /\ h' = [h EXCEPT ![i].at = @ + 1] /\ Emit(i, "note") /\ UNCHANGED gvars
    BY DEF Note, More
  <1>2. /\ h' = [h EXCEPT ![i] = h'[i]] /\ h'[i] \in Runs
        /\ h'[i].gw = h[i].gw /\ h'[i].pc = "phase"
    BY <1>1, Whereabouts DEF CInv, Runs
  <1>3. Show(card[i], "note") = card[i]
    BY Whereabouts, Showing
  <1>4. SendsOn(i) => Match(h'[i], card[i])
    BY <1>1, <1>2, Whereabouts DEF Match
  <1>. QED
    BY <1>1, <1>2, <1>3, <1>4, FrameSent

LEMMA ParseMoves ==
  ASSUME NEW i \in Inv, CInv, Parse(i)
  PROVE  Moves(i)
  <1>1. /\ h[i].pc = "phase" /\ UNCHANGED <<gvars, card>>
        /\ h' = [h EXCEPT ![i].at = @ + 1] \/ h' = [h EXCEPT ![i].pc = "failing"]
    BY DEF Parse, More, Go
  <1>2. /\ h' = [h EXCEPT ![i] = h'[i]] /\ h'[i] \in Runs
        /\ h'[i].gw = h[i].gw /\ h'[i].pc \in {"phase", "failing"}
    BY <1>1, Whereabouts DEF CInv, Runs, Pcs
  <1>3. SendsOn(i) => Match(h'[i], card[i])
    BY <1>1, <1>2, Whereabouts DEF Match
  <1>. QED
    BY <1>1, <1>2, <1>3, NothingSent

\* FirstCloses: the reasoning step, which is open in the first round only, ends.
LEMMA FirstCloseMoves ==
  ASSUME NEW i \in Inv, CInv, h[i].pc = "model", UNCHANGED gvars, FirstCloses(i),
         h' = [h EXCEPT ![i] = h'[i]], h'[i] \in Runs, h'[i].gw = h[i].gw,
         h'[i].pc \in {"failing", "tools", "final"}, h'[i].terminated = h[i].terminated
  PROVE  Moves(i)
  <1>1. h[i].iter \in Nat /\ card[i] \in CardImpl!Shown
    BY Whereabouts, Counters
  <1>2. SendsOn(i) => /\ Is(card[i], "running", IF h[i].iter = 0 THEN 1 ELSE 0, 0)
                      /\ ~h[i].terminated
    BY Whereabouts DEF Match
  <1>3. CASE h[i].iter = 0
    <2>1. Emit(i, "close")
      BY <1>3 DEF FirstCloses
    <2>2. SendsOn(i) => Show(card[i], "close") = R(card[i].early, "running", 0, 0)
      BY <1>1, <1>2, <1>3, Showing DEF Is
    <2>3. SendsOn(i) => Match(h'[i], Show(card[i], "close"))
      BY <1>2, <2>2 DEF Match, Is, R
    <2>4. SendsOn(i) => Show(card[i], "close") \in CardImpl!Change(card[i])
      BY <1>1, <1>2, <2>2, Changing DEF Is, R, CardImpl!Shown
    <2>. QED
      BY <2>1, <2>3, <2>4, FrameSent
  <1>4. CASE h[i].iter # 0
    <2>1. UNCHANGED card
      BY <1>4 DEF FirstCloses
    <2>2. SendsOn(i) => Match(h'[i], card[i])
      BY <1>2, <1>4 DEF Match, Is
    <2>. QED
      BY <2>1, <2>2, NothingSent
  <1>. QED
    BY <1>3, <1>4

LEMMA ModelCallsMoves ==
  ASSUME NEW i \in Inv, CInv, ModelCalls(i)
  PROVE  Moves(i)
  <1>1. PICK n \in 1..MaxCalls : h' = [h EXCEPT ![i].pc = "tools", ![i].calls = n]
    BY DEF ModelCalls
  <1>2. h[i].pc = "model" /\ UNCHANGED gvars /\ FirstCloses(i) /\ n \in Int
    BY CommandBounds DEF ModelCalls
  <1>3. h' = [h EXCEPT ![i] = h'[i]] /\ h'[i] = [h[i] EXCEPT !.pc = "tools", !.calls = n]
    BY <1>1 DEF CInv
  <1>4. /\ h'[i] \in Runs /\ h'[i].gw = h[i].gw /\ h'[i].pc = "tools"
        /\ h'[i].terminated = h[i].terminated
    BY <1>2, <1>3, Whereabouts DEF Runs, Pcs
  <1>. QED
    BY <1>2, <1>3, <1>4, FirstCloseMoves

LEMMA ModelAnswersMoves ==
  ASSUME NEW i \in Inv, CInv, ModelAnswers(i)
  PROVE  Moves(i)
  <1>1. h[i].pc = "model" /\ UNCHANGED gvars /\ FirstCloses(i) /\ Go(i, "final")
    BY DEF ModelAnswers
  <1>2. /\ h' = [h EXCEPT ![i] = h'[i]] /\ h'[i] = [h[i] EXCEPT !.pc = "final"]
        /\ h'[i] \in Runs /\ h'[i].gw = h[i].gw /\ h'[i].pc = "final"
    BY <1>1, Going DEF Pcs
  <1>3. h'[i].terminated = h[i].terminated
    BY <1>2, Whereabouts DEF Runs
  <1>. QED
    BY <1>1, <1>2, <1>3, FirstCloseMoves

LEMMA ModelFailsMoves ==
  ASSUME NEW i \in Inv, CInv, ModelFails(i)
  PROVE  Moves(i)
  <1>1. h[i].pc = "model" /\ UNCHANGED gvars
    BY DEF ModelFails
  <1>2. CASE Kind(i) = "ask"
    <2>1. Go(i, "failing") /\ FirstCloses(i)
      BY <1>2 DEF ModelFails
    <2>2. /\ h' = [h EXCEPT ![i] = h'[i]] /\ h'[i] = [h[i] EXCEPT !.pc = "failing"]
          /\ h'[i] \in Runs /\ h'[i].gw = h[i].gw /\ h'[i].pc = "failing"
      BY <2>1, Going DEF Pcs
    <2>3. h'[i].terminated = h[i].terminated
      BY <2>2, Whereabouts DEF Runs
    <2>. QED
      BY <1>1, <2>1, <2>2, <2>3, FirstCloseMoves
  <1>3. CASE Kind(i) # "ask"
    <2>1. /\ Go(i, "deferred")
          /\ IF h[i].iter = 0 THEN Emit2(i, "close", "reply") ELSE Emit(i, "reply")
      BY <1>3 DEF ModelFails
    <2>2. /\ h' = [h EXCEPT ![i] = h'[i]] /\ h'[i] = [h[i] EXCEPT !.pc = "deferred"]
          /\ h'[i] \in Runs /\ h'[i].gw = h[i].gw /\ h'[i].pc = "deferred"
      BY <2>1, Going DEF Pcs
    <2>3. h'[i].terminated = h[i].terminated
      BY <2>2, Whereabouts DEF Runs
    <2>4. SendsOn(i) => /\ Is(card[i], "running", IF h[i].iter = 0 THEN 1 ELSE 0, 0)
                        /\ ~h[i].terminated
      BY <1>1, Whereabouts DEF Match
    <2>5. ASSUME NEW d, d = R(card[i].early, "running", 0, 1), SendsOn(i)
          PROVE  Match(h'[i], d) /\ d \in CardImpl!Change(card[i])
      <3>1. Match(h'[i], d)
        BY <2>2, <2>3, <2>4, <2>5 DEF Match, Is, R
      <3>2. d \in CardImpl!Change(card[i])
        BY <2>4, <2>5, Whereabouts, Changing DEF Is, R, CardImpl!Shown
      <3>. QED
        BY <3>1, <3>2
    <2>6. CASE h[i].iter = 0
      <3>1. SendsOn(i) => Show(card[i], "close") = R(card[i].early, "running", 0, 0)
        BY <2>4, <2>6, Whereabouts, Showing DEF Is
      <3>2. R(card[i].early, "running", 0, 0) \in CardImpl!Shown
        BY Whereabouts DEF R, CardImpl!Shown
      <3>3. Show(R(card[i].early, "running", 0, 0), "reply") = R(card[i].early, "running", 0, 1)
        BY <3>2, Showing DEF R
      <3>4. SendsOn(i) => Show(Show(card[i], "close"), "reply") = R(card[i].early, "running", 0, 1)
        BY <3>1, <3>3
      <3>5. SendsOn(i) => /\ Match(h'[i], Show(Show(card[i], "close"), "reply"))
                          /\ Show(Show(card[i], "close"), "reply") \in CardImpl!Change(card[i])
        BY <2>5, <3>4
      <3>. QED
        BY <1>1, <2>1, <2>2, <2>6, <3>5, FramesSent
    <2>7. CASE h[i].iter # 0
      <3>1. SendsOn(i) => Show(card[i], "reply") = R(card[i].early, "running", 0, 1)
        BY <2>4, <2>7, Whereabouts, Showing DEF Is
      <3>2. SendsOn(i) => /\ Match(h'[i], Show(card[i], "reply"))
                          /\ Show(card[i], "reply") \in CardImpl!Change(card[i])
        BY <2>5, <3>1
      <3>. QED
        BY <1>1, <2>1, <2>2, <2>7, <3>2, FrameSent
    <2>. QED
      BY <2>6, <2>7
  <1>. QED
    BY <1>2, <1>3

LEMMA AskToolMoves ==
  ASSUME NEW i \in Inv, CInv, AskTool(i)
  PROVE  Moves(i)
  <1>1. /\ h[i].pc = "tools" /\ UNCHANGED gvars
        /\ \/ h' = [h EXCEPT ![i].calls = @ - 1] /\ UNCHANGED card
           \/ Go(i, "tool") /\ Emit(i, "open")
    BY DEF AskTool
  <1>2. SendsOn(i) => Is(card[i], "running", 0, 0) /\ ~h[i].terminated
    BY <1>1, Whereabouts DEF Match
  <1>3. CASE h' = [h EXCEPT ![i].calls = @ - 1] /\ UNCHANGED card
    <2>1. PICK n \in Int : n = h[i].calls - 1
      BY Counters
    <2>2. h' = [h EXCEPT ![i] = h'[i]] /\ h'[i] = [h[i] EXCEPT !.calls = n]
      BY <1>3, <2>1 DEF CInv
    <2>3. /\ h'[i] \in Runs /\ h'[i].gw = h[i].gw /\ h'[i].pc = "tools"
          /\ h'[i].terminated = h[i].terminated
      BY <1>1, <2>2, Whereabouts DEF Runs
    <2>4. SendsOn(i) => Match(h'[i], card[i])
      BY <1>2, <2>3 DEF Match
    <2>. QED
      BY <1>1, <1>3, <2>2, <2>3, <2>4, NothingSent
  <1>4. CASE Go(i, "tool") /\ Emit(i, "open")
    <2>1. /\ h' = [h EXCEPT ![i] = h'[i]] /\ h'[i] = [h[i] EXCEPT !.pc = "tool"]
          /\ h'[i] \in Runs /\ h'[i].gw = h[i].gw /\ h'[i].pc = "tool"
      BY <1>4, Going DEF Pcs
    <2>2. h'[i].terminated = h[i].terminated
      BY <2>1, Whereabouts DEF Runs
    <2>3. SendsOn(i) => Show(card[i], "open") = R(card[i].early, "running", 1, 0)
      BY <1>2, Whereabouts, Showing DEF Is
    <2>4. SendsOn(i) => Match(h'[i], Show(card[i], "open"))
      BY <1>2, <2>1, <2>2, <2>3 DEF Match, Is, R
    <2>5. SendsOn(i) => Show(card[i], "open") \in CardImpl!Change(card[i])
      BY <1>2, <2>3, Whereabouts, Changing DEF Is, R, CardImpl!Shown
    <2>. QED
      BY <1>1, <1>4, <2>1, <2>4, <2>5, FrameSent
  <1>. QED
    BY <1>1, <1>3, <1>4

LEMMA NextRoundMoves ==
  ASSUME NEW i \in Inv, CInv, NextRound(i)
  PROVE  Moves(i)
  <1>1. PICK pc \in {"model", "failing", "final"} :
          h' = [h EXCEPT ![i].iter = @ + 1, ![i].pc = pc]
    BY DEF NextRound
  <1>2. h[i].pc = "tools" /\ UNCHANGED <<gvars, card>>
    BY DEF NextRound
  <1>3. PICK n \in Nat : n = h[i].iter + 1
    BY Counters
  <1>4. h' = [h EXCEPT ![i] = h'[i]] /\ h'[i] = [h[i] EXCEPT !.iter = n, !.pc = pc]
    BY <1>1, <1>3 DEF CInv
  <1>5. /\ h'[i] \in Runs /\ h'[i].gw = h[i].gw /\ h'[i].pc = pc /\ h'[i].iter = n
        /\ h'[i].terminated = h[i].terminated
    BY <1>4, Whereabouts DEF Runs, Pcs
  <1>6. SendsOn(i) => Is(card[i], "running", 0, 0) /\ ~h[i].terminated
    BY <1>2, Whereabouts DEF Match
  <1>7. n # 0
    BY <1>3, Counters
  <1>8. SendsOn(i) => Match(h'[i], card[i])
    BY <1>5, <1>6, <1>7 DEF Match, Is
  <1>. QED
    BY <1>2, <1>4, <1>5, <1>8, NothingSent

LEMMA FinalMoves ==
  ASSUME NEW i \in Inv, CInv, Final(i)
  PROVE  Moves(i)
  <1>1. /\ h[i].pc = "final" /\ h' = [h EXCEPT ![i].pc = "trail", ![i].terminated = TRUE]
        /\ Emit2(i, "reply", "complete") /\ UNCHANGED gvars
    BY DEF Final
  <1>2. h' = [h EXCEPT ![i] = h'[i]] /\ h'[i] = [h[i] EXCEPT !.pc = "trail", !.terminated = TRUE]
    BY <1>1 DEF CInv
  <1>3. h'[i] \in Runs /\ h'[i].gw = h[i].gw /\ h'[i].pc = "trail"
    BY <1>2, Whereabouts DEF Runs, Pcs
  <1>4. SendsOn(i) => Is(card[i], "running", 0, 0)
    BY <1>1, Whereabouts DEF Match
  <1>5. SendsOn(i) => Show(card[i], "reply") = R(card[i].early, "running", 0, 1)
    BY <1>4, Whereabouts, Showing DEF Is
  <1>6. R(card[i].early, "running", 0, 1) \in CardImpl!Shown
    BY Whereabouts DEF R, CardImpl!Shown
  <1>7. Show(R(card[i].early, "running", 0, 1), "complete") = R(card[i].early, "complete", 0, 1)
    BY <1>6, Showing DEF R
  <1>8. SendsOn(i) => Show(Show(card[i], "reply"), "complete") = R(card[i].early, "complete", 0, 1)
    BY <1>5, <1>7
  <1>9. SendsOn(i) => Match(h'[i], Show(Show(card[i], "reply"), "complete"))
    BY <1>3, <1>8 DEF Match, Is, R
  <1>10. SendsOn(i) => Show(Show(card[i], "reply"), "complete") \in CardImpl!Change(card[i])
    BY <1>4, <1>8, Whereabouts, Changing DEF Is, R, CardImpl!Shown
  <1>. QED
    BY <1>1, <1>2, <1>3, <1>9, <1>10, FramesSent

\* The deferred function fails a card that was answered with an error, and
\* leaves one alone that has its terminal state.
LEMMA DeferredMoves ==
  ASSUME NEW i \in Inv, CInv, Deferred(i)
  PROVE  Moves(i)
  <1>1. h[i].pc = "deferred"
    BY DEF Deferred
  <1>2. CASE h[i].terminated
    <2>1. Go(i, "done") /\ UNCHANGED <<gvars, card>>
      BY <1>2 DEF Deferred, IsTerminated
    <2>2. /\ h' = [h EXCEPT ![i] = h'[i]] /\ h'[i] \in Runs
          /\ h'[i].gw = h[i].gw /\ h'[i].pc = "done"
      BY <2>1, Going DEF Pcs
    <2>3. Match(h'[i], card[i])
      BY <2>2 DEF Match
    <2>. QED
      BY <2>1, <2>2, <2>3, NothingSent
  <1>3. CASE ~h[i].terminated
    <2>1. /\ h' = [h EXCEPT ![i].terminated = TRUE, ![i].pc = "done"]
          /\ Emit(i, "failed") /\ UNCHANGED gvars
      BY <1>3 DEF Deferred, IsTerminated, Terminal
    <2>2. h' = [h EXCEPT ![i] = h'[i]] /\ h'[i] = [h[i] EXCEPT !.terminated = TRUE, !.pc = "done"]
      BY <2>1 DEF CInv
    <2>3. h'[i] \in Runs /\ h'[i].gw = h[i].gw /\ h'[i].pc = "done"
      BY <2>2, Whereabouts DEF Runs, Pcs
    <2>4. SendsOn(i) => Is(card[i], "running", 0, 1)
      BY <1>1, <1>3, Whereabouts DEF Match
    <2>5. SendsOn(i) => Show(card[i], "failed") = R(card[i].early, "failed", 0, 1)
      BY <2>4, Whereabouts, Showing DEF Is
    <2>6. Match(h'[i], Show(card[i], "failed"))
      BY <2>3 DEF Match
    <2>7. SendsOn(i) => Show(card[i], "failed") \in CardImpl!Change(card[i])
      BY <2>4, <2>5, Whereabouts, Changing DEF Is, R, CardImpl!Shown
    <2>. QED
      BY <2>1, <2>2, <2>3, <2>6, <2>7, FrameSent
  <1>. QED
    BY <1>2, <1>3

LEMMA StartMoves ==
  ASSUME NEW i \in Inv, CInv, Start(i)
  PROVE  Moves(i)
  <1>1. /\ h[i].pc = "start" /\ UNCHANGED gvars
        /\ \/ ~SendsOn(i) /\ Go(i, "done") /\ UNCHANGED card
           \/ Asks(i) /\ Emit2(i, "start", "open") /\ Go(i, "model")
           \/ Emit(i, "start") /\ Go(i, "phase")
    BY DEF Start
  <1>2. Is(card[i], "none", 0, 0) /\ ~h[i].terminated
    BY <1>1, Whereabouts DEF Match
  <1>3. Show(card[i], "start") = R(card[i].early, "running", 0, 0)
    BY <1>2, Whereabouts, Showing DEF Is
  <1>4. CASE ~SendsOn(i) /\ Go(i, "done") /\ UNCHANGED card
    <2>1. /\ h' = [h EXCEPT ![i] = h'[i]] /\ h'[i] \in Runs
          /\ h'[i].gw = h[i].gw /\ h'[i].pc = "done"
      BY <1>4, Going DEF Pcs
    <2>. QED
      BY <1>1, <1>4, <2>1, NothingSent
  <1>5. CASE Emit(i, "start") /\ Go(i, "phase")
    <2>1. /\ h' = [h EXCEPT ![i] = h'[i]] /\ h'[i] \in Runs
          /\ h'[i].gw = h[i].gw /\ h'[i].pc = "phase"
      BY <1>5, Going DEF Pcs
    <2>2. Match(h'[i], Show(card[i], "start"))
      BY <1>3, <2>1 DEF Match, Is, R
    <2>3. Show(card[i], "start") \in CardImpl!Change(card[i])
      BY <1>2, <1>3, Whereabouts, Changing DEF Is, R, CardImpl!Shown
    <2>. QED
      BY <1>1, <1>5, <2>1, <2>2, <2>3, FrameSent
  <1>6. CASE Asks(i) /\ Emit2(i, "start", "open") /\ Go(i, "model")
    <2>1. /\ h' = [h EXCEPT ![i] = h'[i]] /\ h'[i] = [h[i] EXCEPT !.pc = "model"]
          /\ h'[i] \in Runs /\ h'[i].gw = h[i].gw /\ h'[i].pc = "model"
      BY <1>6, Going DEF Pcs
    <2>2. h'[i].terminated = h[i].terminated /\ h'[i].iter = h[i].iter
      BY <2>1, Whereabouts DEF Runs
    <2>3. R(card[i].early, "running", 0, 0) \in CardImpl!Shown
      BY Whereabouts DEF R, CardImpl!Shown
    <2>4. Show(R(card[i].early, "running", 0, 0), "open") = R(card[i].early, "running", 1, 0)
      BY <2>3, Showing DEF R
    <2>5. Show(Show(card[i], "start"), "open") = R(card[i].early, "running", 1, 0)
      BY <1>3, <2>4
    <2>6. h[i].iter = 0
      BY <1>1, Whereabouts DEF Match
    <2>7. Match(h'[i], Show(Show(card[i], "start"), "open"))
      BY <1>2, <2>1, <2>2, <2>5, <2>6 DEF Match, Is, R
    <2>8. Show(Show(card[i], "start"), "open") \in CardImpl!Change(card[i])
      BY <1>2, <2>5, Whereabouts, Changing DEF Is, R, CardImpl!Shown
    <2>. QED
      BY <1>1, <1>6, <2>1, <2>7, <2>8, FramesSent
  <1>. QED
    BY <1>1, <1>4, <1>5, <1>6

\* Until its card is started a command has sent nothing.
LEMMA BeginsBlank ==
  ASSUME NEW i \in Inv, CInv, h[i].pc \in {"idle", "check"}, UNCHANGED <<gen, card>>,
         h' = [h EXCEPT ![i] = h'[i]], h'[i] \in Runs, h'[i].gw <= gen,
         h'[i].pc \in {"check", "reset", "start", "answer", "done"}, h'[i].iter = 0, ~h'[i].terminated
  PROVE  Moves(i)
  <1>1. Is(card[i], "none", 0, 0) /\ card[i].early = 0
    BY Whereabouts DEF Match
  <1>2. Match(h'[i], card'[i])
    BY <1>1 DEF Match, Is
  <1>3. card' = [card EXCEPT ![i] = card'[i]]
    BY DEF CInv
  <1>. QED
    BY <1>2, <1>3, Whereabouts DEF Moves, Local

LEMMA CheckMoves ==
  ASSUME NEW i \in Inv, CInv, Check(i)
  PROVE  Moves(i)
  <1>1. /\ h[i].pc = "check" /\ UNCHANGED <<gvars, card>>
        /\ \/ Go(i, "done") \/ Go(i, "answer") \/ Go(i, "start") \/ Go(i, "reset")
           \/ orcaGw # 0 /\ h' = [h EXCEPT ![i].pc = "start", ![i].gw = orcaGw]
    BY DEF Check, Go
  <1>2. h[i].iter = 0 /\ ~h[i].terminated /\ h[i].gw <= gen /\ UNCHANGED gen
    BY <1>1, Whereabouts DEF Match, CInv, Local, gvars
  <1>3. ASSUME NEW pc \in {"done", "answer", "start", "reset"}, Go(i, pc) PROVE Moves(i)
    <2>1. /\ h' = [h EXCEPT ![i] = h'[i]] /\ h'[i] = [h[i] EXCEPT !.pc = pc]
          /\ h'[i] \in Runs /\ h'[i].gw = h[i].gw /\ h'[i].pc = pc
      BY <1>3, Going DEF Pcs
    <2>2. h'[i].iter = 0 /\ ~h'[i].terminated
      BY <1>2, <2>1, Whereabouts DEF Runs
    <2>. QED
      BY <1>1, <1>2, <2>1, <2>2, BeginsBlank
  <1>4. CASE orcaGw # 0 /\ h' = [h EXCEPT ![i].pc = "start", ![i].gw = orcaGw]
    <2>1. orcaGw \in 0..MaxSessions /\ orcaGw <= gen
      BY <1>4, SessionBounds DEF CInv, GInv
    <2>2. h' = [h EXCEPT ![i] = h'[i]] /\ h'[i] = [h[i] EXCEPT !.pc = "start", !.gw = orcaGw]
      BY <1>4 DEF CInv
    <2>3. /\ h'[i] \in Runs /\ h'[i].gw = orcaGw /\ h'[i].pc = "start"
          /\ h'[i].iter = h[i].iter /\ h'[i].terminated = h[i].terminated
      BY <2>1, <2>2, Whereabouts DEF Runs, Pcs
    <2>. QED
      BY <1>1, <1>2, <2>1, <2>2, <2>3, BeginsBlank
  <1>. QED
    BY <1>1, <1>3, <1>4

\* The notice of a reset thread is shown before the card.
LEMMA ResetMoves ==
  ASSUME NEW i \in Inv, CInv, Reset(i)
  PROVE  Moves(i)
  <1>1. h[i].pc = "reset" /\ Go(i, "start") /\ Emit(i, "early") /\ UNCHANGED gvars
    BY DEF Reset
  <1>2. /\ h' = [h EXCEPT ![i] = h'[i]] /\ h'[i] = [h[i] EXCEPT !.pc = "start"]
        /\ h'[i] \in Runs /\ h'[i].gw = h[i].gw /\ h'[i].pc = "start"
    BY <1>1, Going DEF Pcs
  <1>3. h'[i].iter = 0 /\ ~h'[i].terminated
    BY <1>1, <1>2, Whereabouts DEF Match, Runs
  <1>4. Is(card[i], "none", 0, 0) /\ card[i].early = 0
    BY <1>1, Whereabouts DEF Match
  <1>5. Show(card[i], "early") = [card[i] EXCEPT !.early = 1]
    BY <1>4, Whereabouts, Showing
  <1>6. Show(card[i], "early") \in CardImpl!Shown
    BY <1>5, Whereabouts DEF CardImpl!Shown
  <1>7. Show(card[i], "early") \in CardImpl!Change(card[i])
    BY <1>4, <1>5, <1>6 DEF Is, CardImpl!Change, CardImpl!Noticed
  <1>8. Is(Show(card[i], "early"), "none", 0, 0)
    BY <1>4, <1>5, Whereabouts DEF Is, CardImpl!Shown
  <1>9. card'[i] = (IF SendsOn(i) THEN Show(card[i], "early") ELSE card[i])
        /\ card' = [card EXCEPT ![i] = card'[i]]
    BY <1>1 DEF Emit, CInv
  <1>10. Match(h'[i], card'[i])
    BY <1>2, <1>3, <1>4, <1>8, <1>9 DEF Match, Is
  <1>11. h'[i].gw <= gen'
    BY <1>1, <1>2 DEF CInv, Local, gvars
  <1>. QED
    BY <1>2, <1>6, <1>7, <1>9, <1>10, <1>11, Whereabouts DEF Moves, Local

LEMMA InvokeMoves ==
  ASSUME NEW i \in Inv, CInv, Invoke(i)
  PROVE  Moves(i)
  <1>1. PICK k \in Kinds : h' = [h EXCEPT ![i] = NewRun(k, gen)]
    BY DEF Invoke
  <1>2. h[i].pc = "idle" /\ UNCHANGED <<gen, card>>
    BY DEF Invoke, ReadInvoke
  <1>3. gen \in 0..MaxSessions
    BY DEF CInv, GInv
  <1>4. h' = [h EXCEPT ![i] = h'[i]] /\ h'[i] = NewRun(k, gen)
    BY <1>1 DEF CInv
  <1>5. /\ h'[i] \in Runs /\ h'[i].gw = gen /\ h'[i].pc = "check"
        /\ h'[i].iter = 0 /\ ~h'[i].terminated
    BY <1>3, <1>4 DEF NewRun, Runs, Pcs
  <1>. QED
    BY <1>2, <1>3, <1>4, <1>5, BeginsBlank

LEMMA CommandMoves ==
  ASSUME NEW i \in Inv, CInv, Command(i)
  PROVE  Moves(i) /\ UNCHANGED gvars
  <1>1. Moves(i)
    BY CheckMoves, ResetMoves, StartMoves, NoteMoves, ParseMoves, CallToolMoves, ToolResultMoves,
       ToolFailedMoves, CompletedMoves, FailedMoves, LastAnswerMoves, ModelFailsMoves,
       ModelCallsMoves, ModelAnswersMoves, AskToolMoves, AskToolDoneMoves, NextRoundMoves,
       FinalMoves, TrailMoves, DeferredMoves DEF Command
  <1>2. ASSUME Check(i) \/ Reset(i) \/ Start(i) \/ Note(i) \/ Parse(i) \/ CallTool(i) \/ ToolResult(i)
               \/ ToolFailed(i) \/ LastAnswer(i)
        PROVE  UNCHANGED gvars
    BY <1>2 DEF Check, Reset, Start, Note, Parse, CallTool, ToolResult, ToolFailed, LastAnswer
  <1>3. ASSUME ModelFails(i) \/ ModelCalls(i) \/ ModelAnswers(i) \/ AskTool(i)
               \/ AskToolDone(i) \/ NextRound(i) \/ Final(i)
        PROVE  UNCHANGED gvars
    BY <1>3 DEF ModelFails, ModelCalls, ModelAnswers, AskTool, AskToolDone, NextRound, Final
  <1>4. ASSUME Completed(i) \/ Failed(i) \/ Trail(i) \/ Deferred(i)
        PROVE  UNCHANGED gvars
    BY <1>4 DEF Completed, Failed, Trail, Deferred, Terminal
  <1>. QED
    BY <1>1, <1>2, <1>3, <1>4 DEF Command

-----------------------------------------------------------------------------
(* All steps. *)

\* Steps of the sessions: the bot's, the server's, a heartbeat's.
Sessional == /\ RunBot \/ Server \/ (\E g \in Sessions : Heartbeat(g))
                \/ (\E g \in Sessions, i \in Inv : ServerInvoke(g, i))

LEMMA SessionStep ==
  ASSUME GInv, Sessional
  PROVE  GInv'
  <1>1. ASSUME NEW g \in Sessions, Heartbeat(g) PROVE GInv'
    BY <1>1, GatewayKept DEF Heartbeat
  <1>2. ASSUME NEW g \in Sessions, NEW i \in Inv, ServerInvoke(g, i) PROVE GInv'
    BY <1>2, GatewayKept DEF ServerInvoke
  <1>. QED
    BY <1>1, <1>2, RunBotKeeps, ServerKeeps DEF Sessional

\* A session that is over is never alive again: a dial makes one of its own.
LEMMA NoRevival ==
  ASSUME GInv, Sessional
  PROVE  gen' >= gen /\ \A g \in 0..gen : Alive(g)' => Alive(g)
  <1>. USE SessionBounds DEF GInv, Sessions
  <1>1. CASE UNCHANGED <<gen, conn>>
    BY <1>1 DEF Alive
  <1>2. CASE Dial
    BY <1>2 DEF Dial, Alive
  <1>3. CASE Close
    BY <1>3 DEF Close, Alive, InSession
  <1>4. ASSUME NEW g \in Sessions, Drop(g) PROVE gen' >= gen /\ \A k \in 0..gen : Alive(k)' => Alive(k)
    BY <1>4 DEF Drop, Alive
  <1>5. CASE DialFails \/ Stop \/ ReadHello \/ HelloFails \/ Identify \/ ReadReady
             \/ ReadReconnect \/ ReadFails \/ Unset \/ Cancel \/ Wait \/ Shutdown
    BY <1>1, <1>5 DEF DialFails, Stop, ReadHello, HelloFails, Identify, ReadReady,
       ReadReconnect, ReadFails, Unset, Cancel, Wait, Shutdown
  <1>6. ASSUME NEW g \in Sessions,
               \/ ServerHello(g) \/ ServerReady(g) \/ ServerReconnect(g) \/ Heartbeat(g)
               \/ \E i \in Inv : ServerInvoke(g, i)
        PROVE  UNCHANGED <<gen, conn>>
    BY <1>6 DEF ServerHello, ServerReady, ServerReconnect, Heartbeat, ServerInvoke
  <1>. QED
    BY <1>1, <1>2, <1>3, <1>4, <1>5, <1>6 DEF Sessional, RunBot, Server

\* What the other commands know holds on while one moves.
LEMMA OthersStay ==
  ASSUME CInv, NEW i \in Inv, Moves(i), UNCHANGED <<gen, conn>>, GInv'
  PROVE  CInv' /\ [CardImpl!CardNext]_card
  <1>1. /\ h' = [h EXCEPT ![i] = h'[i]] /\ card' = [card EXCEPT ![i] = card'[i]]
        /\ Local(i)' /\ card'[i] \in CardImpl!Change(card[i]) \cup {card[i]}
    BY DEF Moves
  <1>2. ASSUME NEW j \in Inv, j # i PROVE Local(j)'
    <2>1. h'[j] = h[j] /\ card'[j] = card[j]
      BY <1>1, <1>2 DEF CInv
    <2>2. Local(j)
      BY DEF CInv
    <2>. QED
      BY <2>1, <2>2 DEF Local, Alive
  <1>3. DOMAIN h' = Inv /\ h' = [j \in Inv |-> h'[j]]
    BY <1>1 DEF CInv
  <1>4. DOMAIN card' = Inv /\ card' = [j \in Inv |-> card'[j]]
    BY <1>1 DEF CInv
  <1>5. CInv'
    BY <1>1, <1>2, <1>3, <1>4 DEF CInv
  <1>6. card'[i] \in CardImpl!Change(card[i]) => CardImpl!CardNext
    BY <1>1 DEF CardImpl!CardNext
  <1>7. card'[i] = card[i] => UNCHANGED card
    BY <1>1 DEF CInv
  <1>. QED
    BY <1>1, <1>5, <1>6, <1>7

LEMMA CardsStay ==
  ASSUME CInv, Sessional, UNCHANGED <<h, card>>
  PROVE  CInv'
  <1>1. GInv' /\ gen' >= gen /\ \A g \in 0..gen : Alive(g)' => Alive(g)
    BY SessionStep, NoRevival DEF CInv
  <1>2. ASSUME NEW i \in Inv PROVE Local(i)'
    <2>1. Local(i) /\ gen \in Nat /\ gen' \in Nat
      BY <1>1, SessionBounds DEF CInv, GInv
    <2>2. h[i].gw \in 0..gen
      BY <2>1 DEF Local, Runs
    <2>3. Alive(h[i].gw)' => Alive(h[i].gw)
      BY <1>1, <2>2
    <2>. QED
      BY <1>1, <2>1, <2>2, <2>3 DEF Local
  <1>. QED
    BY <1>1, <1>2 DEF CInv

LEMMA CardsInit == Init => CInv
  <1>. SUFFICES ASSUME Init PROVE CInv
    OBVIOUS
  <1>1. GInv
    BY SessionInit
  <1>2. ASSUME NEW i \in Inv PROVE Local(i)
    <2>1. h[i] = Idle /\ card[i] = Blank
      BY DEF Init
    <2>2. NewRun("audit", 0) \in Runs
      BY SessionBounds DEF NewRun, Runs, Pcs, Kinds
    <2>3. Idle \in Runs
      BY <2>2 DEF Idle, Runs, Pcs
    <2>4. Idle.pc = "idle" /\ Idle.gw = 0 /\ Idle.iter = 0 /\ ~Idle.terminated
      BY DEF Idle, NewRun
    <2>5. h[i] \in Runs /\ h[i].gw <= gen
      BY <1>1, <2>1, <2>4, <2>3, SessionBounds DEF GInv
    <2>6. card[i] \in CardImpl!Shown
      BY <2>1 DEF Blank, CardImpl!Shown
    <2>7. Match(h[i], card[i])
      BY <2>1, <2>4 DEF Blank, Match, Is
    <2>. QED
      BY <2>5, <2>6, <2>7 DEF Local
  <1>. QED
    BY <1>1, <1>2 DEF Init, CInv

LEMMA CardsStep == CInv /\ [Next]_vars => CInv' /\ [CardImpl!CardNext]_card
  <1>. SUFFICES ASSUME CInv, [Next]_vars PROVE CInv' /\ [CardImpl!CardNext]_card
    OBVIOUS
  <1>1. ASSUME NEW i \in Inv, Command(i) PROVE CInv' /\ [CardImpl!CardNext]_card
    <2>1. Moves(i) /\ UNCHANGED gvars
      BY <1>1, CommandMoves
    <2>2. GInv' /\ UNCHANGED <<gen, conn>>
      BY <2>1, GatewayKept DEF gvars, CInv
    <2>. QED
      BY <2>1, <2>2, OthersStay
  <1>2. ASSUME NEW i \in Inv, Invoke(i) PROVE CInv' /\ [CardImpl!CardNext]_card
    <2>1. UNCHANGED <<loop, gen, conn, orcaGw>>
      BY <1>2 DEF Invoke, ReadInvoke
    <2>2. GInv' /\ Moves(i)
      BY <1>2, <2>1, GatewayKept, InvokeMoves DEF CInv
    <2>. QED
      BY <2>1, <2>2, OthersStay
  <1>3. CASE Sessional /\ UNCHANGED <<h, card>>
    BY <1>3, CardsStay
  <1>4. CASE UNCHANGED vars
    <2>1. UNCHANGED <<loop, gen, conn, orcaGw, h, card>>
      BY <1>4 DEF vars, gvars
    <2>2. GInv'
      BY <2>1, GatewayKept DEF CInv
    <2>. QED
      BY <2>1, <2>2 DEF CInv, Local, Alive
  <1>. QED
    BY <1>1, <1>2, <1>3, <1>4 DEF Next, Bot, Beat, Sessional

\* Orca holds a gateway only while that is the newest one and not yet closed,
\* for any number of sessions and however they end.
THEOREM OrcaHoldsLiveGateway == Spec => []OrcaGwLive
  <1>1. CInv => OrcaGwLive
    BY DEF CInv, GInv, OrcaGwLive
  <1>. QED
    BY <1>1, CardsInit, CardsStep, PTL DEF Spec

\* Whatever users see of any number of commands, on whichever of their paths
\* and whenever sessions are lost, is a behaviour of CardLife: each card ends
\* once, with no step open, and each command is answered at most once; the only
\* other response is the notice of /ask with reset, before its card.
THEOREM CommandsImplementCards == Spec => CardsEnd
  <1>1. Init => CardImpl!CardInit
    BY DEF Init, Blank, CardImpl!CardInit
  <1>. QED
    BY <1>1, CardsInit, CardsStep, PTL DEF Spec, CardsEnd, CardImpl!CardSpec
=============================================================================
