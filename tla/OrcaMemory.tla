----------------------------- MODULE OrcaMemory -----------------------------
(***************************************************************************)
(* Orca's conversation memory (orca/memory.go) and the three callers that  *)
(* share a channel's conversation: the /ask command (orca/ask.go), chat    *)
(* replies (orca/chat_listen.go) and spoken questions (orca/voice.go).     *)
(*                                                                         *)
(* An Ask is the goroutine of one question.  It appends turns one by one,  *)
(* each under conv.mu, builds its prompt once, and ends by starting a      *)
(* compaction goroutine, which releases conv.mu while the model writes the *)
(* summary.  A turn's id stands for its text; a summary is the set of      *)
(* turns it was written from.                                              *)
(***************************************************************************)
EXTENDS Integers, Sequences, FiniteSets

CONSTANTS Ask,          \* questions asked in one channel
          Command,      \* those asked with /ask
          None,         \* no conversation
          MaxTurns,     \* m.maxTurns
          Trigger,      \* m.compactionTrigger
          Budget,       \* tool iterations allowed to a question
          Past,         \* earlier exchanges the conversation starts with
          MaxConvs,     \* bound: conversations created
          MaxCompactions \* bound: compactions at the same time

Conv       == 1..MaxConvs
Compaction == 1..MaxCompactions

ASSUME OrcaAssumption ==
    /\ Command \subseteq Ask
    /\ None \notin Conv
    /\ MaxTurns \in Nat /\ Trigger \in Nat /\ Trigger > MaxTurns /\ Past \in Nat
    /\ Budget \in Nat \ {0}
    /\ MaxConvs \in Nat \ {0} /\ MaxCompactions \in Nat

VARIABLES
    current,  \* m.convs[key]: the channel's conversation, or None
    nConvs,   \* conversations created
    turns,    \* conv.Turns
    summary,  \* conv.Summary
    written,  \* ids of all turns ever appended to a conversation
    ask,      \* the questions
    compact,  \* the compaction goroutines
    crashed,  \* a slice bound was out of range
    mixed,    \* ghost: questions that had another beside them in a conversation
    raced     \* ghost: conversations that had two compactions at work at once

vars == <<current, nConvs, turns, summary, written, ask, compact, crashed, mixed, raced>>

-----------------------------------------------------------------------------
(* Turns *)

\* An assistant turn has the ids of its calls, a tool turn answers one.
Turn(id, role, calls) == [id |-> id, role |-> role, calls |-> calls]
NewId(c) == Cardinality(written[c]) + 1

Append1(c, role, calls) ==
    /\ turns' = [turns EXCEPT ![c] = Append(@, Turn(NewId(c), role, calls))]
    /\ written' = [written EXCEPT ![c] = @ \cup {NewId(c)}]

Ids(s) == {s[i].id : i \in DOMAIN s}

-----------------------------------------------------------------------------
(* BuildMessages *)

\* The last maxTurns turns, from the first user turn among them.
WindowAnyStart(s) ==
    SubSeq(s, IF Len(s) > MaxTurns THEN Len(s) - MaxTurns + 1 ELSE 1, Len(s))
Window(s) ==
    LET from   == IF Len(s) > MaxTurns THEN Len(s) - MaxTurns + 1 ELSE 1
        starts == {i \in from..Len(s) : s[i].role = "user"}
    IN  IF starts = {} THEN <<>>
        ELSE SubSeq(s, CHOOSE i \in starts : \A j \in starts : i <= j, Len(s))

\* i opens a tool-call sequence; k is in the run of responses after i.
Calls(s, i) == s[i].role = "assistant" /\ s[i].calls # {}
InRun(s, i, k) == i < k /\ \A j \in (i + 1)..k : s[j].role = "tool"
Complete(s, i) ==
    s[i].calls \subseteq UNION {s[k].calls : k \in {j \in DOMAIN s : InRun(s, i, j)}}

\* repairToolCallSequences: an incomplete sequence loses its calls and the
\* responses right after it.
Repaired(s, k) ==
    LET broken(i) == Calls(s, i) /\ ~Complete(s, i)
    IN  IF \E i \in DOMAIN s : broken(i) /\ InRun(s, i, k)
        THEN Turn(0, "dropped", {})
        ELSE [s[k] EXCEPT !.calls = IF broken(k) THEN {} ELSE @]
Kept(s) == {k \in DOMAIN s : Repaired(s, k).role # "dropped"}

\* The i-th number of a set of numbers.
Rank(S, k) == Cardinality({j \in S : j <= k})
Nth(S, i) == CHOOSE k \in S : Rank(S, k) = i

\* What is kept stays in order.
RepairNothing(s) == s
Repair(s) ==
    LET K == Kept(s) IN [i \in 1..Cardinality(K) |-> Repaired(s, Nth(K, i))]

BuildMessages(c) == Repair(Window(turns[c]))

-----------------------------------------------------------------------------
(* Asking *)

\* A panic ends the process; no other step causes one.
Alive == ~crashed /\ UNCHANGED crashed

Asleep == [at |-> "new", conv |-> None, prompt |-> <<>>, iter |-> 0, todo |-> {}]

GetOrCreate(c) ==
    \/ current # None /\ c = current /\ UNCHANGED <<current, nConvs>>
    \/ /\ current = None /\ nConvs < MaxConvs
       /\ c = nConvs + 1 /\ nConvs' = c /\ current' = c

\* /ask reset:true drops the channel's conversation; questions that hold it
\* go on with it.
AskReset(a) ==
    /\ Alive
    /\ ask[a].at = "new" /\ a \in Command /\ current # None
    /\ current' = None
    /\ ask' = [ask EXCEPT ![a].at = "open"]
    /\ UNCHANGED <<nConvs, turns, summary, written, compact, mixed, raced>>

AskOpen(a) ==
    /\ Alive
    /\ ask[a].at \in {"new", "open"}
    /\ \E c \in Conv : /\ GetOrCreate(c)
                       /\ ask' = [ask EXCEPT ![a].at = "user", ![a].conv = c]
                       /\ LET others == {b \in Ask : ask[b].conv = c /\ ask[b].at # "done"}
                          IN  mixed' = mixed \cup others \cup {x \in {a} : others # {}}
    /\ UNCHANGED <<turns, summary, written, compact, raced>>

AskUser(a) ==
    /\ Alive
    /\ ask[a].at = "user"
    /\ Append1(ask[a].conv, "user", {})
    /\ ask' = [ask EXCEPT ![a].at = "build"]
    /\ UNCHANGED <<current, nConvs, summary, compact, mixed, raced>>

AskBuild(a) ==
    /\ Alive
    /\ ask[a].at = "build"
    /\ ask' = [ask EXCEPT ![a].at = "chat", ![a].prompt = BuildMessages(ask[a].conv)]
    /\ UNCHANGED <<current, nConvs, turns, summary, written, compact, mixed, raced>>

\* The model answers with tool calls, which get fresh ids.
AskCalls(a) ==
    LET c == ask[a].conv
    IN  /\ Alive
        /\ ask[a].at = "chat"
        /\ \E n \in 1..2 :
              LET calls == {<<a, ask[a].iter, k>> : k \in 1..n}
              IN  /\ Append1(c, "assistant", calls)
                  /\ ask' = [ask EXCEPT
                         ![a].at = "tools", ![a].todo = calls,
                         ![a].prompt = Append(@, Turn(NewId(c), "assistant", calls))]
        /\ UNCHANGED <<current, nConvs, summary, compact, mixed, raced>>

\* A goroutine for MaybeCompact of conversation c.
Spawn(c) ==
    \E k \in Compaction :
        /\ compact[k].at = "none"
        /\ compact' = [compact EXCEPT ![k].at = "read", ![k].conv = c]

\* The loop over iter ends after Budget tool iterations.
LastIteration(a) == ask[a].iter + 1 = Budget

\* Tools run in order; the last one ends the iteration.
AskTool(a) ==
    LET c    == ask[a].conv
        call == CHOOSE x \in ask[a].todo : \A y \in ask[a].todo : x[3] <= y[3]
        rest == ask[a].todo \ {call}
        over == rest = {} /\ LastIteration(a)
    IN  /\ Alive
        /\ ask[a].at = "tools"
        /\ Append1(c, "tool", {call})
        /\ ask' = [ask EXCEPT
               ![a].todo = rest,
               ![a].prompt = Append(@, Turn(NewId(c), "tool", {call})),
               ![a].iter = IF rest = {} THEN @ + 1 ELSE @,
               ![a].at = IF over THEN "done" ELSE IF rest = {} THEN "chat" ELSE "tools"]
        /\ IF over /\ a \notin Command THEN Spawn(c) ELSE UNCHANGED compact
        /\ UNCHANGED <<current, nConvs, summary, mixed, raced>>

AskAnswered(a) ==
    /\ Alive
    /\ ask[a].at = "chat"
    /\ Append1(ask[a].conv, "assistant", {})
    /\ ask' = [ask EXCEPT ![a].at = "done"]
    /\ Spawn(ask[a].conv)
    /\ UNCHANGED <<current, nConvs, summary, mixed, raced>>

AskFails(a) ==
    /\ Alive
    /\ ask[a].at = "chat"
    /\ ask' = [ask EXCEPT ![a].at = "done"]
    /\ UNCHANGED <<current, nConvs, turns, summary, written, compact, mixed, raced>>

-----------------------------------------------------------------------------
(* MaybeCompact *)

NoCompaction == [at |-> "none", conv |-> None, already |-> {}, cutoff |-> 0,
                 older |-> {}]
Keep == IF MaxTurns < 4 THEN 4 ELSE MaxTurns

CompactRead(k) ==
    LET c == compact[k].conv
    IN  /\ Alive
        /\ compact[k].at = "read"
        /\ compact' = [compact EXCEPT ![k] =
               IF Len(turns[c]) < Trigger THEN NoCompaction
               ELSE [@ EXCEPT !.at = "cut", !.already = summary[c]]]
        /\ raced' = raced \cup
               {c1 \in {c} : compact'[k].at = "cut" /\ \E o \in Compaction \ {k} :
                                compact[o].conv = c /\ compact[o].at \in {"cut", "chat"}}
        /\ UNCHANGED <<current, nConvs, turns, summary, written, ask, mixed>>

CompactCut(k) ==
    LET c      == compact[k].conv
        cutoff == Len(turns[c]) - Keep
    IN  /\ Alive
        /\ compact[k].at = "cut"
        /\ compact' = [compact EXCEPT ![k] =
               IF cutoff <= 0 THEN NoCompaction
               ELSE [@ EXCEPT !.at = "chat", !.cutoff = cutoff,
                              !.older = Ids(SubSeq(turns[c], 1, cutoff))]]
        /\ UNCHANGED <<current, nConvs, turns, summary, written, ask, mixed, raced>>

CompactFails(k) ==
    /\ Alive
    /\ compact[k].at = "chat"
    /\ compact' = [compact EXCEPT ![k] = NoCompaction]
    /\ UNCHANGED <<current, nConvs, turns, summary, written, ask, mixed, raced>>

\* conv.Turns[cutoff:] is out of range when the turns have become fewer.
CompactApplyNewer(k) ==
    LET c == compact[k].conv
        n == Len(turns[c]) - Keep
    IN  /\ ~crashed /\ compact[k].at = "chat"
        /\ summary' = [summary EXCEPT ![c] = compact[k].already \cup compact[k].older]
        /\ turns' = [turns EXCEPT ![c] = SubSeq(@, n + 1, Len(@))]
        /\ compact' = [compact EXCEPT ![k] = NoCompaction]
        /\ UNCHANGED <<current, nConvs, written, ask, crashed, mixed, raced>>
CompactApply(k) ==
    LET c == compact[k].conv
        n == compact[k].cutoff
    IN  /\ ~crashed /\ compact[k].at = "chat"
        /\ summary' = [summary EXCEPT ![c] = compact[k].already \cup compact[k].older]
        /\ crashed' = (n > Len(turns[c]))
        /\ turns' = [turns EXCEPT ![c] = SubSeq(@, n + 1, Len(@))]
        /\ compact' = [compact EXCEPT ![k] = NoCompaction]
        /\ UNCHANGED <<current, nConvs, written, ask, mixed, raced>>

-----------------------------------------------------------------------------

\* The channel's conversation after Past questions without tools.
Exchanges == [i \in 1..(2 * Past) |->
                 Turn(i, IF i % 2 = 1 THEN "user" ELSE "assistant", {})]

Init ==
    /\ current = 1 /\ nConvs = 1
    /\ turns = [c \in Conv |-> IF c = 1 THEN Exchanges ELSE <<>>]
    /\ summary = [c \in Conv |-> {}]
    /\ written = [c \in Conv |-> IF c = 1 THEN 1..(2 * Past) ELSE {}]
    /\ ask = [a \in Ask |-> Asleep]
    /\ compact = [k \in Compaction |-> NoCompaction]
    /\ crashed = FALSE
    /\ mixed = {} /\ raced = {}

Question(a) ==
    \/ AskReset(a) \/ AskOpen(a) \/ AskUser(a) \/ AskBuild(a) \/ AskCalls(a)
    \/ AskTool(a) \/ AskAnswered(a) \/ AskFails(a)

MaybeCompact(k) ==
    \/ CompactRead(k) \/ CompactCut(k) \/ CompactFails(k) \/ CompactApply(k)

Next ==
    \/ \E a \in Ask : Question(a)
    \/ \E k \in Compaction : MaybeCompact(k)

Spec == Init /\ [][Next]_vars

-----------------------------------------------------------------------------
(* Properties *)

\* Compaction moves turns into the summary: a turn that is no longer in
\* conv.Turns is one the summary was written from, and the cut is within
\* conv.Turns, whatever is appended while the model writes, unless two
\* compactions of the conversation were at work at once: nothing keeps a second
\* question from starting one, and the cutoffs then add up.
NoTurnForgotten ==
    /\ \A c \in Conv \ raced : written[c] \subseteq Ids(turns[c]) \cup summary[c]
    /\ crashed => raced # {}

\* Every assistant{tool_calls} of a prompt is followed at once by responses to
\* all of its calls, whatever other questions of the channel appended between
\* the turns of a call: "Azure 400s the whole request" otherwise.
CallsAnswered ==
    \A a \in Ask : ask[a].at = "chat" =>
        LET s == ask[a].prompt
        IN  \A i \in DOMAIN s : Calls(s, i) => Complete(s, i)

\* Every tool response of a prompt follows the assistant turn that called it,
\* wherever maxTurns and the compaction cut fell, unless other questions of the
\* conversation were under way beside the one that made the call: their turns
\* come between, and the repair then takes the calls and leaves the responses.
NoOrphanResponse ==
    \A a \in Ask : ask[a].at = "chat" =>
        LET s == ask[a].prompt
        IN  \A k \in DOMAIN s : s[k].role = "tool" =>
               \/ \E call \in s[k].calls : call[1] \in mixed
               \/ \E i \in DOMAIN s : InRun(s, i, k) /\ Calls(s, i)
                                      /\ s[k].calls \subseteq s[i].calls
=============================================================================
