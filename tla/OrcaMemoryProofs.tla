--------------------------- MODULE OrcaMemoryProofs ---------------------------
(***************************************************************************)
(* Proofs about OrcaMemory for any number of questions, conversations and  *)
(* compactions, and any sizes of the window and the trigger.               *)
(***************************************************************************)
EXTENDS OrcaMemory, TLAPS, SequenceTheorems, FiniteSetTheorems, FunctionTheorems

-----------------------------------------------------------------------------
(* Compaction forgets no turn.  While only one compaction of a conversation *)
(* is at work, the summary it started from is still the conversation's, and *)
(* the turns it has the model sum up are still the first of conv.Turns:     *)
(* whatever is appended in between comes after them.                        *)

\* A sequence, of whatever it holds.
IsTurns(s) == s \in Seq({s[i] : i \in DOMAIN s})

AskFields == {"at", "conv", "prompt", "iter", "todo"}
CompactFields == {"at", "conv", "already", "cutoff", "older"}

MemoryTypes ==
    /\ DOMAIN turns = Conv /\ DOMAIN summary = Conv /\ DOMAIN written = Conv
    /\ \A c \in Conv : IsTurns(turns[c])
    /\ DOMAIN ask = Ask /\ DOMAIN compact = Compaction
    /\ \A a \in Ask : DOMAIN ask[a] = AskFields
    /\ \A a \in Ask : ask[a].at \in {"user", "build", "chat", "tools"} => ask[a].conv \in Conv
    /\ \A k \in Compaction : DOMAIN compact[k] = CompactFields
    /\ \A k \in Compaction : compact[k].at # "none" => compact[k].conv \in Conv
    /\ \A k \in Compaction : compact[k].at = "chat" => compact[k].cutoff \in Nat
    /\ crashed \in BOOLEAN

\* Compaction v is past its first look at conversation c.
AtWork(v, c) == v.conv = c /\ v.at \in {"cut", "chat"}

OneAtWork ==
    \A c \in Conv \ raced : \A k, o \in Compaction :
        AtWork(compact[k], c) /\ AtWork(compact[o], c) => k = o

\* What compaction v of a conversation with turns s and summary sm knows of it.
UpToDate(v, s, sm) ==
    /\ v.already = sm
    /\ v.at = "chat" => v.cutoff <= Len(s) /\ v.older = Ids(SubSeq(s, 1, v.cutoff))

CutsUpToDate ==
    \A c \in Conv \ raced : \A k \in Compaction :
        AtWork(compact[k], c) => UpToDate(compact[k], turns[c], summary[c])

MInv == MemoryTypes /\ OneAtWork /\ CutsUpToDate /\ NoTurnForgotten

LEMMA TurnsAppended ==
  ASSUME NEW s, IsTurns(s), NEW t
  PROVE  /\ IsTurns(Append(s, t)) /\ Len(s) \in Nat /\ Len(Append(s, t)) = Len(s) + 1
         /\ Ids(Append(s, t)) = Ids(s) \cup {t.id}
         /\ \A n \in Nat : n <= Len(s) => SubSeq(Append(s, t), 1, n) = SubSeq(s, 1, n)
  <1>1. PICK S : S = {s[i] : i \in DOMAIN s} \cup {t}
    OBVIOUS
  <1>2. s \in Seq(S)
    BY <1>1 DEF IsTurns
  <1>3. PICK r : r = Append(s, t)
    OBVIOUS
  <1>4. /\ r \in Seq(S) /\ Len(r) = Len(s) + 1 /\ Len(s) \in Nat /\ DOMAIN r = 1..Len(s) + 1
        /\ DOMAIN s = 1..Len(s) /\ r[Len(s) + 1] = t /\ \A i \in 1..Len(s) : r[i] = s[i]
    BY <1>1, <1>2, <1>3
  <1>5. IsTurns(r)
    BY <1>4 DEF IsTurns
  <1>6. Ids(r) = Ids(s) \cup {t.id}
    BY <1>4 DEF Ids
  <1>7. ASSUME NEW n \in Nat, n <= Len(s) PROVE SubSeq(r, 1, n) = SubSeq(s, 1, n)
    BY <1>2, <1>4, <1>7
  <1>. QED
    BY <1>3, <1>4, <1>5, <1>6, <1>7

\* A cut at n parts the turns in two.
LEMMA TurnsCut ==
  ASSUME NEW s, IsTurns(s), NEW n \in Nat
  PROVE  /\ IsTurns(SubSeq(s, n + 1, Len(s)))
         /\ n <= Len(s) => Ids(s) = Ids(SubSeq(s, 1, n)) \cup Ids(SubSeq(s, n + 1, Len(s)))
  <1>1. PICK S : S = {s[i] : i \in DOMAIN s}
    OBVIOUS
  <1>2. s \in Seq(S) /\ Len(s) \in Nat /\ DOMAIN s = 1..Len(s)
    BY <1>1 DEF IsTurns
  <1>3. PICK p, q : p = SubSeq(s, 1, n) /\ q = SubSeq(s, n + 1, Len(s))
    OBVIOUS
  <1>4. CASE n <= Len(s)
    <2>0. PICK m : m = Len(s) - n
      OBVIOUS
    <2>1. m \in Nat /\ q \in Seq(S) /\ Len(q) = m /\ DOMAIN q = 1..m
          /\ \A i \in 1..m : q[i] = s[n + i] /\ n + i \in DOMAIN s
      <3>1. m \in Nat /\ n + 1 \in Int /\ \A i \in (n + 1)..Len(s) : i \in DOMAIN s
        BY <1>2, <1>4, <2>0
      <3>2. \A i \in (n + 1)..Len(s) : s[i] \in S
        BY <1>1, <3>1
      <3>3. /\ q \in Seq(S) /\ Len(q) = (IF n + 1 <= Len(s) THEN Len(s) - (n + 1) + 1 ELSE 0)
            /\ \A i \in 1..(Len(s) - (n + 1) + 1) : q[i] = s[n + 1 + i - 1]
        <4>1. PICK f, l : f = n + 1 /\ l = Len(s)
          OBVIOUS
        <4>2. f \in Int /\ l \in Int /\ (\A i \in f..l : s[i] \in S) /\ q = SubSeq(s, f, l)
          BY <1>2, <1>3, <3>1, <3>2, <4>1
        <4>3. /\ SubSeq(s, f, l) \in Seq(S)
              /\ Len(SubSeq(s, f, l)) = (IF f <= l THEN l - f + 1 ELSE 0)
              /\ \A i \in 1..(l - f + 1) : SubSeq(s, f, l)[i] = s[f + i - 1]
          BY <4>2, SubSeqProperties
        <4>. QED
          BY <4>1, <4>2, <4>3
      <3>4. Len(q) = m
        <4>1. CASE n + 1 <= Len(s)
          <5>1. Len(q) = Len(s) - (n + 1) + 1
            BY <3>3, <4>1
          <5>2. Len(s) - (n + 1) + 1 = m
            BY <1>2, <2>0
          <5>. QED
            BY <5>1, <5>2
        <4>2. CASE ~(n + 1 <= Len(s))
          <5>1. Len(q) = 0
            BY <3>3, <4>2
          <5>2. m = 0
            <6>1. PICK l : l = Len(s) /\ l \in Nat /\ n <= l /\ ~(n + 1 <= l) /\ m = l - n
              BY <1>2, <1>4, <2>0, <4>2
            <6>. QED
              BY <6>1
          <5>. QED
            BY <5>1, <5>2
        <4>. QED
          BY <4>1, <4>2
      <3>5. ASSUME NEW i \in 1..m PROVE q[i] = s[n + i] /\ n + i \in DOMAIN s
        <4>1. i \in 1..(Len(s) - (n + 1) + 1) /\ n + 1 + i - 1 = n + i
          BY <1>2, <2>0, <3>5
        <4>2. q[i] = s[n + 1 + i - 1]
          BY <3>3, <4>1
        <4>3. n + i \in DOMAIN s
          BY <1>2, <2>0, <3>5
        <4>. QED
          BY <4>1, <4>2, <4>3
      <3>. QED
        BY <3>1, <3>3, <3>4, <3>5
    <2>2. DOMAIN p = 1..n /\ \A i \in 1..n : p[i] = s[i]
      BY <1>2, <1>3, <1>4
    <2>3. IsTurns(q)
      <3>1. q \in [1..m -> {q[i] : i \in 1..m}]
        BY <2>1
      <3>. QED
        <4>1. {q[i] : i \in 1..m} = {q[i] : i \in DOMAIN q}
          BY <2>1
        <4>2. q \in Seq({q[i] : i \in 1..m})
          BY <2>1, <3>1
        <4>. QED
          BY <4>1, <4>2 DEF IsTurns
    <2>4. ASSUME NEW i \in DOMAIN s PROVE s[i].id \in Ids(p) \cup Ids(q)
      <3>1. CASE i <= n
        BY <1>2, <2>2, <2>4, <3>1 DEF Ids
      <3>2. CASE ~(i <= n)
        <4>1. i - n \in 1..m /\ n + (i - n) = i
          BY <1>2, <1>4, <2>0, <2>4, <3>2
        <4>. QED
          BY <2>1, <4>1 DEF Ids
      <3>. QED
        BY <3>1, <3>2
    <2>5. \A i \in DOMAIN p : p[i].id \in Ids(s)
      BY <1>2, <1>4, <2>2 DEF Ids
    <2>6. \A i \in DOMAIN q : q[i].id \in Ids(s)
      BY <2>1 DEF Ids
    <2>7. Ids(s) = Ids(p) \cup Ids(q)
      BY <2>4, <2>5, <2>6 DEF Ids
    <2>. QED
      BY <1>3, <2>3, <2>7
  <1>5. CASE ~(n <= Len(s))
    <2>1. q = <<>>
      BY <1>2, <1>3, <1>5
    <2>. QED
      BY <1>3, <1>5, <2>1 DEF IsTurns
  <1>. QED
    BY <1>4, <1>5

LEMMA AskEdit ==
  ASSUME NEW v, DOMAIN v = AskFields, NEW x, NEW y, NEW z, NEW w
  PROVE  /\ DOMAIN [v EXCEPT !.at = x] = AskFields
         /\ [v EXCEPT !.at = x].at = x /\ [v EXCEPT !.at = x].conv = v.conv
         /\ DOMAIN [v EXCEPT !.at = x, !.conv = y] = AskFields
         /\ [v EXCEPT !.at = x, !.conv = y].conv = y
         /\ DOMAIN [v EXCEPT !.at = x, !.prompt = y] = AskFields
         /\ [v EXCEPT !.at = x, !.prompt = y].conv = v.conv
         /\ DOMAIN [v EXCEPT !.at = x, !.todo = y, !.prompt = z] = AskFields
         /\ [v EXCEPT !.at = x, !.todo = y, !.prompt = z].conv = v.conv
         /\ DOMAIN [v EXCEPT !.todo = x, !.prompt = y, !.iter = z, !.at = w] = AskFields
         /\ [v EXCEPT !.todo = x, !.prompt = y, !.iter = z, !.at = w].conv = v.conv
  BY DEF AskFields

\* The questions after a step of one.
AsksTyped ==
    /\ DOMAIN ask = Ask
    /\ \A a \in Ask : DOMAIN ask[a] = AskFields
    /\ \A a \in Ask : ask[a].at \in {"user", "build", "chat", "tools"} => ask[a].conv \in Conv

LEMMA AskGoesOn ==
  ASSUME MemoryTypes, NEW a \in Ask, NEW v, ask' = [ask EXCEPT ![a] = v],
         DOMAIN v = AskFields, v.at \in {"user", "build", "chat", "tools"} => v.conv \in Conv
  PROVE  AsksTyped'
  BY DEF MemoryTypes, AsksTyped

LEMMA AskMoves ==
  ASSUME MemoryTypes, NEW a \in Ask, Question(a)
  PROVE  AsksTyped'
  <1>0. DOMAIN ask = Ask /\ DOMAIN ask[a] = AskFields
        /\ (ask[a].at \in {"user", "build", "chat", "tools"} => ask[a].conv \in Conv)
    BY DEF MemoryTypes
  <1>1. ASSUME NEW x, ask' = [ask EXCEPT ![a].at = x],
               x \in {"user", "build", "chat", "tools"} => ask[a].at \in {"user", "build", "chat", "tools"}
        PROVE  AsksTyped'
    <2>1. PICK v : v = [ask[a] EXCEPT !.at = x]
      OBVIOUS
    <2>2. ask' = [ask EXCEPT ![a] = v]
      BY <1>0, <1>1, <2>1
    <2>3. DOMAIN v = AskFields /\ v.at = x /\ v.conv = ask[a].conv
      BY <1>0, <2>1, AskEdit
    <2>. QED
      BY <1>0, <1>1, <2>2, <2>3, AskGoesOn
  <1>2. CASE AskReset(a) \/ AskUser(a) \/ AskAnswered(a) \/ AskFails(a)
    BY <1>1, <1>2 DEF AskReset, AskUser, AskAnswered, AskFails
  <1>3. CASE AskOpen(a)
    <2>1. PICK c \in Conv : ask' = [ask EXCEPT ![a].at = "user", ![a].conv = c]
      BY <1>3 DEF AskOpen
    <2>2. PICK v : v = [ask[a] EXCEPT !.at = "user", !.conv = c]
      OBVIOUS
    <2>3. ask' = [ask EXCEPT ![a] = v]
      BY <1>0, <2>1, <2>2
    <2>4. DOMAIN v = AskFields /\ v.conv = c
      BY <1>0, <2>2, AskEdit
    <2>. QED
      BY <2>3, <2>4, AskGoesOn
  <1>4. CASE AskBuild(a)
    <2>0. PICK p : p = BuildMessages(ask[a].conv)
      OBVIOUS
    <2>1. ask' = [ask EXCEPT ![a].at = "chat", ![a].prompt = p] /\ ask[a].at = "build"
      BY <1>4, <2>0 DEF AskBuild
    <2>2. PICK v : v = [ask[a] EXCEPT !.at = "chat", !.prompt = p]
      OBVIOUS
    <2>3. ask' = [ask EXCEPT ![a] = v]
      BY <1>0, <2>1, <2>2
    <2>4. DOMAIN v = AskFields /\ v.conv = ask[a].conv
      BY <1>0, <2>2, AskEdit
    <2>. QED
      BY <1>0, <2>1, <2>3, <2>4, AskGoesOn
  <1>5. CASE AskCalls(a)
    <2>1. PICK x, y : /\ ask' = [ask EXCEPT ![a].at = "tools", ![a].todo = x, ![a].prompt = y]
                      /\ ask[a].at = "chat"
      BY <1>5 DEF AskCalls
    <2>2. PICK v : v = [ask[a] EXCEPT !.at = "tools", !.todo = x, !.prompt = y]
      OBVIOUS
    <2>3. ask' = [ask EXCEPT ![a] = v]
      BY <1>0, <2>1, <2>2
    <2>4. DOMAIN v = AskFields /\ v.conv = ask[a].conv
      BY <1>0, <2>2, AskEdit
    <2>. QED
      BY <1>0, <2>1, <2>3, <2>4, AskGoesOn
  <1>6. CASE AskTool(a)
    <2>1. PICK x, y, z, w : /\ ask' = [ask EXCEPT ![a].todo = x, ![a].prompt = y, ![a].iter = z, ![a].at = w]
                            /\ ask[a].at = "tools"
      BY <1>6 DEF AskTool
    <2>2. PICK v : v = [ask[a] EXCEPT !.todo = x, !.prompt = y, !.iter = z, !.at = w]
      OBVIOUS
    <2>3. ask' = [ask EXCEPT ![a] = v]
      BY <1>0, <2>1, <2>2
    <2>4. DOMAIN v = AskFields /\ v.conv = ask[a].conv
      BY <1>0, <2>2, AskEdit
    <2>. QED
      BY <1>0, <2>1, <2>3, <2>4, AskGoesOn
  <1>. QED
    BY <1>2, <1>3, <1>4, <1>5, <1>6 DEF Question

\* The compactions after a step that gives none of them work.
CalmCompactions ==
    /\ DOMAIN compact' = Compaction
    /\ \A k \in Compaction :
          \/ compact'[k] = compact[k]
          \/ /\ DOMAIN compact'[k] = CompactFields /\ compact'[k].at \in {"none", "read"}
             /\ compact'[k].at = "read" => compact'[k].conv \in Conv

CompactsTyped ==
    /\ DOMAIN compact = Compaction
    /\ \A k \in Compaction : DOMAIN compact[k] = CompactFields
    /\ \A k \in Compaction : compact[k].at # "none" => compact[k].conv \in Conv
    /\ \A k \in Compaction : compact[k].at = "chat" => compact[k].cutoff \in Nat

LEMMA CalmTyped ==
  ASSUME MemoryTypes, CalmCompactions
  PROVE  /\ CompactsTyped'
         /\ \A k \in Compaction : \A c : AtWork(compact'[k], c) => compact'[k] = compact[k]
  BY DEF MemoryTypes, CalmCompactions, CompactsTyped, AtWork

LEMMA Spawned ==
  ASSUME MemoryTypes, NEW c \in Conv, Spawn(c) \/ UNCHANGED compact
  PROVE  CalmCompactions
  <1>1. CASE UNCHANGED compact
    BY <1>1 DEF CalmCompactions, MemoryTypes
  <1>2. CASE Spawn(c)
    <2>1. PICK k \in Compaction : compact' = [compact EXCEPT ![k].at = "read", ![k].conv = c]
      BY <1>2 DEF Spawn
    <2>2. PICK v : v = [compact[k] EXCEPT !.at = "read", !.conv = c]
      OBVIOUS
    <2>3. DOMAIN compact = Compaction /\ DOMAIN compact[k] = CompactFields
      BY DEF MemoryTypes
    <2>4. compact' = [compact EXCEPT ![k] = v]
      BY <2>1, <2>2, <2>3
    <2>5. DOMAIN v = CompactFields /\ v.at = "read" /\ v.conv = c
      BY <2>2, <2>3 DEF CompactFields
    <2>. QED
      BY <2>3, <2>4, <2>5 DEF CalmCompactions
  <1>. QED
    BY <1>1, <1>2

\* A step of a question that appends nothing.
LEMMA TurnsKept ==
  ASSUME MInv, AsksTyped', UNCHANGED <<turns, summary, written, compact, crashed, raced>>
  PROVE  MInv'
  BY DEF MInv, MemoryTypes, AsksTyped, OneAtWork, CutsUpToDate, NoTurnForgotten, AtWork

\* A step of a question that appends a turn to its conversation.
LEMMA TurnAdded ==
  ASSUME MInv, AsksTyped', CalmCompactions, NEW c \in Conv, NEW role, NEW calls,
         Append1(c, role, calls), UNCHANGED <<summary, crashed, raced>>
  PROVE  MInv'
  <1>0. /\ DOMAIN turns = Conv /\ DOMAIN written = Conv /\ DOMAIN summary = Conv
        /\ \A d \in Conv : IsTurns(turns[d])
    BY DEF MInv, MemoryTypes
  <1>1. PICK t : t = Turn(NewId(c), role, calls)
    OBVIOUS
  <1>2. t.id = NewId(c)
    BY <1>1 DEF Turn
  <1>3. /\ turns' = [turns EXCEPT ![c] = Append(turns[c], t)]
        /\ written' = [written EXCEPT ![c] = written[c] \cup {t.id}]
    BY <1>1, <1>2 DEF Append1
  <1>4. PICK s : s = Append(turns[c], t)
    OBVIOUS
  <1>5. /\ IsTurns(s) /\ Len(turns[c]) \in Nat /\ Len(s) = Len(turns[c]) + 1
        /\ Ids(s) = Ids(turns[c]) \cup {t.id}
        /\ \A n \in Nat : n <= Len(turns[c]) => SubSeq(s, 1, n) = SubSeq(turns[c], 1, n)
    BY <1>0, <1>4, TurnsAppended
  <1>6. /\ DOMAIN turns' = Conv /\ turns'[c] = s /\ \A d \in Conv \ {c} : turns'[d] = turns[d]
        /\ DOMAIN written' = Conv /\ written'[c] = written[c] \cup {t.id}
        /\ \A d \in Conv \ {c} : written'[d] = written[d]
    BY <1>0, <1>3, <1>4
  <1>7. CompactsTyped' /\ \A k \in Compaction : \A d : AtWork(compact'[k], d) => compact'[k] = compact[k]
    BY CalmTyped DEF MInv
  <1>8. MemoryTypes'
    BY <1>0, <1>5, <1>6, <1>7 DEF MInv, MemoryTypes, AsksTyped, CompactsTyped
  <1>9. OneAtWork'
    BY <1>7 DEF MInv, OneAtWork
  <1>10. ASSUME NEW d \in Conv \ raced, NEW k \in Compaction, AtWork(compact'[k], d)
         PROVE  UpToDate(compact'[k], turns'[d], summary[d])
    <2>1. compact'[k] = compact[k] /\ UpToDate(compact[k], turns[d], summary[d])
      BY <1>7, <1>10 DEF MInv, CutsUpToDate
    <2>2. CASE d # c
      BY <1>6, <2>1, <2>2
    <2>3. CASE d = c
      <3>1. ASSUME compact[k].at = "chat"
            PROVE  compact[k].cutoff <= Len(s) /\ compact[k].older = Ids(SubSeq(s, 1, compact[k].cutoff))
        <4>1. compact[k].cutoff \in Nat
          BY <3>1 DEF MInv, MemoryTypes
        <4>2. compact[k].cutoff <= Len(turns[c]) /\ compact[k].older = Ids(SubSeq(turns[c], 1, compact[k].cutoff))
          BY <2>1, <2>3, <3>1 DEF UpToDate
        <4>3. compact[k].cutoff <= Len(s)
          BY <1>5, <4>1, <4>2
        <4>. QED
          BY <1>5, <4>1, <4>2, <4>3
      <3>. QED
        BY <1>6, <2>1, <2>3, <3>1 DEF UpToDate
    <2>. QED
      BY <2>2, <2>3
  <1>11. CutsUpToDate'
    BY <1>10 DEF CutsUpToDate
  <1>12. NoTurnForgotten'
    BY <1>5, <1>6 DEF MInv, NoTurnForgotten
  <1>. QED
    BY <1>8, <1>9, <1>11, <1>12 DEF MInv

LEMMA QuestionKeeps ==
  ASSUME MInv, NEW a \in Ask, Question(a)
  PROVE  MInv'
  <1>0. MemoryTypes /\ AsksTyped'
    BY AskMoves DEF MInv
  <1>1. CASE AskReset(a) \/ AskOpen(a) \/ AskBuild(a) \/ AskFails(a)
    BY <1>0, <1>1, TurnsKept DEF AskReset, AskOpen, AskBuild, AskFails, Alive
  <1>2. ASSUME ask[a].at \in {"user", "chat", "tools"} PROVE ask[a].conv \in Conv
    BY <1>0, <1>2 DEF MemoryTypes
  <1>3. CASE AskUser(a)
    <2>1. /\ ask[a].at = "user" /\ Append1(ask[a].conv, "user", {})
          /\ UNCHANGED <<summary, compact, crashed, raced>>
      BY <1>3 DEF AskUser, Alive
    <2>. QED
      BY <1>0, <1>2, <2>1, Spawned, TurnAdded
  <1>4. CASE AskCalls(a)
    <2>1. PICK calls : /\ ask[a].at = "chat" /\ Append1(ask[a].conv, "assistant", calls)
                       /\ UNCHANGED <<summary, compact, crashed, raced>>
      BY <1>4 DEF AskCalls, Alive
    <2>. QED
      BY <1>0, <1>2, <2>1, Spawned, TurnAdded
  <1>5. CASE AskTool(a)
    <2>1. PICK calls : /\ ask[a].at = "tools" /\ Append1(ask[a].conv, "tool", calls)
                       /\ UNCHANGED <<summary, crashed, raced>>
                       /\ Spawn(ask[a].conv) \/ UNCHANGED compact
      BY <1>5 DEF AskTool, Alive
    <2>. QED
      BY <1>0, <1>2, <2>1, Spawned, TurnAdded
  <1>6. CASE AskAnswered(a)
    <2>1. /\ ask[a].at = "chat" /\ Append1(ask[a].conv, "assistant", {})
          /\ UNCHANGED <<summary, crashed, raced>> /\ Spawn(ask[a].conv)
      BY <1>6 DEF AskAnswered, Alive
    <2>. QED
      BY <1>0, <1>2, <2>1, Spawned, TurnAdded
  <1>. QED
    BY <1>1, <1>3, <1>4, <1>5, <1>6 DEF Question

LEMMA CompactEdit ==
  ASSUME NEW v, DOMAIN v = CompactFields, NEW x, NEW y, NEW z
  PROVE  /\ DOMAIN [v EXCEPT !.at = x, !.already = y] = CompactFields
         /\ [v EXCEPT !.at = x, !.already = y].at = x
         /\ [v EXCEPT !.at = x, !.already = y].already = y
         /\ [v EXCEPT !.at = x, !.already = y].conv = v.conv
         /\ DOMAIN [v EXCEPT !.at = x, !.cutoff = y, !.older = z] = CompactFields
         /\ [v EXCEPT !.at = x, !.cutoff = y, !.older = z].at = x
         /\ [v EXCEPT !.at = x, !.cutoff = y, !.older = z].cutoff = y
         /\ [v EXCEPT !.at = x, !.cutoff = y, !.older = z].older = z
         /\ [v EXCEPT !.at = x, !.cutoff = y, !.older = z].conv = v.conv
         /\ [v EXCEPT !.at = x, !.cutoff = y, !.older = z].already = v.already
  BY DEF CompactFields

LEMMA NoCompactionIs == DOMAIN NoCompaction = CompactFields /\ NoCompaction.at = "none"
  BY DEF NoCompaction, CompactFields

\* One compaction goes on, and the conversation stays as it is.
LEMMA CompactGoesOn ==
  ASSUME MInv, NEW k \in Compaction, NEW v, compact' = [compact EXCEPT ![k] = v],
         DOMAIN v = CompactFields, v.at # "none" => v.conv \in Conv,
         v.at = "chat" => v.cutoff \in Nat,
         raced \subseteq raced',
         \A c \in Conv \ raced' : AtWork(v, c) =>
            /\ UpToDate(v, turns[c], summary[c])
            /\ \A o \in Compaction \ {k} : ~AtWork(compact[o], c),
         UNCHANGED <<turns, summary, written, ask, crashed>>
  PROVE  MInv'
  <1>1. DOMAIN compact = Compaction
    BY DEF MInv, MemoryTypes
  <1>2. DOMAIN compact' = Compaction /\ compact'[k] = v /\ \A o \in Compaction \ {k} : compact'[o] = compact[o]
    BY <1>1
  <1>3. MemoryTypes'
    BY <1>2 DEF MInv, MemoryTypes
  <1>4. OneAtWork'
    BY <1>2 DEF MInv, OneAtWork
  <1>5. CutsUpToDate'
    BY <1>2 DEF MInv, CutsUpToDate
  <1>6. NoTurnForgotten'
    BY DEF MInv, NoTurnForgotten
  <1>. QED
    BY <1>3, <1>4, <1>5, <1>6 DEF MInv

LEMMA CompactEnds ==
  ASSUME MInv, NEW k \in Compaction, compact' = [compact EXCEPT ![k] = NoCompaction],
         raced \subseteq raced', UNCHANGED <<turns, summary, written, ask, crashed>>
  PROVE  MInv'
  <1>1. \A c : ~AtWork(NoCompaction, c)
    BY NoCompactionIs DEF AtWork
  <1>. QED
    BY <1>1, NoCompactionIs, CompactGoesOn

LEMMA CompactReadKeeps ==
  ASSUME MInv, NEW k \in Compaction, CompactRead(k)
  PROVE  MInv'
  <1>0. /\ DOMAIN compact = Compaction /\ DOMAIN compact[k] = CompactFields
        /\ compact[k].at = "read" /\ compact[k].conv \in Conv
        /\ UNCHANGED <<turns, summary, written, ask, crashed>>
    BY DEF CompactRead, MInv, MemoryTypes, Alive
  <1>1. PICK c : c = compact[k].conv
    OBVIOUS
  <1>2. PICK v : v = IF Len(turns[c]) < Trigger THEN NoCompaction
                     ELSE [compact[k] EXCEPT !.at = "cut", !.already = summary[c]]
    OBVIOUS
  <1>3. compact' = [compact EXCEPT ![k] = v] /\ compact'[k] = v
    BY <1>0, <1>1, <1>2 DEF CompactRead
  <1>4. raced' = raced \cup {c1 \in {c} : v.at = "cut" /\ \E o \in Compaction \ {k} :
                                compact[o].conv = c /\ compact[o].at \in {"cut", "chat"}}
    BY <1>1, <1>3 DEF CompactRead
  <1>5. CASE Len(turns[c]) < Trigger
    BY <1>0, <1>2, <1>3, <1>4, <1>5, CompactEnds
  <1>6. CASE ~(Len(turns[c]) < Trigger)
    <2>1. DOMAIN v = CompactFields /\ v.at = "cut" /\ v.already = summary[c] /\ v.conv = c
      BY <1>0, <1>1, <1>2, <1>6, CompactEdit
    <2>2. ASSUME NEW d \in Conv \ raced', AtWork(v, d)
          PROVE  /\ UpToDate(v, turns[d], summary[d])
                 /\ \A o \in Compaction \ {k} : ~AtWork(compact[o], d)
      BY <1>4, <2>1, <2>2 DEF AtWork, UpToDate
    <2>. QED
      BY <1>0, <1>1, <1>3, <1>4, <2>1, <2>2, CompactGoesOn
  <1>. QED
    BY <1>5, <1>6

LEMMA CompactCutKeeps ==
  ASSUME MInv, NEW k \in Compaction, CompactCut(k)
  PROVE  MInv'
  <1>0. /\ DOMAIN compact = Compaction /\ DOMAIN compact[k] = CompactFields
        /\ compact[k].at = "cut" /\ compact[k].conv \in Conv
        /\ UNCHANGED <<turns, summary, written, ask, crashed, raced>>
    BY DEF CompactCut, MInv, MemoryTypes, Alive
  <1>1. PICK c, n : c = compact[k].conv /\ n = Len(turns[c]) - Keep
    OBVIOUS
  <1>2. PICK v : v = IF n <= 0 THEN NoCompaction
                     ELSE [compact[k] EXCEPT !.at = "chat", !.cutoff = n,
                                             !.older = Ids(SubSeq(turns[c], 1, n))]
    OBVIOUS
  <1>3. compact' = [compact EXCEPT ![k] = v]
    BY <1>0, <1>1, <1>2 DEF CompactCut
  <1>4. CASE n <= 0
    BY <1>0, <1>2, <1>3, <1>4, CompactEnds
  <1>5. CASE ~(n <= 0)
    <2>1. /\ DOMAIN v = CompactFields /\ v.at = "chat" /\ v.cutoff = n /\ v.conv = c
          /\ v.older = Ids(SubSeq(turns[c], 1, n)) /\ v.already = compact[k].already
      BY <1>0, <1>1, <1>2, <1>5, CompactEdit
    <2>2. n \in Nat /\ n <= Len(turns[c])
      <3>1. Len(turns[c]) \in Nat
        BY <1>0, <1>1 DEF MInv, MemoryTypes, IsTurns
      <3>2. Keep \in Nat
        BY OrcaAssumption DEF Keep
      <3>. QED
        BY <1>1, <1>5, <3>1, <3>2
    <2>3. ASSUME NEW d \in Conv \ raced', AtWork(v, d)
          PROVE  /\ UpToDate(v, turns[d], summary[d])
                 /\ \A o \in Compaction \ {k} : ~AtWork(compact[o], d)
      <3>1. d = c /\ AtWork(compact[k], c) /\ c \in Conv \ raced
        BY <1>0, <1>1, <2>1, <2>3 DEF AtWork
      <3>2. compact[k].already = summary[c] /\ \A o \in Compaction \ {k} : ~AtWork(compact[o], c)
        BY <3>1 DEF MInv, CutsUpToDate, UpToDate, OneAtWork
      <3>. QED
        BY <2>1, <2>2, <3>1, <3>2 DEF UpToDate
    <2>4. v.at # "none" => v.conv \in Conv
      BY <1>0, <1>1, <2>1
    <2>5. v.at = "chat" => v.cutoff \in Nat
      BY <2>1, <2>2
    <2>6. raced \subseteq raced'
      BY <1>0
    <2>7. \A d \in Conv \ raced' : AtWork(v, d) =>
             /\ UpToDate(v, turns[d], summary[d])
             /\ \A o \in Compaction \ {k} : ~AtWork(compact[o], d)
      BY <2>3
    <2>8. DOMAIN v = CompactFields
      BY <2>1
    <2>9. UNCHANGED <<turns, summary, written, ask, crashed>>
      BY <1>0
    <2>. QED
      BY <1>3, <2>4, <2>5, <2>6, <2>7, <2>8, <2>9, CompactGoesOn
  <1>. QED
    BY <1>4, <1>5

LEMMA CompactApplyKeeps ==
  ASSUME MInv, NEW k \in Compaction, CompactApply(k)
  PROVE  MInv'
  <1>0. /\ DOMAIN compact = Compaction /\ DOMAIN turns = Conv /\ DOMAIN summary = Conv
        /\ compact[k].at = "chat" /\ compact[k].conv \in Conv /\ compact[k].cutoff \in Nat
        /\ UNCHANGED <<written, ask, raced>> /\ \A d \in Conv : IsTurns(turns[d])
    BY DEF CompactApply, MInv, MemoryTypes
  <1>1. PICK c, n, s, sm : /\ c = compact[k].conv /\ n = compact[k].cutoff
                           /\ s = SubSeq(turns[c], n + 1, Len(turns[c]))
                           /\ sm = compact[k].already \cup compact[k].older
    OBVIOUS
  <1>2. /\ summary' = [summary EXCEPT ![c] = sm] /\ turns' = [turns EXCEPT ![c] = s]
        /\ compact' = [compact EXCEPT ![k] = NoCompaction]
    BY <1>1 DEF CompactApply
  <1>3. crashed' = (n > Len(turns[c]))
    BY <1>1 DEF CompactApply
  <1>4. /\ DOMAIN turns' = Conv /\ turns'[c] = s /\ \A d \in Conv \ {c} : turns'[d] = turns[d]
        /\ DOMAIN summary' = Conv /\ summary'[c] = sm /\ \A d \in Conv \ {c} : summary'[d] = summary[d]
        /\ DOMAIN compact' = Compaction /\ compact'[k] = NoCompaction
        /\ \A o \in Compaction \ {k} : compact'[o] = compact[o]
    BY <1>0, <1>1, <1>2
  <1>5. /\ c \in Conv /\ n \in Nat /\ IsTurns(s)
        /\ n <= Len(turns[c]) => Ids(turns[c]) = Ids(SubSeq(turns[c], 1, n)) \cup Ids(s)
    BY <1>0, <1>1, TurnsCut
  <1>6. crashed' \in BOOLEAN
    BY <1>3
  <1>7. MemoryTypes'
    BY <1>0, <1>4, <1>5, <1>6, NoCompactionIs DEF MInv, MemoryTypes
  <1>8. \A d : ~AtWork(NoCompaction, d)
    BY NoCompactionIs DEF AtWork
  <1>9. ASSUME c \notin raced
        PROVE  /\ \A o \in Compaction \ {k} : ~AtWork(compact[o], c)
               /\ n <= Len(turns[c]) /\ sm = summary[c] \cup Ids(SubSeq(turns[c], 1, n))
    <2>1. AtWork(compact[k], c) /\ c \in Conv \ raced
      BY <1>0, <1>1, <1>9 DEF AtWork
    <2>2. UpToDate(compact[k], turns[c], summary[c])
      BY <2>1 DEF MInv, CutsUpToDate
    <2>3. \A o \in Compaction \ {k} : ~AtWork(compact[o], c)
      BY <2>1 DEF MInv, OneAtWork
    <2>. QED
      BY <1>0, <1>1, <2>2, <2>3 DEF UpToDate
  <1>10. OneAtWork'
    BY <1>0, <1>4, <1>8 DEF MInv, OneAtWork
  <1>11. CutsUpToDate'
    BY <1>0, <1>4, <1>8, <1>9 DEF MInv, CutsUpToDate
  <1>12. \A d \in Conv \ raced : written[d] \subseteq Ids(turns'[d]) \cup summary'[d]
    <2>1. \A d \in Conv \ raced : written[d] \subseteq Ids(turns[d]) \cup summary[d]
      BY DEF MInv, NoTurnForgotten
    <2>2. ASSUME c \notin raced PROVE written[c] \subseteq Ids(s) \cup sm
      BY <1>5, <1>9, <2>1, <2>2
    <2>. QED
      BY <1>4, <2>1, <2>2
  <1>13. ASSUME crashed' PROVE raced # {}
    <2>1. n > Len(turns[c])
      BY <1>3, <1>13, Zenon
    <2>2. Len(turns[c]) \in Nat
      BY <1>5, <1>0 DEF IsTurns
    <2>3. ~(n <= Len(turns[c]))
      BY <1>5, <2>1, <2>2
    <2>. QED
      BY <1>9, <2>3
  <1>14. NoTurnForgotten'
    BY <1>0, <1>12, <1>13 DEF NoTurnForgotten
  <1>. QED
    BY <1>7, <1>10, <1>11, <1>14 DEF MInv

LEMMA MemoryInit == Init => MInv
  <1>. SUFFICES ASSUME Init PROVE MInv
    OBVIOUS
  <1>0. 2 * Past \in Nat
    BY OrcaAssumption
  <1>1. DOMAIN Exchanges = 1..(2 * Past) /\ \A i \in 1..(2 * Past) : Exchanges[i].id = i
    BY DEF Exchanges, Turn
  <1>2. IsTurns(Exchanges) /\ Ids(Exchanges) = 1..(2 * Past)
    <2>1. Exchanges \in [1..(2 * Past) -> {Exchanges[i] : i \in 1..(2 * Past)}]
      BY DEF Exchanges
    <2>2. Exchanges \in Seq({Exchanges[i] : i \in 1..(2 * Past)})
      BY <1>0, <2>1
    <2>3. IsTurns(Exchanges)
      BY <1>1, <2>2 DEF IsTurns
    <2>4. Ids(Exchanges) = {Exchanges[i].id : i \in 1..(2 * Past)}
      BY <1>1 DEF Ids
    <2>5. \A j \in 1..(2 * Past) : \E i \in 1..(2 * Past) : Exchanges[i].id = j
      BY <1>1
    <2>6. ASSUME NEW x \in {Exchanges[i].id : i \in 1..(2 * Past)} PROVE x \in 1..(2 * Past)
      BY <1>1
    <2>7. ASSUME NEW x \in 1..(2 * Past) PROVE x \in {Exchanges[i].id : i \in 1..(2 * Past)}
      BY <2>5
    <2>8. {Exchanges[i].id : i \in 1..(2 * Past)} = 1..(2 * Past)
      BY <2>6, <2>7, Zenon
    <2>. QED
      BY <2>3, <2>4, <2>8, Zenon
  <1>3. IsTurns(<<>>) /\ Ids(<<>>) = {}
    BY DEF IsTurns, Ids
  <1>4. DOMAIN Asleep = AskFields /\ Asleep.at = "new"
    BY DEF Asleep, AskFields
  <1>5. /\ turns = [c \in Conv |-> IF c = 1 THEN Exchanges ELSE <<>>]
        /\ summary = [c \in Conv |-> {}]
        /\ written = [c \in Conv |-> IF c = 1 THEN 1..(2 * Past) ELSE {}]
        /\ ask = [a \in Ask |-> Asleep] /\ compact = [k \in Compaction |-> NoCompaction]
        /\ crashed = FALSE
    BY DEF Init
  <1>6. MemoryTypes
    BY <1>2, <1>3, <1>4, <1>5, NoCompactionIs DEF MemoryTypes
  <1>7. \A k \in Compaction : \A c : ~AtWork(compact[k], c)
    BY <1>5, NoCompactionIs DEF AtWork
  <1>8. NoTurnForgotten
    BY <1>2, <1>3, <1>5 DEF NoTurnForgotten
  <1>. QED
    BY <1>6, <1>7, <1>8 DEF MInv, OneAtWork, CutsUpToDate

LEMMA MemoryStep == MInv /\ [Next]_vars => MInv'
  <1>. SUFFICES ASSUME MInv, [Next]_vars PROVE MInv'
    OBVIOUS
  <1>1. ASSUME NEW k \in Compaction, CompactFails(k) PROVE MInv'
    BY <1>1, CompactEnds DEF CompactFails, Alive
  <1>2. CASE UNCHANGED vars
    BY <1>2 DEF vars, MInv, MemoryTypes, OneAtWork, CutsUpToDate, NoTurnForgotten
  <1>. QED
    BY <1>1, <1>2, QuestionKeeps, CompactReadKeeps, CompactCutKeeps, CompactApplyKeeps
       DEF Next, MaybeCompact

\* MaybeCompact loses no turn of a conversation and never cuts beyond its end,
\* for any number of questions that go on appending while the model writes the
\* summary, as long as no two compactions of it are at work at once.
THEOREM CompactionForgetsNothing == Spec => []NoTurnForgotten
  <1>1. MInv => NoTurnForgotten
    BY DEF MInv
  <1>. QED
    BY <1>1, MemoryInit, MemoryStep, PTL DEF Spec

-----------------------------------------------------------------------------
(* What the repair of a prompt keeps, and in which order.                   *)

\* The ranks of the members of a set of n positions are 1, 2, ..., in order.
LEMMA RanksInOrder ==
  ASSUME NEW n \in Nat, NEW S \in SUBSET (1..n)
  PROVE  /\ IsFiniteSet(S) /\ Cardinality(S) \in Nat
         /\ \A k \in S : Rank(S, k) \in 1..Cardinality(S)
         /\ \A k, l \in S : k < l => Rank(S, k) < Rank(S, l)
         /\ \A i \in 1..Cardinality(S) : \E k \in S : Rank(S, k) = i
  <1>0. PICK N : N = 1..n
    OBVIOUS
  <1>1. IsFiniteSet(S) /\ Cardinality(S) \in Nat
    <2>1. IsFiniteSet(N) /\ S \in SUBSET N
      BY <1>0, FS_Interval
    <2>2. IsFiniteSet(S)
      BY <2>1, FS_Subset
    <2>. QED
      BY <2>2, FS_CardinalityType
  <1>2. ASSUME NEW k \in S
        PROVE  /\ IsFiniteSet({j \in S : j <= k}) /\ Rank(S, k) \in 1..Cardinality(S)
    <2>1. PICK T : T = {j \in S : j <= k}
      OBVIOUS
    <2>2. T \in SUBSET S /\ k \in T
      BY <2>1
    <2>3. IsFiniteSet(T) /\ Cardinality(T) \in Nat /\ Cardinality(T) <= Cardinality(S)
      BY <1>1, <2>2, FS_Subset, FS_CardinalityType
    <2>4. Cardinality(T) # 0
      BY <2>2, <2>3, FS_EmptySet
    <2>. QED
      BY <1>1, <2>1, <2>3, <2>4 DEF Rank
  <1>3. ASSUME NEW k \in S, NEW l \in S, k < l PROVE Rank(S, k) < Rank(S, l)
    <2>1. PICK T, U : T = {j \in S : j <= k} /\ U = {j \in S : j <= l}
      OBVIOUS
    <2>2. IsFiniteSet(T) /\ IsFiniteSet(U) /\ Cardinality(T) \in Nat /\ Cardinality(U) \in Nat
      BY <1>2, <2>1, FS_CardinalityType
    <2>3. T \in SUBSET U /\ l \in U /\ l \notin T
      <3>1. k \in Int /\ l \in Int /\ \A j \in S : j \in Int
        OBVIOUS
      <3>2. \A j \in S : j <= k => j <= l
        BY <1>3, <3>1
      <3>3. l <= l /\ ~(l <= k)
        BY <1>3, <3>1
      <3>. QED
        BY <2>1, <3>2, <3>3
    <2>4. T # U
      BY <2>3
    <2>5. Cardinality(T) <= Cardinality(U) /\ Cardinality(T) # Cardinality(U)
      BY <2>2, <2>3, <2>4, FS_Subset
    <2>. QED
      BY <2>1, <2>2, <2>5 DEF Rank
  <1>4. PICK f : f = [k \in S |-> Rank(S, k)]
    OBVIOUS
  <1>5. f \in Injection(S, 1..Cardinality(S))
    <2>1. f \in [S -> 1..Cardinality(S)]
      BY <1>2, <1>4
    <2>2. ASSUME NEW k \in S, NEW l \in S, f[k] = f[l] PROVE k = l
      <3>1. Rank(S, k) = Rank(S, l) /\ Rank(S, k) \in Int
        <4>1. f[k] = Rank(S, k) /\ f[l] = Rank(S, l)
          BY <1>4
        <4>2. Rank(S, k) \in 1..Cardinality(S)
          BY <1>2
        <4>3. Rank(S, k) \in Int
          BY <1>1, <4>2
        <4>. QED
          BY <2>2, <4>1, <4>3, Zenon
      <3>2. ~(k < l) /\ ~(l < k)
        BY <1>3, <3>1
      <3>. QED
        BY <3>2
    <2>. QED
      BY <2>1, <2>2 DEF Injection, IsInjective
  <1>6. IsFiniteSet(1..Cardinality(S)) /\ Cardinality(1..Cardinality(S)) = Cardinality(S)
    <2>1. PICK m \in Nat : m = Cardinality(S)
      BY <1>1
    <2>. QED
      BY <2>1, FS_Interval
  <1>7. f \in Surjection(S, 1..Cardinality(S))
    BY <1>5, <1>6, FS_Injection
  <1>8. \A i \in 1..Cardinality(S) : \E k \in S : Rank(S, k) = i
    BY <1>4, <1>7 DEF Surjection
  <1>. QED
    BY <1>1, <1>2, <1>3, <1>8

\* Nth lists a set of positions in order, each once.
LEMMA NthLists ==
  ASSUME NEW n \in Nat, NEW S \in SUBSET (1..n)
  PROVE  /\ Cardinality(S) \in Nat
         /\ \A i \in 1..Cardinality(S) : Nth(S, i) \in S
         /\ \A k \in S : \E i \in 1..Cardinality(S) : Nth(S, i) = k
         /\ \A i, j \in 1..Cardinality(S) : i < j <=> Nth(S, i) < Nth(S, j)
  <1>1. /\ Cardinality(S) \in Nat
        /\ \A k \in S : Rank(S, k) \in 1..Cardinality(S)
        /\ \A k, l \in S : k < l => Rank(S, k) < Rank(S, l)
        /\ \A i \in 1..Cardinality(S) : \E k \in S : Rank(S, k) = i
    BY RanksInOrder
  <1>2. \A i \in 1..Cardinality(S) : Nth(S, i) \in S /\ Rank(S, Nth(S, i)) = i
    BY <1>1 DEF Nth
  <1>3. ASSUME NEW k \in S PROVE \E i \in 1..Cardinality(S) : Nth(S, i) = k
    <2>1. PICK i \in 1..Cardinality(S) : i = Rank(S, k)
      BY <1>1
    <2>2. PICK l \in S : l = Nth(S, i) /\ Rank(S, l) = i
      BY <1>2
    <2>3. k \in Int /\ l \in Int /\ i \in Int /\ ~(i < i)
      OBVIOUS
    <2>4. ~(k < l) /\ ~(l < k)
      BY <1>1, <2>1, <2>2, <2>3
    <2>5. k = l
      BY <2>3, <2>4
    <2>. QED
      BY <2>2, <2>5
  <1>4. ASSUME NEW i \in 1..Cardinality(S), NEW j \in 1..Cardinality(S)
        PROVE  i < j <=> Nth(S, i) < Nth(S, j)
    <2>1. PICK k \in S, l \in S : /\ k = Nth(S, i) /\ Rank(S, k) = i
                                  /\ l = Nth(S, j) /\ Rank(S, l) = j
      BY <1>2
    <2>2. (k < l => i < j) /\ (l < k => j < i) /\ (k = l => i = j)
      BY <1>1, <2>1
    <2>3. k \in Int /\ l \in Int /\ i \in Int /\ j \in Int
      BY <1>1
    <2>. QED
      BY <2>1, <2>2, <2>3
  <1>. QED
    BY <1>1, <1>2, <1>3, <1>4

\* A turn, and a sequence of them.
TurnLike(t) == /\ t = [id |-> t.id, role |-> t.role, calls |-> t.calls]
               /\ t.role \in {"user", "assistant", "tool"}
Prompted(s) == IsTurns(s) /\ \A i \in DOMAIN s : TurnLike(s[i])

\* i opens a sequence that the repair breaks up.
Broken(s, i) == Calls(s, i) /\ ~Complete(s, i)

LEMMA PromptPositions ==
  ASSUME NEW s, Prompted(s)
  PROVE  Len(s) \in Nat /\ DOMAIN s = 1..Len(s)
  BY DEF Prompted, IsTurns

\* A turn is dropped exactly if it is in the run of a broken sequence.
LEMMA KeptOrDropped ==
  ASSUME NEW s, Prompted(s), NEW k \in DOMAIN s
  PROVE  /\ k \in Kept(s) <=> ~\E i \in DOMAIN s : Broken(s, i) /\ InRun(s, i, k)
         /\ k \in Kept(s) =>
              /\ TurnLike(Repaired(s, k)) /\ Repaired(s, k).role = s[k].role
              /\ Repaired(s, k).calls = IF Broken(s, k) THEN {} ELSE s[k].calls
  <1>1. TurnLike(s[k])
    BY DEF Prompted
  <1>2. PICK v : v = [s[k] EXCEPT !.calls = IF Broken(s, k) THEN {} ELSE @]
    OBVIOUS
  <1>3. /\ TurnLike(v) /\ v.role = s[k].role /\ v.role # "dropped"
        /\ v.calls = IF Broken(s, k) THEN {} ELSE s[k].calls
    BY <1>1, <1>2 DEF TurnLike
  <1>4. Repaired(s, k) = IF \E i \in DOMAIN s : Broken(s, i) /\ InRun(s, i, k)
                         THEN Turn(0, "dropped", {}) ELSE v
    BY <1>2 DEF Repaired, Broken
  <1>5. Turn(0, "dropped", {}).role = "dropped"
    BY DEF Turn
  <1>. QED
    BY <1>3, <1>4, <1>5 DEF Kept

LEMMA RepairLists ==
  ASSUME NEW s, Prompted(s), NEW K, K = Kept(s), NEW r, r = Repair(s)
  PROVE  /\ K \subseteq DOMAIN s /\ DOMAIN r = 1..Cardinality(K) /\ Cardinality(K) \in Nat
         /\ Prompted(r)
         /\ \A i \in DOMAIN r : Nth(K, i) \in K /\ r[i] = Repaired(s, Nth(K, i))
         /\ \A k \in K : \E i \in DOMAIN r : Nth(K, i) = k
         /\ \A i, j \in DOMAIN r : i < j <=> Nth(K, i) < Nth(K, j)
  <1>1. Len(s) \in Nat /\ K \in SUBSET (1..Len(s)) /\ DOMAIN s = 1..Len(s)
    BY PromptPositions DEF Kept
  <1>2. PICK n : n = Cardinality(K)
    OBVIOUS
  <1>3. /\ n \in Nat
        /\ \A i \in 1..n : Nth(K, i) \in K
        /\ \A k \in K : \E i \in 1..n : Nth(K, i) = k
        /\ \A i, j \in 1..n : i < j <=> Nth(K, i) < Nth(K, j)
    BY <1>1, <1>2, NthLists
  <1>4. r = [i \in 1..n |-> Repaired(s, Nth(K, i))]
    BY <1>2 DEF Repair
  <1>5. DOMAIN r = 1..n /\ \A i \in 1..n : r[i] = Repaired(s, Nth(K, i))
    BY <1>4
  <1>6. \A i \in DOMAIN r : TurnLike(r[i])
    BY <1>1, <1>3, <1>5, KeptOrDropped
  <1>7. IsTurns(r)
    <2>1. r \in [1..n -> {r[i] : i \in 1..n}]
      BY <1>4
    <2>2. r \in Seq({r[i] : i \in 1..n})
      BY <1>3, <2>1
    <2>. QED
      BY <1>5, <2>2 DEF IsTurns
  <1>. QED
    BY <1>1, <1>2, <1>3, <1>5, <1>6, <1>7 DEF Prompted

\* A sequence that opens with assistant turn i and has k in its run lies
\* within no other run.
LEMMA RunsApart ==
  ASSUME NEW s, Prompted(s), NEW i \in DOMAIN s, NEW k \in DOMAIN s,
         s[i].role = "assistant", InRun(s, i, k)
  PROVE  /\ i \in Kept(s) /\ s[k].role = "tool" /\ i < k
         /\ k \in Kept(s) <=> ~Broken(s, i)
         /\ \A j \in (i + 1)..k : (j \in Kept(s) <=> ~Broken(s, i)) /\ s[j].role = "tool"
  <1>1. Len(s) \in Nat /\ DOMAIN s = 1..Len(s)
    BY PromptPositions
  <1>2. i < k /\ \A j \in (i + 1)..k : s[j].role = "tool"
    BY DEF InRun
  <1>3. ASSUME NEW j \in DOMAIN s, Broken(s, j), InRun(s, j, i) PROVE FALSE
    <2>1. j < i /\ \A m \in (j + 1)..i : s[m].role = "tool"
      BY <1>3 DEF InRun
    <2>2. i \in (j + 1)..i
      BY <1>1, <1>3, <2>1
    <2>. QED
      BY <2>1, <2>2
  <1>4. i \in Kept(s)
    BY <1>3, KeptOrDropped
  <1>5. ASSUME NEW j \in (i + 1)..k PROVE j \in Kept(s) <=> ~Broken(s, i)
    <2>1. j \in DOMAIN s /\ i < j /\ \A m \in (i + 1)..j : s[m].role = "tool"
      BY <1>1, <1>2, <1>5
    <2>2. InRun(s, i, j)
      BY <2>1 DEF InRun
    <2>3. ASSUME NEW h \in DOMAIN s, Broken(s, h), InRun(s, h, j) PROVE h = i
      <3>1. h < j /\ (\A m \in (h + 1)..j : s[m].role = "tool") /\ s[h].role = "assistant"
        BY <2>3 DEF InRun, Broken, Calls
      <3>2. ~(h < i)
        BY <1>1, <2>1, <3>1
      <3>3. ~(i < h)
        BY <1>1, <2>1, <3>1
      <3>. QED
        BY <1>1, <3>2, <3>3
    <2>. QED
      BY <2>1, <2>2, <2>3, KeptOrDropped
  <1>6. k \in (i + 1)..k
    BY <1>1, <1>2
  <1>. QED
    BY <1>2, <1>4, <1>5, <1>6

\* A run that is not broken is in the repaired prompt as it was.
LEMMA RunRepaired ==
  ASSUME NEW s, Prompted(s), NEW K, K = Kept(s), NEW r, r = Repair(s),
         NEW a \in DOMAIN r, NEW b \in DOMAIN r, NEW i \in DOMAIN s, NEW k \in DOMAIN s,
         i = Nth(K, a), k = Nth(K, b),
         s[i].role = "assistant", InRun(s, i, k), ~Broken(s, i)
  PROVE  /\ InRun(r, a, b) /\ r[a].role = "assistant"
         /\ r[a].calls = s[i].calls /\ r[b].calls = s[k].calls
  <1>1. /\ K \subseteq DOMAIN s /\ Len(s) \in Nat /\ DOMAIN s = 1..Len(s)
        /\ Cardinality(K) \in Nat /\ DOMAIN r = 1..Cardinality(K)
        /\ \A j \in DOMAIN r : Nth(K, j) \in K /\ r[j] = Repaired(s, Nth(K, j))
        /\ \A j, h \in DOMAIN r : j < h <=> Nth(K, j) < Nth(K, h)
    BY PromptPositions, RepairLists
  <1>2. i \in K /\ k \in K /\ s[k].role = "tool" /\ i < k /\ \A j \in (i + 1)..k : s[j].role = "tool"
    BY <1>1, RunsApart
  <1>3. ~Broken(s, k)
    BY <1>2 DEF Broken, Calls
  <1>4. r[a].role = s[i].role /\ r[a].calls = s[i].calls /\ r[b].calls = s[k].calls
    BY <1>1, <1>2, <1>3, KeptOrDropped
  <1>5. a < b
    BY <1>1, <1>2
  <1>6. ASSUME NEW j \in (a + 1)..b PROVE r[j].role = "tool"
    <2>1. PICK m : m = Nth(K, j)
      OBVIOUS
    <2>2. j \in DOMAIN r /\ a < j /\ ~(b < j)
      BY <1>1, <1>6
    <2>3. m \in K /\ m \in DOMAIN s /\ i < m /\ ~(k < m)
      BY <1>1, <2>1, <2>2
    <2>4. m \in (i + 1)..k
      BY <1>1, <2>3
    <2>5. s[m].role = "tool" /\ r[j] = Repaired(s, m)
      BY <1>1, <1>2, <2>1, <2>2, <2>4
    <2>6. Repaired(s, m).role = s[m].role
      BY <2>3, KeptOrDropped
    <2>. QED
      BY <2>5, <2>6
  <1>. QED
    BY <1>4, <1>5, <1>6 DEF InRun

\* The calls answered in the run after i.
Answers(s, i) == UNION {s[k].calls : k \in {j \in DOMAIN s : InRun(s, i, j)}}

\* Tool turn k is in the run of a turn that made its calls.
Follows(s, k) == \E i \in DOMAIN s : InRun(s, i, k) /\ Calls(s, i) /\ s[k].calls \subseteq s[i].calls

LEMMA RepairAnswers ==
  ASSUME NEW s, Prompted(s), NEW r, r = Repair(s), NEW a \in DOMAIN r, Calls(r, a)
  PROVE  Complete(r, a)
  <1>1. PICK K : K = Kept(s)
    OBVIOUS
  <1>2. /\ K \subseteq DOMAIN s
        /\ \A j \in DOMAIN r : Nth(K, j) \in K /\ r[j] = Repaired(s, Nth(K, j))
        /\ \A k \in K : \E j \in DOMAIN r : Nth(K, j) = k
    BY <1>1, RepairLists
  <1>3. PICK i \in DOMAIN s : i = Nth(K, a) /\ i \in K
    BY <1>2
  <1>4. r[a].role = s[i].role /\ r[a].calls = IF Broken(s, i) THEN {} ELSE s[i].calls
    BY <1>1, <1>2, <1>3, KeptOrDropped
  <1>5. ~Broken(s, i) /\ s[i].role = "assistant" /\ s[i].calls # {} /\ r[a].calls = s[i].calls
    BY <1>4 DEF Calls
  <1>6. s[i].calls \subseteq Answers(s, i)
    BY <1>5 DEF Broken, Calls, Complete, Answers
  <1>7. ASSUME NEW x \in r[a].calls PROVE x \in Answers(r, a)
    <2>1. PICK k \in DOMAIN s : InRun(s, i, k) /\ x \in s[k].calls
      BY <1>5, <1>6, <1>7 DEF Answers
    <2>2. k \in K
      BY <1>1, <1>5, <2>1, RunsApart
    <2>3. PICK b \in DOMAIN r : Nth(K, b) = k
      BY <1>2, <2>2
    <2>4. InRun(r, a, b) /\ r[b].calls = s[k].calls
      BY <1>1, <1>3, <1>5, <2>1, <2>3, RunRepaired
    <2>. QED
      BY <2>1, <2>4 DEF Answers
  <1>. QED
    BY <1>7 DEF Complete, Answers

LEMMA RepairFollows ==
  ASSUME NEW s, Prompted(s), NEW r, r = Repair(s), NEW b \in DOMAIN r, r[b].role = "tool"
  PROVE  \E k \in DOMAIN s : /\ s[k].role = "tool" /\ s[k].calls = r[b].calls
                             /\ Follows(s, k) => Follows(r, b)
  <1>1. PICK K : K = Kept(s)
    OBVIOUS
  <1>2. /\ K \subseteq DOMAIN s
        /\ \A j \in DOMAIN r : Nth(K, j) \in K /\ r[j] = Repaired(s, Nth(K, j))
        /\ \A k \in K : \E j \in DOMAIN r : Nth(K, j) = k
    BY <1>1, RepairLists
  <1>3. PICK k \in DOMAIN s : k = Nth(K, b) /\ k \in K
    BY <1>2
  <1>4. r[b].role = s[k].role /\ r[b].calls = IF Broken(s, k) THEN {} ELSE s[k].calls
    BY <1>1, <1>2, <1>3, KeptOrDropped
  <1>5. s[k].role = "tool" /\ s[k].calls = r[b].calls
    BY <1>4 DEF Broken, Calls
  <1>6. ASSUME Follows(s, k) PROVE Follows(r, b)
    <2>1. PICK i \in DOMAIN s : InRun(s, i, k) /\ Calls(s, i) /\ s[k].calls \subseteq s[i].calls
      BY <1>6 DEF Follows
    <2>2. s[i].role = "assistant" /\ s[i].calls # {}
      BY <2>1 DEF Calls
    <2>3. ~Broken(s, i) /\ i \in K
      BY <1>1, <1>3, <2>1, <2>2, RunsApart
    <2>4. PICK a \in DOMAIN r : Nth(K, a) = i
      BY <1>2, <2>3
    <2>5. InRun(r, a, b) /\ r[a].role = "assistant" /\ r[a].calls = s[i].calls
      BY <1>1, <1>3, <2>1, <2>2, <2>3, <2>4, RunRepaired
    <2>. QED
      BY <1>5, <2>1, <2>2, <2>5 DEF Follows, Calls
  <1>. QED
    BY <1>5, <1>6

-----------------------------------------------------------------------------
(* Tool turns and the turns that made their calls, as turns are appended, cut *)
(* and taken into a window.                                                 *)

\* The turns after the first n.
LEMMA SuffixIs ==
  ASSUME NEW s, Prompted(s), NEW n \in Nat, NEW q, q = SubSeq(s, n + 1, Len(s))
  PROVE  /\ Prompted(q) /\ Len(q) \in Nat /\ DOMAIN q = 1..Len(q)
         /\ \A i \in DOMAIN q : n + i \in DOMAIN s /\ q[i] = s[n + i]
         /\ \A k \in DOMAIN s : k > n => k - n \in DOMAIN q /\ q[k - n] = s[k]
         /\ n + Len(q) = Len(s) \/ q = <<>>
  <1>0. IsTurns(s) /\ Len(s) \in Nat /\ DOMAIN s = 1..Len(s) /\ \A i \in DOMAIN s : TurnLike(s[i])
    BY PromptPositions DEF Prompted
  <1>1. PICK S : S = {s[i] : i \in DOMAIN s}
    OBVIOUS
  <1>2. s \in Seq(S)
    BY <1>0, <1>1 DEF IsTurns
  <1>3. PICK f, l : f = n + 1 /\ l = Len(s)
    OBVIOUS
  <1>4. f \in Int /\ l \in Int /\ (\A i \in f..l : s[i] \in S) /\ q = SubSeq(s, f, l)
    BY <1>0, <1>1, <1>3
  <1>5. /\ q \in Seq(S) /\ Len(q) = (IF f <= l THEN l - f + 1 ELSE 0)
        /\ \A i \in 1..(l - f + 1) : q[i] = s[f + i - 1]
    <2>1. /\ SubSeq(s, f, l) \in Seq(S)
          /\ Len(SubSeq(s, f, l)) = (IF f <= l THEN l - f + 1 ELSE 0)
          /\ \A i \in 1..(l - f + 1) : SubSeq(s, f, l)[i] = s[f + i - 1]
      BY <1>4, SubSeqProperties
    <2>. QED
      BY <1>4, <2>1
  <1>6. Len(q) \in Nat /\ DOMAIN q = 1..Len(q)
    BY <1>5
  <1>7. IsTurns(q)
    <2>1. PICK m \in Nat : m = Len(q) /\ DOMAIN q = 1..m
      BY <1>6
    <2>2. PICK T : T = {q[i] : i \in DOMAIN q}
      OBVIOUS
    <2>3. q = [i \in 1..m |-> q[i]]
      BY <1>5, <2>1
    <2>4. q \in [1..m -> T]
      BY <2>1, <2>2, <2>3
    <2>5. q \in Seq(T)
      <3>1. q \in UNION {[1..n0 -> T] : n0 \in Nat}
        BY <2>1, <2>4
      <3>. QED
        BY <3>1, SeqDef, Zenon
    <2>. QED
      BY <2>2, <2>5 DEF IsTurns
  <1>8. ASSUME NEW i \in DOMAIN q PROVE n + i \in DOMAIN s /\ q[i] = s[n + i]
    <2>1. PICK m \in Nat : m = Len(q)
      BY <1>6
    <2>2. f <= l /\ m = l - f + 1 /\ i \in 1..m
      BY <1>5, <1>6, <1>8, <2>1
    <2>3. f + i - 1 = n + i /\ n + i \in 1..l
      BY <1>0, <1>3, <2>1, <2>2
    <2>4. q[i] = s[f + i - 1]
      BY <1>5, <2>2
    <2>. QED
      BY <1>0, <1>3, <2>3, <2>4
  <1>9. ASSUME NEW k \in DOMAIN s, k > n PROVE k - n \in DOMAIN q
    <2>1. k \in Int /\ k <= l /\ f <= l
      BY <1>0, <1>3, <1>9
    <2>2. Len(q) = l - f + 1
      BY <1>5, <2>1
    <2>. QED
      BY <1>0, <1>3, <1>6, <1>9, <2>1, <2>2
  <1>10. ASSUME NEW k \in DOMAIN s, k > n PROVE q[k - n] = s[k]
    <2>1. n + (k - n) = k
      BY <1>0
    <2>. QED
      BY <1>8, <1>9, <1>10, <2>1
  <1>11. n + Len(q) = Len(s) \/ q = <<>>
    <2>1. CASE f <= l
      BY <1>0, <1>3, <1>5, <2>1
    <2>2. CASE ~(f <= l)
      BY <1>5, <2>2, EmptySeq
    <2>. QED
      BY <2>1, <2>2
  <1>12. \A i \in DOMAIN q : TurnLike(q[i])
    BY <1>0, <1>8
  <1>. QED
    BY <1>6, <1>7, <1>8, <1>9, <1>10, <1>11, <1>12 DEF Prompted

\* No question was put before position k.
NoUserBefore(s, k) == \A j \in DOMAIN s : j < k => s[j].role # "user"

\* Tool turn k follows its calls, or the turns before it were cut.
Placed(s, k) == Follows(s, k) \/ NoUserBefore(s, k)

\* Nothing but responses came after i.
Open(s, i) == \A j \in DOMAIN s : j > i => s[j].role = "tool"

\* The calls in todo are those of a turn at the end, or it was cut.
Asking(s, todo) == \E i \in DOMAIN s : Calls(s, i) /\ Open(s, i) /\ todo \subseteq s[i].calls
Underway(s, todo) == Asking(s, todo) \/ NoUserBefore(s, Len(s) + 1)

\* Calls that have no response yet are in todo.
Owing(s, todo) ==
    \A i \in DOMAIN s : Calls(s, i) =>
        \A x \in s[i].calls : x \in Answers(s, i) \/ (Open(s, i) /\ x \in todo)

LEMMA SuffixPlaced ==
  ASSUME NEW s, Prompted(s), NEW n \in Nat, NEW q, q = SubSeq(s, n + 1, Len(s)),
         NEW k \in DOMAIN q, Placed(s, n + k)
  PROVE  Placed(q, k)
  <1>1. /\ Len(q) \in Nat /\ DOMAIN q = 1..Len(q)
        /\ \A i \in DOMAIN q : n + i \in DOMAIN s /\ q[i] = s[n + i]
        /\ \A i \in DOMAIN s : i > n => i - n \in DOMAIN q /\ q[i - n] = s[i]
    BY SuffixIs
  <1>2. k \in Nat /\ (\A j \in DOMAIN q : j \in Nat) /\ \A j \in DOMAIN s : j \in Nat
    BY <1>1, PromptPositions
  <1>3. CASE NoUserBefore(s, n + k)
    <2>1. ASSUME NEW j \in DOMAIN q, j < k PROVE q[j].role # "user"
      <3>1. n + j \in DOMAIN s /\ n + j < n + k /\ q[j] = s[n + j]
        BY <1>1, <1>2, <2>1
      <3>. QED
        BY <1>3, <3>1 DEF NoUserBefore
    <2>. QED
      BY <2>1 DEF Placed, NoUserBefore
  <1>4. ASSUME NEW i \in DOMAIN s, InRun(s, i, n + k), Calls(s, i), s[n + k].calls \subseteq s[i].calls
        PROVE  Placed(q, k)
    <2>1. i < n + k /\ \A j \in (i + 1)..(n + k) : s[j].role = "tool"
      BY <1>4 DEF InRun
    <2>2. CASE i > n
      <3>1. PICK h \in DOMAIN q : h = i - n /\ q[h] = s[i]
        BY <1>1, <2>2
      <3>2. h \in Int /\ i \in Int /\ h < k
        BY <1>2, <2>1, <3>1
      <3>3. ASSUME NEW j \in (h + 1)..k PROVE q[j].role = "tool"
        <4>0. j \in Int /\ h < j /\ j <= k
          BY <1>2, <3>2, <3>3
        <4>1. j \in DOMAIN q
          BY <1>1, <3>1, <4>0
        <4>2. n + j \in (i + 1)..(n + k)
          BY <1>2, <3>1, <3>2, <4>0
        <4>. QED
          BY <1>1, <2>1, <4>1, <4>2
      <3>4. InRun(q, h, k) /\ Calls(q, h) /\ q[k].calls \subseteq q[h].calls
        BY <1>1, <1>4, <3>1, <3>2, <3>3 DEF InRun, Calls
      <3>. QED
        BY <3>4 DEF Placed, Follows
    <2>3. CASE ~(i > n)
      <3>1. ASSUME NEW j \in DOMAIN q, j < k PROVE q[j].role # "user"
        <4>1. n + j \in (i + 1)..(n + k) /\ q[j] = s[n + j]
          BY <1>1, <1>2, <2>3, <3>1
        <4>. QED
          BY <2>1, <4>1
      <3>. QED
        BY <3>1 DEF Placed, NoUserBefore
    <2>. QED
      BY <2>2, <2>3
  <1>. QED
    BY <1>3, <1>4 DEF Placed, Follows

LEMMA SuffixUnderway ==
  ASSUME NEW s, Prompted(s), NEW n \in Nat, NEW q, q = SubSeq(s, n + 1, Len(s)),
         NEW todo
  PROVE  Underway(s, todo) => Underway(q, todo)
  <1>1. /\ Len(q) \in Nat /\ DOMAIN q = 1..Len(q)
        /\ \A i \in DOMAIN q : n + i \in DOMAIN s /\ q[i] = s[n + i]
        /\ \A i \in DOMAIN s : i > n => i - n \in DOMAIN q /\ q[i - n] = s[i]
    BY SuffixIs
  <1>2. (\A j \in DOMAIN q : j \in Nat) /\ \A j \in DOMAIN s : j \in Nat
    BY <1>1, PromptPositions
  <1>3. CASE NoUserBefore(s, Len(s) + 1)
    <2>1. \A j \in DOMAIN s : s[j].role # "user"
      BY <1>3, PromptPositions DEF NoUserBefore
    <2>. QED
      BY <1>1, <2>1 DEF Underway, NoUserBefore
  <1>4. ASSUME NEW i \in DOMAIN s, Calls(s, i), Open(s, i), todo \subseteq s[i].calls
        PROVE  Underway(q, todo)
    <2>1. CASE i > n
      <3>1. PICK h \in DOMAIN q : h = i - n /\ q[h] = s[i]
        BY <1>1, <2>1
      <3>2. ASSUME NEW j \in DOMAIN q, j > h PROVE q[j].role = "tool"
        <4>1. n + j \in DOMAIN s /\ n + j > i /\ q[j] = s[n + j]
          BY <1>1, <1>2, <3>1, <3>2
        <4>. QED
          BY <1>4, <4>1 DEF Open
      <3>. QED
        BY <1>4, <3>1, <3>2 DEF Underway, Asking, Open, Calls
    <2>2. CASE ~(i > n)
      <3>1. ASSUME NEW j \in DOMAIN q PROVE q[j].role # "user"
        <4>1. n + j \in DOMAIN s /\ n + j > i /\ q[j] = s[n + j]
          BY <1>1, <1>2, <2>2, <3>1
        <4>. QED
          BY <1>4, <4>1 DEF Open
      <3>. QED
        BY <3>1 DEF Underway, NoUserBefore
    <2>. QED
      BY <2>1, <2>2
  <1>. QED
    BY <1>3, <1>4 DEF Underway, Asking

\* A window is empty or starts with a question.
LEMMA WindowIs ==
  ASSUME NEW s, Prompted(s)
  PROVE  \/ Window(s) = <<>>
         \/ \E n \in Nat : /\ n + 1 \in DOMAIN s /\ s[n + 1].role = "user"
                           /\ Window(s) = SubSeq(s, n + 1, Len(s))
  <1>1. Len(s) \in Nat /\ DOMAIN s = 1..Len(s)
    BY PromptPositions
  <1>2. PICK from : from = IF Len(s) > MaxTurns THEN Len(s) - MaxTurns + 1 ELSE 1
    OBVIOUS
  <1>3. from \in Nat /\ from >= 1
    BY <1>1, <1>2, OrcaAssumption
  <1>4. PICK S : S = {i \in from..Len(s) : s[i].role = "user"}
    OBVIOUS
  <1>5. S \in SUBSET (1..Len(s)) /\ \A i \in S : s[i].role = "user"
    BY <1>1, <1>3, <1>4
  <1>6. Window(s) = IF S = {} THEN <<>>
                    ELSE SubSeq(s, CHOOSE i \in S : \A j \in S : i <= j, Len(s))
    BY <1>2, <1>4 DEF Window
  <1>7. ASSUME S # {} PROVE \E i \in S : \A j \in S : i <= j
    <2>1. /\ Cardinality(S) \in Nat
          /\ \A k \in S : Rank(S, k) \in 1..Cardinality(S)
          /\ \A k, l \in S : k < l => Rank(S, k) < Rank(S, l)
          /\ \A i \in 1..Cardinality(S) : \E k \in S : Rank(S, k) = i
      BY <1>1, <1>5, RanksInOrder
    <2>2. 1 \in 1..Cardinality(S)
      BY <1>7, <2>1
    <2>3. PICK i \in S : Rank(S, i) = 1
      BY <2>1, <2>2
    <2>4. ASSUME NEW j \in S PROVE i <= j
      <3>1. Rank(S, j) \in Int /\ Rank(S, j) >= 1
        BY <2>1
      <3>2. ~(j < i)
        BY <2>1, <2>3, <3>1
      <3>. QED
        BY <1>5, <3>2
    <2>. QED
      BY <2>4
  <1>8. ASSUME S # {}
        PROVE  \E n \in Nat : /\ n + 1 \in DOMAIN s /\ s[n + 1].role = "user"
                              /\ Window(s) = SubSeq(s, n + 1, Len(s))
    <2>1. PICK u \in S : Window(s) = SubSeq(s, u, Len(s))
      BY <1>6, <1>7, <1>8
    <2>2. u - 1 \in Nat /\ (u - 1) + 1 = u /\ u \in DOMAIN s
      BY <1>1, <1>5
    <2>. QED
      BY <1>5, <2>1, <2>2
  <1>. QED
    BY <1>6, <1>8

LEMMA Extended ==
  ASSUME NEW s, Prompted(s), NEW t, TurnLike(t), NEW q, q = Append(s, t)
  PROVE  /\ Prompted(q) /\ Len(s) \in Nat /\ DOMAIN s = 1..Len(s)
         /\ Len(q) = Len(s) + 1 /\ DOMAIN q = 1..(Len(s) + 1)
         /\ q[Len(s) + 1] = t /\ \A i \in DOMAIN s : q[i] = s[i]
         /\ \A i \in DOMAIN q : i \in DOMAIN s \/ i = Len(s) + 1
  <1>0. IsTurns(s) /\ Len(s) \in Nat /\ DOMAIN s = 1..Len(s) /\ \A i \in DOMAIN s : TurnLike(s[i])
    BY PromptPositions DEF Prompted
  <1>1. PICK S : S = {s[i] : i \in DOMAIN s} \cup {t}
    OBVIOUS
  <1>2. s \in Seq(S) /\ t \in S
    BY <1>1, <1>0 DEF IsTurns
  <1>3. /\ Len(q) = Len(s) + 1 /\ DOMAIN q = 1..(Len(s) + 1)
        /\ q[Len(s) + 1] = t /\ \A i \in DOMAIN s : q[i] = s[i]
    BY <1>0, <1>2
  <1>4. \A i \in DOMAIN q : i \in DOMAIN s \/ i = Len(s) + 1
    BY <1>0, <1>3
  <1>5. IsTurns(q)
    BY <1>0, TurnsAppended
  <1>6. \A i \in DOMAIN q : TurnLike(q[i])
    BY <1>0, <1>3, <1>4
  <1>. QED
    BY <1>0, <1>3, <1>4, <1>5, <1>6 DEF Prompted

\* A turn more changes nothing of where the others are.
LEMMA ExtendedRuns ==
  ASSUME NEW s, Prompted(s), NEW t, TurnLike(t), NEW q, q = Append(s, t)
  PROVE  /\ \A i, k \in DOMAIN s : InRun(s, i, k) => InRun(q, i, k)
         /\ \A i \in DOMAIN s : Calls(q, i) <=> Calls(s, i)
         /\ \A i \in DOMAIN s : \A z \in Answers(s, i) : z \in Answers(q, i)
         /\ \A k \in DOMAIN s : Follows(s, k) => Follows(q, k)
         /\ \A k \in DOMAIN s : Placed(s, k) => Placed(q, k)
  <1>1. /\ Len(s) \in Nat /\ DOMAIN s = 1..Len(s) /\ DOMAIN q = 1..(Len(s) + 1)
        /\ \A i \in DOMAIN s : q[i] = s[i]
        /\ \A i \in DOMAIN q : i \in DOMAIN s \/ i = Len(s) + 1
    BY Extended
  <1>2. \A i \in DOMAIN s : i \in DOMAIN q
    BY <1>1
  <1>3. ASSUME NEW i \in DOMAIN s, NEW k \in DOMAIN s, InRun(s, i, k) PROVE InRun(q, i, k)
    <2>1. \A j \in (i + 1)..k : j \in DOMAIN s
      BY <1>1
    <2>. QED
      BY <1>1, <1>3, <2>1 DEF InRun
  <1>4. \A i \in DOMAIN s : Calls(q, i) <=> Calls(s, i)
    BY <1>1 DEF Calls
  <1>5. \A i \in DOMAIN s : \A z \in Answers(s, i) : z \in Answers(q, i)
    BY <1>1, <1>2, <1>3 DEF Answers
  <1>6. \A k \in DOMAIN s : Follows(s, k) => Follows(q, k)
    BY <1>1, <1>2, <1>3, <1>4 DEF Follows
  <1>7. ASSUME NEW k \in DOMAIN s, NoUserBefore(s, k) PROVE NoUserBefore(q, k)
    <2>1. \A j \in DOMAIN q : j < k => j \in DOMAIN s
      BY <1>1
    <2>. QED
      BY <1>1, <1>7, <2>1 DEF NoUserBefore
  <1>. QED
    BY <1>3, <1>4, <1>5, <1>6, <1>7 DEF Placed

\* After a turn that answers no call, what has no response yet are its calls.
LEMMA ExtendedByCalls ==
  ASSUME NEW s, Prompted(s), NEW t, TurnLike(t), NEW q, q = Append(s, t)
  PROVE  /\ Owing(s, {}) => Owing(q, t.calls)
         /\ t.role = "assistant" /\ t.calls # {} => Asking(q, t.calls)
  <1>0. /\ \A i \in DOMAIN s : Calls(q, i) <=> Calls(s, i)
        /\ \A i \in DOMAIN s : \A z \in Answers(s, i) : z \in Answers(q, i)
    BY ExtendedRuns
  <1>9. \A i \in DOMAIN s : q[i] = s[i]
    BY Extended
  <1>1. /\ Len(s) \in Nat /\ DOMAIN s = 1..Len(s) /\ DOMAIN q = 1..(Len(s) + 1)
        /\ q[Len(s) + 1] = t
        /\ \A i \in DOMAIN q : i \in DOMAIN s \/ i = Len(s) + 1
    BY Extended
  <1>2. Open(q, Len(s) + 1)
    BY <1>1 DEF Open
  <1>3. ASSUME Owing(s, {}), NEW i \in DOMAIN q, Calls(q, i), NEW x \in q[i].calls
        PROVE  x \in Answers(q, i) \/ (Open(q, i) /\ x \in t.calls)
    <2>1. CASE i \in DOMAIN s
      <3>1. Calls(s, i) /\ x \in s[i].calls
        BY <1>0, <1>9, <1>3, <2>1
      <3>2. x \in Answers(s, i)
        BY <1>3, <2>1, <3>1 DEF Owing
      <3>. QED
        BY <1>0, <2>1, <3>2
    <2>2. CASE i = Len(s) + 1
      BY <1>1, <1>2, <1>3, <2>2
    <2>. QED
      BY <1>1, <2>1, <2>2
  <1>4. Owing(s, {}) => Owing(q, t.calls)
    BY <1>3 DEF Owing
  <1>5. ASSUME t.role = "assistant", t.calls # {} PROVE Asking(q, t.calls)
    <2>1. PICK i \in DOMAIN q : i = Len(s) + 1
      BY <1>1
    <2>2. Calls(q, i) /\ Open(q, i) /\ t.calls \subseteq q[i].calls
      BY <1>1, <1>2, <1>5, <2>1 DEF Calls
    <2>. QED
      BY <2>2 DEF Asking
  <1>. QED
    BY <1>4, <1>5

\* A response to a call that has none yet.
LEMMA ExtendedByResponse ==
  ASSUME NEW s, Prompted(s), NEW t, TurnLike(t), NEW q, q = Append(s, t),
         t.role = "tool", NEW todo, NEW x \in todo, t.calls = {x},
         NEW rest, rest = todo \ {x}
  PROVE  /\ Owing(s, todo) => Owing(q, rest)
         /\ Asking(s, todo) => Asking(q, rest) /\ Follows(q, Len(s) + 1)
         /\ Underway(s, todo) => Underway(q, rest) /\ Placed(q, Len(s) + 1)
  <1>0. /\ \A i \in DOMAIN s : Calls(q, i) <=> Calls(s, i)
        /\ \A i \in DOMAIN s : \A z \in Answers(s, i) : z \in Answers(q, i)
    BY ExtendedRuns
  <1>9. \A i \in DOMAIN s : q[i] = s[i]
    BY Extended
  <1>1. /\ Len(s) \in Nat /\ DOMAIN s = 1..Len(s) /\ DOMAIN q = 1..(Len(s) + 1)
        /\ q[Len(s) + 1] = t /\ Len(q) = Len(s) + 1
        /\ \A i \in DOMAIN s : q[i] = s[i]
        /\ \A i \in DOMAIN q : i \in DOMAIN s \/ i = Len(s) + 1
    BY Extended
  <1>2. PICK l \in DOMAIN q : l = Len(s) + 1 /\ q[l] = t
    BY <1>1
  <1>3. ASSUME NEW i \in DOMAIN s, Open(s, i) PROVE Open(q, i) /\ InRun(q, i, l)
    <2>1. \A j \in DOMAIN q : j > i => q[j].role = "tool"
      BY <1>1, <1>3 DEF Open
    <2>2. i < l /\ \A j \in (i + 1)..l : j \in DOMAIN q /\ j > i
      BY <1>1, <1>2
    <2>. QED
      BY <2>1, <2>2 DEF Open, InRun
  <1>4. ASSUME Owing(s, todo) PROVE Owing(q, rest)
    <2>1. ASSUME NEW i \in DOMAIN q, Calls(q, i), NEW y \in q[i].calls
          PROVE  y \in Answers(q, i) \/ (Open(q, i) /\ y \in rest)
      <3>1. q[i].role # "tool"
        BY <2>1 DEF Calls
      <3>2. i \in DOMAIN s
        BY <1>1, <3>1
      <3>3. Calls(s, i) /\ y \in s[i].calls
        BY <1>0, <1>9, <2>1, <3>2
      <3>4. CASE y \in Answers(s, i)
        BY <1>0, <3>2, <3>4
      <3>5. CASE Open(s, i) /\ y = x
        <4>1. InRun(q, i, l) /\ y \in q[l].calls
          BY <1>2, <1>3, <3>2, <3>5
        <4>. QED
          BY <1>2, <4>1 DEF Answers
      <3>6. CASE Open(s, i) /\ y \in todo /\ y # x
        BY <1>3, <3>2, <3>6
      <3>. QED
        BY <1>4, <3>2, <3>3, <3>4, <3>5, <3>6 DEF Owing
    <2>. QED
      BY <2>1 DEF Owing
  <1>5. ASSUME Asking(s, todo) PROVE Asking(q, rest) /\ Follows(q, l)
    <2>1. PICK i \in DOMAIN s : Calls(s, i) /\ Open(s, i) /\ todo \subseteq s[i].calls
      BY <1>5 DEF Asking
    <2>2. Calls(q, i) /\ q[i].calls = s[i].calls /\ i \in DOMAIN q
      BY <1>0, <1>9, <1>1, <2>1
    <2>3. Open(q, i) /\ InRun(q, i, l)
      BY <1>3, <2>1
    <2>4. rest \subseteq q[i].calls /\ q[l].calls \subseteq q[i].calls
      BY <1>2, <2>1, <2>2
    <2>. QED
      BY <2>2, <2>3, <2>4 DEF Asking, Follows
  <1>6. ASSUME NoUserBefore(s, l) PROVE NoUserBefore(q, l) /\ NoUserBefore(q, Len(q) + 1)
    <2>1. \A j \in DOMAIN s : q[j].role # "user"
      BY <1>1, <1>2, <1>6 DEF NoUserBefore
    <2>2. \A j \in DOMAIN q : q[j].role # "user"
      BY <1>1, <2>1
    <2>. QED
      BY <2>2 DEF NoUserBefore
  <1>. QED
    BY <1>2, <1>4, <1>5, <1>6 DEF Underway, Placed

-----------------------------------------------------------------------------
(* The questions.  Of two that meet in a conversation both count as mixed, so *)
(* the turns between the calls of one that is not mixed and their responses  *)
(* are its own; only a compaction can part them, from the front.             *)

\* A question in M made one of turn t's calls.
Beside(t, M) == \E call \in t.calls : call[1] \in M

TurnsFit(s, M) ==
    /\ Prompted(s)
    /\ \A k \in DOMAIN s : s[k].role = "tool" => Beside(s[k], M) \/ Placed(s, k)

PromptFits(s, M) ==
    /\ Prompted(s)
    /\ \A k \in DOMAIN s : s[k].role = "tool" => Beside(s[k], M) \/ Follows(s, k)

\* Question a with local variables v, where the conversations have turns T.
AskFits(a, v, T, M) ==
    /\ v.at \in {"new", "open"} => v.conv = None
    /\ v.at # "tools" => v.todo = {}
    /\ v.at \in {"chat", "tools"} => PromptFits(v.prompt, M) /\ Owing(v.prompt, v.todo)
    /\ v.at = "tools" =>
         /\ v.todo # {} /\ \A x \in v.todo : x[1] = a /\ x[3] \in {1, 2}
         /\ Asking(v.prompt, v.todo)
         /\ a \in M \/ Underway(T[v.conv], v.todo)

Alone ==
    \A a, b \in Ask :
        a # b /\ ask[a].conv = ask[b].conv /\ ask[a].conv \in Conv
        /\ ask[a].at # "done" /\ ask[b].at # "done" => a \in mixed

QInv == /\ \A c \in Conv : TurnsFit(turns[c], mixed)
        /\ \A a \in Ask : AskFits(a, ask[a], turns, mixed)
        /\ Alone

LEMMA MixedGrows ==
  ASSUME NEW M, NEW N, M \subseteq N
  PROVE  /\ \A s : TurnsFit(s, M) => TurnsFit(s, N)
         /\ \A s : PromptFits(s, M) => PromptFits(s, N)
         /\ \A a, v, T : AskFits(a, v, T, M) => AskFits(a, v, T, N)
  <1>1. \A t : Beside(t, M) => Beside(t, N)
    BY DEF Beside
  <1>2. \A s : PromptFits(s, M) => PromptFits(s, N)
    BY <1>1 DEF PromptFits
  <1>3. \A s : TurnsFit(s, M) => TurnsFit(s, N)
    BY <1>1 DEF TurnsFit
  <1>. QED
    BY <1>2, <1>3 DEF AskFits

\* The local variables of a question after each kind of step.
LEMMA AskEdits ==
  ASSUME NEW v, DOMAIN v = AskFields, NEW x, NEW y, NEW z, NEW w
  PROVE  /\ LET u == [v EXCEPT !.at = x]
            IN  u.at = x /\ u.conv = v.conv /\ u.prompt = v.prompt /\ u.todo = v.todo
         /\ LET u == [v EXCEPT !.at = x, !.conv = y]
            IN  u.at = x /\ u.conv = y /\ u.prompt = v.prompt /\ u.todo = v.todo
         /\ LET u == [v EXCEPT !.at = x, !.prompt = y]
            IN  u.at = x /\ u.conv = v.conv /\ u.prompt = y /\ u.todo = v.todo
         /\ LET u == [v EXCEPT !.at = x, !.todo = y, !.prompt = z]
            IN  u.at = x /\ u.conv = v.conv /\ u.prompt = z /\ u.todo = y
         /\ LET u == [v EXCEPT !.todo = x, !.prompt = y, !.iter = z, !.at = w]
            IN  u.at = w /\ u.conv = v.conv /\ u.prompt = y /\ u.todo = x
  BY DEF AskFields

\* A question goes on, and turns of its conversation may be added.
LEMMA QuestionGoesOn ==
  ASSUME MemoryTypes, QInv, NEW a \in Ask, NEW v, ask' = [ask EXCEPT ![a] = v],
         v.conv = ask[a].conv, ask[a].at # "done", mixed' = mixed,
         \A c \in Conv \ {ask[a].conv} : turns'[c] = turns[c],
         ask[a].conv \in Conv => TurnsFit(turns'[ask[a].conv], mixed),
         AskFits(a, v, turns', mixed)
  PROVE  QInv'
  <1>1. DOMAIN ask = Ask /\ \A b \in Ask : ask[b].at = "tools" => ask[b].conv \in Conv
    BY DEF MemoryTypes
  <1>2. ask'[a] = v /\ \A b \in Ask \ {a} : ask'[b] = ask[b]
    BY <1>1
  <1>3. \A c \in Conv : TurnsFit(turns'[c], mixed)
    BY DEF QInv
  <1>4. ASSUME NEW b \in Ask \ {a} PROVE AskFits(b, ask[b], turns', mixed)
    <2>1. AskFits(b, ask[b], turns, mixed)
      BY DEF QInv
    <2>2. ASSUME ask[b].at = "tools" PROVE b \in mixed \/ turns'[ask[b].conv] = turns[ask[b].conv]
      BY <1>1, <2>2 DEF QInv, Alone
    <2>. QED
      BY <2>1, <2>2 DEF AskFits
  <1>5. Alone'
    BY <1>2 DEF QInv, Alone
  <1>. QED
    BY <1>2, <1>3, <1>4, <1>5 DEF QInv

LEMMA QuestionOnly ==
  ASSUME MemoryTypes, QInv, NEW a \in Ask, NEW v, ask' = [ask EXCEPT ![a] = v],
         v.conv = ask[a].conv, ask[a].at # "done", mixed' = mixed, turns' = turns,
         AskFits(a, v, turns, mixed)
  PROVE  QInv'
  BY QuestionGoesOn DEF QInv

LEMMA TurnIs ==
  ASSUME NEW i, NEW r \in {"user", "assistant", "tool"}, NEW calls, NEW t, t = Turn(i, r, calls)
  PROVE  TurnLike(t) /\ t.role = r /\ t.calls = calls
  BY DEF Turn, TurnLike

LEMMA OneMoreFits ==
  ASSUME NEW s, NEW t, TurnLike(t), NEW q, q = Append(s, t), NEW M
  PROVE  /\ TurnsFit(s, M) /\ (t.role = "tool" => Beside(t, M) \/ Placed(q, Len(s) + 1))
            => TurnsFit(q, M)
         /\ PromptFits(s, M) /\ (t.role = "tool" => Beside(t, M) \/ Follows(q, Len(s) + 1))
            => PromptFits(q, M)
  <1>1. ASSUME TurnsFit(s, M), t.role = "tool" => Beside(t, M) \/ Placed(q, Len(s) + 1)
        PROVE  TurnsFit(q, M)
    <2>0. Prompted(s)
      BY <1>1 DEF TurnsFit
    <2>1. \A k \in DOMAIN s : s[k].role = "tool" => Beside(s[k], M) \/ Placed(s, k)
      BY <1>1 DEF TurnsFit
    <2>2. Prompted(q) /\ q[Len(s) + 1] = t
      BY <2>0, Extended
    <2>3. \A k \in DOMAIN s : q[k] = s[k]
      BY <2>0, Extended
    <2>4. \A k \in DOMAIN q : k \in DOMAIN s \/ k = Len(s) + 1
      BY <2>0, Extended
    <2>5. \A k \in DOMAIN s : Placed(s, k) => Placed(q, k)
      BY <2>0, ExtendedRuns
    <2>. QED
      BY <1>1, <2>1, <2>2, <2>3, <2>4, <2>5 DEF TurnsFit
  <1>2. ASSUME PromptFits(s, M), t.role = "tool" => Beside(t, M) \/ Follows(q, Len(s) + 1)
        PROVE  PromptFits(q, M)
    <2>0. Prompted(s)
      BY <1>2 DEF PromptFits
    <2>1. \A k \in DOMAIN s : s[k].role = "tool" => Beside(s[k], M) \/ Follows(s, k)
      BY <1>2 DEF PromptFits
    <2>2. Prompted(q) /\ q[Len(s) + 1] = t
      BY <2>0, Extended
    <2>3. \A k \in DOMAIN s : q[k] = s[k]
      BY <2>0, Extended
    <2>4. \A k \in DOMAIN q : k \in DOMAIN s \/ k = Len(s) + 1
      BY <2>0, Extended
    <2>5. \A k \in DOMAIN s : Follows(s, k) => Follows(q, k)
      BY <2>0, ExtendedRuns
    <2>. QED
      BY <1>2, <2>1, <2>2, <2>3, <2>4, <2>5 DEF PromptFits
  <1>. QED
    BY <1>1, <1>2

LEMMA AskResetFits ==
  ASSUME MemoryTypes, QInv, NEW a \in Ask, AskReset(a) \/ AskFails(a)
  PROVE  QInv'
  <1>1. PICK x : /\ ask' = [ask EXCEPT ![a].at = x] /\ mixed' = mixed /\ turns' = turns
                 /\ \/ x = "open" /\ ask[a].at = "new"
                    \/ x = "done" /\ ask[a].at = "chat"
    BY DEF AskReset, AskFails
  <1>2. DOMAIN ask = Ask /\ DOMAIN ask[a] = AskFields
    BY DEF MemoryTypes
  <1>3. PICK v : v = [ask[a] EXCEPT !.at = x]
    OBVIOUS
  <1>4. ask' = [ask EXCEPT ![a] = v]
    BY <1>1, <1>2, <1>3
  <1>5. v.at = x /\ v.conv = ask[a].conv /\ v.prompt = ask[a].prompt /\ v.todo = ask[a].todo
    BY <1>2, <1>3, AskEdits
  <1>6. AskFits(a, ask[a], turns, mixed)
    BY DEF QInv
  <1>7. AskFits(a, v, turns, mixed)
    BY <1>1, <1>5, <1>6 DEF AskFits
  <1>. QED
    BY <1>1, <1>4, <1>5, <1>7, QuestionOnly

LEMMA AskOpenFits ==
  ASSUME MemoryTypes, QInv, NEW a \in Ask, AskOpen(a)
  PROVE  QInv'
  <1>0. PICK c \in Conv :
           /\ ask' = [ask EXCEPT ![a].at = "user", ![a].conv = c]
           /\ LET others == {b \in Ask : ask[b].conv = c /\ ask[b].at # "done"}
              IN  mixed' = mixed \cup others \cup {x \in {a} : others # {}}
           /\ ask[a].at \in {"new", "open"} /\ turns' = turns
    BY DEF AskOpen
  <1>1. PICK others :
           /\ ask' = [ask EXCEPT ![a].at = "user", ![a].conv = c]
           /\ others = {b \in Ask : ask[b].conv = c /\ ask[b].at # "done"}
           /\ mixed' = mixed \cup others \cup {x \in {a} : others # {}}
           /\ ask[a].at \in {"new", "open"} /\ turns' = turns
    BY <1>0
  <1>2. DOMAIN ask = Ask /\ DOMAIN ask[a] = AskFields
    BY DEF MemoryTypes
  <1>3. PICK v : v = [ask[a] EXCEPT !.at = "user", !.conv = c]
    OBVIOUS
  <1>4. ask' = [ask EXCEPT ![a] = v]
    BY <1>1, <1>2, <1>3
  <1>5. v.at = "user" /\ v.conv = c /\ v.todo = ask[a].todo
    BY <1>2, <1>3, AskEdits
  <1>6. ask'[a] = v /\ \A b \in Ask \ {a} : ask'[b] = ask[b]
    BY <1>2, <1>4
  <1>7. mixed \subseteq mixed' /\ others \subseteq mixed' /\ (others # {} => a \in mixed')
    BY <1>1
  <1>8. AskFits(a, v, turns, mixed')
    <2>1. AskFits(a, ask[a], turns, mixed)
      BY DEF QInv
    <2>. QED
      BY <1>1, <1>5, <2>1 DEF AskFits
  <1>9. \A b \in Ask \ {a} : AskFits(b, ask[b], turns, mixed')
    BY <1>7, MixedGrows DEF QInv
  <1>10. \A d \in Conv : TurnsFit(turns[d], mixed')
    BY <1>7, MixedGrows DEF QInv
  <1>11. ASSUME NEW b \in Ask, NEW d \in Ask, b # d, ask'[b].conv = ask'[d].conv,
                ask'[b].conv \in Conv, ask'[b].at # "done", ask'[d].at # "done"
         PROVE  b \in mixed'
    <2>1. CASE b = a
      <3>1. d \in others
        BY <1>1, <1>5, <1>6, <1>11, <2>1
      <3>. QED
        BY <1>7, <2>1, <3>1
    <2>2. CASE d = a
      <3>1. b \in others
        BY <1>1, <1>5, <1>6, <1>11, <2>2
      <3>. QED
        BY <1>7, <3>1
    <2>3. CASE b # a /\ d # a
      BY <1>6, <1>7, <1>11, <2>3 DEF QInv, Alone
    <2>. QED
      BY <2>1, <2>2, <2>3
  <1>12. Alone'
    BY <1>11 DEF Alone
  <1>. QED
    BY <1>1, <1>6, <1>8, <1>9, <1>10, <1>12 DEF QInv

\* The prompt of a question is its conversation's window, repaired.
LEMMA PromptBuilt ==
  ASSUME NEW s, NEW M, TurnsFit(s, M), NEW r, r = Repair(Window(s))
  PROVE  PromptFits(r, M) /\ Owing(r, {})
  <1>1. PICK w : w = Window(s)
    OBVIOUS
  <1>2. Prompted(s)
    BY DEF TurnsFit
  <1>3. PromptFits(w, M)
    <2>1. CASE w = <<>>
      BY <2>1 DEF PromptFits, Prompted, IsTurns
    <2>2. ASSUME NEW n \in Nat, n + 1 \in DOMAIN s, s[n + 1].role = "user",
                 w = SubSeq(s, n + 1, Len(s))
          PROVE  PromptFits(w, M)
      <3>1. /\ Prompted(w) /\ Len(w) \in Nat /\ DOMAIN w = 1..Len(w)
            /\ \A i \in DOMAIN w : n + i \in DOMAIN s /\ w[i] = s[n + i]
            /\ \A k \in DOMAIN s : k > n => k - n \in DOMAIN w /\ w[k - n] = s[k]
        <4>1. PICK q : q = SubSeq(s, n + 1, Len(s))
          OBVIOUS
        <4>2. Prompted(q) /\ Len(q) \in Nat /\ DOMAIN q = 1..Len(q)
          BY <1>2, <4>1, SuffixIs
        <4>3. \A i \in DOMAIN q : n + i \in DOMAIN s /\ q[i] = s[n + i]
          BY <1>2, <4>1, SuffixIs
        <4>4. \A k \in DOMAIN s : k > n => k - n \in DOMAIN q /\ q[k - n] = s[k]
          BY <1>2, <4>1, SuffixIs
        <4>. QED
          BY <2>2, <4>1, <4>2, <4>3, <4>4
      <3>2. 1 \in DOMAIN w /\ w[1].role = "user"
        <4>1. n + 1 > n /\ (n + 1) - n = 1
          OBVIOUS
        <4>. QED
          BY <2>2, <3>1, <4>1
      <3>3. ASSUME NEW k \in DOMAIN w, w[k].role = "tool", ~Beside(w[k], M) PROVE Follows(w, k)
        <4>1. Placed(s, n + k)
          BY <3>1, <3>3 DEF TurnsFit
        <4>2. Placed(w, k)
          BY <1>2, <2>2, <4>1, SuffixPlaced
        <4>3. k # 1 /\ 1 < k
          BY <3>1, <3>2, <3>3
        <4>4. ~NoUserBefore(w, k)
          BY <3>2, <4>3 DEF NoUserBefore
        <4>. QED
          BY <4>2, <4>4 DEF Placed
      <3>. QED
        BY <3>1, <3>3 DEF PromptFits
    <2>. QED
      BY <1>1, <1>2, <2>1, <2>2, WindowIs
  <1>4. Prompted(w) /\ r = Repair(w)
    BY <1>1, <1>3 DEF PromptFits
  <1>5. Prompted(r)
    BY <1>4, RepairLists
  <1>6. ASSUME NEW b \in DOMAIN r, r[b].role = "tool" PROVE Beside(r[b], M) \/ Follows(r, b)
    <2>1. PICK k \in DOMAIN w : w[k].role = "tool" /\ w[k].calls = r[b].calls
                                /\ (Follows(w, k) => Follows(r, b))
      BY <1>4, <1>6, RepairFollows
    <2>. QED
      BY <1>3, <2>1 DEF PromptFits, Beside
  <1>7. ASSUME NEW i \in DOMAIN r, Calls(r, i), NEW x \in r[i].calls PROVE x \in Answers(r, i)
    <2>1. Complete(r, i)
      BY <1>4, <1>7, RepairAnswers
    <2>. QED
      BY <1>7, <2>1 DEF Complete, Answers
  <1>. QED
    BY <1>5, <1>6, <1>7 DEF PromptFits, Owing

LEMMA AskBuildFits ==
  ASSUME MemoryTypes, QInv, NEW a \in Ask, AskBuild(a)
  PROVE  QInv'
  <1>0. DOMAIN ask = Ask /\ DOMAIN ask[a] = AskFields /\ ask[a].at = "build" /\ ask[a].conv \in Conv
    BY DEF MemoryTypes, AskBuild
  <1>1. PICK p : p = Repair(Window(turns[ask[a].conv]))
    OBVIOUS
  <1>2. /\ ask' = [ask EXCEPT ![a].at = "chat", ![a].prompt = p]
        /\ mixed' = mixed /\ turns' = turns
    BY <1>1 DEF AskBuild, BuildMessages
  <1>3. PICK v : v = [ask[a] EXCEPT !.at = "chat", !.prompt = p]
    OBVIOUS
  <1>4. ask' = [ask EXCEPT ![a] = v]
    BY <1>0, <1>2, <1>3
  <1>5. v.at = "chat" /\ v.conv = ask[a].conv /\ v.prompt = p /\ v.todo = ask[a].todo
    BY <1>0, <1>3, AskEdits
  <1>6. PromptFits(p, mixed) /\ Owing(p, {})
    <2>1. TurnsFit(turns[ask[a].conv], mixed)
      BY <1>0 DEF QInv
    <2>. QED
      BY <1>1, <2>1, PromptBuilt
  <1>7. v.todo = {}
    BY <1>0, <1>5 DEF QInv, AskFits
  <1>8. AskFits(a, v, turns, mixed)
    BY <1>5, <1>6, <1>7 DEF AskFits
  <1>. QED
    BY <1>0, <1>2, <1>4, <1>5, <1>8, QuestionOnly

\* A question appends a turn that needs no other: its own, or an answer.
LEMMA AskSaysFits ==
  ASSUME MemoryTypes, QInv, NEW a \in Ask, AskUser(a) \/ AskAnswered(a)
  PROVE  QInv'
  <1>1. PICK x \in {"build", "done"}, r \in {"user", "assistant"} :
           /\ ask' = [ask EXCEPT ![a].at = x] /\ mixed' = mixed
           /\ Append1(ask[a].conv, r, {})
           /\ ask[a].at \in {"user", "chat"}
    BY DEF AskUser, AskAnswered
  <1>2. PICK c \in Conv : c = ask[a].conv
    BY <1>1 DEF MemoryTypes
  <1>3. DOMAIN ask = Ask /\ DOMAIN ask[a] = AskFields /\ DOMAIN turns = Conv
    BY DEF MemoryTypes
  <1>4. PICK v : v = [ask[a] EXCEPT !.at = x]
    OBVIOUS
  <1>5. ask' = [ask EXCEPT ![a] = v]
    BY <1>1, <1>3, <1>4
  <1>6. v.at = x /\ v.conv = c /\ v.todo = ask[a].todo
    BY <1>2, <1>3, <1>4, AskEdits
  <1>7. AskFits(a, v, turns', mixed)
    BY <1>1, <1>6 DEF QInv, AskFits
  <1>8. PICK t : t = Turn(NewId(c), r, {})
    OBVIOUS
  <1>9. PICK q : q = Append(turns[c], t)
    OBVIOUS
  <1>10. turns' = [turns EXCEPT ![c] = q]
    BY <1>1, <1>2, <1>8, <1>9 DEF Append1
  <1>11. turns'[c] = q /\ \A d \in Conv \ {c} : turns'[d] = turns[d]
    BY <1>3, <1>10
  <1>12. TurnsFit(q, mixed)
    <2>1. TurnsFit(turns[c], mixed)
      BY DEF QInv
    <2>2. TurnLike(t) /\ t.role # "tool"
      BY <1>8, TurnIs
    <2>. QED
      BY <1>9, <2>1, <2>2, OneMoreFits
  <1>. QED
    BY <1>1, <1>2, <1>5, <1>6, <1>7, <1>11, <1>12, QuestionGoesOn

LEMMA AskCallsFits ==
  ASSUME MemoryTypes, QInv, NEW a \in Ask, AskCalls(a)
  PROVE  QInv'
  <1>0. PICK c \in Conv : c = ask[a].conv /\ ask[a].at = "chat"
    BY DEF MemoryTypes, AskCalls
  <1>1. PICK n \in 1..2 :
           LET calls == {<<a, ask[a].iter, k>> : k \in 1..n}
           IN  /\ Append1(c, "assistant", calls)
               /\ ask' = [ask EXCEPT
                      ![a].at = "tools", ![a].todo = calls,
                      ![a].prompt = Append(@, Turn(NewId(c), "assistant", calls))]
    BY <1>0 DEF AskCalls
  <1>2. PICK calls : calls = {<<a, ask[a].iter, k>> : k \in 1..n}
    OBVIOUS
  <1>3. calls # {} /\ \A x \in calls : x[1] = a /\ x[3] \in {1, 2}
    <2>1. 1 \in 1..n /\ \A k \in 1..n : k \in {1, 2}
      OBVIOUS
    <2>2. <<a, ask[a].iter, 1>> \in calls
      BY <1>2, <2>1
    <2>3. ASSUME NEW x \in calls PROVE x[1] = a /\ x[3] \in {1, 2}
      <3>1. PICK k \in 1..n : x = <<a, ask[a].iter, k>>
        BY <1>2
      <3>. QED
        BY <2>1, <3>1
    <2>. QED
      BY <2>2, <2>3
  <1>4. PICK t : t = Turn(NewId(c), "assistant", calls)
    OBVIOUS
  <1>5. TurnLike(t) /\ t.role = "assistant" /\ t.calls = calls
    BY <1>4, TurnIs
  <1>6. PICK s, p : s = Append(turns[c], t) /\ p = Append(ask[a].prompt, t)
    OBVIOUS
  <1>7. DOMAIN ask = Ask /\ DOMAIN ask[a] = AskFields /\ DOMAIN turns = Conv
    BY DEF MemoryTypes
  <1>8. /\ turns' = [turns EXCEPT ![c] = s] /\ mixed' = mixed
        /\ ask' = [ask EXCEPT ![a].at = "tools", ![a].todo = calls, ![a].prompt = p]
    BY <1>1, <1>2, <1>4, <1>6, <1>7 DEF Append1, AskCalls
  <1>9. PICK v : v = [ask[a] EXCEPT !.at = "tools", !.todo = calls, !.prompt = p]
    OBVIOUS
  <1>10. ask' = [ask EXCEPT ![a] = v]
    BY <1>7, <1>8, <1>9
  <1>11. v.at = "tools" /\ v.conv = c /\ v.prompt = p /\ v.todo = calls
    BY <1>0, <1>7, <1>9, AskEdits
  <1>12. turns'[c] = s /\ \A d \in Conv \ {c} : turns'[d] = turns[d]
    BY <1>7, <1>8
  <1>13. TurnsFit(turns[c], mixed) /\ PromptFits(ask[a].prompt, mixed) /\ Owing(ask[a].prompt, {})
    BY <1>0 DEF QInv, AskFits
  <1>14. TurnsFit(s, mixed) /\ PromptFits(p, mixed)
    <2>1. TurnsFit(s, mixed)
      BY <1>5, <1>6, <1>13, OneMoreFits
    <2>2. PICK u : u = ask[a].prompt
      OBVIOUS
    <2>3. p = Append(u, t) /\ PromptFits(u, mixed) /\ t.role # "tool" /\ TurnLike(t)
      BY <1>5, <1>6, <1>13, <2>2
    <2>4. PromptFits(p, mixed)
      BY <2>3, OneMoreFits
    <2>. QED
      BY <2>1, <2>4
  <1>15. Asking(s, calls)
    <2>1. Prompted(turns[c])
      BY <1>13 DEF TurnsFit
    <2>. QED
      BY <1>3, <1>5, <1>6, <2>1, ExtendedByCalls
  <1>16. Owing(p, calls) /\ Asking(p, calls)
    <2>1. Prompted(ask[a].prompt)
      BY <1>13 DEF PromptFits
    <2>. QED
      BY <1>3, <1>5, <1>6, <1>13, <2>1, ExtendedByCalls
  <1>17. AskFits(a, v, turns', mixed)
    BY <1>3, <1>11, <1>12, <1>14, <1>15, <1>16 DEF AskFits, Underway
  <1>. QED
    BY <1>0, <1>8, <1>10, <1>11, <1>12, <1>14, <1>17, QuestionGoesOn

LEMMA AskToolFits ==
  ASSUME MemoryTypes, QInv, NEW a \in Ask, AskTool(a)
  PROVE  QInv'
  <1>0. /\ ask[a].at = "tools" /\ mixed' = mixed
        /\ DOMAIN ask = Ask /\ DOMAIN ask[a] = AskFields /\ DOMAIN turns = Conv
    BY DEF MemoryTypes, AskTool
  <1>1. PICK c \in Conv : c = ask[a].conv
    BY <1>0 DEF MemoryTypes
  <1>2. PICK todo : todo = ask[a].todo
    OBVIOUS
  <1>3. PICK call : call = CHOOSE x \in todo : \A y \in todo : x[3] <= y[3]
    OBVIOUS
  <1>4. PICK rest : rest = todo \ {call}
    OBVIOUS
  <1>5. PICK t : t = Turn(NewId(c), "tool", {call})
    OBVIOUS
  <1>6. PICK s, p : s = Append(turns[c], t) /\ p = Append(ask[a].prompt, t)
    OBVIOUS
  <1>7. PICK i, x :
           /\ Append1(c, "tool", {call})
           /\ x = "done" \/ x = (IF rest = {} THEN "chat" ELSE "tools")
           /\ x = "done" => rest = {}
           /\ ask' = [ask EXCEPT
                  ![a].todo = rest,
                  ![a].prompt = Append(@, Turn(NewId(c), "tool", {call})),
                  ![a].iter = i, ![a].at = x]
    BY <1>1, <1>2, <1>3, <1>4 DEF AskTool
  <1>8. call \in todo /\ call[1] = a /\ \A y \in todo : y[1] = a /\ y[3] \in {1, 2}
    <2>1. todo # {} /\ \A y \in todo : y[1] = a /\ y[3] \in {1, 2}
      BY <1>0, <1>2 DEF QInv, AskFits
    <2>2. \E y \in todo : \A z \in todo : y[3] <= z[3]
      <3>1. CASE \E y \in todo : y[3] = 1
        BY <2>1, <3>1
      <3>2. CASE \A y \in todo : y[3] = 2
        BY <2>1, <3>2
      <3>. QED
        BY <2>1, <3>1, <3>2
    <2>. QED
      BY <1>3, <2>1, <2>2
  <1>9. TurnLike(t) /\ t.role = "tool" /\ t.calls = {call}
    BY <1>5, TurnIs
  <1>10. turns' = [turns EXCEPT ![c] = s] /\ turns'[c] = s /\ \A d \in Conv \ {c} : turns'[d] = turns[d]
    BY <1>0, <1>5, <1>6, <1>7 DEF Append1
  <1>11. PICK v : v = [ask[a] EXCEPT !.todo = rest, !.prompt = p, !.iter = i, !.at = x]
    OBVIOUS
  <1>12. ask' = [ask EXCEPT ![a] = v]
    BY <1>0, <1>5, <1>6, <1>7, <1>11
  <1>13. v.at = x /\ v.conv = c /\ v.prompt = p /\ v.todo = rest
    BY <1>0, <1>1, <1>11, AskEdits
  <1>14. PICK u : u = ask[a].prompt
    OBVIOUS
  <1>15. /\ PromptFits(u, mixed) /\ Owing(u, todo) /\ Asking(u, todo)
         /\ a \in mixed \/ Underway(turns[c], todo)
         /\ Prompted(u)
    BY <1>0, <1>1, <1>2, <1>14 DEF QInv, AskFits, PromptFits
  <1>16. PICK w : w = turns[c] /\ TurnsFit(w, mixed) /\ Prompted(w)
    BY DEF QInv, TurnsFit
  <1>17. p = Append(u, t) /\ s = Append(w, t)
    BY <1>6, <1>14, <1>16
  <1>18. Owing(p, rest) /\ Asking(p, rest) /\ Follows(p, Len(u) + 1)
    <2>1. Owing(u, todo) => Owing(p, rest)
      BY <1>4, <1>8, <1>9, <1>15, <1>17, ExtendedByResponse
    <2>2. Asking(u, todo) => Asking(p, rest) /\ Follows(p, Len(u) + 1)
      BY <1>4, <1>8, <1>9, <1>15, <1>17, ExtendedByResponse
    <2>. QED
      BY <1>15, <2>1, <2>2
  <1>19. Underway(w, todo) => Underway(s, rest) /\ Placed(s, Len(w) + 1)
    <2>1. Prompted(w) /\ call \in todo /\ s = Append(w, t) /\ t.calls = {call}
      BY <1>8, <1>9, <1>16, <1>17
    <2>2. Underway(w, todo) => Underway(s, rest)
      BY <1>4, <1>9, <2>1, ExtendedByResponse
    <2>3. Underway(w, todo) => Placed(s, Len(w) + 1)
      BY <1>4, <1>9, <2>1, ExtendedByResponse
    <2>. QED
      BY <2>2, <2>3
  <1>20. PromptFits(p, mixed)
    BY <1>9, <1>15, <1>17, <1>18, OneMoreFits
  <1>21. a \in mixed => Beside(t, mixed)
    BY <1>8, <1>9 DEF Beside
  <1>22. TurnsFit(s, mixed)
    <2>1. Beside(t, mixed) \/ Placed(s, Len(w) + 1)
      BY <1>15, <1>16, <1>19, <1>21
    <2>. QED
      BY <1>9, <1>16, <1>17, <2>1, OneMoreFits
  <1>23. AskFits(a, v, turns', mixed)
    <2>1. x = "done" \/ x = "chat" \/ x = "tools"
      BY <1>7
    <2>2. x # "tools" => rest = {}
      BY <1>7
    <2>3. x = "tools" => rest # {}
      BY <1>7
    <2>4. \A y \in rest : y[1] = a /\ y[3] \in {1, 2}
      BY <1>4, <1>8
    <2>5. a \in mixed \/ Underway(turns'[v.conv], rest)
      BY <1>10, <1>13, <1>15, <1>16, <1>19
    <2>. QED
      BY <1>13, <1>18, <1>20, <2>1, <2>2, <2>3, <2>4, <2>5 DEF AskFits
  <1>. QED
    BY <1>0, <1>1, <1>10, <1>12, <1>13, <1>22, <1>23, QuestionGoesOn

\* A compaction cuts turns off the front, if it changes them at all.
LEMMA CompactionFits ==
  ASSUME MemoryTypes, QInv, NEW k \in Compaction, MaybeCompact(k)
  PROVE  QInv'
  <1>1. /\ ask' = ask /\ mixed' = mixed
        /\ turns' = turns \/ CompactApply(k)
    BY DEF MaybeCompact, CompactRead, CompactCut, CompactFails, CompactApply
  <1>2. Alone'
    BY <1>1 DEF QInv, Alone
  <1>3. CASE turns' = turns
    BY <1>1, <1>2, <1>3 DEF QInv
  <1>4. CASE CompactApply(k)
    <2>1. PICK c \in Conv : c = compact[k].conv
      BY <1>4 DEF CompactApply, MemoryTypes
    <2>2. PICK n \in Nat : n = compact[k].cutoff
      BY <1>4 DEF CompactApply, MemoryTypes
    <2>3. PICK s, q : s = turns[c] /\ q = SubSeq(s, n + 1, Len(s))
      OBVIOUS
    <2>4. turns' = [turns EXCEPT ![c] = q]
      BY <1>4, <2>1, <2>2, <2>3 DEF CompactApply
    <2>5. turns'[c] = q /\ \A d \in Conv \ {c} : turns'[d] = turns[d]
      BY <2>4 DEF MemoryTypes
    <2>6. TurnsFit(s, mixed)
      BY <2>3 DEF QInv
    <2>7. Prompted(s)
      BY <2>6 DEF TurnsFit
    <2>8. TurnsFit(q, mixed)
      <3>1. Prompted(q)
        BY <2>3, <2>7, SuffixIs
      <3>2. \A i \in DOMAIN q : n + i \in DOMAIN s /\ q[i] = s[n + i]
        BY <2>3, <2>7, SuffixIs
      <3>3. \A i \in DOMAIN q : Placed(s, n + i) => Placed(q, i)
        BY <2>3, <2>7, SuffixPlaced
      <3>. QED
        BY <2>6, <3>1, <3>2, <3>3 DEF TurnsFit
    <2>9. \A todo : Underway(s, todo) => Underway(q, todo)
      <3>1. q = SubSeq(s, n + 1, Len(s))
        BY <2>3
      <3>2. ASSUME NEW todo PROVE Underway(s, todo) => Underway(q, todo)
        BY <2>7, <3>1, SuffixUnderway
      <3>. QED
        BY <3>2
    <2>10. ASSUME NEW a \in Ask PROVE AskFits(a, ask[a], turns', mixed)
      <3>1. AskFits(a, ask[a], turns, mixed)
        BY DEF QInv
      <3>2. ask[a].at = "tools" => ask[a].conv \in Conv
        BY DEF MemoryTypes
      <3>3. ask[a].at = "tools" /\ Underway(turns[ask[a].conv], ask[a].todo)
            => Underway(turns'[ask[a].conv], ask[a].todo)
        BY <2>3, <2>5, <2>9, <3>2
      <3>. QED
        BY <3>1, <3>3 DEF AskFits
    <2>11. \A d \in Conv : TurnsFit(turns'[d], mixed)
      BY <2>5, <2>8 DEF QInv
    <2>. QED
      BY <1>1, <1>2, <2>10, <2>11 DEF QInv
  <1>. QED
    BY <1>1, <1>3, <1>4

LEMMA QuestionsStart == Init => QInv
  <1>. SUFFICES ASSUME Init PROVE QInv
    OBVIOUS
  <1>1. /\ turns = [c \in Conv |-> IF c = 1 THEN Exchanges ELSE <<>>]
        /\ ask = [a \in Ask |-> Asleep] /\ mixed = {}
    BY DEF Init
  <1>2. MemoryTypes
    BY MemoryInit DEF MInv
  <1>3. DOMAIN Exchanges = 1..(2 * Past)
        /\ \A i \in 1..(2 * Past) : TurnLike(Exchanges[i]) /\ Exchanges[i].role # "tool"
    BY DEF Exchanges, Turn, TurnLike
  <1>4. ASSUME NEW c \in Conv PROVE TurnsFit(turns[c], mixed)
    <2>1. IsTurns(turns[c])
      BY <1>2 DEF MemoryTypes
    <2>2. turns[c] = Exchanges \/ turns[c] = <<>>
      BY <1>1
    <2>3. \A i \in DOMAIN turns[c] : TurnLike(turns[c][i]) /\ turns[c][i].role # "tool"
      <3>1. CASE turns[c] = Exchanges
        BY <1>3, <3>1
      <3>2. CASE turns[c] = <<>>
        BY <3>2
      <3>. QED
        BY <2>2, <3>1, <3>2
    <2>. QED
      BY <2>1, <2>3 DEF TurnsFit, Prompted
  <1>5. ASSUME NEW a \in Ask PROVE AskFits(a, ask[a], turns, mixed)
    BY <1>1 DEF AskFits, Asleep
  <1>6. Alone
    BY <1>1, OrcaAssumption DEF Alone, Asleep
  <1>. QED
    BY <1>4, <1>5, <1>6 DEF QInv

LEMMA QuestionsStep == MInv /\ QInv /\ [Next]_vars => QInv'
  <1>. SUFFICES ASSUME MInv, QInv, [Next]_vars PROVE QInv'
    OBVIOUS
  <1>1. MemoryTypes
    BY DEF MInv
  <1>2. ASSUME NEW a \in Ask, Question(a) PROVE QInv'
    BY <1>1, <1>2, AskResetFits, AskOpenFits, AskSaysFits, AskBuildFits, AskCallsFits, AskToolFits
       DEF Question
  <1>3. CASE UNCHANGED vars
    BY <1>3 DEF vars, QInv, Alone
  <1>. QED
    BY <1>1, <1>2, <1>3, CompactionFits DEF Next

LEMMA MemoryInvariant == Spec => []MInv
  BY MemoryInit, MemoryStep, PTL DEF Spec

LEMMA QuestionsInvariant == Spec => []QInv
  BY QuestionsStart, QuestionsStep, MemoryInvariant, PTL DEF Spec

\* In every prompt, each of an assistant turn's calls has its response in the
\* run of tool turns right after it, whatever turns other questions appended
\* in between and wherever the window begins: repairToolCallSequences makes a
\* prompt so, and a question adds its own calls and responses in order.
THEOREM EveryCallAnswered == Spec => []CallsAnswered
  <1>1. ASSUME QInv, NEW a \in Ask, ask[a].at = "chat", NEW i \in DOMAIN ask[a].prompt,
               Calls(ask[a].prompt, i)
        PROVE  Complete(ask[a].prompt, i)
    <2>1. Owing(ask[a].prompt, {})
      BY <1>1 DEF QInv, AskFits
    <2>. QED
      BY <1>1, <2>1 DEF Owing, Complete, Answers
  <1>2. QInv => CallsAnswered
    BY <1>1 DEF CallsAnswered
  <1>. QED
    BY <1>2, QuestionsInvariant, PTL

\* In every prompt, each tool turn is in the run of the assistant turn that
\* made its call, unless another question was under way beside the one that
\* made it: BuildMessages starts its window at a user turn, and what maxTurns
\* or MaybeCompact cut off before it takes no calls from the responses after.
THEOREM EveryResponseCalled == Spec => []NoOrphanResponse
  <1>1. ASSUME QInv, NEW a \in Ask, ask[a].at = "chat", NEW k \in DOMAIN ask[a].prompt,
               ask[a].prompt[k].role = "tool"
        PROVE  Beside(ask[a].prompt[k], mixed) \/ Follows(ask[a].prompt, k)
    <2>1. PromptFits(ask[a].prompt, mixed)
      BY <1>1 DEF QInv, AskFits
    <2>. QED
      BY <1>1, <2>1 DEF PromptFits
  <1>2. QInv => NoOrphanResponse
    BY <1>1 DEF NoOrphanResponse, Beside, Follows
  <1>. QED
    BY <1>2, QuestionsInvariant, PTL
=============================================================================
