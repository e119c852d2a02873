-------------------------- MODULE SentryRateProofs --------------------------
(***************************************************************************)
(* Proofs about the rate rules of SentryDaemon: on an orderly connection   *)
(* none of them is wrong about a user whose record was not evicted, for    *)
(* any number of users, lines, windows and limits no longer than these.    *)
(*                                                                         *)
(* What every user did in the last minute is accounted for, line by line:  *)
(* what its windows hold, what waits before the reader, and what a window  *)
(* has dropped, which it does only when it is still full without it.       *)
(***************************************************************************)
EXTENDS SentryProofs, SequenceTheorems

-----------------------------------------------------------------------------
(* The rate rules of an orderly connection.  What is followed for a user is *)
(* how many events of each kind its windows hold since a time t, how many   *)
(* lines of it are not counted yet, and how many things it has done.        *)

\* How many of the first n elements of s are in S.
Hits(s, S, n) == Cardinality({j \in 1..n : s[j] \in S})
One(e, S) == IF e \in S THEN 1 ELSE 0

\* The windows, the events that go into each, and the window of record q.
Classes == {"msgs", "joins", "nicks", "hops", "pms", "mentions"}
Into(X, l) == CASE X = "msgs"     -> l.kind \in Messages
                [] X = "joins"    -> l.kind = "join"
                [] X = "nicks"    -> l.kind = "nick"
                [] X = "hops"     -> l.kind \in {"join", "part", "kick"}
                [] X = "pms"      -> l.kind = "usermsg"
                [] X = "mentions" -> l.kind = "chanmsg" /\ l.body.mentions >= 3
Seen(X, q) == CASE X = "msgs"     -> q.recentMsgs
                [] X = "joins"    -> q.recentJoins
                [] X = "nicks"    -> q.recentNicks
                [] X = "hops"     -> q.recentHops
                [] X = "pms"      -> q.recentUserMsg
                [] X = "mentions" -> q.recentMentions
Bound(X) == CASE X \in {"msgs", "pms", "mentions"} -> MaxRecentMessages
              [] X = "joins"                       -> MaxRecentJoins
              [] X \in {"nicks", "hops"}           -> MaxRecentEvents

\* What a window keeps of an event, and when that was.
PrivateMessages == [at : Nat, target : Nicks, body : Bodies]
Entries(X) == IF X = "msgs" THEN WindowMessages ELSE IF X = "pms" THEN PrivateMessages ELSE Nat
EntryOf(X, l) == IF X = "msgs" THEN [at |-> l.at, body |-> l.body]
                 ELSE IF X = "pms" THEN [at |-> l.at, target |-> l.target, body |-> l.body]
                 ELSE l.at
AtOf(X, e) == IF X \in {"msgs", "pms"} THEN e.at ELSE e

\* Since time t: entries of a window, lines of u, and things done.
Since(X, t) == {e \in Entries(X) : AtOf(X, e) >= t}
Of(u, X, t) == {e \in Told : Into(X, e.line) /\ e.line.uid = u /\ e.line.at >= t}
Doing(X, t) == {l \in SentLines : Into(X, l) /\ l.at >= t}

\* The rules that count: the window each counts in, and what it takes.
CountRules == RateRules \ Searching
ClassOf(k) == CASE k = "flood"         -> "msgs"
                [] k = "mass_join"     -> "joins"
                [] k = "nick_flip"     -> "nicks"
                [] k = "hop_flood"     -> "hops"
                [] k = "pm_flood"      -> "pms"
                [] k = "mention_storm" -> "mentions"
LimitOf(k) == CASE k = "flood"         -> Limit.flood
                [] k = "mass_join"     -> Limit.joins
                [] k = "nick_flip"     -> Limit.nicks
                [] k = "hop_flood"     -> Limit.hops
                [] k = "pm_flood"      -> Limit.pms
                [] k = "mention_storm" -> Limit.mentions
Triggers(k, l) == CASE k = "flood"         -> l.kind \in Talk
                    [] k = "mass_join"     -> l.kind = "join"
                    [] k = "nick_flip"     -> l.kind = "nick"
                    [] k = "hop_flood"     -> l.kind \in {"join", "part"}
                    [] k = "pm_flood"      -> l.kind = "usermsg"
                    [] k = "mention_storm" -> l.kind = "chanmsg"

\* The windows of u, and the lines that are not counted on a record yet: the
\* event the reader is at, then its queue.
WindowsOf(q) == [X \in Classes |-> Seen(X, q)]
NoWindows == [X \in Classes |-> <<>>]
WinOf(u) == IF users[u] = 0 THEN NoWindows ELSE WindowsOf(recs[users[u]])
Uncounted == conn # 0 /\ readers[conn].pc \in {"locate", "create", "count"}
Pend == IF Uncounted THEN <<readers[conn].ev>> \o Queue ELSE Queue

\* Since t: what window w of u holds, what lines p will add, what u did.
Recalled(w, X, t) == Hits(w[X], Since(X, t), Len(w[X]))

\* Since a minute ago nothing was lost but by a window that is still full.
NoneLost(w, p, did, u, tm) ==
  \A X \in Classes, t \in Int : t >= tm - Minute =>
    /\ Recalled(w, X, t) + Hits(p, Of(u, X, t), Len(p)) <= Hits(did, Doing(X, t), Len(did))
    /\ Recalled(w, X, t) < Bound(X) =>
         Recalled(w, X, t) + Hits(p, Of(u, X, t), Len(p)) = Hits(did, Doing(X, t), Len(did))

\* What rule k is to say of line e is what it will say, n more lines read.
DueRight(w, p, u, n, e) ==
  e.line.kind # "bad" /\ e.line.uid = u =>
    \A k \in CountRules :
      k \in e.due <=>
        /\ Triggers(k, e.line)
        /\ Recalled(w, ClassOf(k), e.line.at - Minute) + Hits(p, Of(u, ClassOf(k), e.line.at - Minute), n)
             >= LimitOf(k)
DueKnown(w, p, u) == \A i \in 1..Len(p) : DueRight(w, p, u, i, p[i])

\* Private messages: whom to and what, in the window, in lines p, and sent.
Private(e) == [target |-> e.target, body |-> e.body]
Kept(w, t) == {Private(w["pms"][j]) : j \in {i \in 1..Len(w["pms"]) : w["pms"][i].at >= t}}
Waiting(p, u, t, n) == {Private(p[j].line) : j \in {i \in 1..n : p[i] \in Of(u, "pms", t)}}
Sent(did, t) == {Private(did[j]) : j \in {i \in 1..Len(did) : did[i] \in Doing("pms", t)}}

AllSent(w, p, did, u, tm) ==
  \A t \in Int : t >= tm - Minute => Kept(w, t) \cup Waiting(p, u, t, Len(p)) \subseteq Sent(did, t)

FoundRight(w, p, u, n, e) ==
  e.line.kind = "usermsg" /\ e.line.uid = u =>
    LET H == Kept(w, e.line.at - Minute) \cup Waiting(p, u, e.line.at - Minute, n)
    IN /\ Cardinality({h.target : h \in H}) >= Limit.targets => "pm_shotgun" \in e.due
       /\ (\E h \in H : h.body.spoof) => "nickserv_spoof" \in e.due
FoundKnown(w, p, u) == \A i \in 1..Len(p) : FoundRight(w, p, u, i, p[i])

\* The account of u.
Account(w, p, did, u, tm) == /\ NoneLost(w, p, did, u, tm) /\ DueKnown(w, p, u)
                             /\ AllSent(w, p, did, u, tm) /\ FoundKnown(w, p, u)

\* u has left, and no line of it waits.
Quits(l, u) == l.kind \in {"quit", "oper_kill"} /\ l.uid = u
Leaves(l, u) == l.kind \in {"nick", "quit", "oper_kill"} /\ l.uid = u
Over(p, u, x) == x = "gone" /\ \A i \in 1..Len(p) : ~Named(p[i].line, u)

\* Lines in the order of their times, and none of the future.
InOrder(p, tm) ==
  /\ \A i \in 1..Len(p) : /\ p[i].line.kind # "bad" => p[i].line.at <= tm
                          /\ p[i].line.kind = "usermsg" => p[i].line.target \in Nicks
  /\ \A i, j \in 1..Len(p) : i < j /\ p[i].line.kind # "bad" /\ p[j].line.kind # "bad"
                               => p[i].line.at <= p[j].line.at

\* A user's last line says that it leaves.
LastWords(p, u, x) ==
  /\ \A i \in 1..Len(p) : Quits(p[i].line, u) =>
       x = "gone" /\ \A j \in 1..Len(p) : j > i => ~Named(p[j].line, u)
  /\ x = "gone" => \A i \in 1..Len(p) : Named(p[i].line, u) =>
                     \E j \in 1..Len(p) : j >= i /\ Quits(p[j].line, u)

\* u gives nick n up before line i of p.
GivenUp(p, u, from, i) == \E k \in 1..Len(p) : from < k /\ k < i /\ Leaves(p[k].line, u)

\* Where a line of another carries a nick that u takes, u gives it up between.
Apart(p, u) ==
  \A i, j \in 1..Len(p) :
    /\ j < i /\ Naming(p[j].line, u)
    /\ \E v \in UIDs \ {u} : Named(p[i].line, v)
    /\ p[i].line.nick = p[j].line.nick
    => GivenUp(p, u, j, i)

\* Where a line of another carries the nick of u's record, u gives it up before.
NickApart(p, u, n) ==
  \A i \in 1..Len(p) :
    (\E v \in UIDs \ {u} : Named(p[i].line, v)) /\ p[i].line.nick = n => GivenUp(p, u, 0, i)

PendOK(p, u, x, tm) == /\ p \in Seq(Told) /\ InOrder(p, tm) /\ QueueTells(p, u, x)
                       /\ LastWords(p, u, x) /\ Apart(p, u)

NetApart == \A u, v \in UIDs : u # v /\ net[u] \in Nicks => net[v] # net[u]

\* The windows of a record are windows, in order, and of events before those of p.
WindowsOK(w, p, tm) ==
  \A X \in Classes :
    /\ w[X] \in Seq(Entries(X)) /\ Len(w[X]) <= Bound(X)
    /\ \A i, j \in 1..Len(w[X]) : i <= j => AtOf(X, w[X][i]) <= AtOf(X, w[X][j])
    /\ \A i \in 1..Len(w[X]) : /\ AtOf(X, w[X][i]) <= tm
                               /\ \A j \in 1..Len(p) : p[j].line.kind # "bad" =>
                                    AtOf(X, w[X][i]) <= p[j].line.at

\* What a user did in the last minute, in the order of the times.
DidOK(did, tm) ==
  /\ did \in Seq(SentLines)
  /\ \A i \in 1..Len(did) : did[i].at <= tm /\ did[i].at >= tm - Minute
  /\ \A i, j \in 1..Len(did) : i <= j => did[i].at <= did[j].at

\* At judgement: the windows call for what the line calls for, and features
\* that are cached were computed at that time or later.
Owner(v) ==
  LET l == v.ev.line
  IN v.pc \in {"count", "judge"} =>
       /\ v.ev \in Told /\ Named(l, l.uid) /\ l.uid \in UIDs /\ l.at <= now
       /\ l.uid \notin forgotten => v.rec # 0 /\ v.rec = users[l.uid]
       /\ v.pc = "count" =>
            \A w \in UIDs \ (forgotten \cup {l.uid}) :
              users[w] # 0 /\ users[w] = v.rec => Over(Pend, w, net[w])
       /\ v.pc = "judge" /\ l.uid \notin forgotten =>
            /\ DueRight(WinOf(l.uid), <<>>, l.uid, 0, v.ev)
            /\ FoundRight(WinOf(l.uid), <<>>, l.uid, 0, v.ev)
            /\ l.kind \in Rated => \A fv \in recs[v.rec].cachedFeatures :
                                     fv.age + recs[v.rec].FirstSeen >= l.at

LinesKnown == Pend \in Seq(Told) /\ NetApart /\ \A u \in UIDs : PendOK(Pend, u, net[u], now)
RecordsKnown == \A r \in Records : WindowsOK(WindowsOf(recs[r]), Pend, now)
NicksKnown == \A u \in UIDs \ forgotten : users[u] # 0 /\ ~Over(Pend, u, net[u])
                                            => NickApart(Pend, u, NickOf(u))
AccountsKept == \A u \in UIDs \ forgotten : ~Over(Pend, u, net[u])
                                            => Account(WinOf(u), Pend, lately[u], u, now)

WKnown == /\ unheard = {} /\ DOMAIN lately = UIDs
          /\ \A u \in UIDs : DidOK(lately[u], now)
          /\ LinesKnown /\ RecordsKnown /\ NicksKnown /\ AccountsKept
          /\ conn # 0 => Owner(readers[conn])

WInv == misjudged = {} /\ (orderly => WKnown)

-----------------------------------------------------------------------------
(* Counting. *)

\* A count is a number, at most that of the elements counted.
LEMMA HitsType ==
  ASSUME NEW s, NEW S, NEW n \in Nat
  PROVE  /\ IsFiniteSet({j \in 1..n : s[j] \in S})
         /\ Hits(s, S, n) \in Nat /\ Hits(s, S, n) <= n
         /\ (\A j \in 1..n : s[j] \in S) => Hits(s, S, n) = n
  <1>1. IsFiniteSet(1..n) /\ Cardinality(1..n) = n
    BY FS_Interval
  <1>2. PICK A : A = {j \in 1..n : s[j] \in S}
    OBVIOUS
  <1>3. A \subseteq 1..n
    BY <1>2
  <1>4. IsFiniteSet(A) /\ Cardinality(A) <= n
    BY <1>1, <1>3, FS_Subset
  <1>5. Cardinality(A) \in Nat
    BY <1>4, FS_CardinalityType
  <1>6. (\A j \in 1..n : s[j] \in S) => A = 1..n
    BY <1>2
  <1>. QED
    BY <1>1, <1>2, <1>4, <1>5, <1>6 DEF Hits

\* Among no elements there is none.
LEMMA HitsNone == \A s, S : Hits(s, S, 0) = 0
  <1>. SUFFICES ASSUME NEW s, NEW S PROVE Hits(s, S, 0) = 0
    OBVIOUS
  <1>1. {j \in 1..0 : s[j] \in S} = {}
    OBVIOUS
  <1>. QED
    BY <1>1, FS_EmptySet DEF Hits

\* Sequences that agree on where the elements are have as many.
LEMMA HitsSame ==
  ASSUME NEW s, NEW S, NEW t, NEW T, NEW n \in Nat, \A j \in 1..n : s[j] \in S <=> t[j] \in T
  PROVE  Hits(s, S, n) = Hits(t, T, n)
  <1>1. {j \in 1..n : s[j] \in S} = {j \in 1..n : t[j] \in T}
    OBVIOUS
  <1>. QED
    BY <1>1 DEF Hits

\* In a larger set there are no fewer.
LEMMA HitsFewer ==
  ASSUME NEW s, NEW S, NEW T, NEW n \in Nat, \A j \in 1..n : s[j] \in S => s[j] \in T
  PROVE  Hits(s, S, n) <= Hits(s, T, n)
  <1>1. PICK A, B : A = {j \in 1..n : s[j] \in S} /\ B = {j \in 1..n : s[j] \in T}
    OBVIOUS
  <1>2. A \subseteq B /\ IsFiniteSet(B)
    BY <1>1, HitsType
  <1>3. Cardinality(A) <= Cardinality(B)
    BY <1>2, FS_Subset
  <1>. QED
    BY <1>1, <1>3 DEF Hits

\* One element more at the end.
LEMMA HitsOneMore ==
  ASSUME NEW s, NEW S, NEW n \in Nat
  PROVE  Hits(s, S, n + 1) = Hits(s, S, n) + One(s[n + 1], S)
  <1>1. PICK A, B : A = {j \in 1..n : s[j] \in S} /\ B = {j \in 1..n + 1 : s[j] \in S}
    OBVIOUS
  <1>2. IsFiniteSet(A) /\ Cardinality(A) \in Nat
    BY <1>1, HitsType DEF Hits
  <1>3. n + 1 \notin A
    BY <1>1
  <1>4. CASE s[n + 1] \in S
    <2>1. B = A \cup {n + 1}
      BY <1>1, <1>4
    <2>2. Cardinality(B) = Cardinality(A) + 1
      BY <1>2, <1>3, <2>1, FS_AddElement
    <2>. QED
      BY <1>1, <1>4, <2>2 DEF Hits, One
  <1>5. CASE s[n + 1] \notin S
    <2>1. B = A
      BY <1>1, <1>5
    <2>. QED
      BY <1>1, <1>2, <1>5, <2>1 DEF Hits, One
  <1>. QED
    BY <1>4, <1>5

\* A set of places moved by one has as many.
LEMMA Shifted ==
  ASSUME NEW n \in Nat, NEW A, A \subseteq 1..n, NEW B,
         \A j \in A : j + 1 \in B, \A j \in B : j \in Int /\ j - 1 \in A
  PROVE  IsFiniteSet(A) /\ IsFiniteSet(B) /\ Cardinality(A) = Cardinality(B)
  <1>1. PICK f : f = [j \in A |-> j + 1]
    OBVIOUS
  <1>2. \A j \in A : j \in Int /\ f[j] = j + 1 /\ f[j] \in B
    BY <1>1
  <1>3. f \in [A -> B]
    BY <1>1, <1>2
  <1>4. \A i, j \in A : f[i] = f[j] => i = j
    BY <1>2
  <1>5. \A y \in B : \E j \in A : f[j] = y
    <2>. SUFFICES ASSUME NEW y \in B PROVE f[y - 1] = y /\ y - 1 \in A
      OBVIOUS
    <2>1. y - 1 \in A /\ (y - 1) + 1 = y
      OBVIOUS
    <2>. QED
      BY <1>2, <2>1
  <1>6. f \in Bijection(A, B)
    BY <1>3, <1>4, <1>5 DEF Bijection, Injection, Surjection, IsInjective
  <1>7. IsFiniteSet(1..n)
    BY FS_Interval
  <1>8. IsFiniteSet(A)
    BY <1>7, FS_Subset
  <1>. QED
    BY <1>6, <1>8, FS_Bijection DEF ExistsBijection

\* t is s without its first k elements, of which none is in S.
Without(s, t, n, k, S) == (\A j \in 1..n : t[j] = s[j + k]) /\ \A j \in 1..k : s[j] \notin S

\* A sequence without its first k elements, none of which counts, has as many.
LEMMA HitsSuffix ==
  ASSUME NEW s, NEW S, NEW t, NEW n \in Nat, NEW k \in Nat, Without(s, t, n, k, S)
  PROVE  Hits(t, S, n) = Hits(s, S, n + k)
  <1>. USE DEF Without
  <1>1. PICK A, B : A = {j \in 1..n : t[j] \in S} /\ B = {j \in 1..n + k : s[j] \in S}
    OBVIOUS
  <1>2. IsFiniteSet(A)
    BY <1>1, HitsType
  <1>3. PICK f : f = [j \in A |-> j + k]
    OBVIOUS
  <1>4. \A j \in A : j \in 1..n /\ f[j] = j + k /\ j + k \in B
    BY <1>1, <1>3
  <1>5. ASSUME NEW j \in B PROVE j - k \in A /\ f[j - k] = j
    <2>1. j \in 1..n + k /\ j \notin 1..k /\ s[j] \in S
      BY <1>1
    <2>2. j - k \in 1..n /\ (j - k) + k = j
      BY <2>1
    <2>3. j - k \in A
      BY <1>1, <2>1, <2>2
    <2>. QED
      BY <1>4, <2>2, <2>3
  <1>6. f \in [A -> B]
    BY <1>3, <1>4
  <1>7. \A i, j \in A : f[i] = f[j] => i = j
    BY <1>4
  <1>8. f \in Bijection(A, B)
    BY <1>5, <1>6, <1>7 DEF Bijection, Injection, Surjection, IsInjective
  <1>9. Cardinality(A) = Cardinality(B)
    BY <1>2, <1>8, FS_Bijection DEF ExistsBijection
  <1>. QED
    BY <1>1, <1>9 DEF Hits

\* The first element less.
LEMMA HitsTail ==
  ASSUME NEW s, NEW S, NEW t, NEW n \in Nat, \A j \in 1..n : t[j] = s[j + 1]
  PROVE  Hits(s, S, n + 1) = Hits(t, S, n) + One(s[1], S)
  <1>1. PICK A, B : A = {j \in 1..n : t[j] \in S} /\ B = {j \in 1..n + 1 : s[j] \in S}
    OBVIOUS
  <1>2. ASSUME NEW j \in B \ {1} PROVE j \in Int /\ j - 1 \in A
    <2>1. j \in 1..n + 1 /\ j # 1 /\ s[j] \in S
      BY <1>1
    <2>2. j - 1 \in 1..n /\ (j - 1) + 1 = j
      BY <2>1
    <2>. QED
      BY <1>1, <2>1, <2>2
  <1>3. \A j \in A : j + 1 \in B \ {1}
    BY <1>1
  <1>5. Cardinality(A) = Cardinality(B \ {1}) /\ IsFiniteSet(B \ {1}) /\ IsFiniteSet(A)
    <2>1. A \subseteq 1..n
      BY <1>1
    <2>2. PICK C : C = B \ {1}
      OBVIOUS
    <2>3. Cardinality(A) = Cardinality(C) /\ IsFiniteSet(C) /\ IsFiniteSet(A)
      BY <1>2, <1>3, <2>1, <2>2, Shifted
    <2>. QED
      BY <2>2, <2>3
  <1>6. Cardinality(A) \in Nat
    BY <1>5, FS_CardinalityType
  <1>7. CASE s[1] \in S
    <2>1. B = (B \ {1}) \cup {1} /\ 1 \notin B \ {1}
      BY <1>1, <1>7
    <2>2. Cardinality(B) = Cardinality(B \ {1}) + 1
      BY <1>5, <2>1, FS_AddElement
    <2>. QED
      BY <1>1, <1>5, <1>7, <2>2 DEF Hits, One
  <1>8. CASE s[1] \notin S
    <2>1. B \ {1} = B
      BY <1>1, <1>8
    <2>2. Hits(s, S, n + 1) = Cardinality(A) /\ Hits(t, S, n) = Cardinality(A)
      BY <1>1, <1>5, <2>1 DEF Hits
    <2>. QED
      BY <1>6, <1>8, <2>2 DEF One
  <1>. QED
    BY <1>7, <1>8

-----------------------------------------------------------------------------
(* Windows. *)

\* appendTimeBounded takes the first element off a full window.
LEMMA WindowGrows ==
  ASSUME NEW T, NEW s \in Seq(T), NEW e \in T, NEW max \in Nat, Len(s) < max
  PROVE  appendTimeBounded(s, e, max) = Append(s, e)
  <1>1. PICK f : f = Append(s, e)
    OBVIOUS
  <1>2. ~(Len(f) > max)
    BY <1>1
  <1>. QED
    BY <1>1, <1>2 DEF appendTimeBounded

\* A full window drops its oldest entry for the new one.
LEMMA WindowSlides ==
  ASSUME NEW T, NEW s \in Seq(T), NEW e \in T, NEW max \in Nat, Len(s) = max, max > 0
  PROVE  appendTimeBounded(s, e, max) = Tail(Append(s, e))
  <1>1. PICK f : f = Append(s, e)
    OBVIOUS
  <1>2. f \in Seq(T) /\ Len(f) = max + 1
    BY <1>1
  <1>3. Len(f) > max /\ Len(f) - max + 1 = 2
    BY <1>2
  <1>4. appendTimeBounded(s, e, max) = SubSeq(f, 2, Len(f))
    BY <1>1, <1>3 DEF appendTimeBounded
  <1>5. SubSeq(f, 2, Len(f)) = Tail(f)
    BY <1>2
  <1>. QED
    BY <1>1, <1>4, <1>5

\* A window that gets an entry is a window, and keeps the order of its own.
LEMMA WindowStays ==
  ASSUME NEW T, NEW s \in Seq(T), NEW e \in T, NEW max \in Nat, max > 0, Len(s) <= max,
         NEW t, t = appendTimeBounded(s, e, max)
  PROVE  /\ t \in Seq(T) /\ Len(t) <= max
         /\ \A i \in 1..Len(t) : t[i] = e \/ \E j \in 1..Len(s) : t[i] = s[j]
         /\ \A i, k \in 1..Len(t) : i <= k => \/ t[k] = e
                                             \/ \E j, l \in 1..Len(s) : j <= l /\ t[i] = s[j] /\ t[k] = s[l]
  <1>0. Len(s) \in Nat
    OBVIOUS
  <1>1. CASE Len(s) < max
    <2>1. t = Append(s, e)
      BY <1>1, WindowGrows
    <2>2. /\ t \in Seq(T) /\ Len(t) = Len(s) + 1 /\ t[Len(s) + 1] = e
          /\ \A j \in 1..Len(s) : t[j] = s[j]
      BY <2>1
    <2>. QED
      BY <1>0, <1>1, <2>2
  <1>2. CASE ~(Len(s) < max)
    <2>1. Len(s) = max
      BY <1>0, <1>2
    <2>2. t = Tail(Append(s, e))
      BY <2>1, WindowSlides
    <2>3. /\ t \in Seq(T) /\ Len(t) = max /\ t[max] = e
          /\ \A j \in 1..max - 1 : t[j] = s[j + 1] /\ j + 1 \in 1..Len(s)
      BY <2>1, <2>2
    <2>. QED
      BY <1>0, <2>1, <2>3
  <1>. QED
    BY <1>1, <1>2

\* If what is in S comes last, one element more is counted or the window is
\* full of them.
LEMMA WindowHits ==
  ASSUME NEW T, NEW s \in Seq(T), NEW e \in T, NEW max \in Nat, max > 0, Len(s) <= max, NEW S,
         NEW t, t = appendTimeBounded(s, e, max),
         \A i \in 1..Len(s) : s[i] \in S => e \in S,
         \A i, j \in 1..Len(s) : i <= j /\ s[i] \in S => s[j] \in S
  PROVE  \/ Hits(t, S, Len(t)) = Hits(s, S, Len(s)) + One(e, S)
         \/ Hits(s, S, Len(s)) = max /\ Hits(t, S, Len(t)) = max
  <1>0. Len(s) \in Nat
    OBVIOUS
  <1>1. CASE Len(s) < max
    <2>0. t = Append(s, e)
      BY <1>1, WindowGrows
    <2>1. Len(t) = Len(s) + 1 /\ t[Len(s) + 1] = e /\ \A j \in 1..Len(s) : t[j] = s[j]
      BY <2>0
    <2>2. Hits(t, S, Len(s) + 1) = Hits(t, S, Len(s)) + One(t[Len(s) + 1], S)
      BY <1>0, HitsOneMore
    <2>3. Hits(t, S, Len(s)) = Hits(s, S, Len(s))
      BY <1>0, <2>1, HitsSame
    <2>. QED
      BY <2>1, <2>2, <2>3
  <1>2. CASE ~(Len(s) < max)
    <2>0. Len(s) = max
      BY <1>0, <1>2
    <2>1. t = Tail(Append(s, e))
      BY <2>0, WindowSlides
    <2>2. PICK n \in Nat : n + 1 = max
      <3>1. max - 1 \in Nat /\ (max - 1) + 1 = max
        OBVIOUS
      <3>. QED
        BY <3>1
    <2>3. Len(t) = n + 1 /\ t[n + 1] = e /\ \A j \in 1..n : t[j] = s[j + 1]
      BY <2>0, <2>1, <2>2
    <2>9. \A j \in 1..n : t[j] = s[j + 1]
      BY <2>3
    <2>4. Hits(s, S, n + 1) = Hits(t, S, n) + One(s[1], S)
      BY ONLY <2>9, n \in Nat, HitsTail
    <2>5. Hits(t, S, n + 1) = Hits(t, S, n) + One(t[n + 1], S)
      BY HitsOneMore
    <2>6. Hits(t, S, n) \in Nat /\ Hits(s, S, max) \in Nat
      BY HitsType
    <2>7. CASE s[1] \in S
      <3>1. 1 \in 1..Len(s)
        BY <2>0
      <3>2. e \in S /\ \A j \in 1..max : s[j] \in S
        BY <2>0, <2>7, <3>1
      <3>3. Hits(s, S, max) = max
        BY <3>2, HitsType
      <3>. QED
        BY <2>0, <2>2, <2>3, <2>4, <2>5, <2>6, <2>7, <3>2, <3>3 DEF One
    <2>8. CASE s[1] \notin S
      BY <2>0, <2>2, <2>3, <2>4, <2>5, <2>6, <2>8 DEF One
    <2>. QED
      BY <2>7, <2>8
  <1>. QED
    BY <1>1, <1>2

-----------------------------------------------------------------------------
(* The rules by definition. *)

\* Every rule that counts does so in one window, which holds its limit.
LEMMA RuleFacts ==
  /\ \A X \in Classes : Bound(X) \in Nat /\ Bound(X) > 0
  /\ \A k \in CountRules : ClassOf(k) \in Classes /\ LimitOf(k) \in Nat /\ LimitOf(k) <= Bound(ClassOf(k))
  /\ \A k \in CountRules : \A l : Triggers(k, l) => l.kind \in Rated
  /\ \A X \in Classes : \A l : Into(X, l) => l.kind \in Rated
  <1>1. \A X \in Classes : Bound(X) \in Nat /\ Bound(X) > 0
    BY StateAssumption DEF Classes, Bound
  <1>2. CountRules = {"flood", "mass_join", "nick_flip", "hop_flood", "pm_flood", "mention_storm"}
    BY DEF CountRules, RateRules, Searching
  <1>3. \A k \in CountRules : ClassOf(k) \in Classes
    BY <1>2 DEF ClassOf, Classes
  <1>4. /\ Limit.flood \in 0..MaxRecentMessages /\ Limit.pms \in 0..MaxRecentMessages
        /\ Limit.mentions \in 0..MaxRecentMessages /\ Limit.joins \in 0..MaxRecentJoins
        /\ Limit.nicks \in 0..MaxRecentEvents /\ Limit.hops \in 0..MaxRecentEvents
    BY LimitAssumption
  <1>5. \A k \in CountRules : LimitOf(k) \in Nat /\ LimitOf(k) <= Bound(ClassOf(k))
    BY <1>2, <1>4, StateAssumption DEF LimitOf, ClassOf, Bound
  <1>6. \A k \in CountRules : \A l : Triggers(k, l) => l.kind \in Rated
    BY <1>2 DEF Triggers, Rated, Talk, Messages
  <1>7. \A X \in Classes : \A l : Into(X, l) => l.kind \in Rated
    BY DEF Classes, Into, Rated, Messages
  <1>. QED
    BY <1>1, <1>3, <1>5, <1>6, <1>7

\* What Due counts for a rule is what was done since a minute ago.
LEMMA DueCounts ==
  ASSUME NEW did \in Seq(SentLines), NEW l, NEW t, \A i \in 1..Len(did) : did[i].at >= t,
         NEW k \in CountRules
  PROVE  k \in Due(did, l) <=>
           Triggers(k, l) /\ Hits(did, Doing(ClassOf(k), t), Len(did)) >= LimitOf(k)
  <1>0. CountRules = {"flood", "mass_join", "nick_flip", "hop_flood", "pm_flood", "mention_storm"}
    BY DEF CountRules, RateRules, Searching
  <1>1. DOMAIN did = 1..Len(did) /\ \A i \in 1..Len(did) : did[i] \in SentLines
    OBVIOUS
  <1>2. ASSUME NEW X PROVE Hits(did, Doing(X, t), Len(did)) = Cardinality({i \in DOMAIN did : Into(X, did[i])})
    <2>1. {j \in 1..Len(did) : did[j] \in Doing(X, t)} = {i \in DOMAIN did : Into(X, did[i])}
      BY <1>1 DEF Doing
    <2>. QED
      BY <2>1 DEF Hits
  <1>3. CASE k = "flood"
    <2>1. {i \in DOMAIN did : Into("msgs", did[i])} = {i \in DOMAIN did : did[i].kind \in Messages}
      BY DEF Into
    <2>. QED
      BY <1>2, <1>3, <2>1 DEF Due, Triggers, ClassOf, LimitOf, RateRules
  <1>4. CASE k = "mass_join"
    <2>1. {i \in DOMAIN did : Into("joins", did[i])} = {i \in DOMAIN did : did[i].kind = "join"}
      BY DEF Into
    <2>. QED
      BY <1>2, <1>4, <2>1 DEF Due, Triggers, ClassOf, LimitOf, RateRules
  <1>5. CASE k = "nick_flip"
    <2>1. {i \in DOMAIN did : Into("nicks", did[i])} = {i \in DOMAIN did : did[i].kind = "nick"}
      BY DEF Into
    <2>. QED
      BY <1>2, <1>5, <2>1 DEF Due, Triggers, ClassOf, LimitOf, RateRules
  <1>6. CASE k = "hop_flood"
    <2>1. {i \in DOMAIN did : Into("hops", did[i])} =
            {i \in DOMAIN did : did[i].kind \in {"join", "part", "kick"}}
      BY DEF Into
    <2>. QED
      BY <1>2, <1>6, <2>1 DEF Due, Triggers, ClassOf, LimitOf, RateRules
  <1>7. CASE k = "pm_flood"
    <2>1. {i \in DOMAIN did : Into("pms", did[i])} = {i \in DOMAIN did : did[i].kind = "usermsg"}
      BY DEF Into
    <2>. QED
      BY <1>2, <1>7, <2>1 DEF Due, Triggers, ClassOf, LimitOf, RateRules
  <1>8. CASE k = "mention_storm"
    <2>1. {i \in DOMAIN did : Into("mentions", did[i])} =
            {i \in DOMAIN did : did[i].kind = "chanmsg" /\ did[i].body.mentions >= 3}
      BY DEF Into
    <2>. QED
      BY <1>2, <1>8, <2>1 DEF Due, Triggers, ClassOf, LimitOf, RateRules
  <1>. QED
    BY <1>0, <1>3, <1>4, <1>5, <1>6, <1>7, <1>8

\* What the two rules that search find is among the private messages sent.
LEMMA DueFinds ==
  ASSUME NEW did \in Seq(SentLines), NEW l, l.kind = "usermsg", NEW t,
         \A i \in 1..Len(did) : did[i].at >= t
  PROVE  /\ "pm_shotgun" \in Due(did, l) <=> Cardinality({h.target : h \in Sent(did, t)}) >= Limit.targets
         /\ "nickserv_spoof" \in Due(did, l) <=> \E h \in Sent(did, t) : h.body.spoof
  <1>1. DOMAIN did = 1..Len(did) /\ \A i \in 1..Len(did) : did[i] \in SentLines
    OBVIOUS
  <1>2. PICK pms : pms = {i \in DOMAIN did : did[i].kind = "usermsg"}
    OBVIOUS
  <1>3. {i \in 1..Len(did) : did[i] \in Doing("pms", t)} = pms
    BY <1>1, <1>2 DEF Doing, Into
  <1>4. Sent(did, t) = {Private(did[j]) : j \in pms}
    BY <1>3 DEF Sent
  <1>5. \A i : Private(did[i]).target = did[i].target /\ Private(did[i]).body = did[i].body
    BY DEF Private
  <1>6. /\ \A h \in Sent(did, t) : \E i \in pms : h.target = did[i].target /\ h.body = did[i].body
        /\ \A i \in pms : \E h \in Sent(did, t) : h.target = did[i].target /\ h.body = did[i].body
    BY ONLY <1>4, <1>5
  <1>9. {h.target : h \in Sent(did, t)} = {did[i].target : i \in pms}
    BY ONLY <1>6
  <1>10. (\E h \in Sent(did, t) : h.body.spoof) <=> \E i \in pms : did[i].body.spoof
    BY ONLY <1>6
  <1>7. "pm_shotgun" \in Due(did, l) <=> Cardinality({did[i].target : i \in pms}) >= Limit.targets
    BY <1>2 DEF Due, RateRules
  <1>8. "nickserv_spoof" \in Due(did, l) <=> \E i \in pms : did[i].body.spoof
    BY <1>2 DEF Due, RateRules
  <1>. QED
    BY <1>7, <1>8, <1>9, <1>10

\* Lines that are not rated call for no rule.
LEMMA QuietDue ==
  ASSUME NEW did, NEW l, l.kind \notin Rated PROVE Due(did, l) = {}
  BY DEF Due, RateRules, Rated, Talk, Messages

-----------------------------------------------------------------------------
(* The account of a user when a line is written, read, counted, and when a  *)
(* minute is over.                                                          *)

Tally(s, S) == Hits(s, S, Len(s))

\* The windows of a record are sequences.
Listed(w) == \A X \in Classes : Len(w[X]) \in Nat

\* What was done gained what line t says of u.
Gained(did, more, t, u) ==
  /\ \A X \in Classes, s \in Int : Tally(more, Doing(X, s)) = Tally(did, Doing(X, s)) + One(t, Of(u, X, s))
  /\ \A s \in Int : /\ Sent(did, s) \subseteq Sent(more, s)
                    /\ t \in Of(u, "pms", s) => Private(t.line) \in Sent(more, s)

\* What a window recalls is a number.
LEMMA RecalledType ==
  ASSUME NEW w, Listed(w), NEW X \in Classes, NEW s PROVE Recalled(w, X, s) \in Nat
  BY HitsType DEF Recalled, Listed

\* A line more is counted once.
LEMMA HeardHits ==
  ASSUME NEW p \in Seq(Told), NEW t \in Told, NEW S
  PROVE  /\ Tally(p, S) \in Nat
         /\ Tally(Append(p, t), S) = Tally(p, S) + One(t, S)
         /\ \A n \in 0..Len(p) : Hits(Append(p, t), S, n) = Hits(p, S, n)
  <1>1. PICK r, n : r = Append(p, t) /\ n = Len(p)
    OBVIOUS
  <1>2. n \in Nat /\ Len(r) = n + 1 /\ r[n + 1] = t /\ \A i \in 1..n : r[i] = p[i]
    BY <1>1
  <1>3. ASSUME NEW m \in 0..n PROVE Hits(r, S, m) = Hits(p, S, m)
    <2>1. m \in Nat /\ \A i \in 1..m : r[i] = p[i]
      BY <1>2
    <2>. QED
      BY <2>1, HitsSame
  <1>4. Hits(r, S, n + 1) = Hits(r, S, n) + One(r[n + 1], S)
    BY <1>2, HitsOneMore
  <1>5. Hits(r, S, n) = Hits(p, S, n)
    BY <1>2, <1>3
  <1>6. Hits(p, S, n) \in Nat
    BY <1>2, HitsType
  <1>7. Hits(r, S, Len(r)) = Hits(p, S, n) + One(t, S)
    BY <1>2, <1>4, <1>5
  <1>. QED
    BY <1>1, <1>3, <1>6, <1>7 DEF Tally

\* The account after a line was written: nothing is lost.
LEMMA HeardNoneLost ==
  ASSUME NEW p \in Seq(Told), NEW t \in Told, NEW u, NEW w, Listed(w), NEW did, NEW more, NEW tm,
         NoneLost(w, p, did, u, tm), Gained(did, more, t, u)
  PROVE  NoneLost(w, Append(p, t), more, u, tm)
  <1>1. ASSUME NEW X \in Classes, NEW s \in Int, s >= tm - Minute
        PROVE  /\ Recalled(w, X, s) + Tally(Append(p, t), Of(u, X, s)) <= Tally(more, Doing(X, s))
               /\ Recalled(w, X, s) < Bound(X) =>
                    Recalled(w, X, s) + Tally(Append(p, t), Of(u, X, s)) = Tally(more, Doing(X, s))
    <2>1. PICK R, P, D, d : /\ R = Recalled(w, X, s) /\ P = Tally(p, Of(u, X, s))
                            /\ D = Tally(did, Doing(X, s)) /\ d = One(t, Of(u, X, s))
      OBVIOUS
    <2>2. R + P <= D /\ (R < Bound(X) => R + P = D)
      BY <1>1, <2>1 DEF NoneLost, Tally
    <2>3. Tally(Append(p, t), Of(u, X, s)) = P + d /\ P \in Nat
      BY <2>1, HeardHits
    <2>4. Tally(more, Doing(X, s)) = D + d
      BY <2>1 DEF Gained
    <2>5. R \in Nat /\ d \in {0, 1}
      BY <2>1, RecalledType DEF One
    <2>6. D \in Nat
      BY <2>1, <2>2, <2>3, <2>5, HitsType DEF Gained, Tally
    <2>. QED
      BY <2>1, <2>2, <2>3, <2>4, <2>5, <2>6
  <1>. QED
    BY <1>1 DEF NoneLost, Tally

\* The line is due for what the windows will say once it and those before it are
\* counted: they may be full, but no limit is above their length.
LEMMA HeardDue ==
  ASSUME NEW p \in Seq(Told), NEW t \in Told, NEW u, NEW w, Listed(w), NEW more, NEW tm \in Nat,
         NoneLost(w, Append(p, t), more, u, tm), DueKnown(w, p, u), DidOK(more, tm),
         t.line.kind # "bad" /\ t.line.uid = u => t.due = Due(more, t.line) /\ t.line.at = tm
  PROVE  DueKnown(w, Append(p, t), u)
  <1>1. PICK r, n : r = Append(p, t) /\ n = Len(p)
    OBVIOUS
  <1>2. /\ n \in Nat /\ Len(r) = n + 1 /\ r[n + 1] = t
        /\ \A i \in 1..Len(r) : i = n + 1 \/ (i \in 1..n /\ r[i] = p[i])
    BY <1>1
  <1>3. ASSUME NEW i \in 1..n PROVE DueRight(w, r, u, i, p[i])
    <2>1. ASSUME NEW S PROVE Hits(r, S, i) = Hits(p, S, i)
      <3>1. i \in 0..Len(p)
        BY <1>1, <1>2
      <3>. QED
        BY <1>1, <3>1, HeardHits
    <2>2. DueRight(w, p, u, i, p[i])
      BY <1>1 DEF DueKnown
    <2>. QED
      BY <2>1, <2>2 DEF DueRight
  <1>4. DueRight(w, r, u, n + 1, t)
    <2>. SUFFICES ASSUME t.line.kind # "bad", t.line.uid = u, NEW k \in CountRules
                  PROVE  k \in t.due <=>
                           /\ Triggers(k, t.line)
                           /\ Recalled(w, ClassOf(k), t.line.at - Minute)
                                + Hits(r, Of(u, ClassOf(k), t.line.at - Minute), n + 1) >= LimitOf(k)
      BY DEF DueRight
    <2>1. PICK X, s, R, P, D : /\ X = ClassOf(k) /\ s = tm - Minute
                               /\ R = Recalled(w, X, s) /\ P = Hits(r, Of(u, X, s), n + 1)
                               /\ D = Hits(more, Doing(X, s), Len(more))
      OBVIOUS
    <2>2. X \in Classes /\ LimitOf(k) \in Nat /\ LimitOf(k) <= Bound(X) /\ Bound(X) \in Nat
      BY <2>1, RuleFacts
    <2>3. s \in Int /\ s >= tm - Minute
      BY <2>1, StateAssumption
    <2>4. R + P <= D /\ (R < Bound(X) => R + P = D)
      BY <1>1, <1>2, <2>1, <2>2, <2>3 DEF NoneLost
    <2>5. R \in Nat /\ P \in Nat /\ D \in Nat
      <3>1. R \in Nat
        BY <2>1, <2>2, RecalledType
      <3>2. P \in Nat
        <4>1. n + 1 \in Nat
          BY <1>2
        <4>2. \A S : Hits(r, S, n + 1) \in Nat
          BY ONLY <4>1, HitsType
        <4>. QED
          BY <2>1, <4>2
      <3>3. Len(more) \in Nat
        BY DEF DidOK
      <3>. QED
        BY <2>1, <3>1, <3>2, <3>3, HitsType
    <2>6. R + P >= LimitOf(k) <=> D >= LimitOf(k)
      BY <2>2, <2>4, <2>5
    <2>7. k \in Due(more, t.line) <=> Triggers(k, t.line) /\ D >= LimitOf(k)
      <3>1. more \in Seq(SentLines) /\ \A i \in 1..Len(more) : more[i].at >= s
        BY <2>1 DEF DidOK
      <3>. QED
        BY <2>1, <3>1, DueCounts
    <2>. QED
      BY <2>1, <2>6, <2>7
  <1>5. DueKnown(w, r, u)
    BY <1>2, <1>3, <1>4 DEF DueKnown
  <1>. QED
    BY <1>1, <1>5

\* Private messages waiting.
LEMMA HeardWaiting ==
  ASSUME NEW p \in Seq(Told), NEW t \in Told, NEW u, NEW s
  PROVE  /\ \A n \in 0..Len(p) : Waiting(Append(p, t), u, s, n) = Waiting(p, u, s, n)
         /\ Waiting(Append(p, t), u, s, Len(Append(p, t))) =
              Waiting(p, u, s, Len(p)) \cup (IF t \in Of(u, "pms", s) THEN {Private(t.line)} ELSE {})
  <1>1. PICK r, n : r = Append(p, t) /\ n = Len(p)
    OBVIOUS
  <1>2. n \in Nat /\ Len(r) = n + 1 /\ r[n + 1] = t /\ \A i \in 1..n : r[i] = p[i]
    BY <1>1
  <1>3. ASSUME NEW m \in 0..n PROVE Waiting(r, u, s, m) = Waiting(p, u, s, m)
    <2>1. \A i \in 1..m : r[i] = p[i]
      BY <1>2
    <2>2. {i \in 1..m : r[i] \in Of(u, "pms", s)} = {i \in 1..m : p[i] \in Of(u, "pms", s)}
      BY <2>1
    <2>. QED
      BY <2>1, <2>2 DEF Waiting
  <1>4. CASE t \in Of(u, "pms", s)
    <2>1. {i \in 1..n + 1 : r[i] \in Of(u, "pms", s)} = {i \in 1..n : r[i] \in Of(u, "pms", s)} \cup {n + 1}
      BY <1>2, <1>4
    <2>2. Waiting(r, u, s, n + 1) = Waiting(r, u, s, n) \cup {Private(t.line)}
      BY <1>2, <2>1 DEF Waiting
    <2>. QED
      BY <1>1, <1>2, <1>3, <1>4, <2>2
  <1>5. CASE t \notin Of(u, "pms", s)
    <2>1. {i \in 1..n + 1 : r[i] \in Of(u, "pms", s)} = {i \in 1..n : r[i] \in Of(u, "pms", s)}
      BY <1>2, <1>5
    <2>2. Waiting(r, u, s, n + 1) = Waiting(r, u, s, n)
      BY <1>2, <2>1 DEF Waiting
    <2>. QED
      BY <1>1, <1>2, <1>3, <1>5, <2>2
  <1>. QED
    BY <1>1, <1>3, <1>4, <1>5

\* The account after a line was written: all in it was sent.
LEMMA HeardAllSent ==
  ASSUME NEW p \in Seq(Told), NEW t \in Told, NEW u, NEW w, NEW did, NEW more, NEW tm,
         AllSent(w, p, did, u, tm), Gained(did, more, t, u)
  PROVE  AllSent(w, Append(p, t), more, u, tm)
  <1>1. ASSUME NEW s \in Int, s >= tm - Minute
        PROVE  Kept(w, s) \cup Waiting(Append(p, t), u, s, Len(Append(p, t))) \subseteq Sent(more, s)
    <2>1. Kept(w, s) \cup Waiting(p, u, s, Len(p)) \subseteq Sent(did, s)
      BY <1>1 DEF AllSent
    <2>2. /\ Sent(did, s) \subseteq Sent(more, s)
          /\ t \in Of(u, "pms", s) => Private(t.line) \in Sent(more, s)
      BY DEF Gained
    <2>3. Waiting(Append(p, t), u, s, Len(Append(p, t))) =
            Waiting(p, u, s, Len(p)) \cup (IF t \in Of(u, "pms", s) THEN {Private(t.line)} ELSE {})
      BY HeardWaiting
    <2>. QED
      BY <2>1, <2>2, <2>3
  <1>. QED
    BY <1>1 DEF AllSent

\* A function takes finitely many values on a finite set.
LEMMA ImageFinite ==
  ASSUME NEW A, IsFiniteSet(A), NEW f, DOMAIN f = A, NEW B, B = {f[x] : x \in A}
  PROVE  IsFiniteSet(B)
  <1>1. PICK g : g = [x \in A |-> f[x]]
    OBVIOUS
  <1>2. g \in [A -> B] /\ \A y \in B : \E x \in A : g[x] = y
    BY <1>1
  <1>3. g \in Surjection(A, B)
    BY <1>2 DEF Surjection
  <1>. QED
    BY <1>3, FS_Surjection

\* A user sent finitely many messages, to finitely many others.
LEMMA SentFinite ==
  ASSUME NEW did, NEW s, Len(did) \in Nat
  PROVE  /\ IsFiniteSet(Sent(did, s)) /\ IsFiniteSet({h.target : h \in Sent(did, s)})
         /\ Cardinality({h.target : h \in Sent(did, s)}) \in Nat
  <1>1. PICK A, B : A = {i \in 1..Len(did) : did[i] \in Doing("pms", s)} /\ B = Sent(did, s)
    OBVIOUS
  <1>2. IsFiniteSet(A)
    BY <1>1, HitsType
  <1>3. B = {Private(did[j]) : j \in A}
    BY <1>1 DEF Sent
  <1>4. IsFiniteSet(B)
    <2>1. PICK f : f = [j \in A |-> Private(did[j])]
      OBVIOUS
    <2>2. DOMAIN f = A /\ B = {f[j] : j \in A}
      BY <1>3, <2>1
    <2>. QED
      BY <1>2, <2>2, ImageFinite
  <1>5. IsFiniteSet({h.target : h \in B})
    <2>1. PICK f : f = [h \in B |-> h.target]
      OBVIOUS
    <2>2. DOMAIN f = B /\ {h.target : h \in B} = {f[h] : h \in B}
      BY <2>1
    <2>. QED
      BY <1>4, <2>2, ImageFinite
  <1>. QED
    BY <1>1, <1>4, <1>5, FS_CardinalityType

\* Fewer messages are found to fewer targets.
LEMMA FewerTargets ==
  ASSUME NEW H, NEW G, H \subseteq G, IsFiniteSet({h.target : h \in G})
  PROVE  /\ IsFiniteSet({h.target : h \in H})
         /\ Cardinality({h.target : h \in H}) \in Nat /\ Cardinality({h.target : h \in G}) \in Nat
         /\ Cardinality({h.target : h \in H}) <= Cardinality({h.target : h \in G})
  <1>1. PICK A, B : A = {h.target : h \in H} /\ B = {h.target : h \in G}
    OBVIOUS
  <1>2. A \subseteq B /\ IsFiniteSet(B)
    BY <1>1
  <1>3. IsFiniteSet(A) /\ Cardinality(A) <= Cardinality(B)
    BY <1>2, FS_Subset
  <1>. QED
    BY <1>1, <1>2, <1>3, FS_CardinalityType

\* What the rules that search are to say of the new line is in what was sent.
LEMMA HeardFound ==
  ASSUME NEW p \in Seq(Told), NEW t \in Told, NEW u, NEW w, NEW more, NEW tm \in Nat,
         AllSent(w, Append(p, t), more, u, tm), FoundKnown(w, p, u), DidOK(more, tm),
         t.line.kind # "bad" /\ t.line.uid = u => t.due = Due(more, t.line) /\ t.line.at = tm
  PROVE  FoundKnown(w, Append(p, t), u)
  <1>1. PICK r, n : r = Append(p, t) /\ n = Len(p)
    OBVIOUS
  <1>2. /\ n \in Nat /\ Len(r) = n + 1 /\ r[n + 1] = t
        /\ \A i \in 1..Len(r) : i = n + 1 \/ (i \in 1..n /\ r[i] = p[i])
    BY <1>1
  <1>3. ASSUME NEW i \in 1..n PROVE FoundRight(w, r, u, i, p[i])
    <2>1. \A s : Waiting(r, u, s, i) = Waiting(p, u, s, i)
      BY <1>1, <1>2, HeardWaiting
    <2>2. FoundRight(w, p, u, i, p[i])
      BY <1>1 DEF FoundKnown
    <2>. QED
      BY <2>1, <2>2 DEF FoundRight
  <1>4. FoundRight(w, r, u, n + 1, t)
    <2>. SUFFICES ASSUME t.line.kind = "usermsg", t.line.uid = u
                  PROVE  FoundRight(w, r, u, n + 1, t)
      BY DEF FoundRight
    <2>1. PICK H, s, G : /\ s = tm - Minute /\ G = Sent(more, s)
                         /\ H = Kept(w, s) \cup Waiting(r, u, s, n + 1)
      OBVIOUS
    <2>2. s \in Int /\ s >= tm - Minute
      BY <2>1, StateAssumption
    <2>3. H \subseteq G
      BY <1>1, <1>2, <2>1, <2>2 DEF AllSent
    <2>4. IsFiniteSet({h.target : h \in G})
      BY <2>1, SentFinite DEF DidOK
    <2>5. /\ Cardinality({h.target : h \in H}) \in Nat /\ Cardinality({h.target : h \in G}) \in Nat
          /\ Cardinality({h.target : h \in H}) <= Cardinality({h.target : h \in G})
      BY <2>3, <2>4, FewerTargets
    <2>6. more \in Seq(SentLines) /\ \A i \in 1..Len(more) : more[i].at >= s
      BY <2>1 DEF DidOK
    <2>7. /\ "pm_shotgun" \in Due(more, t.line) <=> Cardinality({h.target : h \in G}) >= Limit.targets
          /\ "nickserv_spoof" \in Due(more, t.line) <=> \E h \in G : h.body.spoof
      BY <2>1, <2>6, DueFinds
    <2>8. t.due = Due(more, t.line) /\ t.line.at = tm /\ Limit.targets \in Nat
      BY LimitAssumption
    <2>9. Cardinality({h.target : h \in H}) >= Limit.targets => "pm_shotgun" \in t.due
      BY <2>5, <2>7, <2>8
    <2>10. (\E h \in H : h.body.spoof) => "nickserv_spoof" \in t.due
      BY <2>3, <2>7, <2>8
    <2>. QED
      BY <2>1, <2>8, <2>9, <2>10 DEF FoundRight
  <1>5. FoundKnown(w, r, u)
    BY <1>2, <1>3, <1>4 DEF FoundKnown
  <1>. QED
    BY <1>1, <1>5

\* A line is written.
LEMMA AccountHeard ==
  ASSUME NEW p \in Seq(Told), NEW t \in Told, NEW u, NEW w, Listed(w), NEW did, NEW more,
         NEW tm \in Nat, Account(w, p, did, u, tm), Gained(did, more, t, u), DidOK(more, tm),
         t.line.kind # "bad" /\ t.line.uid = u => t.due = Due(more, t.line) /\ t.line.at = tm
  PROVE  Account(w, Append(p, t), more, u, tm)
  <1>1. NoneLost(w, Append(p, t), more, u, tm) /\ AllSent(w, Append(p, t), more, u, tm)
    BY HeardNoneLost, HeardAllSent DEF Account
  <1>2. DueKnown(w, Append(p, t), u)
    BY <1>1, HeardDue DEF Account
  <1>3. FoundKnown(w, Append(p, t), u)
    BY <1>1, HeardFound DEF Account
  <1>. QED
    BY <1>1, <1>2, <1>3 DEF Account

\* What the windows z say once event e is counted on the windows w, of u or not.
Taken(w, z, e, u) ==
  /\ \A X \in Classes, s \in Int :
       \/ Recalled(z, X, s) = Recalled(w, X, s) + One(e, Of(u, X, s))
       \/ Recalled(w, X, s) = Bound(X) /\ Recalled(z, X, s) = Bound(X)
  /\ \A s \in Int : Kept(z, s) \subseteq
                      Kept(w, s) \cup (IF e \in Of(u, "pms", s) THEN {Private(e.line)} ELSE {})

\* A line less is counted once less.
LEMMA ReadHits ==
  ASSUME NEW q \in Seq(Told), q # <<>>, NEW S
  PROVE  /\ \A n \in 0..Len(Tail(q)) : Hits(q, S, n + 1) = Hits(Tail(q), S, n) + One(q[1], S)
         /\ Tally(q, S) = Tally(Tail(q), S) + One(q[1], S) /\ Tally(Tail(q), S) \in Nat
  <1>1. PICK r, n : r = Tail(q) /\ n = Len(r)
    OBVIOUS
  <1>2. n \in Nat /\ Len(q) = n + 1 /\ \A i \in 1..n : r[i] = q[i + 1]
    BY <1>1
  <1>3. ASSUME NEW m \in 0..n PROVE Hits(q, S, m + 1) = Hits(r, S, m) + One(q[1], S)
    <2>1. m \in Nat
      BY <1>2
    <2>2. \A i \in 1..m : r[i] = q[i + 1]
      BY <1>2
    <2>3. Hits(q, S, m + 1) = Hits(r, S, m) + One(q[1], S)
      BY <2>1, <2>2, HitsTail, Zenon
    <2>. QED
      BY <2>3
  <1>4. Hits(r, S, n) \in Nat
    BY <1>2, HitsType
  <1>. QED
    BY <1>1, <1>2, <1>3, <1>4 DEF Tally

\* The account after the first line that waits was counted on a record, or
\* concerned another: nothing is lost.
LEMMA ReadNoneLost ==
  ASSUME NEW q \in Seq(Told), q # <<>>, NEW u, NEW w, Listed(w), NEW z, Listed(z),
         Taken(w, z, q[1], u), NEW did, Len(did) \in Nat, NEW tm, NoneLost(w, q, did, u, tm)
  PROVE  NoneLost(z, Tail(q), did, u, tm)
  <1>1. ASSUME NEW X \in Classes, NEW s \in Int, s >= tm - Minute
        PROVE  /\ Recalled(z, X, s) + Tally(Tail(q), Of(u, X, s)) <= Tally(did, Doing(X, s))
               /\ Recalled(z, X, s) < Bound(X) =>
                    Recalled(z, X, s) + Tally(Tail(q), Of(u, X, s)) = Tally(did, Doing(X, s))
    <2>1. PICK R, Z, P, Q, D, d, B :
             /\ R = Recalled(w, X, s) /\ Z = Recalled(z, X, s) /\ P = Tally(q, Of(u, X, s))
             /\ Q = Tally(Tail(q), Of(u, X, s)) /\ D = Tally(did, Doing(X, s))
             /\ d = One(q[1], Of(u, X, s)) /\ B = Bound(X)
      OBVIOUS
    <2>2. R + P <= D /\ (R < B => R + P = D)
      BY <1>1, <2>1 DEF NoneLost, Tally
    <2>3. P = Q + d /\ Q \in Nat
      BY <2>1, ReadHits
    <2>4. Z = R + d \/ (R = B /\ Z = B)
      BY <2>1 DEF Taken
    <2>5. R \in Nat /\ Z \in Nat /\ d \in {0, 1} /\ B \in Nat
      BY <2>1, RecalledType, RuleFacts DEF One
    <2>6. D \in Nat
      BY <2>1, HitsType DEF Tally
    <2>7. Z + Q <= D /\ (Z < B => Z + Q = D)
      BY ONLY <2>2, <2>3, <2>4, <2>5, <2>6
    <2>. QED
      BY <2>1, <2>7
  <1>. QED
    BY <1>1 DEF NoneLost, Tally

\* Reading a line does not change what a rule that counts is to say of a later one.
LEMMA ReadDue ==
  ASSUME NEW q \in Seq(Told), q # <<>>, NEW u, NEW w, Listed(w), NEW z, Listed(z),
         Taken(w, z, q[1], u), NEW i \in 0..Len(Tail(q)), NEW e \in Told, DueRight(w, q, u, i + 1, e)
  PROVE  DueRight(z, Tail(q), u, i, e)
  <1>. SUFFICES ASSUME e.line.kind # "bad", e.line.uid = u, NEW k \in CountRules
                PROVE  k \in e.due <=>
                         /\ Triggers(k, e.line)
                         /\ Recalled(z, ClassOf(k), e.line.at - Minute)
                              + Hits(Tail(q), Of(u, ClassOf(k), e.line.at - Minute), i) >= LimitOf(k)
    BY DEF DueRight
  <1>1. PICK X, s, R, Z, P, Q, d :
           /\ X = ClassOf(k) /\ s = e.line.at - Minute
           /\ R = Recalled(w, X, s) /\ Z = Recalled(z, X, s) /\ P = Hits(q, Of(u, X, s), i + 1)
           /\ Q = Hits(Tail(q), Of(u, X, s), i) /\ d = One(q[1], Of(u, X, s))
    OBVIOUS
  <1>2. X \in Classes /\ LimitOf(k) \in Nat /\ LimitOf(k) <= Bound(X) /\ Bound(X) \in Nat
    BY <1>1, RuleFacts
  <1>3. s \in Int
    BY <1>1, StateAssumption DEF Told, SentLines
  <1>4. P = Q + d
    BY <1>1, ReadHits
  <1>5. Z = R + d \/ (R = Bound(X) /\ Z = Bound(X))
    BY <1>1, <1>2, <1>3 DEF Taken
  <1>6. R \in Nat /\ Z \in Nat /\ d \in {0, 1}
    BY <1>1, <1>2, RecalledType DEF One
  <1>7. Q \in Nat
    <2>1. i \in Nat
      OBVIOUS
    <2>2. \A S : Hits(Tail(q), S, i) \in Nat
      BY ONLY <2>1, HitsType
    <2>. QED
      BY <1>1, <2>2
  <1>8. k \in e.due <=> Triggers(k, e.line) /\ R + P >= LimitOf(k)
    BY <1>1 DEF DueRight
  <1>9. R + P >= LimitOf(k) <=> Z + Q >= LimitOf(k)
    BY <1>2, <1>4, <1>5, <1>6, <1>7
  <1>. QED
    BY <1>1, <1>8, <1>9

\* What waits is the first line and what waits behind it.
LEMMA ReadWaiting ==
  ASSUME NEW q \in Seq(Told), q # <<>>, NEW u, NEW s, NEW n \in 0..Len(Tail(q))
  PROVE  Waiting(q, u, s, n + 1) =
           Waiting(Tail(q), u, s, n) \cup (IF q[1] \in Of(u, "pms", s) THEN {Private(q[1].line)} ELSE {})
  <1>1. PICK r, A, B : /\ r = Tail(q)
                       /\ A = {i \in 1..n + 1 : q[i] \in Of(u, "pms", s)}
                       /\ B = {i \in 1..n : r[i] \in Of(u, "pms", s)}
    OBVIOUS
  <1>2. n \in Nat /\ \A i \in 1..n : r[i] = q[i + 1]
    BY <1>1
  <1>3. \A i \in B : i \in 1..n /\ i + 1 \in A /\ r[i] = q[i + 1]
    BY <1>1, <1>2
  <1>4. ASSUME NEW i \in A, i # 1 PROVE i - 1 \in B /\ r[i - 1] = q[i]
    <2>1. i \in 1..n + 1 /\ q[i] \in Of(u, "pms", s)
      BY <1>1
    <2>2. i - 1 \in 1..n /\ (i - 1) + 1 = i
      BY <1>2, <1>4, <2>1
    <2>3. r[i - 1] = q[i]
      BY <1>2, <2>2
    <2>. QED
      BY <1>1, <2>1, <2>2, <2>3
  <1>5. 1 \in A <=> q[1] \in Of(u, "pms", s)
    BY <1>1, <1>2
  <1>6. /\ Waiting(q, u, s, n + 1) = {Private(q[i].line) : i \in A}
        /\ Waiting(r, u, s, n) = {Private(r[i].line) : i \in B}
    BY <1>1 DEF Waiting
  <1>7. ASSUME NEW x \in Waiting(q, u, s, n + 1)
        PROVE  x \in Waiting(r, u, s, n) \/ (q[1] \in Of(u, "pms", s) /\ x = Private(q[1].line))
    <2>1. PICK i \in A : x = Private(q[i].line)
      BY <1>6
    <2>. QED
      BY <1>4, <1>5, <1>6, <2>1
  <1>8. ASSUME NEW x \in Waiting(r, u, s, n) PROVE x \in Waiting(q, u, s, n + 1)
    <2>1. PICK i \in B : x = Private(r[i].line)
      BY <1>6
    <2>. QED
      BY <1>3, <1>6, <2>1
  <1>9. q[1] \in Of(u, "pms", s) => Private(q[1].line) \in Waiting(q, u, s, n + 1)
    BY <1>5, <1>6
  <1>. QED
    BY <1>1, <1>7, <1>8, <1>9

\* What the windows hold and the lines will add, no longer holds more.
LEMMA ReadFewer ==
  ASSUME NEW q \in Seq(Told), q # <<>>, NEW u, NEW w, NEW z, Taken(w, z, q[1], u),
         NEW s \in Int, NEW n \in 0..Len(Tail(q))
  PROVE  Kept(z, s) \cup Waiting(Tail(q), u, s, n) \subseteq Kept(w, s) \cup Waiting(q, u, s, n + 1)
  <1>1. Kept(z, s) \subseteq Kept(w, s) \cup (IF q[1] \in Of(u, "pms", s) THEN {Private(q[1].line)} ELSE {})
    BY DEF Taken
  <1>2. Waiting(q, u, s, n + 1) =
          Waiting(Tail(q), u, s, n) \cup (IF q[1] \in Of(u, "pms", s) THEN {Private(q[1].line)} ELSE {})
    BY ReadWaiting
  <1>. QED
    BY <1>1, <1>2

\* Reading a line adds nothing to the account that was not sent.
LEMMA ReadAllSent ==
  ASSUME NEW q \in Seq(Told), q # <<>>, NEW u, NEW w, NEW z, Taken(w, z, q[1], u), NEW did,
         NEW tm, AllSent(w, q, did, u, tm)
  PROVE  AllSent(z, Tail(q), did, u, tm)
  <1>1. Len(Tail(q)) \in 0..Len(Tail(q)) /\ Len(Tail(q)) + 1 = Len(q)
    OBVIOUS
  <1>2. ASSUME NEW s \in Int, s >= tm - Minute
        PROVE  Kept(z, s) \cup Waiting(Tail(q), u, s, Len(Tail(q))) \subseteq Sent(did, s)
    <2>1. Kept(z, s) \cup Waiting(Tail(q), u, s, Len(Tail(q))) \subseteq Kept(w, s) \cup Waiting(q, u, s, Len(q))
      BY <1>1, ReadFewer
    <2>. QED
      BY <1>2, <2>1 DEF AllSent
  <1>. QED
    BY <1>2 DEF AllSent

\* In the account there are finitely many.
LEMMA KnownFinite ==
  ASSUME NEW w, Listed(w), NEW p, NEW u, NEW s, NEW n \in Nat
  PROVE  IsFiniteSet({h.target : h \in Kept(w, s) \cup Waiting(p, u, s, n)})
  <1>1. PICK A, B, C, D :
           /\ A = {i \in 1..Len(w["pms"]) : w["pms"][i].at >= s} /\ B = Kept(w, s)
           /\ C = {i \in 1..n : p[i] \in Of(u, "pms", s)} /\ D = Waiting(p, u, s, n)
    OBVIOUS
  <1>2. IsFiniteSet(A)
    <2>1. Len(w["pms"]) \in Nat
      BY DEF Listed, Classes
    <2>2. IsFiniteSet(1..Len(w["pms"]))
      BY <2>1, FS_Interval
    <2>3. A \subseteq 1..Len(w["pms"])
      BY <1>1
    <2>. QED
      BY <2>2, <2>3, FS_Subset
  <1>3. IsFiniteSet(C)
    BY <1>1, HitsType
  <1>4. IsFiniteSet(B)
    <2>1. PICK f : f = [j \in A |-> Private(w["pms"][j])]
      OBVIOUS
    <2>2. DOMAIN f = A /\ B = {f[j] : j \in A}
      BY <1>1, <2>1 DEF Kept
    <2>. QED
      BY <1>2, <2>2, ImageFinite
  <1>5. IsFiniteSet(D)
    <2>1. PICK f : f = [j \in C |-> Private(p[j].line)]
      OBVIOUS
    <2>2. DOMAIN f = C /\ D = {f[j] : j \in C}
      BY <1>1, <2>1 DEF Waiting
    <2>. QED
      BY <1>3, <2>2, ImageFinite
  <1>6. IsFiniteSet(B \cup D)
    BY <1>4, <1>5, FS_Union
  <1>7. PICK f : f = [h \in B \cup D |-> h.target]
    OBVIOUS
  <1>8. DOMAIN f = B \cup D /\ {h.target : h \in B \cup D} = {f[h] : h \in B \cup D}
    BY <1>7
  <1>9. IsFiniteSet({h.target : h \in B \cup D})
    BY <1>6, <1>8, ImageFinite
  <1>. QED
    BY <1>1, <1>9

\* Reading a line does not change what a rule that searches is to say of a later one.
LEMMA ReadFound ==
  ASSUME NEW q \in Seq(Told), q # <<>>, NEW u, NEW w, Listed(w), NEW z,
         Taken(w, z, q[1], u), NEW i \in 0..Len(Tail(q)), NEW e \in Told, FoundRight(w, q, u, i + 1, e)
  PROVE  FoundRight(z, Tail(q), u, i, e)
  <1>. SUFFICES ASSUME e.line.kind = "usermsg", e.line.uid = u PROVE FoundRight(z, Tail(q), u, i, e)
    BY DEF FoundRight
  <1>1. PICK s, H, G : /\ s = e.line.at - Minute
                       /\ H = Kept(z, s) \cup Waiting(Tail(q), u, s, i)
                       /\ G = Kept(w, s) \cup Waiting(q, u, s, i + 1)
    OBVIOUS
  <1>2. s \in Int
    BY <1>1, StateAssumption DEF Told, SentLines
  <1>3. H \subseteq G
    BY <1>1, <1>2, ReadFewer
  <1>4. IsFiniteSet({h.target : h \in G})
    <2>1. i + 1 \in Nat
      OBVIOUS
    <2>. QED
      BY <1>1, <2>1, KnownFinite
  <1>5. /\ Cardinality({h.target : h \in H}) \in Nat /\ Cardinality({h.target : h \in G}) \in Nat
        /\ Cardinality({h.target : h \in H}) <= Cardinality({h.target : h \in G})
    BY <1>3, <1>4, FewerTargets
  <1>6. /\ Cardinality({h.target : h \in G}) >= Limit.targets => "pm_shotgun" \in e.due
        /\ (\E h \in G : h.body.spoof) => "nickserv_spoof" \in e.due
    BY <1>1 DEF FoundRight
  <1>7. Limit.targets \in Nat
    BY LimitAssumption
  <1>8. Cardinality({h.target : h \in H}) >= Limit.targets => "pm_shotgun" \in e.due
    BY <1>5, <1>6, <1>7
  <1>9. (\E h \in H : h.body.spoof) => "nickserv_spoof" \in e.due
    BY <1>3, <1>6
  <1>. QED
    BY <1>1, <1>8, <1>9 DEF FoundRight

\* A line is read, and counted if it is one that counts; if it is u's, what the
\* windows then say of it is what it is due for.
LEMMA AccountRead ==
  ASSUME NEW q \in Seq(Told), q # <<>>, NEW u, NEW w, Listed(w), NEW z, Listed(z),
         Taken(w, z, q[1], u), NEW did, Len(did) \in Nat, NEW tm, Account(w, q, did, u, tm)
  PROVE  /\ Account(z, Tail(q), did, u, tm)
         /\ DueRight(z, <<>>, u, 0, q[1]) /\ FoundRight(z, <<>>, u, 0, q[1])
  <1>1. PICK r, n : r = Tail(q) /\ n = Len(r)
    OBVIOUS
  <1>2. /\ n \in Nat /\ Len(q) = n + 1 /\ \A i \in 1..n : r[i] = q[i + 1] /\ r[i] \in Told
        /\ q[1] \in Told /\ \A i \in 0..n : i + 1 \in 1..Len(q)
    BY <1>1
  <1>3. NoneLost(z, r, did, u, tm) /\ AllSent(z, r, did, u, tm)
    BY <1>1, ReadNoneLost, ReadAllSent DEF Account
  <1>4. ASSUME NEW i \in 0..n
        PROVE  /\ DueRight(w, q, u, i + 1, q[i + 1]) /\ FoundRight(w, q, u, i + 1, q[i + 1])
               /\ i + 1 \in 1..Len(q) /\ q[i + 1] \in Told
    BY <1>2 DEF Account, DueKnown, FoundKnown
  <1>5. ASSUME NEW i \in 0..n PROVE DueRight(z, r, u, i, q[i + 1]) /\ FoundRight(z, r, u, i, q[i + 1])
    BY <1>1, <1>4, ReadDue, ReadFound
  <1>6. ASSUME NEW i \in 1..n PROVE DueRight(z, r, u, i, r[i]) /\ FoundRight(z, r, u, i, r[i])
    BY <1>2, <1>5
  <1>7. DueRight(z, r, u, 0, q[1]) /\ FoundRight(z, r, u, 0, q[1])
    BY <1>2, <1>5
  <1>8. DueRight(z, <<>>, u, 0, q[1])
    <2>1. \A S : Hits(r, S, 0) = Hits(<<>>, S, 0)
      BY HitsNone
    <2>. QED
      BY <1>7, <2>1 DEF DueRight
  <1>9. FoundRight(z, <<>>, u, 0, q[1])
    <2>1. \A s : Waiting(r, u, s, 0) = Waiting(<<>>, u, s, 0)
      BY DEF Waiting
    <2>. QED
      BY <1>7, <2>1 DEF FoundRight
  <1>10. DueKnown(z, r, u) /\ FoundKnown(z, r, u)
    BY <1>1, <1>6 DEF DueKnown, FoundKnown
  <1>. QED
    BY <1>1, <1>3, <1>8, <1>9, <1>10 DEF Account

\* The part of a sequence behind its first k elements.
LEMMA WhatFollows ==
  ASSUME NEW T, NEW s \in Seq(T), NEW k \in 0..Len(s), NEW r, r = SubSeq(s, k + 1, Len(s))
  PROVE  /\ r \in Seq(T) /\ Len(r) \in Nat /\ Len(r) + k = Len(s)
         /\ \A i \in 1..Len(r) : r[i] = s[i + k]
  <1>1. Len(s) \in Nat /\ k \in Nat /\ k <= Len(s)
    OBVIOUS
  <1>2. \A i \in k + 1..Len(s) : s[i] \in T
    BY <1>1
  <1>3. Len(r) = Len(s) - k
    BY <1>1
  <1>4. r \in Seq(T)
    <2>1. k + 1 \in Int /\ Len(s) \in Int
      BY <1>1
    <2>. QED
      BY <1>2, <2>1, SubSeqProperties
  <1>5. \A i \in 1..Len(r) : r[i] = s[i + k]
    <2>1. k + 1 \in Int /\ Len(s) \in Int
      BY <1>1
    <2>2. \A i \in 1..Len(s) - (k + 1) + 1 : r[i] = s[(k + 1) + i - 1]
      BY <1>2, <2>1, SubSeqProperties
    <2>. QED
      BY <1>1, <1>3, <2>2
  <1>. QED
    BY <1>1, <1>3, <1>4, <1>5

\* What comes first is as many as it is.
LEMMA FirstOnes ==
  ASSUME NEW n \in Nat, NEW A, A \subseteq 1..n, \A i \in A : \A j \in 1..i : j \in A
  PROVE  Cardinality(A) \in 0..n /\ A = 1..Cardinality(A)
  <1>1. IsFiniteSet(1..n) /\ Cardinality(1..n) = n
    BY FS_Interval
  <1>2. PICK k : k = Cardinality(A)
    OBVIOUS
  <1>3. IsFiniteSet(A) /\ k <= n
    BY <1>1, <1>2, FS_Subset
  <1>4. k \in Nat
    BY <1>2, <1>3, FS_CardinalityType
  <1>5. IsFiniteSet(1..k) /\ Cardinality(1..k) = k
    BY <1>4, FS_Interval
  <1>6. ASSUME NEW i \in A PROVE i \in 1..k
    <2>1. i \in Nat /\ i >= 1 /\ 1..i \subseteq A
      BY <1>6
    <2>2. Cardinality(1..i) = i
      BY <2>1, FS_Interval
    <2>3. Cardinality(1..i) <= Cardinality(A)
      BY <1>3, <2>1, FS_Subset
    <2>. QED
      BY <1>2, <1>4, <2>1, <2>2, <2>3
  <1>7. A \subseteq 1..k /\ Cardinality(A) = Cardinality(1..k)
    BY <1>2, <1>5, <1>6
  <1>8. A = 1..k
    BY <1>5, <1>7, FS_Subset
  <1>. QED
    BY <1>2, <1>3, <1>4, <1>8

\* What was done more than a minute ago, a tick later, is what comes first.
LEMMA OldOnes ==
  ASSUME NEW tm \in Nat, NEW did, DidOK(did, tm), NEW t \in Int, NEW old,
         old = {i \in DOMAIN did : ~Within(did[i].at, t)}
  PROVE  /\ Cardinality(old) \in 0..Len(did) /\ old = 1..Cardinality(old)
         /\ \A i \in 1..Len(did) : i \in 1..Cardinality(old) <=> did[i].at < t - Minute
  <1>1. /\ did \in Seq(SentLines) /\ Len(did) \in Nat /\ DOMAIN did = 1..Len(did)
        /\ \A i \in 1..Len(did) : did[i] \in SentLines /\ did[i].at \in Int
    <2>1. did \in Seq(SentLines)
      BY DEF DidOK
    <2>2. \A i \in 1..Len(did) : did[i] \in SentLines
      BY <2>1
    <2>. QED
      BY <2>1, <2>2 DEF SentLines
  <1>2. \A i \in 1..Len(did) : i \in old <=> did[i].at < t - Minute
    BY <1>1, StateAssumption DEF Within
  <1>3. \A i, j \in 1..Len(did) : i <= j => did[i].at <= did[j].at
    BY DEF DidOK
  <1>4. \A i \in old : \A j \in 1..i : j \in old
    <2>. SUFFICES ASSUME NEW i \in old, NEW j \in 1..i PROVE j \in old
      OBVIOUS
    <2>1. i \in 1..Len(did) /\ j \in 1..Len(did) /\ j <= i
      BY <1>1
    <2>2. did[j].at <= did[i].at /\ did[i].at < t - Minute
      BY <1>2, <1>3, <2>1
    <2>3. did[j].at < t - Minute
      BY <1>1, <2>1, <2>2, StateAssumption
    <2>. QED
      BY <1>2, <2>1, <2>3
  <1>5. old \subseteq 1..Len(did)
    BY <1>1
  <1>6. Cardinality(old) \in 0..Len(did) /\ old = 1..Cardinality(old)
    BY <1>1, <1>4, <1>5, FirstOnes
  <1>. QED
    BY <1>2, <1>6

\* What was done more than a minute before t, and what was not.
OldIn(did, t) == {i \in DOMAIN did : ~Within(did[i].at, t)}
Younger(did, t) == SubSeq(did, Cardinality(OldIn(did, t)) + 1, Len(did))

\* A minute is over for some of what a user did.
LEMMA AccountAges ==
  ASSUME NEW tm \in Nat, NEW did, DidOK(did, tm)
  PROVE  /\ DidOK(Younger(did, tm + 1), tm + 1)
         /\ \A w, p, u : Account(w, p, did, u, tm) => Account(w, p, Younger(did, tm + 1), u, tm + 1)
  <1>. DEFINE t == tm + 1
              old == OldIn(did, t)
              less == Younger(did, t)
  <1>. HIDE DEF t, old, less
  <1>0. t \in Int /\ tm \in Int /\ Minute \in Int /\ t = tm + 1
    BY StateAssumption DEF t
  <1>1. PICK k, n : k = Cardinality(old) /\ n = Len(less)
    OBVIOUS
  <1>2. /\ k \in 0..Len(did)
        /\ \A i \in 1..Len(did) : i \in 1..k <=> did[i].at < t - Minute
    BY <1>0, <1>1, OldOnes DEF old, OldIn
  <1>3. /\ did \in Seq(SentLines) /\ Len(did) \in Nat
        /\ \A i \in 1..Len(did) : did[i] \in SentLines /\ did[i].at \in Int
    <2>1. did \in Seq(SentLines)
      BY DEF DidOK
    <2>2. \A i \in 1..Len(did) : did[i] \in SentLines
      BY <2>1
    <2>. QED
      BY <2>1, <2>2 DEF SentLines
  <1>4. /\ less \in Seq(SentLines) /\ n \in Nat /\ n + k = Len(did)
        /\ \A i \in 1..n : less[i] = did[i + k]
    <2>1. less = SubSeq(did, k + 1, Len(did)) /\ k \in 0..Len(did) /\ did \in Seq(SentLines)
      BY <1>1, <1>2, <1>3 DEF less, old, Younger
    <2>2. /\ less \in Seq(SentLines) /\ Len(less) \in Nat /\ Len(less) + k = Len(did)
          /\ \A i \in 1..Len(less) : less[i] = did[i + k]
      BY ONLY <2>1, WhatFollows
    <2>. QED
      BY <1>1, <2>2
  <1>5. \A i \in 1..n : i + k \in 1..Len(did) /\ i + k \notin 1..k
    BY <1>2, <1>4
  <1>6. DidOK(less, t)
    <2>1. \A i \in 1..n : less[i].at <= t /\ less[i].at >= t - Minute
      <3>. SUFFICES ASSUME NEW i \in 1..n
                    PROVE  less[i].at <= t /\ less[i].at >= t - Minute
        OBVIOUS
      <3>1. less[i] = did[i + k] /\ i + k \in 1..Len(did) /\ ~(did[i + k].at < t - Minute)
        BY <1>2, <1>4, <1>5
      <3>2. did[i + k].at <= tm /\ did[i + k].at \in Int
        BY <1>3, <3>1 DEF DidOK
      <3>. QED
        BY ONLY <3>1, <3>2, <1>0
    <2>2. \A i, j \in 1..n : i <= j => less[i].at <= less[j].at
      <3>. SUFFICES ASSUME NEW i \in 1..n, NEW j \in 1..n, i <= j PROVE less[i].at <= less[j].at
        OBVIOUS
      <3>1. i + k \in 1..Len(did) /\ j + k \in 1..Len(did) /\ i + k <= j + k
        BY <1>2, <1>5
      <3>2. did[i + k].at <= did[j + k].at
        BY <3>1 DEF DidOK
      <3>. QED
        BY <1>4, <3>2
    <2>. QED
      BY <1>1, <1>4, <2>1, <2>2 DEF DidOK
  <1>7. ASSUME NEW s \in Int, s >= t - Minute, NEW X
        PROVE  Hits(less, Doing(X, s), Len(less)) = Hits(did, Doing(X, s), Len(did))
    <2>1. \A j \in 1..k : did[j] \notin Doing(X, s)
      <3>. SUFFICES ASSUME NEW j \in 1..k PROVE did[j] \notin Doing(X, s)
        OBVIOUS
      <3>1. j \in 1..Len(did) /\ did[j].at < t - Minute /\ did[j].at \in Int
        BY <1>2, <1>3
      <3>2. ~(did[j].at >= s)
        BY <1>7, <3>1, <1>0
      <3>. QED
        BY <3>2 DEF Doing
    <2>2. \A j \in 1..n : less[j] = did[j + k]
      BY <1>4
    <2>3. n \in Nat
      BY <1>4
    <2>5. k \in Nat
      BY <1>2
    <2>4. Hits(less, Doing(X, s), n) = Hits(did, Doing(X, s), n + k)
      <3>1. PICK S : S = Doing(X, s)
        OBVIOUS
      <3>2. \A j \in 1..k : did[j] \notin S
        BY <2>1, <3>1
      <3>4. Without(did, less, n, k, S)
        BY <2>2, <3>2 DEF Without
      <3>3. Hits(less, S, n) = Hits(did, S, n + k)
        BY <2>3, <2>5, <3>4, HitsSuffix
      <3>. QED
        BY <3>1, <3>3
    <2>. QED
      BY <1>1, <1>4, <2>4
  <1>8. ASSUME NEW s \in Int, s >= t - Minute PROVE Sent(did, s) \subseteq Sent(less, s)
    <2>. SUFFICES ASSUME NEW x \in Sent(did, s) PROVE x \in Sent(less, s)
      OBVIOUS
    <2>1. PICK j \in 1..Len(did) : did[j] \in Doing("pms", s) /\ x = Private(did[j])
      BY DEF Sent
    <2>2. did[j].at >= s
      BY <2>1 DEF Doing
    <2>3. ~(did[j].at < t - Minute)
      BY <1>3, <1>8, <2>2, <1>0
    <2>4. j \notin 1..k
      BY <1>2, <2>3
    <2>5. j - k \in 1..n /\ (j - k) + k = j
      BY <1>2, <1>4, <2>4
    <2>6. less[j - k] = did[j]
      BY <1>4, <2>5
    <2>. QED
      BY <1>1, <2>1, <2>5, <2>6 DEF Sent
  <1>9. ASSUME NEW w, NEW p, NEW u, Account(w, p, did, u, tm) PROVE Account(w, p, less, u, t)
    <2>1. ASSUME NEW s \in Int, s >= t - Minute PROVE s >= tm - Minute
      BY <2>1, <1>0
    <2>2. NoneLost(w, p, less, u, t)
      BY <1>7, <1>9, <2>1 DEF Account, NoneLost
    <2>3. AllSent(w, p, less, u, t)
      <3>. SUFFICES ASSUME NEW s \in Int, s >= t - Minute
                    PROVE  Kept(w, s) \cup Waiting(p, u, s, Len(p)) \subseteq Sent(less, s)
        BY DEF AllSent
      <3>1. Kept(w, s) \cup Waiting(p, u, s, Len(p)) \subseteq Sent(did, s)
        BY <1>9, <2>1 DEF Account, AllSent
      <3>. QED
        BY <1>8, <3>1
    <2>. QED
      BY <1>9, <2>2, <2>3 DEF Account
  <1>. QED
    BY <1>6, <1>9 DEF less, t

-----------------------------------------------------------------------------
(* Counting an event on a record. *)

\* A line that a reader can count.
Countable(l) == /\ l.kind # "bad" /\ l.at \in Nat /\ l.body \in Bodies
                /\ l.kind = "usermsg" => l.target \in Nicks

\* What a window keeps has a time, that of the event.
LEMMA EntryTypes ==
  /\ \A X \in Classes : \A x \in Entries(X) : AtOf(X, x) \in Nat
  /\ \A X \in Classes : \A l : Countable(l) /\ Into(X, l) =>
       EntryOf(X, l) \in Entries(X) /\ AtOf(X, EntryOf(X, l)) = l.at
  <1>1. ASSUME NEW X \in Classes, NEW x \in Entries(X) PROVE AtOf(X, x) \in Nat
    BY DEF Classes, Entries, AtOf, WindowMessages, PrivateMessages
  <1>2. ASSUME NEW l, Countable(l) PROVE /\ EntryOf("msgs", l) \in Entries("msgs")
                                         /\ AtOf("msgs", EntryOf("msgs", l)) = l.at
    BY <1>2 DEF Countable, EntryOf, Entries, AtOf, WindowMessages
  <1>3. ASSUME NEW l, Countable(l), Into("pms", l)
        PROVE  EntryOf("pms", l) \in Entries("pms") /\ AtOf("pms", EntryOf("pms", l)) = l.at
    BY <1>3 DEF Countable, EntryOf, Entries, AtOf, PrivateMessages, Into
  <1>4. ASSUME NEW l, Countable(l), NEW X \in Classes \ {"msgs", "pms"}
        PROVE  EntryOf(X, l) \in Entries(X) /\ AtOf(X, EntryOf(X, l)) = l.at
    BY <1>4 DEF Countable, EntryOf, Entries, AtOf
  <1>. QED
    BY <1>1, <1>2, <1>3, <1>4

\* Counting an event on a record adds it to the windows it goes into.
LEMMA CountedSeen ==
  ASSUME NEW q, DOMAIN q = RecordFields, NEW l, Countable(l), NEW X \in Classes
  PROVE  Seen(X, Counted(q, l)) = IF Into(X, l) THEN appendTimeBounded(Seen(X, q), EntryOf(X, l), Bound(X))
                                                ELSE Seen(X, q)
  <1>0. X \in {"msgs", "joins", "nicks", "hops", "pms", "mentions"}
    BY DEF Classes
  <1>1. PICK p : p = touch(q, l.at)
    OBVIOUS
  <1>2. /\ DOMAIN p = RecordFields
        /\ p.recentMsgs = q.recentMsgs /\ p.recentJoins = q.recentJoins
        /\ p.recentNicks = q.recentNicks /\ p.recentHops = q.recentHops
        /\ p.recentUserMsg = q.recentUserMsg /\ p.recentMentions = q.recentMentions
    BY <1>1 DEF touch, RecordFields
  <1>3. CASE l.kind \in Messages
    <2>1. Counted(q, l) = onMessage(q, l)
      BY <1>3 DEF Counted, Messages
    <2>2. NoNick \notin Nicks
      BY ManagerAssumption
    <2>3. PICK o : o = onMessage(q, l)
      OBVIOUS
    <2>4. /\ o.recentJoins = p.recentJoins /\ o.recentNicks = p.recentNicks /\ o.recentHops = p.recentHops
      BY <1>1, <1>2, <2>3 DEF onMessage, RecordFields
    <2>5. o.recentMsgs = appendTimeBounded(p.recentMsgs, [at |-> l.at, body |-> l.body], MaxRecentMessages)
      BY <1>1, <1>2, <2>3 DEF onMessage, RecordFields
    <2>6. o.recentUserMsg = IF l.kind = "usermsg" /\ l.target # NoNick
                            THEN appendTimeBounded(p.recentUserMsg, [at |-> l.at, target |-> l.target,
                                                                     body |-> l.body], MaxRecentMessages)
                            ELSE p.recentUserMsg
      BY <1>1, <1>2, <2>3 DEF onMessage, RecordFields
    <2>7. o.recentMentions = IF l.kind = "chanmsg" /\ l.body.mentions >= 3
                             THEN appendTimeBounded(p.recentMentions, l.at, MaxRecentMessages)
                             ELSE p.recentMentions
      BY <1>1, <1>2, <2>3 DEF onMessage, RecordFields
    <2>8. l.kind = "usermsg" => l.target # NoNick
      BY <2>2 DEF Countable
    <2>9. l.kind \notin {"join", "nick", "part", "kick"}
      BY <1>3 DEF Messages
    <2>. QED
      BY <1>0, <1>2, <1>3, <2>1, <2>3, <2>4, <2>5, <2>6, <2>7, <2>8, <2>9 DEF Seen, Into, EntryOf, Bound
  <1>4. CASE l.kind = "join"
    <2>1. Counted(q, l) = onJoin(q, l)
      BY <1>4 DEF Counted, Messages
    <2>2. PICK o : o = onJoin(q, l)
      OBVIOUS
    <2>3. /\ o.recentMsgs = p.recentMsgs /\ o.recentNicks = p.recentNicks
          /\ o.recentUserMsg = p.recentUserMsg /\ o.recentMentions = p.recentMentions
          /\ o.recentJoins = appendTimeBounded(p.recentJoins, l.at, MaxRecentJoins)
          /\ o.recentHops = appendTimeBounded(p.recentHops, l.at, MaxRecentEvents)
      BY <1>1, <1>2, <2>2 DEF onJoin, RecordFields
    <2>. QED
      BY <1>0, <1>2, <1>4, <2>1, <2>2, <2>3 DEF Seen, Into, EntryOf, Bound, Messages
  <1>5. CASE l.kind \in {"part", "kick"}
    <2>1. Counted(q, l) = onPart(q, l)
      BY <1>5 DEF Counted, Messages
    <2>2. PICK o : o = onPart(q, l)
      OBVIOUS
    <2>3. /\ o.recentMsgs = p.recentMsgs /\ o.recentNicks = p.recentNicks
          /\ o.recentUserMsg = p.recentUserMsg /\ o.recentMentions = p.recentMentions
          /\ o.recentJoins = p.recentJoins
          /\ o.recentHops = appendTimeBounded(p.recentHops, l.at, MaxRecentEvents)
      BY <1>1, <1>2, <2>2 DEF onPart, RecordFields
    <2>. QED
      BY <1>0, <1>2, <1>5, <2>1, <2>2, <2>3 DEF Seen, Into, EntryOf, Bound, Messages
  <1>6. CASE l.kind = "nick"
    <2>1. Counted(q, l) = onNick(q, l)
      BY <1>6 DEF Counted, Messages
    <2>2. PICK o : o = onNick(q, l)
      OBVIOUS
    <2>3. /\ o.recentMsgs = p.recentMsgs /\ o.recentHops = p.recentHops
          /\ o.recentUserMsg = p.recentUserMsg /\ o.recentMentions = p.recentMentions
          /\ o.recentJoins = p.recentJoins
          /\ o.recentNicks = appendTimeBounded(p.recentNicks, l.at, MaxRecentEvents)
      BY <1>1, <1>2, <2>2 DEF onNick, RecordFields
    <2>. QED
      BY <1>0, <1>2, <1>6, <2>1, <2>2, <2>3 DEF Seen, Into, EntryOf, Bound, Messages
  <1>7. CASE l.kind \notin Messages \cup {"join", "part", "kick", "nick"}
    <2>1. Counted(q, l) \in {onCTCP(q, l), q}
      BY <1>7 DEF Counted
    <2>2. PICK o : o = onCTCP(q, l)
      OBVIOUS
    <2>3. /\ o.recentMsgs = p.recentMsgs /\ o.recentHops = p.recentHops
          /\ o.recentUserMsg = p.recentUserMsg /\ o.recentMentions = p.recentMentions
          /\ o.recentJoins = p.recentJoins /\ o.recentNicks = p.recentNicks
      BY <1>1, <1>2, <2>2 DEF onCTCP, RecordFields
    <2>4. Seen(X, Counted(q, l)) = Seen(X, q)
      BY <1>0, <1>2, <2>1, <2>2, <2>3 DEF Seen
    <2>5. ~Into(X, l)
      BY <1>0, <1>7 DEF Into, Messages
    <2>. QED
      BY <2>4, <2>5
  <1>. QED
    BY <1>3, <1>4, <1>5, <1>6, <1>7

\* The windows of a record are bounded, and their entries have times.
LEMMA WindowParts ==
  ASSUME NEW q, NEW p, NEW tm, WindowsOK(WindowsOf(q), p, tm), NEW X \in Classes
  PROVE  /\ WindowsOf(q)[X] = Seen(X, q)
         /\ Seen(X, q) \in Seq(Entries(X)) /\ Len(Seen(X, q)) \in Nat /\ Len(Seen(X, q)) <= Bound(X)
         /\ \A i \in 1..Len(Seen(X, q)) : Seen(X, q)[i] \in Entries(X) /\ AtOf(X, Seen(X, q)[i]) \in Nat
  <1>1. WindowsOf(q)[X] = Seen(X, q)
    BY DEF WindowsOf
  <1>2. Seen(X, q) \in Seq(Entries(X)) /\ Len(Seen(X, q)) <= Bound(X)
    BY <1>1 DEF WindowsOK
  <1>3. \A i \in 1..Len(Seen(X, q)) : Seen(X, q)[i] \in Entries(X)
    BY <1>2
  <1>. QED
    BY <1>1, <1>2, <1>3, EntryTypes

\* The windows stay windows.
LEMMA WindowsCount ==
  ASSUME NEW q, DOMAIN q = RecordFields, NEW p \in Seq(Told), p # <<>>, NEW l, l = p[1].line,
         Countable(l), NEW tm, InOrder(p, tm), WindowsOK(WindowsOf(q), p, tm)
  PROVE  WindowsOK(WindowsOf(Counted(q, l)), Tail(p), tm)
  <1>. SUFFICES ASSUME NEW X \in Classes
                PROVE  LET w == Seen(X, Counted(q, l))
                       IN /\ w \in Seq(Entries(X)) /\ Len(w) <= Bound(X)
                          /\ \A i, j \in 1..Len(w) : i <= j => AtOf(X, w[i]) <= AtOf(X, w[j])
                          /\ \A i \in 1..Len(w) : /\ AtOf(X, w[i]) <= tm
                                                  /\ \A j \in 1..Len(Tail(p)) : Tail(p)[j].line.kind # "bad" =>
                                                       AtOf(X, w[i]) <= Tail(p)[j].line.at
    BY DEF WindowsOK, WindowsOf
  <1>1. PICK s, t, e : s = Seen(X, q) /\ t = Seen(X, Counted(q, l)) /\ e = EntryOf(X, l)
    OBVIOUS
  <1>2. /\ s \in Seq(Entries(X)) /\ Len(s) \in Nat /\ Len(s) <= Bound(X)
        /\ \A i \in 1..Len(s) : AtOf(X, s[i]) \in Nat
    BY <1>1, WindowParts
  <1>3. /\ 1 \in 1..Len(p) /\ \A j \in 1..Len(Tail(p)) : j + 1 \in 1..Len(p) /\ Tail(p)[j] = p[j + 1]
    BY ToldParts
  <1>4. /\ \A i, j \in 1..Len(s) : i <= j => AtOf(X, s[i]) <= AtOf(X, s[j])
        /\ \A i \in 1..Len(s) : AtOf(X, s[i]) <= tm /\ AtOf(X, s[i]) <= l.at
        /\ \A i \in 1..Len(s) : \A j \in 1..Len(Tail(p)) : Tail(p)[j].line.kind # "bad" =>
             AtOf(X, s[i]) <= Tail(p)[j].line.at
    <2>1. WindowsOf(q)[X] = s
      BY <1>1 DEF WindowsOf
    <2>2. \A i, j \in 1..Len(s) : i <= j => AtOf(X, s[i]) <= AtOf(X, s[j])
      BY <2>1 DEF WindowsOK
    <2>3. \A i \in 1..Len(s) : /\ AtOf(X, s[i]) <= tm
                               /\ \A j \in 1..Len(p) : p[j].line.kind # "bad" => AtOf(X, s[i]) <= p[j].line.at
      BY <2>1 DEF WindowsOK
    <2>4. \A i \in 1..Len(s) : AtOf(X, s[i]) <= l.at
      BY <1>3, <2>3 DEF Countable
    <2>. QED
      BY <1>3, <2>2, <2>3, <2>4
  <1>5. l.at <= tm /\ \A j \in 1..Len(Tail(p)) : Tail(p)[j].line.kind # "bad" => l.at <= Tail(p)[j].line.at
    <2>1. \A j \in 1..Len(Tail(p)) : 1 < j + 1
      OBVIOUS
    <2>. QED
      BY <1>3, <2>1 DEF InOrder, Countable
  <1>6. CASE ~Into(X, l)
    <2>1. t = s
      BY <1>1, <1>6, CountedSeen
    <2>. QED
      BY <1>1, <1>2, <1>4, <2>1
  <1>7. CASE Into(X, l)
    <2>1. t = appendTimeBounded(s, e, Bound(X))
      BY <1>1, <1>7, CountedSeen
    <2>2. e \in Entries(X) /\ AtOf(X, e) = l.at
      BY <1>1, <1>7, EntryTypes
    <2>3. Bound(X) \in Nat /\ Bound(X) > 0
      BY RuleFacts
    <2>4. /\ t \in Seq(Entries(X)) /\ Len(t) <= Bound(X)
          /\ \A i \in 1..Len(t) : t[i] = e \/ \E j \in 1..Len(s) : t[i] = s[j]
          /\ \A i, k \in 1..Len(t) : i <= k => \/ t[k] = e
                                              \/ \E j, m \in 1..Len(s) : j <= m /\ t[i] = s[j] /\ t[k] = s[m]
      BY <1>2, <2>1, <2>2, <2>3, WindowStays
    <2>5. ASSUME NEW i \in 1..Len(t)
          PROVE  /\ AtOf(X, t[i]) <= tm /\ AtOf(X, t[i]) <= l.at
                 /\ \A j \in 1..Len(Tail(p)) : Tail(p)[j].line.kind # "bad" => AtOf(X, t[i]) <= Tail(p)[j].line.at
      <3>1. CASE t[i] = e
        BY <1>5, <2>2, <3>1 DEF Countable
      <3>2. CASE \E j \in 1..Len(s) : t[i] = s[j]
        BY <1>4, <3>2
      <3>. QED
        BY <2>4, <3>1, <3>2
    <2>6. ASSUME NEW i \in 1..Len(t), NEW k \in 1..Len(t), i <= k PROVE AtOf(X, t[i]) <= AtOf(X, t[k])
      <3>1. CASE t[k] = e
        BY <2>2, <2>5, <3>1
      <3>2. CASE \E j, m \in 1..Len(s) : j <= m /\ t[i] = s[j] /\ t[k] = s[m]
        BY <1>4, <3>2
      <3>. QED
        BY <2>4, <2>6, <3>1, <3>2
    <2>. QED
      BY <1>1, <2>4, <2>5, <2>6
  <1>. QED
    BY <1>6, <1>7

\* An event that is not u's, or that no window takes, leaves u's windows right.
LEMMA TakenNone ==
  ASSUME NEW w, Listed(w), NEW e, NEW u, \A X \in Classes : \A s \in Int : e \notin Of(u, X, s)
  PROVE  Taken(w, w, e, u)
  <1>1. "pms" \in Classes
    BY DEF Classes
  <1>2. ASSUME NEW X \in Classes, NEW s \in Int
        PROVE  Recalled(w, X, s) = Recalled(w, X, s) + One(e, Of(u, X, s))
    <2>1. One(e, Of(u, X, s)) = 0
      BY DEF One
    <2>. QED
      BY <2>1, RecalledType
  <1>. QED
    BY <1>1, <1>2 DEF Taken

\* Counting an event on its user's record takes it into the user's windows.
LEMMA TakenCount ==
  ASSUME NEW q, DOMAIN q = RecordFields, NEW p \in Seq(Told), p # <<>>, NEW l, l = p[1].line,
         Countable(l), NEW tm, InOrder(p, tm), WindowsOK(WindowsOf(q), p, tm)
  PROVE  Taken(WindowsOf(q), WindowsOf(Counted(q, l)), p[1], l.uid)
  <1>0. /\ 1 \in 1..Len(p) /\ p[1] \in Told /\ l.at \in Nat /\ l.kind # "bad"
        /\ "pms" \in Classes
    BY ToldParts DEF Countable, Classes
  <1>1. PICK w, z : w = WindowsOf(q) /\ z = WindowsOf(Counted(q, l))
    OBVIOUS
  <1>2. ASSUME NEW X \in Classes
        PROVE  /\ w[X] \in Seq(Entries(X)) /\ Len(w[X]) <= Bound(X)
               /\ \A i, j \in 1..Len(w[X]) : i <= j => AtOf(X, w[X][i]) <= AtOf(X, w[X][j])
               /\ \A i \in 1..Len(w[X]) : /\ w[X][i] \in Entries(X) /\ AtOf(X, w[X][i]) \in Nat
                                          /\ AtOf(X, w[X][i]) <= l.at
               /\ Bound(X) \in Nat /\ Bound(X) > 0
               /\ Into(X, l) => z[X] = appendTimeBounded(w[X], EntryOf(X, l), Bound(X))
               /\ ~Into(X, l) => z[X] = w[X]
               /\ Into(X, l) => EntryOf(X, l) \in Entries(X) /\ AtOf(X, EntryOf(X, l)) = l.at
               /\ Len(w[X]) \in Nat
    <2>1. /\ w[X] \in Seq(Entries(X)) /\ Len(w[X]) <= Bound(X) /\ Len(w[X]) \in Nat
          /\ \A i \in 1..Len(w[X]) : w[X][i] \in Entries(X) /\ AtOf(X, w[X][i]) \in Nat
      BY <1>1, WindowParts
    <2>2. \A i, j \in 1..Len(w[X]) : i <= j => AtOf(X, w[X][i]) <= AtOf(X, w[X][j])
      BY <1>1 DEF WindowsOK
    <2>3. \A i \in 1..Len(w[X]) : AtOf(X, w[X][i]) <= l.at
      BY <1>0, <1>1 DEF WindowsOK
    <2>4. w[X] = Seen(X, q) /\ z[X] = Seen(X, Counted(q, l))
      BY <1>1 DEF WindowsOf
    <2>5. /\ Into(X, l) => z[X] = appendTimeBounded(w[X], EntryOf(X, l), Bound(X))
          /\ ~Into(X, l) => z[X] = w[X]
      BY <2>4, CountedSeen
    <2>6. Into(X, l) => EntryOf(X, l) \in Entries(X) /\ AtOf(X, EntryOf(X, l)) = l.at
      BY EntryTypes
    <2>. QED
      BY <2>1, <2>2, <2>3, <2>5, <2>6, RuleFacts
  <1>3. Listed(w)
    BY <1>2 DEF Listed
  <1>4. ASSUME NEW X \in Classes, NEW s \in Int
        PROVE  \/ Recalled(z, X, s) = Recalled(w, X, s) + One(p[1], Of(l.uid, X, s))
               \/ Recalled(w, X, s) = Bound(X) /\ Recalled(z, X, s) = Bound(X)
    <2>1. CASE ~Into(X, l)
      <3>1. p[1] \notin Of(l.uid, X, s)
        BY <2>1 DEF Of
      <3>2. z[X] = w[X]
        BY <1>2, <2>1
      <3>3. Recalled(z, X, s) = Recalled(w, X, s) /\ One(p[1], Of(l.uid, X, s)) = 0
        BY <3>1, <3>2 DEF Recalled, One
      <3>. QED
        BY <1>3, <3>3, RecalledType
    <2>2. CASE Into(X, l)
      <3>1. PICK a, e, b, S, T : /\ a = w[X] /\ e = EntryOf(X, l) /\ b = z[X] /\ S = Since(X, s)
                                 /\ T = Entries(X)
        OBVIOUS
      <3>2. /\ a \in Seq(T) /\ e \in T /\ Len(a) <= Bound(X) /\ b = appendTimeBounded(a, e, Bound(X))
            /\ Bound(X) \in Nat /\ Bound(X) > 0
        BY <1>2, <2>2, <3>1
      <3>3. \A x : x \in S <=> x \in T /\ AtOf(X, x) >= s
        BY <3>1 DEF Since
      <3>4. AtOf(X, e) = l.at /\ \A i \in 1..Len(a) : a[i] \in T /\ AtOf(X, a[i]) \in Nat /\ AtOf(X, a[i]) <= l.at
        BY <1>2, <2>2, <3>1
      <3>5. \A i \in 1..Len(a) : a[i] \in S => e \in S
        <4>. SUFFICES ASSUME NEW i \in 1..Len(a), a[i] \in S PROVE AtOf(X, e) >= s
          BY <3>2, <3>3
        <4>1. AtOf(X, a[i]) >= s /\ AtOf(X, a[i]) <= AtOf(X, e) /\ AtOf(X, a[i]) \in Nat
          BY <3>3, <3>4
        <4>. QED
          BY <1>0, <3>4, <4>1
      <3>6. \A i, j \in 1..Len(a) : i <= j /\ a[i] \in S => a[j] \in S
        <4>. SUFFICES ASSUME NEW i \in 1..Len(a), NEW j \in 1..Len(a), i <= j, a[i] \in S
                      PROVE  AtOf(X, a[j]) >= s
          BY <3>3, <3>4
        <4>1. AtOf(X, a[i]) <= AtOf(X, a[j])
          BY <1>2, <3>1
        <4>2. AtOf(X, a[i]) >= s /\ AtOf(X, a[i]) \in Nat /\ AtOf(X, a[j]) \in Nat
          BY <3>3, <3>4
        <4>. QED
          BY <4>1, <4>2
      <3>7. \/ Hits(b, S, Len(b)) = Hits(a, S, Len(a)) + One(e, S)
            \/ Hits(a, S, Len(a)) = Bound(X) /\ Hits(b, S, Len(b)) = Bound(X)
        BY <3>2, <3>5, <3>6, WindowHits
      <3>8. One(e, S) = One(p[1], Of(l.uid, X, s))
        <4>1. e \in S <=> l.at >= s
          BY <3>2, <3>3, <3>4
        <4>2. p[1] \in Of(l.uid, X, s) <=> l.at >= s
          BY <1>0, <2>2 DEF Of
        <4>. QED
          BY <4>1, <4>2 DEF One
      <3>. QED
        BY <3>1, <3>7, <3>8 DEF Recalled
    <2>. QED
      BY <2>1, <2>2
  <1>5. ASSUME NEW s \in Int
        PROVE  Kept(z, s) \subseteq
                 Kept(w, s) \cup (IF p[1] \in Of(l.uid, "pms", s) THEN {Private(p[1].line)} ELSE {})
    <2>1. CASE ~Into("pms", l)
      <3>1. z["pms"] = w["pms"]
        BY <1>0, <1>2, <2>1
      <3>. QED
        BY <3>1 DEF Kept
    <2>2. CASE Into("pms", l)
      <3>1. PICK a, e, b, T : a = w["pms"] /\ e = EntryOf("pms", l) /\ b = z["pms"] /\ T = Entries("pms")
        OBVIOUS
      <3>2. /\ a \in Seq(T) /\ e \in T /\ Len(a) <= Bound("pms") /\ b = appendTimeBounded(a, e, Bound("pms"))
            /\ Bound("pms") \in Nat /\ Bound("pms") > 0
        BY <1>0, <1>2, <2>2, <3>1
      <3>3. \A i \in 1..Len(b) : b[i] = e \/ \E j \in 1..Len(a) : b[i] = a[j]
        BY <3>2, WindowStays
      <3>4. e.at = l.at /\ Private(e) = Private(l)
        BY <3>1 DEF EntryOf, Private
      <3>. SUFFICES ASSUME NEW x \in Kept(z, s)
                    PROVE  x \in Kept(w, s) \/ (p[1] \in Of(l.uid, "pms", s) /\ x = Private(p[1].line))
        OBVIOUS
      <3>5. PICK i \in 1..Len(b) : b[i].at >= s /\ x = Private(b[i])
        BY <3>1 DEF Kept
      <3>6. CASE b[i] = e
        BY <1>0, <2>2, <3>4, <3>5, <3>6 DEF Of
      <3>7. CASE \E j \in 1..Len(a) : b[i] = a[j]
        <4>1. PICK j \in 1..Len(a) : b[i] = a[j]
          BY <3>7
        <4>. QED
          BY <3>1, <3>5, <4>1 DEF Kept
      <3>. QED
        BY <3>3, <3>6, <3>7
    <2>. QED
      BY <2>1, <2>2
  <1>. QED
    BY <1>1, <1>4, <1>5 DEF Taken

\* A tally is a number.
LEMMA TallyType ==
  ASSUME NEW T, NEW s \in Seq(T), NEW S PROVE Tally(s, S) \in Nat
  <1>1. Len(s) \in Nat
    OBVIOUS
  <1>. QED
    BY <1>1, HitsType DEF Tally

\* A line of u that is rated is one thing more that u did.
LEMMA GainedOwn ==
  ASSUME NEW did \in Seq(SentLines), NEW l \in SentLines, NEW t \in Told, t.line = l, NEW u, l.uid = u,
         NEW more, more = (IF l.kind \in Rated THEN Append(did, l) ELSE did)
  PROVE  Gained(did, more, t, u)
  <1>0. "pms" \in Classes
    BY DEF Classes
  <1>1. ASSUME NEW X \in Classes, NEW s \in Int PROVE t \in Of(u, X, s) <=> l \in Doing(X, s)
    BY DEF Of, Doing
  <1>2. CASE l.kind \notin Rated
    <2>1. ASSUME NEW X \in Classes, NEW s \in Int PROVE t \notin Of(u, X, s)
      BY <1>1, <1>2, RuleFacts DEF Doing
    <2>2. ASSUME NEW X \in Classes, NEW s \in Int
          PROVE  Tally(did, Doing(X, s)) = Tally(did, Doing(X, s)) + One(t, Of(u, X, s))
      <3>1. One(t, Of(u, X, s)) = 0
        BY <2>1 DEF One
      <3>2. Tally(did, Doing(X, s)) \in Nat
        BY TallyType
      <3>. QED
        BY <3>1, <3>2
    <2>. QED
      BY <1>0, <1>2, <2>1, <2>2 DEF Gained
  <1>3. CASE l.kind \in Rated
    <2>1. PICK n : n = Len(did)
      OBVIOUS
    <2>2. n \in Nat /\ Len(more) = n + 1 /\ more[n + 1] = l /\ \A i \in 1..n : more[i] = did[i]
      BY <1>3, <2>1
    <2>3. ASSUME NEW X \in Classes, NEW s \in Int
          PROVE  Tally(more, Doing(X, s)) = Tally(did, Doing(X, s)) + One(t, Of(u, X, s))
      <3>1. Hits(more, Doing(X, s), n + 1) = Hits(more, Doing(X, s), n) + One(more[n + 1], Doing(X, s))
        BY <2>2, HitsOneMore
      <3>2. Hits(more, Doing(X, s), n) = Hits(did, Doing(X, s), n)
        <4>1. PICK S : S = Doing(X, s)
          OBVIOUS
        <4>2. n \in Nat
          BY <2>2
        <4>3. \A i \in 1..n : more[i] \in S <=> did[i] \in S
          BY <2>2
        <4>4. Hits(more, S, n) = Hits(did, S, n)
          BY ONLY <4>2, <4>3, HitsSame
        <4>. QED
          BY <4>1, <4>4
      <3>3. One(l, Doing(X, s)) = One(t, Of(u, X, s))
        BY <1>1 DEF One
      <3>. QED
        BY <2>1, <2>2, <3>1, <3>2, <3>3 DEF Tally
    <2>4. ASSUME NEW s \in Int
          PROVE  /\ Sent(did, s) \subseteq Sent(more, s)
                 /\ t \in Of(u, "pms", s) => Private(t.line) \in Sent(more, s)
      <3>1. Sent(did, s) \subseteq Sent(more, s)
        <4>. SUFFICES ASSUME NEW i \in 1..Len(did), did[i] \in Doing("pms", s)
                      PROVE  i \in 1..Len(more) /\ more[i] = did[i]
          BY DEF Sent
        <4>. QED
          BY <2>1, <2>2
      <3>2. ASSUME t \in Of(u, "pms", s) PROVE Private(l) \in Sent(more, s)
        <4>1. n + 1 \in 1..Len(more) /\ more[n + 1] \in Doing("pms", s)
          BY <1>0, <1>1, <2>2, <3>2
        <4>. QED
          BY <2>2, <4>1 DEF Sent
      <3>. QED
        BY <3>1, <3>2
    <2>. QED
      BY <2>3, <2>4 DEF Gained
  <1>. QED
    BY <1>2, <1>3

\* A line that is not u's.
LEMMA GainedNone ==
  ASSUME NEW did \in Seq(SentLines), NEW t, NEW u, \A X \in Classes : \A s \in Int : t \notin Of(u, X, s)
  PROVE  Gained(did, did, t, u)
  <1>0. "pms" \in Classes
    BY DEF Classes
  <1>1. ASSUME NEW X \in Classes, NEW s \in Int
        PROVE  Tally(did, Doing(X, s)) = Tally(did, Doing(X, s)) + One(t, Of(u, X, s))
    <2>1. One(t, Of(u, X, s)) = 0
      BY DEF One
    <2>2. Tally(did, Doing(X, s)) \in Nat
      BY TallyType
    <2>. QED
      BY <2>1, <2>2
  <1>. QED
    BY <1>0, <1>1 DEF Gained

\* Whose lines count.
LEMMA NotOf ==
  ASSUME NEW t, NEW u, t.line.kind \notin Rated \/ t.line.uid # u
  PROVE  \A X \in Classes : \A s \in Int : t \notin Of(u, X, s)
  BY RuleFacts DEF Of

-----------------------------------------------------------------------------
(* What the lines that wait say of a user, a line more or a line less.     *)

\* Line l, written at time tm, is one that can come when u goes from x to y.
Fits(l, u, x, y, tm) ==
  /\ Follows(l, u, x, y)
  /\ l.kind # "bad" => l.at = tm
  /\ l.kind = "usermsg" => l.target \in Nicks
  /\ Named(l, u) => x # "gone"
  /\ y = "gone" <=> x = "gone" \/ Quits(l, u)
  /\ \A v \in UIDs \ {u} : Named(l, v) => l.nick # x /\ l.nick \in Nicks

\* A line more, of now, leaves the lines in order.
LEMMA HeardInOrder ==
  ASSUME NEW p \in Seq(Told), NEW t \in Told, NEW tm, InOrder(p, tm),
         t.line.kind # "bad" => t.line.at = tm /\ tm \in Nat, t.line.kind = "usermsg" => t.line.target \in Nicks
  PROVE  InOrder(Append(p, t), tm)
  <1>1. PICK r, n : r = Append(p, t) /\ n = Len(p)
    OBVIOUS
  <1>2. /\ n \in Nat /\ r[n + 1] = t /\ \A i \in 1..n : r[i] = p[i]
        /\ \A i \in 1..Len(r) : i \in 1..n \/ i = n + 1
    BY <1>1, QueueParts
  <1>3. ASSUME NEW i \in 1..Len(r)
        PROVE  /\ r[i].line.kind # "bad" => r[i].line.at <= tm
               /\ r[i].line.kind = "usermsg" => r[i].line.target \in Nicks
    <2>1. CASE i \in 1..n
      BY <1>1, <1>2, <2>1 DEF InOrder
    <2>2. CASE i = n + 1
      BY <1>2, <2>2
    <2>. QED
      BY <1>2, <2>1, <2>2
  <1>4. ASSUME NEW i \in 1..Len(r), NEW j \in 1..Len(r), i < j,
               r[i].line.kind # "bad", r[j].line.kind # "bad"
        PROVE  r[i].line.at <= r[j].line.at
    <2>1. CASE j \in 1..n
      <3>1. i \in 1..n
        BY <1>2, <1>4, <2>1
      <3>. QED
        BY <1>1, <1>2, <1>4, <2>1, <3>1 DEF InOrder
    <2>2. CASE j = n + 1
      BY <1>2, <1>3, <1>4, <2>2
    <2>. QED
      BY <1>2, <2>1, <2>2
  <1>. QED
    BY <1>1, <1>3, <1>4 DEF InOrder

\* It comes behind no user's last line.
LEMMA HeardLastWords ==
  ASSUME NEW p \in Seq(Told), NEW t \in Told, NEW u, NEW x, NEW y, NEW tm, LastWords(p, u, x),
         Fits(t.line, u, x, y, tm)
  PROVE  LastWords(Append(p, t), u, y)
  <1>1. PICK r, n : r = Append(p, t) /\ n = Len(p)
    OBVIOUS
  <1>2. /\ n \in Nat /\ r[n + 1] = t /\ \A i \in 1..n : r[i] = p[i] /\ i \in 1..Len(r) /\ i < n + 1
        /\ \A i \in 1..Len(r) : i \in 1..n \/ i = n + 1
        /\ n + 1 \in 1..Len(r)
    BY <1>1, QueueParts
  <1>3. ASSUME NEW i \in 1..Len(r), Quits(r[i].line, u)
        PROVE  y = "gone" /\ \A j \in 1..Len(r) : j > i => ~Named(r[j].line, u)
    <2>1. CASE i \in 1..n
      <3>1. x = "gone" /\ \A j \in 1..n : j > i => ~Named(p[j].line, u)
        BY <1>1, <1>2, <1>3, <2>1 DEF LastWords
      <3>2. y = "gone" /\ ~Named(t.line, u)
        BY <3>1 DEF Fits
      <3>. QED
        BY <1>2, <3>1, <3>2
    <2>2. CASE i = n + 1
      <3>1. y = "gone"
        BY <1>2, <1>3, <2>2 DEF Fits
      <3>2. \A j \in 1..Len(r) : ~(j > i)
        BY <1>2, <2>2
      <3>. QED
        BY <3>1, <3>2
    <2>. QED
      BY <1>2, <2>1, <2>2
  <1>4. ASSUME y = "gone", NEW i \in 1..Len(r), Named(r[i].line, u)
        PROVE  \E j \in 1..Len(r) : j >= i /\ Quits(r[j].line, u)
    <2>1. CASE Quits(t.line, u)
      <3>1. n + 1 >= i
        BY <1>2
      <3>. QED
        BY <1>2, <2>1, <3>1
    <2>2. CASE ~Quits(t.line, u)
      <3>1. x = "gone" /\ ~Named(t.line, u)
        BY <1>4, <2>2 DEF Fits
      <3>2. i \in 1..n /\ Named(p[i].line, u)
        BY <1>2, <1>4, <3>1
      <3>3. PICK j \in 1..n : j >= i /\ Quits(p[j].line, u)
        BY <1>1, <3>1, <3>2 DEF LastWords
      <3>. QED
        BY <1>2, <3>3
    <2>. QED
      BY <2>1, <2>2
  <1>. QED
    BY <1>1, <1>3, <1>4 DEF LastWords

\* u's name of now, or none, is the one it last took: what gave it another
\* comes before.
LEMMA LastName ==
  ASSUME NEW p \in Seq(Told), NEW u, NEW x, QueueTells(p, u, x), LastWords(p, u, x),
         NEW j \in 1..Len(p), Naming(p[j].line, u),
         \A k \in 1..Len(p) : j < k => ~Leaves(p[k].line, u)
  PROVE  p[j].line.nick = x
  <1>1. Named(p[j].line, u) /\ ~Quits(p[j].line, u)
    BY DEF Naming, Named, Quits
  <1>2. x \notin {"new", "open"}
    BY <1>1 DEF QueueTells
  <1>3. x # "gone"
    <2>. SUFFICES ASSUME x = "gone" PROVE FALSE
      OBVIOUS
    <2>1. PICK k \in 1..Len(p) : k >= j /\ Quits(p[k].line, u)
      BY <1>1 DEF LastWords
    <2>2. k # j /\ Leaves(p[k].line, u)
      BY <1>1, <2>1 DEF Quits, Leaves
    <2>3. j < k
      BY <2>1, <2>2
    <2>. QED
      BY <2>2, <2>3
  <1>4. ASSUME NEW k \in 1..Len(p), k > j PROVE ~Naming(p[k].line, u)
    <2>1. ~Leaves(p[k].line, u)
      BY <1>4
    <2>2. ~First(p[k].line, u)
      <3>1. ~(k <= j)
        BY <1>4
      <3>. QED
        BY <1>1, <3>1 DEF QueueTells
    <2>. QED
      BY <2>1, <2>2 DEF Naming, Leaves, First
  <1>. QED
    BY <1>1, <1>2, <1>3, <1>4 DEF QueueTells, Called, Offline

\* It carries no nick of another's that was not given up before.
LEMMA HeardApart ==
  ASSUME NEW p \in Seq(Told), NEW t \in Told, NEW u, NEW x, NEW y, NEW tm, QueueTells(p, u, x),
         LastWords(p, u, x), Apart(p, u), Fits(t.line, u, x, y, tm)
  PROVE  Apart(Append(p, t), u)
  <1>1. PICK r, n : r = Append(p, t) /\ n = Len(p)
    OBVIOUS
  <1>2. /\ n \in Nat /\ r[n + 1] = t /\ \A i \in 1..n : r[i] = p[i] /\ i \in 1..Len(r) /\ i < n + 1
        /\ \A i \in 1..Len(r) : i \in 1..n \/ i = n + 1
    BY <1>1, QueueParts
  <1>. SUFFICES ASSUME NEW i \in 1..Len(r), NEW j \in 1..Len(r), j < i, Naming(r[j].line, u),
                       NEW v \in UIDs \ {u}, Named(r[i].line, v), r[i].line.nick = r[j].line.nick
                PROVE  \E k \in 1..Len(r) : j < k /\ k < i /\ Leaves(r[k].line, u)
    BY <1>1 DEF Apart, GivenUp
  <1>3. j \in 1..n /\ r[j] = p[j]
    BY <1>2
  <1>4. CASE i \in 1..n
    <2>1. r[i] = p[i]
      BY <1>2, <1>4
    <2>2. GivenUp(p, u, j, i)
      BY <1>1, <1>3, <1>4, <2>1 DEF Apart
    <2>. QED
      BY <1>1, <1>2, <2>2 DEF GivenUp
  <1>5. CASE i = n + 1
    <2>1. r[i] = t /\ p[j].line.nick # x
      BY <1>2, <1>3, <1>5 DEF Fits
    <2>2. PICK k \in 1..n : j < k /\ Leaves(p[k].line, u)
      BY <1>1, <1>3, <2>1, LastName
    <2>3. k < i
      BY <1>2, <1>5
    <2>. QED
      BY <1>2, <2>2, <2>3
  <1>. QED
    BY <1>2, <1>4, <1>5

\* A line more.
LEMMA PendHeard ==
  ASSUME NEW p \in Seq(Told), NEW t \in Told, NEW u, NEW x, NEW y, NEW tm \in Nat, PendOK(p, u, x, tm),
         Fits(t.line, u, x, y, tm)
  PROVE  PendOK(Append(p, t), u, y, tm)
  <1>1. /\ InOrder(p, tm) /\ QueueTells(p, u, x) /\ LastWords(p, u, x) /\ Apart(p, u)
    BY DEF PendOK
  <1>2. InOrder(Append(p, t), tm)
    BY <1>1, HeardInOrder DEF Fits
  <1>3. QueueTells(Append(p, t), u, y)
    BY <1>1, AppendTells DEF Fits
  <1>4. LastWords(Append(p, t), u, y) /\ Apart(Append(p, t), u)
    BY <1>1, HeardLastWords, HeardApart
  <1>5. Append(p, t) \in Seq(Told)
    OBVIOUS
  <1>. QED
    BY <1>2, <1>3, <1>4, <1>5 DEF PendOK

\* It is not about a user that has left.
LEMMA OverStays ==
  ASSUME NEW p \in Seq(Told), NEW t \in Told, NEW u, NEW x, NEW y, NEW tm, Over(p, u, x),
         Fits(t.line, u, x, y, tm)
  PROVE  Over(Append(p, t), u, y)
  <1>1. PICK r, n : r = Append(p, t) /\ n = Len(p)
    OBVIOUS
  <1>2. /\ r[n + 1] = t /\ \A i \in 1..n : r[i] = p[i]
        /\ \A i \in 1..Len(r) : i \in 1..n \/ i = n + 1
    BY <1>1, QueueParts
  <1>3. x = "gone" /\ \A i \in 1..n : ~Named(p[i].line, u)
    BY <1>1 DEF Over
  <1>4. y = "gone" /\ ~Named(t.line, u)
    BY <1>3 DEF Fits
  <1>5. \A i \in 1..Len(r) : ~Named(r[i].line, u)
    BY <1>2, <1>3, <1>4
  <1>. QED
    BY <1>1, <1>4, <1>5 DEF Over

\* The nick n on u's record, as of the lines before those of q.
LEMMA HeardNickApart ==
  ASSUME NEW p \in Seq(Told), NEW t \in Told, NEW u, NEW x, NEW y, NEW n, NEW tm, LastWords(p, u, x),
         ~Over(p, u, x), Fits(t.line, u, x, y, tm), NickApart(p, u, n),
         NEW q, RecordTells(q, u, x, n), \A i \in 1..Len(q) : \E k \in 1..Len(p) : p[k] = q[i]
  PROVE  NickApart(Append(p, t), u, n)
  <1>0. NoNick \notin Nicks
    BY ManagerAssumption
  <1>1. PICK r, m : r = Append(p, t) /\ m = Len(p)
    OBVIOUS
  <1>2. /\ m \in Nat /\ r[m + 1] = t /\ \A i \in 1..m : r[i] = p[i] /\ i \in 1..Len(r) /\ i < m + 1
        /\ \A i \in 1..Len(r) : i \in 1..m \/ i = m + 1
    BY <1>1, QueueParts
  <1>. SUFFICES ASSUME NEW i \in 1..Len(r), NEW v \in UIDs \ {u}, Named(r[i].line, v), r[i].line.nick = n
                PROVE  \E k \in 1..Len(r) : 0 < k /\ k < i /\ Leaves(r[k].line, u)
    BY <1>1 DEF NickApart, GivenUp
  <1>3. CASE i \in 1..m
    <2>1. GivenUp(p, u, 0, i)
      BY <1>1, <1>2, <1>3 DEF NickApart
    <2>. QED
      BY <1>1, <1>2, <2>1 DEF GivenUp
  <1>4. CASE i = m + 1
    <2>1. n # x /\ n \in Nicks
      BY <1>2, <1>4 DEF Fits
    <2>2. ~Nameless(q, u, x) /\ x \notin {"new", "open"}
      BY <1>0, <2>1 DEF RecordTells, Nameless
    <2>3. PICK k \in 1..m : Leaves(p[k].line, u)
      <3>1. CASE x = "gone"
        <4>1. PICK k \in 1..m : Named(p[k].line, u)
          BY <1>1, <3>1 DEF Over
        <4>2. PICK j \in 1..m : Quits(p[j].line, u)
          BY <1>1, <3>1, <4>1 DEF LastWords
        <4>. QED
          BY <4>2 DEF Quits, Leaves
      <3>2. CASE x # "gone"
        <4>1. Renamed(q, u)
          BY <2>1, <2>2, <3>2 DEF RecordTells, Offline, Called
        <4>2. PICK j \in 1..Len(q) : Naming(q[j].line, u) /\ ~(q[j].line.kind = "register" /\ q[j].line.uid = u)
          BY <2>2, <4>1 DEF Renamed, Nameless, Registering
        <4>3. PICK k \in 1..m : p[k] = q[j]
          BY <1>1
        <4>. QED
          BY <4>2, <4>3 DEF Naming, Leaves
      <3>. QED
        BY <3>1, <3>2
    <2>4. k \in 1..Len(r) /\ r[k] = p[k] /\ 0 < k /\ k < i
      BY <1>2, <1>4
    <2>. QED
      BY <2>3, <2>4
  <1>. QED
    BY <1>2, <1>3, <1>4

\* A line less leaves the rest as they should be.
LEMMA PendRead ==
  ASSUME NEW p \in Seq(Told), p # <<>>, NEW u, NEW x, NEW tm, PendOK(p, u, x, tm)
  PROVE  PendOK(Tail(p), u, x, tm)
  <1>1. PICK r : r = Tail(p)
    OBVIOUS
  <1>2. r \in Seq(Told) /\ \A i \in 1..Len(r) : i \in Int /\ i + 1 \in 1..Len(p) /\ r[i] = p[i + 1]
    BY <1>1, ToldParts
  <1>3. ASSUME NEW i \in 1..Len(r)
        PROVE  /\ i + 1 \in 1..Len(p) /\ r[i] = p[i + 1]
               /\ \A k \in 1..Len(p) : k >= i + 1 => k - 1 \in 1..Len(r) /\ k - 1 >= i /\ r[k - 1] = p[k]
               /\ \A k \in 1..Len(p) : i + 1 < k => i < k - 1
               /\ \A k \in 1..Len(r) : k > i => k + 1 > i + 1
               /\ \A k \in 1..Len(r) : i < k => i + 1 < k + 1
               /\ \A k \in 1..Len(r), m \in 1..Len(p) : m < k + 1 => m - 1 < k
    BY <1>1
  <1>4. InOrder(r, tm)
    <2>1. /\ \A i \in 1..Len(p) : /\ p[i].line.kind # "bad" => p[i].line.at <= tm
                                  /\ p[i].line.kind = "usermsg" => p[i].line.target \in Nicks
          /\ \A i, j \in 1..Len(p) : i < j /\ p[i].line.kind # "bad" /\ p[j].line.kind # "bad"
                                       => p[i].line.at <= p[j].line.at
      BY DEF InOrder, PendOK
    <2>2. \A i \in 1..Len(r) : /\ r[i].line.kind # "bad" => r[i].line.at <= tm
                               /\ r[i].line.kind = "usermsg" => r[i].line.target \in Nicks
      BY <1>3, <2>1
    <2>3. ASSUME NEW i \in 1..Len(r), NEW j \in 1..Len(r), i < j, r[i].line.kind # "bad",
                 r[j].line.kind # "bad"
          PROVE  r[i].line.at <= r[j].line.at
      <3>1. i + 1 \in 1..Len(p) /\ j + 1 \in 1..Len(p) /\ i + 1 < j + 1 /\ r[i] = p[i + 1] /\ r[j] = p[j + 1]
        BY <1>3, <2>3
      <3>. QED
        BY <2>1, <2>3, <3>1
    <2>. QED
      BY <2>2, <2>3 DEF InOrder
  <1>5. QueueTells(r, u, x)
    BY <1>1, TailTells DEF PendOK
  <1>6. LastWords(r, u, x)
    <2>1. ASSUME NEW i \in 1..Len(r), Quits(r[i].line, u)
          PROVE  x = "gone" /\ \A j \in 1..Len(r) : j > i => ~Named(r[j].line, u)
      BY <1>3, <2>1 DEF LastWords, PendOK
    <2>2. ASSUME x = "gone", NEW i \in 1..Len(r), Named(r[i].line, u)
          PROVE  \E j \in 1..Len(r) : j >= i /\ Quits(r[j].line, u)
      <3>1. PICK k \in 1..Len(p) : k >= i + 1 /\ Quits(p[k].line, u)
        BY <1>3, <2>2 DEF LastWords, PendOK
      <3>. QED
        BY <1>3, <3>1
    <2>. QED
      BY <2>1, <2>2 DEF LastWords
  <1>7. Apart(r, u)
    <2>. SUFFICES ASSUME NEW i \in 1..Len(r), NEW j \in 1..Len(r), j < i, Naming(r[j].line, u),
                         NEW v \in UIDs \ {u}, Named(r[i].line, v), r[i].line.nick = r[j].line.nick
                  PROVE  \E k \in 1..Len(r) : j < k /\ k < i /\ Leaves(r[k].line, u)
      BY DEF Apart, GivenUp
    <2>1. i + 1 \in 1..Len(p) /\ j + 1 \in 1..Len(p) /\ j + 1 < i + 1 /\ r[i] = p[i + 1] /\ r[j] = p[j + 1]
      BY <1>3
    <2>2. GivenUp(p, u, j + 1, i + 1)
      BY <2>1 DEF Apart, PendOK
    <2>3. PICK k \in 1..Len(p) : j + 1 < k /\ k < i + 1 /\ Leaves(p[k].line, u)
      BY <2>2 DEF GivenUp
    <2>4. k \in Int /\ j \in Int /\ i \in Int
      OBVIOUS
    <2>5. k >= j + 1 /\ j < k - 1 /\ k - 1 < i
      BY ONLY <2>3, <2>4
    <2>6. k - 1 \in 1..Len(r) /\ r[k - 1] = p[k]
      BY <1>3, <2>5
    <2>. QED
      BY <2>3, <2>5, <2>6
  <1>. QED
    BY <1>1, <1>2, <1>4, <1>5, <1>6, <1>7 DEF PendOK

\* Once its last line is read a user has left.
LEMMA OverRead ==
  ASSUME NEW p \in Seq(Told), p # <<>>, NEW u, NEW x
  PROVE  /\ Over(p, u, x) => Over(Tail(p), u, x)
         /\ LastWords(p, u, x) /\ Quits(p[1].line, u) => Over(Tail(p), u, x)
  <1>1. 1 \in 1..Len(p) /\ \A i \in 1..Len(Tail(p)) : i + 1 \in 1..Len(p) /\ Tail(p)[i] = p[i + 1] /\ i + 1 > 1
    BY ToldParts
  <1>. QED
    BY <1>1 DEF Over, LastWords

\* Until a user gives its nick up no line of another carries it; from the
\* line on which it takes a nick, that nick.
LEMMA NickApartRead ==
  ASSUME NEW p \in Seq(Told), p # <<>>, NEW u
  PROVE  /\ \A n : NickApart(p, u, n) /\ ~Leaves(p[1].line, u) => NickApart(Tail(p), u, n)
         /\ Apart(p, u) /\ Naming(p[1].line, u) => NickApart(Tail(p), u, p[1].line.nick)
  <1>1. PICK r : r = Tail(p)
    OBVIOUS
  <1>2. ASSUME NEW i \in 1..Len(r)
        PROVE  /\ i + 1 \in 1..Len(p) /\ r[i] = p[i + 1] /\ 1 < i + 1
               /\ \A k \in 1..Len(p) : 1 < k /\ k < i + 1 => k - 1 \in 1..Len(r) /\ 0 < k - 1 /\ k - 1 < i
                                                             /\ r[k - 1] = p[k]
    BY <1>1
  <1>3. ASSUME NEW i \in 1..Len(r), GivenUp(p, u, 1, i + 1) PROVE GivenUp(r, u, 0, i)
    <2>1. PICK k \in 1..Len(p) : 1 < k /\ k < i + 1 /\ Leaves(p[k].line, u)
      BY <1>3 DEF GivenUp
    <2>. QED
      BY <1>2, <2>1 DEF GivenUp
  <1>4. ASSUME NEW n, NickApart(p, u, n), ~Leaves(p[1].line, u) PROVE NickApart(r, u, n)
    <2>. SUFFICES ASSUME NEW i \in 1..Len(r), NEW v \in UIDs \ {u}, Named(r[i].line, v), r[i].line.nick = n
                  PROVE  GivenUp(r, u, 0, i)
      BY DEF NickApart
    <2>1. GivenUp(p, u, 0, i + 1)
      BY <1>2, <1>4 DEF NickApart
    <2>2. PICK k \in 1..Len(p) : 0 < k /\ k < i + 1 /\ Leaves(p[k].line, u)
      BY <2>1 DEF GivenUp
    <2>3. k # 1
      BY <1>4, <2>2
    <2>4. 1 < k
      BY <2>2, <2>3
    <2>5. GivenUp(p, u, 1, i + 1)
      BY <2>2, <2>4 DEF GivenUp
    <2>. QED
      BY <1>3, <2>5
  <1>5. ASSUME Apart(p, u), Naming(p[1].line, u) PROVE NickApart(r, u, p[1].line.nick)
    <2>. SUFFICES ASSUME NEW i \in 1..Len(r), NEW v \in UIDs \ {u}, Named(r[i].line, v),
                         r[i].line.nick = p[1].line.nick
                  PROVE  GivenUp(r, u, 0, i)
      BY DEF NickApart
    <2>1. 1 \in 1..Len(p)
      BY ToldParts
    <2>2. GivenUp(p, u, 1, i + 1)
      BY <1>2, <1>5, <2>1 DEF Apart
    <2>. QED
      BY <1>3, <2>2
  <1>. QED
    BY <1>1, <1>4, <1>5

\* No one's line carries the empty nick.
LEMMA NickApartNone ==
  ASSUME NEW p, \A v \in UIDs : QueueTells(p, v, net[v]), NEW u
  PROVE  NickApart(p, u, NoNick)
  <1>1. NoNick \notin Nicks
    BY ManagerAssumption
  <1>. QED
    BY <1>1 DEF NickApart, QueueTells, Straight

\* When the reader takes up u's change of nick, u's record has the new one.
LEMMA NickApartFirst ==
  ASSUME NEW p \in Seq(Told), p # <<>>, NEW u, p[1].line.kind = "nick", p[1].line.uid = u, NEW n
  PROVE  NickApart(p, u, n)
  <1>. SUFFICES ASSUME NEW i \in 1..Len(p), NEW v \in UIDs \ {u}, Named(p[i].line, v)
                PROVE  \E k \in 1..Len(p) : 0 < k /\ k < i /\ Leaves(p[k].line, u)
    BY DEF NickApart, GivenUp
  <1>1. 1 \in 1..Len(p)
    BY ToldParts
  <1>2. i # 1
    BY DEF Named
  <1>3. 0 < 1 /\ 1 < i
    BY <1>2
  <1>. QED
    BY <1>1, <1>3 DEF Leaves

\* Windows, and a line more, a line less, a tick more.
LEMMA WindowsKept ==
  ASSUME NEW p \in Seq(Told), NEW w, NEW tm \in Nat, WindowsOK(w, p, tm)
  PROVE  /\ p # <<>> => WindowsOK(w, Tail(p), tm)
         /\ \A t \in Told : (t.line.kind # "bad" => t.line.at = tm) => WindowsOK(w, Append(p, t), tm)
         /\ WindowsOK(w, p, tm + 1)
         /\ Listed(w)
  <1>1. ASSUME NEW X \in Classes, NEW i \in 1..Len(w[X])
        PROVE  AtOf(X, w[X][i]) \in Nat /\ AtOf(X, w[X][i]) <= tm /\ AtOf(X, w[X][i]) <= tm + 1
    <2>1. w[X] \in Seq(Entries(X)) /\ AtOf(X, w[X][i]) <= tm
      BY DEF WindowsOK
    <2>2. w[X][i] \in Entries(X)
      BY <2>1
    <2>3. AtOf(X, w[X][i]) \in Nat
      BY <2>2, EntryTypes
    <2>. QED
      BY <2>1, <2>3
  <1>2. ASSUME p # <<>> PROVE WindowsOK(w, Tail(p), tm)
    BY <1>2, ToldParts DEF WindowsOK
  <1>3. ASSUME NEW t \in Told, t.line.kind # "bad" => t.line.at = tm PROVE WindowsOK(w, Append(p, t), tm)
    <2>1. PICK r, n : r = Append(p, t) /\ n = Len(p)
      OBVIOUS
    <2>2. /\ r[n + 1] = t /\ \A i \in 1..n : r[i] = p[i]
          /\ \A i \in 1..Len(r) : i \in 1..n \/ i = n + 1
      BY <2>1, QueueParts
    <2>3. ASSUME NEW X \in Classes, NEW i \in 1..Len(w[X]), NEW j \in 1..Len(r), r[j].line.kind # "bad"
          PROVE  AtOf(X, w[X][i]) <= r[j].line.at
      <3>1. CASE j \in 1..n
        BY <2>1, <2>2, <2>3, <3>1 DEF WindowsOK
      <3>2. CASE j = n + 1
        BY <1>1, <1>3, <2>2, <2>3, <3>2
      <3>. QED
        BY <2>2, <3>1, <3>2
    <2>. QED
      BY <2>1, <2>3 DEF WindowsOK
  <1>4. WindowsOK(w, p, tm + 1)
    BY <1>1 DEF WindowsOK
  <1>5. Listed(w)
    <2>. SUFFICES ASSUME NEW X \in Classes PROVE Len(w[X]) \in Nat
      BY DEF Listed
    <2>1. w[X] \in Seq(Entries(X))
      BY DEF WindowsOK
    <2>. QED
      BY <2>1
  <1>. QED
    BY <1>2, <1>3, <1>4, <1>5

\* The lines that wait are as they should be when time passes.
LEMMA PendLater ==
  ASSUME NEW p, NEW u, NEW x, NEW tm \in Nat, PendOK(p, u, x, tm)
  PROVE  PendOK(p, u, x, tm + 1)
  <1>1. ASSUME NEW i \in 1..Len(p), p[i].line.kind # "bad" PROVE p[i].line.at <= tm + 1
    <2>1. p[i] \in Told /\ p[i].line.at <= tm
      BY <1>1 DEF PendOK, InOrder
    <2>2. p[i].line \in SentLines
      BY <1>1, <2>1 DEF Told
    <2>3. p[i].line.at \in Nat
      BY <2>2 DEF SentLines
    <2>. QED
      BY <2>1, <2>3
  <1>. QED
    BY <1>1 DEF PendOK, InOrder

\* The windows of a new record.
LEMMA EmptyWindows ==
  /\ \A uid, at : WindowsOf(NewUser(uid, at)) = NoWindows
  /\ Listed(NoWindows) /\ \A p, tm : WindowsOK(NoWindows, p, tm)
  <1>1. ASSUME NEW uid, NEW at, NEW X \in Classes PROVE Seen(X, NewUser(uid, at)) = <<>>
    BY DEF Classes, Seen, NewUser
  <1>2. ASSUME NEW X \in Classes, NEW p, NEW tm
        PROVE  /\ NoWindows[X] \in Seq(Entries(X)) /\ Len(NoWindows[X]) <= Bound(X)
               /\ Len(NoWindows[X]) = 0 /\ ~(\E i \in 1..Len(NoWindows[X]) : TRUE)
    BY RuleFacts DEF NoWindows
  <1>3. ASSUME NEW p, NEW tm PROVE WindowsOK(NoWindows, p, tm)
    <2>. SUFFICES ASSUME NEW X \in Classes
                  PROVE  /\ NoWindows[X] \in Seq(Entries(X)) /\ Len(NoWindows[X]) <= Bound(X)
                         /\ ~(\E i \in 1..Len(NoWindows[X]) : TRUE)
      BY DEF WindowsOK
    <2>. QED
      BY <1>2
  <1>4. Listed(NoWindows)
    BY <1>2 DEF Listed
  <1>. QED
    BY <1>1, <1>3, <1>4 DEF WindowsOf, NoWindows

-----------------------------------------------------------------------------
(* The steps of the network. *)

\* What is in the queue waits.
LEMMA QueueWaits ==
  ASSUME EInv
  PROVE  \A i \in 1..Len(Queue) : \E k \in 1..Len(Pend) : Pend[k] = Queue[i]
  <1>1. Queue \in Seq(Told)
    BY QueueType
  <1>2. CASE Uncounted
    <2>1. PICK e, q : e = readers[conn].ev /\ q = Queue
      OBVIOUS
    <2>2. Pend = <<e>> \o q /\ q \in Seq(Told)
      BY <1>1, <1>2, <2>1 DEF Pend
    <2>3. \A i \in 1..Len(q) : i + 1 \in 1..Len(<<e>> \o q) /\ (<<e>> \o q)[i + 1] = q[i]
      BY <2>2
    <2>. QED
      BY <2>1, <2>2, <2>3
  <1>3. CASE ~Uncounted
    BY <1>3 DEF Pend
  <1>. QED
    BY <1>2, <1>3

\* A line that is written waits behind the others.
LEMMA PendGrows ==
  ASSUME EInv, conn # 0, NEW t \in Told, lines' = [lines EXCEPT ![conn] = Append(lines[conn], t)],
         UNCHANGED <<conn, readers>>
  PROVE  Pend' = Append(Pend, t)
  <1>0. conn \in Conns /\ DOMAIN lines = Conns /\ Queue \in Seq(Told)
    BY QueueType DEF EInv, LinesTyped
  <1>1. Queue' = Append(Queue, t)
    BY <1>0 DEF Queue
  <1>2. Uncounted' = Uncounted
    BY DEF Uncounted
  <1>3. PICK e, q : e = readers[conn].ev /\ q = Queue
    OBVIOUS
  <1>4. <<e>> \o Append(q, t) = Append(<<e>> \o q, t)
    BY <1>0, <1>3
  <1>. QED
    BY <1>1, <1>2, <1>3, <1>4 DEF Pend

\* The windows of a user are those of its record, or empty.
LEMMA WindowsHeld ==
  ASSUME EInv, TInv, LinesKnown, RecordsKnown, NEW u \in UIDs
  PROVE  WindowsOK(WinOf(u), Pend, now) /\ Listed(WinOf(u))
  <1>1. now \in Nat /\ Pend \in Seq(Told)
    BY DEF EInv, LinesKnown
  <1>2. users[u] \in Records \cup {0}
    BY DEF TInv, OwnRecords
  <1>3. WindowsOK(WinOf(u), Pend, now)
    BY <1>2, EmptyWindows DEF WinOf, RecordsKnown
  <1>. QED
    BY <1>1, <1>3, WindowsKept

\* A line is written.
LEMMA LineHeard ==
  ASSUME EInv, TInv, NInv, orderly, WKnown, conn # 0, NEW t \in Told,
         lines' = [lines EXCEPT ![conn] = Append(lines[conn], t)],
         UNCHANGED <<now, conn, readers, recs, users, forgotten, unheard>>,
         \A w \in UIDs : Fits(t.line, w, net[w], net'[w], now), NetApart',
         DOMAIN lately' = UIDs, \A w \in UIDs : DidOK(lately'[w], now),
         \A w \in UIDs : Gained(lately[w], lately'[w], t, w),
         \A w \in UIDs : t.line.kind # "bad" /\ t.line.uid = w => t.due = Due(lately'[w], t.line),
         t.line.kind # "bad" => t.line.at = now
  PROVE  WKnown'
  <1>0. /\ LinesKnown /\ RecordsKnown /\ NicksKnown /\ AccountsKept /\ Owner(readers[conn]) /\ unheard = {}
        /\ now \in Nat /\ RecordsTold /\ conn \in Conns
    BY DEF WKnown, EInv, NInv
  <1>1. PICK p, r : p = Pend /\ r = Append(p, t)
    OBVIOUS
  <1>2. p \in Seq(Told) /\ r \in Seq(Told) /\ Pend' = r
    <2>1. p \in Seq(Told)
      BY <1>0, <1>1 DEF LinesKnown
    <2>2. UNCHANGED <<conn, readers>>
      OBVIOUS
    <2>3. Pend' = Append(Pend, t)
      BY <2>2, PendGrows
    <2>. QED
      BY <1>1, <2>1, <2>3
  <1>3. ASSUME NEW w \in UIDs PROVE PendOK(r, w, net'[w], now)
    BY <1>0, <1>1, <1>2, PendHeard DEF LinesKnown
  <1>4. LinesKnown'
    BY <1>2, <1>3 DEF LinesKnown
  <1>5. RecordsKnown'
    <2>. SUFFICES ASSUME NEW k \in Records PROVE WindowsOK(WindowsOf(recs[k]), r, now)
      BY <1>2 DEF RecordsKnown
    <2>1. WindowsOK(WindowsOf(recs[k]), p, now)
      BY <1>0, <1>1 DEF RecordsKnown
    <2>. QED
      BY <1>0, <1>1, <1>2, <2>1, WindowsKept
  <1>6. ASSUME NEW w \in UIDs, Over(p, w, net[w]) PROVE Over(r, w, net'[w])
    BY <1>1, <1>2, <1>6, OverStays
  <1>7. NicksKnown'
    <2>. SUFFICES ASSUME NEW w \in UIDs \ forgotten, users[w] # 0, ~Over(r, w, net'[w])
                  PROVE  NickApart(r, w, NickOf(w))
      BY <1>2 DEF NicksKnown, NickOf
    <2>1. ~Over(p, w, net[w])
      BY <1>6
    <2>2. NickApart(p, w, NickOf(w))
      BY <1>0, <1>1, <2>1 DEF NicksKnown
    <2>3. RecordTells(Queue, w, net[w], NickOf(w))
      BY <1>0 DEF RecordsTold
    <2>4. LastWords(p, w, net[w])
      BY <1>0, <1>1 DEF LinesKnown, PendOK
    <2>5. Fits(t.line, w, net[w], net'[w], now)
      OBVIOUS
    <2>6. \A i \in 1..Len(Queue) : \E k \in 1..Len(p) : p[k] = Queue[i]
      BY <1>1, QueueWaits
    <2>7. PICK q, n, x, y : q = Queue /\ n = NickOf(w) /\ x = net[w] /\ y = net'[w]
      OBVIOUS
    <2>8. NickApart(Append(p, t), w, n)
      <3>1. /\ LastWords(p, w, x) /\ ~Over(p, w, x) /\ Fits(t.line, w, x, y, now) /\ NickApart(p, w, n)
            /\ RecordTells(q, w, x, n)
        BY <2>1, <2>2, <2>3, <2>4, <2>5, <2>7
      <3>2. \A i \in 1..Len(q) : \E k \in 1..Len(p) : p[k] = q[i]
        BY <2>6, <2>7
      <3>. QED
        BY <1>2, <3>1, <3>2, HeardNickApart
    <2>. QED
      BY <1>1, <2>7, <2>8
  <1>8. AccountsKept'
    <2>. SUFFICES ASSUME NEW w \in UIDs \ forgotten, ~Over(r, w, net'[w])
                  PROVE  Account(WinOf(w), r, lately'[w], w, now)
      BY <1>2 DEF AccountsKept, WinOf
    <2>1. ~Over(p, w, net[w])
      BY <1>6
    <2>2. Account(WinOf(w), p, lately[w], w, now)
      BY <1>0, <1>1, <2>1 DEF AccountsKept
    <2>3. Listed(WinOf(w))
      BY <1>0, WindowsHeld
    <2>4. PICK W, did, more : W = WinOf(w) /\ did = lately[w] /\ more = lately'[w]
      OBVIOUS
    <2>5. /\ Listed(W) /\ Account(W, p, did, w, now) /\ Gained(did, more, t, w) /\ DidOK(more, now)
          /\ t.line.kind # "bad" /\ t.line.uid = w => t.due = Due(more, t.line) /\ t.line.at = now
      BY <2>2, <2>3, <2>4
    <2>6. Account(W, Append(p, t), more, w, now)
      BY <1>0, <1>2, <2>5, AccountHeard
    <2>. QED
      BY <1>1, <2>4, <2>6
  <1>9. Owner(readers[conn])'
    BY <1>0, <1>1, <1>2, <1>6 DEF Owner, WinOf
  <1>. QED
    BY <1>0, <1>4, <1>5, <1>7, <1>8, <1>9 DEF WKnown

\* A line that tells of something a user did fits what was told before.
LEMMA ActFits ==
  ASSUME EInv, NetApart, NEW u \in UIDs, NEW kind \in Kinds, NEW body \in Bodies,
         NEW target \in Nicks \cup {NoNick}, Act(u, kind, body, target),
         NEW l, l = ActLine(u, kind, body, target)
  PROVE  /\ \A w \in UIDs : Fits(l, w, net[w], net'[w], now)
         /\ l.uid = u \/ l.kind \notin Rated
  <1>0. "gone" \notin Nicks
    BY ManagerAssumption
  <1>1. /\ net[u] \in Nicks /\ UNCHANGED net
        /\ kind \notin {"bad", "connect", "register", "nick", "quit", "oper_kill"}
        /\ kind = "usermsg" <=> target # NoNick
    BY DEF Act
  <1>2. l.kind = kind
    BY ActMoves
  <1>3. l.at = now /\ l.target = target /\ (kind # "oper_kline" => l.uid = u /\ l.nick = net[u])
    BY DEF ActLine, Line
  <1>4. \A w \in UIDs : Follows(l, w, net[w], net'[w])
    BY ActFollows
  <1>5. ASSUME NEW w \in UIDs PROVE Fits(l, w, net[w], net'[w], now)
    <2>1. l.kind = "usermsg" => l.target \in Nicks
      BY <1>1, <1>2, <1>3
    <2>2. Named(l, w) => net[w] # "gone"
      BY <1>0, <1>1, <1>2, <1>3 DEF Named
    <2>3. ~Quits(l, w) /\ net'[w] = net[w]
      BY <1>1, <1>2 DEF Quits
    <2>4. ASSUME NEW v \in UIDs \ {w}, Named(l, v) PROVE l.nick # net[w] /\ l.nick \in Nicks
      <3>1. v = u /\ l.nick = net[u]
        BY <1>2, <1>3, <2>4 DEF Named
      <3>. QED
        BY <1>1, <2>4, <3>1 DEF NetApart
    <2>. QED
      BY <1>3, <1>4, <2>1, <2>2, <2>3, <2>4 DEF Fits
  <1>6. kind = "oper_kline" => kind \notin Rated
    BY DEF Rated, Messages
  <1>. QED
    BY <1>2, <1>3, <1>5, <1>6

\* So does a line that tells of a connect, a nick or a quit.
LEMMA ChangeStateFits ==
  ASSUME EInv, NetApart, NEW u \in UIDs, NEW kind \in Kinds, NEW nick \in Nicks \cup {NoNick},
         ChangeState(u, kind, nick), NEW l, l = Line(u, kind, nick, Plain, NoNick),
         ~Retargets(l)
  PROVE  /\ \A w \in UIDs : Fits(l, w, net[w], net'[w], now)
         /\ NetApart'
  <1>0. NoNick \notin Nicks /\ "new" \notin Nicks /\ "open" \notin Nicks /\ "gone" \notin Nicks
    BY ManagerAssumption
  <1>1. DOMAIN net = UIDs
    BY DEF EInv
  <1>2. kind \in {"connect", "register", "nick", "quit", "oper_kill"}
    BY DEF ChangeState
  <1>3. /\ kind = "connect" => net[u] = "new" /\ nick = NoNick
        /\ kind = "register" => net[u] \in {"new", "open"} /\ nick \in Nicks
        /\ kind = "nick" => net[u] \in Nicks /\ nick \in Nicks
        /\ kind \in {"quit", "oper_kill"} => net[u] \in Nicks /\ nick = net[u]
        /\ kind \in {"register", "nick"} => \A v \in UIDs : net[v] # nick
    BY <1>2 DEF ChangeState
  <1>4. PICK y : y = CASE kind = "connect" -> "open"
                       [] kind \in {"register", "nick"} -> nick
                       [] OTHER -> "gone"
    OBVIOUS
  <1>5. net' = [net EXCEPT ![u] = y]
    BY <1>4 DEF ChangeState
  <1>6. net'[u] = y /\ \A w \in UIDs \ {u} : net'[w] = net[w]
    BY <1>1, <1>5
  <1>7. /\ kind = "connect" => y = "open"
        /\ kind \in {"register", "nick"} => y = nick
        /\ kind \in {"quit", "oper_kill"} => y = "gone"
    BY <1>2, <1>4
  <1>8. l.kind = kind /\ l.uid = u /\ l.nick = nick /\ l.at = now
    BY DEF Line
  <1>9. \A w \in UIDs : Follows(l, w, net[w], net'[w])
    BY <1>8, ChangeStateFollows
  <1>10. ASSUME NEW w \in UIDs PROVE Fits(l, w, net[w], net'[w], now)
    <2>1. l.kind # "usermsg"
      BY <1>2, <1>8
    <2>2. Named(l, w) => net[w] # "gone"
      BY <1>0, <1>2, <1>3, <1>8 DEF Named
    <2>3. net'[w] = "gone" <=> net[w] = "gone" \/ Quits(l, w)
      BY <1>0, <1>2, <1>3, <1>6, <1>7, <1>8 DEF Quits
    <2>4. ASSUME NEW v \in UIDs \ {w}, Named(l, v) PROVE l.nick # net[w] /\ l.nick \in Nicks
      <3>1. v = u /\ kind # "connect" /\ w # u
        BY <1>8, <2>4 DEF Named
      <3>2. nick \in Nicks
        BY <1>2, <1>3, <3>1
      <3>3. nick # net[w]
        BY <1>2, <1>3, <3>1 DEF NetApart
      <3>. QED
        BY <1>8, <3>2, <3>3
    <2>. QED
      BY <1>8, <1>9, <2>1, <2>2, <2>3, <2>4 DEF Fits
  <1>11. NetApart'
    <2>. SUFFICES ASSUME NEW a \in UIDs, NEW b \in UIDs, a # b, net'[a] \in Nicks, net'[a] = net'[b]
                  PROVE  FALSE
      BY DEF NetApart
    <2>1. CASE a # u /\ b # u
      BY <1>6, <2>1 DEF NetApart
    <2>2. CASE a = u \/ b = u
      <3>1. PICK w \in UIDs \ {u} : net[w] = y /\ y \in Nicks
        BY <1>6, <2>2
      <3>. QED
        BY <1>0, <1>2, <1>3, <1>7, <3>1
    <2>. QED
      BY <2>1, <2>2
  <1>. QED
    BY <1>10, <1>11

\* Whatever sentinel tells of u.
LEMMA TellHeard ==
  ASSUME EInv, TInv, NInv, WInv, NEW u \in UIDs, NEW l \in SentLines, Tell(u, l), l.at = now,
         l.kind # "bad", l.uid = u \/ l.kind \notin Rated,
         orderly /\ ~Retargets(l) => (\A w \in UIDs : Fits(l, w, net[w], net'[w], now)) /\ NetApart'
  PROVE  WInv'
  <1>1. PICK did : did = IF l.kind \in Rated THEN Append(lately[u], l) ELSE lately[u]
    OBVIOUS
  <1>2. PICK t : t = [line |-> l, due |-> Due(did, l)]
    OBVIOUS
  <1>3. t \in Told /\ t.line = l /\ t.due = Due(did, l)
    BY <1>2, DueTyped DEF Told
  <1>4. /\ UNCHANGED <<now, conn, readers, recs, users, forgotten, misjudged>>
        /\ lately' = [lately EXCEPT ![u] = did]
        /\ IF conn # 0 THEN /\ lines' = [lines EXCEPT ![conn] = Append(lines[conn], t)]
                            /\ orderly' = (orderly /\ ~Retargets(l)) /\ UNCHANGED unheard
                       ELSE orderly' = FALSE
    BY <1>1, <1>2 DEF Tell, table
  <1>5. CASE orderly /\ conn # 0 /\ ~Retargets(l)
    <2>0. WKnown /\ DOMAIN lately = UIDs /\ now \in Nat
      BY <1>5 DEF WInv, WKnown, EInv
    <2>1. lately'[u] = did /\ DOMAIN lately' = UIDs /\ \A w \in UIDs \ {u} : lately'[w] = lately[w]
      BY <1>4, <2>0
    <2>2. \A w \in UIDs : lately[w] \in Seq(SentLines) /\ DidOK(lately[w], now)
      BY <2>0 DEF WKnown, DidOK
    <2>3. DidOK(did, now)
      <3>1. PICK d, n : d = lately[u] /\ n = Len(d)
        OBVIOUS
      <3>2. d \in Seq(SentLines) /\ n \in Nat /\ DidOK(d, now)
        BY <2>2, <3>1
      <3>3. CASE l.kind \in Rated
        <4>1. /\ did \in Seq(SentLines) /\ did[n + 1] = l /\ \A i \in 1..n : did[i] = d[i]
              /\ \A i \in 1..Len(did) : i \in 1..n \/ i = n + 1
          BY <1>1, <3>1, <3>2, <3>3
        <4>2. Minute \in Nat
          BY StateAssumption
        <4>3. \A i \in 1..Len(did) : did[i].at <= now /\ did[i].at >= now - Minute
          <5>1. \A i \in 1..n : d[i].at <= now /\ d[i].at >= now - Minute
            BY <3>1, <3>2 DEF DidOK
          <5>. QED
            BY <2>0, <4>1, <4>2, <5>1
        <4>4. ASSUME NEW i \in 1..Len(did), NEW j \in 1..Len(did), i <= j PROVE did[i].at <= did[j].at
          <5>1. CASE j \in 1..n
            <6>1. i \in 1..n
              BY <3>2, <4>1, <4>4, <5>1
            <6>. QED
              BY <3>1, <3>2, <4>1, <4>4, <5>1, <6>1 DEF DidOK
          <5>2. CASE j = n + 1
            BY <4>1, <4>3, <5>2
          <5>. QED
            BY <4>1, <5>1, <5>2
        <4>. QED
          BY <4>1, <4>3, <4>4 DEF DidOK
      <3>4. CASE l.kind \notin Rated
        BY <1>1, <3>1, <3>2, <3>4
      <3>. QED
        BY <3>3, <3>4
    <2>4. \A w \in UIDs : DidOK(lately'[w], now)
      BY <2>1, <2>2, <2>3
    <2>5. ASSUME NEW w \in UIDs PROVE Gained(lately[w], lately'[w], t, w)
      <3>1. CASE l.uid = w /\ w = u
        BY <1>1, <1>3, <2>1, <2>2, <3>1, GainedOwn
      <3>2. CASE l.kind \notin Rated
        <4>1. lately'[w] = lately[w]
          BY <1>1, <2>1, <3>2
        <4>. QED
          BY <1>3, <2>2, <3>2, <4>1, NotOf, GainedNone
      <3>3. CASE l.uid # w /\ w # u
        BY <1>3, <2>1, <2>2, <3>3, NotOf, GainedNone
      <3>. QED
        BY <3>1, <3>2, <3>3
    <2>6. ASSUME NEW w \in UIDs, t.line.uid = w PROVE t.due = Due(lately'[w], t.line)
      <3>1. CASE l.uid = u
        BY <1>3, <2>1, <2>6, <3>1
      <3>2. CASE l.kind \notin Rated
        BY <1>3, <3>2, QuietDue
      <3>. QED
        BY <3>1, <3>2
    <2>. QED
      BY <1>3, <1>4, <1>5, <2>0, <2>1, <2>4, <2>5, <2>6, LineHeard DEF WInv
  <1>6. CASE ~(orderly /\ conn # 0 /\ ~Retargets(l))
    <2>1. ~orderly'
      BY <1>4, <1>6
    <2>. QED
      BY <1>4, <2>1 DEF WInv
  <1>. QED
    BY <1>5, <1>6

\* A line that is no event concerns nobody.
LEMMA GarbleHeard == ASSUME EInv, TInv, NInv, WInv, Garble PROVE WInv'
  <1>1. PICK t : t = [line |-> [kind |-> "bad"], due |-> {}]
    OBVIOUS
  <1>2. t \in Told /\ t.line.kind = "bad"
    BY <1>1 DEF Told
  <1>3. /\ conn # 0 /\ lines' = [lines EXCEPT ![conn] = Append(lines[conn], t)]
        /\ UNCHANGED <<net, lately, now, conn, readers, recs, users, orderly, unheard, forgotten, misjudged>>
    BY <1>1 DEF Garble, table, ghosts
  <1>4. CASE orderly
    <2>1. WKnown /\ DOMAIN lately = UIDs
      BY <1>4 DEF WInv, WKnown
    <2>2. \A w \in UIDs : lately[w] \in Seq(SentLines) /\ DidOK(lately[w], now)
      BY <2>1 DEF WKnown, DidOK
    <2>3. ASSUME NEW w \in UIDs PROVE Fits(t.line, w, net[w], net'[w], now)
      BY <1>2, <1>3 DEF Fits, Follows, Naming, Named, First, Quits
    <2>4. t.line.kind \notin Rated
      BY <1>2 DEF Rated, Messages
    <2>5. \A w \in UIDs : Gained(lately[w], lately'[w], t, w)
      BY <1>3, <2>2, <2>4, NotOf, GainedNone
    <2>6. NetApart'
      BY <1>3, <2>1 DEF WKnown, LinesKnown, NetApart
    <2>7. DOMAIN lately' = UIDs /\ \A w \in UIDs : DidOK(lately'[w], now)
      BY <1>3, <2>1, <2>2
    <2>. QED
      BY <1>2, <1>3, <1>4, <2>1, <2>3, <2>5, <2>6, <2>7, LineHeard DEF WInv
  <1>5. CASE ~orderly
    BY <1>3, <1>5 DEF WInv
  <1>. QED
    BY <1>4, <1>5

\* What was done more than a minute ago counts no more, in no window.
LEMMA TickHeard == ASSUME EInv, TInv, WInv, Tick PROVE WInv'
  <1>1. /\ now' = now + 1 /\ now \in Nat
        /\ UNCHANGED <<net, lines, conn, readers, recs, users, orderly, unheard, forgotten, misjudged>>
    BY DEF Tick, EInv, table, ghosts
  <1>2. CASE orderly
    <2>1. /\ WKnown /\ DOMAIN lately = UIDs /\ unheard = {}
          /\ LinesKnown /\ RecordsKnown /\ NicksKnown /\ AccountsKept
      BY <1>2 DEF WInv, WKnown
    <2>2. Pend' = Pend /\ Pend \in Seq(Told)
      BY <1>1, <2>1 DEF Pend, Uncounted, Queue, LinesKnown
    <2>3. ASSUME NEW u \in UIDs
          PROVE  /\ DidOK(lately'[u], now + 1)
                 /\ \A w, p : Account(w, p, lately[u], u, now) => Account(w, p, lately'[u], u, now + 1)
      <3>1. lately'[u] = Younger(lately[u], now + 1)
        BY <1>1 DEF Tick, Younger, OldIn
      <3>2. DidOK(lately[u], now)
        BY <2>1 DEF WKnown
      <3>. QED
        BY <1>1, <3>1, <3>2, AccountAges
    <2>4. DOMAIN lately' = UIDs /\ \A u \in UIDs : DidOK(lately'[u], now')
      BY <1>1, <2>3 DEF Tick
    <2>5. LinesKnown'
      <3>1. \A u \in UIDs : PendOK(Pend, u, net[u], now + 1)
        BY <1>1, <2>1, PendLater DEF LinesKnown
      <3>. QED
        BY <1>1, <2>1, <2>2, <3>1 DEF LinesKnown, NetApart
    <2>6. RecordsKnown'
      <3>1. \A r \in Records : WindowsOK(WindowsOf(recs[r]), Pend, now + 1)
        BY <1>1, <2>1, <2>2, WindowsKept DEF RecordsKnown
      <3>. QED
        BY <1>1, <2>2, <3>1 DEF RecordsKnown
    <2>7. NicksKnown'
      BY <1>1, <2>1, <2>2 DEF NicksKnown, NickOf
    <2>8. AccountsKept'
      <3>1. \A u \in UIDs \ forgotten : ~Over(Pend, u, net[u]) =>
              Account(WinOf(u), Pend, lately'[u], u, now + 1)
        BY <2>1, <2>3 DEF AccountsKept
      <3>. QED
        BY <1>1, <2>2, <3>1 DEF AccountsKept, WinOf
    <2>9. conn # 0 => Owner(readers[conn])'
      <3>. SUFFICES ASSUME conn # 0 PROVE Owner(readers[conn])'
        OBVIOUS
      <3>1. Owner(readers[conn])
        BY <2>1 DEF WKnown
      <3>2. PICK v : v = readers[conn]
        OBVIOUS
      <3>3. readers'[conn'] = v
        BY <1>1, <3>2
      <3>4. v.ev \in Told /\ Named(v.ev.line, v.ev.line.uid) /\ v.ev.line.at <= now => v.ev.line.at <= now + 1
        <4>. SUFFICES ASSUME v.ev \in Told, Named(v.ev.line, v.ev.line.uid), v.ev.line.at <= now
                      PROVE  v.ev.line.at <= now + 1
          OBVIOUS
        <4>1. v.ev.line \in SentLines
          BY DEF Told, Named
        <4>2. v.ev.line.at \in Nat
          BY <4>1 DEF SentLines
        <4>. QED
          BY <1>1, <4>2
      <3>. QED
        BY <1>1, <2>2, <3>1, <3>2, <3>3, <3>4 DEF Owner, WinOf
    <2>. QED
      BY <1>1, <2>1, <2>4, <2>5, <2>6, <2>7, <2>8, <2>9 DEF WInv, WKnown
  <1>3. CASE ~orderly
    BY <1>1, <1>3 DEF WInv
  <1>. QED
    BY <1>2, <1>3

\* Every step of the network.
LEMMA NetworkWindows == ASSUME EInv, TInv, NInv, WInv, Network PROVE WInv'
  <1>0. orderly => NetApart
    BY DEF WInv, WKnown, LinesKnown
  <1>1. ASSUME NEW u \in UIDs, NEW kind \in Kinds, NEW nick \in Nicks \cup {NoNick},
               ChangeState(u, kind, nick)
        PROVE  WInv'
    <2>2. PICK l : /\ Tell(u, l) /\ l \in SentLines /\ l.kind = kind /\ l.uid = u /\ l.at = now
                   /\ ~Retargets(l) => l = Line(u, kind, nick, Plain, NoNick)
      BY <1>1, ChangeStateTells
    <2>3. l.at = now /\ l.kind # "bad"
      BY <1>1, <2>2 DEF ChangeState
    <2>4. orderly /\ ~Retargets(l) =>
            (\A w \in UIDs : Fits(l, w, net[w], net'[w], now)) /\ NetApart'
      BY <1>0, <1>1, <2>2, ChangeStateFits
    <2>. QED
      BY <2>2, <2>3, <2>4, TellHeard
  <1>2. ASSUME NEW u \in UIDs, NEW kind \in Kinds, NEW body \in Bodies,
               NEW target \in Nicks \cup {NoNick}, Act(u, kind, body, target)
        PROVE  WInv'
    <2>1. PICK l : l = ActLine(u, kind, body, target)
      OBVIOUS
    <2>2. Tell(u, l) /\ UNCHANGED net /\ l \in SentLines /\ l.kind = kind
      BY <1>2, <2>1, ActMoves
    <2>3. l.at = now
      BY <2>1 DEF ActLine, Line
    <2>4. l.kind # "bad"
      BY <1>2, <2>2 DEF Act
    <2>5. l.uid = u \/ l.kind \notin Rated
      <3>1. kind # "oper_kline" => l.uid = u
        BY <2>1 DEF ActLine, Line
      <3>2. kind = "oper_kline" => kind \notin Rated
        BY DEF Rated, Messages
      <3>. QED
        BY <2>2, <3>1, <3>2
    <2>6. orderly => (\A w \in UIDs : Fits(l, w, net[w], net'[w], now)) /\ NetApart'
      <3>1. NetApart => NetApart'
        BY <2>2 DEF NetApart
      <3>. QED
        BY <1>0, <1>2, <2>1, <3>1, ActFits
    <2>. QED
      BY <2>2, <2>3, <2>4, <2>5, <2>6, TellHeard
  <1>3. CASE Garble
    BY <1>3, GarbleHeard
  <1>4. CASE Tick
    BY <1>4, TickHeard
  <1>. QED
    BY <1>1, <1>2, <1>3, <1>4 DEF Network

-----------------------------------------------------------------------------
(* The steps of the daemon. *)

\* The lines that wait stay, and so do the windows of every user.
LEMMA AccountsStand ==
  ASSUME EInv, orderly, WKnown, Pend' = Pend, UNCHANGED <<net, lately, now>>, unheard' = {},
         forgotten \subseteq forgotten',
         \A r \in Records : WindowsOf(recs'[r]) \in {WindowsOf(recs[r]), NoWindows},
         \A u \in UIDs \ forgotten' : WinOf(u)' = WinOf(u),
         \A u \in UIDs \ forgotten' : users'[u] # 0 =>
           (users[u] # 0 /\ NickOf(u)' = NickOf(u)) \/ NickApart(Pend, u, NickOf(u)'),
         conn' # 0 => Owner(readers[conn])'
  PROVE  WKnown'
  <1>1. /\ LinesKnown /\ RecordsKnown /\ NicksKnown /\ AccountsKept /\ DOMAIN lately = UIDs
        /\ \A u \in UIDs : DidOK(lately[u], now)
    BY DEF WKnown
  <1>2. LinesKnown'
    BY <1>1 DEF LinesKnown, NetApart
  <1>3. RecordsKnown'
    BY <1>1, EmptyWindows DEF RecordsKnown
  <1>4. NicksKnown'
    BY <1>1 DEF NicksKnown
  <1>5. AccountsKept'
    BY <1>1 DEF AccountsKept
  <1>. QED
    BY <1>1, <1>2, <1>3, <1>4, <1>5 DEF WKnown

\* The first of the lines that wait is dealt with.
LEMMA AccountsTaken ==
  ASSUME EInv, TInv, TInv', orderly, WKnown, Pend # <<>>, Pend' = Tail(Pend),
         UNCHANGED <<net, lately, now, forgotten>>, unheard' = {},
         \A r \in Records : WindowsOK(WindowsOf(recs'[r]), Tail(Pend), now),
         \A u \in UIDs \ forgotten : ~Over(Pend, u, net[u]) => Taken(WinOf(u), WinOf(u)', Pend[1], u),
         \A u \in UIDs \ forgotten : users'[u] # 0 /\ ~Over(Tail(Pend), u, net[u]) =>
           NickApart(Tail(Pend), u, NickOf(u)'),
         conn' # 0 => Owner(readers[conn])'
  PROVE  WKnown'
  <1>1. /\ LinesKnown /\ RecordsKnown /\ NicksKnown /\ AccountsKept /\ DOMAIN lately = UIDs
        /\ \A u \in UIDs : DidOK(lately[u], now)
        /\ now \in Nat
    BY DEF WKnown, EInv
  <1>2. PICK p, r : p = Pend /\ r = Tail(p)
    OBVIOUS
  <1>3. p \in Seq(Told) /\ p # <<>> /\ r \in Seq(Told) /\ Pend' = r
    <2>1. p \in Seq(Told) /\ p # <<>>
      BY <1>1, <1>2 DEF LinesKnown
    <2>. QED
      BY <1>2, <2>1
  <1>4. LinesKnown'
    <2>1. \A u \in UIDs : PendOK(p, u, net[u], now)
      BY <1>1, <1>2 DEF LinesKnown
    <2>2. \A u \in UIDs : PendOK(r, u, net[u], now)
      BY <1>2, <1>3, <2>1, PendRead
    <2>. QED
      BY <1>1, <1>3, <2>2 DEF LinesKnown, NetApart
  <1>5. RecordsKnown'
    BY <1>2, <1>3 DEF RecordsKnown
  <1>6. NicksKnown'
    BY <1>2, <1>3 DEF NicksKnown
  <1>7. AccountsKept'
    <2>. SUFFICES ASSUME NEW u \in UIDs \ forgotten, ~Over(r, u, net[u])
                  PROVE  Account(WinOf(u)', r, lately[u], u, now)
      BY <1>3 DEF AccountsKept
    <2>1. ~Over(p, u, net[u])
      BY <1>2, <1>3, OverRead
    <2>2. Account(WinOf(u), p, lately[u], u, now) /\ Taken(WinOf(u), WinOf(u)', p[1], u)
      BY <1>1, <1>2, <2>1 DEF AccountsKept
    <2>3. Listed(WinOf(u))
      BY <1>1, WindowsHeld
    <2>4. Listed(WinOf(u)')
      <3>1. users'[u] \in Records \cup {0}
        BY DEF TInv, OwnRecords
      <3>2. WindowsOK(WinOf(u)', r, now)
        BY <1>2, <3>1, EmptyWindows DEF WinOf
      <3>. QED
        BY <1>1, <1>3, <3>2, WindowsKept
    <2>5. Len(lately[u]) \in Nat
      <3>1. lately[u] \in Seq(SentLines)
        BY <1>1 DEF DidOK
      <3>. QED
        BY <3>1
    <2>6. PICK w, z, did : w = WinOf(u) /\ z = WinOf(u)' /\ did = lately[u]
      OBVIOUS
    <2>7. /\ Listed(w) /\ Listed(z) /\ Taken(w, z, p[1], u) /\ Len(did) \in Nat
          /\ Account(w, p, did, u, now)
      BY <2>2, <2>3, <2>4, <2>5, <2>6
    <2>8. Account(z, Tail(p), did, u, now)
      BY ONLY <1>3, <2>7, AccountRead
    <2>. QED
      BY <1>2, <2>6, <2>8
  <1>. QED
    BY <1>1, <1>4, <1>5, <1>6, <1>7 DEF WKnown

\* The reader stays where it is, at a record that keeps the features it had.
LEMMA OwnerStands ==
  ASSUME EInv, TInv, WKnown, conn # 0, conn' = conn, readers'[conn] = readers[conn], Pend' = Pend,
         UNCHANGED <<net, now>>, forgotten \subseteq forgotten',
         \A u \in UIDs \ forgotten' : users'[u] = users[u] /\ WinOf(u)' = WinOf(u),
         LET r == readers[conn].rec
         IN r \in Records =>
              /\ recs'[r].FirstSeen = recs[r].FirstSeen
              /\ \A fv \in recs'[r].cachedFeatures : \/ fv \in recs[r].cachedFeatures
                                                     \/ fv.age + recs[r].FirstSeen = now
  PROVE  Owner(readers[conn])'
  <1>1. Owner(readers[conn])
    BY DEF WKnown
  <1>2. PICK v : v = readers[conn]
    OBVIOUS
  <1>3. readers'[conn'] = v /\ Owner(v)
    BY <1>1, <1>2
  <1>4. PICK l : l = v.ev.line
    OBVIOUS
  <1>5. ASSUME v.pc \in {"count", "judge"}
        PROVE  /\ v.ev \in Told /\ Named(l, l.uid) /\ l.uid \in UIDs /\ l.at <= now
               /\ l.uid \notin forgotten' => v.rec # 0 /\ v.rec = users'[l.uid]
    BY <1>3, <1>4, <1>5 DEF Owner
  <1>6. ASSUME v.pc = "count", NEW w \in UIDs \ (forgotten' \cup {l.uid}), users'[w] # 0, users'[w] = v.rec
        PROVE  Over(Pend, w, net[w])
    BY <1>3, <1>4, <1>6 DEF Owner
  <1>7. ASSUME v.pc = "judge", l.uid \notin forgotten'
        PROVE  /\ DueRight(WinOf(l.uid)', <<>>, l.uid, 0, v.ev)
               /\ FoundRight(WinOf(l.uid)', <<>>, l.uid, 0, v.ev)
               /\ l.kind \in Rated => \A fv \in recs'[v.rec].cachedFeatures :
                                        fv.age + recs'[v.rec].FirstSeen >= l.at
    <2>1. l.uid \in UIDs \ forgotten' /\ l.uid \notin forgotten /\ l.at <= now
      BY <1>5, <1>7
    <2>2. /\ DueRight(WinOf(l.uid), <<>>, l.uid, 0, v.ev)
          /\ FoundRight(WinOf(l.uid), <<>>, l.uid, 0, v.ev)
          /\ l.kind \in Rated => \A fv \in recs[v.rec].cachedFeatures : fv.age + recs[v.rec].FirstSeen >= l.at
      BY <1>3, <1>4, <1>7, <2>1 DEF Owner
    <2>3. WinOf(l.uid)' = WinOf(l.uid)
      BY <2>1
    <2>4. ASSUME l.kind \in Rated, NEW fv \in recs'[v.rec].cachedFeatures
          PROVE  fv.age + recs'[v.rec].FirstSeen >= l.at
      <3>0. v.rec \in Records
        BY <1>3, <1>4, <1>7, <2>1 DEF Owner, TInv, OwnRecords
      <3>1. /\ recs'[v.rec].FirstSeen = recs[v.rec].FirstSeen
            /\ fv \in recs[v.rec].cachedFeatures \/ fv.age + recs[v.rec].FirstSeen = now
        BY <1>2, <2>4, <3>0
      <3>2. now >= l.at
        <4>1. l \in SentLines
          BY <1>4, <1>5, <1>7 DEF Told, Named
        <4>2. l.at \in Nat /\ now \in Nat
          BY <4>1 DEF SentLines, EInv
        <4>. QED
          BY <2>1, <4>2
      <3>. QED
        BY <2>2, <2>4, <3>1, <3>2
    <2>. QED
      BY <2>2, <2>3, <2>4
  <1>. QED
    BY <1>3, <1>4, <1>5, <1>6, <1>7 DEF Owner, WinOf

\* Computing a record's features, or changing its nick, leaves its windows.
LEMMA FeaturesOnly ==
  ASSUME NEW q, RecordOK(q), NEW t \in Nat, NEW z, z = WithFeatures(q, t)
  PROVE  /\ WindowsOf(z) = WindowsOf(q) /\ z.FirstSeen = q.FirstSeen /\ z.Nick = q.Nick
         /\ \A fv \in z.cachedFeatures : fv \in q.cachedFeatures \/ fv.age + q.FirstSeen = t
  <1>1. DOMAIN q = RecordFields /\ q.FirstSeen \in Nat
    BY DEF RecordOK, CacheCurrent
  <1>2. PICK f : f = snapshotFeatures(q, t)
    OBVIOUS
  <1>3. z = [q EXCEPT !.cachedFeatures = {f}]
    BY <1>2 DEF WithFeatures
  <1>4. /\ z.cachedFeatures = {f} /\ z.FirstSeen = q.FirstSeen /\ z.Nick = q.Nick
        /\ z.recentMsgs = q.recentMsgs /\ z.recentJoins = q.recentJoins /\ z.recentNicks = q.recentNicks
        /\ z.recentHops = q.recentHops /\ z.recentUserMsg = q.recentUserMsg
        /\ z.recentMentions = q.recentMentions
    BY <1>1, <1>3 DEF RecordFields
  <1>5. WindowsOf(z) = WindowsOf(q)
    BY <1>4 DEF WindowsOf, Seen
  <1>6. f \in q.cachedFeatures \/ f.age + q.FirstSeen = t
    <2>1. CASE q.cachedFeatures # {}
      BY <1>2, <2>1 DEF snapshotFeatures
    <2>2. CASE q.cachedFeatures = {}
      <3>1. f.age = t - q.FirstSeen
        BY <1>2, <2>2 DEF snapshotFeatures, computeFeatures
      <3>. QED
        BY <1>1, <3>1
    <2>. QED
      BY <2>1, <2>2
  <1>. QED
    BY <1>4, <1>5, <1>6

Edited(q, n, t) == [q EXCEPT !.Nick = n, !.LastActivity = t]
Upserted(q, n, a, s, t) == [q EXCEPT !.Nick = n, !.Account = a, !.IsTLS = s, !.LastActivity = t]

\* A record whose nick, account or TLS changes keeps its windows and its cache.
LEMMA EditOnly ==
  ASSUME NEW q, DOMAIN q = RecordFields, NEW n, NEW a, NEW s, NEW t, NEW z,
         z = Edited(q, n, t) \/ z = Upserted(q, n, a, s, t)
  PROVE  WindowsOf(z) = WindowsOf(q) /\ z.FirstSeen = q.FirstSeen /\ z.cachedFeatures = q.cachedFeatures
  <1>1. /\ z.cachedFeatures = q.cachedFeatures /\ z.FirstSeen = q.FirstSeen
        /\ z.recentMsgs = q.recentMsgs /\ z.recentJoins = q.recentJoins /\ z.recentNicks = q.recentNicks
        /\ z.recentHops = q.recentHops /\ z.recentUserMsg = q.recentUserMsg
        /\ z.recentMentions = q.recentMentions
    BY DEF RecordFields, Edited, Upserted
  <1>2. WindowsOf(z) = WindowsOf(q)
    BY ONLY <1>1 DEF WindowsOf, Seen
  <1>. QED
    BY <1>1, <1>2

\* The reader with work is that of the current connection.
LEMMA AtWork ==
  ASSUME EInv, OnlyReader, NEW c \in Conns, lines[c] # <<>> \/ ~Resting(readers[c])
  PROVE  c = conn /\ conn # 0 /\ conn \in Conns
  <1>1. 0 \notin Conns
    BY ManagerAssumption DEF Conns
  <1>. QED
    BY <1>1 DEF OnlyReader

\* A user of whom no first line waits is not overtaken.
LEMMA NotOvertaken ==
  ASSUME EInv, OnlyReader, NEW u, \A i \in 1..Len(Queue) : ~First(Queue[i].line, u)
  PROVE  ~Overtaken(u) /\ ~Pending(lines, u)
  <1>1. ASSUME Overtaken(u) PROVE FALSE
    <2>1. PICK d \in Conns, i \in 1..MaxBacklog :
            i <= Len(lines[d]) /\ lines[d][i].line.kind = Opening /\ lines[d][i].line.uid = u
      BY <1>1 DEF Overtaken
    <2>2. lines[d] \in Seq(Told) /\ MaxBacklog \in Nat
      BY ManagerAssumption DEF EInv, LinesTyped
    <2>3. i \in 1..Len(lines[d])
      BY <2>1, <2>2
    <2>4. lines[d] # <<>>
      BY <2>2, <2>3
    <2>5. d = conn /\ conn # 0
      BY <2>4, AtWork
    <2>6. Queue = lines[d]
      BY <2>5 DEF Queue
    <2>7. First(lines[d][i].line, u)
      BY <2>1 DEF First, Opening
    <2>. QED
      BY <2>3, <2>6, <2>7
  <1>. QED
    BY <1>1, PendingIsOvertaken

\* The event that a reader is at before its record is found: it waits before
\* the queue, and its user has been announced.
LEMMA EventAhead ==
  ASSUME EInv, NInv, AInv, orderly, WKnown, conn # 0,
         readers[conn].pc \in {"locate", "create", "count"}, NEW e, e = readers[conn].ev
  PROVE  /\ Pend = <<e>> \o Queue /\ Pend # <<>> /\ Pend[1] = e /\ Tail(Pend) = Queue
         /\ e \in Told /\ Pend \in Seq(Told) /\ Queue \in Seq(Told)
         /\ e.line.uid \in UIDs /\ Dated(e.line) /\ net[e.line.uid] # "new"
  <1>0. conn \in Conns /\ Queue \in Seq(Told)
    BY QueueType DEF EInv
  <1>1. Pend = <<e>> \o Queue
    BY DEF Pend, Uncounted
  <1>2. Pend \in Seq(Told)
    BY DEF WKnown, LinesKnown
  <1>3. PICK p, q : p = Pend /\ q = Queue
    OBVIOUS
  <1>4. p = <<e>> \o q /\ q \in Seq(Told) /\ p \in Seq(Told)
    BY <1>0, <1>1, <1>2, <1>3
  <1>5. /\ p # <<>> /\ p[1] = e /\ Len(p) = 1 + Len(q)
        /\ \A i \in 1..Len(q) : p[i + 1] = q[i]
    BY <1>4
  <1>6. Tail(p) = q
    <2>1. Tail(p) \in Seq(Told) /\ Len(Tail(p)) = Len(q) /\ \A i \in 1..Len(q) : Tail(p)[i] = p[i + 1]
      BY <1>4, <1>5
    <2>. QED
      BY <1>4, <1>5, <2>1
  <1>7. e \in Told
    BY <1>4, <1>5
  <1>8. EventOK(readers[conn], net)
    BY <1>0 DEF EInv, EventsOK
  <1>9. Dated(e.line) /\ Known(e.line, net)
    BY <1>8 DEF EventOK
  <1>. QED
    BY <1>0, <1>1, <1>2, <1>3, <1>5, <1>6, <1>7, <1>9 DEF Known

\* The user of an event whose record is looked up has one, if not evicted.
LEMMA EventAnnounced ==
  ASSUME EInv, NInv, AInv, orderly, WKnown, conn # 0,
         readers[conn].pc \in {"locate", "create"}, NEW e, e = readers[conn].ev, NEW u, u = e.line.uid
  PROVE  /\ Named(e.line, u) /\ e.line.nick \in Nicks /\ ~Overtaken(u)
         /\ u \notin forgotten => users[u] # 0
  <1>1. EventTells(Queue, e.line, net[u])
    BY DEF NInv, EventTold, ReaderTells
  <1>2. Named(e.line, u) /\ e.line.nick \in Nicks
    BY <1>1 DEF EventTells
  <1>3. PICK p, q : p = Pend /\ q = Queue
    OBVIOUS
  <1>4. /\ p = <<e>> \o q /\ q \in Seq(Told) /\ u \in UIDs /\ net[u] # "new"
    BY <1>3, EventAhead
  <1>5. QueueTells(p, u, net[u])
    BY <1>3, <1>4 DEF WKnown, LinesKnown, PendOK
  <1>6. ASSUME NEW i \in 1..Len(q), First(q[i].line, u) PROVE FALSE
    <2>1. p[1] = e /\ p[i + 1] = q[i] /\ 1 \in 1..Len(p) /\ i + 1 \in 1..Len(p)
      BY <1>4, <1>6
    <2>2. \A j, k \in 1..Len(p) : First(p[j].line, u) /\ Named(p[k].line, u) => j <= k
      BY <1>5 DEF QueueTells
    <2>3. i + 1 <= 1
      BY <1>2, <1>6, <2>1, <2>2
    <2>. QED
      BY <2>3
  <1>7. ~Overtaken(u) /\ ~Pending(lines, u)
    BY <1>3, <1>6, NotOvertaken DEF NInv
  <1>8. unheard = {}
    BY DEF WKnown
  <1>. QED
    BY <1>2, <1>4, <1>7, <1>8 DEF AInv, Announced

\* A step that leaves the lines, the readers and the table alone.
LEMMA WindowsUntouched ==
  ASSUME EInv, TInv, orderly, WKnown,
         UNCHANGED <<net, lately, now, lines, conn, readers, recs, users, forgotten, unheard>>
  PROVE  WKnown'
  <1>1. Pend' = Pend
    BY DEF Pend, Uncounted, Queue
  <1>2. \A u \in UIDs : WinOf(u)' = WinOf(u) /\ NickOf(u)' = NickOf(u)
    BY DEF WinOf, NickOf
  <1>3. conn' # 0 => Owner(readers[conn])'
    BY <1>1, <1>2, OwnerStands
  <1>. QED
    BY <1>1, <1>2, <1>3, AccountsStand DEF WKnown

\* The connection is replaced: nothing waited.
LEMMA AcceptWindows ==
  ASSUME EInv, NInv, orderly, WKnown, NEW c \in Conns, NEW kept \in 0..MaxBacklog, Accept(c, kept), orderly'
  PROVE  WKnown'
  <1>1. /\ \A d \in Conns : lines[d] = <<>> /\ lines'[d] = <<>>
        /\ conn # 0 => readers[conn].pc = "idle"
    BY AcceptQuiet DEF NInv
  <1>2. /\ readers' = [readers EXCEPT ![c] = Idle] /\ conn' = c
        /\ UNCHANGED <<net, lately, now, recs, users, forgotten>>
    BY DEF Accept, network, table
  <1>3. conn \in Conns \cup {0} /\ DOMAIN lines = Conns /\ ReaderTypes /\ 0 \notin Conns
    BY ManagerAssumption DEF EInv, LinesTyped, Conns
  <1>4. readers'[c] = Idle
    BY <1>2, <1>3, IdleReader, ReaderGoesOn
  <1>5. Pend = <<>>
    BY <1>1, <1>3 DEF Pend, Uncounted, Queue
  <1>6. Pend' = <<>>
    BY <1>1, <1>2, <1>3, <1>4, IdleReader DEF Pend, Uncounted, Queue
  <1>7. unheard' = {}
    <2>1. CASE conn = 0
      BY <2>1 DEF Accept, WKnown
    <2>2. CASE conn # 0
      <3>1. PICK old : old = lines[conn]
        OBVIOUS
      <3>2. old = <<>> /\ kept \in 0..Len(old)
            /\ unheard' = unheard \cup {old[i].line.uid : i \in
                             {j \in (kept + 1)..Len(old) : old[j].line.kind = Opening}}
        BY <1>1, <1>3, <2>2, <3>1 DEF Accept
      <3>3. (kept + 1)..Len(old) = {}
        BY <3>2
      <3>. QED
        BY <3>2, <3>3 DEF WKnown
    <2>. QED
      BY <2>1, <2>2
  <1>8. \A u \in UIDs : WinOf(u)' = WinOf(u) /\ NickOf(u)' = NickOf(u)
    BY <1>2 DEF WinOf, NickOf
  <1>9. conn' # 0 => Owner(readers[conn])'
    BY <1>2, <1>4, IdleReader DEF Owner
  <1>. QED
    BY <1>2, <1>5, <1>6, <1>7, <1>8, <1>9, AccountsStand

\* A connection without lines ends.
LEMMA EndWindows ==
  ASSUME EInv, TInv, NInv, orderly, WKnown, NEW c \in Conns, ReadLoopEnds(c)
  PROVE  WKnown'
  <1>1. /\ readers[c].pc = "idle" /\ lines[c] = <<>>
        /\ conn' = IF conn = c THEN 0 ELSE conn
        /\ UNCHANGED <<net, lately, now, lines, recs, users, forgotten, unheard>>
    BY DEF ReadLoopEnds, network, table, ghosts
  <1>2. ReaderTypes /\ conn \in Conns \cup {0} /\ 0 \notin Conns
    BY ManagerAssumption DEF EInv, Conns
  <1>3. PICK v : readers' = [readers EXCEPT ![c] = v] /\ DOMAIN v = ReaderFields
    BY <1>2, ReaderMoves
  <1>4. \A d \in Conns \ {c} : readers'[d] = readers[d]
    BY <1>2, <1>3, ReaderGoesOn
  <1>5. Pend' = Pend
    <2>1. CASE conn = c
      <3>1. Pend = <<>> /\ conn' = 0
        BY <1>1, <2>1 DEF Pend, Uncounted, Queue
      <3>. QED
        BY <3>1 DEF Pend, Uncounted, Queue
    <2>2. CASE conn # c
      <3>1. conn' = conn /\ conn # 0 => readers'[conn] = readers[conn]
        BY <1>1, <1>2, <1>4, <2>2
      <3>2. conn' = conn
        BY <1>1, <2>2
      <3>. QED
        BY <1>1, <3>1, <3>2 DEF Pend, Uncounted, Queue
    <2>. QED
      BY <2>1, <2>2
  <1>6. \A u \in UIDs : WinOf(u)' = WinOf(u) /\ NickOf(u)' = NickOf(u)
    BY <1>1 DEF WinOf, NickOf
  <1>7. conn' # 0 => Owner(readers[conn])'
    <2>. SUFFICES ASSUME conn' # 0 PROVE Owner(readers[conn])'
      OBVIOUS
    <2>1. conn # 0 /\ conn' = conn /\ readers'[conn] = readers[conn]
      BY <1>1, <1>2, <1>4
    <2>. QED
      BY <1>1, <1>5, <1>6, <2>1, OwnerStands
  <1>. QED
    BY <1>1, <1>5, <1>6, <1>7, AccountsStand DEF WKnown

\* The features of a record are computed.
LEMMA FeaturesWindows ==
  ASSUME EInv, TInv, orderly, WKnown, NEW r, NEW t \in Nat,
         recs' = [recs EXCEPT ![r] = WithFeatures(recs[r], t)],
         UNCHANGED <<net, lately, now, lines, conn, users, forgotten, unheard>>,
         \/ UNCHANGED readers /\ t = now
         \/ /\ conn # 0 /\ readers' = [readers EXCEPT ![conn] = Idle]
            /\ readers[conn].pc \in {"judge", "train"}
  PROVE  WKnown'
  <1>0. /\ ReaderTypes /\ conn \in Conns \cup {0}
        /\ DOMAIN recs = Records /\ \A s \in Records : RecordOK(recs[s])
        /\ \A u \in UIDs : users[u] \in Records \cup {0}
    BY DEF EInv, TInv, RecordsOK, OwnRecords
  <1>1. ASSUME NEW s \in Records
        PROVE  /\ WindowsOf(recs'[s]) = WindowsOf(recs[s]) /\ recs'[s].Nick = recs[s].Nick
               /\ recs'[s].FirstSeen = recs[s].FirstSeen
               /\ \A fv \in recs'[s].cachedFeatures : \/ fv \in recs[s].cachedFeatures
                                                      \/ fv.age + recs[s].FirstSeen = t
    <2>1. CASE s = r
      <3>1. recs'[s] = WithFeatures(recs[s], t) /\ RecordOK(recs[s])
        BY <1>0, <1>1, <2>1
      <3>. QED
        BY <3>1, FeaturesOnly
    <2>2. CASE s # r
      <3>1. recs'[s] = recs[s]
        BY <1>0, <1>1, <2>2
      <3>. QED
        BY <3>1
    <2>. QED
      BY <2>1, <2>2
  <1>2. \A u \in UIDs : users'[u] = users[u] /\ WinOf(u)' = WinOf(u)
                        /\ (users[u] # 0 => NickOf(u)' = NickOf(u))
    BY <1>0, <1>1 DEF WinOf, NickOf
  <1>3. Pend' = Pend
    <2>1. CASE UNCHANGED readers
      BY <2>1 DEF Pend, Uncounted, Queue
    <2>2. CASE ~UNCHANGED readers
      <3>1. conn # 0 /\ readers'[conn] = Idle /\ readers[conn].pc \in {"judge", "train"}
        BY <1>0, <2>2, IdleReader, ReaderGoesOn
      <3>2. ~Uncounted /\ ~Uncounted'
        BY <3>1, IdleReader DEF Uncounted
      <3>. QED
        BY <3>2 DEF Pend, Queue
    <2>. QED
      BY <2>1, <2>2
  <1>4. conn' # 0 => Owner(readers[conn])'
    <2>. SUFFICES ASSUME conn # 0 PROVE Owner(readers[conn])'
      OBVIOUS
    <2>1. CASE UNCHANGED readers /\ t = now
      <3>1. readers'[conn] = readers[conn] /\ conn' = conn
        BY <2>1
      <3>2. LET s == readers[conn].rec
            IN s \in Records =>
                 /\ recs'[s].FirstSeen = recs[s].FirstSeen
                 /\ \A fv \in recs'[s].cachedFeatures : \/ fv \in recs[s].cachedFeatures
                                                        \/ fv.age + recs[s].FirstSeen = now
        BY <1>1, <2>1
      <3>. QED
        BY <1>2, <1>3, <3>1, <3>2, OwnerStands
    <2>2. CASE readers' = [readers EXCEPT ![conn] = Idle]
      <3>1. readers'[conn'] = Idle
        BY <1>0, <2>2, IdleReader, ReaderGoesOn
      <3>. QED
        BY <3>1, IdleReader DEF Owner
    <2>. QED
      BY <2>1, <2>2
  <1>. QED
    BY <1>1, <1>2, <1>3, <1>4, AccountsStand DEF WKnown

\* The edits of the table leave what every user's windows hold.
LEMMA UpsertWindows ==
  ASSUME ReaderTypes, TInv, NEW ev, Dated(ev), ev.uid \in UIDs, upsertUser(ev)
  PROVE  /\ \A s \in Records : WindowsOf(recs'[s]) \in {WindowsOf(recs[s]), NoWindows}
         /\ \A u \in UIDs : WinOf(u)' = WinOf(u)
  <1>1. PICK r : r = IF users[ev.uid] # 0 THEN users[ev.uid] ELSE Fresh
    OBVIOUS
  <1>2. PICK q : q = IF users[ev.uid] # 0 THEN recs[r] ELSE NewUser(ev.uid, ev.at)
    OBVIOUS
  <1>3. PICK n, t : n = (IF ev.nick # NoNick THEN ev.nick ELSE q.Nick) /\ t = ev.at
    OBVIOUS
  <1>3a. PICK a, w : a = (q.Account \/ ev.account) /\ w = ev.tls
    OBVIOUS
  <1>3z. PICK z : z = Upserted(q, n, a, w, t)
    OBVIOUS
  <1>4. /\ users' = [users EXCEPT ![ev.uid] = r] /\ recs' = [recs EXCEPT ![r] = z]
    BY <1>1, <1>2, <1>3, <1>3a, <1>3z DEF upsertUser, Upserted
  <1>5. /\ DOMAIN recs = Records /\ DOMAIN users = UIDs
        /\ \A s \in Records : DOMAIN recs[s] = RecordFields
        /\ \A u \in UIDs : users[u] \in Records \cup {0}
    BY DEF TInv, RecordsOK, RecordOK, OwnRecords
  <1>6. r \in Records /\ r # 0
    BY <1>1, <1>5, FreshRecord DEF TInv
  <1>7. DOMAIN q = RecordFields /\ WindowsOf(q) = WinOf(ev.uid)
    <2>1. CASE users[ev.uid] # 0
      BY <1>1, <1>2, <1>5, <1>6, <2>1 DEF WinOf
    <2>2. CASE users[ev.uid] = 0
      <3>1. RecordOK(q)
        BY <1>2, <2>2, NewRecord DEF Dated
      <3>2. WindowsOf(q) = NoWindows
        BY <1>2, <2>2, EmptyWindows
      <3>. QED
        BY <2>2, <3>1, <3>2 DEF RecordOK, WinOf
    <2>. QED
      BY <2>1, <2>2
  <1>8. WindowsOf(z) = WindowsOf(q)
    BY ONLY <1>3z, <1>7, EditOnly
  <1>9. recs'[r] = z /\ \A s \in Records \ {r} : recs'[s] = recs[s]
    BY <1>4, <1>5, <1>6
  <1>10. WindowsOf(q) \in {WindowsOf(recs[r]), NoWindows}
    BY <1>1, <1>7 DEF WinOf
  <1>11. ASSUME NEW u \in UIDs PROVE WinOf(u)' = WinOf(u)
    <2>1. CASE u = ev.uid
      <3>1. users'[u] = r
        BY <1>4, <1>5, <2>1
      <3>. QED
        BY <1>6, <1>7, <1>8, <1>9, <2>1, <3>1 DEF WinOf
    <2>2. CASE u # ev.uid
      <3>1. users'[u] = users[u] /\ users[u] # 0 => recs'[users[u]] = recs[users[u]]
        BY <2>2, UpsertTable
      <3>2. users'[u] = users[u]
        BY <2>2, UpsertTable
      <3>. QED
        BY <3>1, <3>2 DEF WinOf
    <2>. QED
      BY <2>1, <2>2
  <1>. QED
    BY <1>8, <1>9, <1>10, <1>11

\* A nick line changes no window, and nobody else's nick.
LEMMA NickWindows ==
  ASSUME TInv, NEW ev, ev.uid \in UIDs, handleNick(ev)
  PROVE  /\ \A s \in Records : WindowsOf(recs'[s]) = WindowsOf(recs[s])
         /\ \A u \in UIDs : WinOf(u)' = WinOf(u)
         /\ \A u \in UIDs \ {ev.uid} : users[u] # 0 => NickOf(u)' = NickOf(u)
         /\ users' = users
  <1>1. CASE users[ev.uid] = 0
    <2>1. UNCHANGED <<recs, users>>
      BY <1>1 DEF handleNick, table
    <2>. QED
      BY <2>1 DEF WinOf, NickOf
  <1>2. CASE users[ev.uid] # 0
    <2>1. PICK r : r = users[ev.uid]
      OBVIOUS
    <2>2. recs' = [recs EXCEPT ![r].Nick = NewNick(ev), ![r].LastActivity = ev.at] /\ users' = users
      BY <1>2, <2>1 DEF handleNick
    <2>3. /\ DOMAIN recs = Records /\ \A s \in Records : DOMAIN recs[s] = RecordFields
          /\ r \in Records
      BY <1>2, <2>1 DEF TInv, RecordsOK, RecordOK, OwnRecords
    <2>4. recs'[r] = [recs[r] EXCEPT !.Nick = NewNick(ev), !.LastActivity = ev.at]
          /\ \A s \in Records \ {r} : recs'[s] = recs[s]
      BY <2>2, <2>3
    <2>5. WindowsOf(recs'[r]) = WindowsOf(recs[r])
      <3>1. PICK q, z, n, t : q = recs[r] /\ z = recs'[r] /\ n = NewNick(ev) /\ t = ev.at
        OBVIOUS
      <3>2. DOMAIN q = RecordFields /\ z = Edited(q, n, t)
        BY <2>3, <2>4, <3>1 DEF Edited
      <3>3. WindowsOf(z) = WindowsOf(q)
        BY ONLY <3>2, EditOnly
      <3>. QED
        BY <3>1, <3>3
    <2>6. \A s \in Records : WindowsOf(recs'[s]) = WindowsOf(recs[s])
      BY <2>4, <2>5
    <2>7. \A u \in UIDs : users[u] \in Records \cup {0}
      BY DEF TInv, OwnRecords
    <2>8. \A u \in UIDs : WinOf(u)' = WinOf(u)
      BY <2>2, <2>6, <2>7 DEF WinOf
    <2>9. ASSUME NEW u \in UIDs \ {ev.uid}, users[u] # 0 PROVE NickOf(u)' = NickOf(u)
      <3>1. users[u] # r
        BY <1>2, <2>1, <2>9 DEF TInv, OwnRecords
      <3>. QED
        BY <2>2, <2>4, <2>7, <2>9, <3>1 DEF NickOf
    <2>. QED
      BY <2>2, <2>6, <2>8, <2>9
  <1>. QED
    BY <1>1, <1>2

\* Counting a rated event empties the cache.
LEMMA CountedClears ==
  ASSUME NEW q, DOMAIN q = RecordFields, NEW ev, ev.kind \in Rated
  PROVE  Counted(q, ev).cachedFeatures = {}
  <1>1. DOMAIN touch(q, ev.at) = RecordFields /\ touch(q, ev.at).cachedFeatures = {}
    BY DEF touch, RecordFields
  <1>2. /\ onMessage(q, ev).cachedFeatures = {} /\ onJoin(q, ev).cachedFeatures = {}
        /\ onPart(q, ev).cachedFeatures = {} /\ onNick(q, ev).cachedFeatures = {}
    BY <1>1 DEF onMessage, onJoin, onPart, onNick, RecordFields
  <1>. QED
    BY <1>2 DEF Counted, Rated, Messages

\* A reader whose user is not known makes a record, for one that was forgotten.
LEMMA CreateWindows ==
  ASSUME EInv, TInv, AInv, NInv, orderly, WKnown, NEW c \in Conns, Create(c)
  PROVE  WKnown'
  <1>0. /\ readers[c].pc = "create" /\ ReaderTypes /\ OnlyReader
        /\ UNCHANGED <<net, lately, now, lines, conn, forgotten, unheard>>
    BY DEF Create, network, ghosts, NInv, EInv
  <1>1. c = conn /\ conn # 0 /\ conn \in Conns
    BY <1>0, AtWork DEF Resting
  <1>2. PICK e, l, u : e = readers[c].ev /\ l = e.line /\ u = l.uid
    OBVIOUS
  <1>3. /\ e \in Told /\ u \in UIDs /\ Dated(l) /\ net[u] # "new"
        /\ Pend = <<e>> \o Queue /\ Pend[1] = e /\ Pend # <<>> /\ Pend \in Seq(Told)
    BY <1>0, <1>1, <1>2, EventAhead
  <1>4. Named(l, u) /\ l.nick \in Nicks /\ (u \notin forgotten => users[u] # 0)
    BY <1>0, <1>1, <1>2, EventAnnounced
  <1>5. users[u] = 0 /\ upsertUser(l)
    BY <1>0, <1>1, <1>2 DEF NInv, EventTold, ReaderTells, Create
  <1>6. u \in forgotten
    BY <1>4, <1>5
  <1>7. /\ TInv' /\ \A w \in UIDs \ {u} : users'[w] = users[w]
        /\ \A w \in UIDs \ {u} : users[w] # 0 => recs'[users[w]] = recs[users[w]]
    BY <1>0, <1>2, <1>3, <1>5, UpsertTable
  <1>8. /\ \A s \in Records : WindowsOf(recs'[s]) \in {WindowsOf(recs[s]), NoWindows}
        /\ \A w \in UIDs : WinOf(w)' = WinOf(w)
    BY <1>0, <1>2, <1>3, <1>5, UpsertWindows
  <1>9. PICK v : /\ readers' = [readers EXCEPT ![c] = v] /\ DOMAIN v = ReaderFields
                 /\ v.pc = "count" /\ v.ev = e /\ v.rec = users'[u]
    BY <1>0, <1>2, ReaderMoves
  <1>10. readers'[conn] = v
    BY <1>0, <1>1, <1>9, ReaderGoesOn
  <1>11. Queue' = Queue
    BY <1>0 DEF Queue
  <1>12. Pend' = Pend
    BY <1>0, <1>1, <1>3, <1>9, <1>10, <1>11 DEF Pend, Uncounted
  <1>13. l.at <= now
    <2>1. InOrder(Pend, now) /\ 1 \in 1..Len(Pend)
      BY <1>3, ToldParts DEF WKnown, LinesKnown, PendOK
    <2>. QED
      BY <1>2, <1>3, <1>4, <2>1 DEF InOrder, Named
  <1>14. ASSUME NEW w \in UIDs \ (forgotten \cup {u}), users'[w] # 0 PROVE users'[w] # users'[u]
    BY <1>3, <1>7, <1>14 DEF TInv, OwnRecords
  <1>15. Owner(v)'
    <2>1. v.ev = e /\ e.line = l /\ l.uid = u /\ v.pc = "count"
      BY <1>2, <1>9
    <2>. QED
      BY <1>0, <1>3, <1>4, <1>6, <1>9, <1>13, <1>14, <2>1 DEF Owner
  <1>16. conn' # 0 => Owner(readers[conn])'
    BY <1>0, <1>10, <1>15 DEF Owner
  <1>17. \A w \in UIDs \ forgotten : users'[w] # 0 => users[w] # 0 /\ NickOf(w)' = NickOf(w)
    BY <1>6, <1>7 DEF NickOf
  <1>. QED
    BY <1>0, <1>8, <1>12, <1>16, <1>17, AccountsStand DEF WKnown

\* The record is looked for, and found if its user has one; another's record
\* is found only if that user has left and has no line to come.
LEMMA LocateWindows ==
  ASSUME EInv, TInv, AInv, NInv, orderly, WKnown, NEW c \in Conns, Locate(c)
  PROVE  WKnown'
  <1>0. /\ readers[c].pc = "locate" /\ ReaderTypes /\ OnlyReader /\ EntriesKept
        /\ UNCHANGED <<net, lately, now, lines, conn, recs, users, forgotten>>
    BY DEF Locate, network, table, NInv, EInv
  <1>1. c = conn /\ conn # 0 /\ conn \in Conns
    BY <1>0, AtWork DEF Resting
  <1>2. PICK e, l, u : e = readers[c].ev /\ l = e.line /\ u = l.uid
    OBVIOUS
  <1>3. /\ e \in Told /\ u \in UIDs /\ Dated(l) /\ net[u] # "new"
        /\ Pend = <<e>> \o Queue /\ Pend[1] = e /\ Pend # <<>> /\ Pend \in Seq(Told)
    BY <1>0, <1>1, <1>2, EventAhead
  <1>4. Named(l, u) /\ l.nick \in Nicks /\ (u \notin forgotten => users[u] # 0) /\ ~Overtaken(u)
    BY <1>0, <1>1, <1>2, EventAnnounced
  <1>5. \/ Lookup(l) = u
        \/ /\ users[u] = 0 /\ Lookup(l) \in UIDs /\ users[Lookup(l)] # 0
           /\ NickOf(Lookup(l)) = l.nick
    BY <1>0, <1>2, <1>4 DEF Lookup, EntriesKept
  <1>6. PICK v : /\ readers' = [readers EXCEPT ![c] = v] /\ DOMAIN v = ReaderFields
                 /\ \/ v.pc = "count" /\ v.ev = e /\ v.rec = users[Lookup(l)] /\ v.rec # 0
                    \/ v.pc = "create" /\ v.ev = e /\ users[u] = 0
                    \/ v = Idle
    BY <1>0, <1>2, LocateMoves
  <1>7. readers'[conn] = v
    BY <1>0, <1>1, <1>6, ReaderGoesOn
  <1>8. v.pc \in {"count", "create"}
    <2>1. PICK found : found = users[Lookup(l)]
      OBVIOUS
    <2>2. found # 0 \/ Lookup(l) = u
      BY <1>5, <2>1
    <2>3. readers' = [readers EXCEPT
                        ![c] = CASE found # 0 -> [readers[c] EXCEPT !.pc = "count", !.rec = found]
                                 [] found = 0 /\ Lookup(l) = u -> [readers[c] EXCEPT !.pc = "create"]
                                 [] found = 0 /\ Lookup(l) # u -> Idle]
      BY <1>2, <2>1 DEF Locate
    <2>4. PICK x : x = readers[c]
      OBVIOUS
    <2>5. DOMAIN readers = Conns /\ DOMAIN x = ReaderFields
      BY <1>0, <2>4 DEF ReaderTypes
    <2>6. v = [x EXCEPT !.pc = "count", !.rec = found] \/ v = [x EXCEPT !.pc = "create"]
      BY <1>1, <1>7, <2>2, <2>3, <2>4, <2>5
    <2>7. v.pc = "count" \/ v.pc = "create"
      BY ONLY <2>5, <2>6 DEF ReaderFields
    <2>. QED
      BY <2>7
  <1>9. v.ev = e
    BY <1>6, <1>8, IdleReader
  <1>10. Queue' = Queue
    BY <1>0 DEF Queue
  <1>11. Pend' = Pend
    BY <1>0, <1>1, <1>3, <1>7, <1>8, <1>9, <1>10 DEF Pend, Uncounted
  <1>12. unheard' = {}
    <2>1. unheard' = unheard \cup (IF Overtaken(u) THEN {u} ELSE {})
      BY <1>2 DEF Locate
    <2>. QED
      BY <1>4, <2>1 DEF WKnown
  <1>13. ASSUME v.pc = "count"
         PROVE  /\ l.at <= now /\ (u \notin forgotten => v.rec # 0 /\ v.rec = users[u])
                /\ \A w \in UIDs \ (forgotten \cup {u}) :
                     users[w] # 0 /\ users[w] = v.rec => Over(Pend, w, net[w])
    <2>1. InOrder(Pend, now) /\ 1 \in 1..Len(Pend)
      BY <1>3, ToldParts DEF WKnown, LinesKnown, PendOK
    <2>2. l.at <= now
      BY <1>2, <1>3, <1>4, <2>1 DEF InOrder, Named
    <2>3. v.rec = users[Lookup(l)] /\ v.rec # 0
      BY <1>6, <1>13, IdleReader
    <2>4. u \notin forgotten => v.rec = users[u]
      BY <1>4, <1>5, <2>3
    <2>5. ASSUME NEW w \in UIDs \ (forgotten \cup {u}), users[w] # 0, users[w] = v.rec,
                 ~Over(Pend, w, net[w])
          PROVE  FALSE
      <3>1. Lookup(l) \in UIDs
        BY <1>3, <1>5
      <3>2. w = Lookup(l)
        BY <2>3, <2>5, <3>1 DEF TInv, OwnRecords
      <3>3. NickOf(w) = l.nick
        BY <1>5, <2>5, <3>2
      <3>4. NickApart(Pend, w, l.nick)
        BY <2>5, <3>3 DEF WKnown, NicksKnown
      <3>5. Pend[1].line = l /\ u \in UIDs \ {w}
        BY <1>2, <1>3, <2>5
      <3>6. GivenUp(Pend, w, 0, 1)
        BY <1>4, <2>1, <3>4, <3>5 DEF NickApart
      <3>. QED
        BY <3>6 DEF GivenUp
    <2>. QED
      BY <2>2, <2>3, <2>4, <2>5
  <1>14. Owner(v)'
    <2>1. v.ev = e /\ e.line = l /\ l.uid = u
      BY <1>2, <1>9
    <2>. QED
      BY <1>0, <1>3, <1>4, <1>8, <1>11, <1>13, <2>1 DEF Owner
  <1>15. conn' # 0 => Owner(readers[conn])'
    BY <1>0, <1>7, <1>14 DEF Owner
  <1>16. \A w \in UIDs : WinOf(w)' = WinOf(w) /\ NickOf(w)' = NickOf(w)
    BY <1>0 DEF WinOf, NickOf
  <1>. QED
    BY <1>0, <1>11, <1>12, <1>15, <1>16, AccountsStand

\* The event is counted: in the windows of its user's record, or in those of
\* a record that was forgotten or whose user has nothing more to do.
LEMMA CountWindows ==
  ASSUME EInv, TInv, TInv', AInv, NInv, orderly, WKnown, NEW c \in Conns, Count(c)
  PROVE  WKnown'
  <1>0. /\ readers[c].pc = "count" /\ ReaderTypes /\ OnlyReader
        /\ UNCHANGED <<net, lately, now, lines, conn, users, forgotten, unheard>>
    BY DEF Count, network, ghosts, NInv, EInv
  <1>1. c = conn /\ conn # 0 /\ conn \in Conns
    BY <1>0, AtWork DEF Resting
  <1>2. PICK e, l, u, r, p : e = readers[c].ev /\ l = e.line /\ u = l.uid /\ r = readers[c].rec /\ p = Pend
    OBVIOUS
  <1>3. /\ e \in Told /\ u \in UIDs /\ Dated(l)
        /\ p[1] = e /\ p # <<>> /\ p \in Seq(Told) /\ Tail(p) = Queue
    BY <1>0, <1>1, <1>2, EventAhead
  <1>4. /\ LinesKnown /\ RecordsKnown /\ NicksKnown /\ AccountsKept /\ unheard = {}
        /\ \A w \in UIDs : PendOK(p, w, net[w], now)
        /\ \A w \in UIDs : DidOK(lately[w], now)
    BY <1>2 DEF WKnown, LinesKnown
  <1>5. /\ Named(l, u) /\ l.at <= now /\ (u \notin forgotten => r # 0 /\ r = users[u])
        /\ \A w \in UIDs \ (forgotten \cup {u}) : users[w] # 0 /\ users[w] = r => Over(p, w, net[w])
    BY <1>0, <1>1, <1>2 DEF WKnown, Owner
  <1>6. PICK v : /\ readers' = [readers EXCEPT ![c] = v] /\ DOMAIN v = ReaderFields
                 /\ v.pc = "judge" /\ v.ev = e /\ v.rec = r
    BY <1>0, <1>2, ReaderMoves
  <1>7. readers'[conn] = v
    BY <1>0, <1>1, <1>6, ReaderGoesOn
  <1>8. Pend' = Tail(p)
    BY <1>0, <1>1, <1>3, <1>6, <1>7 DEF Pend, Uncounted, Queue
  <1>9. InOrder(p, now) /\ 1 \in 1..Len(p)
    BY <1>3, <1>4, ToldParts DEF PendOK
  <1>10. Countable(l)
    BY <1>2, <1>3, <1>5, <1>9 DEF InOrder, Countable, Dated, Named
  <1>11. /\ DOMAIN recs = Records /\ \A s \in Records : DOMAIN recs[s] = RecordFields
         /\ \A w \in UIDs : users[w] \in Records \cup {0}
    BY DEF TInv, RecordsOK, RecordOK, OwnRecords
  <1>12. /\ r \in Records => recs'[r] = Counted(recs[r], l)
         /\ \A s \in Records \ {r} : recs'[s] = recs[s]
    BY <1>2, <1>11 DEF Count
  <1>13. \A s \in Records : WindowsOK(WindowsOf(recs[s]), p, now)
    BY <1>2, <1>4 DEF RecordsKnown
  <1>14. ASSUME NEW s \in Records PROVE WindowsOK(WindowsOf(recs'[s]), Tail(p), now)
    <2>1. CASE s = r
      <3>1. PICK q : q = recs[r]
        OBVIOUS
      <3>2. DOMAIN q = RecordFields /\ WindowsOK(WindowsOf(q), p, now) /\ l = p[1].line
        BY <1>2, <1>3, <1>11, <1>13, <1>14, <2>1, <3>1
      <3>3. WindowsOK(WindowsOf(Counted(q, l)), Tail(p), now)
        BY ONLY <1>3, <1>9, <1>10, <3>2, WindowsCount
      <3>. QED
        BY <1>12, <1>14, <2>1, <3>1, <3>3
    <2>2. CASE s # r
      <3>1. recs'[s] = recs[s]
        BY <1>12, <1>14, <2>2
      <3>2. now \in Nat
        BY DEF EInv
      <3>. QED
        BY <1>3, <1>13, <1>14, <3>1, <3>2, WindowsKept
    <2>. QED
      BY <2>1, <2>2
  <1>15. ASSUME NEW w \in UIDs \ forgotten, ~Over(p, w, net[w]) PROVE Taken(WinOf(w), WinOf(w)', p[1], w)
    <2>1. CASE w = u
      <3>1. r # 0 /\ r = users[u] /\ r \in Records
        BY <1>5, <1>11, <1>15, <2>1
      <3>2. PICK q : q = recs[r]
        OBVIOUS
      <3>3. DOMAIN q = RecordFields /\ WindowsOK(WindowsOf(q), p, now) /\ l = p[1].line
        BY <1>2, <1>3, <1>11, <1>13, <3>1, <3>2
      <3>4. Taken(WindowsOf(q), WindowsOf(Counted(q, l)), p[1], l.uid)
        BY ONLY <1>3, <1>9, <1>10, <3>3, TakenCount
      <3>5. WinOf(w) = WindowsOf(q) /\ WinOf(w)' = WindowsOf(Counted(q, l))
        BY <1>0, <1>12, <2>1, <3>1, <3>2 DEF WinOf
      <3>. QED
        BY <1>2, <2>1, <3>4, <3>5
    <2>2. CASE w # u
      <3>1. users[w] = 0 \/ users[w] \in Records \ {r}
        BY <1>5, <1>11, <1>15, <2>2
      <3>2. WinOf(w)' = WinOf(w)
        BY <1>0, <1>12, <3>1 DEF WinOf
      <3>3. \A X \in Classes : \A s \in Int : e \notin Of(w, X, s)
        BY <1>2, <2>2, NotOf
      <3>4. Listed(WinOf(w))
        BY <1>4, WindowsHeld
      <3>5. PICK z : z = WinOf(w)
        OBVIOUS
      <3>6. Taken(z, z, e, w)
        BY <3>3, <3>4, <3>5, TakenNone
      <3>. QED
        BY <1>3, <3>2, <3>5, <3>6
    <2>. QED
      BY <2>1, <2>2
  <1>16. ASSUME NEW s \in Records PROVE recs'[s].Nick = recs[s].Nick
    <2>1. CASE s = r
      <3>1. l.kind # "nick" \/ l.nick = recs[r].Nick
        BY <1>0, <1>1, <1>2 DEF NInv, EventTold, ReaderTells
      <3>. QED
        BY <1>11, <1>12, <1>16, <2>1, <3>1, NickStays
    <2>2. CASE s # r
      BY <1>12, <1>16, <2>2
    <2>. QED
      BY <2>1, <2>2
  <1>17. ASSUME NEW w \in UIDs \ forgotten, users'[w] # 0, ~Over(Tail(p), w, net[w])
         PROVE  NickApart(Tail(p), w, NickOf(w)')
    <2>1. PICK n : n = NickOf(w)
      OBVIOUS
    <2>2. users[w] # 0 /\ NickOf(w)' = n
      BY <1>0, <1>11, <1>16, <1>17, <2>1 DEF NickOf
    <2>3. ~Over(p, w, net[w])
      BY <1>3, <1>17, OverRead
    <2>4. NickApart(p, w, n)
      BY <1>2, <1>4, <2>1, <2>2, <2>3 DEF NicksKnown
    <2>5. LastWords(p, w, net[w]) /\ Apart(p, w)
      BY <1>4 DEF PendOK
    <2>6. ~Quits(p[1].line, w)
      BY <1>3, <1>17, <2>5, OverRead
    <2>7. CASE ~Leaves(p[1].line, w)
      BY <1>3, <2>2, <2>4, <2>7, NickApartRead
    <2>8. CASE Leaves(p[1].line, w)
      <3>1. Naming(p[1].line, w) /\ l.kind = "nick" /\ w = u
        BY <1>2, <1>3, <2>6, <2>8 DEF Leaves, Quits, Naming
      <3>2. NickApart(Tail(p), w, p[1].line.nick)
        BY <1>3, <2>5, <3>1, NickApartRead
      <3>3. l.nick = n
        BY <1>0, <1>1, <1>2, <1>5, <2>1, <3>1 DEF NInv, EventTold, ReaderTells, NickOf
      <3>. QED
        BY <1>2, <1>3, <2>2, <3>2, <3>3
    <2>. QED
      BY <2>7, <2>8
  <1>18. ASSUME u \notin forgotten
         PROVE  /\ DueRight(WinOf(u)', <<>>, u, 0, e) /\ FoundRight(WinOf(u)', <<>>, u, 0, e)
                /\ l.kind \in Rated => recs'[r].cachedFeatures = {}
    <2>1. ~Over(p, u, net[u])
      BY <1>2, <1>3, <1>5, <1>9 DEF Over
    <2>2. PICK w, z, did : w = WinOf(u) /\ z = WinOf(u)' /\ did = lately[u]
      OBVIOUS
    <2>3. Account(w, p, did, u, now) /\ Taken(w, z, p[1], u)
      BY <1>2, <1>3, <1>4, <1>15, <1>18, <2>1, <2>2 DEF AccountsKept
    <2>4. Listed(w)
      BY <1>3, <1>4, <2>2, WindowsHeld
    <2>5. r \in Records /\ users'[u] = r /\ r # 0
      BY <1>0, <1>3, <1>5, <1>11, <1>18
    <2>6. Listed(z)
      <3>1. z = WindowsOf(recs'[r])
        BY <2>2, <2>5 DEF WinOf
      <3>2. Tail(p) \in Seq(Told) /\ now \in Nat
        BY <1>3, ToldParts DEF EInv
      <3>. QED
        BY <1>14, <2>5, <3>1, <3>2, WindowsKept
    <2>7. Len(did) \in Nat
      <3>1. did \in Seq(SentLines)
        BY <1>3, <1>4, <2>2 DEF DidOK
      <3>. QED
        BY <3>1
    <2>8. DueRight(z, <<>>, u, 0, p[1]) /\ FoundRight(z, <<>>, u, 0, p[1])
      BY ONLY <1>3, <2>3, <2>4, <2>6, <2>7, AccountRead
    <2>9. l.kind \in Rated => recs'[r].cachedFeatures = {}
      BY <1>11, <1>12, <2>5, CountedClears
    <2>. QED
      BY <1>3, <2>2, <2>8, <2>9
  <1>19. Owner(v)'
    <2>1. v.ev = e /\ e.line = l /\ l.uid = u
      BY <1>2, <1>6
    <2>. QED
      BY <1>0, <1>3, <1>5, <1>6, <1>18, <2>1 DEF Owner
  <1>20. conn' # 0 => Owner(readers[conn])'
    BY <1>0, <1>7, <1>19 DEF Owner
  <1>21. /\ Pend # <<>> /\ Pend' = Tail(Pend) /\ UNCHANGED <<net, lately, now, forgotten>> /\ unheard' = {}
         /\ \A s \in Records : WindowsOK(WindowsOf(recs'[s]), Tail(Pend), now)
    BY <1>0, <1>2, <1>3, <1>4, <1>8, <1>14
  <1>22. \A w \in UIDs \ forgotten : ~Over(Pend, w, net[w]) => Taken(WinOf(w), WinOf(w)', Pend[1], w)
    BY <1>2, <1>15
  <1>23. \A w \in UIDs \ forgotten : users'[w] # 0 /\ ~Over(Tail(Pend), w, net[w]) =>
           NickApart(Tail(Pend), w, NickOf(w)')
    BY <1>2, <1>17
  <1>. QED
    BY <1>20, <1>21, <1>22, <1>23, AccountsTaken

\* A line that goes into no window is taken.
LEMMA QuietTaken ==
  ASSUME EInv, TInv, TInv', NInv, orderly, WKnown, conn # 0, lines[conn] # <<>>, Take(conn),
         readers[conn].pc = "idle", NEW e, e = Head(lines[conn]), e.line.kind \notin Rated,
         readers'[conn].pc \in {"idle", "record"}, unheard' = {},
         UNCHANGED <<net, lately, now, conn, forgotten>>,
         \A s \in Records : WindowsOf(recs'[s]) \in {WindowsOf(recs[s]), NoWindows},
         \A w \in UIDs : WinOf(w)' = WinOf(w),
         \A w \in UIDs : users'[w] # 0 =>
           \/ users[w] # 0 /\ NickOf(w)' = NickOf(w)
           \/ First(e.line, w) /\ (NickOf(w)' = NoNick \/ (Naming(e.line, w) /\ NickOf(w)' = e.line.nick))
  PROVE  WKnown'
  <1>1. conn \in Conns /\ DOMAIN lines = Conns /\ now \in Nat /\ lines[conn] \in Seq(Told)
    BY DEF EInv, LinesTyped
  <1>2. PICK p : p = lines[conn]
    OBVIOUS
  <1>3. p = Pend /\ p # <<>> /\ p \in Seq(Told) /\ p[1] = e /\ Tail(p) \in Seq(Told)
    <2>1. Pend = lines[conn]
      BY DEF Pend, Uncounted, Queue
    <2>. QED
      BY <1>1, <1>2, <2>1, ToldParts
  <1>4. Pend' = Tail(p)
    <2>1. lines'[conn] = Tail(p)
      BY <1>1, <1>2 DEF Take
    <2>. QED
      BY <2>1 DEF Pend, Uncounted, Queue
  <1>5. /\ LinesKnown /\ RecordsKnown /\ NicksKnown
        /\ \A w \in UIDs : PendOK(p, w, net[w], now)
    BY <1>3 DEF WKnown, LinesKnown
  <1>6. ASSUME NEW s \in Records PROVE WindowsOK(WindowsOf(recs'[s]), Tail(p), now)
    <2>1. WindowsOK(WindowsOf(recs[s]), p, now)
      BY <1>3, <1>5 DEF RecordsKnown
    <2>2. WindowsOK(WindowsOf(recs[s]), Tail(p), now)
      BY <1>1, <1>3, <2>1, WindowsKept
    <2>. QED
      BY <2>2, EmptyWindows
  <1>7. ASSUME NEW w \in UIDs PROVE Taken(WinOf(w), WinOf(w)', p[1], w)
    <2>1. PICK z : z = WinOf(w)
      OBVIOUS
    <2>2. Listed(z)
      BY <1>5, <2>1, WindowsHeld
    <2>3. \A X \in Classes : \A s \in Int : e \notin Of(w, X, s)
      BY NotOf
    <2>4. Taken(z, z, e, w)
      BY <2>2, <2>3, TakenNone
    <2>. QED
      BY <1>3, <2>1, <2>4
  <1>8. ASSUME NEW w \in UIDs \ forgotten, users'[w] # 0, ~Over(Tail(p), w, net[w])
        PROVE  NickApart(Tail(p), w, NickOf(w)')
    <2>1. LastWords(p, w, net[w]) /\ Apart(p, w)
      BY <1>5 DEF PendOK
    <2>2. ~Over(p, w, net[w]) /\ ~Quits(e.line, w)
      BY <1>3, <1>8, <2>1, OverRead
    <2>3. CASE users[w] # 0 /\ NickOf(w)' = NickOf(w)
      <3>1. PICK n : n = NickOf(w)
        OBVIOUS
      <3>2. NickApart(p, w, n)
        BY <1>3, <1>5, <1>8, <2>2, <2>3, <3>1 DEF NicksKnown
      <3>3. ~Leaves(e.line, w)
        BY <2>2 DEF Leaves, Quits, Rated
      <3>4. NickApart(Tail(p), w, n)
        BY <1>3, <3>2, <3>3, NickApartRead
      <3>. QED
        BY <2>3, <3>1, <3>4
    <2>4. CASE NickOf(w)' = NoNick
      <3>1. \A x \in UIDs : QueueTells(Tail(p), x, net[x])
        <4>1. \A x \in UIDs : PendOK(Tail(p), x, net[x], now)
          BY <1>3, <1>5, PendRead
        <4>. QED
          BY <4>1 DEF PendOK
      <3>2. NickApart(Tail(p), w, NoNick)
        BY <3>1, NickApartNone
      <3>. QED
        BY <2>4, <3>2
    <2>5. CASE Naming(e.line, w) /\ NickOf(w)' = e.line.nick
      <3>1. NickApart(Tail(p), w, p[1].line.nick)
        BY <1>3, <2>1, <2>5, NickApartRead
      <3>. QED
        BY <1>3, <2>5, <3>1
    <2>. QED
      BY <1>8, <2>3, <2>4, <2>5
  <1>9. conn' # 0 => Owner(readers[conn])'
    BY DEF Owner
  <1>. QED
    BY <1>3, <1>4, <1>6, <1>7, <1>8, <1>9, AccountsTaken

\* A line that announces a user, or says that it leaves.
LEMMA IdentityWindows ==
  ASSUME EInv, TInv, TInv', NInv, orderly, WKnown, NEW c \in Conns, ObserveIdentity(c)
  PROVE  WKnown'
  <1>0. /\ Ready(c) /\ Take(c) /\ ReaderTypes /\ OnlyReader
        /\ UNCHANGED <<net, lately, now, conn, readers, forgotten, unheard>>
    BY DEF ObserveIdentity, network, ghosts, NInv, EInv
  <1>1. /\ c = conn /\ conn # 0 /\ conn \in Conns /\ lines[conn] # <<>> /\ Take(conn)
        /\ readers[conn].pc = "idle"
    BY <1>0, AtWork DEF Ready
  <1>2. PICK e, ev : e = Head(lines[conn]) /\ ev = e.line
    OBVIOUS
  <1>3. \/ ev.kind \in {"bad", "quit"} /\ UNCHANGED table
        \/ ev.kind \in {"connect", "register"} /\ upsertUser(ev)
    BY <1>1, <1>2 DEF ObserveIdentity
  <1>4. LineOK(ev, net) /\ QueueTold
    BY <1>1, <1>2, NextLine DEF NInv
  <1>5. unheard' = {} /\ readers'[conn].pc \in {"idle", "record"} /\ e.line.kind \notin Rated
    BY <1>0, <1>1, <1>2, <1>3 DEF WKnown, Rated, Messages
  <1>6. CASE ev.kind \in {"bad", "quit"} /\ UNCHANGED table
    <2>1. UNCHANGED <<recs, users>>
      BY <1>6 DEF table
    <2>2. \A w \in UIDs : WinOf(w)' = WinOf(w) /\ NickOf(w)' = NickOf(w) /\ users'[w] = users[w]
      BY <2>1 DEF WinOf, NickOf
    <2>. QED
      BY <1>0, <1>1, <1>2, <1>5, <2>1, <2>2, QuietTaken
  <1>7. CASE ev.kind \in {"connect", "register"} /\ upsertUser(ev)
    <2>1. ev.uid \in UIDs /\ Dated(ev)
      BY <1>4, <1>7 DEF LineOK, Known
    <2>2. /\ \A s \in Records : WindowsOf(recs'[s]) \in {WindowsOf(recs[s]), NoWindows}
          /\ \A w \in UIDs : WinOf(w)' = WinOf(w)
      BY <1>0, <1>7, <2>1, UpsertWindows
    <2>3. /\ \A w \in UIDs \ {ev.uid} : users'[w] = users[w]
          /\ \A w \in UIDs \ {ev.uid} : users[w] # 0 => recs'[users[w]] = recs[users[w]]
          /\ recs'[users'[ev.uid]].Nick = IF ev.nick # NoNick THEN ev.nick
                                         ELSE IF users[ev.uid] # 0 THEN recs[users[ev.uid]].Nick
                                         ELSE NoNick
      BY <1>0, <1>7, <2>1, UpsertTable
    <2>4. ev.kind = "connect" => ev.nick = NoNick
      <3>1. QueueTells(Queue, ev.uid, net[ev.uid])
        BY <1>4, <2>1 DEF QueueTold
      <3>2. Queue \in Seq(Told) /\ Queue = lines[conn]
        BY <1>1, QueueType DEF Queue
      <3>3. 1 \in 1..Len(Queue) /\ Queue[1].line = ev
        BY <1>1, <1>2, <3>2, ToldParts
      <3>. QED
        BY <3>1, <3>3 DEF QueueTells
    <2>5. ASSUME NEW w \in UIDs, users'[w] # 0
          PROVE  \/ users[w] # 0 /\ NickOf(w)' = NickOf(w)
                 \/ /\ First(ev, w)
                    /\ NickOf(w)' = NoNick \/ (Naming(ev, w) /\ NickOf(w)' = ev.nick)
      <3>1. CASE w # ev.uid
        BY <2>3, <2>5, <3>1 DEF NickOf
      <3>2. CASE w = ev.uid
        <4>1. First(ev, w) /\ (ev.kind = "register" => Naming(ev, w))
          BY <1>7, <3>2 DEF First, Naming
        <4>2. NickOf(w)' = IF ev.nick # NoNick THEN ev.nick
                           ELSE IF users[w] # 0 THEN NickOf(w) ELSE NoNick
          BY <2>3, <3>2 DEF NickOf
        <4>. QED
          BY <1>7, <2>4, <4>1, <4>2
      <3>. QED
        BY <3>1, <3>2
    <2>. QED
      BY <1>0, <1>1, <1>2, <1>5, <2>2, <2>5, QuietTaken
  <1>. QED
    BY <1>3, <1>6, <1>7

\* An operator's action goes into no window.
LEMMA OperWindows ==
  ASSUME EInv, TInv, TInv', NInv, orderly, WKnown, NEW c \in Conns, ObserveOper(c)
  PROVE  WKnown'
  <1>0. /\ Ready(c) /\ Take(c) /\ ReaderTypes /\ OnlyReader
        /\ UNCHANGED <<net, lately, now, conn, recs, users, forgotten>>
    BY DEF ObserveOper, network, table, NInv, EInv
  <1>1. /\ c = conn /\ conn # 0 /\ conn \in Conns /\ lines[conn] # <<>> /\ Take(conn)
        /\ readers[conn].pc = "idle"
    BY <1>0, AtWork DEF Ready
  <1>2. PICK e, ev : e = Head(lines[conn]) /\ ev = e.line
    OBVIOUS
  <1>3. /\ ev.kind \in Opers
        /\ unheard' = unheard \cup (IF ev.kind # "oper_kline" /\ Overtaken(ev.uid) THEN {ev.uid} ELSE {})
    BY <1>1, <1>2 DEF ObserveOper
  <1>4. LineOK(ev, net) /\ QueueTold
    BY <1>1, <1>2, NextLine DEF NInv
  <1>5. ASSUME ev.kind # "oper_kline" PROVE ~Overtaken(ev.uid)
    <2>1. ev.uid \in UIDs /\ Named(ev, ev.uid)
      BY <1>3, <1>4, <1>5 DEF LineOK, Known, Opers, Named
    <2>2. QueueTells(Queue, ev.uid, net[ev.uid])
      BY <1>4, <2>1 DEF QueueTold
    <2>3. Queue \in Seq(Told) /\ Queue = lines[conn]
      BY <1>1, QueueType DEF Queue
    <2>4. 1 \in 1..Len(Queue) /\ Queue[1].line = ev
      BY <1>1, <1>2, <2>3, ToldParts
    <2>5. ASSUME NEW i \in 1..Len(Queue), First(Queue[i].line, ev.uid) PROVE FALSE
      <3>1. \A j, k \in 1..Len(Queue) : First(Queue[j].line, ev.uid) /\ Named(Queue[k].line, ev.uid) => j <= k
        BY <2>2 DEF QueueTells
      <3>2. i <= 1
        BY <2>1, <2>4, <2>5, <3>1
      <3>3. i = 1
        BY <3>2
      <3>. QED
        BY <1>3, <2>4, <2>5, <3>3 DEF First, Opers
    <2>. QED
      BY <1>0, <2>5, NotOvertaken
  <1>6. unheard' = {} /\ ev.kind \notin Rated
    BY <1>3, <1>5 DEF WKnown, Rated, Messages, Opers
  <1>7. PICK v : readers' = [readers EXCEPT ![conn] = v] /\ DOMAIN v = ReaderFields /\ v.pc = "record"
    BY <1>0, <1>1, ReaderMoves
  <1>8. readers'[conn].pc \in {"idle", "record"}
    BY <1>0, <1>1, <1>7, ReaderGoesOn
  <1>9. \A w \in UIDs : WinOf(w)' = WinOf(w) /\ NickOf(w)' = NickOf(w) /\ users'[w] = users[w]
    BY <1>0 DEF WinOf, NickOf
  <1>. QED
    BY <1>0, <1>1, <1>2, <1>6, <1>8, <1>9, QuietTaken

\* An event's line is taken, but its event still waits.
LEMMA ActivityWindows ==
  ASSUME EInv, TInv, NInv, orderly, WKnown, NEW c \in Conns, ObserveActivity(c)
  PROVE  WKnown'
  <1>0. /\ Ready(c) /\ Take(c) /\ ReaderTypes /\ OnlyReader
        /\ UNCHANGED <<net, lately, now, conn, forgotten, unheard>>
    BY DEF ObserveActivity, network, ghosts, NInv, EInv
  <1>1. /\ c = conn /\ conn # 0 /\ conn \in Conns /\ lines[conn] # <<>> /\ Take(conn)
        /\ readers[conn].pc = "idle" /\ lines[conn] \in Seq(Told) /\ DOMAIN lines = Conns
    BY <1>0, AtWork DEF Ready, EInv, LinesTyped
  <1>2. PICK p, e, ev : p = lines[conn] /\ e = Head(p) /\ ev = e.line
    OBVIOUS
  <1>3. /\ ev.kind \notin Opers \cup {"bad", "quit", "connect", "register"}
        /\ IF ev.kind = "nick" THEN handleNick(ev) ELSE UNCHANGED table
    BY <1>1, <1>2 DEF ObserveActivity
  <1>4. ev.uid \in UIDs
    <2>1. LineOK(ev, net)
      BY <1>1, <1>2, NextLine
    <2>. QED
      BY <1>3, <2>1 DEF LineOK, Known, Opers
  <1>5. PICK v : /\ readers' = [readers EXCEPT ![conn] = v] /\ DOMAIN v = ReaderFields
                 /\ v.pc = "locate" /\ v.ev = Head(lines[conn])
    BY <1>0, <1>1, ReaderMoves
  <1>6. readers'[conn] = v
    BY <1>0, <1>1, <1>5, ReaderGoesOn
  <1>7. p # <<>> /\ p \in Seq(Told) /\ p[1] = e /\ v.ev = e
    BY <1>1, <1>2, <1>5, ToldParts
  <1>8. Pend = p
    BY <1>1, <1>2 DEF Pend, Uncounted, Queue
  <1>9. Pend' = Pend
    <2>1. lines'[conn] = Tail(p)
      BY <1>1, <1>2 DEF Take
    <2>2. Pend' = <<e>> \o Tail(p)
      BY <1>0, <1>1, <1>5, <1>6, <1>7, <2>1 DEF Pend, Uncounted, Queue
    <2>3. <<e>> \o Tail(p) = p
      BY <1>7
    <2>. QED
      BY <1>8, <2>2, <2>3
  <1>10. conn' # 0 => Owner(readers[conn])'
    BY <1>0, <1>5, <1>6 DEF Owner
  <1>11. CASE ev.kind = "nick"
    <2>1. /\ \A s \in Records : WindowsOf(recs'[s]) = WindowsOf(recs[s])
          /\ \A w \in UIDs : WinOf(w)' = WinOf(w)
          /\ \A w \in UIDs \ {ev.uid} : users[w] # 0 => NickOf(w)' = NickOf(w)
          /\ users' = users
      BY <1>3, <1>4, <1>11, NickWindows
    <2>2. \A n : NickApart(p, ev.uid, n)
      BY <1>2, <1>7, <1>11, NickApartFirst
    <2>3. \A w \in UIDs \ forgotten' : users'[w] # 0 =>
             (users[w] # 0 /\ NickOf(w)' = NickOf(w)) \/ NickApart(Pend, w, NickOf(w)')
      BY <1>8, <2>1, <2>2
    <2>. QED
      BY <1>0, <1>9, <1>10, <2>1, <2>3, AccountsStand DEF WKnown
  <1>12. CASE ev.kind # "nick"
    <2>1. UNCHANGED <<recs, users>>
      BY <1>3, <1>12 DEF table
    <2>2. \A w \in UIDs : WinOf(w)' = WinOf(w) /\ NickOf(w)' = NickOf(w) /\ users'[w] = users[w]
      BY <2>1 DEF WinOf, NickOf
    <2>. QED
      BY <1>0, <1>9, <1>10, <2>1, <2>2, AccountsStand DEF WKnown
  <1>. QED
    BY <1>11, <1>12

\* Eviction: what a reader is at is kept, and the evicted are forgotten.
LEMMA EvictWindows ==
  ASSUME EInv, TInv, orderly, WKnown, gc
  PROVE  WKnown'
  <1>0. UNCHANGED <<net, lately, now, lines, conn, readers, unheard>>
    BY DEF gc, network
  <1>1. /\ forgotten' = forgotten \cup {u \in UIDs : Stale(u)}
        /\ \A u \in UIDs : users'[u] = IF Stale(u) THEN 0 ELSE users[u]
        /\ \A u \in UIDs : users'[u] # 0 => users'[u] = users[u] /\ recs'[users[u]] = recs[users[u]]
    BY EvictTable
  <1>2. recs' = [r \in Records |-> IF r \notin Held /\ \E u \in UIDs : Stale(u) /\ users[u] = r
                                   THEN NoRecord ELSE recs[r]]
    BY DEF gc
  <1>3. \A s \in Records : WindowsOf(recs'[s]) \in {WindowsOf(recs[s]), NoWindows}
    <2>1. WindowsOf(NoRecord) = NoWindows
      BY EmptyWindows DEF NoRecord
    <2>. QED
      BY <1>2, <2>1
  <1>4. ASSUME NEW u \in UIDs \ forgotten'
        PROVE  /\ users'[u] = users[u] /\ WinOf(u)' = WinOf(u)
               /\ users'[u] # 0 => NickOf(u)' = NickOf(u)
    <2>1. users'[u] = users[u]
      BY <1>1, <1>4
    <2>. QED
      BY <1>1, <1>4, <2>1 DEF WinOf, NickOf
  <1>5. Pend' = Pend
    BY <1>0 DEF Pend, Uncounted, Queue
  <1>6. conn' # 0 => Owner(readers[conn])'
    <2>. SUFFICES ASSUME conn # 0 PROVE Owner(readers[conn])'
      BY <1>0
    <2>1. PICK r : r = readers[conn].rec
      OBVIOUS
    <2>2. r \in Records => recs'[r] = recs[r]
      <3>1. r \in Held
        BY <2>1 DEF Held, EInv
      <3>. QED
        BY <1>2, <3>1
    <2>3. conn' = conn /\ readers'[conn] = readers[conn] /\ forgotten \subseteq forgotten'
      BY <1>0, <1>1
    <2>. QED
      BY <1>0, <1>4, <1>5, <2>1, <2>2, <2>3, OwnerStands
  <1>. QED
    BY <1>0, <1>1, <1>3, <1>4, <1>5, <1>6, AccountsStand DEF WKnown

-----------------------------------------------------------------------------
(* Judgement. *)

\* Counting the times since t is counting what a window holds since t.
LEMMA TimesCounted ==
  ASSUME NEW X \in Classes, NEW s \in Seq(Entries(X)), NEW t
  PROVE  /\ Cardinality({i \in DOMAIN s : AtOf(X, s[i]) >= t}) = Hits(s, Since(X, t), Len(s))
         /\ DOMAIN s = 1..Len(s)
  <1>1. DOMAIN s = 1..Len(s) /\ \A i \in 1..Len(s) : s[i] \in Entries(X)
    OBVIOUS
  <1>2. {i \in DOMAIN s : AtOf(X, s[i]) >= t} = {i \in 1..Len(s) : s[i] \in Since(X, t)}
    BY <1>1 DEF Since
  <1>. QED
    BY <1>1, <1>2 DEF Hits

\* The rates are what the windows of a record recall.
LEMMA RatesRecalled ==
  ASSUME NEW q, NEW p, NEW tm, WindowsOK(WindowsOf(q), p, tm), NEW w, w = WindowsOf(q), NEW at, NEW t, t = at - Minute
  PROVE  /\ Cardinality(DOMAIN messagesInWindow(q.recentMsgs, at)) = Recalled(w, "msgs", t)
         /\ rateOverWindow(q.recentJoins, at) = Recalled(w, "joins", t)
         /\ rateOverWindow(q.recentNicks, at) = Recalled(w, "nicks", t)
         /\ rateOverWindow(q.recentHops, at) = Recalled(w, "hops", t)
         /\ Cardinality(RecentPMs(q, at)) = Recalled(w, "pms", t)
         /\ rateOverWindow(q.recentMentions, at) = Recalled(w, "mentions", t)
         /\ RecentPMs(q, at) = {i \in 1..Len(w["pms"]) : w["pms"][i].at >= t}
         /\ w["pms"] = q.recentUserMsg
  <1>1. ASSUME NEW X \in Classes
        PROVE  /\ w[X] = Seen(X, q) /\ w[X] \in Seq(Entries(X)) /\ DOMAIN w[X] = 1..Len(w[X])
               /\ Cardinality({i \in DOMAIN w[X] : AtOf(X, w[X][i]) >= t}) = Recalled(w, X, t)
    <2>1. w[X] = Seen(X, q) /\ w[X] \in Seq(Entries(X))
      BY WindowParts
    <2>2. PICK s : s = w[X]
      OBVIOUS
    <2>3. /\ Cardinality({i \in DOMAIN s : AtOf(X, s[i]) >= t}) = Hits(s, Since(X, t), Len(s))
          /\ DOMAIN s = 1..Len(s)
      BY <2>1, <2>2, TimesCounted
    <2>. QED
      BY <2>1, <2>2, <2>3 DEF Recalled
  <1>2. {"msgs", "joins", "nicks", "hops", "pms", "mentions"} = Classes
    BY DEF Classes
  <1>3. /\ w["msgs"] = q.recentMsgs /\ w["joins"] = q.recentJoins /\ w["nicks"] = q.recentNicks
        /\ w["hops"] = q.recentHops /\ w["pms"] = q.recentUserMsg /\ w["mentions"] = q.recentMentions
    BY <1>1, <1>2 DEF Seen
  <1>4. DOMAIN messagesInWindow(q.recentMsgs, at) = {i \in DOMAIN q.recentMsgs : q.recentMsgs[i].at >= t}
    BY DEF messagesInWindow, Restrict, Within
  <1>5. Cardinality(DOMAIN messagesInWindow(q.recentMsgs, at)) = Recalled(w, "msgs", t)
    BY <1>1, <1>2, <1>3, <1>4 DEF AtOf
  <1>6. ASSUME NEW X \in Classes \ {"msgs", "pms"} PROVE rateOverWindow(w[X], at) = Recalled(w, X, t)
    <2>1. PICK a : a = w[X]
      OBVIOUS
    <2>2. rateOverWindow(a, at) = Cardinality({i \in DOMAIN a : a[i] >= t})
      BY DEF rateOverWindow, Within
    <2>3. {i \in DOMAIN a : AtOf(X, a[i]) >= t} = {i \in DOMAIN a : a[i] >= t}
      BY <1>6 DEF AtOf
    <2>4. Cardinality({i \in DOMAIN a : AtOf(X, a[i]) >= t}) = Recalled(w, X, t)
      BY <1>1, <1>6, <2>1
    <2>. QED
      BY <2>1, <2>2, <2>3, <2>4
  <1>7. /\ rateOverWindow(q.recentJoins, at) = Recalled(w, "joins", t)
        /\ rateOverWindow(q.recentNicks, at) = Recalled(w, "nicks", t)
    BY <1>2, <1>3, <1>6
  <1>8. /\ rateOverWindow(q.recentHops, at) = Recalled(w, "hops", t)
        /\ rateOverWindow(q.recentMentions, at) = Recalled(w, "mentions", t)
    BY <1>2, <1>3, <1>6
  <1>11. RecentPMs(q, at) = {i \in DOMAIN w["pms"] : w["pms"][i].at >= t}
    BY <1>3 DEF RecentPMs, Within
  <1>12. DOMAIN w["pms"] = 1..Len(w["pms"])
    BY <1>1, <1>2
  <1>13. Cardinality(RecentPMs(q, at)) = Recalled(w, "pms", t)
    BY <1>1, <1>2, <1>11 DEF AtOf
  <1>. QED
    BY <1>3, <1>5, <1>7, <1>8, <1>11, <1>12, <1>13

\* The later the minute, the less is in it.
LEMMA FewerLater ==
  ASSUME NEW q, NEW p, NEW tm, WindowsOK(WindowsOf(q), p, tm), NEW w, w = WindowsOf(q), NEW X \in Classes,
         NEW t \in Int, NEW s \in Int, t <= s
  PROVE  /\ Recalled(w, X, s) <= Recalled(w, X, t)
         /\ Recalled(w, X, s) \in Nat /\ Recalled(w, X, t) \in Nat
  <1>1. PICK a : a = w[X]
    OBVIOUS
  <1>2. a \in Seq(Entries(X)) /\ Len(a) \in Nat
        /\ \A i \in 1..Len(a) : a[i] \in Entries(X) /\ AtOf(X, a[i]) \in Nat
    BY <1>1, WindowParts
  <1>3. \A i \in 1..Len(a) : a[i] \in Since(X, s) => a[i] \in Since(X, t)
    BY <1>2 DEF Since
  <1>4. Hits(a, Since(X, s), Len(a)) <= Hits(a, Since(X, t), Len(a))
    BY <1>2, <1>3, HitsFewer
  <1>5. Hits(a, Since(X, s), Len(a)) \in Nat /\ Hits(a, Since(X, t), Len(a)) \in Nat
    BY <1>2, HitsType
  <1>. QED
    BY <1>1, <1>4, <1>5 DEF Recalled

\* The rules say what the rates call for.
LEMMA RulesSay ==
  ASSUME NEW s, NEW l
  PROVE  /\ "flood" \in Dispatch(s, l) <=> Triggers("flood", l) /\ s.RecentMsgRate >= Limit.flood
         /\ "mass_join" \in Dispatch(s, l) <=> Triggers("mass_join", l) /\ s.RecentJoinRate >= Limit.joins
         /\ "nick_flip" \in Dispatch(s, l) <=> Triggers("nick_flip", l) /\ s.NickFlipRate >= Limit.nicks
         /\ "hop_flood" \in Dispatch(s, l) <=> Triggers("hop_flood", l) /\ s.HopRate >= Limit.hops
         /\ "pm_flood" \in Dispatch(s, l) <=> Triggers("pm_flood", l) /\ s.PMRate >= Limit.pms
         /\ "mention_storm" \in Dispatch(s, l) <=> Triggers("mention_storm", l) /\ s.MentionRate >= Limit.mentions
         /\ "pm_shotgun" \in Dispatch(s, l) <=> l.kind = "usermsg" /\ s.PMTargetCount >= Limit.targets
         /\ "nickserv_spoof" \in Dispatch(s, l) <=> l.kind = "usermsg" /\ s.NickServSpoofs >= 1
  <1>1. /\ "flood" \in Dispatch(s, l) <=> floodRule(s, l)
        /\ "mass_join" \in Dispatch(s, l) <=> massJoinRule(s, l)
        /\ "nick_flip" \in Dispatch(s, l) <=> nickFlipRule(s, l)
        /\ "hop_flood" \in Dispatch(s, l) <=> hopFloodRule(s, l)
    BY DEF Dispatch
  <1>2. /\ "pm_flood" \in Dispatch(s, l) <=> pmFloodRule(s, l)
        /\ "mention_storm" \in Dispatch(s, l) <=> mentionStormRule(s, l)
        /\ "pm_shotgun" \in Dispatch(s, l) <=> pmShotgunRule(s, l)
        /\ "nickserv_spoof" \in Dispatch(s, l) <=> nickServSpoofRule(s, l)
    BY DEF Dispatch
  <1>. QED
    BY <1>1, <1>2 DEF Triggers, floodRule, massJoinRule, nickFlipRule, hopFloodRule, pmFloodRule,
                      pmShotgunRule, mentionStormRule, nickServSpoofRule

\* Rule k is among alerts D just when the window reaches its limit, counted
\* since a minute before x.
GoesBy(k, D, l, w, x) ==
  k \in D <=> Triggers(k, l) /\ Recalled(w, ClassOf(k), x - Minute) >= LimitOf(k)

\* What is raised when record q is judged for line l at time t, features of
\* time s in its cache: the rules that count go by the window since a minute
\* before t, or before s.
LEMMA RaisedByRates ==
  ASSUME NEW q, NEW p, NEW tm, WindowsOK(WindowsOf(q), p, tm), NEW w, w = WindowsOf(q),
         NEW l, NEW D, D = Dispatch(snapshotFor(q, l.at), l),
         NEW s \in Int, SetAside(snapshotFeatures(q, l.at), q) = computeFeatures(q, s),
         NEW k \in CountRules
  PROVE  GoesBy(k, D, l, w, l.at) \/ GoesBy(k, D, l, w, s)
  <1>1. PICK f, v, t : f = snapshotFeatures(q, l.at) /\ v = snapshotFor(q, l.at) /\ t = l.at
    OBVIOUS
  <1>2. /\ v.RecentMsgRate = Cardinality(DOMAIN f.msgs) /\ v.RecentJoinRate = f.joins
        /\ v.NickFlipRate = rateOverWindow(q.recentNicks, t)
        /\ v.HopRate = rateOverWindow(q.recentHops, t)
        /\ v.PMRate = Cardinality(RecentPMs(q, t))
        /\ v.MentionRate = rateOverWindow(q.recentMentions, t)
    BY <1>1 DEF snapshotFor
  <1>3. f.msgs = messagesInWindow(q.recentMsgs, s) /\ f.joins = rateOverWindow(q.recentJoins, s)
    <2>1. PICK g : g = SetAside(f, q)
      OBVIOUS
    <2>2. /\ DOMAIN g = {"age", "account", "tls", "msgs", "joins", "ctcps", "nicks", "hops"}
          /\ g.msgs = messagesInWindow(q.recentMsgs, s)
          /\ g.joins = rateOverWindow(q.recentJoins, s)
      BY <1>1, <2>1 DEF computeFeatures
    <2>3. DOMAIN f = DOMAIN g /\ \A x \in DOMAIN f \ {"account", "tls"} : g[x] = f[x]
      BY <2>1 DEF SetAside
    <2>. QED
      BY <2>2, <2>3
  <1>4. /\ Cardinality(DOMAIN messagesInWindow(q.recentMsgs, s)) = Recalled(w, "msgs", s - Minute)
        /\ rateOverWindow(q.recentJoins, s) = Recalled(w, "joins", s - Minute)
    BY RatesRecalled
  <1>5. /\ rateOverWindow(q.recentNicks, t) = Recalled(w, "nicks", t - Minute)
        /\ rateOverWindow(q.recentHops, t) = Recalled(w, "hops", t - Minute)
        /\ Cardinality(RecentPMs(q, t)) = Recalled(w, "pms", t - Minute)
        /\ rateOverWindow(q.recentMentions, t) = Recalled(w, "mentions", t - Minute)
    BY RatesRecalled
  <1>6. /\ "flood" \in Dispatch(v, l) <=> Triggers("flood", l) /\ v.RecentMsgRate >= Limit.flood
        /\ "mass_join" \in Dispatch(v, l) <=> Triggers("mass_join", l) /\ v.RecentJoinRate >= Limit.joins
        /\ "nick_flip" \in Dispatch(v, l) <=> Triggers("nick_flip", l) /\ v.NickFlipRate >= Limit.nicks
        /\ "hop_flood" \in Dispatch(v, l) <=> Triggers("hop_flood", l) /\ v.HopRate >= Limit.hops
        /\ "pm_flood" \in Dispatch(v, l) <=> Triggers("pm_flood", l) /\ v.PMRate >= Limit.pms
        /\ "mention_storm" \in Dispatch(v, l) <=> Triggers("mention_storm", l) /\ v.MentionRate >= Limit.mentions
    BY RulesSay
  <1>7. CountRules = {"flood", "mass_join", "nick_flip", "hop_flood", "pm_flood", "mention_storm"}
    BY DEF CountRules, RateRules, Searching
  <1>8. CASE k \in {"flood", "mass_join"}
    <2>1. k \in Dispatch(v, l) <=> Triggers(k, l) /\ Recalled(w, ClassOf(k), s - Minute) >= LimitOf(k)
      BY <1>2, <1>3, <1>4, <1>6, <1>8 DEF ClassOf, LimitOf
    <2>. QED
      BY <1>1, <2>1 DEF GoesBy
  <1>9. CASE k \in {"nick_flip", "hop_flood", "pm_flood", "mention_storm"}
    <2>1. k \in Dispatch(v, l) <=> Triggers(k, l) /\ Recalled(w, ClassOf(k), t - Minute) >= LimitOf(k)
      BY <1>2, <1>5, <1>6, <1>9 DEF ClassOf, LimitOf
    <2>. QED
      BY <1>1, <2>1 DEF GoesBy
  <1>. QED
    BY <1>7, <1>8, <1>9

\* The rules that search find no more than the window since a minute before
\* the line keeps.
LEMMA RaisedByContents ==
  ASSUME NEW q, NEW p, NEW tm, WindowsOK(WindowsOf(q), p, tm), NEW l, NEW e, e.line = l,
         NEW u, l.uid = u, FoundRight(WindowsOf(q), <<>>, u, 0, e), NEW k \in Searching,
         k \in Dispatch(snapshotFor(q, l.at), l)
  PROVE  k \in e.due
  <1>1. PICK v, t, w, R : /\ v = snapshotFor(q, l.at) /\ t = l.at - Minute /\ w = WindowsOf(q)
                          /\ R = RecentPMs(q, l.at)
    OBVIOUS
  <1>2. /\ R = {i \in 1..Len(w["pms"]) : w["pms"][i].at >= t} /\ w["pms"] = q.recentUserMsg
    BY <1>1, RatesRecalled
  <1>3. /\ v.PMTargetCount = Cardinality({q.recentUserMsg[i].target : i \in R})
        /\ v.NickServSpoofs = Cardinality({i \in R : q.recentUserMsg[i].body.spoof})
    BY <1>1 DEF snapshotFor
  <1>4. Kept(w, t) = {Private(q.recentUserMsg[i]) : i \in R}
    BY <1>2 DEF Kept
  <1>5. Waiting(<<>>, u, t, 0) = {}
    BY DEF Waiting
  <1>6. PICK H : H = Kept(w, t) \cup Waiting(<<>>, u, t, 0)
    OBVIOUS
  <1>7. H = {Private(q.recentUserMsg[i]) : i \in R}
    BY <1>4, <1>5, <1>6
  <1>8. l.kind = "usermsg" =>
          /\ Cardinality({h.target : h \in H}) >= Limit.targets => "pm_shotgun" \in e.due
          /\ (\E h \in H : h.body.spoof) => "nickserv_spoof" \in e.due
    BY <1>1, <1>6 DEF FoundRight
  <1>9. CASE k = "pm_shotgun"
    <2>1. l.kind = "usermsg" /\ v.PMTargetCount >= Limit.targets
      BY <1>1, <1>9, RulesSay
    <2>2. {h.target : h \in H} = {q.recentUserMsg[i].target : i \in R}
      <3>1. \A i \in R : Private(q.recentUserMsg[i]) \in H
                          /\ Private(q.recentUserMsg[i]).target = q.recentUserMsg[i].target
        BY <1>7 DEF Private
      <3>2. \A h \in H : \E i \in R : h = Private(q.recentUserMsg[i])
        BY <1>7
      <3>. QED
        BY <3>1, <3>2
    <2>. QED
      BY <1>3, <1>8, <1>9, <2>1, <2>2
  <1>10. CASE k = "nickserv_spoof"
    <2>1. l.kind = "usermsg" /\ v.NickServSpoofs >= 1
      BY <1>1, <1>10, RulesSay
    <2>2. {i \in R : q.recentUserMsg[i].body.spoof} # {}
      <3>1. PICK B : B = {i \in R : q.recentUserMsg[i].body.spoof}
        OBVIOUS
      <3>2. Cardinality(B) >= 1
        BY <1>3, <2>1, <3>1
      <3>3. B # {}
        <4>1. Cardinality({}) = 0
          BY FS_EmptySet
        <4>2. B = {} => Cardinality(B) = 0
          BY <4>1
        <4>. QED
          BY <3>2, <4>2
      <3>. QED
        BY <3>1, <3>3
    <2>3. PICK i \in R : q.recentUserMsg[i].body.spoof
      BY <2>2
    <2>4. Private(q.recentUserMsg[i]) \in H /\ Private(q.recentUserMsg[i]).body.spoof
      BY <1>7, <2>3 DEF Private
    <2>. QED
      BY <1>8, <1>10, <2>1, <2>4
  <1>. QED
    BY <1>9, <1>10 DEF Searching

\* A judgement is right about a user that was not forgotten.
LEMMA RightlyJudged ==
  ASSUME NEW q, RecordOK(q), NEW p, NEW tm, WindowsOK(WindowsOf(q), p, tm), NEW e \in Told, NEW l, l = e.line,
         NEW u, Named(l, u), l.at \in Nat,
         DueRight(WindowsOf(q), <<>>, u, 0, e), FoundRight(WindowsOf(q), <<>>, u, 0, e),
         l.kind \in Rated => \A fv \in q.cachedFeatures : fv.age + q.FirstSeen >= l.at
  PROVE  Wrong(q, Dispatch(snapshotFor(q, l.at), l) \cap RateRules, e.due) = {}
  <1>1. PICK w, D, f : w = WindowsOf(q) /\ D = Dispatch(snapshotFor(q, l.at), l) /\ f = snapshotFeatures(q, l.at)
    OBVIOUS
  <1>2. l.uid = u /\ l.kind # "bad" /\ e.due \subseteq RateRules /\ Minute \in Nat
    BY StateAssumption DEF Named, Told
  <1>3. PICK s \in Int : /\ SetAside(f, q) = computeFeatures(q, s)
                         /\ q.cachedFeatures = {} => s = l.at
                         /\ l.kind \in Rated => s >= l.at
    <2>1. CASE q.cachedFeatures = {}
      BY <1>1, <2>1, ComputedAside DEF snapshotFeatures
    <2>2. CASE q.cachedFeatures # {}
      <3>1. f \in q.cachedFeatures
        BY <1>1, <2>2 DEF snapshotFeatures
      <3>2. /\ f.age \in Int /\ q.FirstSeen \in Nat
            /\ SetAside(f, q) = computeFeatures(q, f.age + q.FirstSeen)
        BY <3>1 DEF RecordOK, CacheCurrent
      <3>3. f.age + q.FirstSeen \in Int
        BY <3>2
      <3>. QED
        BY <2>2, <3>1, <3>2, <3>3
    <2>. QED
      BY <2>1, <2>2
  <1>4. ASSUME NEW k \in CountRules
        PROVE  k \in e.due <=> Triggers(k, l) /\ Recalled(w, ClassOf(k), l.at - Minute) >= LimitOf(k)
    <2>1. k \in e.due <=>
            /\ Triggers(k, l)
            /\ Recalled(w, ClassOf(k), l.at - Minute) + Hits(<<>>, Of(u, ClassOf(k), l.at - Minute), 0)
                 >= LimitOf(k)
      BY <1>1, <1>2 DEF DueRight
    <2>2. ClassOf(k) \in Classes
      BY RuleFacts
    <2>3. Recalled(w, ClassOf(k), l.at - Minute) \in Nat
      BY <1>1, <1>2, <2>2, FewerLater
    <2>. QED
      BY <2>1, <2>3, HitsNone
  <1>5. ASSUME NEW k \in CountRules PROVE /\ k \in D => k \in e.due
                                          /\ q.cachedFeatures = {} /\ k \in e.due => k \in D
    <2>1. PICK x \in {l.at, s} : k \in D <=> Triggers(k, l) /\ Recalled(w, ClassOf(k), x - Minute) >= LimitOf(k)
      <3>1. SetAside(snapshotFeatures(q, l.at), q) = computeFeatures(q, s)
        BY <1>1, <1>3
      <3>2. GoesBy(k, D, l, w, l.at) \/ GoesBy(k, D, l, w, s)
        BY <1>1, <3>1, RaisedByRates
      <3>. QED
        BY <3>2 DEF GoesBy
    <2>2. ClassOf(k) \in Classes /\ LimitOf(k) \in Nat /\ (Triggers(k, l) => l.kind \in Rated)
      BY RuleFacts
    <2>3. q.cachedFeatures = {} => x = l.at
      BY <1>3
    <2>4. ASSUME k \in D PROVE k \in e.due
      <3>1. Triggers(k, l) /\ Recalled(w, ClassOf(k), x - Minute) >= LimitOf(k) /\ l.kind \in Rated
        BY <2>1, <2>2, <2>4
      <3>2. l.at <= x /\ x \in Int
        BY <1>3, <3>1
      <3>3. PICK a, b : a = l.at - Minute /\ b = x - Minute
        OBVIOUS
      <3>4. a \in Int /\ b \in Int /\ a <= b
        BY <1>2, <3>2, <3>3
      <3>5. /\ Recalled(w, ClassOf(k), b) <= Recalled(w, ClassOf(k), a)
            /\ Recalled(w, ClassOf(k), b) \in Nat /\ Recalled(w, ClassOf(k), a) \in Nat
        BY <1>1, <2>2, <3>4, FewerLater
      <3>. QED
        BY <1>4, <2>2, <3>1, <3>3, <3>5
    <2>. QED
      BY <1>4, <2>1, <2>3, <2>4
  <1>6. ASSUME NEW k \in Searching, k \in D PROVE k \in e.due
    BY <1>1, <1>2, <1>6, RaisedByContents
  <1>7. RateRules = CountRules \cup Searching
    BY DEF CountRules, RateRules, Searching
  <1>. QED
    BY <1>1, <1>2, <1>5, <1>6, <1>7 DEF Wrong

\* The judgement of an event is right, and caches features of its time.
LEMMA JudgeWindows ==
  ASSUME EInv, TInv, NInv, orderly, WKnown, misjudged = {}, NEW c \in Conns, Judge(c)
  PROVE  WKnown' /\ misjudged' = {}
  <1>0. /\ ReaderTypes /\ readers[c].pc = "judge"
        /\ UNCHANGED <<net, lately, now, lines, conn, users, forgotten, unheard>>
    BY DEF EInv, Judge, network
  <1>1. c = conn /\ conn # 0
    <2>1. OnlyReader /\ ~Resting(readers[c])
      BY <1>0 DEF NInv, Resting
    <2>. QED
      BY <2>1, AtWork
  <1>2. PICK v, e, l, r, q : /\ v = readers[conn] /\ e = v.ev /\ l = e.line /\ r = v.rec /\ q = recs[r]
    OBVIOUS
  <1>3. l.at \in Nat
    BY <1>0, <1>1, <1>2 DEF EInv, EventsOK, EventOK, Dated
  <1>4. recs' = [recs EXCEPT ![r] = WithFeatures(recs[r], l.at)] /\ readers' = [readers EXCEPT ![conn] = Idle]
    BY <1>1, <1>2 DEF Judge
  <1>5. WKnown'
    BY <1>0, <1>1, <1>3, <1>4, FeaturesWindows
  <1>6. misjudged' = misjudged \cup
          (IF l.uid \notin forgotten /\ q.UID = l.uid
           THEN Wrong(q, Dispatch(snapshotFor(q, l.at), l) \cap RateRules, e.due) ELSE {})
    BY <1>1, <1>2 DEF Judge
  <1>7. ASSUME l.uid \notin forgotten
        PROVE  Wrong(q, Dispatch(snapshotFor(q, l.at), l) \cap RateRules, e.due) = {}
    <2>1. Owner(v) /\ v.pc = "judge"
      BY <1>0, <1>1, <1>2 DEF WKnown
    <2>2. /\ e \in Told /\ Named(l, l.uid) /\ l.uid \in UIDs
          /\ r # 0 /\ r = users[l.uid]
          /\ DueRight(WinOf(l.uid), <<>>, l.uid, 0, e) /\ FoundRight(WinOf(l.uid), <<>>, l.uid, 0, e)
      BY <1>2, <1>7, <2>1 DEF Owner
    <2>3. l.kind \in Rated => \A fv \in q.cachedFeatures : fv.age + q.FirstSeen >= l.at
      BY <1>2, <1>7, <2>1 DEF Owner
    <2>4. r \in Records
      BY <2>2 DEF TInv, OwnRecords
    <2>5. RecordOK(q) /\ WindowsOK(WindowsOf(q), Pend, now)
      BY <1>2, <2>4 DEF TInv, RecordsOK, WKnown, RecordsKnown
    <2>6. WinOf(l.uid) = WindowsOf(q)
      BY <1>2, <2>2 DEF WinOf
    <2>7. PICK u : u = l.uid
      OBVIOUS
    <2>8. /\ DueRight(WindowsOf(q), <<>>, u, 0, e) /\ FoundRight(WindowsOf(q), <<>>, u, 0, e)
          /\ Named(l, u)
      BY <2>2, <2>6, <2>7
    <2>. QED
      BY <1>2, <1>3, <2>2, <2>3, <2>5, <2>8, RightlyJudged
  <1>. QED
    BY <1>5, <1>6, <1>7

\* A label, or the training on it.
LEMMA LearnWindows ==
  ASSUME EInv, TInv, NInv, orderly, WKnown, NEW c \in Conns,
         LearnTrain(c) \/ \E ok \in BOOLEAN : LearnRecord(c, ok)
  PROVE  WKnown'
  <1>0. /\ ReaderTypes /\ readers[c].pc \in {"record", "train"}
        /\ UNCHANGED <<net, lately, now, lines, conn, users, forgotten, unheard>>
    BY DEF EInv, LearnTrain, LearnRecord, network, table, ghosts
  <1>1. c = conn /\ conn # 0
    <2>1. OnlyReader /\ ~Resting(readers[c])
      BY <1>0 DEF NInv, Resting
    <2>. QED
      BY <2>1, AtWork
  <1>2. CASE LearnTrain(c)
    <2>1. PICK r, t : r = readers[conn].rec /\ t = readers[conn].ev.line.at
      OBVIOUS
    <2>2. readers[conn].pc = "train" /\ readers' = [readers EXCEPT ![conn] = Idle]
          /\ recs' = [recs EXCEPT ![r] = WithFeatures(recs[r], t)]
      BY <1>1, <1>2, <2>1 DEF LearnTrain
    <2>3. t \in Nat
      BY <1>1, <2>1, <2>2 DEF EInv, EventsOK, EventOK, Dated
    <2>. QED
      BY <1>0, <1>1, <2>2, <2>3, FeaturesWindows
  <1>3. CASE \E ok \in BOOLEAN : LearnRecord(c, ok)
    <2>1. recs' = recs /\ readers[c].pc = "record" /\ unheard' = unheard
      BY <1>3 DEF LearnRecord, table
    <2>2. PICK v : readers' = [readers EXCEPT ![c] = v] /\ v.pc \in {"idle", "train"}
      <3>1. PICK ok \in BOOLEAN : LearnRecord(c, ok)
        BY <1>3
      <3>2. PICK v : /\ readers' = [readers EXCEPT ![c] = v] /\ DOMAIN v = ReaderFields
                     /\ v = Idle \/ (v.pc = "train" /\ v.ev = readers[c].ev)
        BY <1>0, <3>1, ReaderMoves
      <3>. QED
        BY <3>2, IdleReader
    <2>3. readers'[conn].pc \in {"idle", "train"}
      BY <1>0, <1>1, <2>2 DEF ReaderTypes
    <2>4. ~Uncounted /\ ~Uncounted'
      BY <1>0, <1>1, <2>1, <2>3 DEF Uncounted
    <2>5. Pend' = Pend
      BY <1>0, <2>4 DEF Pend, Queue
    <2>6. Owner(readers[conn])'
      BY <1>0, <2>3 DEF Owner
    <2>7. \A u \in UIDs : WinOf(u)' = WinOf(u) /\ NickOf(u)' = NickOf(u)
      BY <1>0, <2>1 DEF WinOf, NickOf
    <2>. QED
      BY <1>0, <2>1, <2>5, <2>6, <2>7, AccountsStand DEF WKnown
  <1>. QED
    BY <1>2, <1>3

\* The admin API has features computed for now, or touches no record.
LEMMA AdminWindows ==
  ASSUME EInv, TInv, orderly, WKnown,
         \/ AdminExplain \/ AdminTrain \/ \E u \in UIDs : AdminLookup(u)
         \/ \E ok, decisive \in BOOLEAN : AdminRecord(ok, decisive)
  PROVE  WKnown'
  <1>1. UNCHANGED <<net, lately, now, lines, conn, readers, users, forgotten, unheard>>
    BY DEF AdminExplain, AdminTrain, AdminLookup, AdminRecord, network, table, ghosts
  <1>2. CASE UNCHANGED recs
    BY <1>1, <1>2, WindowsUntouched
  <1>3. CASE ~UNCHANGED recs
    <2>1. PICK r : r = users[admin.uid]
      OBVIOUS
    <2>2. recs' = [recs EXCEPT ![r] = WithFeatures(recs[r], now)] /\ now \in Nat
      BY <1>3, <2>1 DEF AdminExplain, AdminTrain, AdminLookup, AdminRecord, table, EInv
    <2>. QED
      BY <1>1, <2>2, FeaturesWindows
  <1>. QED
    BY <1>2, <1>3

\* Every step of the daemon.
LEMMA DaemonWindows == ASSUME EInv, TInv, TInv', AInv, NInv, WInv, Daemon PROVE WInv'
  <1>1. CASE ~orderly
    <2>1. ~orderly'
      BY <1>1 DEF Daemon, Accept, ReadLoopEnds, ObserveIdentity, ObserveActivity, ObserveOper,
                  Locate, Create, Count, Judge, LearnRecord, LearnTrain, gc, AdminLookup,
                  AdminExplain, AdminRecord, AdminTrain
    <2>2. misjudged' = misjudged
      BY <1>1 DEF Daemon, Accept, ReadLoopEnds, ObserveIdentity, ObserveActivity, ObserveOper,
                  Locate, Create, Count, Judge, LearnRecord, LearnTrain, gc, AdminLookup,
                  AdminExplain, AdminRecord, AdminTrain, ghosts
    <2>. QED
      BY <2>1, <2>2 DEF WInv
  <1>2. CASE orderly
    <2>0. WKnown /\ misjudged = {}
      BY <1>2 DEF WInv
    <2>1. CASE \E c \in Conns : Judge(c)
      BY <1>2, <2>0, <2>1, JudgeWindows DEF WInv
    <2>2. CASE ~\E c \in Conns : Judge(c)
      <3>1. misjudged' = misjudged
        BY <2>2 DEF Daemon, Accept, ReadLoopEnds, ObserveIdentity, ObserveActivity, ObserveOper,
                    Locate, Create, Count, LearnRecord, LearnTrain, gc, AdminLookup,
                    AdminExplain, AdminRecord, AdminTrain, ghosts
      <3>2. orderly' => WKnown'
        BY <1>2, <2>0, <2>2, AcceptWindows, EndWindows, IdentityWindows, ActivityWindows, OperWindows,
           LocateWindows, CreateWindows, CountWindows, LearnWindows, EvictWindows, AdminWindows
           DEF Daemon
      <3>. QED
        BY <2>0, <3>1, <3>2 DEF WInv
    <2>. QED
      BY <2>1, <2>2
  <1>. QED
    BY <1>1, <1>2

\* Every step.
LEMMA WindowsStep == EInv /\ TInv /\ AInv /\ NInv /\ WInv /\ [Next]_vars => WInv'
  <1>. SUFFICES ASSUME EInv, TInv, AInv, NInv, WInv, [Next]_vars PROVE WInv'
    OBVIOUS
  <1>1. ASSUME UNCHANGED <<net, lately, now, lines, conn, readers, recs, users, forgotten, unheard>>,
               UNCHANGED <<orderly, misjudged>>
        PROVE  WInv'
    BY <1>1, WindowsUntouched DEF WInv
  <1>2. ASSUME NEW s \in Savers,
               \/ SaveBegin(s) \/ SaveOpen(s) \/ SaveRename(s)
               \/ \E result \in {"whole", "mixed", "failed"} : SaveWrite(s, result)
        PROVE  WInv'
    BY <1>1, <1>2 DEF SaveBegin, SaveOpen, SaveRename, SaveWrite, managerVars
  <1>3. ASSUME Term \/ Start \/ UNCHANGED vars PROVE WInv'
    BY <1>1, <1>3 DEF Term, Start, vars, managerVars, network, table, ghosts
  <1>4. ASSUME Down PROVE WInv'
    BY <1>4 DEF Down, WInv
  <1>5. TInv'
    BY TableStep
  <1>. QED
    BY <1>2, <1>3, <1>4, <1>5, NetworkWindows, DaemonWindows DEF Next, Steps

\* Nobody has done anything yet.
LEMMA WindowsInit == Init => WInv
  <1>. SUFFICES ASSUME Init PROVE WInv
    OBVIOUS
  <1>1. /\ net = [u \in UIDs |-> "new"] /\ lines = [c \in Conns |-> <<>>] /\ conn = 0
        /\ lately = [u \in UIDs |-> <<>>] /\ now = 0 /\ recs = [r \in Records |-> NoRecord]
        /\ users = [u \in UIDs |-> 0] /\ unheard = {} /\ misjudged = {}
    BY DEF Init, ManagerInit
  <1>2. Pend = <<>>
    BY <1>1 DEF Pend, Uncounted, Queue
  <1>3. <<>> \in Seq(Told) /\ <<>> \in Seq(SentLines) /\ Len(<<>>) = 0
    OBVIOUS
  <1>4. \A u \in UIDs : DidOK(lately[u], now)
    BY <1>1, <1>3 DEF DidOK
  <1>5. \A u \in UIDs : PendOK(<<>>, u, "new", now)
    BY <1>3 DEF PendOK, InOrder, QueueTells, LastWords, Apart, Offline
  <1>6. NetApart
    BY <1>1, ManagerAssumption DEF NetApart
  <1>7. \A r \in Records : WindowsOK(WindowsOf(recs[r]), <<>>, now)
    <2>1. WindowsOf(NoRecord) = NoWindows
      BY EmptyWindows DEF NoRecord
    <2>. QED
      BY <1>1, <2>1, EmptyWindows
  <1>8. ASSUME NEW u \in UIDs PROVE Account(NoWindows, <<>>, <<>>, u, now)
    <2>1. \A X \in Classes : NoWindows[X] = <<>>
      BY DEF NoWindows
    <2>2. ASSUME NEW X \in Classes, NEW t \in Int
          PROVE  /\ Recalled(NoWindows, X, t) = 0
                 /\ Hits(<<>>, Of(u, X, t), Len(<<>>)) = 0 /\ Hits(<<>>, Doing(X, t), Len(<<>>)) = 0
      BY <1>3, <2>1, HitsNone DEF Recalled
    <2>3. NoneLost(NoWindows, <<>>, <<>>, u, now)
      BY <2>2 DEF NoneLost
    <2>4. AllSent(NoWindows, <<>>, <<>>, u, now)
      <3>1. NoWindows["pms"] = <<>>
        BY <2>1 DEF Classes
      <3>2. \A t : Kept(NoWindows, t) = {} /\ Waiting(<<>>, u, t, 0) = {}
        BY <1>3, <3>1 DEF Kept, Waiting
      <3>. QED
        BY <1>3, <3>2 DEF AllSent
    <2>5. DueKnown(NoWindows, <<>>, u) /\ FoundKnown(NoWindows, <<>>, u)
      BY <1>3 DEF DueKnown, FoundKnown
    <2>. QED
      BY <2>3, <2>4, <2>5 DEF Account
  <1>. QED
    BY <1>1, <1>2, <1>3, <1>4, <1>5, <1>6, <1>7, <1>8
       DEF WInv, WKnown, LinesKnown, RecordsKnown, NicksKnown, AccountsKept, WinOf

\* While the lines of one connection come in order and are all handled, the
\* rate rules are right about every user whose record was not evicted: none
\* fires unless what the user did in the last minute reaches its limit, and
\* those that count fire whenever it does.  The windows forget the oldest
\* entries, but never so that fewer than a limit of the last minute are left.
THEOREM RateAlertsRight == Spec => []RateAlertsTrue
  <1>1. WInv => RateAlertsTrue
    BY DEF WInv, RateAlertsTrue
  <1>. QED
    BY <1>1, EventsInit, EventsStep, TableInit, TableStep, AttributionInit, AttributionStep,
       NicksInit, NicksStep, WindowsInit, WindowsStep, PTL DEF Spec
=============================================================================
