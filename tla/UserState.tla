------------------------------ MODULE UserState ------------------------------
(***************************************************************************)
(* What Sentry remembers about one user (sentry/state.go) and the L1 rules *)
(* that judge it (sentry/heuristics/l1.go): sliding windows of bounded     *)
(* length, the counts of message hashes kept beside them, the cached       *)
(* feature vector, and thirteen thresholds.                                *)
(*                                                                         *)
(* Times are ticks.  A message body is a record of what the code reads off *)
(* its text: its hash, how many URLs and distinct mentions it has, the     *)
(* percentage of capitals and whether it is NickServ phishing.  A feature  *)
(* vector is kept as the window contents its numbers are computed from.    *)
(* Fields that are written and never read are left out (recentEvents,      *)
(* perChannelMsgs, PartCount, NickCount, JoinCount, LastJoin, IP), and so  *)
(* are alert texts and confidences.  Of the account's name all that counts *)
(* is that there is one.                                                   *)
(***************************************************************************)
EXTENDS Integers, Sequences, FiniteSets, FiniteSetsExt

CONSTANTS Bodies,             \* message bodies
          MaxRecentMessages,  \* maxRecentMessages, 32 in the code
          MaxRecentJoins,     \* maxRecentJoins, 16
          MaxRecentEvents,    \* maxRecentEvents, 64
          Minute,             \* the 60 second window
          BurstResume,        \* burstResumeThreshold
          BurstHold,          \* burstHoldWindow
          Limit,              \* the rules' thresholds
          NoNick,             \* the empty nick
          Never               \* the zero time.Time

\* What is read off a text: upperRatio (in percent), countURLs,
\* countMentionTokens and hasNickServSpoof.
IsBody(b) ==
  b.urls \in Nat /\ b.upper \in 0..100 /\ b.mentions \in Nat /\ b.spoof \in BOOLEAN

ASSUME StateAssumption ==
  /\ Bodies # {} /\ \A b \in Bodies : IsBody(b)
  /\ MaxRecentMessages \in Nat \ {0} /\ MaxRecentJoins \in Nat \ {0}
  /\ MaxRecentEvents \in Nat \ {0} /\ Minute \in Nat
  /\ BurstResume \in Nat /\ BurstHold \in Nat /\ Never \notin Nat

\* Each window is long enough for the rules that count in it.
ASSUME LimitAssumption ==
  /\ {Limit.flood, Limit.pms, Limit.mentions} \subseteq 0..MaxRecentMessages
  /\ Limit.joins \in 0..MaxRecentJoins
  /\ {Limit.nicks, Limit.hops} \subseteq 0..MaxRecentEvents
  /\ Limit.targets \in Nat

Hashes == {b.hash : b \in Bodies}
Messages == {"chanmsg", "usermsg", "channotice"}

-----------------------------------------------------------------------------
(* Bookkeeping. *)

NewUser(uid, at) ==
  [UID |-> uid, Nick |-> NoNick, FirstSeen |-> at, LastActivity |-> at,
   LastMsg |-> Never, MsgCount |-> 0, CTCPCount |-> 0, burstStartIdleGap |-> 0,
   recentMsgs |-> <<>>, recentJoins |-> <<>>, recentNicks |-> <<>>,
   recentHops |-> <<>>, recentUserMsg |-> <<>>, recentMentions |-> <<>>,
   msgHashes |-> [h \in Hashes |-> 0], Account |-> FALSE, IsTLS |-> FALSE,
   cachedFeatures |-> {}]

\* Wrong form: the window is cut one too short.
AppendShort(s, t, max) ==
  LET full == Append(s, t)
  IN IF Len(full) > max THEN SubSeq(full, Len(full) - max + 2, Len(full)) ELSE full

appendTimeBounded(s, t, max) ==
  LET full == Append(s, t)
  IN IF Len(full) > max THEN SubSeq(full, Len(full) - max + 1, Len(full)) ELSE full

\* Wrong form: the cached features survive the event.
TouchOnly(u, at) == [u EXCEPT !.LastActivity = at]

touch(u, at) == [u EXCEPT !.LastActivity = at, !.cachedFeatures = {}]

\* The idle time before the present burst, once the message of time at is in.
BurstGap(u, at) ==
  CASE u.LastMsg = Never                 -> u.burstStartIdleGap
    [] u.LastMsg # Never /\ at - u.LastMsg >= BurstResume -> at - u.LastMsg
    [] u.LastMsg # Never /\ at - u.LastMsg < BurstResume
         -> IF at - u.LastMsg > BurstHold THEN 0 ELSE u.burstStartIdleGap

\* Wrong form: the count of the message that leaves the window stays.
HashesKept(u, body) == [u.msgHashes EXCEPT ![body.hash] = @ + 1]

\* The new body is counted; the one that leaves a full window no longer is.
HashesAfter(u, body) ==
  LET more == [u.msgHashes EXCEPT ![body.hash] = @ + 1]
  IN IF Len(u.recentMsgs) < MaxRecentMessages THEN more
     ELSE [more EXCEPT ![Head(u.recentMsgs).body.hash] =
                          IF @ <= 1 THEN 0 ELSE @ - 1]

onMessage(u, ev) ==
  [touch(u, ev.at) EXCEPT
     !.burstStartIdleGap = BurstGap(u, ev.at),
     !.MsgCount = @ + 1,
     !.LastMsg = ev.at,
     !.msgHashes = HashesAfter(u, ev.body),
     !.recentUserMsg = IF ev.kind = "usermsg" /\ ev.target # NoNick
                       THEN appendTimeBounded(@, [at |-> ev.at, target |-> ev.target,
                                                  body |-> ev.body], MaxRecentMessages)
                       ELSE @,
     !.recentMentions = IF ev.kind = "chanmsg" /\ ev.body.mentions >= 3
                        THEN appendTimeBounded(@, ev.at, MaxRecentMessages) ELSE @,
     !.recentMsgs = appendTimeBounded(@, [at |-> ev.at, body |-> ev.body],
                                      MaxRecentMessages)]

onJoin(u, ev) ==
  [touch(u, ev.at) EXCEPT
     !.recentJoins = appendTimeBounded(@, ev.at, MaxRecentJoins),
     !.recentHops = appendTimeBounded(@, ev.at, MaxRecentEvents)]

onPart(u, ev) ==
  [touch(u, ev.at) EXCEPT !.recentHops = appendTimeBounded(@, ev.at, MaxRecentEvents)]

onNick(u, ev) ==
  [touch(u, ev.at) EXCEPT
     !.recentNicks = appendTimeBounded(@, ev.at, MaxRecentEvents),
     !.Nick = IF ev.nick # NoNick THEN ev.nick ELSE @]

onCTCP(u, ev) == [touch(u, ev.at) EXCEPT !.CTCPCount = @ + 1]

\* The switch on ev.Kind in Observe; a mode change leaves the user alone.
Counted(u, ev) ==
  CASE ev.kind \in Messages         -> onMessage(u, ev)
    [] ev.kind = "join"             -> onJoin(u, ev)
    [] ev.kind \in {"part", "kick"} -> onPart(u, ev)
    [] ev.kind = "ctcp"             -> onCTCP(u, ev)
    [] ev.kind = "nick"             -> onNick(u, ev)
    [] OTHER                        -> u

-----------------------------------------------------------------------------
(* Features. *)

Within(t, now) == t >= now - Minute

rateOverWindow(ts, now) == Cardinality({i \in DOMAIN ts : Within(ts[i], now)})

\* The messages of the last minute, which the text features are taken over.
messagesInWindow(ms, now) == Restrict(ms, {i \in DOMAIN ms : Within(ms[i].at, now)})

computeFeatures(u, now) ==
  [age     |-> now - u.FirstSeen,
   account |-> u.Account,
   tls     |-> u.IsTLS,
   msgs    |-> messagesInWindow(u.recentMsgs, now),
   joins   |-> rateOverWindow(u.recentJoins, now),
   ctcps   |-> u.CTCPCount,
   nicks   |-> rateOverWindow(u.recentNicks, now),
   hops    |-> rateOverWindow(u.recentHops, now)]

\* Computed when there is no cached vector; what was computed is cached.
snapshotFeatures(u, now) ==
  IF u.cachedFeatures # {} THEN CHOOSE fv \in u.cachedFeatures : TRUE
                           ELSE computeFeatures(u, now)

WithFeatures(u, now) == [u EXCEPT !.cachedFeatures = {snapshotFeatures(u, now)}]

RecentPMs(u, now) == {i \in DOMAIN u.recentUserMsg : Within(u.recentUserMsg[i].at, now)}

Sum(op(_), s) == MapThenSumSet(LAMBDA i : op(s[i].body), DOMAIN s)

snapshotFor(u, now) ==
  LET fv == snapshotFeatures(u, now)
  IN [FirstSeen      |-> u.FirstSeen,
      MsgCount       |-> u.MsgCount,
      CTCPCount      |-> u.CTCPCount,
      RecentMsgRate  |-> Cardinality(DOMAIN fv.msgs),
      RecentJoinRate |-> fv.joins,
      DupHashCount   |-> MapThenSumSet(LAMBDA h : IF u.msgHashes[h] > 1
                                                  THEN u.msgHashes[h] - 1 ELSE 0, Hashes),
      URLCount       |-> Sum(LAMBDA b : b.urls, fv.msgs),
      UpperSum       |-> Sum(LAMBDA b : b.upper, fv.msgs),
      BurstStartIdleGap |-> u.burstStartIdleGap,
      NickFlipRate   |-> rateOverWindow(u.recentNicks, now),
      HopRate        |-> rateOverWindow(u.recentHops, now),
      PMRate         |-> Cardinality(RecentPMs(u, now)),
      PMTargetCount  |-> Cardinality({u.recentUserMsg[i].target : i \in RecentPMs(u, now)}),
      MentionRate    |-> rateOverWindow(u.recentMentions, now),
      NickServSpoofs |-> Cardinality({i \in RecentPMs(u, now) :
                                        u.recentUserMsg[i].body.spoof})]

-----------------------------------------------------------------------------
(* The rules: does this one raise an alert for event ev of the user of s?  *)

Talk == {"chanmsg", "usermsg"}

floodRule(s, ev) == ev.kind \in Talk /\ s.RecentMsgRate >= Limit.flood
repeatRule(s, ev) == ev.kind \in Talk /\ s.DupHashCount >= Limit.repeat
massJoinRule(s, ev) == ev.kind = "join" /\ s.RecentJoinRate >= Limit.joins
linkSpamRule(s, ev) ==
  /\ ev.kind = "chanmsg" /\ s.URLCount > 0
  /\ ev.at - s.FirstSeen <= Limit.linkAge /\ s.MsgCount <= Limit.linkMsgs
idleBurstRule(s, ev) ==
  /\ ev.kind \in Talk /\ ev.at - s.FirstSeen >= Limit.idleAge
  /\ s.RecentMsgRate >= Limit.idleRate /\ s.BurstStartIdleGap >= Limit.idleBefore
ctcpStormRule(s, ev) == ev.kind = "ctcp" /\ s.CTCPCount >= Limit.ctcps
\* The mean share of capitals of the window's messages; 0 when there are none.
shoutingRule(s, ev) ==
  /\ ev.kind = "chanmsg" /\ s.MsgCount >= Limit.shoutMsgs
  /\ s.RecentMsgRate > 0 /\ s.UpperSum >= Limit.upper * s.RecentMsgRate
nickFlipRule(s, ev) == ev.kind = "nick" /\ s.NickFlipRate >= Limit.nicks
hopFloodRule(s, ev) == ev.kind \in {"join", "part"} /\ s.HopRate >= Limit.hops
pmFloodRule(s, ev) == ev.kind = "usermsg" /\ s.PMRate >= Limit.pms
pmShotgunRule(s, ev) == ev.kind = "usermsg" /\ s.PMTargetCount >= Limit.targets
mentionStormRule(s, ev) == ev.kind = "chanmsg" /\ s.MentionRate >= Limit.mentions
nickServSpoofRule(s, ev) == ev.kind = "usermsg" /\ s.NickServSpoofs >= 1

\* The kinds of the alerts raised.
Dispatch(s, ev) ==
  {k \in {"flood", "repeat", "mass_join", "link_spam", "idle_burst", "ctcp_storm",
          "shouting", "nick_flip", "hop_flood", "pm_flood", "pm_shotgun",
          "mention_storm", "nickserv_spoof"} :
     CASE k = "flood"          -> floodRule(s, ev)
       [] k = "repeat"         -> repeatRule(s, ev)
       [] k = "mass_join"      -> massJoinRule(s, ev)
       [] k = "link_spam"      -> linkSpamRule(s, ev)
       [] k = "idle_burst"     -> idleBurstRule(s, ev)
       [] k = "ctcp_storm"     -> ctcpStormRule(s, ev)
       [] k = "shouting"       -> shoutingRule(s, ev)
       [] k = "nick_flip"      -> nickFlipRule(s, ev)
       [] k = "hop_flood"      -> hopFloodRule(s, ev)
       [] k = "pm_flood"       -> pmFloodRule(s, ev)
       [] k = "pm_shotgun"     -> pmShotgunRule(s, ev)
       [] k = "mention_storm"  -> mentionStormRule(s, ev)
       [] k = "nickserv_spoof" -> nickServSpoofRule(s, ev)}
=============================================================================
