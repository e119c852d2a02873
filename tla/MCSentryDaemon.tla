--------------------------- MODULE MCSentryDaemon ---------------------------
EXTENDS SentryDaemon, TLC
CONSTANTS u1, u2, A, B
Alike == Permutations(UIDs) \cup Permutations(Nicks)
OneHost == [u \in UIDs |-> "host"]
Msg(h, urls, upper, mentions, spoof) ==
  [hash |-> h, urls |-> urls, upper |-> upper, mentions |-> mentions, spoof |-> spoof]
OneBody == {Msg("a", 0, 0, 0, FALSE)}
TwoBodies == {Msg("a", 1, 90, 0, TRUE), Msg("b", 0, 80, 3, FALSE)}
SmallLimits ==
  [flood |-> 2, repeat |-> 1, joins |-> 2, linkAge |-> 0, linkMsgs |-> 1, idleAge |-> 1,
   idleRate |-> 1, idleBefore |-> 1, ctcps |-> 2, shoutMsgs |-> 2, upper |-> 85, nicks |-> 2,
   hops |-> 2, pms |-> 2, targets |-> 2, mentions |-> 2]
TableLimits == [SmallLimits EXCEPT !.flood = 1, !.joins = 1, !.nicks = 1, !.hops = 1, !.pms = 1,
                                   !.mentions = 1]
TableKinds == {"register", "nick", "quit", "part", "oper_kill", "oper_kline"}
WindowKinds == {"connect", "register", "nick", "join", "ctcp", "chanmsg", "usermsg", "bad"}
=============================================================================
