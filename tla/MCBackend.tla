----------------------------- MODULE MCBackend -----------------------------
EXTENDS Backend

CONSTANTS r1, r2, t1, t2, t3, a

\* The account a begins with an underscore, as if it continued the empty name.
MCLonger == {<<None, a>>}

MCClaims == [t \in Tokens |-> [account |-> IF t = t3 THEN None ELSE a, operator |-> t # t1]]
Item(e, l, s, i) == [fits |-> TRUE, ext |-> e, looks |-> l, sound |-> s, infected |-> i]
MCItems == {Item("png", "png", TRUE, FALSE), Item("mp4", "mp4", FALSE, TRUE),
            Item("png", "mp4", FALSE, FALSE)}

Uploads == {"upload", "info"}
Avatars == {"userAvatar", "channelAvatar"}
Emoji == {"createPack", "deletePack", "addEmoji", "deleteEmoji"}
MCTraffic == {Uploads, Avatars, KeyHandlers, Emoji, {"vapidKey"}}
=============================================================================
