---------------------------- MODULE BackendProofs ----------------------------
(***************************************************************************)
(* Proofs about Backend for any number of requests, tokens, crashes and    *)
(* broken connections, and any handlers, files and rows: every invariant   *)
(* of the run holds.                                                       *)
(***************************************************************************)
EXTENDS Backend, TLAPS

-----------------------------------------------------------------------------
(* The inductive invariant. *)

Fields == {"h", "pc", "tok", "on", "body", "auth", "own", "seen", "reply"}
AvatarHandlers == {"userAvatar", "channelAvatar"}

Shape ==
  /\ DOMAIN req = Reqs
  /\ \A r \in Reqs : DOMAIN req[r] = Fields /\ req[r].auth \in BOOLEAN
  /\ file \in [Reqs -> {"none", "part", "whole", "removed", "left"}]

\* Where a request is, and what its handler has done by then.
Place(r) ==
  /\ req[r].pc = "idle" => req[r].own = None /\ req[r].reply = "none"
  /\ req[r].reply # "none" => req[r].pc = "done"
  /\ req[r].own # None => /\ req[r].h \in AvatarHandlers
                          /\ req[r].pc \in {"list", "remove", "create", "fill", "done", "cut"}
  /\ req[r].pc = "write" => req[r].h = "upload"
  /\ req[r].pc = "save" => req[r].h = "addEmoji"
  /\ req[r].pc = "pack" => req[r].body = None
  /\ OnDisk(r) => req[r].pc \in {"fill", "scan", "row", "done", "cut"}

Places == \A r \in Reqs : Place(r)

\* Requests are served while the process is up.
AtRest == proc # "up" => \A r \in Reqs : ~Running(r)

\* A token that let a request in is spent.
TokensSpent == \A r \in Reqs : req[r].auth => req[r].tok \notin unspent

\* Timers are for uploads; a complete upload is being scanned, has a timer,
\* or is left from before.
UploadFor(r) ==
  /\ r \in timers => req[r].h = "upload" /\ req[r].pc = "done"
  /\ req[r].h = "upload" /\ file[r] = "whole" =>
       req[r].pc = "scan" \/ r \in timers \/ r \in earlier
  /\ req[r].pc = "cut" => r \in earlier

UploadKept == \A r \in Reqs : UploadFor(r)

\* What a directory listing found are avatars of the names it looked for.
Listed ==
  \A r \in Reqs : req[r].pc = "remove" =>
    /\ IsAvatar(r)
    /\ \A s \in req[r].seen : s \in Reqs /\ IsAvatar(s) /\ NamedLike(req[r].own, req[s].own)

Replacing == {"remove", "create", "fill"}

\* Of two uploads for one owner that did not overlap, the later one lists,
\* then removes, the file of the earlier one before it creates its own.
Apart(r, s) ==
  /\ req[r].pc \in Replacing => req[s].pc \notin Replacing
  /\ req[r].pc = "remove" /\ OnDisk(s) => s \in req[r].seen
  /\ req[r].pc \in {"create", "fill"} => ~OnDisk(s)
  /\ OnDisk(r) => ~OnDisk(s)

AvatarsApart ==
  \A r, s \in Reqs : r # s /\ IsAvatar(r) /\ req[r].own = req[s].own =>
    {r, s} \subseteq crowded \/ Apart(r, s)

Rivals(r) == {s \in Reqs : IsAvatar(s) /\ NamedLike(req[s].own, req[r].own)}

\* s has made its file, or has yet to make it and removes nothing after that.
Holds(s) == \/ req[s].pc \in {"list", "remove", "create"}
            \/ req[s].pc = "fill" /\ file[s] = "part"
            \/ file[s] = "whole"

\* Whether all uploads that may remove the avatar of r's owner are for that
\* owner, and none has failed so far.
Undisturbed(r) ==
  \A s \in Rivals(r) : /\ req[s].own = req[r].own
                       /\ \/ req[s].reply = "ok"
                          \/ req[s].pc \in {"list", "remove", "create", "fill"}

OneHolds == \A r \in Reqs : IsAvatar(r) /\ Undisturbed(r) => \E s \in Rivals(r) : Holds(s)

\* The emoji file of a request at its row, or with a row, is complete.
EmojiKept ==
  /\ \A r \in Reqs : req[r].pc = "row" /\ req[r].body # None =>
       req[r].h = "addEmoji" /\ file[r] = "whole"
  /\ \A e \in entries : e.url # None =>
       /\ e.url \in Reqs /\ req[e.url].h = "addEmoji" /\ req[e.url].pc = "done"
       /\ file[e.url] = "whole"

\* An account is the row of a registration that got that far.
AccountKept ==
  /\ \A u \in users :
       /\ DOMAIN u = {"id", "name", "email", "pass"}
       /\ u.id # Admin => /\ u.id \in Reqs /\ req[u.id].pc \in {"verifs", "done", "cut"}
  /\ \A v \in verifs : DOMAIN v = {"user", "code", "verified"}

\* The file has the key that was given out; it is replaced only before that.
\* The process is without a key when it could not make one.
KeyKept ==
  /\ unsaved \in BOOLEAN /\ unread \in BOOLEAN
  /\ proc \in {"off", "irc", "push"} => vapid = 0
  /\ ~unsaved /\ ~unread =>
       /\ given \subseteq {keyFile.key}
       /\ keyFile.state = "whole" \/ given = {}
       /\ proc = "up" => \/ vapid = 0 /\ given = {}
                         \/ keyFile.state = "whole" /\ keyFile.key = vapid
       /\ proc = "persist" => keyFile.state # "whole"

BInv ==
  /\ Shape /\ Places /\ AtRest
  /\ TokensSpent /\ TokenOnce
  /\ InfoNeverNil
  /\ UploadKept
  /\ Listed /\ AvatarsApart /\ OneHolds
  /\ EmojiKept
  /\ AccountKept /\ RegisteredWhole
  /\ KeyKept

-----------------------------------------------------------------------------
(* What the operators that change a request do to its fields. *)

LEMMA EndedFields ==
  ASSUME NEW q, DOMAIN q = Fields, NEW pc, NEW e, e = Ended(q, pc)
  PROVE  /\ DOMAIN e = Fields
         /\ e.h = q.h /\ e.pc = pc /\ e.auth = q.auth /\ e.own = q.own /\ e.reply = q.reply
         /\ e.on = None /\ e.body = None /\ e.seen = None
         /\ q.auth => e.tok = q.tok
  BY DEF Ended, Fields

\* Only request r changes, and it keeps its handler.
Only(r) ==
  /\ DOMAIN req' = Reqs /\ DOMAIN req'[r] = Fields
  /\ req'[r].auth \in BOOLEAN /\ req'[r].h = req[r].h
  /\ \A s \in Reqs : s # r => req'[s] = req[s]

\* It goes from one place to another and keeps what it knows, or is answered.
KeepsRest(r) ==
  /\ req'[r].tok = req[r].tok /\ req'[r].on = req[r].on /\ req'[r].body = req[r].body
  /\ req'[r].auth = req[r].auth /\ req'[r].own = req[r].own /\ req'[r].seen = req[r].seen
  /\ req'[r].reply = req[r].reply

Answered(r, reply) ==
  /\ req'[r].pc = "done" /\ req'[r].reply = reply
  /\ req'[r].auth = req[r].auth /\ req'[r].own = req[r].own
  /\ req[r].auth => req'[r].tok = req[r].tok

LEMMA StepFields ==
  ASSUME Shape, NEW r \in Reqs, NEW pc, Step(r, pc)
  PROVE  Only(r) /\ KeepsRest(r) /\ req'[r].pc = pc
  BY DEF Shape, Step, Only, KeepsRest, Fields

LEMMA AnswerFields ==
  ASSUME Shape, NEW r \in Reqs, NEW reply, Answer(r, reply)
  PROVE  Only(r) /\ Answered(r, reply)
  <1>. DEFINE e == Ended(req[r], "done")
  <1>1. req' = [req EXCEPT ![r] = [e EXCEPT !.reply = reply]]
    BY DEF Answer
  <1>2. DOMAIN req[r] = Fields /\ DOMAIN req = Reqs /\ req[r].auth \in BOOLEAN
    BY DEF Shape
  <1>3. /\ DOMAIN e = Fields
        /\ e.h = req[r].h /\ e.pc = "done" /\ e.auth = req[r].auth /\ e.own = req[r].own
        /\ req[r].auth => e.tok = req[r].tok
    BY <1>2, EndedFields
  <1>. HIDE DEF e
  <1>. QED
    BY <1>1, <1>2, <1>3 DEF Only, Answered, Fields

-----------------------------------------------------------------------------
(* What the steps of a request do. *)

\* r goes from a place in P to one in Q.
Went(r, P, Q) ==
  /\ Only(r) /\ req[r].pc \in P /\ req'[r].pc \in Q
  /\ req'[r].own = req[r].own
  /\ req'[r].pc # "done" => req'[r].reply = req[r].reply
  /\ req[r].auth => req'[r].auth
  /\ req'[r].auth => req'[r].tok = req[r].tok

Moved(r, P, Q) == Went(r, P, Q) /\ req'[r].auth = req[r].auth

\* r is a new request.
Entered(r) ==
  /\ DOMAIN req' = Reqs /\ DOMAIN req'[r] = Fields
  /\ \A s \in Reqs : s # r => req'[s] = req[s]
  /\ proc = "up" /\ req[r].pc = "idle"
  /\ req'[r].auth = FALSE /\ req'[r].own = None
  /\ req'[r].pc \in {"auth", "users", "read", "sql", "check", "pack", "done"}
  /\ req'[r].pc = "pack" => req'[r].body = None
  /\ req'[r].pc # "done" => req'[r].reply = "none"

LEMMA Stepped ==
  ASSUME Shape, NEW r \in Reqs, NEW pc, Step(r, pc), NEW P, NEW Q, req[r].pc \in P, pc \in Q
  PROVE  Moved(r, P, Q)
  BY StepFields DEF Moved, Went, KeepsRest

LEMMA Ends ==
  ASSUME Shape, NEW r \in Reqs, NEW reply, Answer(r, reply), NEW P, NEW Q,
         req[r].pc \in P, "done" \in Q
  PROVE  Moved(r, P, Q)
  BY AnswerFields DEF Moved, Went, Answered

RpcFrom == {"auth", "dial", "query", "retry", "redial", "check", "ask"}
RpcTo == {"dial", "query", "retry", "redial", "body", "ask", "done"}

\* Who is let in had a token, which is spent now.
LetIn(r) == /\ unspent' \subseteq unspent
            /\ req'[r].auth => \/ req[r].auth
                               \/ req[r].tok \in unspent /\ req[r].tok \notin unspent'

LEMMA RpcFacts ==
  ASSUME Shape, NEW r \in Reqs, RpcStep(r)
  PROVE  /\ Went(r, RpcFrom, RpcTo) /\ LetIn(r)
         /\ ircConn' = "nil" => ircConn = "nil"
         /\ req'[r].pc = "ask" => ircConn' # "nil"
  <1>. DEFINE Facts == /\ Went(r, RpcFrom, RpcTo) /\ LetIn(r)
                       /\ ircConn' = "nil" => ircConn = "nil"
                       /\ req'[r].pc = "ask" => ircConn' # "nil"
  <1>1. ASSUME Moved(r, RpcFrom, RpcTo), unspent' \subseteq unspent,
               ircConn' = "nil" => ircConn = "nil",
               req'[r].pc = "ask" => ircConn' # "nil"
        PROVE  Facts
    BY <1>1 DEF Moved, LetIn
  <1>2. ASSUME NEW pc \in RpcTo, Step(r, pc), req[r].pc \in RpcFrom
        PROVE  Moved(r, RpcFrom, RpcTo) /\ req'[r].pc = pc
    BY <1>2, Stepped, StepFields
  <1>3. ASSUME NEW reply, Answer(r, reply), req[r].pc \in RpcFrom
        PROVE  Moved(r, RpcFrom, RpcTo) /\ req'[r].pc = "done"
    BY <1>3, Ends, AnswerFields DEF RpcTo, Answered
  <1>. HIDE DEF Facts
  <1>4. ASSUME Lock(r) PROVE Facts
    BY <1>1, <1>2, <1>4 DEF Lock, RpcFrom, RpcTo
  <1>12. ASSUME NEW b \in BOOLEAN, Dial(r, b) PROVE Facts
    BY <1>1, <1>2, <1>3, <1>12 DEF Dial, RpcFrom, RpcTo
  <1>5. ASSUME Query(r) PROVE Facts
    <2>1. CASE Authorized(r)
      <3>1. req' = [req EXCEPT ![r].pc = "body", ![r].auth = TRUE]
        BY <1>5, <2>1 DEF Query
      <3>2. Only(r) /\ req'[r].pc = "body" /\ req'[r].auth = TRUE
        BY <3>1 DEF Shape, Only, Fields
      <3>3. req'[r].own = req[r].own /\ req'[r].reply = req[r].reply /\ req'[r].tok = req[r].tok
        BY <3>1 DEF Shape, Fields
      <3>. QED
        BY <1>5, <2>1, <3>2, <3>3 DEF Query, Authorized, Valid, Went, LetIn, Facts, RpcFrom, RpcTo
    <2>2. CASE ~Authorized(r)
      BY <1>5, <2>2, <1>1, <1>3 DEF Query, RpcFrom
    <2>. QED
      BY <2>1, <2>2
  <1>6. ASSUME NEW b \in BOOLEAN, QueryFails(r, b) PROVE Facts
    BY <1>1, <1>2, <1>3, <1>6 DEF QueryFails, RpcFrom, RpcTo
  <1>7. ASSUME QueryRefused(r) PROVE Facts
    BY <1>1, <1>3, <1>7 DEF QueryRefused, RpcFrom
  <1>8. ASSUME NEW b \in BOOLEAN, Redial(r, b) PROVE Facts
    BY <1>1, <1>2, <1>3, <1>8 DEF Redial, RpcFrom, RpcTo
  <1>9. ASSUME InfoCheck(r) PROVE Facts
    BY <1>1, <1>2, <1>3, <1>9 DEF InfoCheck, rpcVars, RpcFrom, RpcTo
  <1>10. ASSUME NEW b \in BOOLEAN, InfoAsk(r, b) PROVE Facts
    BY <1>1, <1>3, <1>10 DEF InfoAsk, rpcVars, RpcFrom
  <1>11. Facts
    BY <1>4, <1>5, <1>6, <1>7, <1>8, <1>9, <1>10, <1>12 DEF RpcStep
  <1>. QED
    BY <1>11 DEF Facts

LEMMA ArriveFacts ==
  ASSUME Shape, NEW r \in Reqs, NEW h, NEW pc \in {"users", "read", "sql", "check", "pack"},
         NEW on, NEW body, pc = "pack" => body = None, Arrive(r, h, pc, on, body)
  PROVE  Entered(r)
  <1>. DEFINE q == NewReq(h, pc)
  <1>1. req' = [req EXCEPT ![r] = [q EXCEPT !.on = on, !.body = body]]
    BY DEF Arrive
  <1>2. DOMAIN q = Fields /\ q.pc = pc /\ q.auth = FALSE /\ q.own = None /\ q.reply = "none"
    BY DEF NewReq, Fields
  <1>3. proc = "up" /\ req[r].pc = "idle"
    BY DEF Arrive
  <1>. HIDE DEF q
  <1>. QED
    BY <1>1, <1>2, <1>3 DEF Shape, Fields, Entered

LEMMA ArriveWithTokenFacts ==
  ASSUME Shape, NEW r \in Reqs, NEW h, NEW t, NEW on, ArriveWithToken(r, h, t, on)
  PROVE  Entered(r)
  <1>. DEFINE q == NewReq(h, "auth")
  <1>1. req' = [req EXCEPT ![r] = [q EXCEPT !.tok = t, !.on = on]]
    BY DEF ArriveWithToken
  <1>2. DOMAIN q = Fields /\ q.pc = "auth" /\ q.auth = FALSE /\ q.own = None /\ q.reply = "none"
    BY DEF NewReq, Fields
  <1>3. proc = "up" /\ req[r].pc = "idle"
    BY DEF ArriveWithToken
  <1>. HIDE DEF q
  <1>. QED
    BY <1>1, <1>2, <1>3 DEF Shape, Fields, Entered

LEMMA AtOnceFacts ==
  ASSUME Shape, NEW r \in Reqs, NEW h, NEW reply, proc = "up", req[r].pc = "idle",
         req' = [req EXCEPT ![r] = [NewReq(h, "done") EXCEPT !.reply = reply]]
  PROVE  Entered(r)
  <1>. DEFINE q == NewReq(h, "done")
  <1>1. DOMAIN q = Fields /\ q.pc = "done" /\ q.auth = FALSE /\ q.own = None
    BY DEF NewReq, Fields
  <1>2. req' = [req EXCEPT ![r] = [q EXCEPT !.reply = reply]]
    OBVIOUS
  <1>. HIDE DEF q
  <1>. QED
    BY <1>1, <1>2 DEF Shape, Fields, Entered

LEMMA EnterFacts ==
  ASSUME Shape, NEW r \in Reqs, Enter(r)
  PROVE  Entered(r) /\ UNCHANGED rpcVars
  <1>1. ASSUME TokenRequest(r) PROVE Entered(r)
    BY <1>1, ArriveWithTokenFacts DEF TokenRequest
  <1>2. ASSUME AccountRequest(r) PROVE Entered(r)
    BY <1>2, ArriveFacts DEF AccountRequest
  <1>3. ASSUME OperRequest(r) PROVE Entered(r)
    BY <1>3, ArriveFacts DEF OperRequest
  <1>4. ASSUME TurnAway(r) PROVE Entered(r)
    BY <1>4, AtOnceFacts DEF TurnAway
  <1>5. UNCHANGED rpcVars
    BY DEF Enter, TokenRequest, AccountRequest, OperRequest, TurnAway, Arrive, ArriveWithToken
  <1>. QED
    BY <1>1, <1>2, <1>3, <1>4, <1>5 DEF Enter

LEMMA VapidKeyFacts ==
  ASSUME Shape, NEW r \in Reqs, handleVapidKey(r)
  PROVE  Entered(r)
  BY AtOnceFacts DEF handleVapidKey

TableFrom == {"users", "verifs", "sql", "pack", "row", "read", "stamp"}
TableTo == {"verifs", "stamp", "done"}

LEMMA TableFacts ==
  ASSUME Shape, NEW r \in Reqs, TableStep(r)
  PROVE  Moved(r, TableFrom, TableTo)
  <1>1. ASSUME NEW pc \in TableTo, Step(r, pc), req[r].pc \in TableFrom
        PROVE  Moved(r, TableFrom, TableTo)
    BY <1>1, Stepped
  <1>2. ASSUME NEW reply, Answer(r, reply), req[r].pc \in TableFrom
        PROVE  Moved(r, TableFrom, TableTo)
    BY <1>2, Ends DEF TableTo
  <1>3. ASSUME StatementFails(r) \/ RegisterUser(r) \/ RegisterCode(r) \/ LoginStamp(r)
        PROVE  Moved(r, TableFrom, TableTo)
    BY <1>1, <1>2, <1>3 DEF StatementFails, RegisterUser, RegisterCode, LoginStamp,
                            TableFrom, TableTo
  <1>4. ASSUME LoginRead(r) PROVE Moved(r, TableFrom, TableTo)
    <2>1. ASSUME NEW found, req' = [req EXCEPT ![r].pc = "stamp", ![r].seen = found],
                 req[r].pc = "read"
          PROVE  Moved(r, TableFrom, TableTo)
      BY <2>1 DEF Shape, Fields, Moved, Went, Only, TableFrom, TableTo
    <2>. QED
      BY <1>2, <1>4, <2>1 DEF LoginRead, TableFrom
  <1>5. ASSUME UpdateAccount(r) PROVE Moved(r, TableFrom, TableTo)
    BY <1>2, <1>5 DEF UpdateAccount, TableFrom
  <1>6. ASSUME NEW b \in BOOLEAN, VerifyEmail(r, b) PROVE Moved(r, TableFrom, TableTo)
    BY <1>2, <1>6 DEF VerifyEmail, TableFrom
  <1>7. ASSUME SetUserMetadata(r) \/ SetChannelMetadata(r) \/ SetChannelPermissions(r)
        PROVE  Moved(r, TableFrom, TableTo)
    BY <1>2, <1>7 DEF SetUserMetadata, SetChannelMetadata, SetChannelPermissions, Upsert, TableFrom
  <1>8. ASSUME RegisterChannel(r) \/ UpdateChannel(r) PROVE Moved(r, TableFrom, TableTo)
    BY <1>2, <1>8 DEF RegisterChannel, UpdateChannel, TableFrom
  <1>9. ASSUME CreatePack(r) \/ DeletePack(r) PROVE Moved(r, TableFrom, TableTo)
    BY <1>2, <1>9 DEF CreatePack, DeletePack, TableFrom
  <1>10. ASSUME AddEmojiRow(r) \/ DeleteEmoji(r) PROVE Moved(r, TableFrom, TableTo)
    BY <1>2, <1>10 DEF AddEmojiRow, DeleteEmoji, TableFrom
  <1>. QED
    BY <1>3, <1>4, <1>5, <1>6, <1>7, <1>8, <1>9, <1>10 DEF TableStep

LEMMA UploadBodyFacts ==
  ASSUME Shape, NEW r \in Reqs, NEW x, UploadBody(r, x)
  PROVE  Moved(r, {"body"}, {"write", "done"})
  <1>1. ASSUME req' = [req EXCEPT ![r].pc = "write", ![r].body = x], req[r].pc = "body"
        PROVE  Moved(r, {"body"}, {"write", "done"})
    BY <1>1 DEF Shape, Fields, Moved, Went, Only
  <1>. QED
    BY <1>1, Ends DEF UploadBody

LEMMA UploadWriteFacts ==
  ASSUME Shape, NEW r \in Reqs, NEW w, UploadWrite(r, w)
  PROVE  /\ Moved(r, {"write"}, {"scan", "done"})
         /\ w = "whole" => req'[r].pc = "scan"
         /\ w # "whole" => req'[r].pc = "done"
  BY Stepped, Ends, StepFields, AnswerFields DEF UploadWrite, Answered

LEMMA UploadScanFacts ==
  ASSUME Shape, NEW r \in Reqs, NEW v, NEW ok \in BOOLEAN, UploadScan(r, v, ok)
  PROVE  Moved(r, {"scan"}, {"done"})
  BY Ends DEF UploadScan

\* r has received an image and knows whose avatar it is.
Claimed(r) ==
  /\ Only(r) /\ req[r].pc = "body" /\ req'[r].pc = "list"
  /\ req'[r].reply = req[r].reply /\ req'[r].auth = req[r].auth
  /\ req[r].auth => req'[r].tok = req[r].tok

LEMMA AvatarBodyFacts ==
  ASSUME Shape, NEW r \in Reqs, NEW form, NEW sound, AvatarBody(r, form, sound)
  PROVE  Claimed(r) \/ Moved(r, {"body"}, {"done"})
  <1>. DEFINE e == Ended(req[r], "list")
              o == Owner(r, form)
  <1>1. ASSUME req' = [req EXCEPT ![r] = [e EXCEPT !.own = o]], req[r].pc = "body"
        PROVE  Claimed(r)
    <2>1. DOMAIN req[r] = Fields /\ DOMAIN req = Reqs /\ req[r].auth \in BOOLEAN
      BY DEF Shape
    <2>2. /\ DOMAIN e = Fields
          /\ e.h = req[r].h /\ e.pc = "list" /\ e.auth = req[r].auth /\ e.reply = req[r].reply
          /\ req[r].auth => e.tok = req[r].tok
      BY <2>1, EndedFields
    <2>. HIDE DEF e, o
    <2>. QED
      BY <1>1, <2>1, <2>2 DEF Claimed, Only, Fields
  <1>2. \/ req' = [req EXCEPT ![r] = [e EXCEPT !.own = o]]
        \/ Answer(r, "error")
    BY DEF AvatarBody
  <1>3. req[r].pc = "body"
    BY DEF AvatarBody
  <1>. HIDE DEF e, o
  <1>. QED
    BY <1>1, <1>2, <1>3, Ends

\* What AvatarList reads from the directory, if it can.
Listing(r, ok) ==
  {s \in Reqs : ok /\ IsAvatar(s) /\ OnDisk(s) /\ NamedLike(req[r].own, req[s].own)}

LEMMA AvatarListFacts ==
  ASSUME Shape, NEW r \in Reqs, NEW ok \in BOOLEAN, AvatarList(r, ok)
  PROVE  Moved(r, {"list"}, {"remove"}) /\ req'[r].seen = Listing(r, ok)
  <1>1. ASSUME NEW found, req' = [req EXCEPT ![r].pc = "remove", ![r].seen = found],
               req[r].pc = "list"
        PROVE  Moved(r, {"list"}, {"remove"}) /\ req'[r].seen = found
    BY <1>1 DEF Shape, Fields, Moved, Went, Only
  <1>. QED
    BY <1>1 DEF AvatarList, Listing

LEMMA AvatarRemoveFacts ==
  ASSUME Shape, NEW r \in Reqs, NEW stuck, AvatarRemove(r, stuck)
  PROVE  Moved(r, {"remove"}, {"create"})
  BY Stepped DEF AvatarRemove

LEMMA AvatarCreateFacts ==
  ASSUME Shape, NEW r \in Reqs, NEW ok \in BOOLEAN, AvatarCreate(r, ok)
  PROVE  /\ Moved(r, {"create"}, {"fill", "done"})
         /\ ok => req'[r].pc = "fill"
         /\ ~ok => req'[r].pc = "done" /\ req'[r].reply = "error"
  BY Stepped, Ends, StepFields, AnswerFields DEF AvatarCreate, Answered

LEMMA AvatarFillFacts ==
  ASSUME Shape, NEW r \in Reqs, NEW ok \in BOOLEAN, AvatarFill(r, ok)
  PROVE  /\ Moved(r, {"fill"}, {"done"})
         /\ req'[r].reply = IF ok THEN "ok" ELSE "error"
  BY Ends, AnswerFields DEF AvatarFill, Answered

LEMMA AddEmojiPackFacts ==
  ASSUME Shape, NEW r \in Reqs, NEW x, AddEmojiPack(r, x)
  PROVE  /\ Moved(r, {"pack"}, {"row", "save", "done"})
         /\ req'[r].pc = "row" => req'[r].body = req[r].body
  <1>1. ASSUME req' = [req EXCEPT ![r].pc = "save", ![r].body = "file"], req[r].pc = "pack"
        PROVE  Moved(r, {"pack"}, {"row", "save", "done"}) /\ req'[r].pc = "save"
    BY <1>1 DEF Shape, Fields, Moved, Went, Only
  <1>2. ASSUME Step(r, "row"), req[r].pc = "pack"
        PROVE  Moved(r, {"pack"}, {"row", "save", "done"}) /\ req'[r].body = req[r].body
    BY <1>2, Stepped, StepFields DEF KeepsRest
  <1>3. ASSUME Answer(r, "error"), req[r].pc = "pack"
        PROVE  Moved(r, {"pack"}, {"row", "save", "done"}) /\ req'[r].pc = "done"
    BY <1>3, Ends, AnswerFields DEF Answered
  <1>. QED
    BY <1>1, <1>2, <1>3 DEF AddEmojiPack

LEMMA AddEmojiSaveFacts ==
  ASSUME Shape, NEW r \in Reqs, NEW w, AddEmojiSave(r, w)
  PROVE  /\ Moved(r, {"save"}, {"row", "done"})
         /\ w = "whole" => req'[r].pc = "row"
         /\ w # "whole" => req'[r].pc = "done"
  BY Stepped, Ends, StepFields, AnswerFields DEF AddEmojiSave, Answered

\* A timer fires for a request that has ended: its file goes, or is left.
LEMMA ExpireFacts ==
  ASSUME UploadKept, NEW r \in Reqs, Expire(r)
  PROVE  /\ req[r].h = "upload" /\ req[r].pc = "done"
         /\ UNCHANGED <<req, crowded, earlier, entries>> /\ timers' = timers \ {r}
         /\ \E left \in {"removed", "left"} : file' = [file EXCEPT ![r] = left]
  BY DEF Expire, TimerFires, Unlinked, Makes, UploadKept, UploadFor, lifeVars, tableVars

\* The process dies: what runs is cut short and known as before.
LEMMA CrashFacts ==
  ASSUME Shape, Crash
  PROVE  /\ DOMAIN req' = Reqs
         /\ \A r \in Reqs :
              /\ DOMAIN req'[r] = Fields
              /\ req'[r].h = req[r].h /\ req'[r].own = req[r].own
              /\ req'[r].auth = req[r].auth /\ req'[r].reply = req[r].reply
              /\ req[r].auth => req'[r].tok = req[r].tok
              /\ Running(r) => req'[r].pc = "cut"
              /\ ~Running(r) => req'[r] = req[r]
  <1>1. req' = [r \in Reqs |-> IF Running(r) THEN Ended(req[r], "cut") ELSE req[r]]
    BY DEF Crash
  <1>2. ASSUME NEW r \in Reqs, ~Running(r) PROVE req'[r] = req[r] /\ DOMAIN req'[r] = Fields
    BY <1>1, <1>2 DEF Shape
  <1>3. ASSUME NEW r \in Reqs, Running(r)
        PROVE  /\ DOMAIN req'[r] = Fields
               /\ req'[r].h = req[r].h /\ req'[r].own = req[r].own
               /\ req'[r].auth = req[r].auth /\ req'[r].reply = req[r].reply
               /\ req[r].auth => req'[r].tok = req[r].tok
               /\ req'[r].pc = "cut"
    <2>1. req'[r] = Ended(req[r], "cut") /\ DOMAIN req[r] = Fields
      BY <1>1, <1>3 DEF Shape
    <2>. QED
      BY <2>1, EndedFields
  <1>4. DOMAIN req' = Reqs
    BY <1>1
  <1>. QED
    BY <1>2, <1>3, <1>4

-----------------------------------------------------------------------------
(* Shape and Places. *)

FileStates == {"none", "part", "whole", "removed", "left"}

LEMMA PlacesKept ==
  ASSUME Shape, Places, NEW r \in Reqs, DOMAIN req' = Reqs,
         DOMAIN req'[r] = Fields, req'[r].auth \in BOOLEAN,
         \A s \in Reqs : s # r => req'[s] = req[s],
         file' \in [Reqs -> FileStates],
         \A s \in Reqs : s # r => file'[s] \in {file[s], "removed"},
         Place(r)'
  PROVE  Shape' /\ Places'
  <1>1. Shape'
    BY DEF Shape, FileStates
  <1>2. ASSUME NEW s \in Reqs, s # r PROVE Place(s)'
    BY <1>2 DEF Places, Place, OnDisk
  <1>. QED
    BY <1>1, <1>2 DEF Places

LEMMA PlacesIdle ==
  ASSUME Shape, Places, UNCHANGED <<req, file>>
  PROVE  Shape' /\ Places'
  BY DEF Shape, Places, Place, OnDisk

LEMMA PlacesEntered ==
  ASSUME Shape, Places, NEW r \in Reqs, Entered(r), UNCHANGED file
  PROVE  Shape' /\ Places'
  <1>1. Place(r)'
    BY DEF Places, Place, OnDisk, Entered
  <1>. QED
    BY <1>1, PlacesKept DEF Entered, Shape, FileStates

\* Moves that touch no file.
LEMMA PlacesMoved ==
  ASSUME Shape, Places, NEW r \in Reqs, NEW P, NEW Q, Went(r, P, Q), UNCHANGED file,
         P \cap {"idle", "done", "cut", "list", "remove", "create", "fill"} = {},
         Q \cap {"idle", "cut", "save", "pack"} = {},
         req'[r].pc = "write" => req[r].h = "upload",
         OnDisk(r) => req'[r].pc \in {"row", "done"}
  PROVE  Shape' /\ Places'
  <1>1. Place(r)'
    BY DEF Places, Place, OnDisk, Went, Only
  <1>. QED
    BY <1>1, PlacesKept DEF Went, Only, Shape, FileStates

LEMMA PlacesFile ==
  ASSUME Shape, Places, NEW r \in Reqs, FileStep(r)
  PROVE  Shape' /\ Places'
  <1>. USE DEF FileStates
  <1>1. ASSUME NEW x \in Items, UploadBody(r, x) PROVE Shape' /\ Places'
    <2>1. Place(r)'
      BY <1>1, UploadBodyFacts DEF UploadBody, fileVars, Places, Place, OnDisk, Moved, Went, Only
    <2>. QED
      BY <1>1, <2>1, UploadBodyFacts, PlacesKept DEF UploadBody, fileVars, Moved, Went, Only, Shape
  <1>2. ASSUME NEW w \in {"none", "part", "whole"}, UploadWrite(r, w) PROVE Shape' /\ Places'
    <2>1. Place(r)'
      BY <1>2, UploadWriteFacts DEF UploadWrite, Makes, Places, Place, OnDisk, Moved, Went, Only, Shape
    <2>. QED
      BY <1>2, <2>1, UploadWriteFacts, PlacesKept DEF UploadWrite, Makes, Moved, Went, Only, Shape
  <1>3. ASSUME NEW v, NEW ok \in BOOLEAN, UploadScan(r, v, ok) PROVE Shape' /\ Places'
    <2>1. Place(r)'
      BY <1>3, UploadScanFacts
         DEF UploadScan, Unlinked, Makes, fileVars, Places, Place, OnDisk, Moved, Went, Only, Shape
    <2>. QED
      BY <1>3, <2>1, UploadScanFacts, PlacesKept
         DEF UploadScan, Unlinked, Makes, fileVars, Moved, Went, Only, Shape
  <1>4. ASSUME NEW form, NEW sound, AvatarBody(r, form, sound) PROVE Shape' /\ Places'
    <2>1. Place(r)'
      BY <1>4, AvatarBodyFacts
         DEF AvatarBody, AvatarHandlers, fileVars, Places, Place, OnDisk, Moved, Went, Only, Claimed
    <2>. QED
      BY <1>4, <2>1, AvatarBodyFacts, PlacesKept
         DEF AvatarBody, fileVars, Moved, Went, Only, Claimed, Shape
  <1>5. ASSUME NEW ok \in BOOLEAN, AvatarList(r, ok) PROVE Shape' /\ Places'
    <2>1. Place(r)'
      BY <1>5, AvatarListFacts DEF AvatarList, Places, Place, OnDisk, Moved, Went, Only
    <2>2. UNCHANGED file
      BY <1>5 DEF AvatarList
    <2>. QED
      BY <1>5, <2>1, <2>2, AvatarListFacts, PlacesKept DEF Moved, Went, Only, Shape
  <1>6. ASSUME NEW stuck, AvatarRemove(r, stuck) PROVE Shape' /\ Places'
    <2>1. Place(r)'
      BY <1>6, AvatarRemoveFacts DEF AvatarRemove, Places, Place, OnDisk, Moved, Went, Only
    <2>2. file' \in [Reqs -> FileStates] /\ \A s \in Reqs : file'[s] \in {file[s], "removed"}
      BY <1>6 DEF AvatarRemove, Shape
    <2>. QED
      BY <1>6, <2>1, <2>2, AvatarRemoveFacts, PlacesKept DEF Moved, Went, Only, Shape
  <1>7. ASSUME NEW ok \in BOOLEAN, AvatarCreate(r, ok) PROVE Shape' /\ Places'
    <2>1. Place(r)'
      BY <1>7, AvatarCreateFacts
         DEF AvatarCreate, Makes, Places, Place, OnDisk, Moved, Went, Only, Shape
    <2>. QED
      BY <1>7, <2>1, AvatarCreateFacts, PlacesKept DEF AvatarCreate, Makes, Moved, Went, Only, Shape
  <1>8. ASSUME NEW ok \in BOOLEAN, AvatarFill(r, ok) PROVE Shape' /\ Places'
    <2>1. Place(r)'
      BY <1>8, AvatarFillFacts
         DEF AvatarFill, Makes, Places, Place, OnDisk, Moved, Went, Only, Shape
    <2>. QED
      BY <1>8, <2>1, AvatarFillFacts, PlacesKept
         DEF AvatarFill, Makes, OnDisk, Moved, Went, Only, Shape
  <1>. QED
    BY <1>1, <1>2, <1>3, <1>4, <1>5, <1>6, <1>7, <1>8
       DEF FileStep, uploadHandler, uploadUserAvatarHandler, uploadChannelAvatarHandler, AvatarSteps

LEMMA PlacesEmoji ==
  ASSUME Shape, Places, NEW r \in Reqs, EmojiStep(r)
  PROVE  Shape' /\ Places'
  <1>1. ASSUME NEW x, AddEmojiPack(r, x) PROVE Shape' /\ Places'
    <2>1. Place(r)'
      BY <1>1, AddEmojiPackFacts DEF AddEmojiPack, fileVars, Places, Place, OnDisk, Moved, Went, Only
    <2>. QED
      BY <1>1, <2>1, AddEmojiPackFacts, PlacesKept
         DEF AddEmojiPack, fileVars, Moved, Went, Only, Shape, FileStates
  <1>2. ASSUME NEW w \in {"none", "part", "whole"}, AddEmojiSave(r, w) PROVE Shape' /\ Places'
    <2>1. Place(r)'
      BY <1>2, AddEmojiSaveFacts
         DEF AddEmojiSave, Makes, Places, Place, OnDisk, Moved, Went, Only, Shape
    <2>. QED
      BY <1>2, <2>1, AddEmojiSaveFacts, PlacesKept
         DEF AddEmojiSave, Makes, Moved, Went, Only, Shape, FileStates
  <1>. QED
    BY <1>1, <1>2 DEF EmojiStep

LEMMA PlacesCrash ==
  ASSUME Shape, Places, Crash
  PROVE  Shape' /\ Places'
  <1>1. PICK torn \in SUBSET {r \in Reqs : req[r].pc \in {"write", "save"}} :
          file' = [r \in Reqs |-> IF r \in torn THEN "part" ELSE file[r]]
    BY DEF Crash
  <1>2. Shape'
    BY <1>1, CrashFacts DEF Shape
  <1>3. ASSUME NEW r \in Reqs PROVE Place(r)'
    BY <1>1, CrashFacts DEF Places, Place, OnDisk, Running
  <1>. QED
    BY <1>2, <1>3 DEF Places

LEMMA PlacesStep ==
  ASSUME Shape, Places, UploadKept, [Next]_vars
  PROVE  Shape' /\ Places'
  <1>1. CASE UNCHANGED <<req, file>>
    BY <1>1, PlacesIdle
  <1>2. ASSUME NEW r \in Reqs, Enter(r) \/ handleVapidKey(r) PROVE Shape' /\ Places'
    BY <1>2, EnterFacts, VapidKeyFacts, PlacesEntered DEF Enter, handleVapidKey, fileVars
  <1>3. ASSUME NEW r \in Reqs, RpcStep(r) PROVE Shape' /\ Places'
    <2>1. OnDisk(r) => FALSE
      BY <1>3, RpcFacts DEF Places, Place, Went, RpcFrom
    <2>. QED
      BY <1>3, <2>1, RpcFacts, PlacesMoved DEF RpcStep, fileVars, RpcFrom, RpcTo, Went
  <1>4. ASSUME NEW r \in Reqs, TableStep(r) PROVE Shape' /\ Places'
    <2>1. req[r].pc = "row" => req'[r].pc = "done"
      BY <1>4, AnswerFields
         DEF TableStep, StatementFails, RegisterUser, RegisterCode, LoginRead, LoginStamp,
             UpdateAccount, VerifyEmail, SetUserMetadata, SetChannelMetadata,
             SetChannelPermissions, Upsert, RegisterChannel, UpdateChannel, CreatePack,
             DeletePack, AddEmojiRow, DeleteEmoji, Answered
    <2>2. OnDisk(r) => req'[r].pc = "done"
      BY <1>4, <2>1, TableFacts DEF Places, Place, Moved, Went, TableFrom
    <2>. QED
      BY <1>4, <2>2, TableFacts, PlacesMoved DEF TableStep, fileVars, TableFrom, TableTo, Moved, Went
  <1>5. ASSUME NEW r \in Reqs, Expire(r) PROVE Shape' /\ Places'
    <2>1. PICK left \in {"removed", "left"} : UNCHANGED req /\ file' = [file EXCEPT ![r] = left]
      BY <1>5, ExpireFacts
    <2>2. Place(r)'
      BY <1>5, <2>1, ExpireFacts DEF Places, Place, OnDisk, Shape
    <2>. QED
      BY <2>1, <2>2, PlacesKept DEF Shape, FileStates
  <1>. QED
    BY <1>1, <1>2, <1>3, <1>4, <1>5, PlacesFile, PlacesEmoji, PlacesCrash
       DEF Next, Serve, vars, BootDB, BootIrc, BootPush, BootPersist, LinkLoss, LinkLost, fileVars

-----------------------------------------------------------------------------
(* AtRest, TokensSpent, TokenOnce, InfoNeverNil and KeyKept. *)

\* Once a request is in, its steps do not concern its token or the connection.
LEMMA WorkFacts ==
  ASSUME Shape, NEW r \in Reqs, FileStep(r) \/ TableStep(r) \/ EmojiStep(r)
  PROVE  /\ Only(r) /\ Running(r) /\ req'[r].pc # "ask" /\ req'[r].pc # "idle"
         /\ req'[r].auth = req[r].auth
         /\ req[r].auth => req'[r].tok = req[r].tok
         /\ UNCHANGED <<proc, rpcVars, keyVars, lifeVars>>
  <1>. DEFINE Facts == /\ Only(r) /\ Running(r) /\ req'[r].pc # "ask" /\ req'[r].pc # "idle"
                       /\ req'[r].auth = req[r].auth
                       /\ req[r].auth => req'[r].tok = req[r].tok
  <1>1. ASSUME NEW P, NEW Q, Moved(r, P, Q), P \cap {"idle", "done", "cut"} = {},
               Q \cap {"ask", "idle"} = {}
        PROVE  Facts
    BY <1>1 DEF Moved, Went, Running
  <1>2. ASSUME Claimed(r) PROVE Facts
    BY <1>2 DEF Claimed, Running
  <1>. HIDE DEF Facts
  <1>3. ASSUME NEW x, UploadBody(r, x) PROVE Facts
    BY <1>1, <1>3, UploadBodyFacts
  <1>4. ASSUME NEW w, UploadWrite(r, w) PROVE Facts
    BY <1>1, <1>4, UploadWriteFacts
  <1>5. ASSUME NEW v, NEW ok \in BOOLEAN, UploadScan(r, v, ok) PROVE Facts
    BY <1>1, <1>5, UploadScanFacts
  <1>6. ASSUME NEW f, NEW b, AvatarBody(r, f, b) PROVE Facts
    BY <1>1, <1>2, <1>6, AvatarBodyFacts
  <1>7. ASSUME NEW ok \in BOOLEAN, AvatarList(r, ok) PROVE Facts
    BY <1>1, <1>7, AvatarListFacts
  <1>8. ASSUME NEW stuck, AvatarRemove(r, stuck) PROVE Facts
    BY <1>1, <1>8, AvatarRemoveFacts
  <1>9. ASSUME NEW ok \in BOOLEAN, AvatarCreate(r, ok) PROVE Facts
    BY <1>1, <1>9, AvatarCreateFacts
  <1>10. ASSUME NEW ok \in BOOLEAN, AvatarFill(r, ok) PROVE Facts
    BY <1>1, <1>10, AvatarFillFacts
  <1>11. ASSUME TableStep(r) PROVE Facts
    BY <1>1, <1>11, TableFacts DEF TableFrom, TableTo
  <1>12. ASSUME NEW x, AddEmojiPack(r, x) PROVE Facts
    BY <1>1, <1>12, AddEmojiPackFacts
  <1>13. ASSUME NEW w, AddEmojiSave(r, w) PROVE Facts
    BY <1>1, <1>13, AddEmojiSaveFacts
  <1>14. ASSUME FileStep(r) PROVE Facts
    BY <1>3, <1>4, <1>5, <1>6, <1>7, <1>8, <1>9, <1>10, <1>14
       DEF FileStep, uploadHandler, uploadUserAvatarHandler, uploadChannelAvatarHandler, AvatarSteps
  <1>15. Facts
    BY <1>11, <1>12, <1>13, <1>14 DEF EmojiStep
  <1>16. UNCHANGED <<proc, rpcVars, keyVars, lifeVars>>
    BY DEF FileStep, TableStep, EmojiStep
  <1>. QED
    BY <1>15, <1>16 DEF Facts

LEMMA AtRestStep ==
  ASSUME Shape, AtRest, [Next]_vars
  PROVE  AtRest'
  <1>. USE DEF AtRest
  <1>1. CASE Crash
    BY <1>1, CrashFacts DEF Running
  <1>2. CASE BootDB \/ (\E b \in BOOLEAN : BootIrc(b)) \/ LinkLoss \/ UNCHANGED vars
    BY <1>2 DEF BootDB, BootIrc, LinkLoss, LinkLost, vars, Running
  <1>3. CASE (\E a, b \in BOOLEAN : BootPush(a, b)) \/ \E b \in BOOLEAN : BootPersist(b)
    BY <1>3 DEF BootPush, BootPersist, Running
  <1>4. ASSUME NEW r \in Reqs, Enter(r) \/ handleVapidKey(r) PROVE AtRest'
    BY <1>4, EnterFacts, VapidKeyFacts DEF Entered, Enter, handleVapidKey
  <1>5. ASSUME NEW r \in Reqs, Running(r), UNCHANGED proc PROVE AtRest'
    BY <1>5
  <1>6. ASSUME NEW r \in Reqs, RpcStep(r) PROVE AtRest'
    BY <1>5, <1>6, RpcFacts DEF RpcStep, Went, RpcFrom, Running
  <1>7. ASSUME NEW r \in Reqs, FileStep(r) \/ TableStep(r) \/ EmojiStep(r) PROVE AtRest'
    BY <1>5, <1>7, WorkFacts
  <1>8. ASSUME NEW r \in Reqs, Expire(r) PROVE AtRest'
    BY <1>8 DEF Expire, TimerFires
  <1>. QED
    BY <1>1, <1>2, <1>3, <1>4, <1>6, <1>7, <1>8 DEF Next, Serve

LEMMA TokensStep ==
  ASSUME Shape, TokensSpent, TokenOnce, [Next]_vars
  PROVE  TokensSpent' /\ TokenOnce'
  <1>. USE DEF TokensSpent, TokenOnce
  <1>1. CASE Crash
    BY <1>1, CrashFacts DEF Crash, Shape
  <1>2. CASE UNCHANGED <<req, unspent>>
    BY <1>2
  <1>3. ASSUME NEW r \in Reqs, Entered(r), UNCHANGED unspent PROVE TokensSpent' /\ TokenOnce'
    BY <1>3 DEF Entered
  <1>4. ASSUME NEW r \in Reqs, RpcStep(r) PROVE TokensSpent' /\ TokenOnce'
    <2>1. \A s \in Reqs : s # r => req'[s] = req[s]
      BY <1>4, RpcFacts DEF Went, Only
    <2>2. unspent' \subseteq unspent
      BY <1>4, RpcFacts DEF LetIn
    <2>3. req'[r].auth => /\ req'[r].tok = req[r].tok
                          /\ \/ req[r].auth
                             \/ req[r].tok \in unspent /\ req[r].tok \notin unspent'
      BY <1>4, RpcFacts DEF LetIn, Went
    <2>. QED
      BY <2>1, <2>2, <2>3
  <1>5. ASSUME NEW r \in Reqs, FileStep(r) \/ TableStep(r) \/ EmojiStep(r)
        PROVE  TokensSpent' /\ TokenOnce'
    BY <1>5, WorkFacts DEF Only, rpcVars
  <1>. QED
    BY <1>1, <1>2, <1>3, <1>4, <1>5, EnterFacts, VapidKeyFacts
       DEF Next, Serve, vars, BootDB, BootIrc, BootPush, BootPersist, LinkLoss, LinkLost,
           handleVapidKey, Expire, TimerFires, rpcVars

LEMMA NeverNilStep ==
  ASSUME Shape, AtRest, InfoNeverNil, [Next]_vars
  PROVE  InfoNeverNil'
  <1>. USE DEF InfoNeverNil
  <1>1. CASE Crash
    BY <1>1, CrashFacts DEF Running
  <1>2. ASSUME NEW b \in BOOLEAN, BootIrc(b) PROVE InfoNeverNil'
    BY <1>2 DEF BootIrc, AtRest, Running
  <1>3. CASE UNCHANGED <<req, ircConn>>
    BY <1>3
  <1>4. CASE LinkLoss
    BY <1>4 DEF LinkLoss, LinkLost
  <1>5. ASSUME NEW r \in Reqs, Entered(r), UNCHANGED ircConn PROVE InfoNeverNil'
    BY <1>5 DEF Entered
  <1>6. ASSUME NEW r \in Reqs, RpcStep(r) PROVE InfoNeverNil'
    BY <1>6, RpcFacts DEF Went, Only
  <1>7. ASSUME NEW r \in Reqs, FileStep(r) \/ TableStep(r) \/ EmojiStep(r) PROVE InfoNeverNil'
    BY <1>7, WorkFacts DEF Only, rpcVars
  <1>. QED
    BY <1>1, <1>2, <1>3, <1>4, <1>5, <1>6, <1>7, EnterFacts, VapidKeyFacts
       DEF Next, Serve, vars, BootDB, BootPush, BootPersist, handleVapidKey, Expire,
           TimerFires, rpcVars

LEMMA KeyStep ==
  ASSUME KeyKept, [Next]_vars
  PROVE  KeyKept'
  <1>. USE DEF KeyKept
  <1>1. CASE Crash
    <2>1. keyFile' = keyFile \/ (proc = "persist" /\ keyFile'.state = "torn")
      BY <1>1 DEF Crash
    <2>. QED
      BY <1>1, <2>1 DEF Crash
  <1>2. ASSUME NEW reads \in BOOLEAN, NEW makes \in BOOLEAN, BootPush(reads, makes) PROVE KeyKept'
    <2>1. UNCHANGED <<keyFile, given, unsaved>>
      BY <1>2 DEF BootPush
    <2>2. CASE vapid' \in Stored /\ proc' = "up" /\ UNCHANGED unread
      BY <2>1, <2>2 DEF Stored
    <2>3. CASE /\ unread' = (unread \/ Stored # {})
               /\ proc' = "persist" \/ (proc' = "up" /\ vapid' = vapid)
      <3>1. unread' \in BOOLEAN
        BY <2>3
      <3>2. ~unread' => ~unread /\ keyFile.state # "whole"
        BY <2>3 DEF Stored
      <3>. QED
        BY <1>2, <2>1, <2>3, <3>1, <3>2 DEF BootPush
    <2>. QED
      BY <1>2, <2>2, <2>3 DEF BootPush
  <1>3. ASSUME NEW ok \in BOOLEAN, BootPersist(ok) PROVE KeyKept'
    <2>1. CASE ~ok
      <3>1. unsaved' = TRUE /\ UNCHANGED unread /\ proc' = "up"
        BY <1>3, <2>1 DEF BootPersist
      <3>. QED
        BY <3>1
    <2>2. CASE ok
      <3>1. /\ unsaved' \in BOOLEAN /\ (~unsaved' => ~unsaved)
            /\ UNCHANGED <<vapid, given, unread>>
        BY <1>3, <2>2 DEF BootPersist
      <3>2. /\ proc = "persist" /\ proc' = "up"
            /\ keyFile' = [state |-> "whole", key |-> vapid]
        BY <1>3, <2>2 DEF BootPersist
      <3>. QED
        BY <3>1, <3>2
    <2>. QED
      BY <2>1, <2>2
  <1>4. ASSUME NEW r \in Reqs, handleVapidKey(r) PROVE KeyKept'
    BY <1>4 DEF handleVapidKey
  <1>5. ASSUME UNCHANGED keyVars,
               \/ proc' = proc
               \/ proc \in {"off", "irc"} /\ proc' \in {"irc", "push"}
        PROVE  KeyKept'
    BY <1>5 DEF keyVars
  <1>. QED
    BY <1>1, <1>2, <1>3, <1>4, <1>5
       DEF Next, Serve, vars, BootDB, BootIrc, LinkLoss, Enter, RpcStep, FileStep, TableStep,
           EmojiStep, Expire

-----------------------------------------------------------------------------
(* UploadKept. *)

LEMMA UploadsFrame ==
  ASSUME UploadKept, NEW r \in Reqs, UNCHANGED earlier,
         \A s \in Reqs : s # r => /\ req'[s] = req[s] /\ file'[s] \in {file[s], "removed"}
                                  /\ s \in timers' <=> s \in timers,
         UploadFor(r)'
  PROVE  UploadKept'
  <1>1. ASSUME NEW s \in Reqs, s # r PROVE UploadFor(s)'
    BY <1>1 DEF UploadKept, UploadFor
  <1>. QED
    BY <1>1 DEF UploadKept

\* Moves of a request that has neither a timer nor a complete upload.
LEMMA UploadsMoved ==
  ASSUME UploadKept, NEW r \in Reqs, NEW P, NEW Q, Went(r, P, Q),
         P \cap {"idle", "scan", "done", "cut"} = {}, "cut" \notin Q,
         UNCHANGED <<file, timers, earlier>>
  PROVE  UploadKept'
  <1>1. UploadFor(r)'
    BY DEF UploadKept, UploadFor, Went, Only
  <1>. QED
    BY <1>1, UploadsFrame DEF Went, Only

\* Moves of other requests than uploads.
LEMMA UploadsOthers ==
  ASSUME UploadKept, NEW r \in Reqs, Only(r), req[r].h # "upload", req'[r].pc # "cut",
         \A s \in Reqs : s # r => file'[s] \in {file[s], "removed"},
         UNCHANGED <<timers, earlier>>
  PROVE  UploadKept'
  <1>1. UploadFor(r)'
    BY DEF UploadKept, UploadFor, Only
  <1>. QED
    BY <1>1, UploadsFrame DEF Only

LEMMA UploadsUpload ==
  ASSUME Shape, UploadKept, NEW r \in Reqs, uploadHandler(r), UNCHANGED earlier
  PROVE  UploadKept'
  <1>1. ASSUME NEW x \in Items, UploadBody(r, x) PROVE UploadKept'
    BY <1>1, UploadBodyFacts, UploadsMoved DEF UploadBody, fileVars, Moved
  <1>2. ASSUME NEW w \in {"none", "part", "whole"}, UploadWrite(r, w) PROVE UploadKept'
    <2>1. UploadFor(r)'
      BY <1>2, UploadWriteFacts DEF UploadWrite, Makes, UploadKept, UploadFor, Moved, Went, Only, Shape
    <2>. QED
      BY <1>2, <2>1, UploadWriteFacts, UploadsFrame DEF UploadWrite, Makes, Moved, Went, Only, Shape
  <1>3. ASSUME NEW v, NEW ok \in BOOLEAN, UploadScan(r, v, ok) PROVE UploadKept'
    <2>1. UploadFor(r)'
      BY <1>3, UploadScanFacts
         DEF UploadScan, Unlinked, Makes, fileVars, UploadKept, UploadFor, Moved, Went, Only, Shape
    <2>. QED
      BY <1>3, <2>1, UploadScanFacts, UploadsFrame
         DEF UploadScan, Unlinked, Makes, fileVars, Moved, Went, Only, Shape
  <1>. QED
    BY <1>1, <1>2, <1>3 DEF uploadHandler

LEMMA UploadsAvatar ==
  ASSUME Shape, UploadKept, NEW r \in Reqs, req[r].h \in AvatarHandlers, AvatarSteps(r),
         UNCHANGED earlier
  PROVE  UploadKept'
  <1>. USE DEF AvatarHandlers
  <1>1. ASSUME NEW form, NEW sound, AvatarBody(r, form, sound) PROVE UploadKept'
    BY <1>1, AvatarBodyFacts, UploadsOthers DEF AvatarBody, fileVars, Claimed, Moved, Went
  <1>2. ASSUME NEW ok \in BOOLEAN, AvatarList(r, ok) PROVE UploadKept'
    BY <1>2, AvatarListFacts, UploadsOthers DEF AvatarList, Moved, Went
  <1>3. ASSUME NEW stuck, AvatarRemove(r, stuck) PROVE UploadKept'
    BY <1>3, AvatarRemoveFacts, UploadsOthers DEF AvatarRemove, Moved, Went
  <1>4. ASSUME NEW ok \in BOOLEAN, AvatarCreate(r, ok) PROVE UploadKept'
    BY <1>4, AvatarCreateFacts, UploadsOthers DEF AvatarCreate, Makes, Moved, Went, Shape
  <1>5. ASSUME NEW ok \in BOOLEAN, AvatarFill(r, ok) PROVE UploadKept'
    BY <1>5, AvatarFillFacts, UploadsOthers DEF AvatarFill, Makes, Moved, Went, Shape
  <1>. QED
    BY <1>1, <1>2, <1>3, <1>4, <1>5 DEF AvatarSteps

LEMMA UploadsEmoji ==
  ASSUME Shape, UploadKept, NEW r \in Reqs, EmojiStep(r)
  PROVE  UploadKept'
  <1>1. ASSUME NEW x, AddEmojiPack(r, x) PROVE UploadKept'
    BY <1>1, AddEmojiPackFacts, UploadsOthers DEF AddEmojiPack, fileVars, EmojiStep, lifeVars, Moved, Went
  <1>2. ASSUME NEW w, AddEmojiSave(r, w) PROVE UploadKept'
    BY <1>2, AddEmojiSaveFacts, UploadsOthers
       DEF AddEmojiSave, Makes, EmojiStep, lifeVars, Moved, Went, Shape
  <1>. QED
    BY <1>1, <1>2 DEF EmojiStep

LEMMA UploadsStep ==
  ASSUME Shape, Places, UploadKept, [Next]_vars
  PROVE  UploadKept'
  <1>1. CASE UNCHANGED <<req, file, timers, earlier>>
    BY <1>1 DEF UploadKept, UploadFor
  <1>2. ASSUME NEW r \in Reqs, Entered(r), UNCHANGED <<file, timers, earlier>> PROVE UploadKept'
    <2>1. UploadFor(r)'
      BY <1>2 DEF UploadKept, UploadFor, Places, Place, OnDisk, Entered
    <2>. QED
      BY <1>2, <2>1, UploadsFrame DEF Entered
  <1>3. ASSUME NEW r \in Reqs, RpcStep(r) PROVE UploadKept'
    BY <1>3, RpcFacts, UploadsMoved DEF RpcStep, fileVars, lifeVars, RpcFrom, RpcTo
  <1>4. ASSUME NEW r \in Reqs, FileStep(r) PROVE UploadKept'
    BY <1>4, UploadsUpload, UploadsAvatar
       DEF FileStep, uploadUserAvatarHandler, uploadChannelAvatarHandler, AvatarHandlers, lifeVars
  <1>5. ASSUME NEW r \in Reqs, TableStep(r) PROVE UploadKept'
    BY <1>5, TableFacts, UploadsMoved DEF TableStep, fileVars, lifeVars, TableFrom, TableTo, Moved
  <1>6. ASSUME NEW r \in Reqs, Expire(r) PROVE UploadKept'
    <2>1. PICK left \in {"removed", "left"} :
            /\ UNCHANGED <<req, earlier>> /\ file' = [file EXCEPT ![r] = left]
            /\ timers' = timers \ {r}
      BY <1>6, ExpireFacts
    <2>2. UploadFor(r)'
      BY <2>1 DEF UploadKept, UploadFor, Shape
    <2>. QED
      BY <2>1, <2>2, UploadsFrame DEF Shape
  <1>7. CASE Crash
    <2>1. PICK torn \in SUBSET {r \in Reqs : req[r].pc \in {"write", "save"}} :
            file' = [r \in Reqs |-> IF r \in torn THEN "part" ELSE file[r]]
      BY <1>7 DEF Crash
    <2>2. timers' = {} /\ earlier' = {r \in Reqs : req[r].pc # "idle"}
      BY <1>7 DEF Crash
    <2>3. ASSUME NEW r \in Reqs PROVE UploadFor(r)'
      BY <1>7, <2>1, <2>2, CrashFacts DEF UploadFor, Places, Place, OnDisk, Running
    <2>. QED
      BY <2>3 DEF UploadKept
  <1>. QED
    BY <1>1, <1>2, <1>3, <1>4, <1>5, <1>6, <1>7, UploadsEmoji, EnterFacts, VapidKeyFacts
       DEF Next, Serve, vars, BootDB, BootIrc, BootPush, BootPersist, LinkLoss, LinkLost,
           Enter, handleVapidKey, fileVars, lifeVars

-----------------------------------------------------------------------------
(* Listed, AvatarsApart and OneHolds. *)

AvatarParts == Listed /\ AvatarsApart /\ OneHolds

\* A step that has nothing to do with the avatar of s.
Aside(s) == \/ req[s].own = None /\ req'[s].own = None /\ req'[s].pc # "remove"
            \/ req'[s] = req[s] /\ file'[s] = file[s]

LEMMA AsideKeeps ==
  ASSUME AvatarParts, \A s \in Reqs : Aside(s), UNCHANGED crowded
  PROVE  AvatarParts'
  <1>. USE DEF AvatarParts, Aside, IsAvatar
  <1>1. Listed'
    BY DEF Listed
  <1>2. AvatarsApart'
    <2>1. ASSUME NEW r \in Reqs, NEW s \in Reqs, r # s, IsAvatar(r)', req'[r].own = req'[s].own
          PROVE  ({r, s} \subseteq crowded \/ Apart(r, s))'
      <3>1. /\ req'[r] = req[r] /\ file'[r] = file[r]
            /\ req'[s] = req[s] /\ file'[s] = file[s]
        BY <2>1
      <3>. QED
        BY <2>1, <3>1 DEF AvatarsApart, Apart, OnDisk
    <2>. QED
      BY <2>1 DEF AvatarsApart
  <1>3. OneHolds'
    <2>1. ASSUME NEW r \in Reqs, IsAvatar(r)', Undisturbed(r)' PROVE (\E s \in Rivals(r) : Holds(s))'
      <3>1. req'[r] = req[r]
        BY <2>1
      <3>2. Rivals(r)' = Rivals(r)
        BY <3>1 DEF Rivals
      <3>3. \A s \in Rivals(r) : req'[s] = req[s] /\ file'[s] = file[s]
        BY DEF Rivals
      <3>4. Undisturbed(r)
        BY <2>1, <3>1, <3>2, <3>3 DEF Undisturbed
      <3>5. PICK s \in Rivals(r) : Holds(s)
        BY <2>1, <3>1, <3>4 DEF OneHolds
      <3>. QED
        BY <3>2, <3>3, <3>5 DEF Holds
    <2>. QED
      BY <2>1 DEF OneHolds
  <1>. QED
    BY <1>1, <1>2, <1>3

LEMMA AsideMoved ==
  ASSUME Places, NEW r \in Reqs, NEW P, NEW Q, Went(r, P, Q), req[r].own = None,
         "remove" \notin Q, \A s \in Reqs : s # r => file'[s] = file[s]
  PROVE  \A s \in Reqs : Aside(s)
  BY DEF Went, Only, Aside

LEMMA AsideFacts ==
  ASSUME Shape, Places, NEW r \in Reqs,
         RpcStep(r) \/ TableStep(r) \/ EmojiStep(r)
  PROVE  (\A s \in Reqs : Aside(s)) /\ UNCHANGED crowded
  <1>1. ASSUME RpcStep(r) PROVE (\A s \in Reqs : Aside(s)) /\ UNCHANGED crowded
    <2>1. req[r].own = None
      BY <1>1, RpcFacts DEF Places, Place, Went, RpcFrom
    <2>. QED
      BY <1>1, <2>1, RpcFacts, AsideMoved DEF RpcTo, RpcStep, fileVars
  <1>2. ASSUME TableStep(r) PROVE (\A s \in Reqs : Aside(s)) /\ UNCHANGED crowded
    <2>1. req[r].own = None
      BY <1>2, TableFacts DEF Places, Place, Moved, Went, TableFrom
    <2>. QED
      BY <1>2, <2>1, TableFacts, AsideMoved DEF TableTo, TableStep, fileVars, Moved
  <1>3. ASSUME NEW x, AddEmojiPack(r, x) PROVE (\A s \in Reqs : Aside(s)) /\ UNCHANGED crowded
    <2>1. req[r].own = None
      BY <1>3, AddEmojiPackFacts DEF Places, Place, Moved, Went
    <2>. QED
      BY <1>3, <2>1, AddEmojiPackFacts, AsideMoved DEF AddEmojiPack, fileVars, Moved
  <1>4. ASSUME NEW w, AddEmojiSave(r, w) PROVE (\A s \in Reqs : Aside(s)) /\ UNCHANGED crowded
    <2>1. req[r].own = None
      BY <1>4, AddEmojiSaveFacts DEF Places, Place, Moved, Went
    <2>. QED
      BY <1>4, <2>1, AddEmojiSaveFacts, AsideMoved DEF AddEmojiSave, Makes, Moved, Shape
  <1>. QED
    BY <1>1, <1>2, <1>3, <1>4 DEF EmojiStep

LEMMA AsideUpload ==
  ASSUME Shape, Places, NEW r \in Reqs, uploadHandler(r)
  PROVE  (\A s \in Reqs : Aside(s)) /\ UNCHANGED crowded
  <1>1. ASSUME NEW x, UploadBody(r, x) PROVE (\A s \in Reqs : Aside(s)) /\ UNCHANGED crowded
    <2>1. req[r].own = None
      BY <1>1, UploadBodyFacts DEF Places, Place, Moved, Went
    <2>. QED
      BY <1>1, <2>1, UploadBodyFacts, AsideMoved DEF UploadBody, fileVars, Moved
  <1>2. ASSUME NEW w, UploadWrite(r, w) PROVE (\A s \in Reqs : Aside(s)) /\ UNCHANGED crowded
    <2>1. req[r].own = None
      BY <1>2, UploadWriteFacts DEF Places, Place, Moved, Went
    <2>. QED
      BY <1>2, <2>1, UploadWriteFacts, AsideMoved DEF UploadWrite, Makes, Moved, Shape
  <1>3. ASSUME NEW v, NEW ok \in BOOLEAN, UploadScan(r, v, ok) PROVE (\A s \in Reqs : Aside(s)) /\ UNCHANGED crowded
    <2>1. req[r].own = None
      BY <1>3, UploadScanFacts DEF Places, Place, Moved, Went
    <2>. QED
      BY <1>3, <2>1, UploadScanFacts, AsideMoved DEF UploadScan, Unlinked, Makes, fileVars, Moved, Shape
  <1>. QED
    BY <1>1, <1>2, <1>3 DEF uploadHandler

LEMMA AsideExpire ==
  ASSUME Shape, Places, UploadKept, NEW r \in Reqs, Expire(r)
  PROVE  (\A s \in Reqs : Aside(s)) /\ UNCHANGED crowded
  <1>1. PICK left \in {"removed", "left"} :
          UNCHANGED <<req, crowded>> /\ file' = [file EXCEPT ![r] = left]
    BY ExpireFacts
  <1>2. req[r].own = None /\ req[r].pc # "remove"
    BY ExpireFacts DEF Places, Place, AvatarHandlers
  <1>. QED
    BY <1>1, <1>2 DEF Aside, Shape

LEMMA AsideEntered ==
  ASSUME Places, NEW r \in Reqs, Entered(r), UNCHANGED file
  PROVE  \A s \in Reqs : Aside(s)
  BY DEF Entered, Aside, Places, Place

LEMMA ListedFrame ==
  ASSUME Listed,
         \A s \in Reqs : req[s].own # None => req'[s].own = req[s].own,
         \A s \in Reqs : req'[s].pc = "remove" => req[s].pc = "remove" /\ req'[s].seen = req[s].seen
  PROVE  Listed'
  BY DEF Listed, IsAvatar

LEMMA ApartFrame ==
  ASSUME AvatarsApart, crowded \subseteq crowded',
         \A s \in Reqs : req'[s].own # None =>
           \/ /\ req'[s].own = req[s].own
              /\ req'[s].pc \in Replacing => req'[s].pc = req[s].pc /\ req'[s].seen = req[s].seen
              /\ OnDisk(s)' => OnDisk(s)
           \/ req'[s].pc \notin Replacing /\ ~OnDisk(s)'
  PROVE  AvatarsApart'
  <1>1. ASSUME NEW r \in Reqs, NEW s \in Reqs, r # s, IsAvatar(r)', req'[r].own = req'[s].own
        PROVE  ({r, s} \subseteq crowded \/ Apart(r, s))'
    <2>1. CASE req'[r].pc \notin Replacing /\ ~OnDisk(r)'
      BY <2>1 DEF Apart, Replacing
    <2>2. CASE req'[s].pc \notin Replacing /\ ~OnDisk(s)'
      BY <2>2 DEF Apart
    <2>3. CASE req'[r].own = req[r].own /\ req'[s].own = req[s].own
               /\ (req'[r].pc \in Replacing => req'[r].pc = req[r].pc /\ req'[r].seen = req[r].seen)
               /\ (req'[s].pc \in Replacing => req'[s].pc = req[s].pc)
               /\ (OnDisk(r)' => OnDisk(r)) /\ (OnDisk(s)' => OnDisk(s))
      <3>1. {r, s} \subseteq crowded \/ Apart(r, s)
        BY <1>1, <2>3 DEF AvatarsApart, IsAvatar
      <3>. QED
        BY <2>3, <3>1 DEF Apart, Replacing
    <2>. QED
      BY <1>1, <2>1, <2>2, <2>3 DEF IsAvatar
  <1>. QED
    BY <1>1 DEF AvatarsApart

AtWork == {"list", "remove", "create", "fill"}

LEMMA HoldsFrame ==
  ASSUME OneHolds, \A s \in Reqs : req'[s].own = req[s].own,
         \A s \in Reqs : /\ req[s].own # None
                         /\ req'[s].reply = "ok" \/ req'[s].pc \in AtWork
                         => /\ req[s].reply = "ok" \/ req[s].pc \in AtWork
                            /\ Holds(s) => Holds(s)'
  PROVE  OneHolds'
  <1>1. ASSUME NEW r \in Reqs, IsAvatar(r)', Undisturbed(r)' PROVE (\E s \in Rivals(r) : Holds(s))'
    <2>1. Rivals(r)' = Rivals(r)
      BY DEF Rivals, IsAvatar
    <2>2. \A s \in Rivals(r) : /\ req[s].own = req[r].own
                               /\ req'[s].reply = "ok" \/ req'[s].pc \in AtWork
      BY <1>1, <2>1 DEF Undisturbed, Rivals, AtWork
    <2>3. Undisturbed(r)
      BY <2>2 DEF Undisturbed, Rivals, IsAvatar, AtWork
    <2>4. PICK s \in Rivals(r) : Holds(s)
      BY <1>1, <2>3 DEF OneHolds, IsAvatar
    <2>5. Holds(s)'
      BY <2>2, <2>4 DEF Rivals, IsAvatar
    <2>. QED
      BY <2>1, <2>4, <2>5
  <1>. QED
    BY <1>1 DEF OneHolds

LEMMA AvatarsCrash ==
  ASSUME Shape, Places, AvatarParts, Crash
  PROVE  AvatarParts'
  <1>1. PICK torn \in SUBSET {r \in Reqs : req[r].pc \in {"write", "save"}} :
          file' = [r \in Reqs |-> IF r \in torn THEN "part" ELSE file[r]]
    BY DEF Crash
  <1>2. \A s \in Reqs : req[s].own # None => file'[s] = file[s]
    BY <1>1 DEF Places, Place
  <1>3. \A s \in Reqs : req'[s].pc # "remove"
    BY CrashFacts DEF Running
  <1>4. Listed'
    BY <1>3, ListedFrame, CrashFacts DEF AvatarParts
  <1>5. \A s \in Reqs : req'[s].pc \notin Replacing /\ req'[s].pc \notin AtWork
    BY CrashFacts DEF Running, Replacing, AtWork
  <1>6. AvatarsApart'
    BY <1>2, <1>5, ApartFrame, CrashFacts DEF AvatarParts, Crash, OnDisk
  <1>7. OneHolds'
    <2>1. ASSUME NEW s \in Reqs, req[s].own # None, req'[s].reply = "ok"
          PROVE  req[s].reply = "ok" /\ (Holds(s) => Holds(s)')
      <3>1. req[s].reply = "ok" /\ req'[s] = req[s]
        BY <2>1, CrashFacts DEF Places, Place, Running
      <3>. QED
        BY <1>2, <2>1, <3>1 DEF Holds
    <2>. QED
      BY <1>5, <2>1, HoldsFrame, CrashFacts DEF AvatarParts
  <1>. QED
    BY <1>4, <1>6, <1>7 DEF AvatarParts

LEMMA AvatarsClaim ==
  ASSUME Places, AvatarParts, NEW r \in Reqs, Claimed(r), UNCHANGED <<file, crowded>>
  PROVE  AvatarParts'
  <1>1. req[r].own = None /\ ~OnDisk(r) /\ req'[r].pc = "list"
    BY DEF Places, Place, Claimed
  <1>2. \A s \in Reqs : s # r => req'[s] = req[s]
    BY DEF Claimed, Only
  <1>3. Listed'
    BY <1>1, <1>2, ListedFrame DEF AvatarParts
  <1>4. AvatarsApart'
    BY <1>1, <1>2, ApartFrame DEF AvatarParts, OnDisk, Replacing
  <1>5. ASSUME NEW q \in Reqs, IsAvatar(q)', Undisturbed(q)' PROVE (\E s \in Rivals(q) : Holds(s))'
    <2>1. CASE r \in Rivals(q)'
      BY <1>1, <2>1 DEF Holds
    <2>2. CASE r \notin Rivals(q)'
      <3>1. q # r
        BY <1>5, <2>2 DEF Rivals, NamedLike, IsAvatar
      <3>2. Rivals(q)' = Rivals(q)
        BY <1>1, <1>2, <2>2, <3>1 DEF Rivals, IsAvatar
      <3>3. \A s \in Rivals(q) : req'[s] = req[s]
        BY <1>1, <1>2 DEF Rivals, IsAvatar
      <3>4. Undisturbed(q) /\ IsAvatar(q)
        BY <1>2, <1>5, <3>1, <3>2, <3>3 DEF Undisturbed, IsAvatar
      <3>5. PICK s \in Rivals(q) : Holds(s)
        BY <3>4 DEF AvatarParts, OneHolds
      <3>. QED
        BY <3>2, <3>3, <3>5 DEF Holds
    <2>. QED
      BY <2>1, <2>2
  <1>. QED
    BY <1>3, <1>4, <1>5 DEF AvatarParts, OneHolds

LEMMA AvatarsBody ==
  ASSUME Shape, Places, AvatarParts, NEW r \in Reqs, NEW form, NEW sound,
         AvatarBody(r, form, sound)
  PROVE  AvatarParts'
  <1>1. UNCHANGED <<file, crowded>>
    BY DEF AvatarBody, fileVars
  <1>2. ASSUME Moved(r, {"body"}, {"done"}) PROVE AvatarParts'
    <2>1. req[r].own = None
      BY <1>2 DEF Places, Place, Moved, Went
    <2>. QED
      BY <1>1, <1>2, <2>1, AsideMoved, AsideKeeps DEF Moved
  <1>. QED
    BY <1>1, <1>2, AvatarBodyFacts, AvatarsClaim

LEMMA AvatarsList ==
  ASSUME Shape, Places, AvatarParts, NEW r \in Reqs, NEW ok \in BOOLEAN, AvatarList(r, ok)
  PROVE  AvatarParts'
  <1>1. /\ \A s \in Reqs : s # r => req'[s] = req[s]
        /\ req'[r].own = req[r].own /\ req'[r].reply = req[r].reply
        /\ req[r].pc = "list" /\ req'[r].pc = "remove" /\ req'[r].seen = Listing(r, ok)
    BY AvatarListFacts DEF Moved, Went, Only
  <1>2. IsAvatar(r) /\ UNCHANGED <<file, timers>>
    BY DEF AvatarList
  <1>. DEFINE others == {s \in Reqs : /\ SameOwner(r, s)
                                      /\ \/ req[s].pc \in {"remove", "create", "fill"}
                                         \/ ~ok /\ OnDisk(s)}
  <1>3. crowded' = IF others = {} THEN crowded ELSE crowded \cup others \cup {r}
    BY DEF AvatarList, Crowd
  <1>4. Listed'
    BY <1>1, <1>2 DEF AvatarParts, Listed, Listing, IsAvatar
  <1>5. ASSUME NEW q \in Reqs, NEW s \in Reqs, q # s, IsAvatar(q)', req'[q].own = req'[s].own
        PROVE  ({q, s} \subseteq crowded \/ Apart(q, s))'
    <2>1. ~OnDisk(r) /\ ~OnDisk(r)'
      BY <1>1, <1>2 DEF Places, Place, OnDisk
    <2>2. {q, s} \subseteq crowded \/ Apart(q, s)
      BY <1>1, <1>5 DEF AvatarParts, AvatarsApart, IsAvatar
    <2>3. CASE {q, s} \subseteq crowded
      BY <1>3, <2>3
    <2>4. CASE Apart(q, s) /\ q # r /\ s # r
      BY <1>1, <1>2, <2>4 DEF Apart, OnDisk
    <2>5. CASE q = r
      <3>1. CASE s \in others
        BY <1>3, <2>5, <3>1
      <3>2. CASE s \notin others
        <4>1. req[s].pc \notin Replacing
          BY <1>1, <1>5, <2>5, <3>2 DEF SameOwner, IsAvatar, Replacing
        <4>2. OnDisk(s)' => s \in req'[r].seen
          <5>1. OnDisk(s)' => OnDisk(s)
            BY <1>2 DEF OnDisk
          <5>2. SameOwner(r, s)
            BY <1>1, <1>5, <2>5 DEF SameOwner, IsAvatar
          <5>3. OnDisk(s) => ok
            BY <3>2, <5>2
          <5>. QED
            BY <1>1, <5>1, <5>2, <5>3 DEF Listing, SameOwner, NamedLike
        <4>. QED
          BY <1>1, <1>5, <2>1, <2>5, <4>1, <4>2 DEF Apart
      <3>. QED
        BY <3>1, <3>2
    <2>6. CASE s = r
      <3>1. CASE q \in others
        BY <1>3, <2>6, <3>1
      <3>2. CASE q \notin others
        <4>1. req'[q].pc \notin Replacing
          BY <1>1, <1>5, <2>6, <3>2 DEF SameOwner, IsAvatar, Replacing
        <4>. QED
          BY <2>1, <2>6, <4>1 DEF Apart, Replacing
      <3>. QED
        BY <3>1, <3>2
    <2>. QED
      BY <2>2, <2>3, <2>4, <2>5, <2>6
  <1>6. OneHolds'
    <2>1. Holds(r)'
      BY <1>1 DEF Holds
    <2>2. \A s \in Reqs : s # r => (Holds(s) => Holds(s)')
      BY <1>1, <1>2 DEF Holds
    <2>. QED
      BY <1>1, <2>1, <2>2, HoldsFrame DEF AvatarParts, AtWork
  <1>. QED
    BY <1>4, <1>5, <1>6 DEF AvatarParts, AvatarsApart

LEMMA AvatarsRemove ==
  ASSUME Shape, Places, AvatarParts, NEW r \in Reqs, NEW stuck, AvatarRemove(r, stuck)
  PROVE  AvatarParts'
  <1>1. /\ \A s \in Reqs : s # r => req'[s] = req[s]
        /\ req'[r].own = req[r].own /\ req'[r].reply = req[r].reply
        /\ req[r].pc = "remove" /\ req'[r].pc = "create"
    BY AvatarRemoveFacts DEF Moved, Went, Only
  <1>. DEFINE kept == {s \in stuck : SameOwner(r, s) /\ OnDisk(s)}
  <1>2. /\ IsAvatar(r)
        /\ file' = [s \in Reqs |-> IF s \in req[r].seen \ stuck THEN "removed" ELSE file[s]]
        /\ crowded' = IF kept = {} THEN crowded ELSE crowded \cup kept \cup {r}
    BY DEF AvatarRemove, Crowd
  <1>3. Listed'
    BY <1>1, ListedFrame DEF AvatarParts
  <1>4. \A s \in Reqs : OnDisk(s)' => OnDisk(s) /\ s \notin req[r].seen \ stuck
    BY <1>2 DEF OnDisk
  <1>5. ASSUME NEW q \in Reqs, NEW s \in Reqs, q # s, IsAvatar(q)', req'[q].own = req'[s].own
        PROVE  ({q, s} \subseteq crowded \/ Apart(q, s))'
    <2>1. {q, s} \subseteq crowded \/ Apart(q, s)
      BY <1>1, <1>5 DEF AvatarParts, AvatarsApart, IsAvatar
    <2>2. CASE {q, s} \subseteq crowded
      BY <1>2, <2>2
    <2>3. CASE Apart(q, s) /\ q # r
      BY <1>1, <1>4, <2>3 DEF Apart, Replacing
    <2>4. CASE Apart(q, s) /\ q = r /\ s \notin kept
      <3>1. SameOwner(r, s)
        BY <1>1, <1>5, <2>4 DEF SameOwner, IsAvatar
      <3>2. ~OnDisk(s)'
        BY <1>1, <1>4, <2>4, <3>1 DEF Apart
      <3>. QED
        BY <1>1, <1>5, <2>4, <3>2 DEF Apart, Replacing
    <2>5. CASE q = r /\ s \in kept
      BY <1>2, <2>5
    <2>. QED
      BY <2>1, <2>2, <2>3, <2>4, <2>5
  <1>6. ASSUME NEW q \in Reqs, IsAvatar(q)', Undisturbed(q)' PROVE (\E s \in Rivals(q) : Holds(s))'
    <2>1. Rivals(q)' = Rivals(q)
      BY <1>1 DEF Rivals, IsAvatar
    <2>2. Undisturbed(q)
      BY <1>1, <1>6, <2>1 DEF Undisturbed, Rivals
    <2>3. PICK s \in Rivals(q) : Holds(s)
      BY <1>1, <1>6, <2>2 DEF AvatarParts, OneHolds, IsAvatar
    <2>4. CASE s \in req[r].seen \ stuck
      <3>1. NamedLike(req[r].own, req[s].own)
        BY <1>1, <2>4 DEF AvatarParts, Listed
      <3>2. r \in Rivals(q)
        BY <1>2, <2>2, <2>3, <3>1 DEF Undisturbed, Rivals
      <3>. QED
        BY <1>1, <2>1, <3>2 DEF Holds
    <2>5. CASE s \notin req[r].seen \ stuck
      <3>1. Holds(s)'
        BY <1>1, <1>2, <2>3, <2>5 DEF Holds, Rivals
      <3>. QED
        BY <2>1, <2>3, <3>1
    <2>. QED
      BY <2>4, <2>5
  <1>. QED
    BY <1>3, <1>5, <1>6 DEF AvatarParts, AvatarsApart, OneHolds

LEMMA AvatarsCreate ==
  ASSUME Shape, Places, AvatarParts, NEW r \in Reqs, NEW ok \in BOOLEAN, AvatarCreate(r, ok)
  PROVE  AvatarParts'
  <1>1. /\ \A s \in Reqs : s # r => req'[s] = req[s]
        /\ req'[r].own = req[r].own /\ req[r].pc = "create"
        /\ ok => req'[r].pc = "fill" /\ req'[r].reply = req[r].reply
        /\ ~ok => req'[r].pc = "done" /\ req'[r].reply = "error"
    BY AvatarCreateFacts DEF Moved, Went, Only
  <1>2. /\ IsAvatar(r) /\ UNCHANGED crowded
        /\ ok => file' = [file EXCEPT ![r] = "part"]
        /\ ~ok => UNCHANGED file
    BY DEF AvatarCreate, Makes
  <1>3. Listed'
    BY <1>1, ListedFrame DEF AvatarParts
  <1>4. AvatarsApart'
    <2>1. CASE ~ok
      BY <1>1, <1>2, <2>1, ApartFrame DEF AvatarParts, OnDisk, Replacing
    <2>2. CASE ok
      <3>1. ASSUME NEW q \in Reqs, NEW s \in Reqs, q # s, IsAvatar(q)', req'[q].own = req'[s].own
            PROVE  ({q, s} \subseteq crowded \/ Apart(q, s))'
        <4>1. /\ {q, s} \subseteq crowded \/ Apart(q, s)
              /\ {s, q} \subseteq crowded \/ Apart(s, q)
          BY <1>1, <3>1 DEF AvatarParts, AvatarsApart, IsAvatar
        <4>2. \A x \in Reqs : x # r => (OnDisk(x)' <=> OnDisk(x))
          BY <1>2, <2>2 DEF OnDisk, Shape
        <4>3. CASE {q, s} \subseteq crowded
          BY <1>2, <4>3
        <4>4. CASE Apart(q, s) /\ Apart(s, q) /\ q # r /\ s # r
          BY <1>1, <4>2, <4>4 DEF Apart
        <4>5. CASE Apart(q, s) /\ Apart(s, q) /\ q = r
          BY <1>1, <2>2, <3>1, <4>2, <4>5 DEF Apart, Replacing
        <4>6. CASE Apart(q, s) /\ Apart(s, q) /\ s = r
          BY <1>1, <2>2, <3>1, <4>2, <4>6 DEF Apart, Replacing
        <4>. QED
          BY <4>1, <4>3, <4>4, <4>5, <4>6
      <3>. QED
        BY <3>1 DEF AvatarsApart
    <2>. QED
      BY <2>1, <2>2
  <1>5. OneHolds'
    <2>1. ok => Holds(r)'
      BY <1>1, <1>2 DEF Holds, Shape
    <2>2. \A s \in Reqs : s # r => (Holds(s) => Holds(s)')
      BY <1>1, <1>2 DEF Holds, Shape
    <2>. QED
      BY <1>1, <2>1, <2>2, HoldsFrame DEF AvatarParts, AtWork
  <1>. QED
    BY <1>3, <1>4, <1>5 DEF AvatarParts

LEMMA AvatarsFill ==
  ASSUME Shape, Places, AvatarParts, NEW r \in Reqs, NEW ok \in BOOLEAN, AvatarFill(r, ok)
  PROVE  AvatarParts'
  <1>1. /\ \A s \in Reqs : s # r => req'[s] = req[s]
        /\ req'[r].own = req[r].own /\ req[r].pc = "fill"
        /\ req'[r].pc = "done" /\ req'[r].reply = IF ok THEN "ok" ELSE "error"
    BY AvatarFillFacts DEF Moved, Went, Only
  <1>2. /\ UNCHANGED crowded
        /\ ok => file' = [file EXCEPT ![r] = IF OnDisk(r) THEN "whole" ELSE file[r]]
        /\ ~ok => UNCHANGED file
    BY DEF AvatarFill, Makes
  <1>3. Listed'
    BY <1>1, ListedFrame DEF AvatarParts
  <1>4. \A s \in Reqs : (s # r => file'[s] = file[s]) /\ (OnDisk(s)' => OnDisk(s))
    BY <1>2 DEF OnDisk, Shape
  <1>5. AvatarsApart'
    BY <1>1, <1>2, <1>4, ApartFrame DEF AvatarParts, Replacing
  <1>6. OneHolds'
    <2>1. ok => (Holds(r) => Holds(r)')
      BY <1>1, <1>2 DEF Holds, OnDisk, Shape
    <2>2. \A s \in Reqs : s # r => (Holds(s) => Holds(s)')
      BY <1>1, <1>4 DEF Holds
    <2>. QED
      BY <1>1, <2>1, <2>2, HoldsFrame DEF AvatarParts, AtWork
  <1>. QED
    BY <1>3, <1>5, <1>6 DEF AvatarParts

LEMMA AvatarsStep ==
  ASSUME Shape, Places, UploadKept, AvatarParts, [Next]_vars
  PROVE  AvatarParts'
  <1>1. CASE UNCHANGED <<req, file, crowded>>
    BY <1>1, AsideKeeps DEF Aside
  <1>2. ASSUME NEW r \in Reqs, Entered(r), UNCHANGED <<file, crowded>> PROVE AvatarParts'
    BY <1>2, AsideEntered, AsideKeeps
  <1>3. ASSUME NEW r \in Reqs, RpcStep(r) \/ TableStep(r) \/ EmojiStep(r) \/ uploadHandler(r) \/ Expire(r)
        PROVE  AvatarParts'
    BY <1>3, AsideFacts, AsideUpload, AsideExpire, AsideKeeps
  <1>4. ASSUME NEW r \in Reqs, AvatarSteps(r) PROVE AvatarParts'
    BY <1>4, AvatarsBody, AvatarsList, AvatarsRemove, AvatarsCreate, AvatarsFill DEF AvatarSteps
  <1>. QED
    BY <1>1, <1>2, <1>3, <1>4, AvatarsCrash, EnterFacts, VapidKeyFacts
       DEF Next, Serve, FileStep, uploadUserAvatarHandler, uploadChannelAvatarHandler, vars,
           BootDB, BootIrc, BootPush, BootPersist, LinkLoss, LinkLost, Enter, handleVapidKey, fileVars

-----------------------------------------------------------------------------
(* EmojiKept. *)

LEMMA EmojiFrame ==
  ASSUME EmojiKept, entries' \subseteq entries,
         \A s \in Reqs :
           /\ req'[s].pc = "row" /\ req'[s].body # None =>
                req[s].pc = "row" /\ req'[s] = req[s] /\ file'[s] = file[s]
           /\ req[s].pc = "done" /\ req[s].h = "addEmoji" =>
                /\ req'[s].pc = "done" /\ req'[s].h = "addEmoji"
                /\ file[s] = "whole" => file'[s] = "whole"
  PROVE  EmojiKept'
  BY DEF EmojiKept

LEMMA EmojiMoved ==
  ASSUME EmojiKept, entries' \subseteq entries, NEW r \in Reqs, Only(r),
         req[r].pc # "done", req'[r].pc # "row",
         \A s \in Reqs : s # r => file'[s] = file[s]
  PROVE  EmojiKept'
  BY EmojiFrame DEF Only

LEMMA EmojiFile ==
  ASSUME Shape, Places, Listed, EmojiKept, NEW r \in Reqs, FileStep(r)
  PROVE  EmojiKept'
  <1>1. UNCHANGED entries
    BY DEF FileStep, tableVars
  <1>2. ASSUME NEW x, UploadBody(r, x) PROVE EmojiKept'
    BY <1>1, <1>2, UploadBodyFacts, EmojiMoved DEF UploadBody, fileVars, Moved, Went
  <1>3. ASSUME NEW w, UploadWrite(r, w) PROVE EmojiKept'
    BY <1>1, <1>3, UploadWriteFacts, EmojiMoved DEF UploadWrite, Makes, Moved, Went, Shape
  <1>4. ASSUME NEW v, NEW ok \in BOOLEAN, UploadScan(r, v, ok) PROVE EmojiKept'
    BY <1>1, <1>4, UploadScanFacts, EmojiMoved DEF UploadScan, Unlinked, Makes, fileVars, Moved, Went, Shape
  <1>5. ASSUME NEW form, NEW sound, AvatarBody(r, form, sound) PROVE EmojiKept'
    BY <1>1, <1>5, AvatarBodyFacts, EmojiMoved DEF AvatarBody, fileVars, Claimed, Moved, Went
  <1>6. ASSUME NEW ok \in BOOLEAN, AvatarList(r, ok) PROVE EmojiKept'
    BY <1>1, <1>6, AvatarListFacts, EmojiMoved DEF AvatarList, Moved, Went
  <1>7. ASSUME NEW stuck, AvatarRemove(r, stuck) PROVE EmojiKept'
    <2>1. /\ file' = [s \in Reqs |-> IF s \in req[r].seen \ stuck THEN "removed" ELSE file[s]]
          /\ req[r].pc = "remove" /\ req'[r].pc = "create"
          /\ \A s \in Reqs : s # r => req'[s] = req[s]
      BY <1>7, AvatarRemoveFacts DEF AvatarRemove, Moved, Went, Only
    <2>2. \A s \in req[r].seen : req[s].h # "addEmoji" /\ req[s].pc # "row"
      BY <2>1 DEF Listed, IsAvatar, Places, Place, AvatarHandlers
    <2>. QED
      BY <1>1, <2>1, <2>2, EmojiFrame
  <1>8. ASSUME NEW ok \in BOOLEAN, AvatarCreate(r, ok) PROVE EmojiKept'
    BY <1>1, <1>8, AvatarCreateFacts, EmojiMoved DEF AvatarCreate, Makes, Moved, Went, Shape
  <1>9. ASSUME NEW ok \in BOOLEAN, AvatarFill(r, ok) PROVE EmojiKept'
    BY <1>1, <1>9, AvatarFillFacts, EmojiMoved DEF AvatarFill, Makes, Moved, Went, Shape
  <1>. QED
    BY <1>2, <1>3, <1>4, <1>5, <1>6, <1>7, <1>8, <1>9
       DEF FileStep, uploadHandler, uploadUserAvatarHandler, uploadChannelAvatarHandler, AvatarSteps

LEMMA EmojiTable ==
  ASSUME Shape, Places, EmojiKept, NEW r \in Reqs, TableStep(r)
  PROVE  EmojiKept'
  <1>1. /\ Only(r) /\ req[r].pc # "done" /\ req'[r].pc # "row" /\ UNCHANGED file
    BY TableFacts DEF TableStep, fileVars, TableFrom, TableTo, Moved, Went
  <1>2. CASE entries' \subseteq entries
    BY <1>1, <1>2, EmojiMoved
  <1>3. CASE AddEmojiRow(r) /\ entries' = entries \cup {Entry(r)}
    <2>1. req[r].h = "addEmoji" /\ req[r].pc = "row"
      BY <1>3 DEF AddEmojiRow
    <2>2. req'[r].h = "addEmoji" /\ req'[r].pc = "done"
      BY <1>1, <1>3, <2>1, AnswerFields DEF AddEmojiRow, Answered, Only
    <2>3. Entry(r).url # None => Entry(r).url = r /\ file[r] = "whole"
      BY <2>1 DEF Entry, EmojiKept
    <2>. QED
      BY <1>1, <1>3, <2>1, <2>2, <2>3 DEF EmojiKept, Only
  <1>. QED
    BY <1>2, <1>3
       DEF TableStep, StatementFails, RegisterUser, RegisterCode, LoginRead, LoginStamp,
           UpdateAccount, VerifyEmail, SetUserMetadata, SetChannelMetadata,
           SetChannelPermissions, Upsert, RegisterChannel, UpdateChannel, CreatePack,
           DeletePack, AddEmojiRow, DeleteEmoji, tableVars

LEMMA EmojiEmoji ==
  ASSUME Shape, Places, EmojiKept, NEW r \in Reqs, EmojiStep(r)
  PROVE  EmojiKept'
  <1>1. ASSUME NEW x, AddEmojiPack(r, x) PROVE EmojiKept'
    <2>1. /\ \A s \in Reqs : s # r => req'[s] = req[s]
          /\ req[r].pc = "pack" /\ UNCHANGED <<file, entries>>
          /\ req'[r].pc = "row" => req'[r].body = None
      BY <1>1, AddEmojiPackFacts DEF AddEmojiPack, fileVars, tableVars, Moved, Went, Only, Places, Place
    <2>. QED
      BY <2>1, EmojiFrame
  <1>2. ASSUME NEW w, AddEmojiSave(r, w) PROVE EmojiKept'
    <2>1. /\ \A s \in Reqs : s # r => req'[s] = req[s]
          /\ req[r].pc = "save" /\ UNCHANGED entries /\ file' = [file EXCEPT ![r] = w]
          /\ req'[r].h = "addEmoji"
      BY <1>2, AddEmojiSaveFacts DEF AddEmojiSave, Makes, tableVars, Moved, Went, Only
    <2>2. req'[r].pc = "row" => w = "whole"
      BY <1>2, AddEmojiSaveFacts
    <2>. QED
      BY <2>1, <2>2 DEF EmojiKept, Shape
  <1>. QED
    BY <1>1, <1>2 DEF EmojiStep

LEMMA EmojiKeptStep ==
  ASSUME Shape, Places, UploadKept, Listed, EmojiKept, [Next]_vars
  PROVE  EmojiKept'
  <1>1. CASE UNCHANGED <<req, file, entries>>
    BY <1>1, EmojiFrame
  <1>2. ASSUME NEW r \in Reqs, Entered(r), UNCHANGED <<file, entries>> PROVE EmojiKept'
    BY <1>2, EmojiFrame DEF Entered
  <1>3. ASSUME NEW r \in Reqs, RpcStep(r) PROVE EmojiKept'
    BY <1>3, RpcFacts, EmojiMoved DEF RpcStep, fileVars, tableVars, Went, RpcFrom, RpcTo
  <1>4. ASSUME NEW r \in Reqs, Expire(r) PROVE EmojiKept'
    <2>1. PICK left \in {"removed", "left"} :
            /\ UNCHANGED <<req, entries>> /\ file' = [file EXCEPT ![r] = left]
            /\ req[r].h = "upload" /\ req[r].pc = "done"
      BY <1>4, ExpireFacts
    <2>. QED
      BY <2>1, EmojiFrame DEF Shape
  <1>5. CASE Crash
    <2>1. PICK torn \in SUBSET {r \in Reqs : req[r].pc \in {"write", "save"}} :
            file' = [r \in Reqs |-> IF r \in torn THEN "part" ELSE file[r]]
      BY <1>5 DEF Crash
    <2>2. \A s \in Reqs : req'[s].pc # "row"
      BY <1>5, CrashFacts DEF Running
    <2>3. \A s \in Reqs : req[s].pc = "done" => req'[s] = req[s] /\ file'[s] = file[s]
      BY <1>5, <2>1, CrashFacts DEF Running
    <2>. QED
      BY <1>5, <2>2, <2>3, EmojiFrame DEF Crash, tableVars
  <1>. QED
    BY <1>1, <1>2, <1>3, <1>4, <1>5, EmojiFile, EmojiTable, EmojiEmoji, EnterFacts, VapidKeyFacts
       DEF Next, Serve, vars, BootDB, BootIrc, BootPush, BootPersist, LinkLoss, LinkLost,
           Enter, handleVapidKey, fileVars, tableVars

-----------------------------------------------------------------------------
(* AccountKept and RegisteredWhole. *)

Registered == {"verifs", "done", "cut"}

\* Whatever happens to a registration, it does not forget what it told.
LEMMA AccountFrame ==
  ASSUME AccountKept, RegisteredWhole, UNCHANGED <<users, verifs>>,
         \A s \in Reqs : req[s].pc \in Registered =>
           \/ req'[s] = req[s]
           \/ req'[s].pc = "cut"
           \/ req'[s].pc = "done" /\ req'[s].reply = "error"
  PROVE  AccountKept' /\ RegisteredWhole'
  <1>. USE DEF AccountKept, RegisteredWhole, Registered
  <1>1. AccountKept'
    OBVIOUS
  <1>2. RegisteredWhole'
    OBVIOUS
  <1>. QED
    BY <1>1, <1>2

LEMMA AccountMoved ==
  ASSUME AccountKept, RegisteredWhole, UNCHANGED <<users, verifs>>, NEW r \in Reqs, Only(r),
         req[r].pc \notin Registered
  PROVE  AccountKept' /\ RegisteredWhole'
  BY AccountFrame DEF Only

LEMMA AccountUsers ==
  ASSUME AccountKept, RegisteredWhole, UNCHANGED verifs,
         \A s \in Reqs : req[s].pc \in Registered => req'[s] = req[s],
         \A u \in users' :
           /\ DOMAIN u = {"id", "name", "email", "pass"}
           /\ \/ u.id = Admin
              \/ u.id \in Reqs /\ req'[u.id].pc = "verifs"
              \/ \E w \in users : u.id = w.id
  PROVE  AccountKept' /\ RegisteredWhole'
  <1>1. ASSUME NEW u \in users', u.id # Admin
        PROVE  /\ u.id \in Reqs /\ req'[u.id].pc \in Registered
               /\ \/ \E v \in verifs : v.user = u.id
                  \/ req'[u.id].pc \in {"verifs", "cut"} \/ req'[u.id].reply = "error"
    <2>1. CASE u.id \in Reqs /\ req'[u.id].pc = "verifs"
      BY <2>1 DEF Registered
    <2>2. CASE \E w \in users : u.id = w.id
      BY <1>1, <2>2 DEF AccountKept, RegisteredWhole, Registered
    <2>. QED
      BY <1>1, <2>1, <2>2
  <1>2. AccountKept'
    BY <1>1 DEF AccountKept, Registered
  <1>3. RegisteredWhole'
    BY <1>1 DEF RegisteredWhole
  <1>. QED
    BY <1>2, <1>3

LEMMA AccountTable ==
  ASSUME Shape, AccountKept, RegisteredWhole, NEW r \in Reqs, TableStep(r)
  PROVE  AccountKept' /\ RegisteredWhole'
  <1>1. Only(r)
    BY TableFacts DEF Moved, Went
  <1>2. ASSUME StatementFails(r) PROVE AccountKept' /\ RegisteredWhole'
    BY <1>1, <1>2, AnswerFields, AccountFrame DEF StatementFails, tableVars, Answered, Only
  <1>3. ASSUME RegisterUser(r) PROVE AccountKept' /\ RegisteredWhole'
    <2>1. CASE UNCHANGED users
      BY <1>1, <1>3, <2>1, AccountMoved DEF RegisterUser, Registered
    <2>2. ASSUME NEW n, NEW e, NEW p, users' = users \cup {UserRow(r, n, e, p)}, Step(r, "verifs")
          PROVE  AccountKept' /\ RegisteredWhole'
      <3>1. req'[r].pc = "verifs" /\ req[r].pc = "users" /\ UNCHANGED verifs
        BY <1>3, <2>2, StepFields DEF RegisterUser
      <3>2. /\ DOMAIN UserRow(r, n, e, p) = {"id", "name", "email", "pass"}
            /\ UserRow(r, n, e, p).id = r
        BY DEF UserRow
      <3>. QED
        BY <1>1, <2>2, <3>1, <3>2, AccountUsers DEF Only, AccountKept, Registered
    <2>. QED
      BY <1>3, <2>1, <2>2 DEF RegisterUser
  <1>4. ASSUME RegisterCode(r) PROVE AccountKept' /\ RegisteredWhole'
    <2>. DEFINE row == [user |-> r, code |-> r, verified |-> FALSE]
    <2>1. /\ UNCHANGED users /\ req'[r].pc = "done"
          /\ verifs' = verifs \cup {row}
      BY <1>4, AnswerFields DEF RegisterCode, Answered
    <2>2. \A s \in Reqs : s # r => req'[s] = req[s]
      BY <1>1 DEF Only
    <2>3. AccountKept'
      BY <2>1, <2>2 DEF AccountKept
    <2>4. row.user = r
      OBVIOUS
    <2>. HIDE DEF row
    <2>5. row \in verifs' /\ verifs \subseteq verifs'
      BY <2>1
    <2>6. RegisteredWhole'
      BY <2>1, <2>2, <2>4, <2>5 DEF RegisteredWhole, AccountKept
    <2>. QED
      BY <2>3, <2>6
  <1>5. ASSUME UpdateAccount(r) PROVE AccountKept' /\ RegisteredWhole'
    <2>1. req[r].pc = "sql" /\ UNCHANGED verifs
      BY <1>5 DEF UpdateAccount
    <2>2. CASE UNCHANGED users
      BY <1>1, <2>1, <2>2, AccountMoved DEF Registered
    <2>3. ASSUME NEW u \in users', ~UNCHANGED users
          PROVE  DOMAIN u = {"id", "name", "email", "pass"} /\ \E w \in users : u.id = w.id
      <3>. DEFINE b == req[r].body
                  email(w) == IF b.email = None THEN w.email ELSE b.email
                  pass(w) == IF b.pass = None THEN w.pass ELSE b.pass
                  set(w) == IF w.id # req[r].on THEN w
                            ELSE [w EXCEPT !.email = email(w), !.pass = pass(w)]
      <3>1. PICK w \in users : u = set(w)
        <4>1. users' = {set(w) : w \in users}
          BY <1>5, <2>3, Zenon DEF UpdateAccount
        <4>. HIDE DEF set
        <4>. QED
          BY <4>1
      <3>. HIDE DEF email, pass
      <3>2. DOMAIN w = {"id", "name", "email", "pass"}
        BY DEF AccountKept
      <3>3. DOMAIN u = {"id", "name", "email", "pass"} /\ u.id = w.id
        BY <3>1, <3>2
      <3>. QED
        BY <3>3
    <2>4. CASE ~UNCHANGED users
      BY <1>1, <2>1, <2>3, <2>4, AccountUsers DEF Only, Registered
    <2>. QED
      BY <2>2, <2>4
  <1>6. ASSUME NEW late \in BOOLEAN, VerifyEmail(r, late) PROVE AccountKept' /\ RegisteredWhole'
    <2>. DEFINE hit == {v \in verifs : ~late /\ Verifies(v, req[r].on)}
                stamp(v) == [v EXCEPT !.verified = TRUE]
    <2>1. /\ req[r].pc = "sql" /\ UNCHANGED users
          /\ verifs' = (verifs \ hit) \cup {stamp(v) : v \in hit}
      BY <1>6 DEF VerifyEmail
    <2>2. ASSUME NEW v \in verifs
          PROVE  DOMAIN stamp(v) = {"user", "code", "verified"} /\ stamp(v).user = v.user
      BY DEF AccountKept
    <2>3. hit \subseteq verifs
      OBVIOUS
    <2>. HIDE DEF hit, stamp
    <2>4. \A s \in Reqs : req[s].pc \in Registered => req'[s] = req[s]
      BY <1>1, <2>1 DEF Only, Registered
    <2>5. \A v \in verifs' : DOMAIN v = {"user", "code", "verified"}
      BY <2>1, <2>2, <2>3 DEF AccountKept
    <2>6. \A v \in verifs : \E w \in verifs' : w.user = v.user
      BY <2>1, <2>2, <2>3
    <2>7. AccountKept'
      BY <2>1, <2>4, <2>5 DEF AccountKept, Registered
    <2>8. RegisteredWhole'
      BY <2>1, <2>4, <2>6 DEF RegisteredWhole, AccountKept, Registered
    <2>. QED
      BY <2>7, <2>8
  <1>7. ASSUME LoginRead(r) \/ LoginStamp(r) PROVE AccountKept' /\ RegisteredWhole'
    BY <1>1, <1>7, AccountMoved DEF LoginRead, LoginStamp, tableVars, Registered
  <1>8. ASSUME SetUserMetadata(r) \/ SetChannelMetadata(r) \/ SetChannelPermissions(r)
        PROVE  AccountKept' /\ RegisteredWhole'
    BY <1>1, <1>8, AccountMoved
       DEF SetUserMetadata, SetChannelMetadata, SetChannelPermissions, Upsert, Registered
  <1>9. ASSUME RegisterChannel(r) \/ UpdateChannel(r) PROVE AccountKept' /\ RegisteredWhole'
    BY <1>1, <1>9, AccountMoved DEF RegisterChannel, UpdateChannel, Registered
  <1>10. ASSUME CreatePack(r) \/ DeletePack(r) \/ AddEmojiRow(r) \/ DeleteEmoji(r)
         PROVE  AccountKept' /\ RegisteredWhole'
    BY <1>1, <1>10, AccountMoved DEF CreatePack, DeletePack, AddEmojiRow, DeleteEmoji, Registered
  <1>. QED
    BY <1>2, <1>3, <1>4, <1>5, <1>6, <1>7, <1>8, <1>9, <1>10 DEF TableStep

LEMMA AccountStep ==
  ASSUME Shape, AccountKept, RegisteredWhole, [Next]_vars
  PROVE  AccountKept' /\ RegisteredWhole'
  <1>1. CASE UNCHANGED <<req, users, verifs>>
    BY <1>1, AccountFrame
  <1>2. ASSUME NEW r \in Reqs, Entered(r), UNCHANGED <<users, verifs>>
        PROVE  AccountKept' /\ RegisteredWhole'
    BY <1>2, AccountFrame DEF Entered, Registered
  <1>3. ASSUME NEW r \in Reqs, RpcStep(r) PROVE AccountKept' /\ RegisteredWhole'
    BY <1>3, RpcFacts, AccountMoved DEF RpcStep, tableVars, Went, RpcFrom, Registered
  <1>4. ASSUME NEW r \in Reqs, FileStep(r) PROVE AccountKept' /\ RegisteredWhole'
    <2>1. Only(r) /\ req[r].pc \notin Registered
      BY <1>4, WorkFacts
         DEF FileStep, uploadHandler, uploadUserAvatarHandler, uploadChannelAvatarHandler,
             AvatarSteps, UploadBody, UploadWrite, UploadScan, AvatarBody, AvatarList,
             AvatarRemove, AvatarCreate, AvatarFill, Registered
    <2>. QED
      BY <1>4, <2>1, AccountMoved DEF FileStep, tableVars
  <1>5. ASSUME NEW r \in Reqs, EmojiStep(r) PROVE AccountKept' /\ RegisteredWhole'
    <2>1. Only(r) /\ req[r].pc \notin Registered /\ UNCHANGED <<users, verifs>>
      BY <1>5, WorkFacts DEF EmojiStep, AddEmojiPack, AddEmojiSave, tableVars, Registered
    <2>. QED
      BY <2>1, AccountMoved
  <1>6. CASE Crash
    BY <1>6, CrashFacts, AccountFrame DEF Crash, tableVars
  <1>7. CASE BootDB
    <2>. DEFINE row == UserRow(Admin, Admin, AdminEmail, AdminPass)
    <2>1. UNCHANGED <<req, verifs>> /\ users' \subseteq users \cup {row}
      BY <1>7 DEF BootDB
    <2>2. DOMAIN row = {"id", "name", "email", "pass"} /\ row.id = Admin
      BY DEF UserRow
    <2>. HIDE DEF row
    <2>. QED
      BY <2>1, <2>2, AccountUsers DEF AccountKept
  <1>. QED
    BY <1>1, <1>2, <1>3, <1>4, <1>5, <1>6, <1>7, AccountTable, EnterFacts, VapidKeyFacts
       DEF Next, Serve, vars, BootIrc, BootPush, BootPersist, LinkLoss, LinkLost, Enter,
           handleVapidKey, Expire, TimerFires, tableVars

-----------------------------------------------------------------------------
(* Theorems. *)

LEMMA InitBInv == Init => BInv
  <1>. SUFFICES ASSUME Init PROVE BInv
    OBVIOUS
  <1>1. ASSUME NEW r \in Reqs
        PROVE  /\ DOMAIN req[r] = Fields /\ req[r].h = "none" /\ req[r].pc = "idle"
               /\ req[r].auth = FALSE /\ req[r].own = None /\ req[r].reply = "none"
               /\ file[r] = "none"
    BY DEF Init, NoReq, NewReq, Fields
  <1>2. DOMAIN req = Reqs /\ file \in [Reqs -> {"none", "part", "whole", "removed", "left"}]
    BY DEF Init
  <1>3. Shape /\ Places
    BY <1>1, <1>2 DEF Shape, Places, Place, OnDisk
  <1>4. AtRest /\ TokensSpent /\ TokenOnce /\ InfoNeverNil
    BY <1>1 DEF AtRest, Running, TokensSpent, TokenOnce, InfoNeverNil
  <1>5. UploadKept
    BY <1>1 DEF Init, UploadKept, UploadFor
  <1>6. Listed /\ AvatarsApart /\ OneHolds
    BY <1>1 DEF Listed, AvatarsApart, OneHolds, IsAvatar
  <1>7. EmojiKept
    BY <1>1 DEF Init, EmojiKept
  <1>8. AccountKept /\ RegisteredWhole
    BY DEF Init, FirstStart, LaterStart, UserRow, AccountKept, RegisteredWhole
  <1>9. KeyKept
    BY DEF Init, FirstStart, LaterStart, KeyKept
  <1>. QED
    BY <1>3, <1>4, <1>5, <1>6, <1>7, <1>8, <1>9 DEF BInv

LEMMA NextBInv == BInv /\ [Next]_vars => BInv'
  <1>. SUFFICES ASSUME BInv, [Next]_vars PROVE BInv'
    OBVIOUS
  <1>1. Shape' /\ Places'
    BY PlacesStep DEF BInv
  <1>2. AtRest' /\ TokensSpent' /\ TokenOnce' /\ InfoNeverNil'
    BY AtRestStep, TokensStep, NeverNilStep DEF BInv
  <1>3. UploadKept'
    BY UploadsStep DEF BInv
  <1>4. Listed' /\ AvatarsApart' /\ OneHolds'
    BY AvatarsStep DEF BInv, AvatarParts
  <1>5. EmojiKept'
    BY EmojiKeptStep DEF BInv
  <1>6. AccountKept' /\ RegisteredWhole'
    BY AccountStep DEF BInv
  <1>7. KeyKept'
    BY KeyStep DEF BInv
  <1>. QED
    BY <1>1, <1>2, <1>3, <1>4, <1>5, <1>6, <1>7 DEF BInv

LEMMA BInvAlways == Spec => []BInv
  BY InitBInv, NextBInv, PTL DEF Spec

\* No two requests are let in with one token, although ircQuery repeats a
\* validation whose answer was lost: a token that let a request in is spent.
THEOREM TokenLetsInOnce == Spec => []TokenOnce
  <1>1. BInv => TokenOnce
    BY DEF BInv
  <1>. QED
    BY <1>1, BInvAlways, PTL

\* The handlers of /irc/ never use a nil connection, although they look at
\* ircConn twice and without ircMu: it becomes nil only when nobody is served.
THEOREM ConnectionStays == Spec => []InfoNeverNil
  <1>1. BInv => InfoNeverNil
    BY DEF BInv
  <1>. QED
    BY <1>1, BInvAlways, PTL

\* An upload that is complete on disk and answered has a timer that removes it,
\* unless the process died since, or the removal of a rejected one failed
\* (uploadHandler, scheduled by AfterFunc).
THEOREM UploadsAreOwned == Spec => []UploadsOwned
  <1>1. BInv => UploadsOwned
    BY DEF BInv, UploadKept, UploadFor, UploadsOwned, OnDisk, Running
  <1>. QED
    BY <1>1, BInvAlways, PTL

\* Two avatars of one owner are on disk only when their uploads overlapped or
\* the directory or a file in it did not give way to removeOldUserAvatar: the
\* later one lists and removes the file of the earlier one.
THEOREM AvatarIsReplaced == Spec => []OneAvatar
  <1>1. BInv => OneAvatar
    BY DEF BInv, AvatarsApart, Apart, OneAvatar
  <1>. QED
    BY <1>1, BInvAlways, PTL

\* However uploads for one owner overlap, one of the acknowledged ones is left
\* on disk: who removes a file still has its own to make.
THEOREM AvatarSurvives == Spec => []AvatarLeft
  <1>1. BInv => AvatarLeft
    <2>. SUFFICES ASSUME BInv, NEW r \in Reqs, IsAvatar(r), req[r].reply = "ok",
                         \A s \in Rivals(r) : /\ ~Running(s) /\ req[s].own = req[r].own
                                              /\ req[s].reply = "ok"
                  PROVE  \E s \in Rivals(r) : file[s] = "whole"
      BY DEF AvatarLeft, Rivals
    <2>1. PICK s \in Rivals(r) : Holds(s)
      BY DEF BInv, OneHolds, Undisturbed
    <2>. QED
      BY <2>1 DEF Holds, Running
  <1>. QED
    BY <1>1, BInvAlways, PTL

\* An emoji that the pack lists with an uploaded file has that file, complete:
\* handleAddEmoji writes the row after the file and nothing removes it.
THEOREM EmojiHasFile == Spec => []EntryHasFile
  <1>1. BInv => EntryHasFile
    BY DEF BInv, EmojiKept, EntryHasFile
  <1>. QED
    BY <1>1, BInvAlways, PTL

\* An account without a verification code belongs to a registration that is
\* still at it, was cut short, or told its caller that it failed.
THEOREM AccountHasCode == Spec => []RegisteredWhole
  <1>1. BInv => RegisteredWhole
    BY DEF BInv
  <1>. QED
    BY <1>1, BInvAlways, PTL

\* The key that subscriptions were made with stays in use over restarts and
\* over crashes in InitWebPush, unless a write of its file failed or the file
\* could not be read, which InitWebPush takes for a first run.
THEOREM KeyIsStable == Spec => []KeyStable
  <1>1. BInv => KeyStable
    BY DEF BInv, KeyKept, KeyStable
  <1>. QED
    BY <1>1, BInvAlways, PTL
=============================================================================
