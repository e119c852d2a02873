------------------------------- MODULE Backend -------------------------------
(***************************************************************************)
(* The process of main.go: it starts up, serves requests, and can be       *)
(* killed at any step.  The database, the files and the IRC server's       *)
(* tokens survive; requests, timers and the RPC connection do not.         *)
(* webpush.go's keypair is made at the first start and must stay the same, *)
(* for the public half is part of every subscription.                      *)
(***************************************************************************)
EXTENDS Tables

CONSTANT MaxCrashes    \* bound: how often the process is killed

VARIABLES vapid,       \* the keypair in memory, 0 for none
          keyFile,     \* its file: absent, torn, or a keypair
          nkeys,       \* keypairs generated so far
          given,       \* public keys that were handed out
          unsaved,     \* a keypair could not be written
          unread,      \* a file with a keypair could not be read
          ncrashes,
          earlier      \* requests of the process's earlier lives

keyVars == <<vapid, keyFile, nkeys, given, unsaved, unread>>
lifeVars == <<ncrashes, earlier, traffic>>
vars == <<proc, req, rpcVars, fileVars, tableVars, keyVars, lifeVars>>

-----------------------------------------------------------------------------
(* main, up to ListenAndServe. *)

\* InitDB: seedData adds the administrator where there is none.
BootDB ==
  /\ proc = "off" /\ proc' = "irc"
  /\ users' = IF \E u \in users : u.name = Admin THEN users
              ELSE users \cup {UserRow(Admin, Admin, AdminEmail, AdminPass)}
  /\ UNCHANGED <<req, rpcVars, fileVars, verifs, channels, attrs, packs, entries,
                 keyVars, lifeVars>>

\* InitIRCConn: a failure is only reported.
BootIrc(dialed) ==
  /\ proc = "irc" /\ proc' = "push"
  /\ ircConn' = IF dialed THEN "live" ELSE "nil"
  /\ UNCHANGED <<req, ircMu, unspent, nbreaks, fileVars, tableVars, keyVars, lifeVars>>

\* The keypair in the file.
Stored == IF keyFile.state = "whole" THEN {keyFile.key} ELSE {}

\* InitWebPush: the file's keypair; where there is none, or the file cannot be
\* read, a new one; where that cannot be made, the process goes on without.
\* Bound: the two failures, only where somebody asks for the key.
BootPush(reads, makes) ==
  /\ proc = "push" /\ ((reads /\ makes) \/ "vapidKey" \in traffic)
  /\ \/ /\ reads /\ vapid' \in Stored /\ proc' = "up"
        /\ UNCHANGED <<nkeys, unread>>
     \/ /\ reads => Stored = {}
        /\ unread' = (unread \/ Stored # {})
        /\ IF makes THEN vapid' = nkeys + 1 /\ proc' = "persist" /\ nkeys' = nkeys + 1
                    ELSE proc' = "up" /\ UNCHANGED <<vapid, nkeys>>
  /\ UNCHANGED <<req, rpcVars, fileVars, tableVars, keyFile, given, unsaved, lifeVars>>

\* Wrong form: not written.
BootPersistNot(ok) ==
  /\ proc = "persist" /\ proc' = "up"
  /\ UNCHANGED <<req, rpcVars, fileVars, tableVars, keyVars, lifeVars>>

\* ... which is written, over what was there; if that fails, perhaps half way,
\* the process goes on with it.
BootPersist(ok) ==
  /\ proc = "persist" /\ proc' = "up"
  /\ IF ok THEN keyFile' = [state |-> "whole", key |-> vapid]
           ELSE keyFile' \in {keyFile, [state |-> "torn", key |-> 0]}
  /\ unsaved' = (unsaved \/ ~ok)
  /\ UNCHANGED <<req, rpcVars, fileVars, tableVars, vapid, nkeys, given, unread, lifeVars>>

\* The public key, or an empty one.
handleVapidKey(r) ==
  /\ proc = "up" /\ req[r].pc = "idle" /\ "vapidKey" \in traffic
  /\ given' = given \cup ({vapid} \ {0})
  /\ req' = [req EXCEPT ![r] = [NewReq("vapidKey", "done") EXCEPT !.reply = "ok"]]
  /\ UNCHANGED <<proc, rpcVars, fileVars, tableVars, vapid, keyFile, nkeys,
                 unsaved, unread, lifeVars>>

\* Killed: a file that was being written is there in part, or not at all.
Crash ==
  /\ proc # "off" /\ ncrashes < MaxCrashes /\ ncrashes' = ncrashes + 1
  /\ proc' = "off"
  /\ req' = [r \in Reqs |-> IF Running(r) THEN Ended(req[r], "cut") ELSE req[r]]
  /\ \E torn \in SUBSET {r \in Reqs : req[r].pc \in {"write", "save"}} :
       file' = [r \in Reqs |-> IF r \in torn THEN "part" ELSE file[r]]
  /\ \/ UNCHANGED keyFile
     \/ proc = "persist" /\ keyFile' = [state |-> "torn", key |-> 0]
  /\ earlier' = {r \in Reqs : req[r].pc # "idle"}
  /\ ircConn' = "nil" /\ ircMu' = None /\ timers' = {} /\ vapid' = 0
  /\ UNCHANGED <<traffic, unspent, nbreaks, crowded, tableVars, nkeys, given, unsaved, unread>>

-----------------------------------------------------------------------------
(* Requests as they come in; the sets are small, the routes all of main's. *)

Ids == Reqs \cup {Admin}

TokenRequest(r) == \E t \in Tokens :
  \/ ArriveWithToken(r, "upload", t, None)
  \/ ArriveWithToken(r, "userAvatar", t, None)
  \/ \E c \in Channels : ArriveWithToken(r, "channelAvatar", t, c)

AccountRequest(r) ==
  \/ \E b \in [name : Names, email : Emails, pass : Passwords] :
       Arrive(r, "register", "users", None, b)
  \/ \E n \in Names, p \in Passwords : Arrive(r, "login", "read", n, p)
  \/ \E i \in Ids, b \in [email : Emails \cup {None}, pass : Passwords \cup {None}] :
       Arrive(r, "update", "sql", i, b)
  \/ \E c \in Reqs : Arrive(r, "verify", "sql", c, None)
  \/ \E n \in Names : Arrive(r, "registerChannel", "sql", n, None)
  \/ \E i \in Reqs : Arrive(r, "updateChannel", "sql", i, None)
  \/ \E i \in Ids : \/ Arrive(r, "userMetadata", "sql", <<i, "key">>, None)
                    \/ Arrive(r, "channelMetadata", "sql", <<i, "key">>, None)
                    \/ Arrive(r, "permissions", "sql", <<i, Admin>>, None)

OperRequest(r) ==
  \/ Arrive(r, "info", "check", None, None)
  \/ \E p \in Packs : \/ Arrive(r, "createPack", "sql", p, None)
                      \/ Arrive(r, "deletePack", "sql", p, None)
  \/ \E e \in Packs \X Codes :
       \/ Arrive(r, "addEmoji", "pack", e, None)
       \/ Arrive(r, "deleteEmoji", "sql", e, None)

Enter(r) == /\ TokenRequest(r) \/ AccountRequest(r) \/ OperRequest(r) \/ TurnAway(r)
            /\ UNCHANGED <<proc, fileVars, tableVars, keyVars, lifeVars>>

\* What a goroutine does next for its request.
RpcStep(r) ==
  /\ \/ Lock(r)
     \/ \E b \in BOOLEAN : Dial(r, b)
     \/ Query(r)
     \/ \E b \in BOOLEAN : QueryFails(r, b)
     \/ QueryRefused(r)
     \/ \E b \in BOOLEAN : Redial(r, b)
     \/ InfoCheck(r)
     \/ \E b \in BOOLEAN : InfoAsk(r, b)
  /\ UNCHANGED <<proc, fileVars, tableVars, keyVars, lifeVars>>

FileStep(r) ==
  /\ uploadHandler(r) \/ uploadUserAvatarHandler(r) \/ uploadChannelAvatarHandler(r)
  /\ UNCHANGED <<proc, rpcVars, tableVars, keyVars, lifeVars>>

TableStep(r) ==
  /\ \/ StatementFails(r)
     \/ RegisterUser(r)
     \/ RegisterCode(r)
     \/ LoginRead(r)
     \/ LoginStamp(r)
     \/ UpdateAccount(r)
     \/ \E b \in BOOLEAN : VerifyEmail(r, b)
     \/ SetUserMetadata(r)
     \/ RegisterChannel(r)
     \/ UpdateChannel(r)
     \/ SetChannelMetadata(r)
     \/ SetChannelPermissions(r)
     \/ CreatePack(r)
     \/ DeletePack(r)
     \/ AddEmojiRow(r)
     \/ DeleteEmoji(r)
  /\ UNCHANGED <<proc, rpcVars, fileVars, keyVars, lifeVars>>

EmojiStep(r) ==
  /\ \/ \E x \in Items \cup {None} : AddEmojiPack(r, x)
     \/ \E w \in {"none", "part", "whole"} : AddEmojiSave(r, w)
  /\ UNCHANGED <<proc, rpcVars, keyVars, lifeVars>>

Serve(r) == RpcStep(r) \/ FileStep(r) \/ TableStep(r) \/ EmojiStep(r)

Expire(r) == /\ \E ok \in BOOLEAN : TimerFires(r, ok)
             /\ UNCHANGED <<proc, rpcVars, tableVars, keyVars, lifeVars>>

LinkLoss == LinkLost /\ UNCHANGED <<proc, fileVars, tableVars, keyVars, lifeVars>>

-----------------------------------------------------------------------------
\* Nothing there yet, or what an earlier run left: the administrator, packs
\* and the keypair.  The handlers of files do not see the difference.
FirstStart == /\ users = {} /\ packs = {} /\ nkeys = 0
              /\ keyFile = [state |-> "absent", key |-> 0]
              /\ traffic \cap {"vapidKey", "register", "createPack"} # {}
LaterStart == /\ users = {UserRow(Admin, Admin, AdminEmail, AdminPass)} /\ packs = Packs
              /\ nkeys = 1 /\ keyFile = [state |-> "whole", key |-> 1]

Init ==
  /\ traffic \in Traffic
  /\ proc = "off" /\ req = [r \in Reqs |-> NoReq]
  /\ ircConn = "nil" /\ ircMu = None /\ unspent = Tokens /\ nbreaks = 0
  /\ file = [r \in Reqs |-> "none"] /\ timers = {} /\ crowded = {}
  /\ FirstStart \/ LaterStart
  /\ verifs = {} /\ channels = {} /\ attrs = {} /\ entries = {}
  /\ vapid = 0 /\ given = {} /\ unsaved = FALSE /\ unread = FALSE
  /\ ncrashes = 0 /\ earlier = {}

Next == \/ BootDB
        \/ \E b \in BOOLEAN : BootIrc(b)
        \/ \E reads, makes \in BOOLEAN : BootPush(reads, makes)
        \/ \E b \in BOOLEAN : BootPersist(b)
        \/ Crash
        \/ LinkLoss
        \/ \E r \in Reqs : Enter(r) \/ handleVapidKey(r) \/ Serve(r) \/ Expire(r)

\* A request depends on somebody else, and no timeout limits how long: the
\* client that sends a body, the address it is fetched from, the IRC server
\* (asked with ircMu held, or without), the scanner.
Remote(r) == req[r].pc \in {"body", "pack", "dial", "query", "retry", "redial", "ask", "scan"}

\* ... or waits for ircMu behind one that does.
HeldUp(r) == Remote(r) \/ (req[r].pc = "auth" /\ ircMu # None /\ Remote(ircMu))

\* The Go scheduler runs every goroutine and timer on; statements and file
\* operations return.
Fairness == \A r \in Reqs : WF_vars(~Remote(r) /\ Serve(r)) /\ WF_vars(Expire(r))

Spec == Init /\ [][Next]_vars /\ Fairness

-----------------------------------------------------------------------------
(* Properties. *)

\* One upload per token: however often ircQuery repeats a validation whose
\* answer was lost, no two requests get in with the same token.
TokenOnce ==
  \A r, s \in Reqs : r # s /\ req[r].auth /\ req[s].auth => req[r].tok # req[s].tok

\* A request for /irc/... that found a connection still finds one when it uses
\* it, although ircQuery replaces it under a mutex that these handlers ignore.
InfoNeverNil == \A r \in Reqs : req[r].pc = "ask" => ircConn # "nil"

\* No upload is forgotten on disk: one whose request has ended will be removed
\* by a timer, unless the process died since, the write itself had failed, or
\* os.Remove did (uploadHandler: rejected by the scanner, it is gone).
UploadsOwned ==
  \A r \in Reqs : req[r].h = "upload" /\ OnDisk(r) =>
    Running(r) \/ r \in timers \/ r \in earlier \/ file[r] \in {"part", "left"}

\* Two avatars of one owner are on disk only when their uploads overlapped or
\* the removal of an older one failed (removeOldUserAvatar ignores that the
\* directory cannot be read and that a file cannot be removed); failed writes
\* and crashes do not lead to it.
OneAvatar ==
  \A r, s \in Reqs :
    /\ r # s /\ IsAvatar(r) /\ IsAvatar(s) /\ req[r].own = req[s].own
    /\ OnDisk(r) /\ OnDisk(s)
    => {r, s} \subseteq crowded

\* An owner whose upload was acknowledged has an avatar whenever no upload that
\* may remove it is at work: of overlapping uploads at least one survives.
\* Excepted: one of them failed or was cut short, or the owner's name
\* continues another's after an underscore.
AvatarLeft ==
  \A r \in Reqs :
    LET rivals == {s \in Reqs : IsAvatar(s) /\ NamedLike(req[s].own, req[r].own)}
    IN /\ IsAvatar(r) /\ req[r].reply = "ok"
       /\ \A s \in rivals : ~Running(s) /\ req[s].own = req[r].own /\ req[s].reply = "ok"
       => \E s \in rivals : file[s] = "whole"

\* An emoji that the pack lists with an uploaded file has that file, complete,
\* whatever was killed or failed in between.
EntryHasFile == \A e \in entries : e.url # None => file[e.url] = "whole"

\* An account has its verification code, unless its registration is still at
\* it, was cut short, or told the caller that it failed.
RegisteredWhole ==
  \A u \in users : u.id # Admin =>
    \/ \E v \in verifs : v.user = u.id
    \/ req[u.id].pc \in {"verifs", "cut"} \/ req[u.id].reply = "error"

\* The public key that subscriptions were made with stays the one in use over
\* restarts and over crashes of the first start, unless it could not be saved
\* or its file could not be read.  The comment of InitWebPush says "must be
\* stable across restarts", but there a file that is whole and unreadable for
\* once is taken for a first run and overwritten.
KeyStable == proc = "up" /\ ~unsaved /\ ~unread => given \subseteq {vapid}

\* Every request is answered or dies with the process, unless somebody it
\* depends on keeps it waiting for ever, and behind it those that wait for
\* ircMu: no path of the code leaves ircMu locked or waits for itself.
RequestsEnd == \A r \in Reqs : Running(r) ~> (~Running(r) \/ []HeldUp(r))

\* An accepted upload does not outlive its time, unless the process does not
\* live as long or its removal fails.
UploadExpires ==
  \A r \in Reqs : (req[r].h = "upload" /\ req[r].reply = "ok")
                    ~> (~OnDisk(r) \/ r \in earlier \/ file[r] = "left")
=============================================================================
