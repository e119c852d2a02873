----------------------------- MODULE MediaFiles -----------------------------
(***************************************************************************)
(* The files that requests leave on disk: uploads with a limited life and  *)
(* avatars (main.go, uploads.go).  Names carry a time and, for uploads, a  *)
(* random suffix, so a request makes a file of its own: file[r].           *)
(***************************************************************************)
EXTENDS IrcRpc

CONSTANTS Items,       \* what is uploaded: its size fits, its extension, the type it
                       \* looks like (None: too short to say), whether an image
                       \* decodes, whether it is infected
          Allowed,     \* AllowedExtensions
          Images,      \* the image extensions
          Known,       \* extensions with an entry in magicBytePrefixes
          E2EE,        \* e2eeExtension
          Channels,
          Longer,      \* <<a, b>>: the name b is a, an underscore and more
          ClamAVEnabled

VARIABLES file,        \* none, part, whole or removed, or left where its removal failed
          timers,      \* uploads that an AfterFunc will remove
          crowded      \* avatar uploads that overlapped one for the same owner, or
                       \* whose removal, or removal of another, failed

fileVars == <<file, timers, crowded>>

OnDisk(r) == file[r] \in {"part", "whole", "left"}
Makes(r, state) == file' = [file EXCEPT ![r] = state]

-----------------------------------------------------------------------------
(* uploadHandler. *)

detectAndValidate(x) == /\ x.looks # None
                        /\ x.ext \in Known \cup {E2EE} => x.looks = x.ext

IsAllowed(ext) == ext \in Allowed

Kind(ext) == IF ext \in Images THEN "image" ELSE "other"

Accepts(x) == x.fits /\ IsAllowed(x.ext) /\ detectAndValidate(x)

\* Receive the body x; check it; decode and encode an image.
UploadBody(r, x) ==
  /\ req[r].h = "upload" /\ req[r].pc = "body"
  /\ IF Accepts(x) /\ (Kind(x.ext) = "image" => x.sound)
     THEN req' = [req EXCEPT ![r].pc = "write", ![r].body = x]
     ELSE Answer(r, "error")
  /\ UNCHANGED fileVars

\* WriteFile: what a failed one has written stays.
UploadWrite(r, result) ==
  /\ req[r].h = "upload" /\ req[r].pc = "write"
  /\ Makes(r, result)
  /\ IF result = "whole" THEN Step(r, "scan") ELSE Answer(r, "error")
  /\ UNCHANGED <<timers, crowded>>

\* scanWithClamAV: a scanner that is missing or ends with an error lets
\* everything pass, one that could not be run rejects.
Verdicts(x) == IF ~ClamAVEnabled THEN {"unscanned"}
               ELSE {"unscanned", "notrun", IF x.infected THEN "infected" ELSE "clean"}
Rejects(v) == v \in {"infected", "notrun"}

\* os.Remove, whose error is ignored.
Unlinked(ok) == IF ok THEN "removed" ELSE "left"

\* Wrong form: the file stays.
UploadScanKeeps(r, v, ok) ==
  /\ req[r].h = "upload" /\ req[r].pc = "scan" /\ v \in Verdicts(req[r].body)
  /\ IF Rejects(v) THEN Answer(r, "error") /\ UNCHANGED fileVars
     ELSE /\ Answer(r, "ok")
          /\ timers' = timers \cup {r} /\ UNCHANGED <<file, crowded>>

\* Scan; then remove the file, or schedule that and answer.
UploadScan(r, v, ok) ==
  /\ req[r].h = "upload" /\ req[r].pc = "scan" /\ v \in Verdicts(req[r].body)
  /\ IF Rejects(v) THEN Answer(r, "error") /\ Makes(r, Unlinked(ok)) /\ UNCHANGED <<timers, crowded>>
     ELSE /\ Answer(r, "ok")
          /\ timers' = timers \cup {r} /\ UNCHANGED <<file, crowded>>

\* Wrong form: files are swept while some request is served.
TimerFiresWhenBusy(r, ok) ==
  /\ proc = "up" /\ r \in timers /\ \E s \in Reqs : Running(s)
  /\ timers' = timers \ {r} /\ Makes(r, Unlinked(ok)) /\ UNCHANGED <<req, crowded>>

TimerFires(r, ok) ==
  /\ proc = "up" /\ r \in timers
  /\ timers' = timers \ {r} /\ Makes(r, Unlinked(ok)) /\ UNCHANGED <<req, crowded>>

-----------------------------------------------------------------------------
(* uploadUserAvatarHandler and uploadChannelAvatarHandler: on is the       *)
(* channel or None.                                                        *)

\* Only the branch for a multipart form takes 0 for a missing account.
Owner(r, form) ==
  LET n == Claims[req[r].tok].account
  IN IF req[r].h = "channelAvatar" THEN <<"channel", req[r].on>>
     ELSE <<"user", IF n = None /\ form THEN "0" ELSE n>>

IsAvatar(r) == req[r].own # None

\* The file names that the removal's prefix takes in.
NamedLike(o, p) == /\ o[1] = p[1]
                   /\ o[2] = p[2] \/ <<o[2], p[2]>> \in Longer

MayChange(r) ==
  LET c == Claims[req[r].tok]
  IN req[r].h = "channelAvatar" => c.account # None /\ c.operator

\* Receive the image, which has to decode, in a form or as it is.
AvatarBody(r, form, sound) ==
  /\ req[r].h \in {"userAvatar", "channelAvatar"} /\ req[r].pc = "body"
  /\ IF MayChange(r) /\ sound
     THEN req' = [req EXCEPT ![r] = [Ended(@, "list") EXCEPT !.own = Owner(r, form)]]
     ELSE Answer(r, "error")
  /\ UNCHANGED fileVars

SameOwner(r, s) == IsAvatar(s) /\ req[s].own = req[r].own

\* The avatars of the set are there beside r's.
Crowd(r, set) == crowded' = IF set = {} THEN crowded ELSE crowded \cup set \cup {r}

\* removeOldUserAvatar, removeOldChannelAvatar: list the directory, ...; when
\* that fails nothing is removed and the upload goes on.
AvatarList(r, ok) ==
  /\ IsAvatar(r) /\ req[r].pc = "list"
  /\ req' = [req EXCEPT ![r].pc = "remove",
       ![r].seen = {s \in Reqs : /\ ok /\ IsAvatar(s) /\ OnDisk(s)
                                 /\ NamedLike(req[r].own, req[s].own)}]
  /\ Crowd(r, {s \in Reqs : /\ SameOwner(r, s)
                             /\ \/ req[s].pc \in {"remove", "create", "fill"}
                                \/ ~ok /\ OnDisk(s)})
  /\ UNCHANGED <<file, timers>>

\* Wrong form: none is removed.
AvatarRemoveNone(r, stuck) ==
  /\ IsAvatar(r) /\ req[r].pc = "remove" /\ stuck \subseteq req[r].seen
  /\ Step(r, "create")
  /\ UNCHANGED fileVars

\* ... and remove what it listed, but for what cannot be removed.
AvatarRemove(r, stuck) ==
  /\ IsAvatar(r) /\ req[r].pc = "remove" /\ stuck \subseteq req[r].seen
  /\ file' = [s \in Reqs |-> IF s \in req[r].seen \ stuck THEN "removed" ELSE file[s]]
  /\ Crowd(r, {s \in stuck : SameOwner(r, s) /\ OnDisk(s)})
  /\ Step(r, "create")
  /\ UNCHANGED timers

\* Create and Write; either can fail, which leaves the account without.
AvatarCreate(r, ok) ==
  /\ IsAvatar(r) /\ req[r].pc = "create"
  /\ IF ok THEN Step(r, "fill") /\ Makes(r, "part")
           ELSE Answer(r, "error") /\ UNCHANGED file
  /\ UNCHANGED <<timers, crowded>>

\* Wrong form: what is left of others is removed after the write.
AvatarFillClears(r, ok) ==
  /\ IsAvatar(r) /\ req[r].pc = "fill"
  /\ IF ok THEN /\ Answer(r, "ok")
                /\ file' = [s \in Reqs |->
                     IF s = r THEN IF OnDisk(r) THEN "whole" ELSE file[r]
                     ELSE IF IsAvatar(s) /\ OnDisk(s) /\ req[s].own = req[r].own
                          THEN "removed" ELSE file[s]]
           ELSE Answer(r, "error") /\ UNCHANGED file
  /\ UNCHANGED <<timers, crowded>>

\* Removed meanwhile or not, the open file is written.
AvatarFill(r, ok) ==
  /\ IsAvatar(r) /\ req[r].pc = "fill"
  /\ IF ok THEN Answer(r, "ok") /\ Makes(r, IF OnDisk(r) THEN "whole" ELSE file[r])
           ELSE Answer(r, "error") /\ UNCHANGED file
  /\ UNCHANGED <<timers, crowded>>

-----------------------------------------------------------------------------
(* The three handlers. *)

uploadHandler(r) ==
  \/ \E x \in Items : UploadBody(r, x)
  \/ \E w \in {"none", "part", "whole"} : UploadWrite(r, w)
  \/ \E v \in {"clean", "infected", "unscanned", "notrun"}, ok \in BOOLEAN : UploadScan(r, v, ok)

AvatarSteps(r) ==
  \/ \E form, sound \in BOOLEAN : AvatarBody(r, form, sound)
  \/ \E ok \in BOOLEAN : AvatarList(r, ok)
  \/ \E stuck \in SUBSET Reqs : AvatarRemove(r, stuck)
  \/ \E ok \in BOOLEAN : AvatarCreate(r, ok)
  \/ \E ok \in BOOLEAN : AvatarFill(r, ok)

\* The branches for forms, images and addresses take the same steps.
uploadUserAvatarHandler(r) == req[r].h = "userAvatar" /\ AvatarSteps(r)
uploadChannelAvatarHandler(r) == req[r].h = "channelAvatar" /\ AvatarSteps(r)
=============================================================================
