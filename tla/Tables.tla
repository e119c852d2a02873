------------------------------- MODULE Tables -------------------------------
(***************************************************************************)
(* The database (db.go) and the handlers that write it: accounts, channels *)
(* and emoji packs (account.go, channel.go, emoji.go).  Every statement is *)
(* atomic and there are no transactions; foreign keys are declared, but    *)
(* never enforced.  Rows are numbered by the request that made them.       *)
(* Timestamps, topics, modes and descriptions are left out.                *)
(***************************************************************************)
EXTENDS MediaFiles

CONSTANTS Names,       \* account and channel names
          Emails,
          Passwords,
          Packs,
          EmojiExts,   \* extensions of emoji files
          Codes,       \* shortcodes
          Admin,
          AdminEmail,
          AdminPass

VARIABLES users,       \* rows of users
          verifs,      \* rows of email_verifications; the code is the request's own
          channels,    \* rows of channels
          attrs,       \* user_metadata, channel_metadata and channel_permissions
          packs,       \* rows of emoji_packs
          entries      \* rows of emoji_entries; url is the request that saved the
                       \* file, or None for an address elsewhere

tableVars == <<users, verifs, channels, attrs, packs, entries>>

UserRow(id, n, e, p) == [id |-> id, name |-> n, email |-> e, pass |-> p]

\* A statement that the database refuses changes nothing; the handler says so.
StatementFails(r) ==
  /\ req[r].pc \in {"users", "verifs", "sql", "pack", "row", "read"}
  /\ Answer(r, "error")
  /\ UNCHANGED tableVars

-----------------------------------------------------------------------------
(* account.go. *)

\* handleRegisterAccount: body is the name, email and password.
RegisterUser(r) ==
  /\ req[r].h = "register" /\ req[r].pc = "users"
  /\ LET b == req[r].body
     IN IF \E u \in users : u.name = b.name \/ u.email = b.email
        THEN Answer(r, "error") /\ UNCHANGED users
        ELSE /\ users' = users \cup {UserRow(r, b.name, b.email, b.pass)}
             /\ Step(r, "verifs")
  /\ UNCHANGED <<verifs, channels, attrs, packs, entries>>

\* Wrong form: the answer does not wait for the code.
RegisterAnswersEarly(r) ==
  /\ req[r].h = "register" /\ req[r].pc = "verifs"
  /\ Answer(r, "ok")
  /\ UNCHANGED tableVars

RegisterCode(r) ==
  /\ req[r].h = "register" /\ req[r].pc = "verifs"
  /\ verifs' = verifs \cup {[user |-> r, code |-> r, verified |-> FALSE]}
  /\ Answer(r, "ok")
  /\ UNCHANGED <<users, channels, attrs, packs, entries>>

\* handleLogin: read the row by name; check the password and stamp the row,
\* which may fail unnoticed.
LoginRead(r) ==
  /\ req[r].h = "login" /\ req[r].pc = "read"
  /\ LET found == {u \in users : u.name = req[r].on}
     IN IF \E u \in found : u.pass = req[r].body
        THEN req' = [req EXCEPT ![r].pc = "stamp", ![r].seen = found]
        ELSE Answer(r, "error")
  /\ UNCHANGED tableVars

LoginStamp(r) ==
  /\ req[r].h = "login" /\ req[r].pc = "stamp"
  /\ Answer(r, "ok")
  /\ UNCHANGED tableVars

\* handleUpdateAccount: the fields that are given, for the row numbered on.
UpdateAccount(r) ==
  /\ req[r].h = "update" /\ req[r].pc = "sql"
  /\ LET b == req[r].body
         set(u) == IF u.id # req[r].on THEN u
                   ELSE [u EXCEPT !.email = IF b.email = None THEN @ ELSE b.email,
                                  !.pass = IF b.pass = None THEN @ ELSE b.pass]
         found == \E u \in users : u.id = req[r].on
         taken == \E u \in users : u.id # req[r].on /\ u.email = b.email
     IN IF (b.email = None /\ b.pass = None) \/ ~found \/ taken
        THEN Answer(r, "error") /\ UNCHANGED users
        ELSE users' = {set(u) : u \in users} /\ Answer(r, "ok")
  /\ UNCHANGED <<verifs, channels, attrs, packs, entries>>

Verifies(v, code) == v.code = code /\ ~v.verified

\* handleVerifyEmail: late is whether the code has expired.
VerifyEmail(r, late) ==
  /\ req[r].h = "verify" /\ req[r].pc = "sql"
  /\ LET hit == {v \in verifs : ~late /\ Verifies(v, req[r].on)}
     IN /\ verifs' = (verifs \ hit) \cup {[v EXCEPT !.verified = TRUE] : v \in hit}
        /\ Answer(r, IF hit = {} THEN "error" ELSE "ok")
  /\ UNCHANGED <<users, channels, attrs, packs, entries>>

\* INSERT OR REPLACE: on is <<id, key>>; any id will do.
Upsert(r) ==
  /\ req[r].pc = "sql"
  /\ LET at == <<req[r].h, req[r].on>>
     IN attrs' = {x \in attrs : x.at # at} \cup {[at |-> at, by |-> r]}
  /\ Answer(r, "ok")
  /\ UNCHANGED <<users, verifs, channels, packs, entries>>

SetUserMetadata(r) == req[r].h = "userMetadata" /\ Upsert(r)

-----------------------------------------------------------------------------
(* channel.go. *)

RegisterChannel(r) ==
  /\ req[r].h = "registerChannel" /\ req[r].pc = "sql"
  /\ IF \E c \in channels : c.name = req[r].on
     THEN Answer(r, "error") /\ UNCHANGED channels
     ELSE /\ channels' = channels \cup {[id |-> r, name |-> req[r].on, by |-> r]}
          /\ Answer(r, "ok")
  /\ UNCHANGED <<users, verifs, attrs, packs, entries>>

\* by: who wrote the topic and modes last.
UpdateChannel(r) ==
  /\ req[r].h = "updateChannel" /\ req[r].pc = "sql"
  /\ LET hit == {c \in channels : c.id = req[r].on}
     IN /\ channels' = (channels \ hit) \cup {[c EXCEPT !.by = r] : c \in hit}
        /\ Answer(r, IF hit = {} THEN "error" ELSE "ok")
  /\ UNCHANGED <<users, verifs, attrs, packs, entries>>

SetChannelMetadata(r) == req[r].h = "channelMetadata" /\ Upsert(r)

\* Here the key is the user.
SetChannelPermissions(r) == req[r].h = "permissions" /\ Upsert(r)

-----------------------------------------------------------------------------
(* emoji.go. *)

CreatePack(r) ==
  /\ req[r].h = "createPack" /\ req[r].pc = "sql"
  /\ packs' = packs \cup {req[r].on}
  /\ Answer(r, IF req[r].on \in packs THEN "error" ELSE "ok")
  /\ UNCHANGED <<users, verifs, channels, attrs, entries>>

\* The entries stay.
DeletePack(r) ==
  /\ req[r].h = "deletePack" /\ req[r].pc = "sql"
  /\ packs' = packs \ {req[r].on}
  /\ Answer(r, IF req[r].on \in packs THEN "ok" ELSE "error")
  /\ UNCHANGED <<users, verifs, channels, attrs, entries>>

packExists(p) == p \in packs

\* handleAddEmoji: on is <<pack, shortcode>>, x the file, or None for an
\* address.  First packExists, then the file, then the row.
AddEmojiPack(r, x) ==
  /\ req[r].h = "addEmoji" /\ req[r].pc = "pack"
  /\ \/ ~packExists(req[r].on[1]) /\ Answer(r, "error")
     \/ packExists(req[r].on[1]) /\ x = None /\ Step(r, "row")
     \/ /\ packExists(req[r].on[1]) /\ x # None
        /\ IF x.fits /\ x.ext \in EmojiExts /\ detectAndValidate(x)
           THEN req' = [req EXCEPT ![r].pc = "save", ![r].body = "file"]
           ELSE Answer(r, "error")
  /\ UNCHANGED <<tableVars, fileVars>>

\* Wrong form: a failed write goes unnoticed.
AddEmojiSaveAnyway(r, result) ==
  /\ req[r].h = "addEmoji" /\ req[r].pc = "save"
  /\ Makes(r, result) /\ Step(r, "row")
  /\ UNCHANGED <<tableVars, timers, crowded>>

\* handleEmojiUpload: the file stays whatever becomes of the row.
AddEmojiSave(r, result) ==
  /\ req[r].h = "addEmoji" /\ req[r].pc = "save"
  /\ Makes(r, result)
  /\ IF result = "whole" THEN Step(r, "row") ELSE Answer(r, "error")
  /\ UNCHANGED <<tableVars, timers, crowded>>

Entry(r) == [pack |-> req[r].on[1], code |-> req[r].on[2],
             url |-> IF req[r].body = None THEN None ELSE r]

AddEmojiRow(r) ==
  /\ req[r].h = "addEmoji" /\ req[r].pc = "row"
  /\ IF \E e \in entries : e.pack = req[r].on[1] /\ e.code = req[r].on[2]
     THEN Answer(r, "error") /\ UNCHANGED entries
     ELSE entries' = entries \cup {Entry(r)} /\ Answer(r, "ok")
  /\ UNCHANGED <<users, verifs, channels, attrs, packs>>

DeleteEmoji(r) ==
  /\ req[r].h = "deleteEmoji" /\ req[r].pc = "sql"
  /\ LET hit == {e \in entries : e.pack = req[r].on[1] /\ e.code = req[r].on[2]}
     IN /\ entries' = entries \ hit
        /\ Answer(r, IF hit = {} THEN "error" ELSE "ok")
  /\ UNCHANGED <<users, verifs, channels, attrs, packs>>
=============================================================================
