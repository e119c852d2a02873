SPECIFICATION Spec
CONSTANTS
  None = None
  r1 = r1 r2 = r2
  t1 = t1 t2 = t2 t3 = t3
  a = a
  Reqs = {r1, r2}
  Tokens = {t1, t2, t3}
  Claims <- MCClaims
  MaxBreaks = 1
  Traffic <- MCTraffic
  MaxCrashes = 1
  Items <- MCItems
  Allowed = {"png", "mp4"}
  Images = {"png"}
  Known = {"png", "mp4"}
  EmojiExts = {"png"}
  E2EE = "obb"
  Channels = {chan}
  Longer <- MCLonger
  ClamAVEnabled = TRUE
  Names = {n1}
  Emails = {e1}
  Passwords = {p1}
  Packs = {pack}
  Codes = {smile}
  Admin = Admin
  AdminEmail = AdminEmail
  AdminPass = AdminPass
INVARIANTS TokenOnce InfoNeverNil UploadsOwned OneAvatar AvatarLeft EntryHasFile RegisteredWhole KeyStable
PROPERTIES RequestsEnd UploadExpires
CHECK_DEADLOCK FALSE
