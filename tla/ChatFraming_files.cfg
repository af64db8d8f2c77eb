CONSTANTS
  ann = ann
  bob = bob
  cat = cat
  note = note
  bye = bye
  photo = photo
  Clients <- MCClients
  Friends <- MCFriends
  Files <- MCFiles
  Size <- MCSize
  Images <- MCImages
  Nuls <- MCNuls
  Exits <- MCExits
  NoAccess <- MCNoAccess
  Word = 2
  Kinds = {"one", "all", "file"}
  MaxSend = 2
SPECIFICATION Spec
INVARIANTS FilesExact Aligned TextsKept
CHECK_DEADLOCK FALSE
