\* One child at a time, every way to dump, to stop and to start.  Objects 0 and 1, of
\* which 0 is permanent and 1 a thing, are in one block, and 2, permanent, in another.
SPECIFICATION FairSpec
CONSTANTS
  Nothing = Nothing
  Top = 3
  BlockSize = 2
  God = 0
  Permanent = {0, 2}
  Attrs = {Money, Note}
  Money = Money
  Note = Note
  child = child
  Children = {child}
  Server = Server
  NoProcess = NoProcess
  ForkDumps = {TRUE, FALSE}
  Patient = TRUE
  Changed = {0, 2}
  Noted <- NoteOnThing
  Ops = {"flatfile", "nofork", "backup", "switch", "shutdown", "quit", "restart", "term", "crash", "kill"}
  MaxVer = 1
INVARIANTS DumpsInv SavedOrDirty StoppedIsSaved
PROPERTIES OnlyLostListsOrphan DiskNeverGoesBack ChangesReachDisk
