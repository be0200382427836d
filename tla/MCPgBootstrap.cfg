SPECIFICATION FairSpec
CONSTANTS
  new1 = new1
  new2 = new2
  old = old
  Hosts <- MCHosts
  Entries = 2
  Journal <- MCJournal
  Size <- MCSize
  MaxCrashes = 2
INVARIANTS TagsAreTheSchema TagsArePrefix ReadyMeansMigrated
PROPERTIES HostsComeUp LevelsSpec
CHECK_DEADLOCK FALSE
