SPECIFICATION FairSpec
CONSTANTS
  Answers <- OneDestination
  Valid = {"sa", "video"}
  Location = {1, 2}
  Playlist = {2}
  Control = TRUE
  LocalService = FALSE
INVARIANTS TypeOK UndefinedNeedsCause
PROPERTIES ListsWhatStays AnnouncementReceived SweepsGoOn
