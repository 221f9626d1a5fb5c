\* Two world servers for one row and one port, the authentication server and
\* the database, which all may fail and start again any number of times.
CONSTANTS
  Worlds = {w1, w2}
  Auth = auth
SPECIFICATION FairSpec
INVARIANTS
  TypeOK
  StartingIsNotListed
PROPERTIES
  OnlineOnlyWhileListening
  AnnouncedIsListed
