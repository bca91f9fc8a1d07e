CONSTANTS
  MaxRises = 2
  MaxInputs = 3
  MaxQueue = 2
SPECIFICATION FairSpec
INVARIANTS
  AnnouncedUnlessTorn
  OncePerAlert
  AlertIsAnnounced
PROPERTY
  CacheIsRefreshed
CHECK_DEADLOCK FALSE
