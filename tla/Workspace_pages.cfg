SPECIFICATION FairSpec
CONSTANTS
  NotLoaded = NotLoaded
  Reading = Reading
  Focuses <- MCFocuses
  Pages <- MCPages
  Visible <- MCVisible
  Starts <- MCStarts
  Deeds = {"user", "smtp", "space", "backupJob", "container", "app", "vm", "settings", "dataset"}
  MaxClicks = 1
  MaxDeeds = 1
  MaxLoads = 2
INVARIANT PageIsRight
PROPERTIES DeedShown Settles
CHECK_DEADLOCK FALSE
