SPECIFICATION Spec
CONSTANTS
  Folders = {"a"}
  MaxClicks = 2
  MaxLoads = 2
  Parts = {"groups", "totp", "automation", "providers", "kubernetes"}
  MaxPaints = 3
  MaxMoves = 1
  MaxReads = 2
  MaxDeeds = 1
  Folder <- PhotosAndDocument
  Photos = {"p", "q"}
  Sizes = {"preview"}
  Levels = {1}
  Budgets <- OpensOrChanges
  NotLoaded = NotLoaded
  Off = Off
INVARIANT ListingBelongs
PROPERTIES DeedsAreShown PagesFill
CHECK_DEADLOCK FALSE
