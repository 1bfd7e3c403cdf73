SPECIFICATION Spec
CONSTANTS
  iphone = iphone
  photo = photo
  first = first
  second = second
  Zips = {iphone}
  Entries <- TheEntries
  Databases = {}
  Indexed = {iphone}
  References = {photo}
  Artifacts = {}
  Folders = {first, second}
  Wishes <- TheWishes
  MaxRuns = 2
  Faults = {}
INVARIANT AbsentFromZip
CHECK_DEADLOCK FALSE
