SPECIFICATION Spec
CONSTANTS
  x1 = x1
  x2 = x2
  y1 = y1
  y2 = y2
  Calls = {x1, x2}
  MaxLoads = 2
  Clicks = {x1, x2}
  c1 = c1
  c2 = c2
  Cameras = {c1, c2}
  MaxChat = 3
  MaxEvents = 3
  Questions = {x1, x2}
  Instances = {y1, y2}
  Deciders = {x1, x2}
  DeskRoles = {"chief"}
  Rules = {y1, y2}
  Toggles = {x1, x2}
  Users = {y1, y2}
  Requests = {x1, x2}
  Nobody = Nobody
  Replicas = {x1, x2}
  Attempts = 1
  Kept = 2
  MaxBroadcasts = 3
  Tabs = {x1, x2}
  Submissions = {y1, y2}
  MaxForms = 2
  MaxTexts = 2
  MaxDrafts = 3
  Files = {y1, y2}
  Keys = {c1}
  Done = 3
  MaxRows = 3
CHECK_DEADLOCK FALSE
SYMMETRY Symmetry
INVARIANT SessionFollowsTheUser
 
 
 
