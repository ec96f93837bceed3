SPECIFICATION SuiteSpec
CONSTANTS
  Transfers = {t1, t2}
  MaxLeft = 3
  MaxAdds = 3
  o1 = o1
  o2 = o2
  o3 = o3
  r1 = r1
  r2 = r2
  weak1 = weak1
  weak2 = weak2
  nil = nil
  Subjects = {"jobs", "imagejob", "boxes", "speeds", "timeleft", "display", "told", "toldagain", "sourcedies", "counted", "weak"}
INVARIANTS WindowsRight
PROPERTIES WindowsFollow
CHECK_DEADLOCK FALSE
