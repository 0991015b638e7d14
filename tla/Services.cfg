CONSTANTS
  Handler = {h1, h2}
  Null = Null
  Name = {s1, s2}
  Key = {k1, k2}
  ProfilesApart <- MCProfilesApart
  User = {u1, u2}
  Schedule = {t1, t2, t3}
  Notifier = {n1}
  Admins = {u1}
  MaxSchedules = 1
  Apart <- MCApart
  RequestId = {h1, h2}
  MaxLines = 3
  Diagnosis = {h1, h2}
  Selections <- MCSelections
  MaxFaults = 1
  Site = {"A", "B"}
  Url = {"url1", "url2"}
  File = {"f1", "f2"}
  NewResult = {"n1"}
  OldSites <- MCOldSites
  OldResults <- MCOldResults
SPECIFICATION Spec
SYMMETRY Symmetry
INVARIANTS
  KeysStayHome
  SchedulesBounded
  NotifiersResolve
  AdminRemains
  FailuresExplained
  SuccessIsEarned
  SamplesAreTimes
  HonestNotAccused
  InterferenceSeen
  MigratedOnce
  NamesAgree
CHECK_DEADLOCK FALSE
