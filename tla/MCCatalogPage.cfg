SPECIFICATION PageSpec
CONSTANTS
  m1 = m1
  m2 = m2
  None = None
  Md5s <- SmallMd5s
  Texts <- SmallTexts
  Layouts <- SmallLayouts
  Pages <- SmallPages
INVARIANTS
  DamageIsLocal
  DriftIsNoAnswer
CHECK_DEADLOCK FALSE
