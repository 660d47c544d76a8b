SPECIFICATION FairSpec
CONSTANTS
  u1 = u1
  u2 = u2
  u3 = u3
  i1 = i1
  i2 = i2
  NULL = NULL
  UUsers <- UThree
  IUsers <- ITwo
  Mortal <- UThree
  
PROPERTIES  SleepersReturn WakeReachesSomeone
