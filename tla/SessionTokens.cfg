SPECIFICATION Spec
CONSTANTS
  t1 = t1
  t2 = t2
  app = app
  browser = browser
  desktop = desktop
  Jars = {browser, desktop}
  Keychains = {desktop}
  Tabs = {t1, t2, app}
  JarOf <- MCJarOf
  MaxCalls = 4
  MaxFaults = 2
SYMMETRY TabsAlike
INVARIANTS
  OneLivePerFamily
  ReuseHasCause
PROPERTIES
  SignedOutForCause
  ImplementsFamilies
CHECK_DEADLOCK FALSE
