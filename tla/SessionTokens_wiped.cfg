SPECIFICATION Spec
CONSTANTS
  t1 = t1
  t2 = t2
  app = app
  browser = browser
  desktop = desktop
  Jars = {browser, desktop}
  Keychains = {desktop}
  Tabs = {t1, t2, app}
  JarOf <- MCJarOf
  MaxCalls = 2
  MaxFaults = 1
SYMMETRY TabsAlike
INVARIANTS
  UnsyncedIsOffered
CHECK_DEADLOCK FALSE
