SPECIFICATION Spec
CONSTANTS
  Project = {cafe, demo}
  CrashTest = demo
  Input = {x, y}
  Client = {c1, c2}
  None = None
  Steps = 4
  Interrupted = {"create", "configure", "reset"}
INVARIANTS
  InstalledIsComplete
  SetupNeverStuck
  CodesResolve
PROPERTY
  CodesPermanent
