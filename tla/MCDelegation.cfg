CONSTANTS
  first = NoRun
  read = read
  shell = shell
  startup = startup
  work = work
  autostart = autostart
  delegate = delegate
  s1 = s1
  Sessions = {s1}
  NoSession = NoSession
  NoRun = NoRun
  NoCall = NoCall
  Delegate = delegate
  Kind <- KindOf
  Risk <- RiskOf
  Nowhere = Nowhere
  Within <- InWork
  Roots = {}
  NoRoot = NoRoot
  Places = {work, autostart}
  Profiles <- Defaults
  r1 = r1
  r2 = r2
  r3 = r3
  Runs = {r1, r2, r3}
  Calls = {delegate, read}
  MaxActive = 2
  Retained = 1
  MaxSpeakers = 2
  MaxCalls <- OneCall
  MaxFailures = 2
SYMMETRY Ids
SPECIFICATION Spec
INVARIANTS OneRunPerSession TurnHeldThroughout RepliesHaveMessage ChildrenEndFirst
PROPERTIES NoSpeakerAfterCancel NoToolAfterCancel
