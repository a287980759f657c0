CONSTANTS
  first = r1
  read = read
  shell = shell
  startup = startup
  work = work
  autostart = autostart
  delegate = delegate
  s1 = s1
  Sessions = {s1}
  NoSession = NoSession
  NoRun = NoRun
  NoCall = NoCall
  Delegate = delegate
  Kind <- KindOf
  Risk <- RiskOf
  Nowhere = Nowhere
  Within <- InWork
  Roots = {}
  NoRoot = NoRoot
  Places = {work, autostart}
  Profiles <- Defaults
  r1 = r1
  r2 = r2
  Runs = {r1, r2}
  Calls = {delegate, shell, startup}
  MaxActive = 2
  Retained = 2
  MaxSpeakers = 2
  MaxCalls <- FirstTwoCalls
  MaxFailures = 2
SPECIFICATION FairSpec
INVARIANTS PromptsHaveRunner
PROPERTIES AskedEachTime RunsEnd HoldsEnd
