\* Two events of one millisecond are ordered by digest.
SPECIFICATION Spec
CONSTANTS
  End = End
  Start = Start
  Stop = Stop
  Bare = Bare
  Lost = Lost
  Away = Away
  Repo1 = Repo1
  Repo2 = Repo2
  S1 = S1
  S2 = S2
  Dead = Dead
  Nothing = Nothing
  Outside = Outside
  Unset = Unset
  Payload = {End, Start, Stop, Bare, Lost, Away}
  Digest <- MCDigest
  SessionEnds = {End}
  Length <- MCLength
  Cwd <- MCCwd
  Script <- ShortScript
  Session = {S1}
  Hook = {h1}
  Recoverer = {r1}
  MaxCommits = 0
  MaxDamage = 0
  MaxDeaths = 0
  MaxRefused = 0
  MaxTrajectoryBytes = 9
  Repository = {Repo1, Repo2}
INVARIANTS
  ObservedOrder
