\* A reused session key and a commit make the export refuse.
SPECIFICATION QuietSpec
CONSTANTS
  End = End
  Start = Start
  Stop = Stop
  Bare = Bare
  Lost = Lost
  Away = Away
  Repo1 = Repo1
  Repo2 = Repo2
  S1 = S1
  S2 = S2
  Dead = Dead
  Nothing = Nothing
  Outside = Outside
  Unset = Unset
  Payload = {End, Start, Stop, Bare, Lost, Away}
  Digest <- MCDigest
  SessionEnds = {End}
  Length <- MCLength
  Cwd <- MCCwd
  Script <- ReusedScript
  Session = {S1}
  Hook = {h1}
  Recoverer = {r1}
  MaxCommits = 1
  MaxDamage = 0
  MaxDeaths = 0
  MaxRefused = 0
  MaxTrajectoryBytes = 9
  Repository = {Repo1, Repo2}
INVARIANTS
  ExportAccepts
