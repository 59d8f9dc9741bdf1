CONSTANTS
  Replicas = {r1, r2}
  None = None
  Gone = Gone
  MaxFaults = 3
  MaxEnds = 2
SPECIFICATION FairLeaderSpec
INVARIANTS LeaderTypeOK OneLeader CandidateUnmarked
PROPERTIES LeadershipSettles
