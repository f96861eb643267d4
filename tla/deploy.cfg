\* Every kind of fault, alone and combined.
SPECIFICATION Spec
CONSTANTS
  Faults = {"state", "admin", "lost", "launchd", "load", "lostload", "disk",
            "public", "crash", "caddy", "kill"}
  MaxFaults = 3
  MaxDeploys = 3
  MaxPending = 1
INVARIANTS UpstreamServes CompactsAlone CommittedEverywhere
PROPERTIES DrainedBeforeStop UpstreamRecovers Resumes HandsOver
\* Once the deploys are used up the system may rest.
CHECK_DEADLOCK FALSE
