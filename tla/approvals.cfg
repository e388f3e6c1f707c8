SPECIFICATION Spec
CONSTANTS
  Actions = {x1}
  Requests = {r1, r2, r3}
  TTL = 1
  MaxTime = 2
  MaxKills = 1
  NULL = NULL
INVARIANTS
  UncontestedRunsOnce
  RefusedNeverRuns
  EffectsHaveConsent
  EffectsAreAudited
  OutcomesAreOnTrail
PROPERTY StalePreviewsNeverRun
CHECK_DEADLOCK FALSE
