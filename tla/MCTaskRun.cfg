SPECIFICATION Spec
CONSTANTS
  MaxSources = 3
  MaxIterations = 2
  WarmupRounds = 2
INVARIANTS
  FailureNamesItsStage
  TimesMatchSamples
  NoSourceIsSkipped
  SamplesHaveArtifacts
  EncodedPayloadIsTheFile
  FlagsAreHonoured
  ServerFitsTheRun
