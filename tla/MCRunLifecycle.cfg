SPECIFICATION Spec
CONSTANTS
  Runs = 2
  Overlap = FALSE
  ReachedStages <- Stages
INVARIANTS
  OutcomeIsPublished
  RunAtWorkShowsFailure
  SuccessIsEarned
PROPERTY ReportIsARegister
