SPECIFICATION LineSpec
CONSTANTS
  Word = Word
  Trailing = Trailing
  Excess = Excess
  Blank = Blank
  AsNumber <- MCAsNumber
  AsSwitch <- MCAsSwitch
  Unresolvable = "unresolvable"
  Existing <- MCExisting
  Still = {"photo", "photo2", "photo3"}
  Canonical <- MCCanonical
  ReportPath = "report"
  Bases <- MCBases
  Choices <- MCChoices
  MaxMore = 2
  Pictures = {"photo"}
  Clips = {"clip"}
  Papers = {"words"}
  Places = {"out"}
  Phrases = {"text"}
  Shapes <- MCShapes
  Figures = {0, 100}
  MaxGiven = 2
INVARIANTS
  NothingNotedIsUsed
  OutputsAreTheirOwn
  RulesFitTheTask
  ArgumentsAgree
  OffersRunAsTheirTask
  EveryParameterIsTaken
