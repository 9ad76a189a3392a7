SPECIFICATION SettingsSpec
CONSTANTS
  Attempts = {a1, a2}
  Cancellers = {c1}
  Pollers = {p1}
  NoOne = NoOne
  BatchSizes = {1, 2}
  Environment = {"cancelNamed", "cancelBroad", "poll", "crash", "fault"}
SYMMETRY CallerSymmetry
INVARIANT TypeOK
INVARIANT CancelledOnlyWhenAsked
INVARIANT FlagsAreSweptUnfailing
INVARIANT OneMoreUserAtMost
INVARIANT VerdictHidesNoFailure
PROPERTY VerdictIsFinal
PROPERTY YoungOwnerIsAlone
CHECK_DEADLOCK FALSE
