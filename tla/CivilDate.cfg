SPECIFICATION DateSpec
CONSTANTS
  YearsBefore = 401
  MaxYear = 2401
  MaxDays = 30000
  Minute = 6
INVARIANTS DaysCountedRight ValidatorsAgree BothFormsRight
