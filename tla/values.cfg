SPECIFICATION Spec
CONSTANTS
  DaySecs = 6
  Ticks = 3
  Millis = 10
  Micros = 100
  SybDays = 5
  MinSecs <- MCMinSecs
  MaxSecs = 71
  Word = 58
  IntMaxText <- MCIntMaxText
  Numbers <- MCNumbers
  Texts <- MCTexts
  Dates <- MCDates
  MinuteSecs = 2
  YearZeroSecs = 42
INVARIANTS
  TypeOK
  NumbersExact
  TextsRead
  ServerDatesRead
  DatesRoundTrip
PROPERTIES
  WrittenBackUnchanged
  RefusedDates
