SPECIFICATION Spec
\* The programs end.
CHECK_DEADLOCK FALSE
INVARIANTS
  ResultsRight
  SortersPrintSorted
  MonitorProgramsSafe
  CardsSafe
  FieldsComeBack
  PrintsThePage
  AnswersReadBack
PROPERTIES
  ArraysEnd
