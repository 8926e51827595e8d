\* Ticks of three halves of a nanosecond, and a counter of 8 values.
SPECIFICATION ReportSpec
CONSTANTS
  Instant <- MCInstant
  PeriodNum = 3
  PeriodDen = 2
  Wrap = 8
  Deviation = 1
  LocalClock <- MCLocalClock
  LocalTime <- MCLocalTime
  DriftDen = 3
  CALIBRATION_PERIOD = 4
  None = None
INVARIANTS
  ReportTypeOK
  ConversionIsClose
  SampleIsClose
