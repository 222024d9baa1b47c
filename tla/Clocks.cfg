SPECIFICATION ClocksSpec
CONSTANTS
  SYSTICK_TICKS = 6
  Timeout = 3
  MaxGap = 6
  MaxReloads = 5
  Years = {1969, 1970, 1972, 1999, 2000, 2025, 2100, 2104, 2106, 2107}
  TimesOfDay = {0, 40959, 86399, 86400}
  MaxTicks = 1
INVARIANTS OnTime
PROPERTIES DatesKept
