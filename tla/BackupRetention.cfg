SPECIFICATION Spec
CONSTANTS
  Horizon = 6
  Week <- DaysWeek
  Month <- DaysMonth
  Policies <- RecentTwo
  MaxFalls = 1
INVARIANTS
  MonthKept
  CopySurvives
PROPERTY CutsLeaveNoTrace
