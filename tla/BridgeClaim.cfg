SPECIFICATION Spec
CONSTANTS
  Source = {1, 2}
  MaxPriority = 2
  Other = Other
PROPERTIES ClaimReachesCpu
