SPECIFICATION PartsSpec
CONSTANTS
  c1 = c1
  c2 = c2
  s1 = s1
  s2 = s2
  t1 = t1
  t2 = t2
  Catalogue <- TwoInOrder
  Best = 1
  Days = {0, 2, 5, 7}
  Today = 7
  FreshDays = 2
  StaleDays = 5
  Week = 2
  Slots = 2
  MaxReadings = 3
  Savers <- TwoSavers
  Trackers <- TwoTrackers
  Targets <- LowThenHigh
  MaxComputed = 3
  MaxTracked = 2
SYMMETRY Alike
CHECK_DEADLOCK FALSE
INVARIANTS ReadersAgree CadenceCounts StandingExplained MilestonesDated
