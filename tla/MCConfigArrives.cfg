SPECIFICATION FairConfigSpec
CONSTANTS
  g1 = g1
  v1 = v1
  Gateway = {g1}
  Saver = {v1}
  NSections = 2
  Unbuildable = {2}
  MaxGeneration = 1
  MaxOutages = 1
CHECK_DEADLOCK FALSE
PROPERTIES
  ConfigArrives
