SPECIFICATION Spec
CONSTANTS
  Companies = {"GOOG", "MSFT", "AMZN"}
  BuyCosts = {100}
  SellCosts = {110}
  Volumes = {10}
  PERIOD = 4
  POINTS = 2
INVARIANTS BlueTellsOfAll
