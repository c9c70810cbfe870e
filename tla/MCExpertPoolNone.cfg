SPECIFICATION Spec
CONSTANTS
  Customers = {0}
  Experts = {0}
  NumOrders = 1
PROPERTIES DisconnectedEnds
