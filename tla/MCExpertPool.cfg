SPECIFICATION Spec
CONSTANTS
  Customers = {0, 1}
  Experts = {0, 1}
  NumOrders = 2
INVARIANTS TypeOK OneRequestEach PoolIsAwake AssignedIsAwake OwnExpert
PROPERTY AllShipped
