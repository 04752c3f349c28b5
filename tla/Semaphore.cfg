SPECIFICATION SemaphoreSpec
CONSTANTS
  Callers = {a, b, c}
  MaxLimit = 2
INVARIANTS SlotsAccounted NoStrandedWaiter
