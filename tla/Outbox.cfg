CONSTANTS
  Events = {1, 2}
  MaxAttempts = 2
  MaxCrashes = 2
SPECIFICATION OutboxFairSpec
INVARIANTS OutboxTypeOK NoEventLost GaugesCountFiles QuarantineIsFinal
PROPERTY ImplementsDelivery
