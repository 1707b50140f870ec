SPECIFICATION Spec
CONSTANT Capacity = 2
PROPERTIES
    AbandonedPumpEnds
    DeadSocketIsNoticed
    QueuedIsWritten
CHECK_DEADLOCK FALSE
