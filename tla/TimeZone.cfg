SPECIFICATION Spec
CONSTANTS
    Spans <- MCSpans
    Stride = 900
INVARIANTS CalendarAgrees UtcAgrees LocalTimeReturns
CHECK_DEADLOCK FALSE
