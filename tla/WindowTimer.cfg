\* Every schedule of the window thread over three periods, as late as it likes.
SPECIFICATION FairTimerSpec
CONSTANT Horizon = 3
INVARIANT WindowsCovered
PROPERTIES
    ImplementsWindowStream
    WindowsArePopped
CHECK_DEADLOCK FALSE
