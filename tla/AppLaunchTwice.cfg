\* One launch in the app, attempted twice; the confirmation of its transactions may be lost.
CONSTANTS
    MaxLaunches = 2
    MaxFaults = 3
SPECIFICATION Spec
INVARIANTS FinishedNotSentAgain
CHECK_DEADLOCK FALSE

