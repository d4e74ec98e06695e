CONSTANTS
    TopFloor = 2
    MaxPresses = 1
    MaxRequests = 3
SPECIFICATION Spec
INVARIANTS TypeOK DoorsClosedWhileMoving OneActivityAtATime StaysInTheBuilding RestsReady
PROPERTIES NeverPassesADestination HeadsForADestination NoRequestIsDropped
