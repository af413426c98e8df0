CONSTANTS
    Ids = {t1, t2, t3}
    MaxWaits = 9
SPECIFICATION Spec
INVARIANTS
    EdgesAreWaits
    FindsEveryCycle
    NoFalseAlarm
    PathFits
PROPERTY CheckEnds
