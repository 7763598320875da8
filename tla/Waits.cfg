SPECIFICATION PartsSpec
CONSTANTS
    t1 = t1
    t2 = t2
    Tasks = {t1, t2}
    Served <- AllButListProjects
PROPERTIES EveryoneAnswered
CHECK_DEADLOCK FALSE
