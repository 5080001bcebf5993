SPECIFICATION FairSpec
CONSTANTS
    claus = claus
    none = none
    r1 = r1
    r2 = r2
    r3 = r3
    e1 = e1
    e2 = e2
    e3 = e3
    Claus <- claus
    None <- none
    Reindeers <- TwoReindeer
    Elves <- TwoElves
    ELVES_WAITING_FOR_SANTA = 2
    MaxDeliveries = 2
PROPERTIES GroupServed HerdDelivered WaitingElfResumes
