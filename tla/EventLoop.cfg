SPECIFICATION FairSpec
CONSTANTS
    c1 = c1
    c2 = c2
    Clients <- MCClients
    Loop = loop
    MaxFunctors = 3
INVARIANTS TypeOK NoLostWakeup ExactlyOnceInOrder
PROPERTIES ImplementsExecutor FunctorsEventuallyRun QuitEndsRunningLoop
