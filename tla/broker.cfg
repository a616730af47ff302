SPECIFICATION FairSpec
CONSTANTS
    Conns = {c1, c2}
    Projects = {dflt, p1}
    DefaultProject = dflt
    NoProject = NoProject
    NoEvent = NoEvent
    NotifierCap = 2
    MaxEvents = 3
INVARIANTS
    NoSendOnClosed
    RegistryExact
PROPERTIES
    ImplementsEventFeed
    EventsAreTaken
    ConnectionsEnd
CHECK_DEADLOCK FALSE
