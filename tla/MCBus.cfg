SPECIFICATION Spec
CONSTANTS
    Root = root
    Subscribers = {s1, s2, s3}
    MaxEvents = 2
PROPERTIES ImplementsLog CloseCompletes EventsReachEverySubscriber
CHECK_DEADLOCK FALSE
