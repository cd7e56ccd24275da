\* The owner's page over two documents of a type, a colleague beside it, and one fault.
\* The system may stop: nobody has to give a command.
SPECIFICATION FairSpec
CONSTANTS
    d1 = d1
    d2 = d2
    c1 = c1
    c2 = c2
    None = None
    Page = Page
    Docs = {d1, d2}
    Calls = {c1, c2}
    Stored <- MCStored
    Rights = {"upload", "edit", "approve", "own"}
    MaxAsked = 2
    MaxFaults = 1
INVARIANTS
    TypeOK
    MainVersionIsLive
PROPERTIES
    ApprovedStays
    BusyEnds
CHECK_DEADLOCK FALSE
