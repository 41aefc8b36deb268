\* Two processes, two files, two things that go wrong from outside.
CONSTANTS
    service = service
    session = session
    delivered = delivered
    Unset = Unset
    Sessions = {service, session}
    Files = {"doc", "tmp"}
    Paths = {Unset, delivered}
    Asked <- AskedOf
    MaxUpsets = 2
SPECIFICATION Spec
INVARIANTS
    ServingIsSound
    StartsLostAreFew
    EventsTellTheEnd
PROPERTIES
    RefusalMeansMended
