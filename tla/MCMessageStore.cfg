SPECIFICATION Spec
CONSTANTS
    Contacts = {c1}
    Groups = {g1}
    NoThread = NoThread
    Capacity = 3
    MaxTime = 1
INVARIANTS
    SummariesAreTrue
    OutcomeShown
    ReplyBlockHolds
