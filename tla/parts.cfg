SPECIFICATION Spec
INVARIANTS
    ResearchHolds
    CallsAccounted
    ReadingHolds
    GraphHolds
    ReportsHold
    PictureHolds
    PeopleHold
PROPERTIES
    NothingGoesBack
CHECK_DEADLOCK FALSE
