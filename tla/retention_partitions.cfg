SPECIFICATION Spec
CONSTANTS
    LastMonth = 5
    MaxFailures = 1
INVARIANT OldPartitionsAreDropped
