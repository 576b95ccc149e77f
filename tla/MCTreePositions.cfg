SPECIFICATION Spec
CONSTANTS
    Pool = {sapling, orchard}
    SizeLimit = 5
    MaxOutputs = 2
    Unreported = Unreported
    NoSizes = NoSizes
INVARIANTS
    TypeOK
    PositionsAreTrue
    CompleteServerAccepted
