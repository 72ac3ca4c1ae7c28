SPECIFICATION Spec
CONSTANTS
    Files <- MCFiles
    Offered <- MCOffered
    Kept <- MCKept
    Index <- MCIndex
    Sent <- MCSent
    Workers = {w1, w2}
    MaxListings = 1
    MaxFaults = 1
INVARIANTS
    TypeOK
    ListingIsTrue
    UploadIsTrue
    FileAnswersAreTrue
    UploadKeepsItsToken
SYMMETRY Symmetry
