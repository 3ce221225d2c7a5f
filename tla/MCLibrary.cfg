\* Of System: three descriptors or maps among four numbers or five pages; files
\* of up to seven bytes, read in chunks of two.
\* Of Views: texts of a null, a separator and a letter; blocks of up to four
\* elements from sources of up to six; up to four rows.
\* Of Buffers: six pages of two bytes with a window of two pages, asked for every
\* address and one past the end; three processes that construct a circular buffer
\* with two names between them and two retries.  The instances of the other parts
\* are in MCLibrary.
CONSTANTS
    Objects = {"a", "b", "c"}
    Descriptors = 4
    Pages = 5
    MaxPages = 2
    Lengths = {0, 1, 2, 3, 4, 5, 6, 7}
    CHUNK_SIZE = 2
    Period = 3
    MaxTime = 11
    MaxTests = 3
    Threads = {1, 2}
    MaxLogs = 3
    Names = {"first", "second", "third"}
    TextBytes = {0, 44, 97}
    Separator = 44
    MaxText = 4
    MaxCuts = 2
    BlockSizes = {1, 2, 3, 4}
    MaxSource = 6
    MaxFed = 12
    RowKeys = {1, 2, 3}
    MaxRows = 4
    Points <- Spots
    Boxes <- Blocks
    Offsets <- Shifts
    MaxSeen = 3
    MaxMoves = 1
    Sources <- OctetSources
    Codepoints <- LimitCodepoints
    Page = 2
    Reserved = 11
    Window = 3
    Asked = {0, 1, 2, 3, 4, 5, 6, 7, 8, 9, 10, 11, 12, 13}
    Procs = {"p", "q", "r"}
    Leaves = {"name", "other"}
    Retries = 2
    HalfSize = 2
    Nowhere = Nowhere
    Nobody = "nobody"
SPECIFICATION MCSpec
INVARIANTS  ReadersAgree RoundTrip Comparison Conversions Verdict LimitsKept GeometrySound ArithmeticSound DigestsSound CyclesWhole CodecsSound ParsersSound WalksWhole SystemSound
    PagesMatchCursor RingSafe
PROPERTIES DefaultsOnly DataKept
CHECK_DEADLOCK FALSE
