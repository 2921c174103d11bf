\* The journal alone: two blocks with the marker, three transactions.
CONSTANTS
    Image = {x, y}
    Torn = Torn
    Blank = Blank
    VolumeBlocks = 2
    MaxTx = 2
    MaxSequence = 3
SPECIFICATION JournalSpec
INVARIANTS ExactlyTwoFates
