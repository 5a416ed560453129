SPECIFICATION HomeSpec
CONSTANTS
    MaxClicks = 2
    MaxLoads = 2
    Animes = {a, b}
    MaxActions = 3
    Folders = {home, usb}
    Default = home
    Writes = {w1, w2}
    Kept = {k}
    Stamps = {1}
    None = None
    Zero = Zero
    Junk = Junk
    ListRows = 1
    MaxEpisodes = 2
SYMMETRY Alike
INVARIANTS ShownIsStored DetailIsItsAnime DetailIsAnswered ExpectedIsOpened WindowIsUsable
PROPERTIES FreshIsKept NothingIsDeleted
CHECK_DEADLOCK FALSE
