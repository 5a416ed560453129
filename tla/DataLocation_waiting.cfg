SPECIFICATION Spec
CONSTANTS
    Folders = {home, usb}
    Default = home
    Writes = {w1, w2}
    Kept = {k}
    Stamps = {1}
    None = None
    Zero = Zero
    Junk = Junk
INVARIANT WaitingWriteIsKept
