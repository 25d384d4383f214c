SPECIFICATION Spec
CONSTANTS
    p1 = p1
    p2 = p2
    file = file
    shortcut = shortcut
    group = group
    leaf = leaf
    Process <- MCProcess
    Path = {file, shortcut}
    PathOf <- MCTwoNames
    LinkOf <- MCShortcut
    Key = {group, leaf}
    Under <- MCUnder
    Value = {1}
    AtFirst <- MCAtFirst
    Inode = {i1, i2, i3, i4}
    NoOne = NoOne
    MaxChanges = 2
    MaxSyncs = 3
    MaxCrashes = 1
INVARIANT NamesReadAlike
CHECK_DEADLOCK FALSE
