SPECIFICATION FairSpec
CONSTANTS
    p1 = p1
    p2 = p2
    file = file
    shortcut = shortcut
    group = group
    leaf = leaf
    Process <- MCProcess
    Path = {file}
    PathOf <- MCPathOf
    LinkOf <- MCLinkOf
    Key = {group, leaf}
    Under <- MCUnder
    Value = {1}
    AtFirst <- MCAtFirst
    Inode = {i1, i2, i3}
    NoOne = NoOne
    MaxChanges = 2
    MaxSyncs = 3
    MaxCrashes = 1
INVARIANTS OneWriterWholeFiles StampTellsTheTruth
PROPERTIES MergeKeepsOthers SyncReturns
CHECK_DEADLOCK FALSE
