CONSTANTS
    AllUpTo = 4
    Alphabet = {"{", "}", "[", "]", ",", ":", "a"}
    Strings = {"a", "b", "c", "e"}
    Escaped = {"e"}
    Hash <- MCHash
    Text <- MCText
    Docs <- MCDocs
    Steps = {"a", "b", "0", "1", "-", "~"}
    MaxPath = 2
    Caps = {1, 4, 23, 24}
    MaxDepth = 3
    FastDepth = 2
    MaxCount = 5
    MaxOffset = 23
    Block = 4
    MaxMembers = 4
    Names = {"a", "b", "c", "e"}
    EscapedNames = {"e"}
    NameText <- MCText
    NameHash <- MCProbeHash
    Objects <- MCProbeObjects
    StorageCap = 5
    MaxBuilds = 2
SPECIFICATION IndexSpec
INVARIANTS
    WalkSound
    BuildExact
    NavigationExact
    StorageExact
    RawExact
    LoopsExact
    ProbeSound
PROPERTY BuildReturns
CHECK_DEADLOCK FALSE
