CONSTANTS
    KeyLength = 5
    Level16 = 2
    Level24 = 4
    MinLength = 1
    Prefix <- MCPrefix
    Port = {1, 2}
    Announced <- MCAnnounced
    PORT_MAX = 3
    LEVEL24_CHUNK_NUM = 2
    LEVEL32_CHUNK_NUM = 3
    OffsetRange = 2
SPECIFICATION Spec
INVARIANTS TypeOK CorrectTrie TrieIsLongestMatch ChunksAgree FreshTables
