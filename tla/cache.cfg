SPECIFICATION Spec
CONSTANTS
    Handle = {h1, h2}
    NoPrefix = NoPrefix
    Prefixes <- TwoPrefixes
    Key <- OneKey
    Data = {good, alien}
    Decodable = {good}
    Absent = Absent
    Timeout <- Timeouts
    Second = 2
    MaxDuration = 8
    Forever = Forever
    MaxTime = 3
    MaxEntries = 1
SYMMETRY Symmetric
PROPERTIES ImplementsCache PrefixesApart
