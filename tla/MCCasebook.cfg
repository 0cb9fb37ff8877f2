SPECIFICATION CasebookSpec
CONSTANTS
    i1 = i1
    i2 = i2
    i3 = i3
    Case = {i1, i2, i3}
    Catalog <- MCCatalog
    RaisedIn <- MCRaisedIn
    HostOf <- MCHostOf
    ChainOf <- MCChainOf
    TitleWords <- MCTitleWords
    Corpus <- MCCorpus
    Indexes <- MCIndexes
    Words <- MCWords
    MaxRecorded = 3
    Threshold = 12
    ThresholdPercent = 60
    MaxMatches = 1
    HistoryLimit = 2
INVARIANT CasebookTypeOK
INVARIANT SearchNarrows
INVARIANT NoiseSound
INVARIANT ExportsSound
INVARIANT SeverityDominates
PROPERTY StoryOnlySharpens
