\* A custom request of up to three pages, the three other generators on lists
\* of up to five events, and their endpoints; a beam of two.
CONSTANTS
    Target <- LogTwelve
    BeamWidth = 2
    Feed <- Pages
    Markets = {"over", "under"}
    MaxPages = 3
    MarketOrder <- OverUnder
    Slates <- Lists
    Floor = 200
    PoolSize = 3
    Attempts = 2
    Wishes <- SomeWishes
    WeeklyTarget <- LogThree
SPECIFICATION GeneratorsSpec
INVARIANTS
    TypeOK
    TicketIsSound
    FewestLegs
    NothingMissed
    WeeklyIsExact
    MergeKeepsMarkets
