SPECIFICATION FairSpec
CONSTANTS
    m1 = m1
    m2 = m2
    a = a
    b = b
    c = c
    edited = edited
    shaA = shaA
    shaB = shaB
    shaC = shaC
    shaEdited = shaEdited
    NoMigrator = NoMigrator
    BadName = BadName
    Migrators <- MCMigrators
    Versions <- MCVersions
    Texts <- MCTexts
    Checksums <- MCChecksums
    checksumOf <- MCChecksumOf
    Directories <- MCDirectories
INVARIANTS
    LedgerMatchesSchema
    AppliedOnTop
    SuccessIsComplete
    NobodyCollides
PROPERTIES
    ImplementsHistory
    MigratorsEnd
