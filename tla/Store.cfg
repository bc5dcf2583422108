SPECIFICATION Spec
CONSTANTS
    file1 = file1
    file2 = file2
    file3 = file3
    Files = {file1, file2, file3}
    HashFunc <- SomeHashes
    NameSize <- SomeSizes
    EndPoints <- TwoHosts
    Blocks = {b1, b2, b3}
    STORESIZE = 4
    MaxCount = 3
    MaxAdds = 3
SYMMETRY BlockSymmetry
INVARIANTS OneEntryPerKey TotalsMatch BuffersLargeEnough AllFilesListed NothingLeaked
PROPERTIES IsRegistry
