\* Every small repository and every request.
SPECIFICATION FairSpec
CONSTANTS
    Packages <- ThreePackages
    Universes <- MixedUniverses
    Requests <- MixedRequests
    FilePaths <- MCFilePaths
    RichNames <- MCRichNames
INVARIANTS
    TypeOK
    NoConflictInside
    OnePerName
    NothingForgotten
    ClosureClosed
    ProvenanceReal
    UnsatJustified
PROPERTIES
    Terminates
