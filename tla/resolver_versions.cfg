SPECIFICATION Spec
CONSTANTS
    Packages <- ThreePackages
    Universes <- UniqueUniverses
    Requests <- UniqueRequests
    FilePaths <- MCFilePaths
    RichNames <- MCRichNames
INVARIANT
    ClosureSatisfies
