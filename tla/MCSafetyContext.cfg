CONSTANTS
    Catalogue <- MCCatalogue
    ExistingPaths <- MCExistingPaths
    MaxFilters = 1
    CompilerLimit = 8

SPECIFICATION Spec

INVARIANTS
    TypeOK
    ErrorNamesBothRulesets

PROPERTIES
    ImplementsAbstract
