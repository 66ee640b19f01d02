CONSTANTS
  SourceFiles <- SpuriousRaiseFiles
  MaxBuilds = 1
SPECIFICATION Spec
INVARIANT RaisesOnlyOnMalformedTables
