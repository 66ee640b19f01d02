CONSTANTS
  SourceFiles <- ScanFiles
  MaxBuilds = 2
SPECIFICATION Spec
PROPERTY DiagramReproducible
