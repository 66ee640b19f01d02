\* The three diagrams of main() over well-formed and malformed C files,
\* with the docs built twice.
CONSTANTS
  SourceFiles <- ScanFiles
  MaxBuilds = 2
SPECIFICATION Spec
INVARIANT DiagramMatchesTables
INVARIANT RaisesOnlyOnMalformedTables
