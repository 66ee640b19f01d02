\* The catalog side of a run: every CSV of up to three rows of the row kinds.
CONSTANTS
  CsvInputs <- CatalogRunCsv
  ImplXmlInputs <- CatalogRunImpl
  TestXmlInputs <- CatalogRunTest
SPECIFICATION Spec
INVARIANT TypeOK
INVARIANT TraceabilityPartition
INVARIANT InvalidTagsSurfaced
INVARIANT NumberingGapsWarned
INVARIANT SpecificationsIndexed
