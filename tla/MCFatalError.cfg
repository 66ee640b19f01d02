\* Spec section 7 (no partial reports on a fatal error) against catalogs whose IDs all
\* have a number, so the error is a duplicate ID.
CONSTANTS
  CsvInputs <- FatalRunCsv
  ImplXmlInputs <- CatalogRunImpl
  TestXmlInputs <- CatalogRunTest
SPECIFICATION Spec
INVARIANT NoReportAfterFatalError
