\* Spec section 5 (handles closed even when assembly raises) against the catalog inputs.
CONSTANTS
  CsvInputs <- CatalogRunCsv
  ImplXmlInputs <- CatalogRunImpl
  TestXmlInputs <- CatalogRunTest
SPECIFICATION Spec
INVARIANT NoDanglingHandleOnExit
