\* A test function whose fixture ref element has no text.
CONSTANTS
  CsvInputs <- SmallCatalogs
  ImplXmlInputs <- IndexRunImpl
  TestXmlInputs <- IndexRunTest
SPECIFICATION Spec
INVARIANT TestFixtureNamed
