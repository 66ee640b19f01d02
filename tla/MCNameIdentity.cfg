\* Spec section 8 (unique locations counted by name) against the XML inputs.
CONSTANTS
  CsvInputs <- SmallCatalogs
  ImplXmlInputs <- IndexRunImpl
  TestXmlInputs <- IndexRunTest
SPECIFICATION Spec
INVARIANT UniqueLocationsCountedByName
