\* Spec section 4.2 (a function without location gets an empty file and line 0).
CONSTANTS
  CsvInputs <- SmallCatalogs
  ImplXmlInputs <- IndexRunImpl
  TestXmlInputs <- IndexRunTest
SPECIFICATION Spec
INVARIANT MissingLocationDefaulted
