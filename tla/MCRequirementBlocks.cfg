\* Spec section 4.2 (the tags of every Requirement block are kept).
CONSTANTS
  CsvInputs <- SmallCatalogs
  ImplXmlInputs <- IndexRunImpl
  TestXmlInputs <- IndexRunTest
SPECIFICATION Spec
INVARIANT AllRequirementTagsKept
