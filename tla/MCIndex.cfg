\* The cross-reference side of a run, reached through the script: small
\* catalogs, a Doxygen directory whose files hold every combination of the
\* implementation and test case inputs, and three command lines.
CONSTANTS
  CsvInputs <- SmallCatalogs
  ImplXmlInputs <- IndexRunImpl
  TestXmlInputs <- IndexRunTest
  CliOptions <- CliCommandLines
  XmlDirectories <- CliXmlDirectories
  LibrarySources <- CliLibrarySources
  TestSources <- CliTestSources
SPECIFICATION CliSpec
INVARIANT TraceabilityPartition
INVARIANT InvalidTagsSurfaced
INVARIANT TestcaseListGroupsByFixture
INVARIANT XmlFilesClassified
