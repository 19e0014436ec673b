SPECIFICATION Spec
CONSTANTS
  LeafNodesPerPage = 2
  NonLeafNodesPerPage = 1
  Headers <- AllHeaders
  BLCKSZ = 8192
  MaxHeapTupleSize = 8160
  Files <- AllFiles
  OptionSets <- AllOptions
INVARIANTS WalkIsFileOrder SummaryCoversFile ListingMatchesFile LookupMatchesListing
