SPECIFICATION Spec
CONSTANTS
  Paths = {p1, p2}
  Names = {"edges", "prices", "copy"}
  Queries <- MCQueries
  MaxRows = 7
INVARIANTS
  SavedIsLoadable
  GraphViewsAgree
  KnnExact
PROPERTIES
  RoundTrip
