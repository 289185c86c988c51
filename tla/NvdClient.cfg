\* Four records, rows capped at three, pages of two: a walk of several pages
\* that can be cut by the cap inside a page; two changes of the corpus; a
\* mirror that ignores the request.
CONSTANTS
  c1 = c1
  c2 = c2
  c3 = c3
  c4 = c4
  CVE = {c1, c2, c3, c4}
  Ops = {"FetchCVE", "SearchKeyword"}
  MaxResults = 3
  ResultsPerPage = 2
  OddReplies <- MCOddReplies
  MaxCorpus = 4
  MaxChanges = 2
SPECIFICATION Spec
INVARIANTS TypeOK BoundedWork PagesTile NothingMissed WalkInv
PROPERTIES Returns
