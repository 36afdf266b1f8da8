\* Three requests in flight at once, one staff member to assign to.
CONSTANTS
  Requests = {r1, r2, r3}
  Staff = {agent}
  Nobody = Nobody
SPECIFICATION ReportSpec
SYMMETRY RequestSymmetry
INVARIANTS
  TypeOK
  StampsAgree
  FeedbackAfterResolution
  ReportIsSound
PROPERTIES
  FlagClearedByStaffOnly
  DeletedStaysUnanswered
\* The requests are finite: when all are answered nothing is left to do.
CHECK_DEADLOCK FALSE
