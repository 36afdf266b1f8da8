\* Three requests on one ticket.
CONSTANTS
  Requests = {r1, r2, r3}
  Staff = {agent}
  Nobody = Nobody
SPECIFICATION ReportSpec
SYMMETRY RequestSymmetry
PROPERTY AutoResponseSkipsFlagged
CHECK_DEADLOCK FALSE
