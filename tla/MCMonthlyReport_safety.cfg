CONSTANTS
  Wrapper = {w1, w2}
  Nobody = Nobody
  Versions = {v1, v2}
  Absent = Absent
  Altered = Altered
  MaxEdits = 3
SYMMETRY Symmetry
SPECIFICATION Spec
INVARIANT OneReportDelivered
INVARIANT NoMixedPublication
PROPERTY NeverRewritten
