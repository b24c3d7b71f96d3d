CONSTANTS
  Wrapper = {w1}
  Nobody = Nobody
  Versions = {v1}
  Absent = Absent
  Altered = Altered
  MaxEdits = 0
SPECIFICATION FairSpec
PROPERTY PublicationCompletes
