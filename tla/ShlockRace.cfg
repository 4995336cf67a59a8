SPECIFICATION FairSpec
CONSTANTS
  s1 = s1
  s2 = s2
  s3 = s3
  Scripts = {s1, s2}
  Mortal = {s1, s2}
  Extant = {NoFile, Blank, s1}
  Overlap = 2
  Faults = TRUE
  NoFile = NoFile
  Blank = Blank
INVARIANTS TypeOK 
PROPERTIES ValidTheInstant StaleGoes Returns
