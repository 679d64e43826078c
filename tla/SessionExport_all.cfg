SPECIFICATION FairSpec
CONSTANTS
  e1 = e1
  e2 = e2
  s1 = s1
  s2 = s2
  Exporters <- MCExporters
  Sessions <- MCSessions
  Size <- MCSize
  NFiles = 2
  Junk = Junk
  Foreign = Foreign
  NoFile = NoFile
  MaxCut = 1
  MaxJunk = 1
  MaxForeign = 1
  MaxStop = 2
  MaxPower = 1
INVARIANT
  FinalIsVerified
  SurvivesPowerLoss
  ManifestMeansComplete
  ReportIsTrue
  PartIsResumable
PROPERTY
  FinalIsKept
  ExportResumes
CONSTRAINT Few
