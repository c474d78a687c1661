SPECIFICATION Spec
CONSTANTS
  mSendLen = 256
  LineLen = 256
  UrlLens = {28, 127}
  TrackLens = {167, 239, 300}
  CSeqLens = {10}
  PortLens = {13}
  SessionLens = {8, 63}
  FieldPorts = {0, 6970}
  MaxFields = 4
  MaxLines = 4
CHECK_DEADLOCK FALSE
INVARIANTS RequestSent ForeignIgnored NoMixture PortAsNamed TrackOfVideo
