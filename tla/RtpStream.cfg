SPECIFICATION StreamSpec
CONSTANTS
  SeqMod = 4
  Ssrcs <- TwoSsrcs
  PayloadTypes <- TwoTypes
  H264 = 96
  MaxPackets = 7
  Ssrc = 11
  MaxSent = 6
  MaxCopies = 1
  Foreign <- Others
  MaxForeign = 1
CHECK_DEADLOCK FALSE
INVARIANTS LostCountTelescopes ParserForType LossExact
PROPERTY StreamPinned
