SPECIFICATION TalkSpec
CONSTANTS
  Half = 8
  Window = 4
  MaxDatagram = 9
  TxFrames = 2
  FirstSequence <- NearWrap
  MaxStreams = 2
  MaxPackets = 2
  MaxFaults = 2
INVARIANTS
  StreamsWellFormed
  LossIsOfSentPackets
  
PROPERTIES
  TalkspurtsEnd
