SPECIFICATION DatagramSpec
CONSTANTS
  WordValues = 4
  MAX_BUFF_SIZE = 7
  Extent = 9
  Seqs <- MCSeqs
  Payloads <- MCPayloads
  InitArgs <- MCInitArgs
  Memories <- MCMemories
  MaxSends = 2
INVARIANTS
  DatagramIInv
  GoodIsAsCreated
  WholeIsGood
  RequestArrives
CHECK_DEADLOCK FALSE
