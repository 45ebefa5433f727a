CONSTANTS
    MaxPacket = 6
    MaxSent = 7
SPECIFICATION Spec
INVARIANTS TypeOK NothingLost LinesAsSent TerminatorFits
PROPERTY EndsAtDot
