\* Up to three lines through a channel of two, under the fairness of the
\* scheduler and the clock.
SPECIFICATION FairSpec
CONSTANTS
    MaxLines = 3
    Cap = 2
INVARIANTS RelaySafety EndOfStreamMeansComplete StatusIsWritten
PROPERTIES ForwardEnds
