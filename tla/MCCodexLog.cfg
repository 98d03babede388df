SPECIFICATION Spec
CONSTANTS
  Styles <- MCStyles
  MaxResponses = 2
  MaxTurns = 2
  MaxWrites = 5
CONSTRAINT OneComplication
INVARIANTS TypeOK ParsesAreFullParses CountedOnce PromptsMarkTheirTurn SpeedIsTheTurns
