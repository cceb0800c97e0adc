CONSTANTS
  Turns = {t1, t2, t3}
  NoTurn = NoTurn
  Questions = {"why", "how"}
  MaxLinks = 2
  MaxDeaths = 1
  SlowStreams = FALSE
SPECIFICATION Spec
INVARIANTS OneAnswerAtATime TranscriptHolds
PROPERTIES RevokedStaysOut SlotComesBack
CHECK_DEADLOCK FALSE
