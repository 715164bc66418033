SPECIFICATION FairSpec
CONSTANTS
  MaxChunks = 3
  CallIndices = {0, 1, 2}
INVARIANTS
  EventsFollowTheirItem IndexIsPlaceInOutput ClientSawWhatIsStored
  OneTerminalEvent OnlyFinishedAnswersAreSaved NoCallLost
PROPERTY ClientIsAnswered
