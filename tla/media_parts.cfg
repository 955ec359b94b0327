SPECIFICATION PartsSpec
CONSTANTS
    Speakers <- TwoSpeakers
    ProxyEnabled = TRUE
    Chunks = 2
    QueueSize = 2
    MaxTurns = 2
    MaxAudioFaults = 1
    MaxAudioCrashes = 1
    Models <- TwoModels
    Texts <- TwoTexts
    MaxSaid = 2
    MaxTries = 3
    MaxSummaries = 3
    MinSpeech = 2
    EndSilence = 2
    MaxFrames = 10
    Messages = {"ended", "summary", "barge_in"}
    KindOf <- EndSummaryAndBargeIn
    MaxVersion = 3
    Route <- ProxyToSync
    MaxTimeouts = 1
    MaxCrashes = 1
INVARIANTS  CutOffStaysOff  SpeechIsCut DeliveryIsExact
PROPERTIES FinalizeEnds SummariesAreFrozen OutboxDrains
CHECK_DEADLOCK FALSE
