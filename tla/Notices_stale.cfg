SPECIFICATION NtSpec
CONSTANTS
    NtChannels = {"telegram", "discord"}
    NtRounds = 2
    NtBeats = 1
    NtRestarts = 1
    NtFailures = 0
INVARIANT NoticeToLastActive
CHECK_DEADLOCK FALSE
