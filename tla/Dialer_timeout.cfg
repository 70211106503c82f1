\* One dial is enough.
CONSTANT Dials = {d1}
SPECIFICATION FairSpec
PROPERTY NoSendAfterTimeout
CHECK_DEADLOCK FALSE
