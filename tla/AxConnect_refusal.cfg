\* A close push overtakes set_pending.
CONSTANTS
    Handle = {h1}
SPECIFICATION FairSpec
CHECK_DEADLOCK FALSE
PROPERTIES RefusalReleases
