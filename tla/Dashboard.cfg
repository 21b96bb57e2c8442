\* One video, there already or to be uploaded; two lists under way at a time; one loss.
SPECIFICATION FairSpec
CONSTANTS
  Videos = {v1}
  MaxLists = 2
  MaxRetries = 1
  MaxLost = 1
INVARIANTS
  DeletedStaysGone
  UploadOutcome
PROPERTIES
  CardsCatchUp
  DialoguesComeFree
