SPECIFICATION FairSpec
CONSTANTS
  selfie = selfie
  shirt = shirt
  small = small
  medium = medium
  None = None
  Photos <- MCPhotos
  Products <- MCProducts
  Sizes <- MCSizes
  ApiErrors <- MCApiErrors
  MaxRuns = 2
  MaxPolls = 2
  MaxQuantity = 2
INVARIANTS
  TypeOK
  NoPhotoBeforeConsent
  OneRunAtATime
  ResultIsOfTheJob
  BagIsSound
PROPERTY ProcessingEnds
