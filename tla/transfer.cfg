SPECIFICATION FairSpec
CONSTANTS
  t1 = t1
  t2 = t2
  i1 = i1
  i2 = i2
  sticker1 = sticker1
  sticker2 = sticker2
  webp = webp
  odd = odd
  None = None
  BrokenTag = BrokenTag
  Texts <- TwoTexts
  Images <- TwoImages
  Messages <- MixedMessages
  Paths <- TwoStickers
  BaseName <- NameOf
  Types <- TwoTypes
  Extension <- ExtensionOf
  JsonLen = 2
  MaxTransfers = 3
INVARIANTS TypeOK FailedIsNeverRead RequestsKeepMessage LinksKeepContent
PROPERTIES RequestByRequest RequestSettled
