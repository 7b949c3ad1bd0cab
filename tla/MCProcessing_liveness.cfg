CONSTANTS
  Chain <- MCChain
  Thumbs = {small}
  Circles = {}
  Ocrs = {meme, standard}
  Words <- MCWords
  NoText = notext
  meme = meme
  standard = standard
  Main = main
SPECIFICATION FairSpec
PROPERTIES EverythingEnds
