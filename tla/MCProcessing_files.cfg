CONSTANTS
  Chain <- MCChain
  Thumbs = {small, round}
  Circles = {round}
  Ocrs = {meme, standard}
  Words <- MCWords
  NoText = notext
  meme = meme
  standard = standard
  Main = main
SPECIFICATION Spec
INVARIANTS TypeOK ImageOnDisk ReadyToSave NothingLeft TextIsBest LeftoversExplained
