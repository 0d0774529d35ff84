SPECIFICATION ParseSpec
CONSTANTS
  NoValue = NoValue
  None = NoValue
  asha = asha
  ravi = ravi
  unknownMan = unknownMan
  unknownPerson = unknownPerson
  somebody = somebody
  notStated = notStated
  day = day
  hour = hour
  dayAndHour = dayAndHour
  theft = theft
  park = park
  gist = gist
  motive = motive
  money = money
  invented = invented
  Undeclared = {notStated}
  Lexicon <- MCLexicon
  UnknownActors = {unknownMan, unknownPerson}
  UnknownPatterns = {somebody}
  Standard <- MCStandard
  Motives <- MCMotives
  Documents <- MCDocuments
  Configs <- MCConfigs
  MaxChunk = 2
  Scores = {40, 70, 90}
  Readings <- MCReadings
  Replies <- MCReplies
  Suggestions <- MCSuggestions
  Speakers <- MCSpeakers
INVARIANTS
  TranslationKeepsTheText
  BestTranslationWins
  NothingUnsupported
  NothingIsLost
