SPECIFICATION MCSpec
INVARIANT WordsAreRead
PROPERTIES WordsAreReadInFull DiscoverKeepsUp EditorsKeepFaith TranslatorIsHonest KeysActOnWhatIsShown
CHECK_DEADLOCK FALSE
