SPECIFICATION FairSpec
CONSTANTS
    home = home  photos = photos  album = album  letters = letters
    drafts = drafts  empty = empty  cover = cover  picture = picture
    Dir = {home, photos, album, letters, drafts, empty}
    File = {cover, picture}
    Home = home
    Parent <- MCParent
    Roots = {photos, letters, empty}
    Refusable = {photos, album, drafts, cover, picture}
    NoEntry = {letters}
INVARIANTS CountersBalance ChildrenFirst FailsOnlyIfRefused
PROPERTIES EveryDeletionReported
CHECK_DEADLOCK FALSE
