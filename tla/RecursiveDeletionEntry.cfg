SPECIFICATION Spec
CONSTANTS
    home = home  photos = photos  album = album  letters = letters
    drafts = drafts  empty = empty  cover = cover  picture = picture
    Dir = {home, photos, album, letters, drafts, empty}
    File = {cover, picture}
    Home = home
    Parent <- MCParent
    Roots = {photos}
    Refusable = {photos, album, drafts, cover, picture}
    NoEntry = {album}
INVARIANTS RefusedIsNotListed
CHECK_DEADLOCK FALSE
