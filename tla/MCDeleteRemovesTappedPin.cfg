SPECIFICATION HistorySpec
CONSTANTS
    Place = {p1, p2}
    Origin = Origin
    Title = {t1, t2}
    NoTitle = NoTitle
    Image = {red, blue}
    DefaultImage = red
    NoImage = NoImage
    OffMap = OffMap
    MaxSearches = 1
SYMMETRY Symmetry
PROPERTY DeleteRemovesTappedPin
