SPECIFICATION Spec
CONSTANTS
    blue = blue
    blueRead = blueRead
    red = red
    redRead = redRead
    Color <- MCColor
    Rounded <- MCRounded
    DefaultTheme <- MCDefaultTheme
    PinName = {hitoB, hitoP}
    DefaultPin = hitoB
    Unset = Unset
INVARIANTS ThemeIsStored AtMostThreeColors
PROPERTY SaveStoresThePanel
