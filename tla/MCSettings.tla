----------------------------- MODULE MCSettings -----------------------------
(* The instance of Settings that TLC checks: two colours that lose digits  *)
(* when they are stored, one of them the default, and what they become.    *)
EXTENDS Settings, TLC

CONSTANTS blue, blueRead, red, redRead

MCColor == {blue, blueRead, red, redRead}

MCRounded == (blue :> blueRead) @@ (blueRead :> blueRead)
             @@ (red :> redRead) @@ (redRead :> redRead)

MCDefaultTheme == <<blue, blue, blue>>

=============================================================================
