--------------------------- MODULE MCDiscoveryCursor ---------------------------
EXTENDS Discovery, TLC

CONSTANTS a, b, c
MCPublished == {<<<<a, b, c>>>>}
MCFolder    == (a :> <<a>>) @@ (b :> <<b>>) @@ (c :> <<c>>)
================================================================================
