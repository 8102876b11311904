--------------------------- MODULE MCSessionTokens ---------------------------
(* Instance of SessionTokens for TLC: a browser with two tabs and a desktop *)
(* app.                                                                     *)
EXTENDS SessionTokens, TLC

CONSTANTS t1, t2, app, browser, desktop

MCJarOf == [t \in Tabs |-> IF t = app THEN desktop ELSE browser]
TabsAlike == Permutations({t1, t2})
=============================================================================
