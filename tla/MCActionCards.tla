--------------------------- MODULE MCActionCards ---------------------------
(* One turn of two messages and two activities, with up to two cards, of   *)
(* which the table holds one, and up to two calls of Hermes.               *)
EXTENDS ActionCards

CONSTANTS m1, m2, a1, a2, c1, c2

MCReports == {<<a1>>, <<a1, a2>>}

MCScripts ==
  {<<"send", "send">>, <<"send", "edit">>, <<"send", "progress">>,
   <<"progress", "progress">>, <<"progress", "send">>,
   <<"send", "clarify">>, <<"approval", "approval">>,
   <<"confirm">>, <<"reset">>, <<"update">>, <<"model">>}
=============================================================================
