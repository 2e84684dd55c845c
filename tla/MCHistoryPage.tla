--------------------------- MODULE MCHistoryPage ---------------------------
EXTENDS HistoryPage

CONSTANTS a, b

MCHits == {<<a, 1>>, <<b, 2>>}

\* A task with two requests that run, and another with newer activity; and a log that is empty.
MCStarts ==
  {[order |-> <<b, a>>, log |-> (a :> <<"finished", "pending", "pending">>) @@ (b :> <<"finished">>)],
   [order |-> <<>>, log |-> (a :> <<>>) @@ (b :> <<>>)]}
=============================================================================
