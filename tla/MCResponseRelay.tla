--------------------------- MODULE MCResponseRelay ---------------------------
(* ResponseRelay for TLC: one stream of each protocol, with an event that is too large *)
(* for the bill's reader in one of them, one plain answer, and one of no protocol.     *)
EXTENDS ResponseRelay, TLC

Event(type, size, usage) == [type |-> type, size |-> size, usage |-> usage]
Answer(kind, sse, events, model) == [kind |-> kind, sse |-> sse, events |-> events, model |-> model]

OpenAi(input, output, cached) == [prompt |-> input, completion |-> output, cached_prompt |-> cached]

Responses ==
  Answer("responses", TRUE,
    <<Event("delta", 2, None), Event("delta", 1, None),
      Event("response.completed", 2, [input |-> 3, output |-> 2, cached_input |-> 1])>>, "m1")
TooLarge ==
  Answer("responses", TRUE,
    <<Event("delta", 3, None),
      Event("response.completed", 1, [input |-> 3, output |-> 2])>>, "m1")
Chat ==
  Answer("chat", TRUE,
    <<Event("delta", 1, None), Event("usage", 2, OpenAi(2, 3, 1)), Event("[DONE]", 1, None)>>, "m2")
Messages ==
  Answer("messages", TRUE,
    <<Event("message_start", 1, [input |-> 2, output |-> 0, read |-> 1]),
      Event("message_delta", 1, [output |-> 3, write |-> 2, write5m |-> 2]),
      Event("message_stop", 1, None)>>, "m3")
Plain == Answer("chat", FALSE, <<Event("document", 3, OpenAi(3, 1, 0))>>, "m1")
Overflow == Answer("chat", FALSE, <<Event("document", 2, OpenAi(9, 9, 0))>>, "m1")
Misfit == Answer("messages", FALSE, <<Event("document", 2, OpenAi(1, 1, 0))>>, None)
Unknown == Answer("other", FALSE, <<Event("document", 2, OpenAi(1, 1, 2))>>, "m1")

MCAnswers == {Responses, TooLarge, Chat, Messages, Plain, Overflow, Misfit, Unknown}

MCRules ==
  <<[wildcard |-> TRUE, models |-> {"m1", "m2"}, multiplier |-> 1,
     input |-> 1, output |-> 3, read |-> 1, write |-> 0],
    [wildcard |-> FALSE, models |-> {"m1"}, multiplier |-> 2,
     input |-> 2, output |-> 1, read |-> 1, write |-> 1]>>

=============================================================================
