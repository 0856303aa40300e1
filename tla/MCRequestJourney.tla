--------------------------- MODULE MCRequestJourney ---------------------------
(* Model checking of RequestJourney: a plain request and variations of it. *)
EXTENDS RequestJourney

Plain == [route |-> "chat_completion", mode |-> "sync", roles |-> <<"system", "user">>,
          priority |-> Omitted, queue |-> Omitted, temperature |-> Omitted,
          tokens_limit |-> Omitted, stop_words |-> Omitted, model |-> Omitted]

Set == [Plain EXCEPT !.temperature = 7, !.tokens_limit = 100, !.stop_words = <<"stop">>,
                     !.model = "m"]
Null == [Plain EXCEPT !.temperature = None, !.tokens_limit = None, !.stop_words = None,
                      !.model = None, !.priority = None]

MCRequests ==
    {Plain,
     [Set EXCEPT !.route = "generate", !.roles = <<"user">>, !.priority = 9,
                 !.temperature = 10, !.queue = ReadFromEnv["QUEUE_NAME"]],
     [Set EXCEPT !.route = "direct", !.roles = <<"user">>, !.mode = "async", !.priority = 0,
                 !.temperature = None, !.tokens_limit = 0],
     [Null EXCEPT !.roles = <<>>, !.mode = "async", !.model = ""],
     [Plain EXCEPT !.priority = 300],
     [Plain EXCEPT !.queue = [value |-> "elsewhere", linefeed |-> FALSE]]}

=============================================================================
