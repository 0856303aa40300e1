--------------------------- MODULE CompletionRequest ---------------------------
(***************************************************************************)
(* What becomes of the parameters of a request between the HTTP client and *)
(* the language model: the pydantic models of the backend                  *)
(* (backend/models/job_context_models.py) and the arguments each model     *)
(* class of the worker passes to its library (worker/models).              *)
(*                                                                         *)
(* A request is a record with the fields route, roles, priority, queue and *)
(* the four fields of PromptMeta; a field the client leaves out has the    *)
(* value Omitted, a JSON null the value None.  Temperatures are counted in *)
(* tenths.                                                                 *)
(***************************************************************************)
EXTENDS Integers, Sequences

CONSTANTS
    None,          \* Python's None
    Omitted,       \* a field that is not in the JSON document
    DefaultModel   \* OpenAPILLM's default_model

MetaFields == {"temperature", "tokens_limit", "stop_words", "model"}

\* The classes of worker/models.
LLMs == {"OpenAPILLM", "VllMModel", "CppModel", "FakeModel"}

OrElse(value, default) == IF value = None THEN default ELSE value

-----------------------------------------------------------------------------
(* Backend: from the JSON document to the transaction *)

Field(value, default) == IF value = Omitted THEN default ELSE value

PromptMeta(r) ==
    [temperature  |-> Field(r.temperature, 2),
     tokens_limit |-> Field(r.tokens_limit, 8096),
     stop_words   |-> Field(r.stop_words, None),
     model        |-> Field(r.model, None)]

\* The messages of request r for job j; the i-th one says <<j, i>>.
Messages(j, r) == [i \in DOMAIN r.roles |-> [role |-> r.roles[i], content |-> <<j, i>>]]

PromptModel(j, r) ==
    [job_id   |-> j,
     priority |-> Field(r.priority, None),
     meta     |-> PromptMeta(r),
     content  |-> <<j, 1>>]

ChatCompletionModel(j, r) ==
    [job_id   |-> j,
     priority |-> Field(r.priority, None),
     meta     |-> PromptMeta(r),
     messages |-> Messages(j, r)]

\* Mutant: the meta data of the prompt is forgotten, and the defaults are used.
from_prompt_model_defaults(p) ==
    [job_id |-> p.job_id, priority |-> p.priority,
     meta |-> [temperature |-> 2, tokens_limit |-> 8096, stop_words |-> None, model |-> None],
     messages |-> <<[role |-> "user", content |-> p.content]>>]

from_prompt_model(p) ==
    [job_id |-> p.job_id, priority |-> p.priority, meta |-> p.meta,
     messages |-> <<[role |-> "user", content |-> p.content]>>]

\* get_generate and get_chat_completion of both services; "direct" is a caller of
\* send_task that has made a PromptTransactionModel itself.
Transaction(j, r) ==
    CASE r.route = "generate" ->
             [prompt_type |-> "chat_completion", prompt |-> from_prompt_model(PromptModel(j, r))]
      [] r.route = "chat_completion" ->
             [prompt_type |-> "chat_completion", prompt |-> ChatCompletionModel(j, r)]
      [] r.route = "direct" ->
             [prompt_type |-> "single_generation", prompt |-> PromptModel(j, r)]

-----------------------------------------------------------------------------
(* Worker: from the message to the call of the library *)

\* Mutant: the discriminator knows the name LLMWrap.models has for a single prompt.
DecodableByModelsName(t) ==
    \/ t.prompt_type = "single_generate" /\ "content" \in DOMAIN t.prompt
    \/ t.prompt_type = "chat_completion" /\ "messages" \in DOMAIN t.prompt

\* PromptWrapper: the discriminator says which model the document must fit.
Decodable(t) ==
    \/ t.prompt_type = "single_generation" /\ "content" \in DOMAIN t.prompt
    \/ t.prompt_type = "chat_completion" /\ "messages" \in DOMAIN t.prompt

IsChat(t) == t.prompt_type = "chat_completion"

NoName == ""

\* model or self.model: the default replaces an empty name too.
ModelName(model) == IF model \in {None, NoName} THEN DefaultModel ELSE model

\* handlers[prompt_type]: create_completion takes the messages, generate the text; the
\* stop words end in the unused **kwargs.
OpenAPIArguments(t) ==
    LET meta == t.prompt.meta IN
    [input        |-> IF IsChat(t) THEN t.prompt.messages
                      ELSE <<[role |-> "user", content |-> t.prompt.content]>>,
     temperature  |-> OrElse(meta.temperature, 5),
     tokens_limit |-> meta.tokens_limit,
     model        |-> ModelName(meta.model)]

LocalInput(t) == IF IsChat(t) THEN t.prompt.messages ELSE t.prompt.content

\* Mutant: only a null limit is replaced.
VllMTokensNull(limit) == OrElse(limit, 8096)

VllMTokens(limit) == IF limit = None THEN 8096 ELSE IF limit < 1 THEN 8096 ELSE limit

VllMArguments(t) ==
    LET meta == t.prompt.meta IN
    [input        |-> LocalInput(t),
     temperature  |-> OrElse(meta.temperature, 2),
     tokens_limit |-> VllMTokens(meta.tokens_limit),
     stop_words   |-> OrElse(meta.stop_words, <<>>)]

CppArguments(t) ==
    LET meta == t.prompt.meta IN
    [input          |-> LocalInput(t),
     temperature    |-> OrElse(meta.temperature, 5),
     tokens_limit   |-> meta.tokens_limit,
     stop_words     |-> OrElse(meta.stop_words, <<>>),
     repeat_penalty |-> 11]

Arguments(llm, t) ==
    CASE llm = "OpenAPILLM" -> OpenAPIArguments(t)
      [] llm = "VllMModel"  -> VllMArguments(t)
      [] llm = "CppModel"   -> CppArguments(t)
      [] llm = "FakeModel"  -> [input |-> LocalInput(t)]

-----------------------------------------------------------------------------
(* What comes back *)

Text(input) == [result |-> "text", of |-> input]
NoText      == [result |-> "none", of |-> None]
Raised      == [result |-> "raised", of |-> None]

\* FakeModel fails a chat on purpose at temperature 1, and on a chat without
\* messages; at temperature 2 it answers after 100 seconds.
FakeOutcome(t) ==
    IF IsChat(t) /\ (t.prompt.meta.temperature = 10 \/ t.prompt.messages = <<>>)
    THEN Raised
    ELSE Text(LocalInput(t))

\* The content of an OpenAI message may be null.
Outcomes(llm, t) ==
    LET input == Arguments(llm, t).input IN
    CASE llm = "FakeModel"  -> {FakeOutcome(t)}
      [] llm = "OpenAPILLM" -> {Text(input), NoText, Raised}
      [] OTHER              -> {Text(input), Raised}

=============================================================================
