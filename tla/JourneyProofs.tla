---------------------------- MODULE JourneyProofs -----------------------------
(***************************************************************************)
(* What a request becomes on its way and what its client is told: the      *)
(* invariants of RequestJourney, for any jobs, requests and configurations.*)
(***************************************************************************)
EXTENDS RequestJourney, TLAPS

-----------------------------------------------------------------------------
(* The inductive invariant *)

\* Job j is in the sequence s, ...
In(j, s) == \E a \in DOMAIN s : s[a] = j

\* ... and every job at most once.
NoTwice(s) == \A a, b \in DOMAIN s : s[a] = s[b] => a = b

\* The types, and the domains the types leave open.
Domains ==
    /\ JourneyTypeOK
    /\ DOMAIN task = Jobs /\ DOMAIN call = Jobs /\ DOMAIN outcome = Jobs /\ DOMAIN reply = Jobs
    /\ answer = [k \in Keys |-> answer[k]]

\* The task of a job that has been submitted is the transaction of its request.
TasksAreTransactions ==
    \A j \in Jobs :
        at[j] # "idle" => asked[j] \in Requests /\ task[j] = Prioritised(Transaction(j, asked[j]))

\* A job is queued once; then it is ready, or in the buffer, or has been begun.
Places ==
    /\ NoTwice(published) /\ NoTwice(buffer)
    /\ \A j \in Jobs :
          /\ In(j, published) => at[j] \in {"wait", "done"} /\ Packable(j)
          /\ In(j, buffer) \/ j \in begun => In(j, published) /\ j \notin ready
          /\ j \in ready => In(j, published)
          /\ In(j, published) => j \in ready \/ In(j, buffer) \/ j \in begun
          /\ j \in begun /\ In(j, buffer) => working # "idle" /\ Current = j
    /\ working # "idle" => buffer # <<>> /\ Current \in begun

\* The prefix of the status keys that this side was configured with.
StatusPrefix(side) == setting[side]["REDIS_PREFIX_FOR_STATUS"]

\* Who has written a status: the backend when it recorded the job, and the worker
\* when it began it, or tried to.
StatusWriters ==
    /\ \A j \in Jobs : at[j] # "idle" => status[StatusKey("backend", j)] # None
    /\ \A p \in Prefixes, j \in Jobs :
          /\ status[<<p, j>>] # None =>
                p = StatusPrefix("backend") \/ (p = StatusPrefix("worker") /\ j \in begun)
          /\ status[<<p, j>>] \in {"completed", "error"} =>
                p = StatusPrefix("worker") /\ j \in begun
          /\ status[<<p, j>>] = "error" => outcome[j] = Raised
    /\ working \in {"call", "complete"} => status[StatusKey("worker", Current)] = "in_progress"

\* The model has been asked task j.
Asked(j) == at[j] # "idle" /\ call[j] = Arguments(llm, task[j])

\* The model is asked nothing but a task that was queued, and what is known of its
\* answer on the way to the storage and in it.
Calls ==
    /\ \A j \in Jobs : call[j] # None => Asked(j)
    /\ working \in {"complete", "result"} =>
          Asked(Current) /\ outcome[Current] \in Outcomes(llm, task[Current])
    /\ working = "result" => outcome[Current] # Raised
    /\ \A p \in Prefixes, j \in Jobs :
          answer[<<p, j>>] # None =>
              Asked(j) /\ answer[<<p, j>>] \in {Text(call[j].input), NoText}

\* What a client was told is about his own job.
RepliesInv ==
    \A j \in Jobs :
        /\ reply[j].kind = "answer" /\ reply[j].of # None =>
               Asked(j) /\ reply[j].of = call[j].input
        /\ reply[j].kind = "error" => status[StatusKey("backend", j)] = "error"

JourneyInv ==
    Domains /\ TasksAreTransactions /\ Places /\ StatusWriters /\ Calls /\ RepliesInv

-----------------------------------------------------------------------------
(* What becomes of a request *)

\* The transaction that is queued, field by field.
LEMMA TransactionFacts ==
    ASSUME NEW j \in Jobs, NEW r \in Requests
    PROVE  LET raw == Transaction(j, r)
               t == Prioritised(raw) IN
           /\ t.prompt_type = raw.prompt_type
           /\ r.route = "direct" => t.prompt_type = "single_generation" /\ t.prompt.content = <<j, 1>>
           /\ r.route # "direct" => t.prompt_type = "chat_completion" /\ t.prompt.messages = Messages(j, r)
           /\ r.route = "direct" => "content" \in DOMAIN t.prompt /\ t.prompt.content = raw.prompt.content
           /\ r.route # "direct" => "messages" \in DOMAIN t.prompt /\ t.prompt.messages = raw.prompt.messages
           /\ t.prompt.meta = PromptMeta(r) /\ raw.prompt.meta = PromptMeta(r)
           /\ t.prompt.job_id = j
           /\ t.prompt.priority \in Int
<1> DEFINE raw == Transaction(j, r)
           t == Prioritised(raw)
           priority == OrElse(Field(r.priority, None), BasePriority)
<1>1. priority \in Int
  BY JourneyAssumption DEF OrElse, Field, BasePriority
<1>2. CASE r.route = "direct"
  <2>1. raw = [prompt_type |-> "single_generation",
               prompt |-> [job_id |-> j, priority |-> Field(r.priority, None),
                           meta |-> PromptMeta(r), content |-> <<j, 1>>]]
    BY <1>2 DEF Transaction, PromptModel
  <2>2. t = [prompt_type |-> "single_generation",
             prompt |-> [job_id |-> j, priority |-> priority,
                         meta |-> PromptMeta(r), content |-> <<j, 1>>]]
    BY <2>1 DEF Prioritised
  <2> QED BY <1>1, <1>2, <2>1, <2>2
<1>3. CASE r.route # "direct"
  <2>1. raw = [prompt_type |-> "chat_completion",
               prompt |-> [job_id |-> j, priority |-> Field(r.priority, None),
                           meta |-> PromptMeta(r), messages |-> Messages(j, r)]]
    <3>1. CASE r.route = "chat_completion"
      BY <3>1 DEF Transaction, ChatCompletionModel
    <3>2. CASE r.route = "generate"
      <4>1. Messages(j, r) = <<[role |-> "user", content |-> <<j, 1>>]>>
        <5>1. r.roles = <<"user">>
          BY <3>2, JourneyAssumption
        <5>2. DOMAIN r.roles = {1} /\ r.roles[1] = "user"
          BY <5>1
        <5>3. Messages(j, r) = [i \in {1} |-> [role |-> "user", content |-> <<j, 1>>]]
          BY <5>2 DEF Messages
        <5> QED BY <5>3
      <4> QED BY <3>2, <4>1 DEF Transaction, from_prompt_model, PromptModel
    <3> QED BY <1>3, <3>1, <3>2, JourneyAssumption
  <2>2. t = [prompt_type |-> "chat_completion",
             prompt |-> [job_id |-> j, priority |-> priority,
                         meta |-> PromptMeta(r), messages |-> Messages(j, r)]]
    BY <2>1 DEF Prioritised
  <2> QED BY <1>1, <1>3, <2>1, <2>2
<1> QED BY <1>2, <1>3

\* The worker understands every task.
LEMMA TasksAreDecodable ==
    ASSUME NEW j \in Jobs, NEW r \in Requests
    PROVE  Decodable(Prioritised(Transaction(j, r)))
BY TransactionFacts DEF Decodable

\* The words of the client reach every library, for a single prompt as a string.
LEMMA InputFacts ==
    ASSUME NEW j \in Jobs, NEW r \in Requests, NEW class \in LLMs
    PROVE  LET a == Arguments(class, Prioritised(Transaction(j, r))) IN
           /\ a.input = Messages(j, r) \/ (r.route = "direct" /\ a.input = <<j, 1>>)
           /\ class \in {"VllMModel", "CppModel", "FakeModel"} =>
                 a.input = LocalInput(Prioritised(Transaction(j, r)))
<1> DEFINE t == Prioritised(Transaction(j, r))
<1>1. LocalInput(t) = Messages(j, r) \/ (r.route = "direct" /\ LocalInput(t) = <<j, 1>>)
  BY TransactionFacts DEF LocalInput, IsChat
<1>2. CASE class = "OpenAPILLM"
  <2>1. CASE r.route = "direct"
    <3>1. Messages(j, r) = <<[role |-> "user", content |-> <<j, 1>>]>>
      <4>1. r.roles = <<"user">>
        BY <2>1, JourneyAssumption
      <4>2. DOMAIN r.roles = {1} /\ r.roles[1] = "user"
        BY <4>1
      <4>3. Messages(j, r) = [i \in {1} |-> [role |-> "user", content |-> <<j, 1>>]]
        BY <4>2 DEF Messages
      <4> QED BY <4>3
    <3>2. ~IsChat(t) /\ t.prompt.content = <<j, 1>>
      BY <2>1, TransactionFacts DEF IsChat
    <3> QED BY <1>2, <3>1, <3>2 DEF Arguments, OpenAPIArguments
  <2>2. CASE r.route # "direct"
    <3>1. IsChat(t) /\ t.prompt.messages = Messages(j, r)
      BY <2>2, TransactionFacts DEF IsChat
    <3> QED BY <1>2, <3>1 DEF Arguments, OpenAPIArguments
  <2> QED BY <2>1, <2>2
<1>3. CASE class # "OpenAPILLM"
  <2>1. Arguments(class, t).input = LocalInput(t)
    BY <1>3 DEF Arguments, VllMArguments, CppArguments, LLMs
  <2> QED BY <1>1, <1>3, <2>1
<1> QED BY <1>2, <1>3

\* The library accepts these arguments, as far as its class looks after them.
UsableFor(class, a) ==
    /\ "temperature" \in DOMAIN a => a.temperature # None
    /\ class = "VllMModel" => a.tokens_limit \in Nat \ {0} /\ a.stop_words # None

\* The remote class replaces what is null, and an empty model name.
LEMMA RemoteParameters ==
    ASSUME NEW j, NEW r \in Requests, NEW a,
           a.input = Messages(j, r) \/ (r.route = "direct" /\ a.input = <<j, 1>>),
           a.temperature = OrElse(Field(r.temperature, 2), 5),
           a.tokens_limit = Field(r.tokens_limit, 8096),
           a.model = ModelName(Field(r.model, None))
    PROVE  Conveys("OpenAPILLM", j, r, a) /\ UsableFor("OpenAPILLM", a)
<1>1. Explicit(r.temperature) => a.temperature = r.temperature
  BY DEF Explicit, OrElse, Field
<1>2. Explicit(r.tokens_limit) => a.tokens_limit = r.tokens_limit
  BY DEF Explicit, Field
<1>3. Explicit(r.model) /\ r.model # NoName => a.model = r.model
  BY DEF Explicit, Field, ModelName
<1>4. a.temperature # None
  BY JourneyAssumption DEF OrElse
<1>5. UsableFor("OpenAPILLM", a)
  BY <1>4 DEF UsableFor
<1> QED BY <1>1, <1>2, <1>3, <1>5 DEF Conveys

\* What each library gets of the parameters the client has set, and of the others.
LEMMA ParameterFacts ==
    ASSUME NEW j \in Jobs, NEW r \in Requests, NEW class \in LLMs
    PROVE  LET a == Arguments(class, Prioritised(Transaction(j, r))) IN
           /\ Conveys(class, j, r, a)
           /\ UsableFor(class, a)
<1> DEFINE t == Prioritised(Transaction(j, r))
           a == Arguments(class, t)
<1>1. t.prompt.meta = PromptMeta(r)
  BY TransactionFacts
<1>2. /\ r.tokens_limit \in Int \cup {None, Omitted}
      /\ None \notin Int /\ Omitted \notin Int
      /\ None # <<>>
  BY JourneyAssumption
<1>0. a.input = Messages(j, r) \/ (r.route = "direct" /\ a.input = <<j, 1>>)
  BY InputFacts
<1>3. CASE class = "OpenAPILLM"
  <2>1. /\ a.temperature = OrElse(Field(r.temperature, 2), 5)
        /\ a.tokens_limit = Field(r.tokens_limit, 8096)
        /\ a.model = ModelName(Field(r.model, None))
    BY <1>1, <1>3 DEF Arguments, OpenAPIArguments, PromptMeta
  <2> QED BY <1>0, <1>3, <2>1, RemoteParameters
<1>4. CASE class = "VllMModel"
  <2>1. /\ a.temperature = OrElse(Field(r.temperature, 2), 2)
        /\ a.tokens_limit = VllMTokens(Field(r.tokens_limit, 8096))
        /\ a.stop_words = OrElse(Field(r.stop_words, None), <<>>)
    BY <1>1, <1>4 DEF Arguments, VllMArguments, PromptMeta
  <2> QED BY <1>0, <1>2, <1>4, <2>1 DEF Conveys, UsableFor, Explicit, OrElse, Field, VllMTokens
<1>5. CASE class = "CppModel"
  <2>1. /\ a.temperature = OrElse(Field(r.temperature, 2), 5)
        /\ a.tokens_limit = Field(r.tokens_limit, 8096)
        /\ a.stop_words = OrElse(Field(r.stop_words, None), <<>>)
    BY <1>1, <1>5 DEF Arguments, CppArguments, PromptMeta
  <2> QED BY <1>0, <1>2, <1>5, <2>1 DEF Conveys, UsableFor, Explicit, OrElse, Field
<1>6. CASE class = "FakeModel"
  <2>1. a = [input |-> LocalInput(t)]
    BY <1>6 DEF Arguments
  <2> QED BY <1>0, <1>6, <2>1 DEF Conveys, UsableFor
<1> QED BY <1>3, <1>4, <1>5, <1>6 DEF LLMs

\* A library is called with something.
LEMMA CalledWithSomething ==
    ASSUME NEW j \in Jobs, NEW r \in Requests, NEW class \in LLMs
    PROVE  Arguments(class, Prioritised(Transaction(j, r))) # None
<1> DEFINE raw == Transaction(j, r)
           t == Prioritised(raw)
<1>1. Arguments(class, raw) # None
  BY JourneyAssumption
<1>2. /\ IsChat(t) = IsChat(raw)
      /\ IsChat(t) => t.prompt.messages = raw.prompt.messages
      /\ ~IsChat(t) => t.prompt.content = raw.prompt.content
      /\ t.prompt.meta = raw.prompt.meta
  BY TransactionFacts, JourneyAssumption DEF IsChat
<1>3. LocalInput(t) = LocalInput(raw)
  BY <1>2 DEF LocalInput
<1>4. OpenAPIArguments(t) = OpenAPIArguments(raw)
  BY <1>2 DEF OpenAPIArguments
<1>5. VllMArguments(t) = VllMArguments(raw) /\ CppArguments(t) = CppArguments(raw)
  BY <1>2, <1>3 DEF VllMArguments, CppArguments
<1>6. Arguments(class, t) = Arguments(class, raw)
  BY <1>3, <1>4, <1>5 DEF Arguments
<1> QED BY <1>1, <1>6

\* What the library gives back: a text about its input, nothing, or an exception.
LEMMA OutcomeFacts ==
    ASSUME NEW j \in Jobs, NEW r \in Requests, NEW class \in LLMs,
           NEW o \in Outcomes(class, Prioritised(Transaction(j, r)))
    PROVE  o \in {Text(Arguments(class, Prioritised(Transaction(j, r))).input), NoText, Raised}
BY InputFacts DEF Outcomes, FakeOutcome, LLMs

\* The three kinds of outcome are told apart by what they say they are.
LEMMA OutcomesDiffer ==
    /\ \A x : Text(x).result = "text" /\ Text(x).of = x /\ Text(x) # Raised
    /\ NoText.result = "none" /\ NoText.of = None /\ NoText # Raised
<1>1. Raised.result = "raised"
  BY DEF Raised
<1>2. \A x : Text(x).result = "text" /\ Text(x).of = x
  BY DEF Text
<1>3. NoText.result = "none" /\ NoText.of = None
  BY DEF NoText
<1> QED BY <1>1, <1>2, <1>3

-----------------------------------------------------------------------------
(* Sequences of jobs *)

\* A job at the end of a sequence.
LEMMA AppendFacts ==
    ASSUME NEW s \in Seq(Jobs), NEW j \in Jobs
    PROVE  /\ Append(s, j) \in Seq(Jobs) /\ Append(s, j) # <<>>
           /\ \A i : In(i, Append(s, j)) <=> In(i, s) \/ i = j
           /\ s # <<>> => Head(Append(s, j)) = Head(s)
           /\ NoTwice(s) /\ ~In(j, s) => NoTwice(Append(s, j))
<1> DEFINE t == Append(s, j)
<1>1. /\ t \in Seq(Jobs) /\ Len(t) = Len(s) + 1 /\ Len(s) \in Nat
      /\ \A a \in 1..Len(s) : t[a] = s[a]
      /\ t[Len(s) + 1] = j
      /\ DOMAIN s = 1..Len(s) /\ DOMAIN t = 1..Len(t)
  OBVIOUS
<1> HIDE DEF t
<1>2. t # <<>>
  BY <1>1
<1>3. \A i : In(i, t) <=> In(i, s) \/ i = j
  BY <1>1 DEF In
<1>4. s # <<>> => Head(t) = Head(s)
  BY <1>1
<1>5. NoTwice(s) /\ ~In(j, s) => NoTwice(t)
  BY <1>1 DEF NoTwice, In
<1> QED BY <1>1, <1>2, <1>3, <1>4, <1>5 DEF t

\* The first of a sequence, and the rest.
LEMMA TailFacts ==
    ASSUME NEW s \in Seq(Jobs), s # <<>>
    PROVE  /\ Head(s) \in Jobs /\ In(Head(s), s)
           /\ Tail(s) \in Seq(Jobs)
           /\ \A i : In(i, s) <=> i = Head(s) \/ In(i, Tail(s))
           /\ NoTwice(s) => NoTwice(Tail(s)) /\ ~In(Head(s), Tail(s))
<1> DEFINE t == Tail(s)
<1>1. /\ t \in Seq(Jobs) /\ Len(t) = Len(s) - 1 /\ Len(s) \in Nat \ {0}
      /\ \A a \in 1..Len(t) : t[a] = s[a + 1]
      /\ DOMAIN s = 1..Len(s) /\ DOMAIN t = 1..Len(t)
      /\ Head(s) = s[1]
  OBVIOUS
<1> HIDE DEF t
<1>2. Head(s) \in Jobs /\ In(Head(s), s)
  BY <1>1 DEF In
<1>3. ASSUME NEW i PROVE In(i, s) <=> i = Head(s) \/ In(i, t)
  <2>1. ASSUME NEW a \in DOMAIN s, s[a] = i, a # 1 PROVE In(i, t)
    <3>1. a - 1 \in DOMAIN t /\ t[a - 1] = i
      BY <1>1, <2>1
    <3> QED BY <3>1 DEF In
  <2>2. ASSUME NEW a \in DOMAIN t, t[a] = i PROVE In(i, s)
    <3>1. a + 1 \in DOMAIN s /\ s[a + 1] = i
      BY <1>1, <2>2
    <3> QED BY <3>1 DEF In
  <2>3. i = Head(s) => In(i, s)
    BY <1>2
  <2>4. In(i, s) => i = Head(s) \/ In(i, t)
    <3>1. SUFFICES ASSUME NEW a \in DOMAIN s, s[a] = i PROVE i = Head(s) \/ In(i, t)
      BY DEF In
    <3>2. CASE a = 1
      BY <1>1, <3>1, <3>2
    <3>3. CASE a # 1
      BY <2>1, <3>1, <3>3
    <3> QED BY <3>2, <3>3
  <2>5. In(i, t) => In(i, s)
    BY <2>2 DEF In
  <2> QED BY <2>3, <2>4, <2>5
<1>4. NoTwice(s) => NoTwice(t) /\ ~In(Head(s), t)
  <2> SUFFICES ASSUME NoTwice(s) PROVE NoTwice(t) /\ ~In(Head(s), t)
    OBVIOUS
  <2>1. \A a \in DOMAIN t : a + 1 \in DOMAIN s /\ a \in Nat /\ a + 1 # 1 /\ 1 \in DOMAIN s
    BY <1>1
  <2>2. \A a, b \in DOMAIN t : t[a] = t[b] => a + 1 = b + 1
    BY <1>1, <2>1 DEF NoTwice
  <2>3. \A a \in DOMAIN t : t[a] # Head(s)
    BY <1>1, <2>1 DEF NoTwice
  <2> QED BY <2>1, <2>2, <2>3 DEF NoTwice, In
<1> QED BY <1>1, <1>2, <1>3, <1>4 DEF t

-----------------------------------------------------------------------------
(* What a step does *)

\* The keys of a job are keys of Redis.
LEMMA KeysOfJob ==
    ASSUME JourneyTypeOK, NEW side \in {"backend", "worker"}, NEW j \in Jobs
    PROVE  /\ StatusPrefix(side) \in Prefixes /\ StatusKey(side, j) = <<StatusPrefix(side), j>>
           /\ StatusKey(side, j) \in Keys /\ AnswerKey(side, j) \in Keys
<1>1. setting[side] \in Configs
  BY DEF JourneyTypeOK
<1>2. /\ setting[side]["REDIS_PREFIX_FOR_STATUS"] \in Prefixes
      /\ setting[side]["REDIS_PREFIX_FOR_ANSWER"] \in Prefixes
  BY <1>1 DEF Prefixes, Variables
<1> QED BY <1>2 DEF StatusKey, AnswerKey, Keys, StatusPrefix

\* The job the worker is at is submitted and queued.
LEMMA CurrentFacts ==
    ASSUME JourneyInv, buffer # <<>>
    PROVE  /\ Current \in Jobs /\ In(Current, buffer) /\ In(Current, published)
           /\ Current \notin ready
           /\ at[Current] \in {"wait", "done"}
           /\ asked[Current] \in Requests
           /\ task[Current] = Prioritised(Transaction(Current, asked[Current]))
           /\ Decodable(task[Current])
           /\ working = "idle" => Current \notin begun
<1>1. buffer \in Seq(Jobs)
  BY DEF JourneyInv, Domains, JourneyTypeOK
<1>2. Current \in Jobs /\ In(Current, buffer)
  BY <1>1, TailFacts DEF Current
<1>3. /\ In(Current, published) /\ Current \notin ready
      /\ working = "idle" => Current \notin begun
      /\ at[Current] \in {"wait", "done"}
  BY <1>2 DEF JourneyInv, Places
<1>4. /\ asked[Current] \in Requests
      /\ task[Current] = Prioritised(Transaction(Current, asked[Current]))
  BY <1>2, <1>3 DEF JourneyInv, TasksAreTransactions
<1> QED BY <1>2, <1>3, <1>4, TasksAreDecodable

\* What becomes of a task whose callback raises.
LEMMA RefusalFacts ==
    ASSUME JourneyInv, CallbackRaises \/ UpdateFails
    PROVE  /\ working = "idle" /\ buffer # <<>>
           /\ ready' = ready \cup {Current} /\ buffer' = Tail(buffer)
           /\ UNCHANGED <<llm, setting, asked, at, reply, task, answer, published, working, begun, call, outcome>>
           /\ faults' \in Nat
           /\ \/ UNCHANGED status
              \/ /\ status[StatusKey("worker", Current)] # None
                 /\ status' = [status EXCEPT ![StatusKey("worker", Current)] = "in_progress"]
<1>1. faults \in Nat
  BY DEF JourneyInv, Domains, JourneyTypeOK
<1> QED BY <1>1 DEF CallbackRaises, UpdateFails, Requeue, SetsInProgress, client

\* What publish does to its handler.
LEMMA PublishFacts ==
    ASSUME JourneyInv, NEW j \in Jobs, publish(j)
    PROVE  \/ at' = [at EXCEPT ![j] = "wait"] /\ reply' = reply
           \/ at' = [at EXCEPT ![j] = "done"]
              /\ reply' = [reply EXCEPT ![j] = [kind |-> "job_id", of |-> j]]
<1>1. asked[j].mode \in {"sync", "async"}
  BY JourneyAssumption DEF publish, JourneyInv, TasksAreTransactions
<1>2. CASE asked[j].mode = "sync"
  BY <1>2 DEF publish
<1>3. CASE asked[j].mode = "async"
  BY <1>3 DEF publish, Answered
<1> QED BY <1>1, <1>2, <1>3

\* Job j gets a reply of this kind, which is backed by Redis.
Replied(j, kind, of) ==
    /\ reply' = [reply EXCEPT ![j] = [kind |-> kind, of |-> of]]
    /\ kind = "answer" =>
          answer[AnswerKey("backend", j)] # None /\ of = answer[AnswerKey("backend", j)].of
    /\ kind = "error" => status[StatusKey("backend", j)] = "error"

\* What the other steps of a handler do.
LEMMA HandlerFacts ==
    ASSUME NEW j \in Jobs, PublishRaises(j) \/ GiveUp(j) \/ get_result(j) \/ check_status(j)
    PROVE  /\ \E kind \in Replies : \E of : Replied(j, kind, of)
           /\ at' = at \/ (at' = [at EXCEPT ![j] = "done"] /\ at[j] # "idle")
           /\ UNCHANGED <<llm, setting, asked, task, redis, broker, worker>>
<1> DEFINE s == status[StatusKey("backend", j)]
           a == answer[AnswerKey("backend", j)]
<1>1. /\ at' = at \/ (at' = [at EXCEPT ![j] = "done"] /\ at[j] # "idle")
      /\ UNCHANGED <<llm, setting, asked, task, redis, broker, worker>>
  BY DEF PublishRaises, GiveUp, get_result, check_status
<1>2. \/ Answered(j, "failed", None) \/ Answered(j, "late", None)
      \/ Answered(j, "not_found", None) \/ Answered(j, "unfinished", None)
      \/ s = "error" /\ Answered(j, "error", None)
      \/ a # None /\ Answered(j, "answer", a.of)
  BY DEF PublishRaises, GiveUp, get_result, check_status
<1>3. \/ Replied(j, "failed", None) \/ Replied(j, "late", None)
      \/ Replied(j, "not_found", None) \/ Replied(j, "unfinished", None)
      \/ Replied(j, "error", None) \/ Replied(j, "answer", a.of)
  BY <1>2 DEF Answered, Replied
<1>4. \E kind \in Replies : \E of : Replied(j, kind, of)
  BY <1>3, Zenon DEF Replies
<1> QED BY <1>1, <1>4

\* Every step keeps the types.
LEMMA DomainsStep == JourneyInv /\ [JourneyNext]_journeyVars => Domains'
<1> SUFFICES ASSUME JourneyInv, [JourneyNext]_journeyVars PROVE Domains'
  OBVIOUS
<1> USE DEF client, redis, broker, worker
<1>0. Domains /\ JourneyTypeOK
  BY DEF JourneyInv, Domains
<1>1. ASSUME NEW j \in Jobs, NEW r \in Requests, send_task(j, r) PROVE Domains'
  <2>1. StatusKey("backend", j) \in Keys
    BY <1>0, KeysOfJob
  <2>2. task'[j].prompt.job_id = j /\ task'[j].prompt.priority # None
    BY <1>0, <1>1, TransactionFacts, JourneyAssumption DEF send_task, Domains
  <2>3. reply'[j].kind = "none"
    BY <1>0, <1>1 DEF send_task, Domains, NoReply
  <2> QED BY <1>0, <1>1, <2>1, <2>2, <2>3 DEF send_task, Domains, JourneyTypeOK, Statuses, Replies
<1>2. ASSUME NEW j \in Jobs, publish(j) PROVE Domains'
  <2>1. Append(published, j) \in Seq(Jobs)
    BY <1>0, AppendFacts DEF JourneyTypeOK
  <2>2. published' \in Seq(Jobs) /\ ready' \subseteq Jobs
    <3>1. \/ published' = Append(published, j) /\ ready' = ready \cup {j}
          \/ published' = published /\ ready' = ready
      BY <1>2 DEF publish
    <3> QED BY <1>0, <2>1, <3>1 DEF JourneyTypeOK
  <2>3. /\ at' \in [Jobs -> {"idle", "publish", "wait", "done"}]
        /\ DOMAIN reply' = Jobs /\ \A i \in Jobs : reply'[i].kind \in Replies
    <3>1. CASE at' = [at EXCEPT ![j] = "wait"] /\ reply' = reply
      BY <1>0, <3>1 DEF Domains, JourneyTypeOK
    <3>2. CASE /\ at' = [at EXCEPT ![j] = "done"]
               /\ reply' = [reply EXCEPT ![j] = [kind |-> "job_id", of |-> j]]
      BY <1>0, <3>2 DEF Domains, JourneyTypeOK, Replies
    <3> QED BY <1>2, <3>1, <3>2, PublishFacts
  <2> QED BY <1>0, <1>2, <2>2, <2>3 DEF publish, Domains, JourneyTypeOK
<1>3. ASSUME NEW j \in Jobs, PublishRaises(j) \/ GiveUp(j) \/ get_result(j) \/ check_status(j)
      PROVE Domains'
  <2>1. /\ at' \in [Jobs -> {"idle", "publish", "wait", "done"}]
        /\ DOMAIN reply' = Jobs /\ \A i \in Jobs : reply'[i].kind \in Replies
    <3>1. PICK kind \in Replies : \E of : Replied(j, kind, of)
      BY <1>3, HandlerFacts
    <3>2. PICK of : reply' = [reply EXCEPT ![j] = [kind |-> kind, of |-> of]]
      BY <3>1 DEF Replied
    <3>3. at' = at \/ at' = [at EXCEPT ![j] = "done"]
      BY <1>3, HandlerFacts
    <3> QED BY <1>0, <3>2, <3>3 DEF Domains, JourneyTypeOK
  <2>2. UNCHANGED <<llm, setting, asked, task, redis, broker, worker>>
    BY <1>3, HandlerFacts
  <2> QED BY <1>0, <2>1, <2>2 DEF Domains, JourneyTypeOK
<1>4. ASSUME NEW j \in Jobs, Deliver(j) PROVE Domains'
  <2>1. buffer' \in Seq(Jobs) /\ buffer' # <<>>
    BY <1>0, <1>4, AppendFacts DEF Deliver, JourneyTypeOK
  <2> QED BY <1>0, <1>4, <2>1 DEF Deliver, Domains, JourneyTypeOK
<1>5. CASE callback
  <2>1. Current \in Jobs
    BY <1>5, CurrentFacts DEF callback
  <2>2. begun' \subseteq Jobs
    BY <1>0, <1>5, <2>1 DEF callback, JourneyTypeOK
  <2>3. StatusKey("worker", Current) \in Keys
    BY <1>0, <2>1, KeysOfJob
  <2>4. status' \in [Keys -> Statuses \cup {None}]
    BY <1>0, <1>5, <2>3 DEF callback, SetsInProgress, JourneyTypeOK, Statuses
  <2> QED BY <1>0, <1>5, <2>2, <2>4 DEF callback, Domains, JourneyTypeOK
<1>6. CASE CallbackRaises \/ UpdateFails
  <2>1. Current \in Jobs
    BY <1>6, CurrentFacts, RefusalFacts
  <2>2. buffer' \in Seq(Jobs) /\ ready' \subseteq Jobs /\ faults' \in Nat /\ working' = "idle"
    BY <1>0, <1>6, <2>1, TailFacts, RefusalFacts DEF JourneyTypeOK
  <2>3. StatusKey("worker", Current) \in Keys
    BY <1>0, <2>1, KeysOfJob
  <2>4. status' \in [Keys -> Statuses \cup {None}]
    BY <1>0, <1>6, <2>3, RefusalFacts DEF JourneyTypeOK, Statuses
  <2>5. UNCHANGED <<llm, setting, asked, at, reply, task, answer, published, begun, call, outcome>>
    BY <1>6, RefusalFacts
  <2> QED BY <1>0, <2>2, <2>4, <2>5 DEF Domains, JourneyTypeOK
<1>7. CASE CallLLM
  <2>1. DOMAIN call' = Jobs /\ DOMAIN outcome' = Jobs
    BY <1>0, <1>7 DEF CallLLM, Domains
  <2> QED BY <1>0, <1>7, <2>1 DEF CallLLM, Domains, JourneyTypeOK
<1>8. CASE complete_job
  <2>1. buffer # <<>> /\ Current \in Jobs
    BY <1>0, <1>8, CurrentFacts DEF complete_job, JourneyTypeOK
  <2>2. StatusKey("worker", Current) \in Keys
    BY <1>0, <2>1, KeysOfJob
  <2>3. status' \in [Keys -> Statuses \cup {None}]
    BY <1>0, <1>8, <2>2 DEF complete_job, JourneyTypeOK, Statuses
  <2>4. /\ buffer' \in Seq(Jobs) /\ working' \in {"idle", "result"}
        /\ working' # "idle" => buffer' # <<>>
    BY <1>0, <1>8, <2>1, TailFacts DEF complete_job, Finish, JourneyTypeOK
  <2> QED BY <1>0, <1>8, <2>3, <2>4 DEF complete_job, Domains, JourneyTypeOK
<1>9. CASE SaveResult
  <2>1. buffer # <<>> /\ Current \in Jobs
    BY <1>0, <1>9, CurrentFacts DEF SaveResult, JourneyTypeOK
  <2>2. AnswerKey("worker", Current) \in Keys
    BY <1>0, <2>1, KeysOfJob
  <2>3. outcome[Current].result \in {"text", "none"}
    <3>1. outcome[Current] \in Outcomes(llm, task[Current]) /\ outcome[Current] # Raised
      BY <1>9 DEF SaveResult, JourneyInv, Calls
    <3>2. \E x : outcome[Current] \in {Text(x), NoText, Raised}
      BY <1>0, <2>1, <3>1, CurrentFacts, OutcomeFacts DEF JourneyTypeOK
    <3> QED BY <3>1, <3>2, OutcomesDiffer
  <2>4. /\ answer' = [k \in Keys |-> answer'[k]]
        /\ \A k \in Keys : answer'[k] # None => answer'[k].result \in {"text", "none"}
    BY <1>0, <1>9, <2>2, <2>3 DEF SaveResult, Domains, JourneyTypeOK
  <2>5. buffer' \in Seq(Jobs) /\ working' = "idle"
    BY <1>0, <1>9, <2>1, TailFacts DEF SaveResult, Finish, JourneyTypeOK
  <2> QED BY <1>0, <1>9, <2>4, <2>5 DEF SaveResult, Domains, JourneyTypeOK
<1>10. CASE UNCHANGED journeyVars
  BY <1>0, <1>10 DEF journeyVars, Domains, JourneyTypeOK
<1> QED
  BY <1>1, <1>2, <1>3, <1>4, <1>5, <1>6, <1>7, <1>8, <1>9, <1>10 DEF JourneyNext, BackendStep, WorkerStep

\* A task is made once.
LEMMA TasksStep == JourneyInv /\ [JourneyNext]_journeyVars => TasksAreTransactions'
<1> SUFFICES ASSUME JourneyInv, [JourneyNext]_journeyVars PROVE TasksAreTransactions'
  OBVIOUS
<1> USE DEF client, redis, broker, worker
<1>0. /\ TasksAreTransactions
      /\ DOMAIN at = Jobs /\ DOMAIN asked = Jobs /\ DOMAIN task = Jobs
  BY DEF JourneyInv, Domains, JourneyTypeOK
<1>1. ASSUME NEW j \in Jobs, NEW r \in Requests, send_task(j, r) PROVE TasksAreTransactions'
  BY <1>0, <1>1 DEF send_task, TasksAreTransactions
<1>2. ASSUME UNCHANGED <<asked, task>>, \A i \in Jobs : at'[i] # "idle" => at[i] # "idle"
      PROVE  TasksAreTransactions'
  BY <1>0, <1>2 DEF TasksAreTransactions
<1>3. ASSUME NEW j \in Jobs, publish(j) PROVE TasksAreTransactions'
  <2>1. at[j] = "publish" /\ UNCHANGED <<asked, task>>
    BY <1>3 DEF publish
  <2>2. at' = [at EXCEPT ![j] = "wait"] \/ at' = [at EXCEPT ![j] = "done"]
    BY <1>3, PublishFacts
  <2> QED BY <1>0, <1>2, <2>1, <2>2
<1>4. ASSUME NEW j \in Jobs, PublishRaises(j) \/ GiveUp(j) \/ get_result(j) \/ check_status(j)
      PROVE  TasksAreTransactions'
  <2>1. UNCHANGED <<asked, task>>
    BY <1>4, HandlerFacts
  <2>2. at' = at \/ (at' = [at EXCEPT ![j] = "done"] /\ at[j] # "idle")
    BY <1>4, HandlerFacts
  <2> QED BY <1>0, <1>2, <2>1, <2>2
<1>5. ASSUME \E j \in Jobs : Deliver(j) PROVE TasksAreTransactions'
  BY <1>2, <1>5 DEF Deliver
<1>6. CASE WorkerStep
  BY <1>2, <1>6 DEF WorkerStep, callback, CallbackRaises, UpdateFails, Requeue, CallLLM, complete_job, SaveResult
<1>7. CASE UNCHANGED journeyVars
  BY <1>2, <1>7 DEF journeyVars
<1> QED BY <1>1, <1>3, <1>4, <1>5, <1>6, <1>7 DEF JourneyNext, BackendStep

\* Where a job is.
LEMMA PlacesStep == JourneyInv /\ [JourneyNext]_journeyVars => Places'
<1> SUFFICES ASSUME JourneyInv, [JourneyNext]_journeyVars PROVE Places'
  OBVIOUS
<1> USE DEF client, redis, broker, worker
<1>0. /\ Places
      /\ at \in [Jobs -> {"idle", "publish", "wait", "done"}] /\ DOMAIN task = Jobs
      /\ published \in Seq(Jobs) /\ buffer \in Seq(Jobs)
      /\ ready \subseteq Jobs
      /\ working # "idle" => buffer # <<>>
  BY DEF JourneyInv, Domains, JourneyTypeOK
<1>1. ASSUME NEW j \in Jobs, NEW r \in Requests, send_task(j, r) PROVE Places'
  <2>1. at[j] = "idle" /\ UNCHANGED <<broker, worker>>
    BY <1>1 DEF send_task
  <2>2. \A i \in Jobs \ {j} : at'[i] = at[i] /\ task'[i] = task[i]
    BY <1>0, <1>1 DEF send_task
  <2>3. ~In(j, published)
    BY <1>0, <2>1 DEF Places
  <2>4. \A i \in Jobs : In(i, published) => at'[i] \in {"wait", "done"} /\ Packable(i)'
    BY <1>0, <2>2, <2>3 DEF Places, Packable, Priority
  <2> QED BY <1>0, <2>1, <2>4 DEF Places, Current
<1>2. ASSUME NEW j \in Jobs, publish(j) PROVE Places'
  <2>1. at[j] = "publish" /\ Packable(j) /\ UNCHANGED <<task, worker>>
    BY <1>2 DEF publish
  <2>2. ~In(j, published) /\ ~In(j, buffer) /\ j \notin begun
    BY <1>0, <2>1 DEF Places
  <2>3. /\ NoTwice(published')
        /\ \A i \in Jobs : In(i, published') => In(i, published) \/ i = j
        /\ \A i \in Jobs : In(i, published) => In(i, published')
        /\ \A i \in Jobs : i \in ready' => i \in ready \/ (i = j /\ In(j, published'))
        /\ \A i \in Jobs : In(i, published') => i \in ready' \/ In(i, buffer) \/ i \in begun
    <3>1. CASE Reaches(j)
      <4>1. published' = Append(published, j) /\ ready' = ready \cup {j}
        BY <1>2, <3>1 DEF publish
      <4> QED BY <1>0, <2>2, <4>1, AppendFacts DEF Places
    <3>2. CASE ~Reaches(j)
      BY <1>0, <1>2, <3>2 DEF publish, Places
    <3> QED BY <3>1, <3>2
  <2>4. \A i \in Jobs : In(i, published) \/ i = j => at'[i] \in {"wait", "done"}
    <3>1. at' = [at EXCEPT ![j] = "wait"] \/ at' = [at EXCEPT ![j] = "done"]
      BY <1>2, PublishFacts
    <3> QED BY <1>0, <3>1 DEF Places
  <2>5. \A i \in Jobs : Packable(i)' = Packable(i)
    BY <2>1 DEF Packable, Priority
  <2> QED BY <1>0, <2>1, <2>2, <2>3, <2>4, <2>5 DEF Places, Current
<1>3. ASSUME UNCHANGED <<task, broker, buffer, begun>>,
             \A i \in Jobs : at[i] \in {"wait", "done"} => at'[i] \in {"wait", "done"},
             working' = working \/ (working # "idle" /\ working' # "idle")
      PROVE  Places'
  BY <1>0, <1>3 DEF Places, Current, Packable, Priority
<1>4. ASSUME NEW j \in Jobs, PublishRaises(j) \/ GiveUp(j) \/ get_result(j) \/ check_status(j)
      PROVE  Places'
  <2>1. UNCHANGED <<task, broker, worker>>
    BY <1>4, HandlerFacts
  <2>2. at' = at \/ at' = [at EXCEPT ![j] = "done"]
    BY <1>4, HandlerFacts
  <2> QED BY <1>0, <1>3, <2>1, <2>2
<1>5. ASSUME NEW j \in Jobs, Deliver(j) PROVE Places'
  <2>1. /\ j \in ready /\ ready' = ready \ {j} /\ buffer' = Append(buffer, j)
        /\ UNCHANGED <<at, task, published, working, begun>>
    BY <1>5 DEF Deliver
  <2>2. ~In(j, buffer) /\ j \notin begun /\ In(j, published)
    BY <1>0, <2>1 DEF Places
  <2>3. /\ NoTwice(buffer') /\ buffer' # <<>>
        /\ \A i \in Jobs : In(i, buffer') <=> In(i, buffer) \/ i = j
        /\ buffer # <<>> => Current' = Current
    BY <1>0, <2>1, <2>2, AppendFacts DEF Places, Current
  <2>4. \A i \in Jobs : Packable(i)' = Packable(i)
    BY <2>1 DEF Packable, Priority
  <2>5. working # "idle" => Current' = Current
    BY <1>0, <2>3
  <2> QED BY <1>0, <2>1, <2>2, <2>3, <2>4, <2>5 DEF Places
<1>6. CASE callback
  <2>1. /\ working = "idle" /\ working' # "idle" /\ buffer # <<>> /\ begun' = begun \cup {Current}
        /\ UNCHANGED <<at, task, broker, buffer>>
    BY <1>6 DEF callback
  <2>2. Current \in Jobs /\ In(Current, buffer) /\ In(Current, published) /\ Current \notin ready
    BY <2>1, CurrentFacts
  <2>3. \A i : i \in begun' <=> i \in begun \/ i = Current
    BY <2>1
  <2>4. \A i \in Jobs : Packable(i)' = Packable(i)
    BY <2>1 DEF Packable, Priority
  <2>5. Current' = Current
    BY <2>1 DEF Current
  <2> QED BY <1>0, <2>1, <2>2, <2>3, <2>4, <2>5 DEF Places
<1>7. CASE CallbackRaises \/ UpdateFails
  <2>1. /\ working = "idle" /\ buffer # <<>>
        /\ ready' = ready \cup {Current} /\ buffer' = Tail(buffer)
        /\ UNCHANGED <<at, task, published, working, begun>>
    BY <1>7, RefusalFacts
  <2>2. /\ Current \in Jobs /\ In(Current, published) /\ Current \notin begun
        /\ at[Current] \in {"wait", "done"}
    BY <2>1, CurrentFacts
  <2>3. /\ NoTwice(buffer') /\ ~In(Current, buffer')
        /\ \A i : In(i, buffer) <=> i = Current \/ In(i, buffer')
    BY <1>0, <2>1, TailFacts DEF Places, Current
  <2>4. \A i \in Jobs : Packable(i)' = Packable(i)
    BY <2>1 DEF Packable, Priority
  <2> QED BY <1>0, <2>1, <2>2, <2>3, <2>4 DEF Places
<1>8. CASE CallLLM
  BY <1>3, <1>8 DEF CallLLM
<1>9. ASSUME working # "idle", Finish, UNCHANGED <<at, task, broker, begun>> PROVE Places'
  <2>1. working' = "idle" /\ buffer' = Tail(buffer)
    BY <1>9 DEF Finish
  <2>2. /\ NoTwice(buffer') /\ ~In(Current, buffer')
        /\ \A i : In(i, buffer) <=> i = Current \/ In(i, buffer')
    BY <1>0, <1>9, <2>1, TailFacts DEF Places, Current
  <2>3. \A i \in Jobs : Packable(i)' = Packable(i)
    BY <1>9 DEF Packable, Priority
  <2> QED BY <1>0, <1>9, <2>1, <2>2, <2>3 DEF Places
<1>10. CASE complete_job
  <2>1. CASE outcome[Current] = Raised
    BY <1>9, <1>10, <2>1 DEF complete_job
  <2>2. CASE outcome[Current] # Raised
    <3>1. working = "complete" /\ working' = "result" /\ UNCHANGED <<at, task, broker, begun, buffer>>
      BY <1>10, <2>2 DEF complete_job
    <3> QED BY <1>3, <3>1
  <2> QED BY <2>1, <2>2
<1>11. CASE SaveResult
  BY <1>9, <1>11 DEF SaveResult
<1>12. CASE UNCHANGED journeyVars
  BY <1>3, <1>12 DEF journeyVars
<1> QED
  BY <1>1, <1>2, <1>4, <1>5, <1>6, <1>7, <1>8, <1>10, <1>11, <1>12 DEF JourneyNext, BackendStep, WorkerStep

\* Who has written a status.
LEMMA StatusWritersStep == JourneyInv /\ [JourneyNext]_journeyVars => StatusWriters'
<1> SUFFICES ASSUME JourneyInv, [JourneyNext]_journeyVars PROVE StatusWriters'
  OBVIOUS
<1> USE DEF client, redis, broker, worker
<1>0. /\ StatusWriters
      /\ DOMAIN at = Jobs /\ DOMAIN status = Keys /\ DOMAIN outcome = Jobs
      /\ Keys = Prefixes \X Jobs
      /\ working # "idle" => buffer # <<>> /\ Current \in begun
      /\ None \notin {"pending", "in_progress", "completed", "error"}
  BY JourneyAssumption DEF JourneyInv, Domains, JourneyTypeOK, Keys, Places
<1>k. ASSUME NEW side \in {"backend", "worker"}
      PROVE  /\ StatusPrefix(side) \in Prefixes
             /\ \A j \in Jobs : StatusKey(side, j) = <<StatusPrefix(side), j>>
  BY KeysOfJob DEF JourneyInv, Domains, StatusPrefix, StatusKey, JourneyTypeOK, Prefixes, Variables
<1>s. UNCHANGED setting => \A side : /\ StatusPrefix(side)' = StatusPrefix(side)
                                      /\ \A j : StatusKey(side, j)' = StatusKey(side, j)
  BY DEF StatusPrefix, StatusKey
<1>1. ASSUME NEW j \in Jobs, NEW r \in Requests, send_task(j, r) PROVE StatusWriters'
  <2>1. /\ at[j] = "idle" /\ at' = [at EXCEPT ![j] = "publish"]
        /\ status' = [status EXCEPT ![<<StatusPrefix("backend"), j>>] = "pending"]
        /\ UNCHANGED <<setting, worker>>
    BY <1>1, <1>k DEF send_task
  <2>2. working # "idle" => Current \in Jobs /\ Current # j
    BY <1>0, <2>1, CurrentFacts
  <2>3. Current' = Current
    BY <2>1 DEF Current
  <2> QED BY <1>0, <1>k, <1>s, <2>1, <2>2, <2>3 DEF StatusWriters
<1>2. ASSUME UNCHANGED <<setting, status, begun, outcome>>,
             \A i \in Jobs : at'[i] # "idle" => at[i] # "idle",
             working' \in {"call", "complete"} => working' = working /\ Current' = Current
      PROVE  StatusWriters'
  BY <1>0, <1>2, <1>s DEF StatusWriters
<1>3. ASSUME NEW j \in Jobs, publish(j) PROVE StatusWriters'
  <2>1. at[j] = "publish" /\ UNCHANGED <<setting, redis, worker>>
    BY <1>3 DEF publish
  <2>2. at' = [at EXCEPT ![j] = "wait"] \/ at' = [at EXCEPT ![j] = "done"]
    BY <1>3, PublishFacts
  <2> QED BY <1>0, <1>2, <2>1, <2>2 DEF Current
<1>4. ASSUME NEW j \in Jobs, PublishRaises(j) \/ GiveUp(j) \/ get_result(j) \/ check_status(j)
      PROVE  StatusWriters'
  <2>1. /\ UNCHANGED <<setting, redis, worker>>
        /\ at' = at \/ (at' = [at EXCEPT ![j] = "done"] /\ at[j] # "idle")
    BY <1>4, HandlerFacts
  <2> QED BY <1>0, <1>2, <2>1 DEF Current
<1>5. ASSUME NEW j \in Jobs, Deliver(j) PROVE StatusWriters'
  <2>1. buffer' = Append(buffer, j) /\ UNCHANGED <<setting, status, at, working, begun, outcome>>
    BY <1>5 DEF Deliver
  <2>2. buffer # <<>> => Current' = Current
    BY <2>1, AppendFacts DEF Current, JourneyInv, Domains, JourneyTypeOK
  <2> QED BY <1>0, <1>2, <2>1, <2>2
<1>6. CASE callback
  <2>1. /\ buffer # <<>> /\ begun' = begun \cup {Current} /\ working' = "call"
        /\ UNCHANGED <<setting, at, buffer, outcome>>
    BY <1>6 DEF callback
  <2>2. Current \in Jobs /\ Current' = Current
    BY <2>1, CurrentFacts DEF Current
  <2>3. status' = [status EXCEPT ![<<StatusPrefix("worker"), Current>>] = "in_progress"]
    BY <1>6, <1>k, <2>2 DEF callback, SetsInProgress
  <2>4. \A i : i \in begun' <=> i \in begun \/ i = Current
    BY <2>1
  <2> QED BY <1>0, <1>k, <1>s, <2>1, <2>2, <2>3, <2>4 DEF StatusWriters
<1>7. CASE CallbackRaises \/ UpdateFails
  <2>1. /\ working' = "idle" /\ buffer # <<>>
        /\ UNCHANGED <<setting, at, begun, outcome>>
    BY <1>7, RefusalFacts
  <2>2. Current \in Jobs
    BY <2>1, CurrentFacts
  <2>3. CASE UNCHANGED status
    BY <1>2, <2>1, <2>3
  <2>4. CASE /\ status[<<StatusPrefix("worker"), Current>>] # None
             /\ status' = [status EXCEPT ![<<StatusPrefix("worker"), Current>>] = "in_progress"]
    BY <1>0, <1>k, <1>s, <2>1, <2>2, <2>4 DEF StatusWriters
  <2> QED BY <1>7, <1>k, <2>2, <2>3, <2>4, RefusalFacts
<1>8. CASE CallLLM
  <2>1. /\ working = "call" /\ working' = "complete"
        /\ UNCHANGED <<setting, at, status, buffer, begun>>
    BY <1>8 DEF CallLLM
  <2>2. PICK o : outcome' = [outcome EXCEPT ![Current] = o]
    BY <1>8 DEF CallLLM
  <2>3. Current \in Jobs /\ Current' = Current
    BY <1>0, <2>1, CurrentFacts DEF Current
  <2>4. status[<<StatusPrefix("worker"), Current>>] = "in_progress"
    BY <1>0, <1>k, <2>1, <2>3 DEF StatusWriters
  <2>5. \A p \in Prefixes : status[<<p, Current>>] # "error"
    BY <1>0, <1>k, <2>3, <2>4 DEF StatusWriters
  <2> QED BY <1>0, <1>k, <1>s, <2>1, <2>2, <2>3, <2>4, <2>5 DEF StatusWriters
<1>9. CASE complete_job
  <2>1. /\ working = "complete" /\ working' \in {"idle", "result"}
        /\ UNCHANGED <<setting, at, begun, outcome>>
    BY <1>9 DEF complete_job, Finish
  <2>2. Current \in Jobs /\ Current \in begun
    BY <1>0, <2>1, CurrentFacts
  <2>3. status' = [status EXCEPT ![<<StatusPrefix("worker"), Current>>] =
                       IF outcome[Current] = Raised THEN "error" ELSE "completed"]
    BY <1>9, <1>k, <2>2 DEF complete_job
  <2> QED BY <1>0, <1>k, <1>s, <2>1, <2>2, <2>3 DEF StatusWriters
<1>10. CASE SaveResult
  BY <1>2, <1>10 DEF SaveResult, Finish
<1>11. CASE UNCHANGED journeyVars
  BY <1>2, <1>11 DEF journeyVars, Current
<1> QED
  BY <1>1, <1>3, <1>4, <1>5, <1>6, <1>7, <1>8, <1>9, <1>10, <1>11 DEF JourneyNext, BackendStep, WorkerStep

\* What the model has been asked, and what has come of it.
LEMMA CallsStep == JourneyInv /\ [JourneyNext]_journeyVars => Calls'
<1> SUFFICES ASSUME JourneyInv, [JourneyNext]_journeyVars PROVE Calls'
  OBVIOUS
<1> USE DEF client, redis, broker, worker
<1>0. /\ Calls /\ llm \in LLMs
      /\ DOMAIN at = Jobs /\ DOMAIN task = Jobs /\ DOMAIN call = Jobs /\ DOMAIN outcome = Jobs
      /\ DOMAIN answer = Keys /\ Keys = Prefixes \X Jobs
      /\ working # "idle" => buffer # <<>>
  BY DEF JourneyInv, Domains, JourneyTypeOK, Keys
<1>1. ASSUME NEW j \in Jobs, NEW r \in Requests, send_task(j, r) PROVE Calls'
  <2>1. /\ at[j] = "idle" /\ at' = [at EXCEPT ![j] = "publish"]
        /\ \A i \in Jobs \ {j} : task'[i] = task[i]
        /\ UNCHANGED <<llm, answer, worker>>
    BY <1>0, <1>1 DEF send_task
  <2>2. Current' = Current /\ (working # "idle" => Current \in Jobs /\ Current # j)
    BY <1>0, <2>1, CurrentFacts DEF Current
  <2>3. \A i \in Jobs : Asked(i) => i # j /\ Asked(i)'
    BY <1>0, <2>1 DEF Asked
  <2> QED BY <1>0, <2>1, <2>2, <2>3 DEF Calls
<1>2. ASSUME UNCHANGED <<llm, task, answer, call, outcome>>,
             \A i \in Jobs : at[i] # "idle" => at'[i] # "idle",
             working' \in {"complete", "result"} =>
                 working' = working /\ Current' = Current /\ Current \in Jobs
      PROVE  Calls'
  <2>1. \A i \in Jobs : Asked(i) => Asked(i)'
    BY <1>2 DEF Asked
  <2> QED BY <1>0, <1>2, <2>1 DEF Calls
<1>3. ASSUME NEW j \in Jobs,
             publish(j) \/ PublishRaises(j) \/ GiveUp(j) \/ get_result(j) \/ check_status(j)
      PROVE  Calls'
  <2>1. UNCHANGED <<llm, task, answer, worker>>
    BY <1>3, HandlerFacts DEF publish
  <2>2. \/ at' = at \/ at' = [at EXCEPT ![j] = "wait"] \/ at' = [at EXCEPT ![j] = "done"]
    BY <1>3, HandlerFacts, PublishFacts
  <2>3. Current' = Current /\ (working # "idle" => Current \in Jobs)
    BY <1>0, <2>1, CurrentFacts DEF Current
  <2>4. \A i \in Jobs : at[i] # "idle" => at'[i] # "idle"
    BY <1>0, <2>2
  <2> QED BY <1>0, <1>2, <2>1, <2>3, <2>4
<1>4. ASSUME NEW j \in Jobs, Deliver(j) PROVE Calls'
  <2>1. /\ buffer' = Append(buffer, j)
        /\ UNCHANGED <<llm, task, at, answer, working, call, outcome>>
    BY <1>4 DEF Deliver
  <2>2. buffer # <<>> => Current' = Current /\ Current \in Jobs
    BY <2>1, AppendFacts, CurrentFacts DEF Current, JourneyInv, Domains, JourneyTypeOK
  <2> QED BY <1>0, <1>2, <2>1, <2>2
<1>5. CASE callback \/ CallbackRaises \/ UpdateFails
  BY <1>2, <1>5 DEF callback, CallbackRaises, UpdateFails, Requeue
<1>6. CASE CallLLM
  <2>1. /\ working = "call" /\ working' = "complete"
        /\ call' = [call EXCEPT ![Current] = Arguments(llm, task[Current])]
        /\ UNCHANGED <<llm, task, at, answer, buffer>>
    BY <1>6 DEF CallLLM
  <2>2. PICK o \in Outcomes(llm, task[Current]) : outcome' = [outcome EXCEPT ![Current] = o]
    BY <1>6 DEF CallLLM
  <2>3. Current \in Jobs /\ Current' = Current /\ at[Current] # "idle"
    BY <1>0, <2>1, CurrentFacts DEF Current
  <2>4. Asked(Current)' /\ \A i \in Jobs : Asked(i) => Asked(i)' /\ call'[i] = call[i]
    BY <1>0, <2>1, <2>3 DEF Asked
  <2>5. \A i \in Jobs \ {Current} : call'[i] = call[i]
    BY <1>0, <2>1
  <2>6. outcome'[Current] \in Outcomes(llm, task[Current])
    BY <1>0, <2>2, <2>3
  <2> QED BY <1>0, <2>1, <2>3, <2>4, <2>5, <2>6 DEF Calls
<1>7. CASE complete_job
  <2>1. working = "complete" /\ UNCHANGED <<llm, task, at, answer, call, outcome>>
    BY <1>7 DEF complete_job
  <2>2. Current \in Jobs
    BY <1>0, <2>1, CurrentFacts
  <2>3. \A i \in Jobs : Asked(i) => Asked(i)'
    BY <2>1 DEF Asked
  <2>4. CASE outcome[Current] = Raised
    <3>1. working' = "idle"
      BY <1>7, <2>4 DEF complete_job, Finish
    <3> QED BY <1>2, <2>1, <3>1
  <2>5. CASE outcome[Current] # Raised
    <3>1. working' = "result" /\ Current' = Current
      BY <1>7, <2>5 DEF complete_job, Current
    <3> QED BY <1>0, <2>1, <2>2, <2>3, <2>5, <3>1 DEF Calls
  <2> QED BY <2>4, <2>5
<1>8. CASE SaveResult
  <2>1. /\ working = "result" /\ working' = "idle"
        /\ answer' = [answer EXCEPT ![AnswerKey("worker", Current)] = outcome[Current]]
        /\ UNCHANGED <<llm, task, at, call, outcome>>
    BY <1>8 DEF SaveResult, Finish
  <2>2. /\ Current \in Jobs /\ asked[Current] \in Requests
        /\ task[Current] = Prioritised(Transaction(Current, asked[Current]))
    BY <1>0, <2>1, CurrentFacts
  <2>3. /\ Asked(Current) /\ outcome[Current] \in Outcomes(llm, task[Current])
        /\ outcome[Current] # Raised
    BY <1>0, <2>1 DEF Calls
  <2>4. outcome[Current] \in {Text(call[Current].input), NoText}
    BY <1>0, <2>2, <2>3, OutcomeFacts DEF Asked
  <2>5. \E p \in Prefixes : AnswerKey("worker", Current) = <<p, Current>>
    BY <2>2, KeysOfJob DEF JourneyInv, Domains, AnswerKey, Keys
  <2>6. \A i \in Jobs : Asked(i) => Asked(i)'
    BY <2>1 DEF Asked
  <2> QED BY <1>0, <2>1, <2>2, <2>3, <2>4, <2>5, <2>6 DEF Calls
<1>9. CASE UNCHANGED journeyVars
  <2>1. Current' = Current /\ (working # "idle" => Current \in Jobs)
    BY <1>0, <1>9, CurrentFacts DEF journeyVars, Current
  <2> QED BY <1>0, <1>2, <1>9, <2>1 DEF journeyVars
<1> QED
  BY <1>1, <1>3, <1>4, <1>5, <1>6, <1>7, <1>8, <1>9 DEF JourneyNext, BackendStep, WorkerStep

\* What clients have been told.
LEMMA RepliesStep == JourneyInv /\ [JourneyNext]_journeyVars => RepliesInv'
<1> SUFFICES ASSUME JourneyInv, [JourneyNext]_journeyVars PROVE RepliesInv'
  OBVIOUS
<1> USE DEF client, redis, broker, worker
<1>0. /\ RepliesInv
      /\ DOMAIN at = Jobs /\ DOMAIN task = Jobs /\ DOMAIN call = Jobs /\ DOMAIN reply = Jobs
      /\ DOMAIN status = Keys
      /\ working # "idle" => buffer # <<>>
  BY DEF JourneyInv, Domains, JourneyTypeOK, Keys
<1>k. \A j \in Jobs : /\ StatusPrefix("backend") \in Prefixes
                       /\ StatusKey("backend", j) = <<StatusPrefix("backend"), j>>
                       /\ StatusKey("backend", j) \in Keys
                       /\ StatusKey("worker", j) = <<StatusPrefix("worker"), j>>
                       /\ StatusKey("worker", j) \in Keys
  BY KeysOfJob DEF JourneyInv, Domains
<1>s. UNCHANGED setting => \A side, j : StatusKey(side, j)' = StatusKey(side, j)
  BY DEF StatusKey
<1>1. ASSUME NEW j \in Jobs, NEW r \in Requests, send_task(j, r) PROVE RepliesInv'
  <2>1. /\ at[j] = "idle" /\ at' = [at EXCEPT ![j] = "publish"]
        /\ \A i \in Jobs \ {j} : task'[i] = task[i]
        /\ reply' = [reply EXCEPT ![j] = NoReply]
        /\ status' = [status EXCEPT ![StatusKey("backend", j)] = "pending"]
        /\ UNCHANGED <<llm, setting, call>>
    BY <1>0, <1>1 DEF send_task
  <2>2. \A i \in Jobs : Asked(i) => i # j /\ Asked(i)'
    BY <1>0, <2>1 DEF Asked
  <2>3. reply'[j].kind = "none"
    BY <1>0, <2>1 DEF NoReply
  <2>4. \A i \in Jobs \ {j} : reply'[i] = reply[i]
    BY <1>0, <2>1
  <2>5. \A i \in Jobs \ {j} : status'[StatusKey("backend", i)] = status[StatusKey("backend", i)]
    BY <1>0, <1>k, <2>1
  <2> QED BY <1>0, <1>s, <2>1, <2>2, <2>3, <2>4, <2>5 DEF RepliesInv
<1>2. ASSUME UNCHANGED <<llm, setting, task, status, call>>,
             \A i \in Jobs : at[i] # "idle" => at'[i] # "idle"
      PROVE  \A i \in Jobs : /\ Asked(i) => Asked(i)' /\ call'[i] = call[i]
                             /\ status'[StatusKey("backend", i)'] = status[StatusKey("backend", i)]
  BY <1>2, <1>s DEF Asked
<1>3. ASSUME NEW j \in Jobs, publish(j) PROVE RepliesInv'
  <2>1. UNCHANGED <<llm, setting, task, status, call>>
    BY <1>3 DEF publish
  <2>2. /\ at' = [at EXCEPT ![j] = "wait"] \/ at' = [at EXCEPT ![j] = "done"]
        /\ reply' = reply \/ reply' = [reply EXCEPT ![j] = [kind |-> "job_id", of |-> j]]
    BY <1>3, PublishFacts
  <2>3. \A i \in Jobs : reply'[i] = reply[i] \/ reply'[i].kind = "job_id"
    BY <1>0, <2>2
  <2>4. \A i \in Jobs : at[i] # "idle" => at'[i] # "idle"
    BY <1>0, <2>2
  <2> QED BY <1>0, <1>2, <2>1, <2>3, <2>4 DEF RepliesInv
<1>4. ASSUME NEW j \in Jobs, PublishRaises(j) \/ GiveUp(j) \/ get_result(j) \/ check_status(j)
      PROVE  RepliesInv'
  <2>1. /\ UNCHANGED <<llm, setting, task, redis, call>>
        /\ at' = at \/ at' = [at EXCEPT ![j] = "done"]
    BY <1>4, HandlerFacts
  <2>2. PICK kind \in Replies : \E of : Replied(j, kind, of)
    BY <1>4, HandlerFacts
  <2>3. PICK of : Replied(j, kind, of)
    BY <2>2
  <2>4. reply'[j] = [kind |-> kind, of |-> of] /\ \A i \in Jobs \ {j} : reply'[i] = reply[i]
    BY <1>0, <2>3 DEF Replied
  <2>5. kind = "answer" /\ of # None => Asked(j) /\ of = call[j].input
    <3> SUFFICES ASSUME kind = "answer", of # None PROVE Asked(j) /\ of = call[j].input
      OBVIOUS
    <3>1. AnswerKey("backend", j) \in Keys
      BY KeysOfJob DEF JourneyInv, Domains
    <3>2. \E p \in Prefixes : AnswerKey("backend", j) = <<p, j>>
      BY <3>1 DEF AnswerKey, Keys
    <3>3. answer[AnswerKey("backend", j)] # None /\ of = answer[AnswerKey("backend", j)].of
      BY <2>3 DEF Replied
    <3>4. /\ Asked(j)
          /\ answer[AnswerKey("backend", j)] \in {Text(call[j].input), NoText}
      BY <3>2, <3>3 DEF JourneyInv, Calls
    <3> QED BY <3>3, <3>4, OutcomesDiffer
  <2>6. kind = "error" => status[StatusKey("backend", j)] = "error"
    BY <2>3 DEF Replied
  <2>7. reply'[j].kind = kind /\ reply'[j].of = of
    BY <2>4
  <2>8. \A i \in Jobs : at[i] # "idle" => at'[i] # "idle"
    BY <1>0, <2>1
  <2> QED BY <1>0, <1>2, <2>1, <2>4, <2>5, <2>6, <2>7, <2>8 DEF RepliesInv
<1>5. ASSUME UNCHANGED <<llm, setting, at, task, reply>>,
             \A i \in Jobs : Asked(i) => call'[i] = call[i],
             \A i \in Jobs : status[StatusKey("backend", i)] = "error" =>
                                status'[StatusKey("backend", i)] = "error"
      PROVE  RepliesInv'
  <2>1. \A i \in Jobs : Asked(i) => Asked(i)' /\ call'[i] = call[i]
    BY <1>5 DEF Asked
  <2> QED BY <1>0, <1>s, <1>5, <2>1 DEF RepliesInv
<1>6. CASE \E j \in Jobs : Deliver(j)
  BY <1>5, <1>6 DEF Deliver
<1>7. ASSUME working = "idle", buffer # <<>>,
             status' = [status EXCEPT ![StatusKey("worker", Current)] = "in_progress"],
             UNCHANGED <<llm, setting, at, task, reply, call>>
      PROVE  RepliesInv'
  <2>1. Current \in Jobs /\ Current \notin begun
    BY <1>7, CurrentFacts
  <2>2. \A i \in Jobs : status[StatusKey("backend", i)] = "error" => i # Current
    BY <1>k, <2>1 DEF JourneyInv, StatusWriters
  <2> QED BY <1>0, <1>k, <1>5, <1>7, <2>1, <2>2
<1>8. CASE callback \/ CallbackRaises \/ UpdateFails
  <2>1. CASE callback
    BY <1>7, <2>1 DEF callback, SetsInProgress
  <2>2. CASE CallbackRaises \/ UpdateFails
    BY <1>5, <1>7, <2>2, RefusalFacts
  <2> QED BY <1>8, <2>1, <2>2
<1>9. CASE CallLLM
  <2>1. /\ working = "call"
        /\ call' = [call EXCEPT ![Current] = Arguments(llm, task[Current])]
        /\ UNCHANGED <<llm, setting, at, task, reply, status>>
    BY <1>9 DEF CallLLM
  <2>2. \A i \in Jobs : Asked(i) => call'[i] = call[i]
    BY <1>0, <2>1 DEF Asked
  <2> QED BY <1>5, <2>1, <2>2
<1>10. CASE complete_job
  <2>1. /\ working = "complete"
        /\ UNCHANGED <<llm, setting, at, task, reply, call>>
    BY <1>10 DEF complete_job
  <2>2. PICK s : status' = [status EXCEPT ![StatusKey("worker", Current)] = s]
    BY <1>10 DEF complete_job
  <2>3. status[StatusKey("worker", Current)] = "in_progress"
    BY <2>1 DEF JourneyInv, StatusWriters
  <2>4. \A k \in Keys : status[k] = "error" => status'[k] = "error"
    BY <1>0, <2>2, <2>3
  <2> QED BY <1>k, <1>5, <2>1, <2>4
<1>11. CASE SaveResult
  BY <1>5, <1>11 DEF SaveResult
<1>12. CASE UNCHANGED journeyVars
  BY <1>5, <1>12 DEF journeyVars
<1> QED
  BY <1>1, <1>3, <1>4, <1>6, <1>8, <1>9, <1>10, <1>11, <1>12 DEF JourneyNext, BackendStep, WorkerStep

-----------------------------------------------------------------------------
(* The theorems *)

\* The initial states.
LEMMA JourneyInvInit == JourneyInit => JourneyInv
<1> SUFFICES ASSUME JourneyInit PROVE JourneyInv
  OBVIOUS
<1>1. None \notin {"pending", "in_progress", "completed", "error"}
  BY JourneyAssumption
<1>2. begun = {} /\ published = <<>> /\ buffer = <<>> /\ \A i : ~In(i, <<>>)
  BY DEF JourneyInit, In
<1>3. Domains
  <2>1. \A j \in Jobs : reply[j].kind = "none" /\ reply[j].of = None
    BY DEF JourneyInit, NoReply
  <2> QED BY <2>1 DEF JourneyInit, Domains, JourneyTypeOK, Replies
<1>4. TasksAreTransactions
  BY DEF JourneyInit, TasksAreTransactions
<1>5. Places
  BY <1>2 DEF JourneyInit, Places, NoTwice
<1>6. StatusWriters
  BY <1>1 DEF JourneyInit, StatusWriters, Keys
<1>7. Calls
  BY DEF JourneyInit, Calls, Keys
<1>8. RepliesInv
  BY DEF JourneyInit, RepliesInv, NoReply
<1> QED BY <1>3, <1>4, <1>5, <1>6, <1>7, <1>8 DEF JourneyInv

\* The invariant is inductive.
THEOREM JourneyInvInvariant == JourneySpec => []JourneyInv
<1>1. JourneyInv /\ [JourneyNext]_journeyVars => JourneyInv'
  BY DomainsStep, TasksStep, PlacesStep, StatusWritersStep, CallsStep, RepliesStep DEF JourneyInv
<1> QED BY <1>1, JourneyInvInit, PTL DEF JourneySpec

\* JourneyTypeOK: every queued task has the identifier of its job and a priority, and
\* what is stored as an answer is one.
THEOREM JourneyTypes == JourneySpec => []JourneyTypeOK
BY JourneyInvInvariant, PTL DEF JourneyInv, Domains

\* The language model is asked what the client asked, but for the stop words of the
\* remote class.
THEOREM ModelAskedTheRequest == JourneySpec => []ModelIsAskedTheRequest
<1>1. JourneyInv => ModelIsAskedTheRequest
  <2> SUFFICES ASSUME JourneyInv, NEW j \in Jobs, call[j] # None
               PROVE  Conveys(llm, j, asked[j], call[j])
    BY DEF ModelIsAskedTheRequest
  <2>1. Asked(j) /\ llm \in LLMs
    BY DEF JourneyInv, Calls, Domains, JourneyTypeOK
  <2>2. asked[j] \in Requests /\ call[j] = Arguments(llm, Prioritised(Transaction(j, asked[j])))
    BY <2>1 DEF Asked, JourneyInv, TasksAreTransactions
  <2> QED BY <2>1, <2>2, ParameterFacts
<1> QED BY <1>1, JourneyInvInvariant, PTL

\* No library is called with a temperature of None, and vLLM gets a limit of at least 1
\* and a list of stop words.
THEOREM ArgumentsUsable == JourneySpec => []ArgumentsAreUsable
<1>1. JourneyInv => ArgumentsAreUsable
  <2> SUFFICES ASSUME JourneyInv, NEW j \in Jobs, call[j] # None PROVE UsableFor(llm, call[j])
    BY DEF ArgumentsAreUsable, UsableFor
  <2>1. Asked(j) /\ llm \in LLMs
    BY DEF JourneyInv, Calls, Domains, JourneyTypeOK
  <2>2. asked[j] \in Requests /\ call[j] = Arguments(llm, Prioritised(Transaction(j, asked[j])))
    BY <2>1 DEF Asked, JourneyInv, TasksAreTransactions
  <2> QED BY <2>1, <2>2, ParameterFacts
<1> QED BY <1>1, JourneyInvInvariant, PTL

\* A client gets the answer to his own request or none, and an error only for a job
\* whose model has failed.
THEOREM ReplyAboutOwnRequest == JourneySpec => []ReplyIsAboutOwnRequest
<1>1. JourneyInv => ReplyIsAboutOwnRequest
  <2> SUFFICES ASSUME JourneyInv, NEW j \in Jobs
               PROVE  /\ reply[j].kind = "answer" /\ reply[j].of # None =>
                            call[j] # None /\ reply[j].of = call[j].input
                      /\ reply[j].kind = "error" => outcome[j] = Raised
    BY DEF ReplyIsAboutOwnRequest
  <2>1. ASSUME reply[j].kind = "answer", reply[j].of # None
        PROVE  call[j] # None /\ reply[j].of = call[j].input
    <3>1. Asked(j) /\ reply[j].of = call[j].input /\ llm \in LLMs
      BY <2>1 DEF JourneyInv, RepliesInv, Domains, JourneyTypeOK
    <3>2. asked[j] \in Requests /\ call[j] = Arguments(llm, Prioritised(Transaction(j, asked[j])))
      BY <3>1 DEF Asked, JourneyInv, TasksAreTransactions
    <3> QED BY <3>1, <3>2, CalledWithSomething
  <2>2. ASSUME reply[j].kind = "error" PROVE outcome[j] = Raised
    <3>1. status[StatusKey("backend", j)] = "error"
      BY <2>2 DEF JourneyInv, RepliesInv
    <3>2. StatusKey("backend", j) = <<StatusPrefix("backend"), j>> /\ StatusPrefix("backend") \in Prefixes
      BY KeysOfJob DEF JourneyInv, Domains
    <3> QED BY <3>1, <3>2 DEF JourneyInv, StatusWriters
  <2> QED BY <2>1, <2>2
<1> QED BY <1>1, JourneyInvInvariant, PTL

-----------------------------------------------------------------------------
(* The outcome of a task *)

\* Redis has, where the client of job j looks, what came of the call for j.
HasOutcome(j) ==
    \/ status[StatusKey("backend", j)] = "error" /\ outcome[j] = Raised
    \/ /\ status[StatusKey("backend", j)] = "completed"
       /\ answer[AnswerKey("backend", j)] = outcome[j]
       /\ outcome[j] \in {Text(call[j].input), NoText}

\* A task that is over has its outcome, and the worker writes an answer under COMPLETED.
OutcomeInv ==
    /\ working = "result" => status[StatusKey("worker", Current)] = "completed"
    /\ SameNames => \A j \in Jobs : j \in begun /\ ~In(j, buffer) => HasOutcome(j)

\* With the same names, backend and worker use the same keys.
LEMMA SameKeys ==
    SameNames => /\ StatusPrefix("backend") = StatusPrefix("worker")
                 /\ \A j : /\ StatusKey("backend", j) = StatusKey("worker", j)
                           /\ AnswerKey("backend", j) = AnswerKey("worker", j)
BY DEF SameNames, StatusPrefix, StatusKey, AnswerKey

\* The end of a task leaves it with its outcome.
LEMMA OutcomeStep == JourneyInv /\ OutcomeInv /\ [JourneyNext]_journeyVars => OutcomeInv'
<1> SUFFICES ASSUME JourneyInv, OutcomeInv, [JourneyNext]_journeyVars PROVE OutcomeInv'
  OBVIOUS
<1> USE DEF client, redis, broker, worker
<1>0. /\ OutcomeInv /\ Places /\ Calls /\ llm \in LLMs
      /\ DOMAIN status = Keys /\ DOMAIN answer = Keys
      /\ DOMAIN call = Jobs /\ DOMAIN outcome = Jobs
      /\ buffer \in Seq(Jobs)
      /\ working # "idle" => buffer # <<>> /\ Current \in begun
  BY DEF JourneyInv, Domains, JourneyTypeOK, Places
<1>k. ASSUME NEW side \in {"backend", "worker"}, NEW i \in Jobs, NEW j \in Jobs, i # j
      PROVE  \A other \in {"backend", "worker"} :
                /\ StatusKey(side, i) \in Keys /\ StatusKey(side, i) # StatusKey(other, j)
                /\ AnswerKey(side, i) \in Keys /\ AnswerKey(side, i) # AnswerKey(other, j)
  BY <1>k, KeysOfJob DEF JourneyInv, Domains, StatusKey, AnswerKey
<1>s. /\ setting' = setting
      /\ SameNames' = SameNames
      /\ \A side, j : /\ StatusKey(side, j)' = StatusKey(side, j)
                       /\ AnswerKey(side, j)' = AnswerKey(side, j)
  <2>1. setting' = setting
    BY DEF JourneyNext, BackendStep, WorkerStep, send_task, publish, PublishRaises, get_result, GiveUp,
           check_status, Deliver, callback, CallbackRaises, UpdateFails, Requeue, CallLLM, complete_job, SaveResult, journeyVars
  <2> QED BY <2>1 DEF SameNames, StatusKey, AnswerKey
<1>d. DEFINE Kept(j) == /\ status'[StatusKey("backend", j)] = status[StatusKey("backend", j)]
                        /\ answer'[AnswerKey("backend", j)] = answer[AnswerKey("backend", j)]
                        /\ outcome'[j] = outcome[j] /\ call'[j] = call[j]
<1>1. ASSUME NEW j \in Jobs, HasOutcome(j), Kept(j) PROVE HasOutcome(j)'
  BY <1>s, <1>1 DEF HasOutcome
<1> HIDE DEF Kept
<1>2. ASSUME \A j \in Jobs : j \in begun' /\ ~In(j, buffer') => j \in begun /\ ~In(j, buffer) /\ Kept(j),
             working' = "result" =>
                 /\ working = "result"
                 /\ status'[StatusKey("worker", Current)'] = status[StatusKey("worker", Current)]
      PROVE  OutcomeInv'
  BY <1>0, <1>1, <1>2, <1>s DEF OutcomeInv
<1>3. ASSUME NEW j \in Jobs, NEW r \in Requests, send_task(j, r) PROVE OutcomeInv'
  <2>1. /\ at[j] = "idle" /\ UNCHANGED <<answer, broker, worker>>
        /\ status' = [status EXCEPT ![StatusKey("backend", j)] = "pending"]
    BY <1>3 DEF send_task
  <2>2. j \notin begun /\ (working # "idle" => Current \in Jobs /\ Current # j)
    BY <1>0, <2>1, CurrentFacts DEF Places
  <2>3. \A i \in Jobs \ {j}, side \in {"backend", "worker"} :
           status'[StatusKey(side, i)] = status[StatusKey(side, i)]
    BY <1>0, <1>k, <2>1
  <2>4. \A i \in Jobs \ {j} : Kept(i)
    BY <2>1, <2>3 DEF Kept
  <2>5. StatusKey("worker", Current)' = StatusKey("worker", Current)
    BY <1>s, <2>1 DEF Current, StatusKey
  <2> QED BY <1>2, <2>1, <2>2, <2>3, <2>4, <2>5
<1>4. ASSUME UNCHANGED <<redis, buffer, working, begun, call, outcome>> PROVE OutcomeInv'
  <2>1. \A i \in Jobs : Kept(i)
    BY <1>4 DEF Kept
  <2>2. StatusKey("worker", Current)' = StatusKey("worker", Current)
    BY <1>s, <1>4 DEF Current, StatusKey
  <2> QED BY <1>2, <1>4, <2>1, <2>2
<1>5. ASSUME NEW j \in Jobs, Deliver(j) PROVE OutcomeInv'
  <2>1. /\ buffer' = Append(buffer, j) /\ j \in ready
        /\ UNCHANGED <<redis, working, begun, call, outcome>>
    BY <1>5 DEF Deliver
  <2>2. /\ \A i : In(i, buffer') <=> In(i, buffer) \/ i = j
        /\ buffer # <<>> => Current' = Current
    BY <1>0, <2>1, AppendFacts DEF Current
  <2>3. \A i \in Jobs : Kept(i)
    BY <2>1 DEF Kept
  <2>4. working # "idle" => StatusKey("worker", Current)' = StatusKey("worker", Current)
    BY <1>0, <1>s, <2>2 DEF StatusKey
  <2> QED BY <1>2, <2>1, <2>2, <2>3, <2>4
<1>6. CASE callback
  <2>1. /\ buffer # <<>> /\ working' = "call" /\ begun' = begun \cup {Current}
        /\ status' = [status EXCEPT ![StatusKey("worker", Current)] = "in_progress"]
        /\ UNCHANGED <<answer, buffer, call, outcome>>
    BY <1>6 DEF callback, SetsInProgress
  <2>2. Current \in Jobs /\ In(Current, buffer)
    BY <2>1, CurrentFacts
  <2>3. \A i : i \in begun' <=> i \in begun \/ i = Current
    BY <2>1
  <2>4. \A i \in Jobs \ {Current} : Kept(i)
    BY <1>0, <1>k, <2>1, <2>2 DEF Kept
  <2> QED BY <1>2, <2>1, <2>2, <2>3, <2>4
<1>7. CASE CallbackRaises \/ UpdateFails
  <2>1. /\ working = "idle" /\ buffer # <<>> /\ buffer' = Tail(buffer)
        /\ UNCHANGED <<answer, working, begun, call, outcome>>
    BY <1>7, RefusalFacts
  <2>2. /\ Current \in Jobs /\ Current \notin begun
        /\ \A i : In(i, buffer) <=> i = Current \/ In(i, buffer')
    BY <1>0, <2>1, CurrentFacts, TailFacts DEF Current
  <2>3. \A i \in Jobs \ {Current} : Kept(i)
    BY <1>0, <1>7, <1>k, <2>1, <2>2, RefusalFacts DEF Kept
  <2> QED BY <1>2, <2>1, <2>2, <2>3
<1>8. CASE CallLLM
  <2>1. /\ working = "call" /\ working' = "complete"
        /\ call' = [call EXCEPT ![Current] = Arguments(llm, task[Current])]
        /\ UNCHANGED <<redis, buffer, begun>>
    BY <1>8 DEF CallLLM
  <2>2. PICK o : outcome' = [outcome EXCEPT ![Current] = o]
    BY <1>8 DEF CallLLM
  <2>3. Current \in Jobs /\ In(Current, buffer)
    BY <1>0, <2>1, CurrentFacts
  <2>4. \A i \in Jobs \ {Current} : Kept(i)
    BY <1>0, <2>1, <2>2 DEF Kept
  <2> QED BY <1>2, <2>1, <2>3, <2>4
<1>9. ASSUME working # "idle", Finish, UNCHANGED begun,
             NEW c \in Jobs, c = Current,
             \A i \in Jobs \ {c} : Kept(i),
             SameNames => HasOutcome(c)'
      PROVE  OutcomeInv'
  <2>1. working' = "idle" /\ buffer # <<>> /\ buffer' = Tail(buffer)
    BY <1>0, <1>9 DEF Finish
  <2>2. \A i : In(i, buffer) <=> i = c \/ In(i, buffer')
    BY <1>0, <1>9, <2>1, TailFacts DEF Current
  <2>3. ASSUME SameNames, NEW i \in Jobs, i \in begun', ~In(i, buffer') PROVE HasOutcome(i)'
    <3>1. CASE i = c
      BY <1>9, <2>3, <3>1
    <3>2. CASE i # c
      <4>1. HasOutcome(i)
        BY <1>0, <1>9, <2>2, <2>3, <3>2 DEF OutcomeInv
      <4> QED BY <1>1, <1>9, <3>2, <4>1
    <3> QED BY <3>1, <3>2
  <2> QED BY <1>s, <2>1, <2>3 DEF OutcomeInv
<1>10. CASE complete_job
  <2>1. /\ working = "complete" /\ buffer # <<>> /\ UNCHANGED <<answer, begun, call, outcome>>
    BY <1>0, <1>10 DEF complete_job
  <2>2. PICK c \in Jobs : c = Current /\ In(c, buffer)
    BY <2>1, CurrentFacts
  <2>3. status' = [status EXCEPT ![StatusKey("worker", c)] =
                       IF outcome[c] = Raised THEN "error" ELSE "completed"]
    BY <1>10, <2>2 DEF complete_job
  <2>4. \A i \in Jobs \ {c} : Kept(i)
    BY <1>0, <1>k, <2>1, <2>3 DEF Kept
  <2>5. StatusKey("worker", c) \in Keys
    BY KeysOfJob DEF JourneyInv, Domains
  <2>6. CASE outcome[c] = Raised
    <3>1. status'[StatusKey("worker", c)] = "error"
      BY <1>0, <2>3, <2>5, <2>6
    <3>2. SameNames => HasOutcome(c)'
      BY <1>s, <2>1, <2>6, <3>1, SameKeys DEF HasOutcome
    <3>3. Finish
      BY <1>10, <2>2, <2>6 DEF complete_job
    <3> QED BY <1>9, <2>1, <2>2, <2>4, <3>2, <3>3
  <2>7. CASE outcome[c] # Raised
    <3>1. working' = "result" /\ UNCHANGED buffer
      BY <1>10, <2>2, <2>7 DEF complete_job
    <3>2. StatusKey("worker", Current)' = StatusKey("worker", c)
      BY <1>s, <2>2, <3>1 DEF Current, StatusKey
    <3>3. status'[StatusKey("worker", Current)'] = "completed"
      BY <1>0, <2>3, <2>5, <2>7, <3>2
    <3>4. \A i \in Jobs : i \in begun' /\ ~In(i, buffer') => i \in begun /\ ~In(i, buffer) /\ Kept(i)
      BY <2>1, <2>2, <2>4, <3>1
    <3>5. SameNames' => \A i \in Jobs : i \in begun' /\ ~In(i, buffer') => HasOutcome(i)'
      BY <1>0, <1>1, <1>s, <3>4 DEF OutcomeInv
    <3> QED BY <3>1, <3>3, <3>5 DEF OutcomeInv
  <2> QED BY <2>6, <2>7
<1>11. CASE SaveResult
  <2>1. /\ working = "result" /\ buffer # <<>> /\ Finish
        /\ UNCHANGED <<status, begun, call, outcome>>
    BY <1>0, <1>11 DEF SaveResult
  <2>2. PICK c \in Jobs : c = Current
    BY <2>1, CurrentFacts
  <2>3. /\ asked[c] \in Requests
        /\ task[c] = Prioritised(Transaction(c, asked[c]))
    BY <2>1, <2>2, CurrentFacts
  <2>4. outcome[c] \in {Text(call[c].input), NoText}
    <3>1. Asked(c) /\ outcome[c] \in Outcomes(llm, task[c]) /\ outcome[c] # Raised
      BY <1>0, <2>1, <2>2 DEF Calls
    <3> QED BY <1>0, <2>3, <3>1, OutcomeFacts DEF Asked
  <2>5. answer' = [answer EXCEPT ![AnswerKey("worker", c)] = outcome[c]]
    BY <1>11, <2>2 DEF SaveResult
  <2>6. \A i \in Jobs \ {c} : Kept(i)
    BY <1>0, <1>k, <2>1, <2>5 DEF Kept
  <2>7. AnswerKey("worker", c) \in Keys
    BY KeysOfJob DEF JourneyInv, Domains
  <2>8. answer'[AnswerKey("worker", c)] = outcome[c] /\ status[StatusKey("worker", c)] = "completed"
    BY <1>0, <2>1, <2>2, <2>5, <2>7 DEF OutcomeInv
  <2>9. SameNames => HasOutcome(c)'
    BY <1>s, <2>1, <2>4, <2>8, SameKeys DEF HasOutcome
  <2> QED BY <1>9, <2>1, <2>2, <2>6, <2>9
<1>12. ASSUME NEW j \in Jobs,
              publish(j) \/ PublishRaises(j) \/ GiveUp(j) \/ get_result(j) \/ check_status(j)
       PROVE  OutcomeInv'
  BY <1>4, <1>12, HandlerFacts DEF publish
<1>13. CASE UNCHANGED journeyVars
  BY <1>4, <1>13 DEF journeyVars
<1> QED
  BY <1>3, <1>5, <1>6, <1>7, <1>8, <1>10, <1>11, <1>12, <1>13 DEF JourneyNext, BackendStep, WorkerStep

\* With the same names, a task that has left the queue and the worker has its outcome
\* where its client looks for it.
THEOREM FinishedTasksHaveOutcomes == JourneySpec => []FinishedTaskHasItsOutcome
<1>1. JourneyInit => OutcomeInv
  BY DEF JourneyInit, OutcomeInv, In
<1>2. JourneyInv /\ JourneyInv' /\ OutcomeInv /\ [JourneyNext]_journeyVars => OutcomeInv'
  BY OutcomeStep
<1>3. JourneyInv /\ OutcomeInv => FinishedTaskHasItsOutcome
  <2> SUFFICES ASSUME JourneyInv, OutcomeInv, SameNames, NEW a \in DOMAIN published
               PROVE  LET j == published[a] IN
                      \/ j \in ready \/ \E b \in DOMAIN buffer : buffer[b] = j
                      \/ HasOutcome(j)
    BY DEF FinishedTaskHasItsOutcome, HasOutcome
  <2>1. published[a] \in Jobs /\ In(published[a], published)
    BY DEF JourneyInv, Domains, JourneyTypeOK, In
  <2>2. \/ published[a] \in ready \/ In(published[a], buffer) \/ published[a] \in begun
    BY <2>1 DEF JourneyInv, Places
  <2> QED BY <2>1, <2>2 DEF OutcomeInv, In
<1> QED BY <1>1, <1>2, <1>3, JourneyInvInvariant, PTL DEF JourneySpec

=============================================================================
