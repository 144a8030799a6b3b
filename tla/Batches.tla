------------------------------- MODULE Batches -------------------------------
(* Requests with several inputs: documents to embed, test cases to evaluate,        *)
(* documents to rank.  Calls run at the same time, fail one by one, are cut short,     *)
(* and the answer has to say which input each result is for.                        *)
EXTENDS Naturals, Sequences, FiniteSets, SequencesExt, FiniteSetsExt

CONSTANTS BatchRequests,  \* [kind, family, inputs]
          Limit,          \* EMBED_CONCURRENCY_LIMIT
          ChunkSize       \* COHERE_TEXT_BATCH_SIZE

ASSUME BatchLimits == Limit \in Nat \ {0} /\ ChunkSize \in Nat \ {0}

VARIABLES batch,     \* the request; never changes
          calls,     \* embed: one [at, vectors] per call; evaluate, rerank: not used
          scored,    \* evaluate: [case, evaluation] in the order they were appended
          evaluated, \* evaluate: test cases done, and those whose evaluator ran twice
          answer     \* what the caller got: [status, of, result]

batchVars == <<batch, calls, scored, evaluated, answer>>

Pending == [status |-> "pending", of |-> 0, result |-> <<>>]
Ok(result) == [status |-> "OK", of |-> 0, result |-> result]
Failed(status, of) == [status |-> status, of |-> of, result |-> <<>>]

BatchInit ==
  /\ batch \in BatchRequests
  /\ calls = <<>> /\ scored = <<>> /\ evaluated = [done |-> 0, twice |-> {}]
  /\ answer = Pending

Asked(kind) == batch.kind = kind /\ answer = Pending

(* ---------------------------------- embed ---------------------------------- *)

(* An input: text, texts (two parts of it), image (a png), both, gif, remote (an image  *)
(* by URL) or none.                                                                *)
HasText(input) == input \in {"text", "texts", "both"}
HasImage(input) == input \in {"image", "both", "gif"}

(* Plugins that send a whole batch in one call, which they await themselves. *)
WholeBatch == {"openai", "googleai_text", "ollama"}
Direct == WholeBatch \union {"google_multimodal"}

(* What a refused request raises: the Google plugin a ValueError. *)
Refusal == IF batch.family \in {"googleai_text", "google_multimodal"} THEN "INTERNAL" ELSE "INVALID_ARGUMENT"

(* The inputs a model takes: text, or text and the images it can read; a plugin that     *)
(* sends the batch as it is leaves it to the service.                                *)
Unusable(input) ==
  CASE batch.family \in WholeBatch -> FALSE
    [] batch.family = "titan_multimodal" -> input \in {"gif", "remote", "none"}
    [] batch.family = "google_multimodal" -> input \in {"remote", "none"}
    [] OTHER -> ~HasText(input)

(* The calls of a request, as the inputs each is for: Cohere has a batch API, the       *)
(* others take one input a call.                                                    *)
CallInputs ==
  LET n == Len(batch.inputs)
      size == IF batch.family = "cohere_v3" THEN ChunkSize ELSE 1
      Least(a, b) == IF a < b THEN a ELSE b
  IN IF batch.family \in WholeBatch THEN <<[j \in 1..n |-> j]>>
     ELSE [k \in 1..((n + size - 1) \div size) |->
        [j \in 1..(Least(k * size, n) - (k - 1) * size) |-> (k - 1) * size + j]]

(* The texts the Ollama plugin sends for a document: one for each of its parts that has   *)
(* text, where the others send one for the document.                                  *)
TextParts(i) == IF batch.inputs[i] = "texts" THEN 2 ELSE IF HasText(batch.inputs[i]) THEN 1 ELSE 0

(* Vertex embeds the image and the text of a document apart, told apart by embedType. *)
Vectors(i) ==
  IF batch.family = "ollama" THEN [k \in 1..TextParts(i) |-> [of |-> i, type |-> "vector"]]
  ELSE IF batch.family # "google_multimodal" THEN <<[of |-> i, type |-> "vector"]>>
  ELSE (IF HasImage(batch.inputs[i]) THEN <<[of |-> i, type |-> "imageEmbedding"]>> ELSE <<>>)
       \o (IF HasText(batch.inputs[i]) THEN <<[of |-> i, type |-> "textEmbedding"]>> ELSE <<>>)

(* Every document is looked at before the first call goes out. *)
Submit ==
  /\ Asked("embed") /\ calls = <<>>
  /\ LET unusable == {i \in DOMAIN batch.inputs : Unusable(batch.inputs[i])}
     IN IF \/ batch.inputs = <<>> /\ batch.family \notin {"openai", "ollama"}
           \/ batch.family = "google_multimodal" /\ Len(batch.inputs) > 1
        THEN answer' = Failed(Refusal, 0) /\ UNCHANGED calls
        ELSE IF batch.family = "cohere_v4"
        THEN answer' = Failed("UNIMPLEMENTED", 0) /\ UNCHANGED calls
        ELSE IF unusable # {}
        THEN answer' = Failed(Refusal, Min(unusable)) /\ UNCHANGED calls
        ELSE /\ calls' = [k \in DOMAIN CallInputs |-> [at |-> "queued", vectors |-> <<>>]]
             /\ UNCHANGED answer
  /\ UNCHANGED <<batch, scored, evaluated>>

CallsAt(states) == {k \in DOMAIN calls : calls[k].at \in states}
Set(k, at, vectors) == calls' = [calls EXCEPT ![k] = [at |-> at, vectors |-> vectors]]

(* The semaphore lets the calls through in order.  A call that fails lets the next one   *)
(* through before the rest is cancelled; a caller that is cancelled leaves them going.  *)
CallStarts ==
  /\ CallsAt({"queued"}) # {} /\ Cardinality(CallsAt({"calling"})) < Limit
  /\ Set(Min(CallsAt({"queued"})), "calling", <<>>)
  /\ UNCHANGED <<batch, scored, evaluated, answer>>

(* A call answers with its vectors; or it fails, answers with none, with an error in     *)
(* band, or with fewer vectors than texts, and counts as failed.                      *)
CallEnds ==
  /\ \E k \in CallsAt({"calling"}) :
       \/ Set(k, "ok", FlattenSeq([j \in DOMAIN CallInputs[k] |-> Vectors(CallInputs[k][j])]))
       \/ Set(k, "bad", <<>>)
  /\ UNCHANGED <<batch, scored, evaluated, answer>>

(* The first failure cancels what is still queued or called. *)
CancelRest ==
  /\ Asked("embed") /\ CallsAt({"bad"}) # {} /\ CallsAt({"queued", "calling"}) # {}
  /\ calls' = [k \in DOMAIN calls |-> IF k \in CallsAt({"queued", "calling"})
                                       THEN [at |-> "cancelled", vectors |-> <<>>] ELSE calls[k]]
  /\ UNCHANGED <<batch, scored, evaluated, answer>>

FirstFailure == Min(CallsAt({"bad"}))

(* The input a failed call is reported for; one for the whole batch names none. *)
Blamed(k) == IF batch.family \in Direct THEN 0 ELSE CallInputs[k][1]

(* The results, in the order of the calls; or the failure of the first that failed. *)
EmbedAnswers ==
  /\ Asked("embed") /\ calls # <<>> /\ CallsAt({"queued", "calling"}) = {}
  /\ answer' = IF CallsAt({"bad"}) = {} THEN Ok(FlattenSeq([k \in DOMAIN calls |-> calls[k].vectors]))
               ELSE Failed("call failed", Blamed(FirstFailure))
  /\ UNCHANGED <<batch, calls, scored, evaluated>>

(* The caller is cancelled while it waits.  The calls Bedrock makes are tasks of their     *)
(* own and go on; one that is awaited goes with its caller.                           *)
CallerCancelled ==
  /\ Asked("embed") /\ calls # <<>> /\ answer' = Failed("CANCELLED", 0)
  /\ IF batch.family \in Direct THEN calls' = [k \in DOMAIN calls |-> [at |-> "cancelled", vectors |-> <<>>]]
     ELSE UNCHANGED calls
  /\ UNCHANGED <<batch, scored, evaluated>>

(* --------------------------------- evaluate --------------------------------- *)

(* What an evaluator may say of a test case.  The built-in ones need an output and a       *)
(* reference; the ones of Vertex call a service that may fail.                          *)
Evaluations(input) ==
  CASE batch.family = "genkitEval" -> IF input = "match" THEN {"PASS"} ELSE {"FAIL"}
    [] OTHER -> {"score", "FAIL"}

(* The next test case.  Its evaluator scores it, or raises and has failed it; when it      *)
(* raises AttributeError the handler of a tracing failure takes it for one and runs the     *)
(* evaluator again.                                                                 *)
EvaluateCase ==
  /\ Asked("evaluate") /\ evaluated.done < Len(batch.inputs)
  /\ LET k == evaluated.done + 1
         Row(evaluation) == <<[case |-> k, evaluation |-> evaluation]>>
     IN /\ \E evaluation \in Evaluations(batch.inputs[k]) :
             \/ scored' = scored \o Row(evaluation)
             \/ batch.inputs[k] = "attribute" /\ scored' = scored \o Row("FAIL") \o Row(evaluation)
        /\ evaluated' = [done |-> k, twice |-> IF Len(scored') > Len(scored) + 1
                                                THEN evaluated.twice \union {k} ELSE evaluated.twice]
  /\ UNCHANGED <<batch, calls, answer>>

EvaluateAnswers ==
  /\ Asked("evaluate") /\ evaluated.done = Len(batch.inputs)
  /\ answer' = Ok([k \in DOMAIN scored |-> [of |-> scored[k].case, type |-> scored[k].evaluation]])
  /\ UNCHANGED <<batch, calls, scored, evaluated>>

(* ----------------------------------- rank ----------------------------------- *)

(* The service ranks the texts it was sent, by their index from 0; it may name one     *)
(* twice, or one that it was not sent.                                              *)
Rank ==
  /\ Asked("rank")
  /\ LET empty == {i \in DOMAIN batch.inputs : ~HasText(batch.inputs[i])}
         n == Len(batch.inputs)
     IN IF empty # {} THEN answer' = Failed("INVALID_ARGUMENT", Min(empty))
        ELSE IF n = 0 THEN answer' = Ok(<<>>)
        ELSE \E results \in BoundedSeq(0..n, 2) :
               answer' = IF \E k \in DOMAIN results : results[k] >= n THEN Failed("INTERNAL", 0)
                         ELSE Ok([k \in DOMAIN results |-> [of |-> results[k] + 1, type |-> "score"]])
  /\ UNCHANGED <<batch, calls, scored, evaluated>>

BatchNext ==
  \/ Submit \/ CallStarts \/ CallEnds \/ CancelRest \/ EmbedAnswers \/ CallerCancelled
  \/ EvaluateCase \/ EvaluateAnswers \/ Rank

BatchSpec == BatchInit /\ [][BatchNext]_batchVars

(* -------------------------------- properties -------------------------------- *)

(* An answer is about the inputs.  Embeddings come one per document and in the order of   *)
(* the documents, however the calls overtook each other (of a multimodal document, one     *)
(* for each of its kinds; of Ollama, one for each text of theirs, and of a document        *)
(* without text none); a failed batch names the first document that failed of itself,   *)
(* never one that was cancelled, and a batch refused as unusable has called nothing.     *)
(* Every test case has its evaluation, in the order of the dataset, and one only unless     *)
(* its evaluator ran twice.                                                         *)
AnswersMatchInputs ==
  LET of == [k \in DOMAIN answer.result |-> answer.result[k].of]
  IN /\ batch.kind = "embed" /\ answer.status = "OK" =>
          IF batch.family = "google_multimodal"
          THEN /\ {answer.result[k] : k \in DOMAIN of} = {Vectors(1)[k] : k \in DOMAIN Vectors(1)}
               /\ Cardinality({answer.result[k].type : k \in DOMAIN of}) = Len(of)
          ELSE IF batch.family = "ollama"
          THEN /\ \A i \in DOMAIN batch.inputs : Cardinality({k \in DOMAIN of : of[k] = i}) = TextParts(i)
               /\ \A k \in 2..Len(of) : of[k] >= of[k - 1]
          ELSE of = [k \in DOMAIN batch.inputs |-> k]
     /\ answer.status = "call failed" =>
          \E k \in DOMAIN calls : /\ Blamed(k) = answer.of /\ calls[k].at = "bad"
                                  /\ \A j \in 1..(k - 1) : calls[j].at # "bad"
     /\ answer.status \in {"INVALID_ARGUMENT", "INTERNAL"} => calls = <<>>
     /\ batch.kind = "evaluate" /\ answer.status = "OK" =>
          /\ ToSet(of) = DOMAIN batch.inputs
          /\ \A k \in 2..Len(of) : of[k] > of[k - 1] \/ (of[k] = of[k - 1] /\ of[k] \in evaluated.twice)
=============================================================================
