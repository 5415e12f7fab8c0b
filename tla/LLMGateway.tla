------------------------------- MODULE LLMGateway -------------------------------
(***************************************************************************)
(* RealLLM: a call goes down the fallback chain of providers, with retries *)
(* at each, and ends with a validated answer or with the stub; one circuit *)
(* breaker, shared by all calls of the process, refuses calls for a while  *)
(* after FailureThreshold of them have failed.                             *)
(*                                                                         *)
(* A provider is the set of the ways it may answer:                        *)
(*   valid        passes the schema and the checks of the stage            *)
(*   invalid      fails them, too short, or an HTTP error                  *)
(*   unparsable   no JSON in it: asked once more in JSON mode              *)
(*   rejected     a 400 whose text blames response_format, or says that    *)
(*                something is not supported; in JSON mode or out of it    *)
(*   unreachable  no connection, or a timeout                              *)
(*   broke        InsufficientBalanceError                                 *)
(*   malformed    an exception complete() does not expect                  *)
(***************************************************************************)
EXTENDS Integers, Sequences

CONSTANTS
    Callers,           \* coroutines that call complete, again and again
    Chains,            \* what get_fallback_chain may return
    MaxAttempts,
    FailureThreshold

Ways == {"valid", "invalid", "unparsable", "rejected", "unreachable", "broke", "malformed"}

\* Without a configured provider get_llm gives out a StubLLM, and there are no calls.
ASSUME ChainsAssumption == \A chain \in Chains : chain \in Seq(SUBSET Ways) /\ chain # <<>>
ASSUME GatewayAssumption == MaxAttempts \in Nat \ {0} /\ FailureThreshold \in Nat \ {0}

VARIABLES
    breaker,   \* _state of the circuit breaker
    failures,  \* _failure_count, up to the threshold
    cooled,    \* recovery_timeout has passed since _opened_at
    jsonMode,  \* _json_mode_supported, by provider
    call       \* caller -> its call

llmVars == <<breaker, failures, cooled, jsonMode, call>>

Providers == UNION {{chain[n] : n \in DOMAIN chain} : chain \in Chains}
Finished == {"idle", "answered", "stubbed", "refused", "raised"}

LLMInit == /\ breaker = "closed" /\ failures = 0 /\ cooled = FALSE
           /\ jsonMode = Providers
           /\ call \in [Callers -> {[pc |-> "idle", chain |-> chain, n |-> 1, attempt |-> 1] :
                                        chain \in Chains}]

-----------------------------------------------------------------------------
(* The circuit breaker                                                     *)

RecordSuccess == failures' = 0 /\ breaker' = "closed" /\ UNCHANGED cooled

RecordFailure ==
    /\ failures' = IF failures < FailureThreshold THEN failures + 1 ELSE failures
    /\ IF failures' >= FailureThreshold /\ breaker # "open"
       THEN breaker' = "open" /\ cooled' = FALSE
       ELSE UNCHANGED <<breaker, cooled>>

NothingRecorded == UNCHANGED <<breaker, failures, cooled>>

CoolsDown == /\ breaker = "open" /\ ~cooled
             /\ cooled' = TRUE
             /\ UNCHANGED <<breaker, failures, jsonMode, call>>

Becomes(c, pc) == call' = [call EXCEPT ![c].pc = pc]

\* Mutant: an open breaker never asks for the time.
BeginForgetsTime(c, chain) ==
    /\ call[c].pc \in Finished
    /\ call' = [call EXCEPT ![c] = [pc |-> IF breaker = "open" THEN "refused" ELSE "asking",
                                    chain |-> chain, n |-> 1, attempt |-> 1]]
    /\ UNCHANGED <<breaker, failures, cooled, jsonMode>>

\* can_call: when the time has passed this call, and every one until the first result, is
\* let through.  A refused call gets the stub.
BeginCall(c, chain) ==
    /\ call[c].pc \in Finished
    /\ LET refused == breaker = "open" /\ ~cooled
       IN  /\ call' = [call EXCEPT ![c] = [pc |-> IF refused THEN "refused" ELSE "asking",
                                           chain |-> chain, n |-> 1, attempt |-> 1]]
           /\ breaker' = IF breaker = "open" /\ cooled THEN "half_open" ELSE breaker
    /\ UNCHANGED <<failures, cooled, jsonMode>>

-----------------------------------------------------------------------------
(* complete                                                                *)

Asked(c) == call[c].chain[call[c].n]
Answers(c, how) == call[c].pc = "asking" /\ how \in Asked(c)

Answered(c) ==
    /\ Answers(c, "valid")
    /\ Becomes(c, "answered")
    /\ RecordSuccess
    /\ UNCHANGED jsonMode

\* The next provider; after the last one the call has failed.
NextProvider(c) ==
    IF call[c].n < Len(call[c].chain)
    THEN /\ call' = [call EXCEPT ![c].pc = "asking", ![c].n = @ + 1, ![c].attempt = 1]
         /\ NothingRecorded
    ELSE /\ Becomes(c, "stubbed")
         /\ RecordFailure

\* Mutant: a provider that is out of balance ends the call.
PassedOverOnce(c) ==
    /\ \/ Answers(c, "unreachable") /\ NextProvider(c)
       \/ Answers(c, "broke") /\ Becomes(c, "stubbed") /\ RecordFailure
    /\ UNCHANGED jsonMode

PassedOver(c) ==
    /\ Answers(c, "unreachable") \/ Answers(c, "broke")
    /\ NextProvider(c)
    /\ UNCHANGED jsonMode

TryAgain(c) ==
    IF call[c].attempt < MaxAttempts
    THEN /\ call' = [call EXCEPT ![c].pc = "asking", ![c].attempt = @ + 1]
         /\ NothingRecorded
    ELSE NextProvider(c)

Retried(c) ==
    /\ \/ Answers(c, "invalid")
       \/ Asked(c) \notin jsonMode /\ (Answers(c, "unparsable") \/ Answers(c, "rejected"))
    /\ TryAgain(c)
    /\ UNCHANGED jsonMode

\* Such a 400 switches JSON mode off for the provider and the request is repeated without
\* response_format, in the same attempt: the JSON request of tier 3, and an ordinary one
\* as well, which had none.
FormatRejected(c) ==
    /\ Asked(c) \in jsonMode
    /\ call[c].pc \in {"asking", "json"} /\ "rejected" \in Asked(c)
    /\ jsonMode' = jsonMode \ {Asked(c)}
    /\ UNCHANGED <<breaker, failures, cooled, call>>

AskForJson(c) ==
    /\ Answers(c, "unparsable") /\ Asked(c) \in jsonMode
    /\ Becomes(c, "json")
    /\ UNCHANGED <<breaker, failures, cooled, jsonMode>>

\* Tier 3: a request in JSON mode; any exception that is left, of the repeated request too,
\* counts as one more failed attempt.
JsonAnswered(c) ==
    /\ call[c].pc = "json"
    /\ \/ "valid" \in Asked(c) /\ Becomes(c, "answered") /\ RecordSuccess
       \/ \E how \in Asked(c) \ {"valid"} :
             (how = "rejected" => Asked(c) \notin jsonMode) /\ TryAgain(c)
    /\ UNCHANGED jsonMode

\* Only ValidationError, JSONDecodeError, KeyError, ValueError and what httpx raises are
\* expected: an empty list of choices, say, leaves complete() at once.
Raised(c) ==
    /\ Answers(c, "malformed")
    /\ Becomes(c, "raised")
    /\ NothingRecorded
    /\ UNCHANGED jsonMode

\* The run of the meeting is cancelled.
Cancelled(c) ==
    /\ call[c].pc \notin Finished
    /\ Becomes(c, "idle")
    /\ NothingRecorded
    /\ UNCHANGED jsonMode

CallStep(c) == \/ Answered(c) \/ PassedOver(c) \/ Retried(c) \/ FormatRejected(c)
               \/ AskForJson(c) \/ JsonAnswered(c) \/ Raised(c)

LLMNext == \/ CoolsDown
           \/ \E c \in Callers : \/ \E chain \in Chains : BeginCall(c, chain)
                                 \/ CallStep(c) \/ Cancelled(c)

\* Every request has a timeout, time passes, and meetings go on calling.
LLMFairness == /\ WF_llmVars(CoolsDown)
               /\ \A c \in Callers : /\ WF_llmVars(CallStep(c))
                                     /\ WF_llmVars(\E chain \in Chains : BeginCall(c, chain))

LLMSpec == LLMInit /\ [][LLMNext]_llmVars /\ LLMFairness

-----------------------------------------------------------------------------
\* Every variable keeps its type.
LLMTypeOK ==
    /\ breaker \in {"closed", "open", "half_open"} /\ failures \in 0..FailureThreshold
    /\ cooled \in BOOLEAN /\ jsonMode \subseteq Providers
    /\ \A c \in Callers : /\ call[c].pc \in Finished \cup {"asking", "json"}
                          /\ call[c].chain \in Chains /\ call[c].n \in DOMAIN call[c].chain
                          /\ call[c].attempt \in 1..MaxAttempts

\* A call that was let through ends with the stub only if no provider of its chain could be
\* relied on: retries, JSON mode, lost connections and empty accounts of the others do not
\* keep it from a sound one.
SoundProviderAnswers ==
    \A c \in Callers : call[c].pc = "stubbed" => \A n \in DOMAIN call[c].chain : call[c].chain[n] # {"valid"}

\* An open breaker lets somebody through again, whatever becomes of the calls, cancelled
\* probes included: the process does not stay with the stub.
OpenGivesWay == breaker = "open" ~> breaker # "open"

=============================================================================
