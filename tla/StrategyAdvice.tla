----------------------------- MODULE StrategyAdvice -----------------------------
(***************************************************************************)
(* What the language model contributes to a negotiation: the agent that is *)
(* asked, the answer of either provider, and the validation of that answer *)
(* into a proposal.  A text is the set of the keyword lists it matches, a  *)
(* context the set of its true flags; both are buyer-supplied.             *)
(***************************************************************************)
EXTENDS Naturals

Strategies == {"CART_RECOVERY", "RETENTION", "DYNAMIC_DISCOUNT", "NONE"}

ContextFlags ==
  {"cart_abandoned", "is_repeat_customer", "churn_risk", "buyer_stated_lower_price",
   "wants_expedited_delivery"}

--------------------------------------------------------------------------------
(* agents/router.py and the three agents *)

Agents == <<"CART_RECOVERY", "RETENTION", "DYNAMIC_DISCOUNT">>

RelevantFlags(agent) ==
  CASE agent = "CART_RECOVERY" -> {"cart_abandoned"}
    [] agent = "RETENTION" -> {"is_repeat_customer", "churn_risk"}
    [] agent = "DYNAMIC_DISCOUNT" -> {"buyer_stated_lower_price"}

\* The first agent with a flag of its own in the context, or else the last.
SelectedAgent(context) ==
  LET Relevant(n) == RelevantFlags(Agents[n]) \intersect context # {}
      n == CHOOSE k \in 1 .. 3 : /\ Relevant(k) \/ k = 3
                                 /\ \A j \in 1 .. k - 1 : ~Relevant(j)
  IN  Agents[n]

--------------------------------------------------------------------------------
(* llm/provider.py.  Each field of a raw answer holds one of the values that the     *)
(* validation tells apart: "missing", "other" (no such value, or the wrong type) and, *)
(* for a strategy, "unhashable" (a JSON array or object) and, for a confidence, "huge" *)
(* (an integer past the floats) are among them.                                      *)

Raw(strategy, rationale, confidence, delivery) ==
  [strategy |-> strategy, rationale |-> rationale, confidence |-> confidence,
   delivery |-> delivery]

\* Confidence is cut to [0, 1] and kept for display only.
ValidRaw(raw) ==
  /\ raw.strategy \in Strategies
  /\ raw.rationale = "text"
  /\ raw.confidence = "number"
  /\ raw.delivery \in {"true", "false"}

Proposed(raw) ==
  [result |-> "proposal", strategy |-> raw.strategy,
   expedited |-> raw.delivery = "true"]

\* MalformedLLMOutputError is an LLMProviderError.
ProviderError == [result |-> "error", strategy |-> "NONE", expedited |-> FALSE]

\* An exception that is not an LLMProviderError.
Escapes == [result |-> "escapes", strategy |-> "NONE", expedited |-> FALSE]

\* A strategy that cannot be looked up in a set raises TypeError, and a confidence too
\* large for a float OverflowError, unless an earlier check has failed.
Slips(raw) ==
  /\ \A field \in DOMAIN raw : raw[field] # "missing"
  /\ \/ raw.strategy = "unhashable"
     \/ raw.strategy \in Strategies /\ raw.rationale = "text" /\ raw.confidence = "huge"

FromRaw(raw) ==
  IF ValidRaw(raw) THEN Proposed(raw)
  ELSE IF Slips(raw) THEN Escapes ELSE ProviderError

--------------------------------------------------------------------------------
(* llm/mock_provider.py *)

MockRaw(words, context) ==
  Raw(IF "cart_abandoned" \in context THEN "CART_RECOVERY"
      ELSE IF "is_repeat_customer" \in context \/ "loyal" \in words THEN "RETENTION"
      ELSE IF "cheaper" \in words THEN "DYNAMIC_DISCOUNT" ELSE "NONE",
      "text", "number", IF "urgent" \in words THEN "true" ELSE "false")

--------------------------------------------------------------------------------
(* llm/claude_provider.py.  What may come back for the call: nothing; a body that     *)
(* breaks off or is not JSON; an envelope whose content is a list of something other  *)
(* than objects; an envelope without content, or whose texts are missing, not strings *)
(* or not JSON; text that is JSON but not an object; or a raw answer.                 *)

NoAnswer == [kind |-> "unreachable"]
OddBody == [kind |-> "odd_body"]
OddBlocks == [kind |-> "odd_blocks"]
OddAnswer == [kind |-> "not_json"]
NotAnObject == [kind |-> "not_object"]
Answer(raw) == [kind |-> "object", raw |-> raw]

\* A KeyError or TypeError of the envelope is wrapped, and so is a text that is not JSON.
\* Nothing wraps the JSONDecodeError of the body, nor the AttributeError of block.get and
\* raw.keys() when the block, or what the text says, is not an object.
ParseReply(reply) ==
  IF reply.kind = "object" THEN FromRaw(reply.raw)
  ELSE IF reply.kind \in {"unreachable", "not_json"} THEN ProviderError
  ELSE Escapes

================================================================================
