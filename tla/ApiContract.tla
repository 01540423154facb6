------------------------------ MODULE ApiContract ------------------------------
(***************************************************************************)
(* The error contract the two services share: what each side accepts as a  *)
(* request body, how python-ai turns a failed Ollama call into a gRPC      *)
(* status, and how go-gateway turns a gRPC status into an HTTP answer.     *)
(* Everything here is a pure function of its arguments.                    *)
(***************************************************************************)
EXTENDS Integers

CONSTANT MaxPromptLen   \* cfg.MaxPromptLen, the prompt limit in code points

\* getEnvInt accepts any integer MAX_PROMPT_LEN that strconv.Atoi parses.
ASSUME MaxPromptLenAssumption == MaxPromptLen \in Int

-----------------------------------------------------------------------------
(* Request bodies.                                                         *)

FeatureNames == {"sepal_length", "sepal_width", "petal_length", "petal_width"}

\* A JSON key that is missing or null leaves the pointer nil ("absent"). The checks
\* also look for "nan" and "inf", which gRPC can carry and JSON cannot.
FeatureKinds == {"absent", "nan", "inf", "num"}

\* cm is the measurement of a "num" feature. The checks only compare it with 0
\* and 50, in float64 on both sides, so whole numbers stand for all the others.
Feature == [kind : FeatureKinds, cm : Int]

\* json: the body parses into the handler's struct.
IrisBody == [json : BOOLEAN, features : [FeatureNames -> Feature]]

\* runes: the prompt's length in code points; blank: nothing is left of it
\* after str.strip().
PromptBody == {b \in [json : BOOLEAN, runes : Nat, blank : BOOLEAN] : b.runes = 0 => b.blank}

MaxIrisFeatureCm == 50   \* maxIrisFeatureCm in the gateway
MAX_FEATURE_CM == 50     \* MAX_FEATURE_CM in python-ai

ValidateIrisFeature(f) ==
    /\ f.kind \notin {"nan", "inf"}
    /\ f.cm >= 0
    /\ f.cm <= MaxIrisFeatureCm

\* The gateway's validation of /predict/iris: bind, nil check, range check.
IrisGatewayAccepts(body) ==
    /\ body.json
    /\ \A n \in FeatureNames : body.features[n].kind # "absent"
    /\ \A n \in FeatureNames : ValidateIrisFeature(body.features[n])

\* Mutant: len(prompt) < limit, an off-by-one at the advertised maximum.
ModelGatewayAcceptsExclusive(body) ==
    /\ body.json
    /\ body.runes > 0
    /\ body.runes < MaxPromptLen

\* The gateway's validation of /predict/model and /predict/model/stream:
\* binding:"required" refuses the empty string, then the length limit.
ModelGatewayAccepts(body) ==
    /\ body.json
    /\ body.runes > 0
    /\ body.runes <= MaxPromptLen

\* python-ai repeats the range check on what arrives over gRPC.
IrisBackendAccepts(body) ==
    \A n \in FeatureNames :
        LET f == body.features[n]
        IN  f.kind = "num" /\ f.cm >= 0 /\ f.cm <= MAX_FEATURE_CM

ModelBackendAccepts(body) == ~body.blank

-----------------------------------------------------------------------------
(* Failures of the Ollama call, and the gRPC status they become.           *)

\* The classes of exception generate() can raise. ollama's client turns
\* httpx.ConnectError of a unary call into the builtin ConnectionError, and an
\* HTTP error status into ResponseError; the other httpx errors pass through.
OllamaExceptions == {"TimeoutException", "ReadError", "ResponseError", "ConnectionError", "ValidationError"}

\* httpx derives TimeoutException from TransportError, as it does ReadError.
TransportErrors == {"TimeoutException", "ReadError"}

\* Mutant: every httpx failure counts as a timeout.
SetOllamaErrorAllTimeouts(e) ==
    IF e \in TransportErrors THEN "DEADLINE_EXCEEDED"
    ELSE IF e = "ResponseError" THEN "UNAVAILABLE"
    ELSE "INTERNAL"

SetOllamaError(e) ==
    IF e = "TimeoutException" THEN "DEADLINE_EXCEEDED"
    ELSE IF e \in TransportErrors \cup {"ResponseError"} THEN "UNAVAILABLE"
    ELSE "INTERNAL"

-----------------------------------------------------------------------------
(* gRPC statuses, and the HTTP answers they become.                        *)

GRPCErrors == {"CANCELLED", "DEADLINE_EXCEEDED", "UNAVAILABLE", "INVALID_ARGUMENT",
               "RESOURCE_EXHAUSTED", "INTERNAL", "UNKNOWN"}
GRPCCodes == GRPCErrors \cup {"OK"}

HTTPStatuses == {200, 400, 500, 503, 504}

APIErrorFromGRPC(code) ==
    CASE code = "DEADLINE_EXCEEDED" -> [status |-> 504, code |-> "MODEL_TIMEOUT"]
      [] code = "UNAVAILABLE"       -> [status |-> 503, code |-> "BACKEND_UNAVAILABLE"]
      [] code = "INVALID_ARGUMENT"  -> [status |-> 400, code |-> "INVALID_ARGUMENT"]
      [] OTHER                      -> [status |-> 500, code |-> "INTERNAL_ERROR"]

ValidationError == [status |-> 400, code |-> "INVALID_ARGUMENT"]
Success == [status |-> 200, code |-> "none"]

Answers == {APIErrorFromGRPC(c) : c \in GRPCErrors} \cup {Success}
=============================================================================
