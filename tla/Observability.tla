---------------------------- MODULE Observability ----------------------------
(***************************************************************************)
(* What the backend writes about its requests, and the environment it      *)
(* starts in: the structured log and the audit trail, which must not hold  *)
(* secrets or whole personal records, and the variables it refuses to      *)
(* start with. What is logged or audited is an object, given by the paths  *)
(* of the values in it, as the code names them (keyPath), and the kind of  *)
(* each. A sanitizer calls itself for the values below; one that is called *)
(* and has not answered is in `todo`. The calls for the fields of an      *)
(* object are made one after another: in which order is left open.         *)
(***************************************************************************)
EXTENDS Naturals, Sequences, FiniteSets, SequencesExt

CONSTANTS
    PersonalFields,     \* keys of what is known of a person
    SecretKeys,         \* keys of what nobody may read
    ContainerKeys,      \* keys of a person
    Documents           \* what is logged or audited

\* A value without a form in JSON is "undefined"; a string, a number, a date or
\* null is a "leaf".
IsDocument(d) ==
    /\ DOMAIN d \subseteq Seq(STRING)
    /\ <<>> \in DOMAIN d /\ d[<<>>] = "object"
    /\ \A p \in DOMAIN d : d[p] \in {"leaf", "undefined", "array", "object"}
    /\ \A p \in DOMAIN d : \A n \in 0..Len(p) - 1 :
         SubSeq(p, 1, n) \in DOMAIN d /\ d[SubSeq(p, 1, n)] \in {"array", "object"}

ASSUME DocumentsAssumption == \A d \in Documents : IsDocument(d)

VARIABLES
    sanitizer,  \* the one at work: "log", "audit", or "show" for a stored delta
    entry,      \* the document it was given
    todo,      \* its calls, with what they know of their context
    written,    \* the paths whose values it has put into its answer
    refused     \* whether the audit, and with it the command, was refused

logVars == <<sanitizer, entry, todo, written, refused>>

-----------------------------------------------------------------------------
children(path) == {q \in DOMAIN entry \ {<<>>} : Front(q) = path}

IsWholeRecord(path) ==
    Cardinality({k \in PersonalFields : Append(path, k) \in DOMAIN entry}) >= 3

HasSecretKey(path) == Last(path) \in SecretKeys

\* nextPersonalContext: the object below a key that names a person.
personalContext(path) == Last(path) \in ContainerKeys /\ entry[path] = "object"

\* A call puts `paths` into the answer and makes the calls in `next`.
Put(c, paths, next) ==
    /\ written' = written \cup paths
    /\ todo' = (todo \ {c}) \cup next
    /\ UNCHANGED <<sanitizer, entry, refused>>

\* The request, or the command, is a BadRequest: the transaction is undone.
Refuse == todo' = {} /\ refused' = TRUE /\ UNCHANGED <<sanitizer, entry, written>>

-----------------------------------------------------------------------------
\* Fault: what is in an array is written as it is.
sanitizeShallowly(c) ==
    LET value == entry[c.at]
        fields == {q \in children(c.at) : ~HasSecretKey(q)}
    IN  \/ value = "leaf" /\ Put(c, {c.at}, {})
        \/ value = "undefined" /\ Put(c, {}, {})
        \/ /\ value = "array"
           /\ Put(c, {q \in DOMAIN entry : IsPrefix(c.at, q)}, {})
        \/ /\ value = "object" /\ (c.personal \/ IsWholeRecord(c.at))
           /\ Put(c, {}, {})
        \/ /\ value = "object" /\ ~c.personal /\ ~IsWholeRecord(c.at)
           /\ Put(c, {c.at},
                     {[at |-> q, personal |-> personalContext(q)] : q \in fields})

\* The structured log: a secret is replaced, and so is a whole personal record
\* and any object below a key that names a person; an array hides from its
\* items whose they are.
sanitizeForStructuredLog(c) ==
    LET value == entry[c.at]
        fields == {q \in children(c.at) : ~HasSecretKey(q)}
    IN  \/ value = "leaf" /\ Put(c, {c.at}, {})
        \/ value = "undefined" /\ Put(c, {}, {})
        \/ /\ value = "array"
           /\ Put(c, {c.at}, {[at |-> q, personal |-> FALSE] : q \in children(c.at)})
        \/ /\ value = "object" /\ (c.personal \/ IsWholeRecord(c.at))
           /\ Put(c, {}, {})
        \/ /\ value = "object" /\ ~c.personal /\ ~IsWholeRecord(c.at)
           /\ Put(c, {c.at},
                     {[at |-> q, personal |-> personalContext(q)] : q \in fields})

\* The audit trail refuses what the log replaces, and with it the command
\* that is audited; an array keeps the context it was found in.
sanitizeDelta(c) ==
    LET value == entry[c.at]
        forbidden == c.personal \/ IsWholeRecord(c.at)
                       \/ \E q \in children(c.at) : HasSecretKey(q)
    IN  \/ value = "leaf" /\ Put(c, {c.at}, {})
        \/ value = "undefined" /\ Refuse
        \/ /\ value = "array"
           /\ Put(c, {c.at},
                     {[at |-> q, personal |-> c.personal] : q \in children(c.at)})
        \/ value = "object" /\ forbidden /\ Refuse
        \/ /\ value = "object" /\ ~forbidden
           /\ Put(c, {c.at}, {[at |-> q, personal |-> personalContext(q)] :
                                   q \in children(c.at)})

\* What the detail page of an audit event is given of a stored delta.
sanitizeStoredJson(c) ==
    LET kept == {q \in children(c.at) : entry[c.at] = "object" => ~HasSecretKey(q)}
    IN  Put(c, {c.at}, {[at |-> q, personal |-> FALSE] : q \in kept})

\* The row was written (append) and is asked for.
getDetail ==
    /\ sanitizer = "audit" /\ todo = {} /\ ~refused
    /\ sanitizer' = "show"
    /\ todo' = {[at |-> <<>>, personal |-> FALSE]}
    /\ written' = {}
    /\ UNCHANGED <<entry, refused>>

LogInit ==
    /\ sanitizer \in {"log", "audit"}
    /\ entry \in Documents
    /\ todo = {[at |-> <<>>, personal |-> FALSE]}
    /\ written = {} /\ refused = FALSE

LogNext ==
    \/ \E c \in todo :
         \/ sanitizer = "log" /\ sanitizeForStructuredLog(c)
         \/ sanitizer = "audit" /\ sanitizeDelta(c)
         \/ sanitizer = "show" /\ sanitizeStoredJson(c)
    \/ getDetail

LogSpec == LogInit /\ [][LogNext]_logVars

-----------------------------------------------------------------------------
\* What nobody may read, and what may be read of nobody.
IsSecret(path) ==
    path # <<>> /\ entry[Front(path)] = "object" /\ HasSecretKey(path)

IsPerson(path) ==
    /\ entry[path] = "object"
    /\ \/ IsWholeRecord(path)
       \/ path # <<>> /\ entry[Front(path)] = "object" /\ Last(path) \in ContainerKeys

\* Neither a value nor anything it is in, however far up.
Harmless(path) == \A n \in 0..Len(path) :
    ~IsSecret(SubSeq(path, 1, n)) /\ ~IsPerson(SubSeq(path, 1, n))

\* However deep a request carries a secret or a person, the log has neither,
\* and has all the rest; the audit trail, which refuses what it may not keep and
\* only that, has neither, and what it keeps is shown as it is
\* (log-sanitizer.ts:70, admin-audit.service.ts:97).
NothingSecretIsWritten ==
    /\ \A p \in written : Harmless(p)
    /\ sanitizer = "log" /\ todo = {} =>
         written = {p \in DOMAIN entry : Harmless(p) /\ entry[p] # "undefined"}
    /\ sanitizer # "log" /\ todo = {} /\ ~refused => written = DOMAIN entry
    /\ refused => \E p \in DOMAIN entry : ~Harmless(p) \/ entry[p] = "undefined"

-----------------------------------------------------------------------------
\* An environment: "unset" stands for a variable that is missing or blank.
Environments ==
    [NODE_ENV : {"unset", "development", "test", "production", "other"},
     PAYMENTS_SIMULATION : {"unset", "true", "false", "other"},
     ABACATEPAY_DEV_MODE : {"unset", "true", "false", "other"},
     ABACATEPAY_API_KEY : {"unset", "key"},
     ABACATEPAY_WEBHOOK_SECRET : {"unset", "secret"},
     ORIGINS : {"unset", "set"},
     SECRETS : {"unset", "set"}]

nodeEnv(e) == IF e.NODE_ENV = "unset" THEN "development" ELSE e.NODE_ENV

readBoolean(value, default) == IF value = "unset" THEN default ELSE value = "true"

\* validateEnvironment: whether the backend starts.
validateEnvironment(e) ==
    /\ nodeEnv(e) # "other"
    /\ e.PAYMENTS_SIMULATION # "other"
    /\ e.SECRETS = "set"
    /\ nodeEnv(e) = "production" =>
         /\ e.ORIGINS = "set"
         /\ ~readBoolean(e.PAYMENTS_SIMULATION, FALSE)
         /\ e.ABACATEPAY_API_KEY = "key"
         /\ e.ABACATEPAY_WEBHOOK_SECRET = "secret"
         /\ e.ABACATEPAY_DEV_MODE \in {"unset", "false"}

\* payment.config.ts: what the gateway is told; the validation's defaults are
\* put into the environment before.
paymentConfig(e) ==
    [simulated |-> readBoolean(e.PAYMENTS_SIMULATION, nodeEnv(e) # "production"),
     devMode |-> e.ABACATEPAY_DEV_MODE = "true",
     signed |-> e.ABACATEPAY_WEBHOOK_SECRET = "secret"]

\* Which origins a browser may call from.
isCorsOriginAllowed(e, origin) ==
    \/ origin = "none"
    \/ nodeEnv(e) \in {"development", "test"}
    \/ e.ORIGINS = "set" /\ origin = "configured"

\* A backend that starts in production talks to the real gateway with its own
\* keys and answers no foreign page (environment.validation.ts:66). It depends
\* on the variables of the environment alone, so it is evaluated once.
ProductionIsReal ==
    \A e \in Environments :
        (validateEnvironment(e) /\ nodeEnv(e) = "production") =>
            /\ ~paymentConfig(e).simulated /\ ~paymentConfig(e).devMode
            /\ paymentConfig(e).signed
            /\ ~isCorsOriginAllowed(e, "foreign")
            /\ isCorsOriginAllowed(e, "configured")

==============================================================================
