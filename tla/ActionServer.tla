----------------------------- MODULE ActionServer -----------------------------
(* The HTTP action server with its access list, its client, the WebSocket     *)
(* frames of /progress, and the operational metrics a scrape returns.  Every  *)
(* request has its own handler thread; a reply may be lost on the way.        *)
EXTENDS Integers, Sequences, FiniteSets

CONSTANTS
    Known,          \* the registered action names
    Carriers,       \* those of them that run the actions their arguments name
    Access,         \* access lists: [allowed, denied], allowed = {"any"} when there is none
    Posts,          \* request bodies: [path, token, body, entries]
    Clients,        \* clients with one request each
    Lengths,        \* payload lengths of the frames of a stream
    LabelValues,    \* values recorded for one label of the events, notifications or storage operations
    MaxLabelValues, \* distinct values such a label may take
    MaxFrames       \* _PROGRESS_MAX_FRAMES

\* No payload reaches 2^24 bytes; the entries of a body are a list.
ASSUME ServerAssumption ==
    /\ \A r \in Posts : Len(r.entries) \in Nat /\ DOMAIN r.entries = 1..Len(r.entries)
    /\ Lengths \subseteq Nat /\ \A n \in Lengths : n < 16777216
    /\ MaxLabelValues \in Nat
    /\ "none" \notin Known

VARIABLES
    secret,         \* whether the server was started with a shared secret
    acl,            \* its ActionACL
    post,           \* client -> its request, its handler's and its own state
    ran,            \* registered actions called, per client
    labels,         \* values a bounded label has taken
    stream          \* the frames of a /progress connection

serverVars == <<secret, acl, post, ran, labels, stream>>

-----------------------------------------------------------------------------
(* Access list *)

\* An entry is [name, arguments]: the strings found at any depth of its arguments.  What is no list
\* with a name at its head has the name NoName.
NoName == "none"

NestedActionNames(entry) == entry.arguments \intersect Known

IsAllowed(name) == name \notin acl.denied /\ (acl.allowed = {"any"} \/ name \in acl.allowed)

\* Bug: the actions that an action's arguments name are not looked at.
EnforceTopLevel(entries) ==
    \A i \in DOMAIN entries : entries[i].name # NoName => IsAllowed(entries[i].name)

Enforce(entries) ==
    \A i \in DOMAIN entries : entries[i].name # NoName =>
        \A n \in {entries[i].name} \union NestedActionNames(entries[i]) : IsAllowed(n)

-----------------------------------------------------------------------------
(* Requests: a body is "garbage", a "list", a dict with a list under "actions" *)
(* or under "auto_control", or something "else" that JSON can say.             *)

Authorized(r) == secret => r.token = "good"

\* _iter_names looks at lists and below "actions" ...
Checked(r) == IF r.body \in {"list", "actions"} THEN r.entries ELSE <<>>

\* ... and _coerce takes lists and what is below "auto_control", and no empty list.
Coerced(r) == r.body \in {"list", "auto_control"} /\ r.entries # <<>>

\* do_POST up to the first action; 0 when the actions are to be run
Refusal(r) ==
    IF r.path # "/actions" THEN 404
    ELSE IF ~Authorized(r) THEN 401
    ELSE IF r.body = "garbage" THEN 400
    ELSE IF ~Enforce(Checked(r)) THEN 403
    ELSE IF ~Coerced(r) THEN 500
    ELSE 0

Now(p, s, k) == [p EXCEPT !.state = s, !.status = k]

DoPost(c) ==
    /\ post[c].state = "sent"
    /\ LET status == Refusal(post[c].request)
       IN  post' = [post EXCEPT ![c] = Now(@, IF status = 0 THEN "running" ELSE "replied", status)]
    /\ UNCHANGED <<secret, acl, ran, labels, stream>>

\* What a call of an entry may run: a carrier any part of what it carries
MayRun(entry) ==
    IF entry.name \notin Known THEN {{}}
    ELSE {{entry.name} \union part : part \in IF entry.name \in Carriers THEN SUBSET NestedActionNames(entry) ELSE {{}}}

\* execute_action: one entry after the other; what fails, is not registered or is no action is
\* recorded and the batch goes on.
RunEntry(c) ==
    /\ post[c].state = "running" /\ post[c].at < Len(post[c].request.entries)
    /\ \E names \in MayRun(post[c].request.entries[post[c].at + 1]) : ran' = [ran EXCEPT ![c] = @ \union names]
    /\ post' = [post EXCEPT ![c].at = @ + 1]
    /\ UNCHANGED <<secret, acl, labels, stream>>

SendResults(c) ==
    /\ post[c].state = "running" /\ post[c].at = Len(post[c].request.entries)
    /\ post' = [post EXCEPT ![c] = Now(@, "replied", 200)]
    /\ UNCHANGED <<secret, acl, ran, labels, stream>>

\* The handler ends without an answer: results JSON cannot say, a broken connection, an action that exits.
HandlerDies(c) ==
    /\ post[c].state = "running"
    /\ post' = [post EXCEPT ![c].state = "dead"]
    /\ UNCHANGED <<secret, acl, ran, labels, stream>>

\* _decode_response: only a 2xx with a JSON body is a result.
DecodeResponse(status) == IF status >= 400 THEN "error" ELSE "result"

ClientHears(c) ==
    /\ post[c].state = "replied" /\ post[c].heard = "waiting"
    /\ post' = [post EXCEPT ![c].heard = DecodeResponse(post[c].status)]
    /\ UNCHANGED <<secret, acl, ran, labels, stream>>

\* The client's own timeout or a broken connection, before, while or after the server ran the actions
ClientGivesUp(c) ==
    /\ post[c].heard = "waiting"
    /\ post' = [post EXCEPT ![c].heard = "unknown"]
    /\ UNCHANGED <<secret, acl, ran, labels, stream>>

-----------------------------------------------------------------------------
(* Metrics: a label of events, notifications and storage operations takes a    *)
(* bounded number of values; the rest is "other".                              *)

BoundedLabel(known, value) ==
    IF value \in known THEN [known |-> known, label |-> value]
    ELSE IF Cardinality(known) < MaxLabelValues THEN [known |-> known \union {value}, label |-> value]
    ELSE [known |-> known, label |-> "other"]

\* record_event, record_notification, record_storage_operation; record_action has no such bound.
RecordLabel(value) ==
    /\ labels' = LET b == BoundedLabel(labels.known, value)
                 IN  [known |-> b.known, shown |-> labels.shown \union {b.label}]
    /\ UNCHANGED <<secret, acl, post, ran, stream>>

-----------------------------------------------------------------------------
(* WebSocket frames: byte strings as sequences of numbers, payload by its length *)

\* Payloads are below 2^24 bytes: the bytes above the third are zero.
Place == <<1, 256, 65536>>

BigEndian(n, bytes) == [i \in 1..bytes |-> IF bytes - i > 2 THEN 0 ELSE (n \div Place[bytes - i + 1]) % 256]

Value(bytes) == LET v[i \in 0..Len(bytes)] == IF i = 0 THEN 0 ELSE 256 * v[i - 1] + bytes[i] IN v[Len(bytes)]

\* send_text: 125 is the longest short frame, 65535 the longest with two bytes of length.
Header(n) ==
    IF n < 126 THEN <<129, n>> ELSE IF n < 65536 THEN <<129, 126>> \o BigEndian(n, 2)
    ELSE <<129, 127>> \o BigEndian(n, 8)

\* read_frame_opcode: the header's length and the bytes of payload it skips
ReadFrame(header) ==
    LET short == header[2] % 128
    IN  IF short = 126 THEN [header |-> 4, payload |-> Value(SubSeq(header, 3, 4))]
        ELSE IF short = 127 THEN [header |-> 10, payload |-> Value(SubSeq(header, 3, 10))]
        ELSE [header |-> 2, payload |-> short]

\* A frame is the header and the payload; the connection ends with a close frame or is broken.
SendFrame(n) ==
    /\ stream.open /\ Len(stream.frames) < MaxFrames
    /\ stream' = [stream EXCEPT !.frames = Append(@, [header |-> Header(n), length |-> n])]
    /\ UNCHANGED <<secret, acl, post, ran, labels>>

StreamEnds ==
    /\ stream.open
    /\ stream' = [stream EXCEPT !.open = FALSE]
    /\ UNCHANGED <<secret, acl, post, ran, labels>>

-----------------------------------------------------------------------------
ServerInit ==
    /\ secret \in BOOLEAN /\ acl \in Access
    /\ post \in [Clients -> [request : Posts, state : {"sent"}, status : {0}, at : {0}, heard : {"waiting"}]]
    /\ ran = [c \in Clients |-> {}]
    /\ labels = [known |-> {}, shown |-> {}]
    /\ stream = [open |-> TRUE, frames |-> <<>>]

Exchanges ==
    \E c \in Clients :
        DoPost(c) \/ RunEntry(c) \/ SendResults(c) \/ HandlerDies(c) \/ ClientHears(c) \/ ClientGivesUp(c)

ServerNext ==
    \/ Exchanges
    \/ \E v \in LabelValues : RecordLabel(v)
    \/ (\E n \in Lengths : SendFrame(n)) \/ StreamEnds

-----------------------------------------------------------------------------
\* What a client hears fits what was run: a result means that every registered action it sent was
\* called, an error that none was, and only a request without an answer leaves it not knowing.  What
\* a list names, at any depth, is run only if it is permitted; a dict with its list under
\* "auto_control" is executed as well (action_executor.py:45-47) without being looked at
\* (action_acl.py:96-99), so the "every incoming payload" of action_acl.py:3-6 is more than that.
HeardIsTrue ==
    \A c \in Clients :
        LET sent == post[c].request
        IN  /\ post[c].heard = "result" => {sent.entries[i].name : i \in DOMAIN sent.entries} \intersect Known \subseteq ran[c]
            /\ post[c].heard = "error" => ran[c] = {}
            /\ sent.body = "list" => \A n \in ran[c] : IsAllowed(n)

\* However many values are recorded, such a label shows at most MaxLabelValues of them and "other".
\* The label of the actions shows them all: "each label" (metrics.py:29-31) is more than that.
LabelsBounded ==
    /\ IsFiniteSet(labels.known) /\ Cardinality(labels.known) <= MaxLabelValues
    /\ labels.shown \subseteq labels.known \union {"other"}

\* A frame is read back as it was sent, at every length where its header changes form.
FramesAgree ==
    \A i \in DOMAIN stream.frames :
        LET f == stream.frames[i]
        IN  /\ ReadFrame(f.header).header = Len(f.header)
            /\ ReadFrame(f.header).payload = f.length

\* The server's answers are true: to the client of a request, in a scrape and in the frames of a stream.
ServersAnswer == HeardIsTrue /\ LabelsBounded /\ FramesAgree
=============================================================================
