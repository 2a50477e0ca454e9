------------------------------- MODULE Protocol --------------------------------
(***************************************************************************)
(* What an event is made of on its way from a page to the inbox: the scope *)
(* and capture functions of packages/browser/src/index.ts, the sanitizer   *)
(* and the envelope of packages/protocol/src, and the part of apps/ingest/ *)
(* src/server.ts that reads a body.  Transport models when the request is  *)
(* made and answered; here one event at a time is followed.                *)
(*                                                                         *)
(* A text is measured: its length, how many recognizable secrets it holds, *)
(* the bytes of a character in JSON, and whether a cut at one of the       *)
(* limits, which are even, would halve a surrogate pair.  A path also has  *)
(* layers of percent encoding around the one thing in it that the          *)
(* sanitizer looks for or stumbles over.  The items of a list are alike.   *)
(* The numbers are those of the source.                                    *)
(***************************************************************************)
EXTENDS Integers, FiniteSets

CONSTANTS
    Messages, Names, TagTexts,  \* texts of a page
    Routes,             \* its routes
    Stacks,             \* the frames of its errors
    Breadcrumbs,        \* and its breadcrumbs, with how many of them come
    Apis,               \* API contexts: pairs of a key and "valid" or "invalid"
    Labels,             \* the same for release, dist, appVersion and browser
    AllowedTags,        \* ingestionConfig.allowedTags of the project
    ForeignEnvelopes,   \* what other clients post
    MaxCalls,           \* bound of the model: calls of the scope functions
    Undefined

DEFAULT_TAGS == {"feature"}
TagKeys == DEFAULT_TAGS \cup {"tenant"}

Texts == [len : Nat, secrets : Nat, width : 1..6, odd : BOOLEAN, halved : BOOLEAN]

\* What is inside the layers of a path: nothing special; a secret; one behind a
\* backslash, as in "/token\x"; a query or a host, which the URL parser takes off; a
\* percent sign that encodes nothing, or what else no parser takes; a protocol that
\* is not allowed.
Insides == {"plain", "secret", "backslash", "query", "percent", "unusable"}
Paths == [len : Nat, inside : Insides, layers : Nat, width : 1..6, odd : BOOLEAN, halved : BOOLEAN]
Or(S) == S \cup {Undefined}

FrameLists == [n : Nat, filename : Or(Paths), function : Or(Texts), debug : BOOLEAN]
CrumbLists == [n : Nat, path : Or(Paths), operation : Or(Texts)]

\* What can be made of any event before it is sanitized: its texts are texts.
IsRaw(raw) ==
    /\ raw.message \in Or(Texts) /\ raw.name \in Or(Texts) /\ raw.route \in Or(Paths)
    /\ raw.frames \in FrameLists /\ raw.crumbs \in CrumbLists
    /\ raw.tags \in [TagKeys -> Or(Texts)]

ASSUME ProtocolAssumption ==
    /\ MaxCalls \in Nat
    /\ Undefined \notin {"id", "page", "other", "unsupported", "schema", "development"}
    /\ Undefined \notin Texts /\ Undefined \notin Paths
    /\ Messages \subseteq Or(Texts) /\ Names \subseteq Or(Texts)
    /\ TagTexts \subseteq Texts /\ Routes \subseteq Paths
    /\ Stacks \subseteq FrameLists /\ Breadcrumbs \subseteq CrumbLists
    /\ AllowedTags \subseteq TagKeys
    /\ \A e \in ForeignEnvelopes : IsRaw(e.raw)

VARIABLES
    active,
    loopback,       \* the page has a loopback origin
    global,         \* scope of the page
    inner,          \* scope of withScope while its callback runs
    calls,
    event           \* the event under way, and at which step it is

protocolVars == <<active, loopback, global, inner, calls, event>>

AtMost(a, b) == IF a < b THEN a ELSE b
Largest(S) == CHOOSE x \in S : \A y \in S : y <= x

-----------------------------------------------------------------------------
(* Texts.                                                                  *)

Text(len, secrets) == [len |-> len, secrets |-> secrets, width |-> 1, odd |-> FALSE, halved |-> FALSE]
Path(len, inside, layers) ==
    [len |-> len, inside |-> inside, layers |-> layers, width |-> 1, odd |-> FALSE, halved |-> FALSE]

\* "token=x" becomes "[redacted]", and "/token/x" becomes "/[redacted]".
Grow == 3

\* slice() counts UTF-16 units.
Slice(t, max) == [t EXCEPT !.len = AtMost(max, @), !.halved = IF t.odd /\ t.len > max THEN TRUE ELSE @]

\* Cuts, then masks: a mask may be longer than what it hides.
scrub(t, max) ==
    IF t = Undefined THEN Text(0, 0)
    ELSE LET cut == Slice(t, max) IN [cut EXCEPT !.len = @ + Grow * t.secrets, !.secrets = 0]

OrElse(t, len) == IF t.len = 0 THEN Text(len, 0) ELSE t

\* Mutant: masks before it decodes.
MutMasks(p) == p.inside \in {"secret", "backslash"} /\ p.layers = 0

\* What one pass masks.  A secret is looked for after a layer was decoded; but the
\* URL parser, which makes a slash of a backslash, runs before that, and misses the
\* backslash that is decoded in the same pass.
Masks(p) ==
    \/ p.inside = "secret" /\ p.layers <= 1
    \/ p.inside = "backslash" /\ p.layers = 0

\* decodeURIComponent takes a layer off and makes a path shorter, "%25" a "%".  The
\* URL parser replaced half a surrogate pair before.
Unescaped(p) ==
    [p EXCEPT !.halved = FALSE,
              !.layers = IF @ = 0 THEN 0 ELSE @ - 1,
              !.len = IF p.layers = 0 THEN @ ELSE IF @ < 2 THEN 0 ELSE @ - 2]

\* Decodes, cuts and masks.
Decoded(p) ==
    LET cut == Slice(Unescaped(p), 512) IN
    IF Masks(p) THEN [cut EXCEPT !.inside = "plain", !.len = @ + Grow] ELSE cut

\* A path with a query ends before it; one whose protocol is not allowed, or that
\* has a percent sign which encodes nothing, is none.
safePath(p) ==
    IF p = Undefined THEN Undefined
    ELSE IF \/ p.len > 4096 \/ p.inside = "unusable"
            \/ p.inside = "percent" /\ p.layers = 0 THEN Undefined
    ELSE IF p.inside = "query" /\ p.layers = 0
         THEN Decoded([p EXCEPT !.inside = "plain", !.len = @ \div 2])
    ELSE Decoded(p)

-----------------------------------------------------------------------------
(* The sanitizer.  A safe event is a raw one with less in it.              *)

NoTags == [k \in TagKeys |-> Undefined]
NoCrumbs == [n |-> 0, path |-> Undefined, operation |-> Undefined]
NoFrames == [n |-> 0, filename |-> Undefined, function |-> Undefined, debug |-> FALSE]

sanitizeTags(tags, allowed) ==
    [k \in TagKeys |->
        IF k \in allowed /\ tags[k] # Undefined THEN scrub(tags[k], 120) ELSE Undefined]

sanitizeBreadcrumb(b) ==
    [b EXCEPT !.path = safePath(@), !.operation = IF @ = Undefined THEN Undefined ELSE scrub(@, 120)]

\* Of an API context the valid keys stay; with none it is left out.
sanitizeApiContext(api) == {key \in api : key[2] = "valid"}

\* release, dist, appVersion and the browser: kept if they match, else left out.
Matching(labels) == {label \in labels : label[2] = "valid"}

SafeFrames(frames) ==
    LET filename == safePath(frames.filename) IN
    IF frames.n = 0 \/ filename = Undefined THEN NoFrames
    ELSE [frames EXCEPT !.n = AtMost(100, @), !.filename = filename,
                        !.function = scrub(@, 160)]

SafeCrumbs(crumbs) ==
    IF crumbs.n = 0 THEN NoCrumbs ELSE [sanitizeBreadcrumb(crumbs) EXCEPT !.n = AtMost(50, @)]

Sanitized(raw, allowed) ==
    [type |-> Undefined,
     level |-> IF raw.level = "fatal" THEN "fatal" ELSE "error",
     message |-> OrElse(scrub(raw.message, 1024), 13),
     name |-> OrElse(scrub(raw.name, 120), 5),
     environment |-> IF raw.environment = Undefined THEN "development" ELSE raw.environment,
     frames |-> SafeFrames(raw.frames),
     tags |-> sanitizeTags(raw.tags, allowed),
     crumbs |-> SafeCrumbs(raw.crumbs),
     route |-> safePath(raw.route),
     api |-> sanitizeApiContext(raw.api),
     labels |-> Matching(raw.labels)]

Fits(t, max) == t = Undefined \/ t.len <= max

\* safeEventSchema.  Masks may have made a text too long for it.
Valid(safe) ==
    /\ Fits(safe.message, 1024) /\ Fits(safe.name, 120)
    /\ Fits(safe.route, 512)
    /\ safe.frames.n <= 100
    /\ Fits(safe.frames.filename, 512) /\ Fits(safe.frames.function, 160)
    /\ \A k \in TagKeys : Fits(safe.tags[k], 120)
    /\ safe.crumbs.n <= 50
    /\ Fits(safe.crumbs.path, 512) /\ Fits(safe.crumbs.operation, 120)

Unsupported(raw) == raw.type # Undefined \/ raw.level \notin {Undefined, "error", "fatal"}

\* sanitizeEvent returns a safe event or throws one of two errors.
sanitizeEvent(raw, allowed) ==
    IF Unsupported(raw) THEN [error |-> "unsupported", safe |-> Undefined]
    ELSE LET safe == Sanitized(raw, allowed) IN
         IF Valid(safe) THEN [error |-> Undefined, safe |-> safe]
         ELSE [error |-> "schema", safe |-> Undefined]

-----------------------------------------------------------------------------
(* Envelopes.  A document is measured as the parser meters it.             *)

LIMITS == [envelope |-> 1310720, item |-> 1048576, header |-> 8192,
           depth |-> 16, fields |-> 2048, array |-> 512, string |-> 4096]

\* boundedJson: why a document may be refused.  A bad one is malformed, or has a
\* field twice or one of the names __proto__, constructor and prototype.
Refusals(doc, max) ==
    IF doc.bytes > max THEN {"too_large"}
    ELSE UNION {IF doc.depth > LIMITS.depth \/ doc.array > LIMITS.array THEN {"too_large"} ELSE {},
                IF doc.string > LIMITS.string THEN {"invalid", "too_large"} ELSE {},
                IF doc.bad \/ doc.fields > LIMITS.fields THEN {"invalid"} ELSE {}}

Length(t) == IF t = Undefined THEN 0 ELSE t.len
Size(t, unit) == IF unit = "bytes" /\ t # Undefined THEN t.len * t.width ELSE Length(t)

\* The texts of an item in bytes or characters, with the names and numbers around
\* them: at most 200 for a frame or a breadcrumb, 1500 for the rest.
Total(safe, unit) ==
    1500 + Size(safe.message, unit) + Size(safe.name, unit) + Size(safe.route, unit)
    + safe.frames.n * (200 + Size(safe.frames.filename, unit) + Size(safe.frames.function, unit))
    + safe.crumbs.n * (200 + Size(safe.crumbs.path, unit) + Size(safe.crumbs.operation, unit))
    + Size(safe.tags["feature"], unit) + Size(safe.tags["tenant"], unit)

\* The fields and the nesting of the item: six fields for a frame, eight for a
\* breadcrumb, and exception.values[].stacktrace.frames[] before a frame's fields.
toSentryEvent(safe) ==
    [bytes |-> Total(safe, "bytes"),
     depth |-> IF safe.frames.n > 0 THEN 7 ELSE 5,
     fields |-> 40 + 6 * safe.frames.n + 8 * safe.crumbs.n,
     array |-> Largest({1, safe.frames.n, safe.crumbs.n}),
     string |-> Largest({160} \cup {Length(t) : t \in
                   {safe.message, safe.name, safe.route, safe.frames.filename,
                    safe.frames.function, safe.crumbs.path, safe.crumbs.operation}}),
     bad |-> FALSE]

Small == [bytes |-> 64, depth |-> 1, fields |-> 2, array |-> 0, string |-> 32, bad |-> FALSE]

\* Mutant: the length of the item in characters.
MutDeclaredLength(safe) == Total(safe, "characters")

DeclaredLength(safe) == Total(safe, "bytes")

encodeEnvelope(safe) ==
    [bytes |-> 2 * Small.bytes + 2 + Total(safe, "bytes"), framed |-> TRUE,
     header |-> Small, dsn |-> FALSE, headerId |-> "id",
     item |-> Small, kind |-> "event", length |-> DeclaredLength(safe),
     rest |-> Total(safe, "bytes"), newline |-> FALSE,
     body |-> toSentryEvent(safe), bodyId |-> "id", raw |-> safe]

LengthIsWrong(e) ==
    /\ e.length # Undefined
    /\ ~(/\ e.length \in 1..LIMITS.item
         /\ e.rest = e.length \/ (e.rest = e.length + 1 /\ e.newline))

EventId(e) == IF e.bodyId # Undefined THEN e.bodyId ELSE e.headerId

IdIsWrong(e) ==
    EventId(e) \in {Undefined, "malformed"} \/ e.headerId \notin {Undefined, EventId(e)}

\* parseEnvelope: its checks in their order.
Faults(e) ==
    <<IF e.bytes > LIMITS.envelope THEN {"too_large"} ELSE {},
      IF ~e.framed THEN {"invalid"} ELSE {},
      Refusals(e.header, LIMITS.header),
      IF e.dsn THEN {"unsupported"} ELSE {},
      Refusals(e.item, LIMITS.header),
      IF e.kind # "event" THEN {"unsupported"} ELSE {},
      IF LengthIsWrong(e) THEN {"invalid"} ELSE {},
      Refusals(e.body, LIMITS.item),
      IF IdIsWrong(e) THEN {"invalid"} ELSE {}>>

\* Why parseEnvelope may refuse: the first check that fails decides.
parseEnvelope(e) ==
    LET failing == {i \in DOMAIN Faults(e) : Faults(e)[i] # {}} IN
    IF failing = {} THEN {}
    ELSE Faults(e)[CHOOSE i \in failing : \A j \in failing : i <= j]

-----------------------------------------------------------------------------
(* The page.                                                               *)

NoScope == [tags |-> NoTags, route |-> Undefined, api |-> {}, crumbs |-> NoCrumbs]
NoEvent == [at |-> "none", from |-> Undefined, raw |-> Undefined, envelope |-> Undefined,
            status |-> Undefined]

ProtocolInit ==
    /\ active = FALSE
    /\ loopback \in BOOLEAN
    /\ global = NoScope /\ inner = Undefined
    /\ calls = 0
    /\ event = NoEvent

\* Bound of the model: one event at a time.  A capture goes on to the request in
\* one piece of JavaScript, and after that no scope is read.
Idle == event.at = "none"

Settle ==
    /\ event.at \in {"dropped", "stored", "refused"}
    /\ event' = NoEvent
    /\ UNCHANGED <<active, loopback, global, inner, calls>>

\* init() and close(); scopes outlive the client.
StartClient ==
    /\ ~active
    /\ active' = TRUE
    /\ UNCHANGED <<loopback, global, inner, calls, event>>

CloseClient ==
    /\ active
    /\ active' = FALSE
    /\ UNCHANGED <<loopback, global, inner, calls, event>>

\* A setter of the module changes the page's scope while the client is active;
\* one that withScope passed to its callback changes the inner scope.
Change(ofPage, ofCallback) ==
    /\ Idle /\ calls < MaxCalls /\ calls' = calls + 1
    /\ \/ active /\ global' = ofPage /\ UNCHANGED inner
       \/ inner # Undefined /\ inner' = ofCallback /\ UNCHANGED global
    /\ UNCHANGED <<active, loopback, event>>

setTags(k, t) ==
    LET safe == sanitizeTags([NoTags EXCEPT ![k] = t], DEFAULT_TAGS)
        Tagged(s) == [s EXCEPT !.tags =
                         [j \in TagKeys |-> IF safe[j] = Undefined THEN s.tags[j] ELSE safe[j]]] IN
    Change(Tagged(global), Tagged(inner))

setAppContext(p) ==
    Change([global EXCEPT !.route = safePath(p)], [inner EXCEPT !.route = safePath(p)])

setApiContext(a) ==
    Change([global EXCEPT !.api = sanitizeApiContext(a)], [inner EXCEPT !.api = sanitizeApiContext(a)])

\* The module's function sanitizes, and the client's beforeBreadcrumb once more; the
\* callback's puts it into the scope, which has a limit of its own.
\* Bound of the model: the breadcrumbs of an event are alike.
addBreadcrumb(b, n) ==
    LET once == sanitizeBreadcrumb(b)
        twice == sanitizeBreadcrumb(once)
        Added(s, safe, max) ==
            [s EXCEPT !.crumbs = [safe EXCEPT !.n = AtMost(max, s.crumbs.n + n)]] IN
    /\ \A s \in {global, inner} \ {Undefined} : s.crumbs.n > 0 =>
          \A safe \in {once, twice} : [s.crumbs EXCEPT !.n = 0] = [safe EXCEPT !.n = 0]
    /\ Change(Added(global, twice, 50), Added(inner, once, 100))

\* The callback runs in a scope of its own, which ends with it.
EnterScope ==
    /\ Idle /\ active /\ inner = Undefined
    /\ inner' = NoScope
    /\ UNCHANGED <<active, loopback, global, calls, event>>

LeaveScope ==
    /\ Idle /\ inner # Undefined
    /\ inner' = Undefined
    /\ UNCHANGED <<active, loopback, global, calls, event>>

\* External: what the vendored client makes of its scopes, the inner one first; the
\* breadcrumbs of both are joined.
Merged ==
    IF inner = Undefined THEN global
    ELSE [tags |-> [k \in TagKeys |->
                       IF inner.tags[k] # Undefined THEN inner.tags[k] ELSE global.tags[k]],
          route |-> IF inner.route # Undefined THEN inner.route ELSE global.route,
          api |-> IF inner.api # {} THEN inner.api ELSE global.api,
          crumbs |-> IF inner.crumbs.n = 0 THEN global.crumbs
                     ELSE [inner.crumbs EXCEPT !.n = @ + global.crumbs.n]]

Captured(message, name, frames, api, level, labels, environment) ==
    event' = [NoEvent EXCEPT !.at = "captured", !.from = "page", !.raw =
        [type |-> Undefined, level |-> level, message |-> message, name |-> name,
         environment |-> environment, frames |-> frames, tags |-> Merged.tags,
         crumbs |-> Merged.crumbs, route |-> Merged.route,
         api |-> IF api # {} THEN api ELSE Merged.api, labels |-> labels]]

\* The frames of prepared scripts have identities, which scriptDebugId finds.
captureException ==
    /\ active /\ Idle
    /\ \E message \in Messages, name \in Names, stack \in Stacks, api \in Apis,
          labels \in Labels, environment \in {Undefined, "production"} :
          Captured(message, name, stack, sanitizeApiContext(api), Undefined, labels, environment)
    /\ UNCHANGED <<active, loopback, global, inner, calls>>

\* A level other than error and fatal gives no event.
captureMessage ==
    /\ active /\ Idle
    /\ \E message \in Messages, level \in {"error", "fatal"} :
          Captured(message, Undefined, NoFrames, {}, level, {}, Undefined)
    /\ UNCHANGED <<active, loopback, global, inner, calls>>

Goes(place) == event' = [event EXCEPT !.at = place]

\* beforeSend sanitizes what the client assembled; what it returns is sanitized
\* again by send.  Either error drops the event.
BeforeSend ==
    LET first == sanitizeEvent(event.raw, DEFAULT_TAGS) IN
    /\ event.at = "captured"
    /\ IF first.error # Undefined \/ ~active THEN Goes("dropped")
       ELSE event' = [event EXCEPT !.at = "prepared", !.raw = first.safe]
    /\ UNCHANGED <<active, loopback, global, inner, calls>>

Send ==
    LET second == sanitizeEvent(event.raw, DEFAULT_TAGS) IN
    /\ event.at = "prepared"
    /\ IF second.error # Undefined \/ ~active THEN Goes("dropped")
       ELSE event' = [event EXCEPT !.at = "wire", !.envelope = encodeEnvelope(second.safe)]
    /\ UNCHANGED <<active, loopback, global, inner, calls>>

\* External: another client posts what it likes.
Post ==
    /\ Idle
    /\ \E e \in ForeignEnvelopes :
          event' = [NoEvent EXCEPT !.at = "wire", !.from = "other", !.envelope = e]
    /\ UNCHANGED <<active, loopback, global, inner, calls>>

-----------------------------------------------------------------------------
(* The ingest process.                                                     *)

\* External: PostgreSQL's jsonb refuses half a surrogate pair.
Halved(safe) ==
    \E t \in {safe.message, safe.name, safe.route, safe.frames.filename, safe.frames.function,
              safe.crumbs.path, safe.crumbs.operation} \cup {safe.tags[k] : k \in TagKeys} :
        t # Undefined /\ t.halved

Respond(status, safe) ==
    event' = [event EXCEPT !.at = IF status = 200 THEN "stored" ELSE "refused",
                           !.status = status, !.raw = safe]

Refuse(reason) == Respond(IF reason = "too_large" THEN 413 ELSE 400, Undefined)

FromLoopback == event.from = "page" /\ loopback

\* An error of the schema is no BoundaryError and answered as one of the database.
Ingest ==
    LET refusals == parseEnvelope(event.envelope)
        result == sanitizeEvent(event.envelope.raw, AllowedTags) IN
    /\ event.at = "wire"
    /\ IF refusals # {} THEN \E reason \in refusals : Refuse(reason)
       ELSE IF result.error = "unsupported" THEN Refuse("unsupported")
       ELSE IF result.error = "schema" THEN Respond(503, Undefined)
       ELSE IF FromLoopback /\ result.safe.environment # "development" THEN Respond(403, Undefined)
       ELSE IF Halved(result.safe) THEN Respond(503, Undefined)
       ELSE Respond(200, result.safe)
    /\ UNCHANGED <<active, loopback, global, inner, calls>>

ProtocolNext ==
    \/ StartClient \/ CloseClient
    \/ \E k \in TagKeys, t \in TagTexts : setTags(k, t)
    \/ \E p \in Routes : setAppContext(p)
    \/ \E a \in Apis : setApiContext(a)
    \/ \E b \in Breadcrumbs : addBreadcrumb([b EXCEPT !.n = 0], b.n)
    \/ EnterScope \/ LeaveScope
    \/ captureException \/ captureMessage
    \/ BeforeSend \/ Send
    \/ Post
    \/ Ingest \/ Settle

ProtocolSpec == ProtocolInit /\ [][ProtocolNext]_protocolVars

-----------------------------------------------------------------------------
(* Properties.                                                             *)

\* A recognizable secret that anybody can read in a text or a path.
Readable(t) ==
    /\ t # Undefined
    /\ IF "layers" \in DOMAIN t THEN t.inside \in {"secret", "backslash"} /\ t.layers = 0
                               ELSE t.secrets > 0

ScopeTexts(s) == {s.route, s.crumbs.path, s.crumbs.operation} \cup {s.tags[k] : k \in TagKeys}
EventTexts(e) == ScopeTexts(e) \cup {e.message, e.name, e.frames.filename, e.frames.function}

\* Readable, and left so only for its backslash.
LeftReadable(t) == Readable(t) /\ "layers" \in DOMAIN t /\ t.inside = "backslash"

\* A secret that the sanitizer recognizes is readable in no scope of a page, in
\* nothing it sends and in nothing that is stored, whoever sent it and however its
\* paths were encoded, with one exception: a backslash that the last pass decoded
\* hides the secret behind it from that pass.  The next pass masks it: what a page
\* sent readable is not stored so (scrub and safePath).
SecretsAreMasked ==
    /\ \A t \in ScopeTexts(global) : Readable(t) => LeftReadable(t)
    /\ inner # Undefined => \A t \in ScopeTexts(inner) : Readable(t) => LeftReadable(t)
    /\ event.at = "wire" /\ event.from = "page" =>
          \A t \in EventTexts(event.envelope.raw) : Readable(t) => LeftReadable(t)
    /\ event.at = "stored" => \A t \in EventTexts(event.raw) : Readable(t) => LeftReadable(t)
    /\ event.at = "stored" /\ event.from = "page" =>
          LET sent == event.envelope.raw IN
          /\ Readable(sent.route) => ~Readable(event.raw.route)
          /\ Readable(sent.frames.filename) => ~Readable(event.raw.frames.filename)
          /\ Readable(sent.crumbs.path) => ~Readable(event.raw.crumbs.path)

\* A path in which a secret waits to be masked, a path that no pass changes any
\* more, and one that the next pass cannot read.
Waits(p) == p # Undefined /\ p.inside \in {"secret", "backslash"}
Settled(p) == p # Undefined => p.inside = "plain" /\ p.layers = 0
Broken(p) == p # Undefined /\ p.inside = "percent" /\ p.layers = 0

\* What a page sends the ingest process takes: the largest event the sanitizer lets
\* through is within every limit of the parser, and the declared length is right.
\* Refused are only a loopback page's events of another environment, texts cut in
\* the middle of a character, and paths in which a secret is masked only now, for
\* which they may become too long.  The process sanitizes what it takes once more:
\* texts, lists, labels and the paths that are settled are stored as they were
\* sent; the frames are lost if their path now has a bare percent sign.
SentIsStored ==
    event.from = "page" =>
        LET sent == event.envelope.raw IN
        /\ event.at = "refused" =>
              \/ event.status = 403 /\ loopback
              \/ event.status = 503 /\ Halved(sent)
              \/ /\ event.status = 503
                 /\ Waits(sent.route) \/ Waits(sent.frames.filename) \/ Waits(sent.crumbs.path)
        /\ event.at = "stored" =>
              /\ event.raw.message = sent.message /\ event.raw.name = sent.name
              /\ event.raw.level = sent.level /\ event.raw.environment = sent.environment
              /\ event.raw.api = sent.api /\ event.raw.labels = sent.labels
              /\ \A k \in AllowedTags : event.raw.tags[k] = sent.tags[k]
              /\ event.raw.crumbs.n = sent.crumbs.n
              /\ event.raw.crumbs.operation = sent.crumbs.operation
              /\ IF Broken(sent.frames.filename) THEN event.raw.frames = NoFrames
                 ELSE /\ event.raw.frames.n = sent.frames.n
                      /\ event.raw.frames.function = sent.frames.function
                      /\ event.raw.frames.debug = sent.frames.debug
              /\ Settled(sent.route) => event.raw.route = sent.route
              /\ Settled(sent.frames.filename) =>
                    event.raw.frames.filename = sent.frames.filename
              /\ Settled(sent.crumbs.path) => event.raw.crumbs.path = sent.crumbs.path

=============================================================================
