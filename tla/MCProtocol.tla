------------------------------ MODULE MCProtocol ------------------------------
(* Small instances of Protocol for TLC.                                    *)
EXTENDS Protocol

Plain(len) == Text(len, 0)
Cut(len) == [Text(len, 0) EXCEPT !.width = 6, !.odd = TRUE]
Wide(len) == [Text(len, 0) EXCEPT !.width = 6]
WidePath(len) == [Path(len, "plain", 0) EXCEPT !.width = 6]

MCMessages == {Text(30, 1), Text(1024, 100), Wide(5000), Cut(1025)}
MCNames == {Undefined, Wide(200)}
MCTagTexts == {Wide(121), Text(118, 2)}
MCRoutes == {WidePath(600), Path(20, "secret", 1), Path(20, "secret", 4), Path(20, "backslash", 1),
             Path(4097, "plain", 0)}

Stack(n, path) == [n |-> n, filename |-> path, function |-> Wide(200), debug |-> n = 1]
MCStacks == {NoFrames, Stack(101, [WidePath(600) EXCEPT !.odd = TRUE]),
             Stack(2, Path(20, "percent", 2)), Stack(1, Path(20, "query", 2)),
             Stack(1, Path(600, "backslash", 2)), Stack(1, Path(20, "backslash", 2)),
             Stack(1, Path(20, "backslash", 3)), Stack(1, Path(512, "secret", 0)),
             Stack(1, Path(512, "secret", 3))}

Crumb(n, path, operation) == [n |-> n, path |-> path, operation |-> operation]
MCBreadcrumbs == {Crumb(1, Path(20, "secret", 2), Text(20, 1)),
                  Crumb(60, WidePath(600), Wide(121))}

MCApis == {{}, {<<"code", "valid">>, <<"reason", "invalid">>}}
MCLabels == {{<<"release", "valid">>, <<"appVersion", "invalid">>}}

\* What another client may post: one good envelope, and its variations.
Raw == [type |-> Undefined, level |-> "fatal", message |-> Text(30, 1), name |-> Undefined,
        environment |-> Undefined, frames |-> NoFrames, tags |-> [NoTags EXCEPT !["tenant"] = Plain(5)],
        crumbs |-> NoCrumbs, route |-> Path(20, "secret", 2), api |-> {}, labels |-> {}]
Body == [Small EXCEPT !.bytes = 2000]
Good == [bytes |-> 2130, framed |-> TRUE, header |-> Small, dsn |-> FALSE, headerId |-> "id",
         item |-> Small, kind |-> "event", length |-> 2000, rest |-> 2000, newline |-> FALSE,
         body |-> Body, bodyId |-> Undefined, raw |-> Raw]

MCForeignEnvelopes ==
    {Good,
     [Good EXCEPT !.length = Undefined], [Good EXCEPT !.rest = 2001, !.newline = TRUE],
     [Good EXCEPT !.rest = 2001], [Good EXCEPT !.length = 0],
     [Good EXCEPT !.bytes = LIMITS.envelope + 1], [Good EXCEPT !.framed = FALSE],
     [Good EXCEPT !.header.bytes = 8193], [Good EXCEPT !.dsn = TRUE],
     [Good EXCEPT !.item.bad = TRUE], [Good EXCEPT !.kind = "transaction"],
     [Good EXCEPT !.headerId = Undefined], [Good EXCEPT !.bodyId = "other"],
     [Good EXCEPT !.headerId = "malformed"],
     [Good EXCEPT !.body.bytes = LIMITS.item + 1], [Good EXCEPT !.body.depth = 17],
     [Good EXCEPT !.body.fields = 2049], [Good EXCEPT !.body.array = 513],
     [Good EXCEPT !.body.string = 4097], [Good EXCEPT !.body.bad = TRUE],
     [Good EXCEPT !.raw.type = "transaction"], [Good EXCEPT !.raw.level = "info"],
     [Good EXCEPT !.raw.message = Text(1024, 100)], [Good EXCEPT !.raw.message = Cut(1025)],
     [Good EXCEPT !.raw.frames = Stack(512, Path(20, "secret", 1))],
     [Good EXCEPT !.raw.route = [WidePath(600) EXCEPT !.odd = TRUE]],
     [Good EXCEPT !.raw.route = Path(20, "backslash", 1)]}

=============================================================================
