----------------------------- MODULE MCSession ------------------------------
(* Small instances of Session for TLC.                                     *)
EXTENDS Session

ContentLength(n) == [name |-> "content-length", value |-> n]
TransferEncoding == [name |-> "transfer-encoding", value |-> "chunked"]
Connection(value) == [name |-> "connection", value |-> value]
ExpectContinue == [name |-> "expect", value |-> "100-continue"]
Authorize(scheme, word) ==
    [name |-> "authorization",
     value |-> [scheme |-> scheme, text |-> <<word, FALSE>>, decodes |-> scheme = "Basic"]]
Malformed == [name |-> "malformed", value |-> "no colon"]

\* An empty flag, as from a trailing comma, one of nothing but space, and a file
\* with a blank line and space at the end of another.
SomeFlags == {<<"", FALSE>>, <<"", TRUE>>, <<"t1", FALSE>>}
SomeLines == {<<"", TRUE>>, <<"t3", TRUE>>}

Nowhere == [absolute |-> TRUE, fixed |-> "no", nar |-> FALSE, narinfo |-> FALSE,
            decodes |-> FALSE]
CacheInfoTarget == [Nowhere EXCEPT !.fixed = "nix-cache-info"]
MetricsTarget == [Nowhere EXCEPT !.fixed = "metrics"]
NarTarget == [Nowhere EXCEPT !.nar = TRUE, !.decodes = TRUE]
NarinfoTarget == [Nowhere EXCEPT !.narinfo = TRUE, !.decodes = TRUE]

Message(method, target, headers, length) ==
    [line |-> "good", method |-> method, target |-> target, headers |-> headers,
     length |-> length, lines |-> 1]

Get(target) == Message("Get", target, <<>>, 0)

Builder == Authorize("Bearer", "t1")

Put(target, n) == Message("Put", target, <<Builder, ContentLength(n)>>, n)

Pushes == {Put(NarTarget, 0), Put(NarTarget, 2), Put(NarinfoTarget, 1),
           Message("Put", NarinfoTarget,
                   <<Authorize("Basic", "t3"), ContentLength(3)>>, 3),
           Message("Put", NarTarget, <<Builder, ContentLength(2), ContentLength(1)>>, 1)}

\* What a Nix client sends: bodies on pushes only.
Reads == {Get(CacheInfoTarget), Get(MetricsTarget), Get(NarinfoTarget), Get(NarTarget),
          Message("Head", NarTarget, <<>>, 0), Message("Head", NarinfoTarget, <<>>, 0),
          Message("Get", NarinfoTarget, <<Connection("close")>>, 0)}

\* Requests the cache turns down by their heads, most with a body behind.
Odd == {Message("Put", NarTarget, <<Builder, TransferEncoding>>, 1),
        Message("Put", NarTarget, <<Builder, TransferEncoding, ContentLength(0)>>, 1),
        Message("Put", NarTarget, <<Builder, ContentLength(1), TransferEncoding>>, 2),
        Message("Put", NarTarget, <<Builder, ContentLength(NotANumber)>>, 1),
        Put(Nowhere, 1),
        Message("Get", [NarTarget EXCEPT !.decodes = FALSE], <<ContentLength(1)>>, 1),
        Message("Get", [NarTarget EXCEPT !.absolute = FALSE], <<>>, 0),
        Message("Put", NarTarget, <<Builder>>, 0),
        Message("Put", NarinfoTarget, <<Builder>>, 0),
        Message("Put", NarTarget, <<Authorize("Bearer", "t2"), ContentLength(1)>>, 1),
        Message("Put", NarTarget, <<Authorize("Bearer", ""), ContentLength(1)>>, 1),
        Message("Put", NarinfoTarget, <<ContentLength(1)>>, 1),
        Message("Get", NarinfoTarget, <<Malformed>>, 0),
        [Get(NarinfoTarget) EXCEPT !.line = "bad"],
        [Get(NarinfoTarget) EXCEPT !.lines = HeadLenMax + 2]}

\* Clients that hold the body back until they are told to continue.
Expecting(r) == [r EXCEPT !.headers = Append(@, ExpectContinue)]

Patient == {Expecting(r) : r \in {o \in Pushes \cup Odd : o.length > 0}}

ManyRequests == Reads \cup Pushes \cup Odd \cup Patient

ASSUME ManyAssumption == BodiesWelcome(ManyRequests)

\* A body on a request that has no use for one.
BodyOnAnything == {Message("Get", NarinfoTarget, <<ContentLength(1)>>, 1),
                   Get(NarinfoTarget), Put(CacheInfoTarget, 1)}
=============================================================================
