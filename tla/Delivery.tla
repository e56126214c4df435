------------------------------ MODULE Delivery ------------------------------
(***************************************************************************)
(* How a response reaches a browser: what handleStatic and the renderers   *)
(* write, gzipResponseWriter deciding as the bytes arrive whether to       *)
(* compress them, and a cache on the way that keeps a static file and asks *)
(* again with its tag.                                                     *)
(*                                                                         *)
(* A body is counted in units, each of some version of the file and in     *)
(* some coding.  A tag is the build's stamp and the suffixes put after it. *)
(* Responses share nothing but the cache, so there is one at a time; a     *)
(* compressor from the pool serves one response.  No handler of the        *)
(* program flushes, so Flush is left out.                                  *)
(***************************************************************************)
EXTENDS Naturals, Sequences

CONSTANTS
    MinSize,     \* gzipMinSize, in units
    MaxBody,     \* bound: units of a body
    MaxBuild     \* bound: builds

ASSUME MinSizeAssumption == MinSize \in Nat \ {0}
ASSUME BoundsAssumption == MaxBody \in Nat /\ MaxBuild \in Nat

VARIABLES
    build,       \* the build that runs; its files are of this version
    file,        \* the static file, the same in every build
    held,        \* the cache
    ask,         \* the request under way
    out          \* its response writer, and what has gone out

deliveryVars == <<build, file, held, ask, out>>

Coding == {"br", "gzip"}
Packing == Coding \union {""}
NoTag == << >>

\* handleStatic puts the coding after the stamp, and so does startGzip.
Tag == {NoTag} \union ((0 .. MaxBuild) \X {"", "br", "gzip", "twice"})

StaticFile == [text : BOOLEAN, siblings : SUBSET Coding, size : 1 .. MaxBody]

Headers == [status : {0, 200, 304, 500}, enc : Packing, tag : Tag, length : BOOLEAN]

CachedCopy == [version : 0 .. MaxBuild, enc : Packing, tag : Tag, took : SUBSET Coding]

Exchange == [pc : {"no", "run", "done"},
        what : {"static", "page"},
        takes : SUBSET Coding,           \* Accept-Encoding
        match : Tag,                     \* If-None-Match
        head : Headers,                     \* the handler's headers, and status
        left : 0 .. MaxBody,             \* units it has yet to write
        wrote : 0 .. MaxBody]

Out == [status : {0, 200, 304, 500}, passing : BOOLEAN, wrote : BOOLEAN,
        gz : BOOLEAN, buf : 0 .. MaxBody,
        head : Headers,                     \* as sent; status 0 before that
        plain : 0 .. MaxBody,            \* units sent as the handler wrote them
        packed : 0 .. MaxBody]           \* and through the compressor

DeliveryTypeOK ==
    /\ build \in 0 .. MaxBuild
    /\ file \in StaticFile
    /\ held \in {NoTag} \union CachedCopy
    /\ ask \in Exchange
    /\ out \in Out

NoHead == [status |-> 0, enc |-> "", tag |-> NoTag, length |-> FALSE]
NoOut == [status |-> 0, passing |-> FALSE, wrote |-> FALSE, gz |-> FALSE, buf |-> 0,
          head |-> NoHead, plain |-> 0, packed |-> 0]
NoAsk == [pc |-> "no", what |-> "page", takes |-> {}, match |-> NoTag,
          head |-> NoHead, left |-> 0, wrote |-> 0]

-----------------------------------------------------------------------------
(* handleStatic. *)

\* The coding of the sibling sent: what the client takes and the build made,
\* brotli before gzip where it does not mind.
PackedAs(takes) ==
    IF "br" \in takes \intersect file.siblings THEN "br"
    ELSE IF "gzip" \in takes \intersect file.siblings THEN "gzip" ELSE ""

OneTag(b, coding) == <<b, "">>              \* mutant: one for every variant
TagOf(b, coding) == <<b, coding>>

\* What the cache asks with: the tag of what it holds.
Handled(what, takes) ==
    LET match == IF what = "static" /\ held # NoTag THEN held.tag ELSE NoTag
        coding == PackedAs(takes)
        own == TagOf(build, coding)
        same == match # NoTag /\ match = own
    IN IF what = "static"
       THEN [pc |-> "run", what |-> what, takes |-> takes, match |-> match,
             head |-> [status |-> IF same THEN 304 ELSE 200, enc |-> coding,
                       tag |-> own, length |-> FALSE],
             left |-> IF same THEN 0 ELSE file.size, wrote |-> 0]
       ELSE [NoAsk EXCEPT !.pc = "run", !.takes = takes]

\* A request the cache cannot answer by itself: pages are not kept, and a
\* file is while it is held for the same Accept-Encoding.
Arrives(what, takes) ==
    /\ ask.pc = "no"
    /\ ask' = Handled(what, takes)
    /\ out' = NoOut
    /\ UNCHANGED <<build, file, held>>

\* A page: its status, whether it says a length, and its body, which a
\* renderer writes piece by piece from a buffer it has finished.
Render ==
    /\ ask.pc = "run" /\ ask.what = "page" /\ ask.head.status = 0
    /\ \E status \in {200, 500}, length \in BOOLEAN, n \in 0 .. MaxBody :
         ask' = [ask EXCEPT !.head = [NoHead EXCEPT !.status = status, !.length = length],
                            !.left = n]
    /\ UNCHANGED <<build, file, held, out>>

-----------------------------------------------------------------------------
(* gzipResponseWriter, or the bare writer for a client that takes no gzip. *)

Wrapped == "gzip" \in ask.takes
Compressible == ask.what = "page" \/ file.text

\* WriteHeader: at once where nothing is to be compressed.
WithHeader(w, status) ==
    IF w.wrote THEN w
    ELSE IF ~ Wrapped \/ status = 304 \/ ask.head.enc # "" \/ ~ Compressible
         THEN [w EXCEPT !.status = status, !.passing = TRUE, !.wrote = TRUE,
                        !.head = [ask.head EXCEPT !.status = status]]
         ELSE [w EXCEPT !.status = status]

GzipTag(tag) ==
    IF tag = NoTag THEN tag
    ELSE <<tag[1], IF tag[2] = "" THEN "gzip" ELSE "twice">>

LengthKept(h) == [h EXCEPT !.enc = "gzip", !.tag = GzipTag(@)]   \* mutant
Compressed(h) == [h EXCEPT !.enc = "gzip", !.tag = GzipTag(@), !.length = FALSE]

StartGzip(w) ==
    [w EXCEPT !.head = [Compressed(ask.head) EXCEPT !.status = w.status],
              !.wrote = TRUE, !.gz = TRUE, !.packed = w.buf, !.buf = 0]

Written(w, n) ==
    IF w.passing THEN [w EXCEPT !.plain = @ + n]
    ELSE IF w.gz THEN [w EXCEPT !.packed = @ + n]
    ELSE LET more == [w EXCEPT !.buf = @ + n]
         IN IF more.buf < MinSize THEN more ELSE StartGzip(more)

Accepted(w, n) == Written(IF w.status = 0 THEN WithHeader(w, 200) ELSE w, n)

\* A status is announced before a body, or left to the first Write.
Announce ==
    /\ ask.pc = "run" /\ ask.head.status # 0 /\ ask.wrote = 0 /\ out.status = 0
    /\ ask.head.status # 200 \/ ask.what = "page"
    /\ out' = WithHeader(out, ask.head.status)
    /\ UNCHANGED <<build, file, held, ask>>

WriteSome ==
    /\ ask.pc = "run" /\ ask.left > 0
    /\ out.status # 0 \/ ask.head.status = 200
    /\ \E n \in 1 .. ask.left :
         /\ ask.what = "static" => n = ask.left      \* in one Write
         /\ out' = Accepted(out, n)
         /\ ask' = [ask EXCEPT !.left = @ - n, !.wrote = @ + n]
    /\ UNCHANGED <<build, file, held>>

\* close: what stayed below the threshold goes out as it is.
NothingHeld(w) == w                         \* mutant: the buffer is dropped
Closed(w) ==
    IF w.gz \/ w.passing THEN w
    ELSE LET status == IF w.status = 0 THEN 200 ELSE w.status
         IN [w EXCEPT !.head = IF w.wrote THEN @ ELSE [ask.head EXCEPT !.status = status],
                      !.wrote = TRUE, !.plain = @ + w.buf, !.buf = 0]

Finish ==
    /\ ask.pc = "run" /\ ask.head.status # 0 /\ ask.left = 0
    /\ out.status # 0 \/ ask.head.status = 200
    /\ out' = Closed(out)
    /\ ask' = [ask EXCEPT !.pc = "done"]
    /\ UNCHANGED <<build, file, held>>

-----------------------------------------------------------------------------
(* The cache, and the server's next build. *)

\* A file's response is kept, for the requests Vary lets it serve.
Keep ==
    /\ ask.pc = "done"
    /\ held' = IF ask.what = "static" /\ out.head.status = 200
               THEN [version |-> build, enc |-> out.head.enc, tag |-> out.head.tag,
                     took |-> ask.takes]
               ELSE held
    /\ ask' = NoAsk
    /\ out' = NoOut
    /\ UNCHANGED <<build, file>>

NewBuild ==
    /\ build < MaxBuild
    /\ build' = build + 1
    /\ ask' = NoAsk
    /\ out' = NoOut
    /\ UNCHANGED <<file, held>>

-----------------------------------------------------------------------------

DeliveryInit ==
    /\ build = 0
    /\ file \in StaticFile
    /\ held = NoTag
    /\ ask = NoAsk
    /\ out = NoOut

DeliveryNext ==
    \/ \E what \in {"static", "page"}, takes \in SUBSET Coding : Arrives(what, takes)
    \/ Render \/ Announce \/ WriteSome \/ Finish
    \/ Keep \/ NewBuild

DeliverySpec == DeliveryInit /\ [][DeliveryNext]_deliveryVars

-----------------------------------------------------------------------------
(* Properties. *)

\* How the bytes that went out are really packed.
ReallyPacked == IF out.packed > 0 THEN "gzip" ELSE ask.head.enc

\* What arrives is what was written: every unit of it, once, under the
\* handler's own status, packed the way the headers say and no longer than a
\* length they state, and in a coding this client takes.  A 304 is for a copy
\* that is of this build and that this client can read, though another asked
\* for it (compress.go:82, main.go:563).
ArrivesWhole ==
    ask.pc = "done" =>
        /\ out.plain + out.packed = ask.wrote /\ out.buf = 0
        /\ out.plain = 0 \/ out.packed = 0
        /\ out.head.status = ask.head.status
        /\ ask.wrote > 0 => out.head.enc = ReallyPacked
        /\ out.head.enc # "" => out.head.enc \in ask.takes
        /\ out.head.length => out.packed = 0
        /\ out.head.status = 304 =>
              held.version = build /\ (held.enc # "" => held.enc \in ask.takes)
=============================================================================
