----------------------------- MODULE ProxyStream -----------------------------
(***************************************************************************)
(* The bytes of one proxied connection: the head is read (http.rs, or the  *)
(* io_uring session), parsed, written to the backend, and the rest of the  *)
(* client's stream is copied after it (serve.rs, forwarder_io_uring.rs).   *)
(* A byte is a symbol: a header name, a digit, a line end ("nl") or body.  *)
(***************************************************************************)
EXTENDS Integers, Sequences, Functions

CONSTANTS
  Streams,       \* what clients send
  Chunk,         \* the longest read
  MAX_HEAD,
  MaxCopy,       \* bytes an io_uring session copies before it stops
  DigitMax,      \* u64::MAX
  ShortTokens    \* ROUTING_SHORT_CONTEXT_TOKENS

ASSUME ProxyAssumption ==
  /\ {Chunk, MAX_HEAD, MaxCopy, DigitMax, ShortTokens} \subseteq Nat \ {0}
  /\ \A s \in Streams : Len(s) \in Nat /\ s = [i \in 1 .. Len(s) |-> s[i]]

VARIABLES
  uring,           \* the connection has an io_uring session
  req, sent, eof,  \* what the client will send, has sent, and that it closed
  px, acc, got,    \* the handler, its head, and how much it has read
  buf, out, total, \* bytes in flight, bytes the backend has, bytes counted
  short, over,     \* history: a write was short; read_head dropped bytes
  cut              \* history: where an error was taken for an end, {"head", "copy"}

proxyVars == <<uring, req, sent, eof, px, acc, got, buf, out, total, short, over, cut>>

----------------------------------------------------------------------------
(* Parsing *)

Least(S) == CHOOSE x \in S : \A y \in S : x <= y

(* The first of the positions I at which a byte is found, 0 for none.      *)
position(I) == IF I # {} THEN Least(I) ELSE 0

Digit(x) == x \in {<<"d", n>> : n \in 0 .. 9}

(* header_value_ci, and the path segment of the request line: what follows *)
(* the first occurrence of the name, up to the end of its line.            *)
header_value_ci(head, name) ==
  IF name \notin Range(head) THEN <<>>
  ELSE LET i == position({k \in 1 .. Len(head) : head[k] = name})
           rest == SubSeq(head, i + 1, Len(head))
           end == position({k \in 1 .. Len(rest) : rest[k] = "nl"})
       IN  IF end = 0 THEN rest ELSE SubSeq(rest, 1, end - 1)

(* Decimal digits up to the first other byte; -1 when there is none or the *)
(* number does not fit.                                                    *)
parse_u64_digits(bytes) ==
  LET stop == position({k \in 1 .. Len(bytes) : ~Digit(bytes[k])})
      digits == IF stop = 0 THEN bytes ELSE SubSeq(bytes, 1, stop - 1)
      step(n, d) == IF n = -1 \/ n * 10 + d[2] > DigitMax THEN -1 ELSE n * 10 + d[2]
      number[k \in 0 .. Len(digits)] == IF k = 0 THEN 0 ELSE step(number[k - 1], digits[k])
  IN  IF digits = <<>> THEN -1 ELSE number[Len(digits)]

parse_prompt_tokens(head) == parse_u64_digits(header_value_ci(head, "tokens"))
parse_path_tokens(head) == parse_u64_digits(header_value_ci(head, "path"))

estimate_prompt_tokens(head) ==
  IF parse_prompt_tokens(head) # -1 THEN parse_prompt_tokens(head)
  ELSE IF parse_path_tokens(head) # -1 THEN parse_path_tokens(head)
  ELSE ShortTokens + 1

(* All of tenant, group and fingerprint, or no identity (<<>>); content    *)
(* that is sent along has to hash to the fingerprint.                      *)
parse_request_identity(head) ==
  LET value == [h \in {"tenant", "group", "fp"} |-> parse_u64_digits(header_value_ci(head, h))]
      content == header_value_ci(head, "content")
  IN  IF \/ \E h \in DOMAIN value : value[h] = -1
         \/ "content" \in Range(head) /\ parse_u64_digits(content) # value["fp"]
        THEN <<>> ELSE <<value["tenant"], value["group"], value["fp"]>>

is_decode_only(head) == header_value_ci(head, "phase") = <<"decode">> \/ "probe" \in Range(head)

Class(head) == <<is_decode_only(head), estimate_prompt_tokens(head), parse_request_identity(head)>>

----------------------------------------------------------------------------
(* Reading the head *)

Blank(s) == \E i \in 1 .. Len(s) - 1 : s[i] = "nl" /\ s[i + 1] = "nl"
EndsBlank(s) == Len(s) >= 2 /\ SubSeq(s, Len(s) - 1, Len(s)) = <<"nl", "nl">>

(* Mutants: the head ends at its first line; it ends only where a read does. *)
HeadEndsAtLine(s) == "nl" \in Range(s)
HeadEndsAtRead(s) == EndsBlank(s)

(* read_head searches everything read so far; the io_uring session looks   *)
(* at its end only.                                                        *)
HeadEnds(s) == IF uring THEN EndsBlank(s) ELSE Blank(s)

Avail == sent - got

(* Mutant: what was read behind the blank line is dropped. *)
TakeHeadOnly(n) ==
  LET s == acc \o SubSeq(req, got + 1, got + n) IN
    IF \E i \in 2 .. Len(s) : EndsBlank(SubSeq(s, 1, i))
      THEN SubSeq(s, 1, Least({i \in 2 .. Len(s) : EndsBlank(SubSeq(s, 1, i))}))
      ELSE SubSeq(s, 1, Least({Len(s), MAX_HEAD}))

(* The head after n more bytes, never longer than MAX_HEAD. *)
TakeHead(n) == LET s == acc \o SubSeq(req, got + 1, got + n) IN SubSeq(s, 1, Least({Len(s), MAX_HEAD}))

(* The io_uring session never asks for more than it may keep; read_head    *)
(* drops what does not fit.                                                *)
ReadHead ==
  /\ px = "head"
  /\ \E n \in 1 .. Least({Chunk, Avail, IF uring THEN MAX_HEAD - Len(acc) ELSE Chunk}) :
       /\ acc' = TakeHead(n)
       /\ got' = got + n
       /\ over' = (Len(acc) + n > MAX_HEAD)
       /\ px' = IF HeadEnds(acc') \/ Len(acc') = MAX_HEAD THEN "route" ELSE "head"
  /\ UNCHANGED <<uring, req, sent, eof, buf, out, total, short, cut>>

ReadHeadEof ==
  /\ px = "head" /\ Avail = 0 /\ eof
  /\ px' = "route"
  /\ UNCHANGED <<uring, req, sent, eof, acc, got, buf, out, total, short, over, cut>>

(* A read that fails ends the connection in read_head.  The io_uring       *)
(* session takes it for the end of the stream and routes what it has; only *)
(* an error of the ring itself ends the connection.                        *)
ReadHeadFails ==
  /\ px = "head"
  /\ \/ px' = "failed" /\ cut' = cut
     \/ uring /\ px' = "route" /\ cut' = cut \union {"head"}
  /\ UNCHANGED <<uring, req, sent, eof, acc, got, buf, out, total, short, over>>

(* The backend answered connect and takes the head whole. *)
ForwardHead ==
  /\ px = "route"
  /\ px' = "copy" /\ out' = acc
  /\ UNCHANGED <<uring, req, sent, eof, acc, got, buf, total, short, over, cut>>

(* No route, no connection, or a head of which a part is written. *)
ForwardFails ==
  /\ px = "route"
  /\ px' = "failed" /\ \E w \in 0 .. Len(acc) : out' = SubSeq(acc, 1, w)
  /\ UNCHANGED <<uring, req, sent, eof, acc, got, buf, total, short, over, cut>>

(* io::copy, and IoUringProxySession::copy_stream with its limit. *)
CopyRead ==
  /\ px = "copy"
  /\ \E n \in 1 .. Least({Chunk, Avail, IF uring THEN MaxCopy - total ELSE Chunk}) :
       /\ buf' = SubSeq(req, got + 1, got + n)
       /\ got' = got + n
  /\ px' = "write"
  /\ UNCHANGED <<uring, req, sent, eof, acc, out, total, short, over, cut>>

(* io::copy writes all of the buffer; the session submits one write and    *)
(* counts the whole buffer whatever the kernel took of it.                 *)
CopyWrite ==
  /\ px = "write"
  /\ \E w \in IF uring THEN 0 .. Len(buf) ELSE {Len(buf)} :
       /\ out' = out \o SubSeq(buf, 1, w)
       /\ short' = (short \/ w < Len(buf))
  /\ total' = total + Len(buf)
  /\ buf' = <<>> /\ px' = "copy"
  /\ UNCHANGED <<uring, req, sent, eof, acc, got, over, cut>>

CopyEnds ==
  /\ px = "copy"
  /\ (Avail = 0 /\ eof) \/ (uring /\ total >= MaxCopy)
  /\ px' = "done"
  /\ UNCHANGED <<uring, req, sent, eof, acc, got, buf, out, total, short, over, cut>>

(* A read that fails ends the copy like the end of the stream: the session *)
(* does not tell them apart, and the error of io::copy is dropped.  An     *)
(* error of the ring ends the connection.                                  *)
CopyReadFails ==
  /\ px = "copy"
  /\ \/ px' = "done" /\ cut' = cut \union {"copy"}
     \/ uring /\ px' = "failed" /\ cut' = cut
  /\ UNCHANGED <<uring, req, sent, eof, acc, got, buf, out, total, short, over>>

(* So does a write that fails in io::copy, after a part of the buffer; the *)
(* session returns its error.                                              *)
CopyWriteFails ==
  /\ px = "write"
  /\ \/ uring /\ px' = "failed" /\ UNCHANGED <<out, cut>>
     \/ /\ ~uring /\ px' = "done" /\ cut' = cut \union {"copy"}
        /\ \E w \in 0 .. Len(buf) : out' = out \o SubSeq(buf, 1, w)
  /\ UNCHANGED <<uring, req, sent, eof, acc, got, buf, total, short, over>>

ClientSends ==
  /\ ~eof /\ sent < Len(req)
  /\ sent' = sent + 1
  /\ UNCHANGED <<uring, req, eof, px, acc, got, buf, out, total, short, over, cut>>

ClientCloses ==
  /\ ~eof
  /\ eof' = TRUE
  /\ UNCHANGED <<uring, req, sent, px, acc, got, buf, out, total, short, over, cut>>

ProxyInit ==
  /\ uring \in BOOLEAN /\ req \in Streams
  /\ sent = 0 /\ eof = FALSE
  /\ px = "head" /\ acc = <<>> /\ got = 0
  /\ buf = <<>> /\ out = <<>> /\ total = 0
  /\ short = FALSE /\ over = FALSE /\ cut = {}

ProxyNext ==
  \/ ReadHead \/ ReadHeadEof \/ ReadHeadFails \/ ForwardHead \/ ForwardFails
  \/ CopyRead \/ CopyReadFails \/ CopyWrite \/ CopyWriteFails \/ CopyEnds
  \/ ClientSends \/ ClientCloses

ProxySpec == ProxyInit /\ [][ProxyNext]_proxyVars

----------------------------------------------------------------------------
(* Properties *)

Names == {"tokens", "path", "tenant", "group", "fp", "content", "phase", "probe"}

(* The stream up to its first blank line. *)
HeadOf(s) ==
  LET blank == {i \in 1 .. Len(s) - 1 : s[i] = "nl" /\ s[i + 1] = "nl"} IN
    IF blank = {} THEN s ELSE SubSeq(s, 1, Least(blank) + 1)

(* A request is routed by its whole head, however the bytes were split     *)
(* over reads and whatever body bytes the last one brought along: every    *)
(* name the head has is read with the head's value, and the request is     *)
(* classified as by the head alone unless the bytes behind the blank line  *)
(* spell a name the head does not have, for which the scan takes them.     *)
(* Not claimed for a head without its blank line within MAX_HEAD, and for  *)
(* one an io_uring read that failed cut off.                               *)
ClassifiedWhole ==
  LET head == HeadOf(SubSeq(req, 1, sent)) IN
    /\ px \notin {"head", "failed"} /\ "head" \notin cut
    /\ Len(acc) < MAX_HEAD \/ Blank(acc)
    => /\ \A name \in Names \intersect Range(head) : header_value_ci(acc, name) = header_value_ci(head, name)
       /\ Names \intersect Range(acc) \subseteq Range(head) => Class(acc) = Class(head)

(* The backend gets the client's stream in order and without a gap, body   *)
(* bytes read with the head included, whatever reads and writes fail; and  *)
(* a connection that ended by itself, no error of the copy taken for the   *)
(* end of the stream, delivered all of it or reached the io_uring limit.   *)
(* Not claimed after a short io_uring write or a read behind MAX_HEAD,     *)
(* where bytes are lost.                                                   *)
StreamIntact ==
  ~short /\ ~over =>
    /\ Len(out) <= Len(req) /\ out = SubSeq(req, 1, Len(out))
    /\ px = "copy" => Len(out) = Len(acc) + total
    /\ px = "done" /\ "copy" \notin cut => Len(out) = sent \/ (uring /\ total >= MaxCopy)

(* The head's blank line ends the read, although the client waits for its  *)
(* answer and sends no more.  The io_uring session needs a head that       *)
(* nothing follows.                                                        *)
HeadReadEnds ==
  (Blank(SubSeq(req, 1, sent)) /\ (uring => EndsBlank(req))) ~> px # "head"
=============================================================================
