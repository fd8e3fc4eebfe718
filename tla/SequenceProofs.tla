--------------------------- MODULE SequenceProofs ---------------------------
(***************************************************************************)
(* Proofs about ProxyStream, HandoffLog and BenchSuite, each of which      *)
(* hands a sequence on piece by piece: what the backend receives and how a *)
(* request is classified, for streams of any length, however they are      *)
(* split over reads and writes; what a prefill response hands on and how   *)
(* its samples are kept, for any number of requests; which reports a bench *)
(* command judges, for all modes and scenarios, killed or not.             *)
(***************************************************************************)
EXTENDS ProxyStream, HandoffLog, BenchSuite, WellFoundedInduction, TLAPS

LEMMA LeastNat ==
  ASSUME NEW T, T \subseteq Nat, T # {}
  PROVE  \E x \in T : \A y \in T : x <= y
<1> DEFINE R == OpToRel(<, Nat)
<1>1. IsWellFoundedOn(R, Nat)
  BY NatLessThanWellFounded, Zenon
<1>2. \A y, x \in Nat : y < x => <<y, x>> \in R
  BY Zenon DEF OpToRel
<1> HIDE DEF R
<1>3. PICK x \in T : \A y \in T : ~(<<y, x>> \in R)
  BY <1>1, WFMin, Zenon
<1>4. ASSUME NEW y \in T PROVE x <= y
  <2>1. ~(y < x)
    BY <1>2, <1>3, Zenon
  <2> QED
    BY <2>1
<1> QED
  BY <1>4, Zenon

-----------------------------------------------------------------------------
(* Proxied stream *)

Bytes == UNION {{s[i] : i \in 1 .. Len(s)} : s \in Streams}

(* The first n bytes of the client's stream. *)
Pre(n) == SubSeq(req, 1, n)

(* The head is a prefix of the stream, and what the backend has is the     *)
(* head and the bytes copied after it.                                     *)
StreamType ==
  /\ req \in Streams /\ uring \in BOOLEAN /\ eof \in BOOLEAN /\ short \in BOOLEAN /\ over \in BOOLEAN
  /\ sent \in 0 .. Len(req) /\ got \in 0 .. sent /\ total \in Nat
  /\ px \in {"head", "route", "copy", "write", "done", "failed"}
  /\ buf \in Seq(Bytes) /\ acc \in Seq(Bytes)

HeadInv ==
  /\ px = "head" => ~over
  /\ px \in {"head", "route"} => total = 0 /\ out = <<>>
  /\ Len(acc) <= got /\ acc = Pre(Len(acc))
  /\ px \in {"head", "route"} /\ ~over => Len(acc) = got
  /\ px \notin {"head", "failed"} /\ "head" \notin cut =>
       Blank(acc) \/ Len(acc) = MAX_HEAD \/ (eof /\ Len(acc) = sent)

Copied == got = Len(acc) + total /\ out = Pre(got)
Written == \E n \in 0 .. Len(req) : out = Pre(n)

CopyInv ==
  ~short /\ ~over =>
    /\ px = "copy" => Copied
    /\ px = "write" => /\ Len(acc) + total + Len(buf) = got
                       /\ out = Pre(Len(acc) + total)
                       /\ buf = SubSeq(req, Len(acc) + total + 1, got)
    /\ px = "done" /\ "copy" \notin cut => Copied /\ ((eof /\ got = sent) \/ (uring /\ total >= MaxCopy))
    /\ px \in {"failed", "done"} => Written

StreamInv == StreamType /\ HeadInv /\ CopyInv

-----------------------------------------------------------------------------
(* Prefixes *)

LEMMA StreamSeq ==
  ASSUME NEW s \in Streams
  PROVE  s \in Seq(Bytes)
<1>1. Len(s) \in Nat /\ s = [i \in 1 .. Len(s) |-> s[i]]
  BY ProxyAssumption, Zenon
<1>2. \A i \in 1 .. Len(s) : s[i] \in Bytes
  BY DEF Bytes
<1> QED
  BY <1>1, <1>2

LEMMA SameSequence ==
  ASSUME NEW S, NEW s \in Seq(S), NEW t \in Seq(S), Len(s) = Len(t), \A i \in 1 .. Len(t) : s[i] = t[i]
  PROVE  s = t
  OBVIOUS

LEMMA PrefixFacts ==
  ASSUME NEW S, NEW s \in Seq(S), NEW n \in 0 .. Len(s)
  PROVE  /\ SubSeq(s, 1, n) \in Seq(S) /\ Len(SubSeq(s, 1, n)) = n
         /\ \A i \in 1 .. n : SubSeq(s, 1, n)[i] = s[i]
  OBVIOUS

LEMMA PrefixGrows ==
  ASSUME NEW S, NEW s \in Seq(S), NEW n \in 0 .. Len(s), NEW k \in 0 .. (Len(s) - n)
  PROVE  /\ SubSeq(s, 1, n) \o SubSeq(s, n + 1, n + k) = SubSeq(s, 1, n + k)
         /\ SubSeq(s, n + 1, n + k) \in Seq(S) /\ Len(SubSeq(s, n + 1, n + k)) = k
  OBVIOUS

LEMMA PrefixAgain ==
  ASSUME NEW S, NEW s \in Seq(S), NEW n \in 0 .. Len(s), NEW k \in 0 .. n
  PROVE  SubSeq(SubSeq(s, 1, n), 1, k) = SubSeq(s, 1, k)
  OBVIOUS

LEMMA PiecePrefix ==
  ASSUME NEW S, NEW s \in Seq(S), NEW n \in 0 .. Len(s), NEW l \in 0 .. (Len(s) - n), NEW w \in 0 .. l
  PROVE  SubSeq(SubSeq(s, n + 1, n + l), 1, w) = SubSeq(s, n + 1, n + w) /\ n + w \in 0 .. Len(s) /\ w \in 0 .. (Len(s) - n)
  OBVIOUS

LEMMA PrefixIs ==
  ASSUME NEW S, NEW s \in Seq(S), NEW n \in 0 .. Len(s)
  PROVE  Len(SubSeq(s, 1, n)) <= Len(s) /\ SubSeq(s, 1, n) = SubSeq(s, 1, Len(SubSeq(s, 1, n)))
<1>1. Len(SubSeq(s, 1, n)) = n /\ n <= Len(s)
  OBVIOUS
<1> QED
  BY <1>1, Zenon

LEMMA LeastTwo ==
  ASSUME NEW a \in Int, NEW b \in Int
  PROVE  Least({a, b}) \in {a, b} /\ Least({a, b}) <= a /\ Least({a, b}) <= b
<1>1. \E x \in {a, b} : \A y \in {a, b} : x <= y
  OBVIOUS
<1> QED
  BY <1>1, Zenon DEF Least

LEMMA LeastThree ==
  ASSUME NEW a \in Int, NEW b \in Int, NEW c \in Int
  PROVE  Least({a, b, c}) \in Int /\ Least({a, b, c}) <= b
<1>1. \E x \in {a, b, c} : \A y \in {a, b, c} : x <= y
  OBVIOUS
<1> QED
  BY <1>1, Zenon DEF Least

LEMMA BlankAtEnd ==
  ASSUME NEW s \in Seq(Bytes), EndsBlank(s)
  PROVE  Blank(s)
<1>1. Len(s) - 1 \in 1 .. Len(s) - 1 /\ SubSeq(s, Len(s) - 1, Len(s)) = <<"nl", "nl">>
  BY DEF EndsBlank
<1>2. SubSeq(s, Len(s) - 1, Len(s))[1] = s[Len(s) - 1] /\ SubSeq(s, Len(s) - 1, Len(s))[2] = s[Len(s)]
  BY <1>1
<1>3. <<"nl", "nl">>[1] = "nl" /\ <<"nl", "nl">>[2] = "nl" /\ (Len(s) - 1) + 1 = Len(s)
  OBVIOUS
<1>4. s[Len(s) - 1] = "nl" /\ s[(Len(s) - 1) + 1] = "nl"
  BY <1>1, <1>2, <1>3, Zenon
<1> QED
  BY <1>1, <1>4, Zenon DEF Blank

-----------------------------------------------------------------------------
LEMMA StreamStart == ProxyInit => StreamInv
<1> SUFFICES ASSUME ProxyInit PROVE StreamInv
  BY Zenon
<1>1. req \in Seq(Bytes)
  BY StreamSeq, Zenon DEF ProxyInit
<1>2. Pre(0) = <<>>
  BY <1>1 DEF Pre
<1>3. StreamType
  <2>1. <<>> \in Seq(Bytes) /\ Len(req) \in Nat
    BY <1>1
  <2>2. px = "head" /\ total = 0 /\ buf = <<>> /\ acc = <<>> /\ sent = 0 /\ got = 0
    BY Zenon DEF ProxyInit
  <2>3. req \in Streams /\ uring \in BOOLEAN /\ eof = FALSE /\ short = FALSE /\ over = FALSE
    BY Zenon DEF ProxyInit
  <2>4. uring \in BOOLEAN /\ eof \in BOOLEAN /\ short \in BOOLEAN /\ over \in BOOLEAN
    BY <2>3, Zenon
  <2>5. sent \in 0 .. Len(req) /\ got \in 0 .. sent /\ total \in Nat
    BY <2>1, <2>2
  <2> QED
    BY <2>1, <2>2, <2>3, <2>4, <2>5, Zenon DEF StreamType
<1>4. HeadInv
  BY <1>2 DEF ProxyInit, HeadInv
<1>5. CopyInv
  BY Zenon DEF ProxyInit, CopyInv
<1> QED
  BY <1>3, <1>4, <1>5, Zenon DEF StreamInv

LEMMA ReadHeadKeeps ==
  ASSUME StreamInv, ReadHead
  PROVE  StreamInv'
<1> USE DEF StreamInv
<1> DEFINE cap == IF uring THEN MAX_HEAD - Len(acc) ELSE Chunk
           most == Least({Chunk, Avail, cap})
<1>1. req \in Seq(Bytes) /\ {Chunk, MAX_HEAD} \subseteq Nat
  BY StreamSeq, ProxyAssumption, Zenon DEF StreamType
<1>2. PICK n \in 1 .. most : /\ acc' = TakeHead(n) /\ got' = got + n /\ over' = (Len(acc) + n > MAX_HEAD)
                             /\ px' = IF HeadEnds(acc') \/ Len(acc') = MAX_HEAD THEN "route" ELSE "head"
  BY Zenon DEF ReadHead
<1>3. most \in Int /\ most <= Avail
  <2>1. cap \in Int /\ Avail \in Int /\ Chunk \in Int
    BY <1>1, SMTT(30) DEF StreamType, Avail
  <2> HIDE DEF cap
  <2> QED
    BY <2>1, LeastThree, Zenon
<1> HIDE DEF most
<1>4. n \in Nat /\ got + n \in 0 .. sent /\ got + n \in 0 .. Len(req) /\ got \in 0 .. Len(req) /\ n \in 0 .. (Len(req) - got)
  BY <1>1, <1>3, SMTT(30) DEF StreamType, Avail
<1>5. UNCHANGED <<uring, req, sent, eof, buf, out, total, short, cut>> /\ px = "head"
  BY Zenon DEF ReadHead
<1>6. acc = Pre(got) /\ Len(acc) = got
  BY <1>5, Zenon DEF HeadInv
<1>7. acc \o SubSeq(req, got + 1, got + n) = Pre(got + n) /\ Len(Pre(got + n)) = got + n
  <2>1. Pre(got) \o SubSeq(req, got + 1, got + n) = Pre(got + n)
    BY <1>1, <1>4, PrefixGrows, ZenonT(60) DEF Pre
  <2>2. Len(Pre(got + n)) = got + n
    BY <1>1, <1>4, PrefixFacts, ZenonT(60) DEF Pre
  <2> QED
    BY <1>6, <2>1, <2>2, Zenon
<1> DEFINE k == Least({got + n, MAX_HEAD})
<1>8. /\ k \in {got + n, MAX_HEAD} /\ k \in 0 .. (got + n) /\ k \in 0 .. Len(req)
      /\ (got + n > MAX_HEAD <=> k # got + n) /\ (k # MAX_HEAD => k = got + n)
  <2>1. got + n \in Int /\ MAX_HEAD \in Int
    BY <1>1, <1>4
  <2>2. k \in {got + n, MAX_HEAD} /\ k <= got + n /\ k <= MAX_HEAD
    BY <2>1, LeastTwo, Zenon
  <2> HIDE DEF k
  <2> QED
    BY <1>1, <1>4, <2>2, SMTT(30)
<1>9. acc' = SubSeq(Pre(got + n), 1, k)
  BY <1>2, <1>7, Zenon DEF TakeHead
<1> HIDE DEF k
<1>10. acc' = Pre(k) /\ Len(acc') = k /\ acc' \in Seq(Bytes)
  BY <1>1, <1>4, <1>8, <1>9, PrefixAgain, PrefixFacts DEF Pre
<1>11. (over' <=> k # got + n) /\ (px' = "head" => k = got + n)
  <2>1. over' = (got + n > MAX_HEAD)
    BY <1>2, <1>6, Zenon
  <2>2. over' <=> k # got + n
    BY <1>8, <2>1, Zenon
  <2>3. px' = "head" => Len(acc') # MAX_HEAD
    BY <1>2, Zenon
  <2> QED
    BY <1>8, <1>10, <2>2, <2>3, Zenon
<1>12. StreamType'
  <2>1. over' \in BOOLEAN
    BY <1>2
  <2> QED
    BY <1>2, <1>4, <1>5, <1>10, <2>1, Zenon DEF StreamType
<1>13. px' = "route" => Blank(acc') \/ Len(acc') = MAX_HEAD
  BY <1>2, <1>10, BlankAtEnd, Zenon DEF HeadEnds
<1>14. \A i : Pre(i)' = Pre(i)
  BY <1>5, Zenon DEF Pre
<1>15. HeadInv'
  <2>1. px' \in {"head", "route"} /\ (px' = "head" => ~over')
    BY <1>2, <1>11, Zenon
  <2>2. acc' = Pre(Len(acc))' /\ (~over' => Len(acc') = got')
    BY <1>2, <1>10, <1>11, <1>14, Zenon
  <2>3. total' = 0 /\ out' = <<>>
    BY <1>5, Zenon DEF HeadInv
  <2>4. Blank(acc)' <=> Blank(acc')
    BY Zenon DEF Blank
  <2>5. Len(acc') <= got'
    BY <1>2, <1>4, <1>8, <1>10
  <2> QED
    BY <1>13, <2>1, <2>2, <2>3, <2>4, <2>5, Zenon DEF HeadInv
<1>16. CopyInv'
  BY <1>2, Zenon DEF CopyInv
<1> QED
  BY <1>12, <1>15, <1>16, Zenon

LEMMA ForwardKeeps ==
  ASSUME StreamInv, ReadHeadEof \/ ReadHeadFails \/ ForwardHead \/ ForwardFails
  PROVE  StreamInv'
<1> USE DEF StreamInv
<1>1. UNCHANGED <<uring, req, sent, eof, acc, got, buf, total, short, over>>
  BY Zenon DEF ReadHeadEof, ReadHeadFails, ForwardHead, ForwardFails
<1>2. (\A i : Pre(i)' = Pre(i)) /\ (Blank(acc)' <=> Blank(acc))
  BY <1>1, Zenon DEF Pre, Blank
<1>3. req \in Seq(Bytes)
  BY StreamSeq, Zenon DEF StreamType
<1>4. CASE ReadHeadEof
  <2>1. px = "head" /\ px' = "route" /\ eof /\ got = sent /\ out' = out /\ cut' = cut
    BY <1>4 DEF ReadHeadEof, Avail, StreamType
  <2>2. StreamType' /\ CopyInv'
    BY <1>1, <2>1, Zenon DEF StreamType, CopyInv
  <2>3. HeadInv'
    BY <1>1, <1>2, <2>1, Zenon DEF HeadInv
  <2> QED
    BY <2>2, <2>3, Zenon
<1>5. CASE ForwardHead
  <2>1. px = "route" /\ px' = "copy" /\ out' = acc /\ cut' = cut
    BY <1>5, Zenon DEF ForwardHead
  <2>2. StreamType'
    BY <1>1, <2>1, Zenon DEF StreamType
  <2>3. HeadInv'
    BY <1>1, <1>2, <2>1, Zenon DEF HeadInv
  <2>4. CopyInv'
    BY <1>1, <1>2, <2>1 DEF HeadInv, CopyInv, Copied, StreamType
  <2> QED
    BY <2>2, <2>3, <2>4, Zenon
<1>6. CASE ForwardFails
  <2>1. px = "route" /\ px' = "failed" /\ cut' = cut
    BY <1>6, Zenon DEF ForwardFails
  <2>2. StreamType'
    BY <1>1, <2>1, Zenon DEF StreamType
  <2>3. HeadInv'
    BY <1>1, <1>2, <2>1, Zenon DEF HeadInv
  <2>4. PICK w \in 0 .. Len(acc) : out' = SubSeq(acc, 1, w)
    BY <1>6, Zenon DEF ForwardFails
  <2>5. Len(acc) \in 0 .. Len(req) /\ acc = SubSeq(req, 1, Len(acc))
    <3>1. acc = Pre(Len(acc)) /\ Len(acc) <= got
      BY Zenon DEF HeadInv
    <3>2. Len(acc) \in Nat /\ got \in 0 .. sent /\ sent \in 0 .. Len(req) /\ Len(req) \in Nat
      BY <1>3 DEF StreamType
    <3>3. Len(acc) \in 0 .. Len(req)
      BY <3>1, <3>2
    <3> QED
      BY <3>1, <3>3, Zenon DEF Pre
  <2>6. SubSeq(SubSeq(req, 1, Len(acc)), 1, w) = Pre(w)
    BY <1>3, <2>5, PrefixAgain, Zenon DEF Pre
  <2>7. w \in 0 .. Len(req)
    BY <1>3, <2>5
  <2>8. Written'
    BY <1>1, <1>2, <2>4, <2>5, <2>6, <2>7, Zenon DEF Written
  <2>9. CopyInv'
    BY <2>1, <2>8, Zenon DEF CopyInv
  <2> QED
    BY <2>2, <2>3, <2>9, Zenon
<1>7. CASE ReadHeadFails
  <2>1. px = "head" /\ out' = out /\ (px' = "failed" \/ (px' = "route" /\ "head" \in cut'))
    BY <1>7, Zenon DEF ReadHeadFails
  <2>2. StreamType'
    BY <1>1, <2>1, Zenon DEF StreamType
  <2>3. HeadInv'
    BY <1>1, <1>2, <2>1, Zenon DEF HeadInv
  <2>4. Written'
    <3>1. Pre(0) = <<>> /\ 0 \in 0 .. Len(req)
      BY <1>3 DEF Pre
    <3> QED
      BY <1>1, <1>2, <2>1, <3>1, Zenon DEF HeadInv, Written
  <2>5. CopyInv'
    BY <2>1, <2>4, Zenon DEF CopyInv
  <2> QED
    BY <2>2, <2>3, <2>5, Zenon
<1> QED
  BY <1>4, <1>5, <1>6, <1>7, Zenon

LEMMA CopyReadKeeps ==
  ASSUME StreamInv, CopyRead
  PROVE  StreamInv'
<1> USE DEF StreamInv
<1> DEFINE cap == IF uring THEN MaxCopy - total ELSE Chunk
           most == Least({Chunk, Avail, cap})
<1>1. req \in Seq(Bytes) /\ {Chunk, MaxCopy} \subseteq Nat
  BY StreamSeq, ProxyAssumption, Zenon DEF StreamType
<1>2. PICK n \in 1 .. most : buf' = SubSeq(req, got + 1, got + n) /\ got' = got + n
  BY Zenon DEF CopyRead
<1>3. most \in Int /\ most <= Avail
  <2>1. cap \in Int /\ Avail \in Int /\ Chunk \in Int
    BY <1>1, SMTT(30) DEF StreamType, Avail
  <2> HIDE DEF cap
  <2> QED
    BY <2>1, LeastThree, Zenon
<1> HIDE DEF most
<1>4. n \in Nat /\ got + n \in 0 .. sent /\ got \in 0 .. Len(req) /\ n \in 0 .. (Len(req) - got)
  BY <1>1, <1>3, SMTT(30) DEF StreamType, Avail
<1>5. UNCHANGED <<uring, req, sent, eof, acc, out, total, short, over, cut>> /\ px = "copy" /\ px' = "write"
  BY Zenon DEF CopyRead
<1>6. buf' \in Seq(Bytes) /\ Len(buf') = n
  BY <1>1, <1>2, <1>4, PrefixGrows, SMTT(30)
<1>7. (\A i : Pre(i)' = Pre(i)) /\ (Blank(acc)' <=> Blank(acc))
  BY <1>5, Zenon DEF Pre, Blank
<1>8. StreamType'
  BY <1>2, <1>4, <1>5, <1>6, Zenon DEF StreamType
<1>9. HeadInv'
  BY <1>2, <1>4, <1>5, <1>7, SMTT(30) DEF HeadInv, StreamType
<1>10. CopyInv'
  <2>1. ~short /\ ~over => got = Len(acc) + total /\ out = Pre(Len(acc) + total)
    BY <1>5, Zenon DEF CopyInv, Copied
  <2>2. ~short /\ ~over => buf' = SubSeq(req, Len(acc) + total + 1, got')
    BY <1>2, <2>1, Zenon
  <2>3. ~short /\ ~over => Len(acc) + total + Len(buf') = got'
    BY <1>2, <1>6, <2>1, Zenon
  <2> QED
    BY <1>5, <1>7, <2>1, <2>2, <2>3, Zenon DEF CopyInv
<1> QED
  BY <1>8, <1>9, <1>10, Zenon

LEMMA CopyWriteKeeps ==
  ASSUME StreamInv, CopyWrite
  PROVE  StreamInv'
<1> USE DEF StreamInv
<1>1. req \in Seq(Bytes)
  BY StreamSeq, Zenon DEF StreamType
<1>2. PICK w \in IF uring THEN 0 .. Len(buf) ELSE {Len(buf)} :
        out' = out \o SubSeq(buf, 1, w) /\ short' = (short \/ w < Len(buf))
  BY Zenon DEF CopyWrite
<1>3. /\ UNCHANGED <<uring, req, sent, eof, acc, got, over, cut>> /\ px = "write" /\ px' = "copy"
      /\ total' = total + Len(buf) /\ buf' = <<>>
  BY Zenon DEF CopyWrite
<1>4. (\A i : Pre(i)' = Pre(i)) /\ (Blank(acc)' <=> Blank(acc))
  BY <1>3, Zenon DEF Pre, Blank
<1>5. Len(buf) \in Nat /\ w \in 0 .. Len(buf)
  BY <1>2 DEF StreamType
<1>6. StreamType'
  BY <1>2, <1>3, <1>5 DEF StreamType
<1>7. HeadInv'
  BY <1>3, <1>4, Zenon DEF HeadInv
<1>8. CopyInv'
  <2> SUFFICES ASSUME ~short', ~over' PROVE got' = Len(acc') + total' /\ out' = Pre(got)'
    BY <1>3, Zenon DEF CopyInv, Copied
  <2>1. ~short /\ ~over /\ w = Len(buf)
    <3>1. ~over /\ ~short /\ ~(w < Len(buf))
      BY <1>2, <1>3, Zenon
    <3> QED
      BY <1>5, <3>1
  <2> DEFINE m == Len(acc) + total
  <2>2. m + Len(buf) = got /\ out = Pre(m) /\ buf = SubSeq(req, m + 1, got)
    BY <1>3, <2>1, Zenon DEF CopyInv
  <2>3. m \in Nat /\ m \in 0 .. Len(req) /\ Len(buf) \in 0 .. (Len(req) - m)
    <3>1. Len(acc) \in Nat /\ total \in Nat /\ got \in 0 .. sent /\ sent \in 0 .. Len(req) /\ Len(req) \in Nat
      BY <1>1 DEF StreamType
    <3>2. m \in Nat
      BY <3>1
    <3> HIDE DEF m
    <3> QED
      BY <1>5, <2>2, <3>1, <3>2
  <2>4. SubSeq(buf, 1, w) = buf
    BY <2>1 DEF StreamType
  <2> HIDE DEF m
  <2>5. Pre(m) \o SubSeq(req, m + 1, m + Len(buf)) = Pre(m + Len(buf))
    BY <1>1, <2>3, PrefixGrows, ZenonT(60) DEF Pre
  <2>6. out' = Pre(got)
    BY <1>2, <2>2, <2>4, <2>5, Zenon
  <2>7. got = Len(acc) + (total + Len(buf))
    <3>1. Len(acc) \in Nat /\ total \in Nat
      BY DEF StreamType
    <3>2. m + Len(buf) = got
      BY <2>2, Zenon
    <3> QED
      BY <1>5, <3>1, <3>2 DEF m
  <2> QED
    BY <1>3, <1>4, <2>6, <2>7, Zenon
<1> QED
  BY <1>6, <1>7, <1>8, Zenon

LEMMA CopyFailsKeeps ==
  ASSUME StreamInv, CopyReadFails \/ CopyWriteFails
  PROVE  StreamInv'
<1> USE DEF StreamInv
<1>1. UNCHANGED <<uring, req, sent, eof, acc, got, buf, total, short, over>>
  BY Zenon DEF CopyReadFails, CopyWriteFails
<1>2. (\A i : Pre(i)' = Pre(i)) /\ (Blank(acc)' <=> Blank(acc))
  BY <1>1, Zenon DEF Pre, Blank
<1>3. req \in Seq(Bytes)
  BY StreamSeq, Zenon DEF StreamType
<1>4. px \in {"copy", "write"} /\ px' \in {"done", "failed"} /\ (px' = "done" => "copy" \in cut')
  BY Zenon DEF CopyReadFails, CopyWriteFails
<1>5. "head" \notin cut' => "head" \notin cut
  BY Zenon DEF CopyReadFails, CopyWriteFails
<1>6. StreamType'
  BY <1>1, <1>4, Zenon DEF StreamType
<1>7. HeadInv'
  BY <1>1, <1>2, <1>4, <1>5, Zenon DEF HeadInv
<1>8. ASSUME ~short, ~over PROVE Written'
  <2>1. CASE CopyReadFails
    <3>1. got \in 0 .. Len(req)
      BY <1>3 DEF StreamType
    <3>2. out' = out /\ out = Pre(got)
      BY <1>8, <2>1, Zenon DEF CopyReadFails, CopyInv, Copied
    <3> QED
      BY <1>1, <1>2, <3>1, <3>2, Zenon DEF Written
  <2>2. CASE CopyWriteFails
    <3> DEFINE m == Len(acc) + total
    <3>1. m + Len(buf) = got /\ out = Pre(m) /\ buf = SubSeq(req, m + 1, got)
      BY <1>8, <2>2, Zenon DEF CopyWriteFails, CopyInv
    <3>2. m \in 0 .. Len(req) /\ Len(buf) \in 0 .. (Len(req) - m)
      <4>1. /\ Len(acc) \in Nat /\ total \in Nat /\ got \in 0 .. sent /\ sent \in 0 .. Len(req) /\ Len(req) \in Nat
            /\ Len(buf) \in Nat
        BY <1>3 DEF StreamType
      <4>2. m \in Nat
        BY <4>1
      <4> HIDE DEF m
      <4> QED
        BY <3>1, <4>1, <4>2
    <3>3. out' = out \/ \E w \in 0 .. Len(buf) : out' = out \o SubSeq(buf, 1, w)
      BY <2>2, Zenon DEF CopyWriteFails
    <3> HIDE DEF m
    <3>4. CASE out' = out
      BY <1>1, <1>2, <3>1, <3>2, <3>4, Zenon DEF Written
    <3>5. ASSUME NEW w \in 0 .. Len(buf), out' = out \o SubSeq(buf, 1, w) PROVE Written'
      <4> DEFINE l == Len(buf)
      <4>1. buf = SubSeq(req, m + 1, m + l) /\ l \in 0 .. (Len(req) - m) /\ w \in 0 .. l
        BY <3>1, <3>2, <3>5, Zenon
      <4> HIDE DEF l
      <4>2. SubSeq(SubSeq(req, m + 1, m + l), 1, w) = SubSeq(req, m + 1, m + w) /\ m + w \in 0 .. Len(req) /\ w \in 0 .. (Len(req) - m)
        BY <1>3, <3>2, <4>1, PiecePrefix, ZenonT(60)
      <4>3. Pre(m) \o SubSeq(req, m + 1, m + w) = Pre(m + w)
        BY <1>3, <3>2, <4>2, PrefixGrows, ZenonT(60) DEF Pre
      <4> QED
        BY <1>1, <1>2, <3>1, <3>5, <4>1, <4>2, <4>3, Zenon DEF Written
    <3> QED
      BY <3>3, <3>4, <3>5, Zenon
  <2> QED
    BY <2>1, <2>2, Zenon
<1>9. CopyInv'
  BY <1>1, <1>4, <1>8, Zenon DEF CopyInv
<1> QED
  BY <1>6, <1>7, <1>9, Zenon

LEMMA RestKeeps ==
  ASSUME StreamInv, CopyEnds \/ ClientSends \/ ClientCloses \/ UNCHANGED proxyVars
  PROVE  StreamInv'
<1> USE DEF StreamInv
<1>1. UNCHANGED <<uring, req, acc, got, buf, out, total, short, over>>
  BY Zenon DEF CopyEnds, ClientSends, ClientCloses, proxyVars
<1>2. (\A i : Pre(i)' = Pre(i)) /\ (Blank(acc)' <=> Blank(acc))
  BY <1>1, Zenon DEF Pre, Blank
<1>3. CASE CopyEnds
  <2>1. px = "copy" /\ px' = "done" /\ UNCHANGED <<sent, eof, cut>> /\ ((eof /\ got = sent) \/ (uring /\ total >= MaxCopy))
    BY <1>3 DEF CopyEnds, Avail, StreamType
  <2>2. StreamType'
    BY <1>1, <2>1, Zenon DEF StreamType
  <2>3. HeadInv'
    BY <1>1, <1>2, <2>1, Zenon DEF HeadInv
  <2>4. ~short /\ ~over => Copied' /\ Written'
    <3>1. got \in 0 .. Len(req)
      BY StreamSeq DEF StreamType
    <3> QED
      BY <1>1, <1>2, <2>1, <3>1, Zenon DEF CopyInv, Copied, Written
  <2>5. CopyInv'
    BY <1>1, <2>1, <2>4, Zenon DEF CopyInv
  <2> QED
    BY <2>2, <2>3, <2>5, Zenon
<1>4. CASE ClientSends \/ ClientCloses \/ UNCHANGED proxyVars
  <2>1. px' = px /\ cut' = cut /\ (eof' = eof \/ eof') /\ (sent' = sent \/ (sent' = sent + 1 /\ ~eof /\ sent < Len(req)))
    BY <1>4, Zenon DEF ClientSends, ClientCloses, proxyVars
  <2>2. eof' \in BOOLEAN
    BY <1>4, Zenon DEF ClientSends, ClientCloses, proxyVars, StreamType
  <2>3. StreamType'
    BY <1>1, <2>1, <2>2, StreamSeq, SMTT(30) DEF StreamType
  <2>4. HeadInv'
    BY <1>1, <1>2, <2>1 DEF HeadInv
  <2>5. CopyInv'
    BY <1>1, <1>2, <2>1 DEF CopyInv, Copied, Written
  <2> QED
    BY <2>3, <2>4, <2>5, Zenon
<1> QED
  BY <1>3, <1>4, Zenon

LEMMA StreamStep == StreamInv /\ [ProxyNext]_proxyVars => StreamInv'
  BY ReadHeadKeeps, ForwardKeeps, CopyReadKeeps, CopyWriteKeeps, CopyFailsKeeps, RestKeeps, Zenon DEF ProxyNext

(* The backend gets the client's stream in order and without a gap, for    *)
(* any stream, any split of it over reads and writes and any that fail.    *)
THEOREM StreamDelivered == ProxySpec => []StreamIntact
<1>1. StreamInv => StreamIntact
  <2> SUFFICES ASSUME StreamInv, ~short, ~over
               PROVE  /\ Len(out) <= Len(req) /\ out = SubSeq(req, 1, Len(out))
                      /\ px = "copy" => Len(out) = Len(acc) + total
                      /\ px = "done" /\ "copy" \notin cut => Len(out) = sent \/ (uring /\ total >= MaxCopy)
    BY Zenon DEF StreamIntact
  <2> USE DEF StreamInv
  <2>1. req \in Seq(Bytes)
    BY StreamSeq, Zenon DEF StreamType
  <2>2. \A n \in 0 .. Len(req) : Len(Pre(n)) <= Len(req) /\ Pre(n) = SubSeq(req, 1, Len(Pre(n))) /\ Len(Pre(n)) = n
    BY <2>1, PrefixIs, PrefixFacts, ZenonT(60) DEF Pre
  <2>3. got \in 0 .. Len(req)
    BY <2>1 DEF StreamType
  <2>4. Written
    <3>1. CASE px \in {"head", "route"}
      <4>1. Pre(0) = <<>> /\ 0 \in 0 .. Len(req)
        BY <2>1 DEF Pre
      <4> QED
        BY <3>1, <4>1, Zenon DEF HeadInv, Written
    <3>2. CASE px = "copy"
      BY <2>3, <3>2, Zenon DEF CopyInv, Copied, Written
    <3>3. CASE px = "write"
      <4>1. Len(acc) + total \in 0 .. Len(req)
        BY <2>1, <3>3 DEF CopyInv, StreamType
      <4> QED
        BY <3>3, <4>1, Zenon DEF CopyInv, Written
    <3>4. CASE px \in {"failed", "done"}
      BY <3>4, Zenon DEF CopyInv
    <3> QED
      BY <3>1, <3>2, <3>3, <3>4, Zenon DEF StreamType
  <2>5. Len(out) <= Len(req) /\ out = SubSeq(req, 1, Len(out))
    BY <2>2, <2>4, Zenon DEF Written
  <2>6. Copied => Len(out) = got
    BY <2>2, <2>3, Zenon DEF Copied
  <2> QED
    BY <2>5, <2>6, Zenon DEF CopyInv, Copied
<1> QED
  BY <1>1, StreamStart, StreamStep, PTL DEF ProxySpec

-----------------------------------------------------------------------------
(* Classification *)

(* Two sets of positions with the same least element. *)
LEMMA LeastIs ==
  ASSUME NEW T, T \subseteq Nat, T # {}
  PROVE  Least(T) \in T /\ \A y \in T : Least(T) <= y
  BY LeastNat, Zenon DEF Least

LEMMA LeastAgree ==
  ASSUME NEW T, NEW U, T \subseteq U, U \subseteq Nat, T # {},
         \A u \in U : u \in T \/ \E t \in T : t <= u
  PROVE  Least(T) = Least(U)
<1>1. T \subseteq Nat /\ U # {}
  BY Zenon
<1>2. Least(T) \in T /\ \A y \in T : Least(T) <= y
  BY <1>1, LeastIs, Zenon
<1>3. Least(U) \in U /\ \A y \in U : Least(U) <= y
  BY <1>1, LeastIs, Zenon
<1>4. Least(U) <= Least(T)
  BY <1>2, <1>3, Zenon
<1>5. Least(T) <= Least(U)
  <2>1. CASE Least(U) \in T
    BY <1>2, <2>1, Zenon
  <2>2. CASE Least(U) \notin T
    <3>1. PICK t \in T : t <= Least(U)
      BY <1>3, <2>2, Zenon
    <3>2. Least(T) <= t /\ Least(T) \in Nat /\ Least(U) \in Nat /\ t \in Nat
      BY <1>1, <1>2, <1>3, Zenon
    <3> QED
      BY <3>1, <3>2
  <2> QED
    BY <2>1, <2>2, Zenon
<1>6. Least(T) \in Nat /\ Least(U) \in Nat
  BY <1>1, <1>2, <1>3, Zenon
<1> QED
  BY <1>4, <1>5, <1>6

(* A header named before a line end reads the same in two prefixes of a    *)
(* stream that both have that line end.                                    *)
LEMMA SameValue ==
  ASSUME NEW s \in Seq(Bytes), NEW n \in 0 .. Len(s), NEW m \in n .. Len(s), NEW name, name # "nl",
         NEW k \in 1 .. n, s[k] = "nl", \E j \in 1 .. k : s[j] = name
  PROVE  header_value_ci(SubSeq(s, 1, n), name) = header_value_ci(SubSeq(s, 1, m), name)
<1> DEFINE p == SubSeq(s, 1, n)
           q == SubSeq(s, 1, m)
           I(h) == {i \in 1 .. Len(h) : h[i] = name}
           named == {i \in 1 .. k : s[i] = name}
           i == Least(named)
           rp == SubSeq(p, i + 1, n)
           rq == SubSeq(q, i + 1, m)
           E(r) == {j \in 1 .. Len(r) : r[j] = "nl"}
<1>1. /\ m \in 0 .. Len(s) /\ n \in Nat /\ m \in Nat /\ k \in Nat /\ k <= n /\ n <= m /\ k >= 1
      /\ Len(s) \in Nat /\ m <= Len(s)
  OBVIOUS
<1>2. p \in Seq(Bytes) /\ Len(p) = n /\ \A j \in 1 .. n : p[j] = s[j]
  BY PrefixFacts, Zenon
<1>3. q \in Seq(Bytes) /\ Len(q) = m /\ \A j \in 1 .. m : q[j] = s[j]
  BY <1>1, PrefixFacts, Zenon
<1> HIDE DEF p, q
<1>4. named \subseteq I(p) /\ I(p) \subseteq Nat /\ \A u \in I(p) : u \in named \/ k <= u
  BY <1>1, <1>2, SMTT(30)
<1>5. named \subseteq I(q) /\ I(q) \subseteq Nat /\ \A u \in I(q) : u \in named \/ k <= u
  BY <1>1, <1>3, SMTT(30)
<1>6. named # {} /\ named \subseteq Nat
  BY <1>1, SMTT(30)
<1>7. i \in 1 .. k /\ s[i] = name /\ \A y \in named : i <= y
  BY <1>6, LeastIs, Zenon
<1>8. i \in Nat /\ i < k /\ \A u \in Nat : k <= u => i <= u
  <2>1. i # k
    BY <1>7, Zenon
  <2> HIDE DEF i, named
  <2> QED
    BY <1>1, <1>7, <2>1, SMTT(30)
<1>9. Least(I(p)) = i /\ Least(I(q)) = i
  <2>1. \A u \in I(p) : u \in named \/ \E t \in named : t <= u
    <3>1. i \in named
      BY <1>6, LeastIs, Zenon
    <3> HIDE DEF I, i, named
    <3> QED
      BY <1>4, <1>8, <3>1, Zenon
  <2>2. \A u \in I(q) : u \in named \/ \E t \in named : t <= u
    <3>1. i \in named
      BY <1>6, LeastIs, Zenon
    <3> HIDE DEF I, i, named
    <3> QED
      BY <1>5, <1>8, <3>1, Zenon
  <2> HIDE DEF I, named
  <2> QED
    BY <1>4, <1>5, <1>6, <2>1, <2>2, LeastAgree, Zenon DEF i
<1>10. I(p) # {} /\ I(q) # {}
  BY <1>4, <1>5, <1>6, Zenon
<1>11. position(I(p)) = i /\ position(I(q)) = i
  <2>1. /\ position(I(p)) = IF I(p) # {} THEN Least(I(p)) ELSE 0
        /\ position(I(q)) = IF I(q) # {} THEN Least(I(q)) ELSE 0
    BY Zenon DEF position
  <2> HIDE DEF I, i
  <2> QED
    BY <1>9, <1>10, <2>1, Zenon
<1>12. name \in Range(p) /\ name \in Range(q)
  <2>1. DOMAIN p = 1 .. Len(p) /\ DOMAIN q = 1 .. Len(q)
    BY <1>2, <1>3
  <2> QED
    BY <1>10, <2>1, Zenon DEF Range
<1>13. header_value_ci(p, name) = header_value_ci(q, name)
  <2> HIDE DEF i, named
  <2>3. i \in Nat /\ i < k
    BY <1>8
  <2>4. /\ rp \in Seq(Bytes) /\ Len(rp) = n - i /\ \A j \in 1 .. (n - i) : rp[j] = s[i + j]
        /\ rq \in Seq(Bytes) /\ Len(rq) = m - i /\ \A j \in 1 .. (m - i) : rq[j] = s[i + j]
    BY <1>1, <1>2, <1>3, <2>3, SMTT(30)
  <2> HIDE DEF rp, rq
  <2>5. k - i \in E(rp) /\ E(rp) \subseteq E(rq) /\ E(rq) \subseteq Nat
    <3>1. k - i \in 1 .. (n - i) /\ i + (k - i) = k
      BY <1>1, <2>3
    <3>2. rp[k - i] = s[k]
      BY <2>4, <3>1, Zenon
    <3>3. k - i \in E(rp)
      BY <2>4, <3>1, <3>2, Zenon
    <3>4. \A j \in 1 .. (n - i) : j \in 1 .. (m - i) /\ rp[j] = rq[j]
      <4>1. \A j \in 1 .. (n - i) : j \in 1 .. (m - i)
        BY <1>1, <2>3, SMTT(30)
      <4> QED
        BY <2>4, <4>1, Zenon
    <3>5. E(rp) \subseteq E(rq)
      BY <2>4, <3>4, Zenon
    <3>6. E(rq) \subseteq Nat
      BY <1>1, <2>3, <2>4, SMTT(30)
    <3> QED
      BY <3>3, <3>5, <3>6, Zenon
  <2>6. \A u \in E(rq) : u \in E(rp) \/ \E t \in E(rp) : t <= u
    <3> SUFFICES ASSUME NEW u \in E(rq), u \notin E(rp) PROVE k - i <= u
      BY <2>5, Zenon
    <3> QED
      BY <1>1, <2>3, <2>4, SMTT(30)
  <2> DEFINE e == Least(E(rp))
  <2>7. e = Least(E(rq)) /\ e \in E(rp)
    <3> HIDE DEF E
    <3>1. E(rp) # {} /\ E(rp) \subseteq Nat
      BY <2>5, Zenon
    <3>2. Least(E(rp)) = Least(E(rq))
      BY <2>5, <2>6, <3>1, LeastAgree, Zenon
    <3> QED
      BY <3>1, <3>2, LeastIs, Zenon
  <2>8. position(E(rp)) = e /\ position(E(rq)) = e
    <3>1. /\ position(E(rp)) = IF E(rp) # {} THEN Least(E(rp)) ELSE 0
          /\ position(E(rq)) = IF E(rq) # {} THEN Least(E(rq)) ELSE 0
      BY Zenon DEF position
    <3>2. E(rp) # {} /\ E(rq) # {}
      BY <2>5, Zenon
    <3> HIDE DEF E
    <3> QED
      BY <2>7, <3>1, <3>2, Zenon
  <2>9. e \in 1 .. (n - i)
    BY <2>4, <2>7, Zenon
  <2> HIDE DEF e
  <2>10. SubSeq(rp, 1, e - 1) = SubSeq(rq, 1, e - 1)
    <3> DEFINE a == SubSeq(rp, 1, e - 1)
               b == SubSeq(rq, 1, e - 1)
    <3>1. /\ e - 1 \in 0 .. Len(rp) /\ e - 1 \in 0 .. Len(rq)
          /\ \A j \in 1 .. (e - 1) : j \in 1 .. (n - i) /\ j \in 1 .. (m - i)
      BY <1>1, <2>3, <2>4, <2>9, SMTT(30)
    <3>2. a \in Seq(Bytes) /\ Len(a) = e - 1 /\ \A j \in 1 .. (e - 1) : a[j] = rp[j]
      BY <2>4, <3>1, PrefixFacts, Zenon
    <3>3. b \in Seq(Bytes) /\ Len(b) = e - 1 /\ \A j \in 1 .. (e - 1) : b[j] = rq[j]
      BY <2>4, <3>1, PrefixFacts, Zenon
    <3> HIDE DEF a, b
    <3>4. \A j \in 1 .. (e - 1) : a[j] = b[j]
      BY <2>4, <3>1, <3>2, <3>3, ZenonT(60)
    <3>5. a = b
      BY <3>2, <3>3, <3>4, SameSequence, ZenonT(60)
    <3> QED
      BY <3>5, Zenon DEF a, b
  <2>11. e # 0
    BY <1>1, <2>3, <2>9
  <2>12. header_value_ci(p, name) = SubSeq(rp, 1, e - 1)
    BY <1>2, <1>11, <1>12, <2>8, <2>11, Zenon DEF header_value_ci, rp
  <2>13. header_value_ci(q, name) = SubSeq(rq, 1, e - 1)
    BY <1>3, <1>11, <1>12, <2>8, <2>11, Zenon DEF header_value_ci, rq
  <2> QED
    BY <2>10, <2>12, <2>13, Zenon
<1> QED
  BY <1>13, Zenon DEF p, q

(* The head of a stream lies within what was read with its blank line. *)
LEMMA HeadWithin ==
  ASSUME NEW s \in Seq(Bytes), NEW n \in 0 .. Len(s), NEW m \in n .. Len(s), Blank(SubSeq(s, 1, n))
  PROVE  \E h \in 2 .. n : s[h - 1] = "nl" /\ s[h] = "nl" /\ HeadOf(SubSeq(s, 1, m)) = SubSeq(s, 1, h)
<1> DEFINE p == SubSeq(s, 1, n)
           q == SubSeq(s, 1, m)
           blank == {j \in 1 .. Len(q) - 1 : q[j] = "nl" /\ q[j + 1] = "nl"}
           k == Least(blank)
<1>1. m \in 0 .. Len(s) /\ n \in Nat /\ m \in Nat /\ n <= m /\ Len(s) \in Nat /\ m <= Len(s)
  OBVIOUS
<1>2. p \in Seq(Bytes) /\ Len(p) = n /\ \A j \in 1 .. n : p[j] = s[j]
  BY PrefixFacts, Zenon
<1>3. q \in Seq(Bytes) /\ Len(q) = m /\ \A j \in 1 .. m : q[j] = s[j]
  BY <1>1, PrefixFacts, Zenon
<1>4. PICK b \in 1 .. n - 1 : p[b] = "nl" /\ p[b + 1] = "nl"
  BY <1>2, Zenon DEF Blank
<1> HIDE DEF p, q
<1>5. b \in blank /\ blank \subseteq Nat
  <2>1. b \in 1 .. n /\ b + 1 \in 1 .. n /\ b \in 1 .. m /\ b + 1 \in 1 .. m /\ b \in 1 .. m - 1
    BY <1>1
  <2>2. q[b] = "nl" /\ q[b + 1] = "nl"
    BY <1>2, <1>3, <1>4, <2>1, Zenon
  <2> QED
    BY <1>1, <1>3, <2>1, <2>2
<1>6. k \in blank /\ k <= b
  <2> HIDE DEF blank
  <2> QED
    BY <1>5, LeastIs, Zenon
<1>7. k \in 1 .. m - 1 /\ q[k] = "nl" /\ q[k + 1] = "nl"
  BY <1>3, <1>6, Zenon
<1>8. HeadOf(q) = SubSeq(q, 1, k + 1)
  <2>1. HeadOf(q) = IF blank = {} THEN q ELSE SubSeq(q, 1, Least(blank) + 1)
    BY DEF HeadOf
  <2> HIDE DEF blank
  <2> QED
    BY <1>5, <2>1, Zenon
<1> HIDE DEF k
<1>9. k + 1 \in 2 .. n /\ k + 1 \in 0 .. m /\ k + 1 - 1 = k /\ k \in 1 .. m /\ k + 1 \in 1 .. m
  BY <1>1, <1>4, <1>6, <1>7
<1>10. SubSeq(q, 1, k + 1) = SubSeq(s, 1, k + 1)
  BY <1>1, <1>9, PrefixAgain, Zenon DEF q
<1>11. s[k] = "nl" /\ s[k + 1] = "nl"
  BY <1>3, <1>7, <1>9, Zenon
<1> DEFINE h == k + 1
<1>12. h \in 2 .. n /\ h - 1 = k
  BY <1>9
<1>13. s[h] = "nl" /\ HeadOf(q) = SubSeq(s, 1, h)
  BY <1>8, <1>10, <1>11, Zenon
<1>14. s[h - 1] = "nl"
  BY <1>11, <1>12, Zenon
<1> HIDE DEF h
<1> QED
  BY <1>12, <1>13, <1>14, Zenon DEF q

LEMMA SameClass ==
  ASSUME NEW p, NEW q,
         \A name \in Names : /\ header_value_ci(p, name) = header_value_ci(q, name)
                             /\ (name \in Range(p)) <=> (name \in Range(q))
  PROVE  Class(p) = Class(q)
<1>1. is_decode_only(p) = is_decode_only(q)
  BY Zenon DEF is_decode_only, Names
<1>2. estimate_prompt_tokens(p) = estimate_prompt_tokens(q)
  BY Zenon DEF estimate_prompt_tokens, parse_prompt_tokens, parse_path_tokens, Names
<1>3. parse_request_identity(p) = parse_request_identity(q)
  BY Zenon DEF parse_request_identity, Names
<1> QED
  BY <1>1, <1>2, <1>3, Zenon DEF Class

(* A request is classified by its whole head, for any stream and any split *)
(* of it over reads, whatever the bytes behind the blank line spell.       *)
THEOREM HeadsWhole == ProxySpec => []ClassifiedWhole
<1>1. StreamInv => ClassifiedWhole
  <2> DEFINE n == Len(acc)
             head == HeadOf(SubSeq(req, 1, sent))
  <2> SUFFICES ASSUME StreamInv, px \notin {"head", "failed"}, "head" \notin cut, n < MAX_HEAD \/ Blank(acc)
               PROVE  /\ \A name \in Names \intersect Range(head) : header_value_ci(acc, name) = header_value_ci(head, name)
                      /\ Names \intersect Range(acc) \subseteq Range(head) => Class(acc) = Class(head)
    BY DEF ClassifiedWhole
  <2>1. /\ req \in Seq(Bytes) /\ sent \in 0 .. Len(req) /\ got \in 0 .. sent /\ acc \in Seq(Bytes)
    BY StreamSeq, Zenon DEF StreamInv, StreamType
  <2>2. acc = SubSeq(req, 1, n) /\ n <= got /\ (Blank(acc) \/ n = MAX_HEAD \/ n = sent)
    BY Zenon DEF StreamInv, HeadInv, Pre
  <2>3. n \in 0 .. Len(req) /\ sent \in n .. Len(req) /\ (n < MAX_HEAD => n # MAX_HEAD)
    <3>1. n \in Nat /\ Len(req) \in Nat /\ MAX_HEAD \in Nat
      BY <2>1, ProxyAssumption
    <3> HIDE DEF n
    <3> QED
      BY <2>1, <2>2, <3>1
  <2>4. CASE ~Blank(acc)
    <3>1. SubSeq(req, 1, sent) = acc
      BY <2>2, <2>3, <2>4, Zenon
    <3>2. head = acc
      <4>1. {i \in 1 .. Len(acc) - 1 : acc[i] = "nl" /\ acc[i + 1] = "nl"} = {}
        BY <2>4, Zenon DEF Blank
      <4>2. HeadOf(acc) = acc
        BY <4>1 DEF HeadOf
      <4> QED
        BY <3>1, <4>2, Zenon
    <3> QED
      BY <3>2, Zenon
  <2>5. CASE Blank(acc)
    <3> HIDE DEF n
    <3>1. PICK h \in 2 .. n : req[h - 1] = "nl" /\ req[h] = "nl" /\ head = SubSeq(req, 1, h)
      <4>1. Blank(SubSeq(req, 1, n))
        BY <2>2, <2>5, Zenon
      <4>2. req \in Seq(Bytes) /\ n \in 0 .. Len(req) /\ sent \in n .. Len(req)
        BY <2>1, <2>3, Zenon
      <4> QED
        BY ONLY <4>1, <4>2, HeadWithin, ZenonT(60)
    <3>2. h \in 0 .. Len(req) /\ n \in h .. Len(req) /\ h \in 1 .. h
      BY <2>1, <2>3
    <3>3. /\ head \in Seq(Bytes) /\ Len(head) = h /\ \A j \in 1 .. h : head[j] = req[j]
          /\ \A j \in 1 .. n : acc[j] = req[j]
      <4>1. /\ SubSeq(req, 1, h) \in Seq(Bytes) /\ Len(SubSeq(req, 1, h)) = h
            /\ \A j \in 1 .. h : SubSeq(req, 1, h)[j] = req[j]
        BY <2>1, <3>2, PrefixFacts, ZenonT(60)
      <4>2. \A j \in 1 .. n : SubSeq(req, 1, n)[j] = req[j]
        BY <2>1, <2>3, PrefixFacts, ZenonT(60)
      <4> HIDE DEF head
      <4> QED
        BY <2>2, <3>1, <4>1, <4>2, Zenon
    <3> HIDE DEF head
    <3>4. DOMAIN head = 1 .. h /\ DOMAIN acc = 1 .. n /\ \A j \in 1 .. h : j \in 1 .. n
      BY <2>1, <2>3, <3>2, <3>3 DEF n
    <3>5. Range(head) \subseteq Range(acc)
      <4>1. ASSUME NEW j \in 1 .. h PROVE head[j] \in Range(acc)
        <5>1. head[j] = acc[j] /\ j \in DOMAIN acc
          BY <3>3, <3>4, Zenon
        <5> QED
          BY <5>1, Zenon DEF Range
      <4> QED
        BY <3>4, <4>1, Zenon DEF Range
    <3>6. ASSUME NEW name \in Names, name \in Range(head)
          PROVE  header_value_ci(acc, name) = header_value_ci(head, name)
      <4>1. name # "nl"
        BY Zenon DEF Names
      <4>2. \E j \in 1 .. h : req[j] = name
        BY <3>3, <3>4, <3>6, Zenon DEF Range
      <4>3. header_value_ci(SubSeq(req, 1, h), name) = header_value_ci(SubSeq(req, 1, n), name)
        <5>1. req \in Seq(Bytes) /\ h \in 0 .. Len(req) /\ n \in h .. Len(req) /\ h \in 1 .. h /\ req[h] = "nl"
          BY <2>1, <3>1, <3>2, Zenon
        <5> QED
          BY ONLY <4>1, <4>2, <5>1, SameValue, ZenonT(60)
      <4> QED
        BY <2>2, <3>1, <4>3, Zenon
    <3>7. ASSUME NEW name \in Names, name \notin Range(head), name \notin Range(acc)
          PROVE  header_value_ci(acc, name) = header_value_ci(head, name)
      BY <3>7, Zenon DEF header_value_ci
    <3>8. ASSUME Names \intersect Range(acc) \subseteq Range(head) PROVE Class(acc) = Class(head)
      <4>1. \A name \in Names : /\ header_value_ci(acc, name) = header_value_ci(head, name)
                                /\ (name \in Range(acc)) <=> (name \in Range(head))
        BY <3>5, <3>6, <3>7, <3>8, Zenon
      <4> QED
        BY <4>1, SameClass, Zenon
    <3> QED
      BY <3>6, <3>8, Zenon
  <2> QED
    BY <2>4, <2>5, Zenon
<1> QED
  BY <1>1, StreamStart, StreamStep, PTL DEF ProxySpec

-----------------------------------------------------------------------------
(* Hand-off log *)

LEMMA GreatestUpTo ==
  ASSUME NEW n \in Nat, NEW T, T \subseteq 0 .. n, T # {}
  PROVE  \E x \in T : \A y \in T : y <= x
<1> DEFINE U == {k \in Nat : n - k \in T}
<1>1. U # {}
  <2>1. PICK t \in T : TRUE
    BY Zenon
  <2>2. n - t \in Nat /\ n - (n - t) = t
    BY <2>1
  <2>3. n - t \in U
    BY <2>1, <2>2, Zenon
  <2> QED
    BY <2>3, Zenon
<1>2. U \subseteq Nat
  BY Zenon
<1>3. PICK u \in U : \A k \in U : u <= k
  <2> HIDE DEF U
  <2> QED
    BY <1>1, <1>2, LeastNat, Zenon
<1>4. u \in Nat /\ n - u \in T
  BY <1>3, Zenon
<1>5. ASSUME NEW y \in T PROVE y <= n - u
  <2>1. y \in Nat /\ n - y \in Nat /\ n - (n - y) = y
    BY <1>5
  <2>2. n - y \in U
    BY <1>5, <2>1, Zenon
  <2>3. u <= n - y
    BY <1>3, <2>2, Zenon
  <2> QED
    BY <1>4, <2>1, <2>3
<1> QED
  BY <1>4, <1>5, Zenon


(* The rings are paired, whoever holds the first lock is the one between   *)
(* its pushes, and the walls are never behind the sizes a reader has.      *)
Follows(sizes, walls) ==
  /\ Len(walls) >= Len(sizes)
  /\ \E n \in 0 .. Len(sizes) : /\ StartsWith(walls, SubSeq(sizes, n + 1, Len(sizes)))
                                /\ n > 0 => Len(walls) = TRANSFER_SAMPLES

Ring(s) == s \in Seq(Ids) /\ Len(s) <= TRANSFER_SAMPLES

RingInv ==
  /\ Ring(transfer_bytes) /\ Ring(transfer_wall_us)
  /\ at \in [Ids -> {"prefill", "moved", "sized", "done"}]
  /\ \A id \in Ids : at[id] = "sized" <=> sizesLock = {id}
  /\ sizesLock = {} \/ \E id \in Ids : sizesLock = {id}
  /\ RingsPaired

ReaderInv ==
  /\ reader \in [at : {"idle", "sizes", "walls"}, sizes : Seq(Ids), walls : Seq(Ids)]
  /\ reader.at = "sizes" => Follows(reader.sizes, transfer_wall_us)
  /\ reader.at = "walls" => Follows(reader.sizes, reader.walls)

LEMMA SuffixFacts ==
  ASSUME NEW S, NEW s \in Seq(S), NEW n \in 0 .. Len(s)
  PROVE  LET u == SubSeq(s, n + 1, Len(s))
         IN  u \in Seq(S) /\ Len(u) = Len(s) - n /\ \A i \in 1 .. (Len(s) - n) : u[i] = s[n + i]
  BY SMTT(30)

LEMMA PrefixPoints ==
  ASSUME NEW S, NEW u \in Seq(S), NEW w \in Seq(S)
  PROVE  StartsWith(w, u) <=> Len(u) <= Len(w) /\ \A i \in 1 .. Len(u) : u[i] = w[i]
  BY Zenon DEF StartsWith

LEMMA PushedRing ==
  ASSUME NEW s, Ring(s), NEW id \in Ids
  PROVE  Ring(Pushed(s, id))
<1>1. CASE Len(s) >= TRANSFER_SAMPLES
  <2>1. Len(s) = TRANSFER_SAMPLES /\ s # <<>>
    BY <1>1, HandoffAssumption DEF Ring
  <2>2. Tail(s) \in Seq(Ids) /\ Len(Tail(s)) = Len(s) - 1
    BY <2>1 DEF Ring
  <2>3. Append(Tail(s), id) \in Seq(Ids) /\ Len(Append(Tail(s), id)) = Len(s)
    BY <2>2 DEF Ring
  <2> QED
    BY <1>1, <2>1, <2>3, Zenon DEF Pushed, Ring
<1>2. CASE ~(Len(s) >= TRANSFER_SAMPLES)
  BY <1>2, HandoffAssumption DEF Pushed, Ring
<1> QED
  BY <1>1, <1>2, Zenon

(* A push keeps the walls ahead, whatever it makes the ring forget. *)
LEMMA PushedFollows ==
  ASSUME NEW sizes \in Seq(Ids), NEW walls, Ring(walls), NEW id \in Ids, Follows(sizes, walls)
  PROVE  Follows(sizes, Pushed(walls, id))
<1> DEFINE m == Len(sizes)
<1>1. PICK n \in 0 .. m : /\ StartsWith(walls, SubSeq(sizes, n + 1, m))
                          /\ n > 0 => Len(walls) = TRANSFER_SAMPLES
  BY Zenon DEF Follows
<1>2. /\ walls \in Seq(Ids) /\ Len(walls) <= TRANSFER_SAMPLES /\ Len(walls) >= m
      /\ TRANSFER_SAMPLES \in Nat /\ m \in Nat /\ TRANSFER_SAMPLES # 0
  BY HandoffAssumption DEF Ring, Follows
<1>3. m - n <= Len(walls) /\ \A i \in 1 .. (m - n) : sizes[n + i] = walls[i]
  <2> DEFINE u == SubSeq(sizes, n + 1, m)
  <2>1. u \in Seq(Ids) /\ Len(u) = m - n /\ \A i \in 1 .. (m - n) : u[i] = sizes[n + i]
    BY SuffixFacts, Zenon
  <2> HIDE DEF u, m
  <2>2. StartsWith(walls, u)
    BY <1>1, Zenon DEF u
  <2>w. walls \in Seq(Ids) /\ u \in Seq(Ids)
    BY <1>2, <2>1, Zenon
  <2>3. Len(u) <= Len(walls) /\ \A i \in 1 .. Len(u) : u[i] = walls[i]
    BY <2>w, <2>2, PrefixPoints, Zenon
  <2> QED
    BY <2>1, <2>3, Zenon
<1>n. n \in Nat /\ n <= m /\ (n > 0 => Len(walls) = TRANSFER_SAMPLES)
  BY <1>1, <1>2
<1> DEFINE pushed == Pushed(walls, id)
<1>4. CASE Len(walls) >= TRANSFER_SAMPLES
  <2>1. Len(walls) = TRANSFER_SAMPLES /\ walls # <<>>
    BY <1>2, <1>4
  <2>2. pushed = Append(Tail(walls), id)
    BY <1>4, Zenon DEF Pushed
  <2>3. /\ pushed \in Seq(Ids) /\ Len(pushed) = Len(walls)
        /\ \A i \in 1 .. Len(walls) - 1 : pushed[i] = walls[i + 1]
    BY <1>2, <2>1, <2>2
  <2> DEFINE k == IF n < m THEN n + 1 ELSE n
  <2>4. k \in 0 .. m
    BY <1>2
  <2>5. \A i \in 1 .. (m - k) : sizes[k + i] = pushed[i]
    <3> HIDE DEF pushed, m
    <3>1. CASE n < m
      <4> SUFFICES ASSUME NEW i \in 1 .. (m - (n + 1)) PROVE sizes[(n + 1) + i] = pushed[i]
        BY <3>1, Zenon
      <4>1. i + 1 \in 1 .. (m - n) /\ i \in 1 .. Len(walls) - 1 /\ n + (i + 1) = (n + 1) + i
        BY <1>2, <1>3, <1>n, <3>1
      <4> QED
        BY <1>3, <2>3, <4>1, Zenon
    <3>2. CASE ~(n < m)
      BY <1>2, <1>n, <3>2, SMTT(30)
    <3> QED
      BY <3>1, <3>2, Zenon
  <2> HIDE DEF k, pushed
  <2>6. StartsWith(pushed, SubSeq(sizes, k + 1, m))
    <3> DEFINE u == SubSeq(sizes, k + 1, m)
    <3>1. u \in Seq(Ids) /\ Len(u) = m - k /\ \A i \in 1 .. (m - k) : u[i] = sizes[k + i]
      BY <2>4, SuffixFacts, Zenon
    <3> HIDE DEF u, m
    <3>2. Len(u) <= Len(pushed) /\ \A i \in 1 .. Len(u) : u[i] = pushed[i]
      <4>1. m - k <= Len(pushed)
        BY <1>2, <2>3, <2>4
      <4> QED
        BY <2>5, <3>1, <4>1, Zenon
    <3>3. StartsWith(pushed, u)
      BY <2>3, <3>1, <3>2, PrefixPoints, Zenon
    <3> QED
      BY <3>3, Zenon DEF u
  <2> QED
    BY <1>2, <2>1, <2>3, <2>4, <2>6, Zenon DEF Follows, pushed
<1>5. CASE ~(Len(walls) >= TRANSFER_SAMPLES)
  <2>1. n = 0
    <3> HIDE DEF m
    <3> QED
      BY <1>2, <1>5, <1>n
  <2>2. pushed = Append(walls, id)
    BY <1>5, Zenon DEF Pushed
  <2>3. /\ pushed \in Seq(Ids) /\ Len(pushed) = Len(walls) + 1
        /\ \A i \in 1 .. Len(walls) : pushed[i] = walls[i]
    BY <1>2, <2>2
  <2> HIDE DEF pushed
  <2>4. StartsWith(pushed, SubSeq(sizes, 0 + 1, m))
    <3> DEFINE u == SubSeq(sizes, 0 + 1, m)
    <3>1. u \in Seq(Ids) /\ Len(u) = m /\ \A i \in 1 .. m : u[i] = sizes[i]
      <4>1. SubSeq(sizes, 1, m) = sizes /\ 0 + 1 = 1
        OBVIOUS
      <4>2. u = sizes
        BY <4>1, Zenon
      <4> QED
        BY <4>2, Zenon
    <3> HIDE DEF u, m
    <3>2. \A i \in 1 .. m : sizes[i] = walls[i]
      BY <1>2, <1>3, <2>1
    <3>l. Len(walls) \in Nat /\ 1 .. m \subseteq 1 .. Len(walls)
      BY <1>2
    <3>3. Len(u) <= Len(pushed) /\ \A i \in 1 .. Len(u) : u[i] = pushed[i]
      <4>1. Len(u) <= Len(pushed)
        BY <1>2, <2>3, <3>1, <3>l
      <4>2. \A i \in 1 .. m : i \in 1 .. Len(walls)
        BY <3>l, Zenon
      <4>3. \A i \in 1 .. m : u[i] = pushed[i]
        BY <2>3, <3>1, <3>2, <4>2, Zenon
      <4> QED
        BY <3>1, <4>1, <4>3, Zenon
    <3>4. StartsWith(pushed, u)
      BY <2>3, <3>1, <3>3, PrefixPoints, Zenon
    <3> QED
      BY <3>4, Zenon DEF u
  <2> QED
    BY <1>2, <2>3, <2>4, SMTT(30) DEF Follows, pushed
<1> QED
  BY <1>4, <1>5, Zenon

LEMMA FollowsItself ==
  ASSUME NEW s \in Seq(Ids)
  PROVE  Follows(s, s)
<1>1. 0 \in 0 .. Len(s) /\ ~(0 > 0) /\ Len(s) >= Len(s)
  OBVIOUS
<1>2. SubSeq(s, 0 + 1, Len(s)) = s /\ StartsWith(s, s)
  BY DEF StartsWith
<1> QED
  BY <1>1, <1>2, Zenon DEF Follows

HandoffInv == RingInv /\ ReaderInv

LEMMA HandoffInitial == HandoffInit => HandoffInv
<1> SUFFICES ASSUME HandoffInit PROVE HandoffInv
  BY Zenon
<1>1. Ring(<<>>)
  BY HandoffAssumption DEF Ring
<1>2. /\ at \in [Ids -> {"prefill", "moved", "sized", "done"}]
      /\ \A id \in Ids : at[id] # "sized" /\ sizesLock # {id}
  BY Zenon DEF HandoffInit
<1>3. reader \in [at : {"idle", "sizes", "walls"}, sizes : Seq(Ids), walls : Seq(Ids)] /\ reader.at = "idle"
  BY DEF HandoffInit
<1>4. RingInv
  BY <1>1, <1>2, Zenon DEF HandoffInit, RingInv, RingsPaired
<1>5. ReaderInv
  BY <1>3, Zenon DEF ReaderInv
<1> QED
  BY <1>4, <1>5, Zenon DEF HandoffInv

LEMMA AnswerKeeps ==
  ASSUME HandoffInv, NEW id \in Ids, NEW r \in Responses, Answer(id, r)
  PROVE  HandoffInv'
<1>1. at[id] = "prefill" /\ sizesLock' = sizesLock /\ \E a \in {"moved", "done"} : at' = [at EXCEPT ![id] = a]
  BY Zenon DEF Answer
<1>2. /\ at' \in [Ids -> {"prefill", "moved", "sized", "done"}]
      /\ \A x \in Ids : at'[x] = "sized" <=> at[x] = "sized"
  BY <1>1 DEF HandoffInv, RingInv
<1>3. RingInv'
  BY <1>1, <1>2 DEF HandoffInv, RingInv, RingsPaired, Answer
<1>4. ReaderInv'
  BY Zenon DEF HandoffInv, ReaderInv, Answer
<1> QED
  BY <1>3, <1>4, Zenon DEF HandoffInv

LEMMA RecordSizeKeeps ==
  ASSUME HandoffInv, NEW id \in Ids, RecordSize(id)
  PROVE  HandoffInv'
<1>1. /\ sizesLock = {} /\ sizesLock' = {id} /\ transfer_bytes = transfer_wall_us
      /\ at' = [at EXCEPT ![id] = "sized"]
      /\ transfer_bytes' = Pushed(transfer_bytes, id) /\ transfer_wall_us' = transfer_wall_us
  BY Zenon DEF HandoffInv, RingInv, RingsPaired, RecordSize
<1>2. Ring(transfer_bytes) /\ Ring(transfer_wall_us) /\ at \in [Ids -> {"prefill", "moved", "sized", "done"}]
  BY Zenon DEF HandoffInv, RingInv
<1>3. \A x \in Ids : at[x] # "sized"
  BY <1>1, Zenon DEF HandoffInv, RingInv
<1>4. /\ at' \in [Ids -> {"prefill", "moved", "sized", "done"}]
      /\ \A x \in Ids : at'[x] = "sized" <=> sizesLock' = {x}
  BY <1>1, <1>2, <1>3, Zenon
<1>5. Ring(transfer_bytes)' /\ Ring(transfer_wall_us)'
  <2>1. Ring(Pushed(transfer_bytes, id))
    BY <1>2, PushedRing, Zenon
  <2> QED
    BY <1>1, <1>2, <2>1, Zenon DEF Ring
<1>6. RingsPaired'
  BY <1>1, Zenon DEF RingsPaired
<1>7. RingInv'
  BY <1>1, <1>4, <1>5, <1>6, Zenon DEF RingInv
<1>8. ReaderInv'
  BY Zenon DEF HandoffInv, ReaderInv, RecordSize
<1> QED
  BY <1>7, <1>8, Zenon DEF HandoffInv

LEMMA RecordWallKeeps ==
  ASSUME HandoffInv, NEW id \in Ids, RecordWall(id)
  PROVE  HandoffInv'
<1>1. /\ sizesLock = {id} /\ sizesLock' = {} /\ at' = [at EXCEPT ![id] = "done"]
      /\ transfer_bytes' = transfer_bytes /\ transfer_wall_us' = Pushed(transfer_wall_us, id)
      /\ reader' = reader
  BY Zenon DEF HandoffInv, RingInv, RecordWall
<1>2. Ring(transfer_bytes) /\ Ring(transfer_wall_us) /\ at \in [Ids -> {"prefill", "moved", "sized", "done"}]
  BY Zenon DEF HandoffInv, RingInv
<1>3. \A x \in Ids : x # id => at[x] # "sized"
  BY <1>1, Zenon DEF HandoffInv, RingInv
<1>4. /\ at' \in [Ids -> {"prefill", "moved", "sized", "done"}]
      /\ \A x \in Ids : at'[x] # "sized" /\ sizesLock' # {x}
  BY <1>1, <1>2, <1>3, Zenon
<1>5. transfer_bytes = Pushed(transfer_wall_us, id)
  BY <1>1, Zenon DEF HandoffInv, RingInv, RingsPaired
<1>6. Ring(transfer_bytes)' /\ Ring(transfer_wall_us)'
  BY <1>1, <1>2, <1>5, Zenon DEF Ring
<1>7. RingsPaired'
  BY <1>1, <1>5, Zenon DEF RingsPaired
<1>8. RingInv'
  BY <1>1, <1>4, <1>6, <1>7, Zenon DEF RingInv
<1>9. ReaderInv'
  <2>1. ReaderInv /\ reader.sizes \in Seq(Ids)
    BY Zenon DEF HandoffInv, ReaderInv
  <2>2. Follows(reader.sizes, transfer_wall_us) => Follows(reader.sizes, transfer_wall_us')
    BY <1>1, <1>2, <2>1, PushedFollows, Zenon
  <2>3. /\ Follows(reader.sizes, transfer_wall_us)' <=> Follows(reader.sizes, transfer_wall_us')
        /\ Follows(reader.sizes, reader.walls)' <=> Follows(reader.sizes, reader.walls)
    BY <1>1, Zenon DEF Follows
  <2> QED
    BY <1>1, <2>1, <2>2, <2>3, Zenon DEF ReaderInv
<1> QED
  BY <1>8, <1>9, Zenon DEF HandoffInv

LEMMA CloneSizesKeeps ==
  ASSUME HandoffInv, CloneSizes
  PROVE  HandoffInv'
<1>1. RingInv'
  BY Zenon DEF HandoffInv, RingInv, RingsPaired, Ring, CloneSizes
<1>2. /\ transfer_wall_us' = transfer_bytes /\ transfer_bytes \in Seq(Ids)
      /\ reader' = [at |-> "sizes", sizes |-> transfer_bytes, walls |-> <<>>]
  BY Zenon DEF HandoffInv, RingInv, RingsPaired, Ring, CloneSizes
<1>3. Follows(transfer_bytes, transfer_bytes)
  BY <1>2, FollowsItself, Zenon
<1>4. ReaderInv'
  <2>1. Follows(reader.sizes, transfer_wall_us)'
    <3>1. reader'.sizes = transfer_bytes
      BY <1>2, Zenon
    <3>2. Follows(reader.sizes, transfer_wall_us)' <=> Follows(reader'.sizes, transfer_wall_us')
      BY Zenon DEF Follows
    <3> QED
      BY <1>2, <1>3, <3>1, <3>2, Zenon
  <2>2. reader' \in [at : {"idle", "sizes", "walls"}, sizes : Seq(Ids), walls : Seq(Ids)] /\ reader'.at = "sizes"
    BY <1>2
  <2> QED
    BY <2>1, <2>2, Zenon DEF ReaderInv
<1> QED
  BY <1>1, <1>4, Zenon DEF HandoffInv

LEMMA CloneWallsKeeps ==
  ASSUME HandoffInv, CloneWalls
  PROVE  HandoffInv'
<1>1. RingInv'
  BY Zenon DEF HandoffInv, RingInv, RingsPaired, Ring, CloneWalls
<1>2. /\ transfer_wall_us \in Seq(Ids) /\ Follows(reader.sizes, transfer_wall_us)
      /\ reader \in [at : {"idle", "sizes", "walls"}, sizes : Seq(Ids), walls : Seq(Ids)]
      /\ reader' = [reader EXCEPT !.at = "walls", !.walls = transfer_wall_us]
  BY Zenon DEF HandoffInv, RingInv, ReaderInv, Ring, CloneWalls
<1>3. /\ reader' \in [at : {"idle", "sizes", "walls"}, sizes : Seq(Ids), walls : Seq(Ids)]
      /\ reader'.at = "walls" /\ reader'.sizes = reader.sizes /\ reader'.walls = transfer_wall_us
  BY <1>2, Zenon
<1>4. Follows(reader.sizes, reader.walls)'
  BY <1>2, <1>3, Zenon DEF Follows
<1>5. ReaderInv'
  BY <1>3, <1>4, Zenon DEF ReaderInv
<1> QED
  BY <1>1, <1>5, Zenon DEF HandoffInv

(* However the two pushes of concurrent transfers interleave, and wherever *)
(* a metrics call clones the rings between them, sizes and wall times stay *)
(* paired (record_transfer and transfer_metrics), for every ring size.     *)
THEOREM TransfersStayPaired == HandoffSpec => []TransfersPaired
<1>1. HandoffInit => HandoffInv
  BY HandoffInitial, Zenon
<1>2. HandoffInv /\ [HandoffNext]_handoffVars => HandoffInv'
  <2> SUFFICES ASSUME HandoffInv, [HandoffNext]_handoffVars PROVE HandoffInv'
    BY Zenon
  <2>1. CASE \E id \in Ids, r \in Responses : Answer(id, r)
    BY <2>1, AnswerKeeps, Zenon
  <2>2. CASE \E id \in Ids : RecordSize(id)
    BY <2>2, RecordSizeKeeps, Zenon
  <2>3. CASE \E id \in Ids : RecordWall(id)
    BY <2>3, RecordWallKeeps, Zenon
  <2>4. CASE \E id \in Ids : take(id)
    BY <2>4 DEF take, HandoffInv, RingInv, ReaderInv, RingsPaired
  <2>5. CASE CloneSizes
    BY <2>5, CloneSizesKeeps, Zenon
  <2>6. CASE CloneWalls
    BY <2>6, CloneWallsKeeps, Zenon
  <2>7. CASE UNCHANGED handoffVars
    BY <2>7, Zenon DEF handoffVars, HandoffInv, RingInv, ReaderInv, RingsPaired
  <2> QED
    BY <2>1, <2>2, <2>3, <2>4, <2>5, <2>6, <2>7, Zenon DEF HandoffNext
<1>3. HandoffInv => TransfersPaired
  <2> SUFFICES ASSUME HandoffInv PROVE RingsPaired /\ SummaryPaired
    BY Zenon DEF TransfersPaired
  <2>1. RingsPaired
    BY Zenon DEF HandoffInv, RingInv
  <2>2. SummaryPaired
    BY Zenon DEF HandoffInv, ReaderInv, Follows, SummaryPaired
  <2> QED
    BY <2>1, <2>2, Zenon
<1> QED
  BY <1>1, <1>2, <1>3, PTL DEF HandoffSpec

(* The headers are the response up to its first blank line. *)
LEMMA HeadersAre ==
  ASSUME NEW r \in Responses
  PROVE  LET H == Headers(r)
         IN  /\ Len(H) \in Nat /\ Len(H) <= Len(r) /\ Len(r) \in Nat
             /\ \A i \in 1 .. Len(H) : H[i] = r[i]
             /\ \A i \in 1 .. Len(H) : i < Len(H) => r[i].h # "blank"
<1> DEFINE blanks == {i \in 1 .. Len(r) : r[i].h = "blank"}
           S == {[h |-> r[i].h, v |-> r[i].v] : i \in 1 .. Len(r)}
<1>1. Len(r) \in Nat /\ r = [i \in 1 .. Len(r) |-> [h |-> r[i].h, v |-> r[i].v]]
  BY HandoffAssumption, Zenon
<1>2. r \in Seq(S)
  <2> DEFINE n == Len(r)
  <2>1. r \in [1 .. n -> S]
    BY <1>1, Zenon
  <2>2. n \in Nat
    BY <1>1, Zenon
  <2> HIDE DEF n, S
  <2> QED
    BY <2>1, <2>2
<1> HIDE DEF S
<1>3. CASE blanks = {}
  <2>1. Headers(r) = r
    BY <1>3, Zenon DEF Headers
  <2>2. \A i \in 1 .. Len(r) : r[i].h # "blank"
    BY <1>3, Zenon
  <2> QED
    BY <1>1, <2>1, <2>2
<1>4. CASE blanks # {}
  <2> DEFINE b == CHOOSE i \in blanks : \A j \in blanks : i <= j
  <2>1. Headers(r) = SubSeq(r, 1, b)
    BY <1>4, Zenon DEF Headers
  <2>2. blanks \subseteq Nat
    BY <1>1
  <2>3. \E i \in blanks : \A j \in blanks : i <= j
    <3> HIDE DEF blanks
    <3> QED
      BY <1>4, <2>2, LeastNat, Zenon
  <2>4. b \in blanks /\ \A j \in blanks : b <= j
    <3> HIDE DEF blanks
    <3> QED
      BY <2>3, Zenon
  <2> HIDE DEF b
  <2>5. b \in 1 .. Len(r)
    BY <2>4, Zenon
  <2>6. \A i \in 1 .. Len(r) : i < b => r[i].h # "blank"
    <3> SUFFICES ASSUME NEW i \in 1 .. Len(r), i < b, r[i].h = "blank" PROVE FALSE
      BY Zenon
    <3>1. i \in blanks
      BY Zenon
    <3>2. b <= i
      BY <2>4, <3>1, Zenon
    <3> QED
      BY <1>1, <2>5, <3>2
  <2> HIDE DEF blanks
  <2>7. Len(SubSeq(r, 1, b)) = b /\ \A i \in 1 .. b : SubSeq(r, 1, b)[i] = r[i]
    BY <1>1, <1>2, <2>5
  <2>8. b \in Nat /\ b <= Len(r) /\ \A i \in 1 .. b : i \in 1 .. Len(r)
    BY <1>1, <2>5
  <2> QED
    BY <1>1, <2>1, <2>6, <2>7, <2>8, Zenon
<1> QED
  BY <1>3, <1>4, Zenon

(* A value that was found is that of a line with its name. *)
LEMMA LastValueIs ==
  ASSUME NEW lines, NEW h, Len(lines) \in Nat, LastValue(lines, h) # Bad
  PROVE  \E i \in 1 .. Len(lines) : lines[i].h = h /\ LastValue(lines, h) = lines[i].v
<1> DEFINE found == {i \in 1 .. Len(lines) : lines[i].h = h}
           top == CHOOSE i \in found : \A j \in found : j <= i
<1>1. found # {} /\ LastValue(lines, h) = lines[top].v
  BY Zenon DEF LastValue
<1>2. found \subseteq 0 .. Len(lines)
  OBVIOUS
<1>3. top \in found
  <2> HIDE DEF found
  <2>1. \E i \in found : \A j \in found : j <= i
    BY <1>1, <1>2, GreatestUpTo, Zenon
  <2> QED
    BY <2>1, Zenon
<1> HIDE DEF top
<1>4. top \in 1 .. Len(lines) /\ lines[top].h = h
  BY <1>3, Zenon
<1> QED
  BY <1>1, <1>4, Zenon

(* Both fields of a parsed descriptor stand in lines before the blank one. *)
Claimed(r, d) ==
  \E i, j \in 1 .. Len(r) :
    /\ r[i] = [h |-> "handle", v |-> d.kv_handle]
    /\ r[j] = [h |-> "bytes", v |-> d.byte_len]
    /\ \A k \in 1 .. (IF i < j THEN j ELSE i) : r[k].h # "blank"

LEMMA ParsedClaim ==
  ASSUME NEW r \in Responses, NEW d \in parse_prefill_handoff(r)
  PROVE  Claimed(r, d)
<1> DEFINE H == Headers(r)
           x == LastValue(H, "handle")
           y == LastValue(H, "bytes")
<1>1. d = [kv_handle |-> from_raw(x), byte_len |-> y] /\ from_raw(x) # Bad /\ y # Bad
  BY Zenon DEF parse_prefill_handoff
<1>2. x # Bad /\ d.kv_handle = x /\ d.byte_len = y
  BY <1>1, Zenon DEF from_raw
<1>3. /\ Len(H) \in Nat /\ Len(H) <= Len(r) /\ Len(r) \in Nat
      /\ \A i \in 1 .. Len(H) : H[i] = r[i]
      /\ \A i \in 1 .. Len(H) : i < Len(H) => r[i].h # "blank"
  BY HeadersAre, Zenon
<1> HIDE DEF H
<1>n. Len(H) \in Nat
  BY <1>3, Zenon
<1>4. PICK i \in 1 .. Len(H) : H[i].h = "handle" /\ x = H[i].v
  BY <1>2, <1>n, LastValueIs
<1>5. PICK j \in 1 .. Len(H) : H[j].h = "bytes" /\ y = H[j].v
  BY <1>1, <1>n, LastValueIs
<1> HIDE DEF x, y
<1>6. i \in 1 .. Len(r) /\ j \in 1 .. Len(r)
  BY <1>3
<1>7. \A k \in 1 .. Len(r) : r[k] = [h |-> r[k].h, v |-> r[k].v]
  <2>1. r = [k \in 1 .. Len(r) |-> [h |-> r[k].h, v |-> r[k].v]]
    BY HandoffAssumption, Zenon
  <2> QED
    BY <2>1, Zenon
<1>8. r[i].h = "handle" /\ r[i].v = x /\ r[j].h = "bytes" /\ r[j].v = y
  BY <1>3, <1>4, <1>5, Zenon
<1>9. r[i] = [h |-> "handle", v |-> x] /\ r[j] = [h |-> "bytes", v |-> y]
  BY <1>6, <1>7, <1>8, Zenon
<1> DEFINE m == IF i < j THEN j ELSE i
<1>10. ASSUME NEW k \in 1 .. m PROVE r[k].h # "blank"
  <2>1. k \in 1 .. Len(H) /\ (k = i \/ k = j \/ k < Len(H))
    BY <1>3, <1>4, <1>5
  <2>2. CASE k < Len(H)
    BY <1>3, <2>1, <2>2, Zenon
  <2>3. CASE k = i \/ k = j
    BY <1>8, <2>3, Zenon
  <2> QED
    BY <2>1, <2>2, <2>3, Zenon
<1> QED
  BY <1>2, <1>6, <1>9, <1>10, Zenon DEF Claimed

DescInv ==
  /\ desc \in [Ids -> SUBSET UNION {parse_prefill_handoff(r) : r \in Responses}]
  /\ DOMAIN response = Ids
  /\ \A id \in Ids : \A d \in desc[id] : Claimed(response[id], d)

(* What is claimed for a request stands in its own response, before the    *)
(* first blank line (parse_prefill_handoff), whatever the responses are    *)
(* and in whichever order they arrive.                                     *)
THEOREM ClaimsFromHeaders == HandoffSpec => []ClaimFromHeaders
<1>1. HandoffInit => DescInv
  BY Zenon DEF HandoffInit, DescInv
<1>2. DescInv /\ [HandoffNext]_handoffVars => DescInv'
  <2> SUFFICES ASSUME DescInv, [HandoffNext]_handoffVars PROVE DescInv'
    BY Zenon
  <2>1. ASSUME NEW id \in Ids, NEW r \in Responses, Answer(id, r) PROVE DescInv'
    <3> DEFINE P == parse_prefill_handoff(r)
    <3>1. \A d \in P : Claimed(r, d)
      BY ParsedClaim, Zenon
    <3> DEFINE all == UNION {parse_prefill_handoff(q) : q \in Responses}
    <3>2. P \subseteq all
      BY Zenon
    <3>3. /\ response' = [response EXCEPT ![id] = r] /\ desc' = [desc EXCEPT ![id] = P]
      BY <2>1, Zenon DEF Answer
    <3> HIDE DEF P, all
    <3>4. desc \in [Ids -> SUBSET all] /\ DOMAIN response = Ids
      BY Zenon DEF DescInv, all
    <3>5. /\ desc' \in [Ids -> SUBSET all] /\ DOMAIN response' = Ids
          /\ desc'[id] = P /\ response'[id] = r
          /\ \A x \in Ids : x # id => desc'[x] = desc[x] /\ response'[x] = response[x]
      BY <3>2, <3>3, <3>4, Zenon
    <3>6. ASSUME NEW x \in Ids, NEW d \in desc'[x] PROVE Claimed(response'[x], d)
      <4>1. CASE x = id
        BY <3>1, <3>5, <3>6, <4>1, Zenon
      <4>2. CASE x # id
        BY <3>5, <3>6, <4>2, Zenon DEF DescInv
      <4> QED
        BY <4>1, <4>2, Zenon
    <3>7. \A x \in Ids : \A d \in desc'[x] : Claimed(response[x], d)'
      BY <3>6, Zenon DEF Claimed
    <3> QED
      BY <3>5, <3>7, Zenon DEF DescInv, all
  <2>2. CASE desc' = desc /\ response' = response
    BY <2>2, ZenonT(60) DEF DescInv, Claimed
  <2>3. (\E id \in Ids, r \in Responses : Answer(id, r)) \/ (desc' = desc /\ response' = response)
    BY Zenon DEF HandoffNext, handoffVars, RecordSize, RecordWall, take, CloneSizes, CloneWalls
  <2> QED
    BY <2>1, <2>2, <2>3, Zenon
<1>3. DescInv => ClaimFromHeaders
  BY Zenon DEF DescInv, ClaimFromHeaders, Claimed
<1> QED
  BY <1>1, <1>2, <1>3, PTL DEF HandoffSpec
----------------------------------------------------------------------------
(* The bench commands *)

Results == [id : ScenarioIds, by : Nat, gates : BOOLEAN, passes : BOOLEAN]
DueUpto(m, n) == {k \in 1 .. n : Selected[m][k] \notin Optional \intersect Unavailable}

(* `results' has those of the first n scenarios of m that were due, each   *)
(* once, in order, by the command e.                                       *)
InPlace(place, results, m, n) ==
  /\ place \in [1 .. Len(results) -> DueUpto(m, n)]
  /\ \A i, j \in 1 .. Len(results) : i < j => place[i] < place[j]
  /\ \A k \in DueUpto(m, n) : \E i \in 1 .. Len(results) : place[i] = k
  /\ \A i \in 1 .. Len(results) : results[i].id = Selected[m][place[i]]
By(results, m, e) ==
  \A i \in 1 .. Len(results) : results[i].by = e /\ (strict(m, results[i].id) => results[i].gates)
Ran(results, m, n, e) ==
  results \in Seq(Results) /\ By(results, m, e) /\ \E place : InPlace(place, results, m, n)
RanAll(results, m, e) == Ran(results, m, Len(Selected[m]), e)
Rest(m, n) == SubSeq(Selected[m], n + 1, Len(Selected[m]))

Fields == {"at", "mode", "todo", "got", "failures", "verify", "load", "bad", "found"}
Command(c) == c = [f \in Fields |-> c[f]]

FilesInv ==
  /\ epoch \in Nat
  /\ runs = [id \in ScenarioIds |-> runs[id]] /\ \A id \in ScenarioIds : runs[id].is \in {"missing", "torn", "whole"}
  /\ merged = [m \in Modes |-> merged[m]]
Running(c, e) ==
  c.at = "next" =>
    /\ c.mode \in Modes /\ (c.verify => c.mode = "harden")
    /\ \E n \in 0 .. Len(Selected[c.mode]) :
         c.todo = Rest(c.mode, n) /\ (c.failures = 0 => Ran(c.got, c.mode, n, e))
Rereading(c, report, e) == c.at = "reread" => c.verify /\ (~c.bad => report.is = "whole" /\ RanAll(report.results, "harden", e))
Judging(c, e) == c.at = "judge" => c.verify /\ (c.load /\ ~c.bad => RanAll(c.got, "harden", e))
CommandInv ==
  /\ Command(cmd) /\ cmd.failures \in Nat /\ cmd.verify \in BOOLEAN /\ cmd.bad \in BOOLEAN
  /\ Running(cmd, epoch) /\ Rereading(cmd, merged["harden"], epoch) /\ Judging(cmd, epoch)
Ended(x) ==
  /\ x.ok /\ x.mode \in Modes => RanAll(x.entries, x.mode, x.by)
  /\ x.ok /\ x.mode = "verify" /\ x.load => RanAll(x.entries, "harden", x.by)
SuiteInv == FilesInv /\ CommandInv /\ Ended(exit)

LEMMA SuiteConstants ==
  /\ "harden" \in Modes /\ "latest" \in Modes /\ "harden" \in Strict
  /\ \A m \in Modes : Selected[m] \in Seq(ScenarioIds) /\ m \notin {"verify", "ci", "single"}
<1>1. ASSUME NEW m \in Modes PROVE Selected[m] \in Seq(ScenarioIds)
  <2>1. Range(Selected[m]) \subseteq ScenarioIds
    BY Zenon DEF ScenarioIds
  <2>2. Selected[m] \in Seq(Range(Selected[m]))
    BY SuiteAssumption, Zenon
  <2> HIDE DEF ScenarioIds
  <2> QED
    BY <2>1, <2>2
<1>2. ASSUME NEW m \in Modes PROVE m \notin {"verify", "ci", "single"}
  BY SuiteAssumption, Zenon
<1>3. "harden" \in Modes /\ "latest" \in Modes /\ "harden" \in Strict
  BY SuiteAssumption, Zenon
<1> QED
  BY <1>1, <1>2, <1>3, Zenon

LEMMA NothingRan == ASSUME NEW m \in Modes, NEW e PROVE Ran(<<>>, m, 0, e)
<1>1. DueUpto(m, 0) = {}
  BY DEF DueUpto
<1>2. <<>> \in Seq(Results) /\ Len(<<>>) = 0 /\ 1 .. 0 = {}
  OBVIOUS
<1>3. InPlace([i \in 1 .. 0 |-> 0], <<>>, m, 0)
  BY <1>1, <1>2, Zenon DEF InPlace
<1>4. By(<<>>, m, e)
  BY <1>2, Zenon DEF By
<1> QED
  BY <1>2, <1>3, <1>4, Zenon DEF Ran

LEMMA Skipped ==
  ASSUME NEW m \in Modes, NEW n \in Nat, NEW e, NEW results, Ran(results, m, n, e),
         Selected[m][n + 1] \in Optional \intersect Unavailable
  PROVE  Ran(results, m, n + 1, e)
<1>1. DueUpto(m, n + 1) = DueUpto(m, n)
  BY DEF DueUpto
<1> QED
  BY <1>1, ZenonT(60) DEF Ran, InPlace

LEMMA Collects ==
  ASSUME NEW m \in Modes, NEW n \in Nat, NEW e, NEW results, Ran(results, m, n, e),
         NEW r \in Results, r.id = Selected[m][n + 1], r.by = e, strict(m, r.id) => r.gates,
         Selected[m][n + 1] \notin Optional \intersect Unavailable
  PROVE  Ran(results \o <<r>>, m, n + 1, e)
<1> DEFINE more == results \o <<r>>
           l == Len(results)
<1>1. PICK place : InPlace(place, results, m, n)
  BY Zenon DEF Ran
<1>2. results \in Seq(Results) /\ By(results, m, e)
  BY Zenon DEF Ran
<1>3. /\ more \in Seq(Results) /\ Len(more) = l + 1 /\ l \in Nat /\ more[l + 1] = r
      /\ \A i \in 1 .. l : more[i] = results[i]
  BY <1>2
<1>4. DueUpto(m, n + 1) = DueUpto(m, n) \union {n + 1}
  BY DEF DueUpto
<1>5. \A k \in DueUpto(m, n) : k \in Nat /\ k < n + 1
  BY DEF DueUpto
<1>6. By(more, m, e)
  <2> SUFFICES ASSUME NEW i \in 1 .. Len(more) PROVE more[i].by = e /\ (strict(m, more[i].id) => more[i].gates)
    BY Zenon DEF By
  <2>1. CASE i = l + 1
    BY <2>1, <1>3, Zenon
  <2>2. CASE i # l + 1
    <3>1. i \in 1 .. l
      BY <2>2, <1>3
    <3> QED
      BY <3>1, <1>2, <1>3, Zenon DEF By
  <2> QED
    BY <2>1, <2>2, Zenon
<1> DEFINE wider == [i \in 1 .. l + 1 |-> IF i = l + 1 THEN n + 1 ELSE place[i]]
<1> HIDE DEF more
<1>7. place \in [1 .. l -> DueUpto(m, n)]
  BY <1>1, Zenon DEF InPlace
<1>8. wider[l + 1] = n + 1 /\ \A i \in 1 .. l : wider[i] = place[i]
  BY <1>3
<1>9. \A i \in 1 .. l + 1 : i = l + 1 \/ i \in 1 .. l
  BY <1>3
<1>10. 1 .. l + 1 = 1 .. Len(more) /\ l + 1 \in 1 .. l + 1 /\ 1 .. l \subseteq 1 .. l + 1
  BY <1>3
<1>11. wider \in [1 .. l + 1 -> DueUpto(m, n + 1)]
  BY <1>4, <1>7, <1>9, Zenon
<1> HIDE DEF wider
<1>12. \A i, j \in 1 .. l + 1 : i < j => wider[i] < wider[j]
  <2> SUFFICES ASSUME NEW i \in 1 .. l + 1, NEW j \in 1 .. l + 1, i < j PROVE wider[i] < wider[j]
    BY Zenon
  <2>1. i \in 1 .. l
    BY <1>3
  <2>2. wider[i] = place[i] /\ place[i] \in Nat /\ place[i] < n + 1
    BY <2>1, <1>8, <1>7, <1>5, Zenon
  <2>3. CASE j = l + 1
    BY <2>2, <2>3, <1>8, Zenon
  <2>4. CASE j \in 1 .. l
    <3>1. place[i] < place[j]
      BY <1>1, <2>1, <2>4, Zenon DEF InPlace
    <3> QED
      BY <3>1, <2>2, <2>4, <1>8, Zenon
  <2> QED
    BY <2>3, <2>4, <1>9, Zenon
<1>13. \A k \in DueUpto(m, n + 1) : \E i \in 1 .. l + 1 : wider[i] = k
  <2> TAKE k \in DueUpto(m, n + 1)
  <2>1. CASE k = n + 1
    BY <2>1, <1>8, <1>10, Zenon
  <2>2. CASE k \in DueUpto(m, n)
    <3>1. PICK i \in 1 .. l : place[i] = k
      BY <2>2, <1>1, Zenon DEF InPlace
    <3> QED
      BY <3>1, <1>8, <1>10, Zenon
  <2> QED
    BY <2>1, <2>2, <1>4, Zenon
<1>14. \A i \in 1 .. l + 1 : more[i].id = Selected[m][wider[i]]
  <2> TAKE i \in 1 .. l + 1
  <2>1. CASE i = l + 1
    BY <2>1, <1>3, <1>8, Zenon
  <2>2. CASE i \in 1 .. l
    <3>1. results[i].id = Selected[m][place[i]]
      BY <2>2, <1>1, Zenon DEF InPlace
    <3> QED
      BY <3>1, <2>2, <1>3, <1>8, Zenon
  <2> QED
    BY <2>1, <2>2, <1>9, Zenon
<1>15. InPlace(wider, more, m, n + 1)
  BY <1>10, <1>11, <1>12, <1>13, <1>14, Zenon DEF InPlace
<1>16. Ran(more, m, n + 1, e)
  BY <1>3, <1>6, <1>15, Zenon DEF Ran
<1> QED
  BY <1>16, Zenon DEF more

LEMMA AllRan ==
  ASSUME NEW m \in Modes, NEW e, NEW results, RanAll(results, m, e)
  PROVE  Covers(results, m) /\ By(results, m, e)
<1>1. DueUpto(m, Len(Selected[m])) = Due(m)
  BY Zenon DEF DueUpto, Due
<1>2. By(results, m, e) /\ \E place : InPlace(place, results, m, Len(Selected[m]))
  BY Zenon DEF RanAll, Ran
<1> QED
  BY <1>1, <1>2, ZenonT(60) DEF Covers, InPlace

LEMMA Suffix ==
  ASSUME NEW S, NEW s \in Seq(S), NEW k \in 1 .. Len(s) + 1
  PROVE  /\ SubSeq(s, k, Len(s)) \in Seq(S) /\ Len(SubSeq(s, k, Len(s))) = Len(s) + 1 - k
         /\ \A i \in 1 .. Len(s) + 1 - k : SubSeq(s, k, Len(s))[i] = s[k + i - 1]
<1>1. Len(s) \in Nat
  OBVIOUS
<1>2. \A i \in k .. Len(s) : s[i] \in S
  BY <1>1
<1>3. SubSeq(s, k, Len(s)) \in Seq(S)
  BY <1>1, <1>2
<1> QED
  BY <1>1, <1>3

LEMMA NextOf ==
  ASSUME NEW m \in Modes, NEW n \in 0 .. Len(Selected[m]), Rest(m, n) # <<>>
  PROVE  /\ n + 1 \in 0 .. Len(Selected[m]) /\ n \in Nat /\ Selected[m][n + 1] \in ScenarioIds
         /\ Head(Rest(m, n)) = Selected[m][n + 1] /\ Tail(Rest(m, n)) = Rest(m, n + 1)
<1> DEFINE s == Selected[m]
           q == Rest(m, n)
           t == Rest(m, n + 1)
<1>1. s \in Seq(ScenarioIds)
  BY SuiteConstants, Zenon
<1>2. Len(s) \in Nat /\ n \in 0 .. Len(s) /\ n + 1 \in 1 .. Len(s) + 1
  BY <1>1
<1>3. /\ q \in Seq(ScenarioIds) /\ Len(q) = Len(s) + 1 - (n + 1)
      /\ \A i \in 1 .. Len(s) + 1 - (n + 1) : q[i] = s[n + 1 + i - 1]
  BY <1>1, <1>2, Suffix, ZenonT(60) DEF Rest
<1>4. q # <<>>
  BY Zenon
<1> HIDE DEF s, q
<1>5. n < Len(s)
  BY <1>2, <1>3, <1>4
<1>6. n + 1 + 1 \in 1 .. Len(s) + 1
  BY <1>2, <1>5
<1>7. /\ t \in Seq(ScenarioIds) /\ Len(t) = Len(s) + 1 - (n + 1 + 1)
      /\ \A i \in 1 .. Len(s) + 1 - (n + 1 + 1) : t[i] = s[n + 1 + 1 + i - 1]
  BY <1>1, <1>6, Suffix, ZenonT(60) DEF Rest, s
<1> HIDE DEF t
<1>8. n + 1 \in 0 .. Len(s) /\ n \in Nat /\ s[n + 1] \in ScenarioIds
  BY <1>1, <1>2, <1>5
<1>9. Head(q) = s[n + 1]
  BY <1>2, <1>3, <1>5
<1>10. /\ Tail(q) \in Seq(ScenarioIds) /\ Len(Tail(q)) = Len(q) - 1
       /\ \A i \in 1 .. Len(q) - 1 : Tail(q)[i] = q[i + 1]
  BY <1>3, <1>4
<1>11. Len(Tail(q)) = Len(t) /\ \A i \in 1 .. Len(t) : Tail(q)[i] = t[i]
  <2>1. Len(q) = Len(s) + 1 - (n + 1) /\ Len(t) = Len(s) + 1 - (n + 1 + 1) /\ Len(Tail(q)) = Len(q) - 1
    BY <1>3, <1>7, <1>10, Zenon
  <2>2. Len(Tail(q)) = Len(t)
    BY <2>1, <1>2, SMTT(30)
  <2> SUFFICES ASSUME NEW i \in 1 .. Len(t) PROVE Tail(q)[i] = t[i]
    BY <2>2, Zenon
  <2>3. /\ i \in 1 .. Len(q) - 1 /\ i + 1 \in 1 .. Len(s) + 1 - (n + 1) /\ i \in 1 .. Len(s) + 1 - (n + 1 + 1)
        /\ n + 1 + (i + 1) - 1 = n + 1 + 1 + i - 1
    BY <2>1, <1>2, <1>5
  <2>4. Tail(q)[i] = q[i + 1]
    BY <2>3, <1>10, Zenon
  <2>5. q[i + 1] = s[n + 1 + (i + 1) - 1]
    BY <2>3, <1>3, Zenon
  <2>6. t[i] = s[n + 1 + 1 + i - 1]
    BY <2>3, <1>7, Zenon
  <2> QED
    BY <2>3, <2>4, <2>5, <2>6, Zenon
<1>12. Tail(q) = t
  BY <1>7, <1>10, <1>11, SameSequence, Zenon
<1> QED
  BY <1>8, <1>9, <1>12, Zenon DEF s, q, t

LEMMA Spent == ASSUME NEW l \in Nat, NEW n \in 0 .. l, l + 1 - (n + 1) = 0 PROVE n = l
OBVIOUS

LEMMA NoneLeft ==
  ASSUME NEW m \in Modes, NEW n \in 0 .. Len(Selected[m]), Len(Rest(m, n)) = 0
  PROVE  n = Len(Selected[m])
<1>1. Selected[m] \in Seq(ScenarioIds)
  BY SuiteConstants, Zenon
<1>2. Len(Selected[m]) \in Nat /\ n + 1 \in 1 .. Len(Selected[m]) + 1
  BY <1>1
<1>3. Len(Rest(m, n)) = Len(Selected[m]) + 1 - (n + 1)
  BY <1>1, <1>2, Suffix, Zenon DEF Rest
<1> QED
  BY <1>2, <1>3, Spent, Zenon

LEMMA IdleCommand ==
  /\ Command(Idle) /\ Idle.at \notin {"next", "reread", "judge"}
  /\ Idle.failures \in Nat /\ Idle.verify = FALSE /\ Idle.bad = FALSE
BY Zenon DEF Command, Fields, Idle

LEMMA ExitFields ==
  ASSUME NEW won, NEW by, NEW mode, NEW load, NEW entries, NEW x,
         x = [ok |-> won, by |-> by, mode |-> mode, load |-> load, entries |-> entries]
  PROVE  x.ok = won /\ x.by = by /\ x.mode = mode /\ x.load = load /\ x.entries = entries
BY Zenon

(* A command that has ended leaves nothing to be shown of it but its exit. *)
LEMMA EndKeeps ==
  ASSUME FilesInv', NEW won, NEW entries, End(won, entries), CommandInv,
         won => \/ cmd.verify /\ (cmd.load => RanAll(entries, "harden", epoch))
                \/ ~cmd.verify /\ cmd.mode \in Modes /\ RanAll(entries, cmd.mode, epoch)
  PROVE  SuiteInv'
<1>1. cmd' = Idle
  BY Zenon DEF End
<1>2. CommandInv'
  <2>1. /\ Command(cmd') /\ cmd'.at \notin {"next", "reread", "judge"} /\ cmd'.failures \in Nat
        /\ cmd'.verify \in BOOLEAN /\ cmd'.bad \in BOOLEAN
    BY <1>1, IdleCommand, Zenon
  <2> QED
    BY <2>1, Zenon DEF CommandInv, Running, Rereading, Judging, Command
<1>3. /\ exit'.ok = won /\ exit'.by = epoch /\ exit'.mode = (IF cmd.verify THEN "verify" ELSE cmd.mode)
      /\ exit'.load = cmd.load /\ exit'.entries = entries
  BY ExitFields, Zenon DEF End
<1>4. Ended(exit)'
  <2>1. "verify" \notin Modes
    BY SuiteConstants, Zenon
  <2>2. CASE cmd.verify
    BY <2>1, <2>2, <1>3, Zenon DEF Ended
  <2>3. CASE ~cmd.verify
    BY <2>1, <2>3, <1>3, Zenon DEF Ended
  <2> QED
    BY <2>2, <2>3, Zenon
<1> QED
  BY <1>2, <1>4, Zenon DEF SuiteInv

(* What starts a load run is at its first scenario, with nothing done.     *)
LEMMA Starts ==
  ASSUME NEW c, Command(c), c.bad \in BOOLEAN, c.verify \in BOOLEAN, NEW m \in Modes, NEW e, c.verify => m = "harden"
  PROVE  LET d == load_bench_isolated(c, m) IN
           /\ Command(d) /\ d.failures \in Nat /\ d.verify \in BOOLEAN /\ d.bad \in BOOLEAN
           /\ d.at = "next" /\ Running(d, e)
<1> DEFINE d == load_bench_isolated(c, m)
<1>1. Command(d)
  BY ZenonT(60) DEF load_bench_isolated, Command, Fields
<1>2. /\ d.failures = 0 /\ d.verify = c.verify /\ d.bad = c.bad
      /\ d.at = "next" /\ d.mode = m /\ d.todo = Selected[m] /\ d.got = <<>>
  BY Zenon DEF load_bench_isolated, Command, Fields
<1> HIDE DEF d
<1>3. Selected[m] \in Seq(ScenarioIds)
  BY SuiteConstants, Zenon
<1>4. 0 \in 0 .. Len(Selected[m]) /\ Selected[m] = SubSeq(Selected[m], 0 + 1, Len(Selected[m]))
  BY <1>3
<1>5. Ran(d.got, m, 0, e)
  BY <1>2, NothingRan, Zenon
<1>6. Running(d, e)
  BY <1>2, <1>4, <1>5, Zenon DEF Running, Rest
<1>7. d.failures \in Nat
  BY <1>2
<1> QED
  BY <1>1, <1>2, <1>6, <1>7, Zenon DEF d

LEMMA StartBenchKeeps ==
  ASSUME SuiteInv, NEW m \in Modes, StartBench(m) PROVE SuiteInv'
<1>1. FilesInv /\ Ended(exit) /\ cmd' = load_bench_isolated(Idle, m) /\ epoch' = epoch + 1
  BY Zenon DEF SuiteInv, StartBench
<1>2. merged' = merged /\ exit' = exit /\ runs' = CleanRuns
  BY Zenon DEF StartBench
<1>3. runs' = [id \in ScenarioIds |-> runs'[id]] /\ \A id \in ScenarioIds : runs'[id].is = "missing"
  BY <1>2, Zenon DEF CleanRuns, Missing
<1>4. FilesInv'
  <2>1. epoch' \in Nat
    BY <1>1 DEF FilesInv
  <2> QED
    BY <1>1, <1>2, <1>3, <2>1, Zenon DEF FilesInv
<1>5. /\ Command(cmd') /\ cmd'.failures \in Nat /\ cmd'.verify \in BOOLEAN /\ cmd'.bad \in BOOLEAN
      /\ cmd'.at = "next" /\ Running(cmd', epoch')
  BY <1>1, Starts, IdleCommand, Zenon
<1>6. CommandInv'
  BY <1>5, Zenon DEF CommandInv, Rereading, Judging, Command, Running
<1> QED
  BY <1>1, <1>2, <1>4, <1>6, Zenon DEF SuiteInv, Ended

LEMMA SkipKeeps == ASSUME SuiteInv, Skip PROVE SuiteInv'
<1>1. /\ cmd.at = "next" /\ cmd.todo # <<>> /\ Head(cmd.todo) \in Optional \intersect Unavailable
      /\ cmd' = [cmd EXCEPT !.todo = Tail(@)]
      /\ runs' = runs /\ merged' = merged /\ epoch' = epoch /\ exit' = exit
  BY Zenon DEF Skip
<1>2. Command(cmd) /\ cmd.failures \in Nat /\ cmd.verify \in BOOLEAN /\ cmd.bad \in BOOLEAN /\ Running(cmd, epoch)
  BY Zenon DEF SuiteInv, CommandInv
<1>3. /\ cmd'.at = "next" /\ cmd'.mode = cmd.mode /\ cmd'.todo = Tail(cmd.todo) /\ cmd'.got = cmd.got
      /\ cmd'.failures = cmd.failures /\ cmd'.verify = cmd.verify /\ cmd'.bad = cmd.bad
  BY <1>1, <1>2, Zenon DEF Command, Fields
<1>4. Command(cmd')
  BY <1>1, <1>2, Zenon DEF Command, Fields
<1>5. PICK n \in 0 .. Len(Selected[cmd.mode]) :
        cmd.todo = Rest(cmd.mode, n) /\ (cmd.failures = 0 => Ran(cmd.got, cmd.mode, n, epoch))
  BY <1>1, <1>2, Zenon DEF Running
<1>6. cmd.mode \in Modes /\ (cmd.verify => cmd.mode = "harden")
  BY <1>1, <1>2, Zenon DEF Running
<1>7. /\ n + 1 \in 0 .. Len(Selected[cmd.mode]) /\ n \in Nat
      /\ Head(cmd.todo) = Selected[cmd.mode][n + 1] /\ Tail(cmd.todo) = Rest(cmd.mode, n + 1)
  BY <1>1, <1>5, <1>6, NextOf, Zenon
<1>8. cmd.failures = 0 => Ran(cmd.got, cmd.mode, n + 1, epoch)
  BY <1>1, <1>5, <1>6, <1>7, Skipped, Zenon
<1>9. Running(cmd', epoch')
  BY <1>1, <1>3, <1>6, <1>7, <1>8, Zenon DEF Running
<1>10. CommandInv'
  BY <1>2, <1>3, <1>4, <1>9, Zenon DEF CommandInv, Rereading, Judging, Command, Running
<1> QED
  BY <1>1, <1>10, Zenon DEF SuiteInv, FilesInv, Ended

(* What a child leaves behind and what the parent makes of it.             *)
LEMMA CollectFields ==
  ASSUME NEW file, NEW success \in BOOLEAN, Command(cmd), cmd.failures \in Nat,
         file.is \in {"missing", "torn", "whole"}
  PROVE  LET d == collect(file, success) IN
           /\ Command(d) /\ d.mode = cmd.mode /\ d.verify = cmd.verify /\ d.todo = Tail(cmd.todo)
           /\ d.failures = cmd.failures + IF success THEN 0 ELSE 1
           /\ d.at \in {"next", "reread", "abort"} /\ (d.at = "next" => d.bad = cmd.bad)
           /\ d.at = "reread" => cmd.verify /\ d.bad
           /\ d.bad \in {cmd.bad, TRUE}
           /\ file.is = "whole" => d.got = cmd.got \o file.results
<1> DEFINE c == [cmd EXCEPT !.todo = Tail(@), !.failures = @ + IF success THEN 0 ELSE 1]
           d == collect(file, success)
           p == IF success THEN 0 ELSE 1
<1>1. /\ Command(c) /\ c.mode = cmd.mode /\ c.verify = cmd.verify /\ c.todo = Tail(cmd.todo)
      /\ c.failures = cmd.failures + p /\ c.bad = cmd.bad /\ c.got = cmd.got
  BY Zenon DEF Command, Fields
<1> HIDE DEF c
<1>2. d = CASE file.is = "missing" -> [c EXCEPT !.at = "next"]
            [] file.is = "whole" -> [c EXCEPT !.at = "next", !.got = @ \o file.results]
            [] file.is = "torn" -> [c EXCEPT !.at = IF c.verify THEN "reread" ELSE "abort", !.bad = TRUE]
  BY Zenon DEF collect, Collected, c
<1> HIDE DEF d, p
<1>3. CASE file.is = "missing"
  <2>1. d = [c EXCEPT !.at = "next"]
    BY <1>2, <1>3, Zenon
  <2>2. Command(d) /\ d.at = "next"
    BY <2>1, <1>1, Zenon DEF Command, Fields
  <2>3. d.mode = c.mode /\ d.verify = c.verify /\ d.todo = c.todo /\ d.failures = c.failures /\ d.bad = c.bad
    BY <2>1, <1>1, Zenon DEF Command, Fields
  <2> QED
    BY <2>2, <2>3, <1>1, <1>3, Zenon DEF d, p
<1>4. CASE file.is = "whole"
  <2>1. d = [c EXCEPT !.at = "next", !.got = @ \o file.results]
    BY <1>2, <1>4, Zenon
  <2>2. Command(d) /\ d.at = "next"
    BY <2>1, <1>1, Zenon DEF Command, Fields
  <2>3. /\ d.mode = c.mode /\ d.verify = c.verify /\ d.todo = c.todo /\ d.failures = c.failures /\ d.bad = c.bad
        /\ d.got = c.got \o file.results
    BY <2>1, <1>1, Zenon DEF Command, Fields
  <2> QED
    BY <2>2, <2>3, <1>1, <1>4, Zenon DEF d, p
<1>5. CASE file.is = "torn"
  <2>1. d = [c EXCEPT !.at = IF c.verify THEN "reread" ELSE "abort", !.bad = TRUE]
    BY <1>2, <1>5, Zenon
  <2>2. Command(d) /\ d.at = (IF c.verify THEN "reread" ELSE "abort") /\ d.bad = TRUE
    BY <2>1, <1>1, Zenon DEF Command, Fields
  <2>3. d.mode = c.mode /\ d.verify = c.verify /\ d.todo = c.todo /\ d.failures = c.failures
    BY <2>1, <1>1, Zenon DEF Command, Fields
  <2>4. d.at \in {"reread", "abort"} /\ (d.at = "reread" => c.verify) /\ d.at # "next"
    BY <2>2, Zenon
  <2> QED
    BY <2>2, <2>3, <2>4, <1>1, <1>5, Zenon DEF d, p
<1> QED
  BY <1>3, <1>4, <1>5, Zenon

LEMMA ChildLeaves ==
  ASSUME NEW id \in ScenarioIds, FilesInv, NEW gates \in BOOLEAN, NEW passes \in BOOLEAN,
         NEW how \in {"ran", "failed", "killed"}
  PROVE  LET file == ChildFile(id, how, gates, passes) IN
           /\ file.is \in {"missing", "torn", "whole"}
           /\ how = "ran" => file.is = "whole" /\ file.results = <<Result(id, gates, passes)>>
<1> DEFINE file == ChildFile(id, how, gates, passes)
<1>1. CASE how = "ran"
  <2>1. file = Whole(<<Result(id, gates, passes)>>)
    BY <1>1, Zenon DEF ChildFile
  <2>2. file.is = "whole" /\ file.results = <<Result(id, gates, passes)>>
    BY <2>1 DEF Whole
  <2> QED
    BY <2>2, Zenon
<1>2. CASE how = "failed"
  <2>1. file = runs[id] /\ how # "ran"
    BY <1>2, Zenon DEF ChildFile
  <2> QED
    BY <2>1, Zenon DEF FilesInv
<1>3. CASE how = "killed"
  <2>1. file = Torn /\ how # "ran"
    BY <1>3, Zenon DEF ChildFile
  <2>2. Torn.is = "torn"
    BY Zenon DEF Torn, Missing
  <2> QED
    BY <2>1, <2>2, Zenon
<1> QED
  BY <1>1, <1>2, <1>3, Zenon

LEMMA ChildKeeps == ASSUME SuiteInv, Child PROVE SuiteInv'
<1> DEFINE id == Head(cmd.todo)
<1>1. /\ cmd.at = "next" /\ cmd.todo # <<>> /\ id \notin Optional \intersect Unavailable
      /\ merged' = merged /\ epoch' = epoch /\ exit' = exit
  BY Zenon DEF Child
<1>2. PICK how \in {"ran", "failed", "killed"}, gates \in BOOLEAN, passes \in BOOLEAN : ChildEnds(id, how, gates, passes)
  BY Zenon DEF Child
<1> DEFINE file == ChildFile(id, how, gates, passes)
           success == how = "ran" /\ (gates \/ ~strict(cmd.mode, id))
<1>3. runs' = [runs EXCEPT ![id] = file] /\ cmd' = collect(file, success) /\ success \in BOOLEAN
  BY <1>2, Zenon DEF ChildEnds
<1>4. /\ FilesInv /\ Command(cmd) /\ cmd.failures \in Nat /\ cmd.verify \in BOOLEAN
      /\ cmd.bad \in BOOLEAN /\ Running(cmd, epoch)
  BY Zenon DEF SuiteInv, CommandInv
<1>5. PICK n \in 0 .. Len(Selected[cmd.mode]) :
        cmd.todo = Rest(cmd.mode, n) /\ (cmd.failures = 0 => Ran(cmd.got, cmd.mode, n, epoch))
  BY <1>1, <1>4, Zenon DEF Running
<1>6. cmd.mode \in Modes /\ (cmd.verify => cmd.mode = "harden")
  BY <1>1, <1>4, Zenon DEF Running
<1>7. /\ n + 1 \in 0 .. Len(Selected[cmd.mode]) /\ n \in Nat /\ id \in ScenarioIds
      /\ id = Selected[cmd.mode][n + 1] /\ Tail(cmd.todo) = Rest(cmd.mode, n + 1)
  BY <1>1, <1>5, <1>6, NextOf, ZenonT(60)
<1> HIDE DEF id
<1>8. /\ file.is \in {"missing", "torn", "whole"}
      /\ how = "ran" => file.is = "whole" /\ file.results = <<Result(id, gates, passes)>>
  <2>1. FilesInv /\ id \in ScenarioIds
    BY <1>4, <1>7, Zenon
  <2> HIDE DEF success
  <2> QED
    BY <2>1, ChildLeaves, ZenonT(60)
<1> HIDE DEF file
<1>9. success => how = "ran" /\ (strict(cmd.mode, id) => gates)
  BY Zenon
<1> HIDE DEF success
<1>10. FilesInv'
  <2>1. runs' = [x \in ScenarioIds |-> runs'[x]] /\ \A x \in ScenarioIds : runs'[x] = IF x = id THEN file ELSE runs[x]
    BY <1>3, <1>4, <1>7, Zenon DEF FilesInv
  <2> QED
    BY <2>1, <1>1, <1>4, <1>8, Zenon DEF FilesInv
<1>11. /\ Command(cmd') /\ cmd'.mode = cmd.mode /\ cmd'.verify = cmd.verify /\ cmd'.todo = Tail(cmd.todo)
       /\ cmd'.failures = cmd.failures + (IF success THEN 0 ELSE 1)
       /\ cmd'.at \in {"next", "reread", "abort"} /\ (cmd'.at = "reread" => cmd.verify /\ cmd'.bad)
       /\ cmd'.bad \in {cmd.bad, TRUE}
       /\ file.is = "whole" => cmd'.got = cmd.got \o file.results
  BY <1>3, <1>4, <1>8, CollectFields, ZenonT(60)
<1>12. cmd'.failures \in Nat /\ (cmd'.failures = 0 => success /\ cmd.failures = 0)
  BY <1>3, <1>4, <1>11
<1>13. cmd'.failures = 0 => Ran(cmd'.got, cmd.mode, n + 1, epoch)
  <2> SUFFICES ASSUME cmd'.failures = 0 PROVE Ran(cmd'.got, cmd.mode, n + 1, epoch)
    BY Zenon
  <2> DEFINE r == Result(id, gates, passes)
  <2>1. how = "ran" /\ (strict(cmd.mode, id) => gates) /\ Ran(cmd.got, cmd.mode, n, epoch)
    BY <1>5, <1>9, <1>12, Zenon
  <2>2. cmd'.got = cmd.got \o <<r>>
    BY <2>1, <1>8, <1>11, Zenon
  <2>3. epoch \in Nat
    BY <1>4, Zenon DEF FilesInv
  <2>4. r \in Results /\ r.id = id /\ r.by = epoch /\ r.gates = gates
    BY <2>3, <1>7, Zenon DEF Result, Results
  <2> HIDE DEF r
  <2> QED
    BY <2>1, <2>2, <2>4, <1>1, <1>6, <1>7, Collects, ZenonT(60) DEF id
<1>14. Running(cmd', epoch')
  BY <1>1, <1>6, <1>7, <1>11, <1>13, Zenon DEF Running
<1>15. cmd'.at # "judge" /\ cmd'.bad \in BOOLEAN
  <2>1. cmd'.at # "judge"
    BY <1>11, Zenon
  <2> QED
    BY <2>1, <1>4, <1>11, Zenon
<1>16. CommandInv'
  BY <1>4, <1>11, <1>12, <1>14, <1>15, Zenon DEF CommandInv, Rereading, Judging, Command, Running
<1> QED
  BY <1>1, <1>10, <1>16, Zenon DEF SuiteInv, Ended

LEMMA MergeKeeps == ASSUME SuiteInv, Merge PROVE SuiteInv'
<1>1. /\ cmd.at = "next" /\ cmd.todo = <<>> /\ runs' = runs /\ epoch' = epoch
      /\ merged' = [merged EXCEPT ![cmd.mode] = Whole(cmd.got)]
  BY Zenon DEF Merge
<1>2. /\ FilesInv /\ CommandInv /\ Command(cmd) /\ cmd.failures \in Nat /\ cmd.verify \in BOOLEAN
      /\ cmd.bad \in BOOLEAN /\ Running(cmd, epoch) /\ Ended(exit)
  BY Zenon DEF SuiteInv, CommandInv
<1>3. cmd.mode \in Modes /\ (cmd.verify => cmd.mode = "harden")
  BY <1>1, <1>2, Zenon DEF Running
<1>4. cmd.failures = 0 => RanAll(cmd.got, cmd.mode, epoch)
  <2>1. PICK n \in 0 .. Len(Selected[cmd.mode]) :
          cmd.todo = Rest(cmd.mode, n) /\ (cmd.failures = 0 => Ran(cmd.got, cmd.mode, n, epoch))
    BY <1>1, <1>2, Zenon DEF Running
  <2>2. Len(cmd.todo) = 0
    BY <1>1
  <2>3. n = Len(Selected[cmd.mode])
    BY <2>1, <2>2, <1>3, NoneLeft, Zenon
  <2> QED
    BY <2>1, <2>3, Zenon DEF RanAll
<1>5. FilesInv' /\ merged'[cmd.mode] = Whole(cmd.got)
  <2>1. merged' = [m \in Modes |-> merged'[m]] /\ merged'[cmd.mode] = Whole(cmd.got)
    BY <1>1, <1>2, <1>3, Zenon DEF FilesInv
  <2> QED
    BY <2>1, <1>1, <1>2, Zenon DEF FilesInv
<1>6. CASE cmd.verify
  <2>1. cmd' = [cmd EXCEPT !.at = "reread", !.bad = @ \/ cmd.failures > 0] /\ exit' = exit
    BY <1>6, Zenon DEF Merge
  <2>2. Command(cmd')
    BY <2>1, <1>2, Zenon DEF Command, Fields
  <2>3. cmd'.at = "reread" /\ cmd'.verify = cmd.verify /\ cmd'.failures = cmd.failures
    BY <2>1, <1>2, Zenon DEF Command, Fields
  <2>4. cmd'.bad = (cmd.bad \/ cmd.failures > 0)
    BY <2>1, <1>2, Zenon DEF Command, Fields
  <2>5. cmd'.bad \in BOOLEAN
    BY <2>4, Zenon
  <2>6. ~cmd'.bad => cmd.failures = 0
    <3>1. ~cmd'.bad => ~(cmd.failures > 0)
      BY <2>4, Zenon
    <3>2. ~(cmd.failures > 0) => cmd.failures = 0
      BY <1>2
    <3> QED
      BY <3>1, <3>2, Zenon
  <2>7. merged'["harden"].is = "whole" /\ merged'["harden"].results = cmd.got
    BY <1>3, <1>5, <1>6 DEF Whole
  <2>8. Rereading(cmd', merged'["harden"], epoch')
    BY <2>3, <2>6, <2>7, <1>1, <1>3, <1>4, <1>6, Zenon DEF Rereading
  <2>9. cmd'.at \notin {"next", "judge"}
    BY <2>3, Zenon
  <2>10. CommandInv'
    BY <2>2, <2>3, <2>5, <2>8, <2>9, <1>2, Zenon DEF CommandInv, Running, Judging, Command, Rereading
  <2> QED
    BY <2>1, <2>10, <1>2, <1>5, Zenon DEF SuiteInv, Ended
<1>7. CASE ~cmd.verify
  <2>1. End(cmd.failures = 0, cmd.got)
    BY <1>7, Zenon DEF Merge
  <2> QED
    BY <2>1, <1>2, <1>3, <1>4, <1>5, <1>7, EndKeeps, Zenon
<1> QED
  BY <1>6, <1>7, Zenon

LEMMA KilledKeeps == ASSUME SuiteInv, Abort \/ Killed PROVE SuiteInv'
<1>1. End(FALSE, <<>>) /\ runs' = runs /\ epoch' = epoch
  BY Zenon DEF Abort, Killed
<1>2. FilesInv /\ CommandInv
  BY Zenon DEF SuiteInv
<1>3. merged' = merged \/ \E m : merged' = [merged EXCEPT ![m] = Torn]
  BY Zenon DEF Abort, Killed
<1>4. merged' = [m \in Modes |-> merged'[m]]
  BY <1>2, <1>3, Zenon DEF FilesInv
<1>5. FilesInv'
  BY <1>1, <1>2, <1>4, Zenon DEF FilesInv
<1> QED
  BY <1>1, <1>2, <1>5, EndKeeps, Zenon

(* Commands without a child: the running command stays idle, and their     *)
(* exits make no claim of a whole mode.                                    *)
LEMMA StaysIdle ==
  ASSUME SuiteInv, cmd.at = "idle", cmd' = cmd, FilesInv', exit'.mode \in {"ci", "single"} PROVE SuiteInv'
<1>1. CommandInv /\ cmd'.at \notin {"next", "reread", "judge"}
  BY Zenon DEF SuiteInv
<1>2. CommandInv'
  BY <1>1, Zenon DEF CommandInv, Running, Rereading, Judging, Command
<1>3. exit'.mode \notin Modes /\ exit'.mode # "verify"
  <2>1. exit'.mode # "verify"
    BY Zenon
  <2> QED
    BY <2>1, SuiteConstants, Zenon
<1> QED
  BY <1>2, <1>3, Zenon DEF SuiteInv, Ended

LEMMA RunCiKeeps == ASSUME SuiteInv, NEW verdicts, RunCi(verdicts) PROVE SuiteInv'
<1>1. FilesInv /\ cmd.at = "idle" /\ cmd' = cmd /\ runs' = runs /\ epoch' = epoch + 1
  BY Zenon DEF SuiteInv, RunCi
<1>2. /\ \E report : merged' = [merged EXCEPT !["latest"] = report]
      /\ \E won, by, entries : exit' = [NoExit EXCEPT !.ok = won, !.by = by, !.mode = "ci", !.entries = entries]
  BY Zenon DEF RunCi
<1>3. merged' = [m \in Modes |-> merged'[m]]
  BY <1>1, <1>2, Zenon DEF FilesInv
<1>4. epoch' \in Nat
  BY <1>1 DEF FilesInv
<1>5. FilesInv'
  BY <1>1, <1>3, <1>4, Zenon DEF FilesInv
<1>6. exit'.mode = "ci"
  BY <1>2, Zenon DEF NoExit
<1> QED
  BY <1>1, <1>5, <1>6, StaysIdle, Zenon

LEMMA RunCiFailsKeeps == ASSUME SuiteInv, RunCiFails PROVE SuiteInv'
<1>1. FilesInv /\ cmd.at = "idle" /\ cmd' = cmd /\ runs' = runs /\ merged' = merged /\ epoch' = epoch + 1
  BY Zenon DEF SuiteInv, RunCiFails
<1>2. epoch' \in Nat
  BY <1>1 DEF FilesInv
<1>3. FilesInv'
  BY <1>1, <1>2, Zenon DEF FilesInv
<1>4. exit'.mode = "ci"
  BY Zenon DEF RunCiFails, NoExit
<1> QED
  BY <1>1, <1>3, <1>4, StaysIdle, Zenon

LEMMA RunSingleKeeps ==
  ASSUME SuiteInv, NEW id \in ScenarioIds, NEW gates \in BOOLEAN, RunSingle(id, gates) PROVE SuiteInv'
<1> DEFINE r == [Result(id, gates, gates) EXCEPT !.by = epoch']
           file == [Whole(<<r>>) EXCEPT !.by = epoch']
<1>1. FilesInv /\ cmd.at = "idle" /\ cmd' = cmd /\ merged' = merged /\ epoch' = epoch + 1
  BY Zenon DEF SuiteInv, RunSingle
<1>2. /\ runs' = [runs EXCEPT ![id] = file]
      /\ \E won, by : exit' = [NoExit EXCEPT !.ok = won, !.by = by, !.mode = "single"]
  BY Zenon DEF RunSingle
<1> HIDE DEF r
<1>3. file.is = "whole"
  BY Zenon DEF Whole
<1> HIDE DEF file
<1>4. runs' = [x \in ScenarioIds |-> runs'[x]] /\ \A x \in ScenarioIds : runs'[x] = IF x = id THEN file ELSE runs[x]
  BY <1>1, <1>2, Zenon DEF FilesInv
<1>5. epoch' \in Nat
  BY <1>1 DEF FilesInv
<1>6. FilesInv'
  BY <1>1, <1>3, <1>4, <1>5, Zenon DEF FilesInv
<1>7. exit'.mode = "single"
  BY <1>2, Zenon DEF NoExit
<1> QED
  BY <1>1, <1>6, <1>7, StaysIdle, Zenon

LEMMA StartVerifyKeeps ==
  ASSUME SuiteInv, NEW load \in BOOLEAN, NEW bad \in BOOLEAN, StartVerify(load, bad) PROVE SuiteInv'
<1> DEFINE results == merged["harden"].results
           c == [Idle EXCEPT !.verify = TRUE, !.load = load, !.bad = bad, !.got = results, !.found = results]
           torn == merged["harden"].is = "torn"
<1>1. FilesInv /\ Ended(exit) /\ epoch' = epoch + 1 /\ merged' = merged /\ exit' = exit
  BY Zenon DEF SuiteInv, StartVerify
<1>2. cmd' = IF torn THEN [c EXCEPT !.at = "abort"]
             ELSE IF load THEN load_bench_isolated(c, "harden") ELSE [c EXCEPT !.at = "judge"]
  BY Zenon DEF StartVerify
<1>3. runs' = CleanRuns \/ runs' = runs
  BY Zenon DEF StartVerify
<1>4. FilesInv'
  <2>1. epoch' \in Nat
    BY <1>1 DEF FilesInv
  <2>2. CASE runs' = CleanRuns
    <3>1. runs' = [id \in ScenarioIds |-> runs'[id]] /\ \A id \in ScenarioIds : runs'[id].is = "missing"
      BY <2>2, Zenon DEF CleanRuns, Missing
    <3> QED
      BY <3>1, <2>1, <1>1, Zenon DEF FilesInv
  <2>3. CASE runs' = runs
    BY <2>1, <2>3, <1>1, Zenon DEF FilesInv
  <2> QED
    BY <2>2, <2>3, <1>3, Zenon
<1> HIDE DEF results
<1>5. Command(c)
  BY ZenonT(60) DEF Idle, Command, Fields
<1>6. c.verify = TRUE /\ c.load = load /\ c.bad = bad /\ c.failures = 0
  BY Zenon DEF Idle
<1> HIDE DEF c, torn
<1>7. CommandInv'
  <2>1. CASE torn
    <3>1. cmd' = [c EXCEPT !.at = "abort"]
      BY <2>1, <1>2, Zenon
    <3>2. Command(cmd')
      BY <3>1, <1>5, Zenon DEF Command, Fields
    <3>3. cmd'.at = "abort" /\ cmd'.verify = c.verify /\ cmd'.bad = c.bad /\ cmd'.failures = c.failures
      BY <3>1, <1>5, Zenon DEF Command, Fields
    <3>4. cmd'.at \notin {"next", "reread", "judge"} /\ c.failures \in Nat
      BY <3>3, <1>6
    <3> QED
      BY <3>2, <3>3, <3>4, <1>6, Zenon DEF CommandInv, Running, Rereading, Judging, Command
  <2>2. CASE ~torn /\ load
    <3>1. cmd' = load_bench_isolated(c, "harden")
      BY <2>2, <1>2, Zenon
    <3>2. c.bad \in BOOLEAN /\ c.verify \in BOOLEAN /\ "harden" \in Modes
      BY <1>6, SuiteConstants, Zenon
    <3>3. /\ Command(cmd') /\ cmd'.failures \in Nat /\ cmd'.verify \in BOOLEAN /\ cmd'.bad \in BOOLEAN
          /\ cmd'.at = "next" /\ Running(cmd', epoch')
      BY <3>1, <3>2, <1>5, Starts, Zenon
    <3> QED
      BY <3>3, Zenon DEF CommandInv, Rereading, Judging, Command, Running
  <2>3. CASE ~torn /\ ~load
    <3>1. cmd' = [c EXCEPT !.at = "judge"]
      BY <2>3, <1>2, Zenon
    <3>2. Command(cmd')
      BY <3>1, <1>5, Zenon DEF Command, Fields
    <3>3. /\ cmd'.at = "judge" /\ cmd'.verify = c.verify /\ cmd'.bad = c.bad /\ cmd'.failures = c.failures
          /\ cmd'.load = c.load
      BY <3>1, <1>5, Zenon DEF Command, Fields
    <3>4. cmd'.at \notin {"next", "reread"} /\ c.failures \in Nat
      BY <3>3, <1>6
    <3> QED
      BY <3>2, <3>3, <3>4, <2>3, <1>6, Zenon DEF CommandInv, Running, Rereading, Judging, Command
  <2> QED
    BY <2>1, <2>2, <2>3, Zenon
<1> QED
  BY <1>1, <1>4, <1>7, Zenon DEF SuiteInv, Ended

LEMMA VerifyReadsKeeps == ASSUME SuiteInv, VerifyReads PROVE SuiteInv'
<1>1. /\ cmd.at = "reread" /\ runs' = runs /\ merged' = merged /\ epoch' = epoch /\ exit' = exit
      /\ cmd' = IF merged["harden"].is = "torn" THEN [cmd EXCEPT !.at = "abort"]
                ELSE [cmd EXCEPT !.at = "judge", !.got = Reread]
  BY Zenon DEF VerifyReads
<1>2. /\ Command(cmd) /\ cmd.failures \in Nat /\ cmd.verify \in BOOLEAN /\ cmd.bad \in BOOLEAN
      /\ Rereading(cmd, merged["harden"], epoch)
  BY Zenon DEF SuiteInv, CommandInv
<1>3. CommandInv'
  <2>1. CASE merged["harden"].is = "torn"
    <3>1. cmd' = [cmd EXCEPT !.at = "abort"]
      BY <2>1, <1>1, Zenon
    <3>2. Command(cmd')
      BY <3>1, <1>2, Zenon DEF Command, Fields
    <3>3. cmd'.at = "abort" /\ cmd'.verify = cmd.verify /\ cmd'.bad = cmd.bad /\ cmd'.failures = cmd.failures
      BY <3>1, <1>2, Zenon DEF Command, Fields
    <3>4. cmd'.at \notin {"next", "reread", "judge"}
      BY <3>3, Zenon
    <3> QED
      BY <3>2, <3>3, <3>4, <1>2, Zenon DEF CommandInv, Running, Rereading, Judging, Command
  <2>2. CASE merged["harden"].is # "torn"
    <3>1. cmd' = [cmd EXCEPT !.at = "judge", !.got = Reread]
      BY <2>2, <1>1, Zenon
    <3>2. Command(cmd')
      BY <3>1, <1>2, Zenon DEF Command, Fields
    <3>3. /\ cmd'.at = "judge" /\ cmd'.verify = cmd.verify /\ cmd'.bad = cmd.bad /\ cmd'.failures = cmd.failures
          /\ cmd'.got = Reread
      BY <3>1, <1>2, Zenon DEF Command, Fields
    <3>4. cmd'.at \notin {"next", "reread"}
      BY <3>3, Zenon
    <3>5. cmd.verify /\ (~cmd.bad => merged["harden"].is = "whole" /\ RanAll(merged["harden"].results, "harden", epoch))
      BY <1>1, <1>2, Zenon DEF Rereading
    <3>6. merged["harden"].is = "whole" => Reread = merged["harden"].results
      BY Zenon DEF Reread
    <3>7. Judging(cmd', epoch')
      BY <3>3, <3>5, <3>6, <1>1, Zenon DEF Judging
    <3> QED
      BY <3>2, <3>3, <3>4, <3>7, <1>2, Zenon DEF CommandInv, Running, Rereading, Judging, Command
  <2> QED
    BY <2>1, <2>2, Zenon
<1> QED
  BY <1>1, <1>3, Zenon DEF SuiteInv, FilesInv, Ended

LEMMA VerifyJudgesKeeps == ASSUME SuiteInv, VerifyJudges PROVE SuiteInv'
<1>1. cmd.at = "judge" /\ runs' = runs /\ merged' = merged /\ epoch' = epoch
  BY Zenon DEF VerifyJudges
<1>2. FilesInv /\ CommandInv /\ Judging(cmd, epoch)
  BY Zenon DEF SuiteInv, CommandInv
<1>3. FilesInv'
  BY <1>1, <1>2, Zenon DEF FilesInv
<1>4. cmd.verify /\ (cmd.load /\ ~cmd.bad => RanAll(cmd.got, "harden", epoch))
  BY <1>1, <1>2, Zenon DEF Judging
<1>5. CASE End(FALSE, <<>>)
  BY <1>2, <1>3, <1>5, EndKeeps, Zenon
<1> DEFINE won == ~cmd.bad /\ Judged(<<cmd.got, Aggregate("stress").results, Aggregate("latest").results>>)
<1>6. CASE End(won, cmd.got)
  <2>1. won => ~cmd.bad
    BY Zenon
  <2> HIDE DEF won
  <2> QED
    BY <2>1, <1>2, <1>3, <1>4, <1>6, EndKeeps, Zenon
<1>7. End(FALSE, <<>>) \/ End(won, cmd.got)
  BY Zenon DEF VerifyJudges
<1> QED
  BY <1>5, <1>6, <1>7, Zenon

LEMMA SuiteInitial == SuiteInit => SuiteInv
<1> SUFFICES ASSUME SuiteInit PROVE SuiteInv
  BY Zenon
<1>1. cmd = Idle /\ epoch = 0 /\ exit = NoExit /\ runs = CleanRuns /\ merged = [m \in Modes |-> Missing]
  BY Zenon DEF SuiteInit, CleanRuns
<1>2. /\ runs = [id \in ScenarioIds |-> runs[id]] /\ \A id \in ScenarioIds : runs[id].is = "missing"
      /\ merged = [m \in Modes |-> merged[m]] /\ epoch \in Nat
  BY <1>1, Zenon DEF CleanRuns, Missing
<1>3. CommandInv
  BY <1>1, IdleCommand, Zenon DEF CommandInv, Running, Rereading, Judging
<1>4. exit.ok = FALSE
  BY <1>1, Zenon DEF NoExit
<1> QED
  BY <1>2, <1>3, <1>4, Zenon DEF SuiteInv, FilesInv, Ended

LEMMA SuiteSteps == SuiteInv /\ [SuiteNext]_suiteVars => SuiteInv'
<1> SUFFICES ASSUME SuiteInv, [SuiteNext]_suiteVars PROVE SuiteInv'
  BY Zenon
<1>1. ASSUME NEW m \in Modes, StartBench(m) PROVE SuiteInv'
  BY <1>1, StartBenchKeeps, Zenon
<1>2. ASSUME NEW load \in BOOLEAN, NEW bad \in BOOLEAN, StartVerify(load, bad) PROVE SuiteInv'
  BY <1>2, StartVerifyKeeps, Zenon
<1>3. ASSUME RunCiFails \/ \E verdicts : RunCi(verdicts) PROVE SuiteInv'
  BY <1>3, RunCiKeeps, RunCiFailsKeeps, Zenon
<1>4. ASSUME NEW id \in ScenarioIds, NEW gates \in BOOLEAN, RunSingle(id, gates) PROVE SuiteInv'
  BY <1>4, RunSingleKeeps, Zenon
<1>5. CASE Skip
  BY <1>5, SkipKeeps, Zenon
<1>6. CASE Child
  BY <1>6, ChildKeeps, Zenon
<1>7. CASE Merge
  BY <1>7, MergeKeeps, Zenon
<1>8. CASE Abort \/ Killed
  BY <1>8, KilledKeeps, Zenon
<1>9. CASE VerifyReads
  BY <1>9, VerifyReadsKeeps, Zenon
<1>10. CASE VerifyJudges
  BY <1>10, VerifyJudgesKeeps, Zenon
<1>11. CASE UNCHANGED suiteVars
  BY <1>11, ZenonT(60) DEF suiteVars, SuiteInv, FilesInv, CommandInv, Ended, Command, Running, Rereading, Judging
<1> QED
  BY <1>1, <1>2, <1>3, <1>4, <1>5, <1>6, <1>7, <1>8, <1>9, <1>10, <1>11, Zenon DEF SuiteNext

(* For all modes, scenarios and hosts, and whatever earlier commands left  *)
(* behind or were killed at: a load run that ends well has the results of  *)
(* exactly the scenarios that were due, in order, from this very command,  *)
(* within their gates where these are strict; and so has a harden-verify   *)
(* that ends well with its load run.                                       *)
THEOREM ExitsHonest == SuiteSpec => []ExitHonest
<1>1. SuiteInv => ExitHonest
  <2> SUFFICES ASSUME SuiteInv PROVE ExitHonest
    BY Zenon
  <2>1. Ended(exit)
    BY Zenon DEF SuiteInv
  <2>2. BenchHonest
    <3> SUFFICES ASSUME exit.ok, exit.mode \in Modes
                 PROVE Covers(exit.entries, exit.mode) /\ By(exit.entries, exit.mode, exit.by)
      BY Zenon DEF BenchHonest, By
    <3> QED
      BY <2>1, AllRan, Zenon DEF Ended
  <2>3. VerifyHonest
    <3>1. "harden" \in Modes /\ "harden" \in Strict
      BY SuiteConstants, Zenon
    <3> SUFFICES ASSUME exit.ok, exit.mode = "verify", exit.load
                 PROVE Covers(exit.entries, "harden") /\ By(exit.entries, "harden", exit.by)
      BY <3>1, Zenon DEF VerifyHonest, By, strict
    <3> QED
      BY <2>1, <3>1, AllRan, Zenon DEF Ended
  <2> QED
    BY <2>2, <2>3, Zenon DEF ExitHonest
<1> QED
  BY <1>1, SuiteInitial, SuiteSteps, PTL DEF SuiteSpec
=============================================================================
